----------------------------- MODULE HttpProofs -----------------------------
(***************************************************************************)
(* Proofs about HttpParser, for any streams of messages, any cut of their  *)
(* texts and any block size: no buffer is written beyond its block, what   *)
(* the two callbacks are given is what was sent, and a buffer that is not  *)
(* there is read only where a line without a colon is the cause.           *)
(***************************************************************************)
EXTENDS HttpParser, SequenceTheorems, WellFoundedInduction, TLAPS

-----------------------------------------------------------------------------
(* A set of numbers that is not empty has a least one.                     *)
LEMMA LeastOf ==
  ASSUME NEW S \in SUBSET Nat, S # {}
  PROVE  \E n \in S : \A m \in S : n <= m
<1>1. PICK n \in S : \A m \in S : ~(<<m, n>> \in OpToRel(<, Nat))
  BY NatLessThanWellFounded, WFMin
<1>2. ASSUME NEW m \in S, m < n PROVE FALSE
  <2>1. OpToRel(<, Nat) = {ss \in Nat \X Nat : ss[1] < ss[2]}
    BY DEF OpToRel
  <2>2. <<m, n>> \in {ss \in Nat \X Nat : ss[1] < ss[2]}
    BY <1>2
  <2> QED
    BY <1>1, <2>1, <2>2, Zenon
<1> QED
  BY <1>2

(***************************************************************************)
(* FlattenSeq is defined by recursion from the left; the input is read     *)
(* from there as well, so what is left of it is said by the tail.          *)
(***************************************************************************)
Flattens(g, s) ==
  g = [i \in 1..Len(s) |-> IF i = 1 THEN s[i] ELSE g[i - 1] \o s[i]]

LEMMA FlattensOnce ==
  ASSUME NEW S, NEW s \in Seq(Seq(S)), NEW g, NEW h, Flattens(g, s), Flattens(h, s)
  PROVE  g = h
<1> DEFINE D == {i \in Nat : i \in 1..Len(s) /\ g[i] # h[i]}
<1>1. /\ g = [i \in 1..Len(s) |-> IF i = 1 THEN s[i] ELSE g[i - 1] \o s[i]]
      /\ h = [i \in 1..Len(s) |-> IF i = 1 THEN s[i] ELSE h[i - 1] \o s[i]]
  BY DEF Flattens
<1>2. ASSUME D # {} PROVE FALSE
  <2>1. PICK n \in D : \A m \in D : n <= m
    <3>1. D \in SUBSET Nat
      OBVIOUS
    <3> HIDE DEF D
    <3> QED
      BY <1>2, <3>1, LeastOf
  <2>2. n \in 1..Len(s) /\ g[n] # h[n]
    OBVIOUS
  <2>3. g[n] = (IF n = 1 THEN s[n] ELSE g[n - 1] \o s[n])
        /\ h[n] = (IF n = 1 THEN s[n] ELSE h[n - 1] \o s[n])
    BY <1>1, <2>2
  <2>4. n # 1 => n - 1 \in Nat /\ n - 1 \in 1..Len(s) /\ n - 1 \notin D
    <3>1. n # 1 => n - 1 \in Nat /\ n - 1 \in 1..Len(s) /\ ~(n <= n - 1)
      BY <2>2
    <3> HIDE DEF D
    <3> QED
      BY <2>1, <3>1
  <2> QED
    BY <2>2, <2>3, <2>4
<1>3. \A i \in 1..Len(s) : g[i] = h[i]
  BY <1>2
<1>4. DOMAIN g = 1..Len(s) /\ DOMAIN h = 1..Len(s)
  BY <1>1
<1>5. g = [i \in 1..Len(s) |-> g[i]] /\ h = [i \in 1..Len(s) |-> h[i]]
  BY <1>1, <1>4
<1> QED
  BY <1>3, <1>5

(* The step: from what flattens the tail to what flattens the whole.       *)
LEMMA FlattensTail ==
  ASSUME NEW S, NEW s \in Seq(Seq(S)), s # <<>>,
         NEW h, Flattens(h, Tail(s)), \A i \in 1..Len(Tail(s)) : h[i] \in Seq(S)
  PROVE  LET g == [i \in 1..Len(s) |-> IF i = 1 THEN s[1] ELSE s[1] \o h[i - 1]]
         IN  Flattens(g, s) /\ \A i \in 1..Len(s) : g[i] \in Seq(S)
<1> DEFINE u == Tail(s)
           g == [i \in 1..Len(s) |-> IF i = 1 THEN s[1] ELSE s[1] \o h[i - 1]]
           n == Len(s)
<1>1. /\ n \in Nat \ {0} /\ Len(u) = n - 1
      /\ \A i \in 1..n : s[i] \in Seq(S)
      /\ \A i \in 1..(n - 1) : u[i] = s[i + 1]
  BY HeadTailProperties, ElementOfSeq, LenProperties, EmptySeq
<1>2. \A i \in 1..(n - 1) : h[i] = (IF i = 1 THEN u[i] ELSE h[i - 1] \o u[i]) /\ h[i] \in Seq(S)
  <2>1. h = [i \in 1..Len(u) |-> IF i = 1 THEN u[i] ELSE h[i - 1] \o u[i]]
    BY DEF Flattens
  <2> HIDE DEF u
  <2>2. \A i \in 1..Len(u) : h[i] = (IF i = 1 THEN u[i] ELSE h[i - 1] \o u[i])
    BY <2>1
  <2> QED
    BY <1>1, <2>2 DEF u
<1> HIDE DEF u, n
<1>3. ASSUME NEW i \in 1..n
      PROVE  /\ g[i] = (IF i = 1 THEN s[i] ELSE g[i - 1] \o s[i])
             /\ g[i] \in Seq(S)
  <2>1. CASE i = 1
    BY <1>1, <2>1 DEF n
  <2>2. CASE i # 1
    <3>1. i - 1 \in 1..(n - 1) /\ i - 1 \in 1..n /\ (i # 2 => i - 2 \in 1..(n - 1))
          /\ (i - 1) + 1 = i /\ (i - 1) - 1 = i - 2 /\ (i - 1 = 1 <=> i = 2)
      BY ONLY <1>1, <2>2, i \in 1..n
    <3>2. g[i] = s[1] \o h[i - 1]
      BY <2>2 DEF n
    <3>3. g[i - 1] = IF i - 1 = 1 THEN s[1] ELSE s[1] \o h[i - 2]
      BY <3>1 DEF n
    <3>4. h[i - 1] = (IF i = 2 THEN u[i - 1] ELSE h[i - 2] \o u[i - 1]) /\ h[i - 1] \in Seq(S)
      <4>1. h[i - 1] = (IF i - 1 = 1 THEN u[i - 1] ELSE h[(i - 1) - 1] \o u[i - 1])
            /\ h[i - 1] \in Seq(S)
        BY <1>2, <3>1
      <4> QED
        BY <3>1, <4>1
    <3>5. u[i - 1] = s[i] /\ s[i] \in Seq(S) /\ s[1] \in Seq(S)
      <4>1. 1 \in 1..n
        BY <1>1
      <4>2. u[i - 1] = s[(i - 1) + 1]
        BY <1>1, <3>1
      <4> QED
        BY <1>1, <3>1, <4>1, <4>2
    <3> HIDE DEF g
    <3>6. CASE i = 2
      BY <3>1, <3>2, <3>3, <3>4, <3>5, <3>6, ConcatProperties
    <3>7. CASE i # 2
      <4>1. h[i - 2] \in Seq(S)
        BY <1>2, <3>1, <3>7
      <4>2. (s[1] \o h[i - 2]) \o s[i] = s[1] \o (h[i - 2] \o s[i])
        <5> DEFINE a == s[1]
                   b == h[i - 2]
                   c == s[i]
        <5>1. a \in Seq(S) /\ b \in Seq(S) /\ c \in Seq(S)
          BY <3>5, <4>1
        <5> HIDE DEF a, b, c
        <5>2. (a \o b) \o c = a \o (b \o c)
          BY ONLY <5>1, ConcatAssociative, SMTT(60)
        <5> QED
          BY ONLY <5>2 DEF a, b, c
      <4>3. s[1] \o h[i - 1] \in Seq(S)
        BY <3>4, <3>5, ConcatProperties
      <4> QED
        BY <2>2, <3>1, <3>2, <3>3, <3>4, <3>5, <3>7, <4>2, <4>3
    <3> QED
      BY <3>6, <3>7
  <2> QED
    BY <2>1, <2>2
<1>4. g = [i \in 1..n |-> IF i = 1 THEN s[i] ELSE g[i - 1] \o s[i]]
  <2> DEFINE e == [i \in 1..n |-> IF i = 1 THEN s[i] ELSE g[i - 1] \o s[i]]
  <2>1. g = [i \in 1..n |-> g[i]]
    BY DEF n
  <2> HIDE DEF g
  <2>2. e = [i \in 1..n |-> g[i]]
    BY <1>3
  <2> QED
    BY <2>1, <2>2
<1> HIDE DEF g
<1>5. Flattens(g, s) /\ \A i \in 1..Len(s) : g[i] \in Seq(S)
  BY <1>3, <1>4 DEF Flattens, n
<1> QED
  BY <1>5 DEF g

LEMMA FlattensSome ==
  ASSUME NEW S
  PROVE  \A s \in Seq(Seq(S)) :
           \E g : Flattens(g, s) /\ \A i \in 1..Len(s) : g[i] \in Seq(S)
<1> DEFINE Has(s) == \E g : Flattens(g, s) /\ \A i \in 1..Len(s) : g[i] \in Seq(S)
           D == {n \in Nat : \E s \in Seq(Seq(S)) : Len(s) = n /\ ~Has(s)}
<1>1. ASSUME D # {} PROVE FALSE
  <2>1. PICK n \in D : \A m \in D : n <= m
    <3>1. D \in SUBSET Nat
      OBVIOUS
    <3> HIDE DEF D
    <3> QED
      BY <1>1, <3>1, LeastOf
  <2>2. PICK s \in Seq(Seq(S)) : Len(s) = n /\ ~Has(s)
    OBVIOUS
  <2>3. CASE s = <<>>
    <3> DEFINE g == [i \in 1..Len(s) |-> 0]
    <3>1. Len(s) = 0 /\ 1..Len(s) = {}
      BY <2>3
    <3>2. Flattens(g, s)
      BY <3>1 DEF Flattens
    <3> QED
      BY <2>2, <3>1, <3>2
  <2>4. CASE s # <<>>
    <3> DEFINE u == Tail(s)
    <3>1. u \in Seq(Seq(S)) /\ Len(u) = n - 1 /\ n - 1 \in Nat /\ ~(n <= n - 1)
      BY <2>2, <2>4, HeadTailProperties, EmptySeq
    <3>2. n - 1 \notin D
      <4> HIDE DEF D
      <4> QED
        BY <2>1, <3>1
    <3> HIDE DEF u
    <3>3. Has(u)
      BY <3>1, <3>2
    <3>4. PICK h : Flattens(h, u) /\ \A i \in 1..Len(u) : h[i] \in Seq(S)
      BY <3>3
    <3> DEFINE g == [i \in 1..Len(s) |-> IF i = 1 THEN s[1] ELSE s[1] \o h[i - 1]]
    <3>5. Flattens(g, s) /\ \A i \in 1..Len(s) : g[i] \in Seq(S)
      BY <2>4, <3>4, FlattensTail DEF u
    <3>6. Has(s)
      <4> HIDE DEF g
      <4> QED
        BY <3>5
    <3> HIDE DEF Has
    <3> QED
      BY <2>2, <3>6
  <2> QED
    BY <2>3, <2>4
<1>2. \A s \in Seq(Seq(S)) : Has(s)
  <2>1. \A s \in Seq(Seq(S)) : Len(s) \in Nat
    BY LenProperties
  <2> HIDE DEF Has
  <2> QED
    BY <1>1, <2>1
<1> QED
  BY <1>2

LEMMA FlattenIs ==
  ASSUME NEW S, NEW s \in Seq(Seq(S)), s # <<>>, NEW g, Flattens(g, s)
  PROVE  FlattenSeq(s) = g[Len(s)]
<1>1. Len(s) # 0
  BY EmptySeq
<1> DEFINE G == CHOOSE f : f = [i \in 1..Len(s) |-> IF i = 1 THEN s[i] ELSE f[i - 1] \o s[i]]
<1>2. FlattenSeq(s) = G[Len(s)]
  BY <1>1 DEF FlattenSeq
<1>3. Flattens(G, s)
  BY Zenon DEF Flattens
<1>4. G = g
  <2> HIDE DEF G
  <2> QED
    BY <1>3, FlattensOnce
<1> QED
  BY <1>2, <1>4

LEMMA Flattened ==
  ASSUME NEW S, NEW s \in Seq(Seq(S))
  PROVE  /\ FlattenSeq(s) \in Seq(S)
         /\ s = <<>> => FlattenSeq(s) = <<>>
         /\ s # <<>> => FlattenSeq(s) = Head(s) \o FlattenSeq(Tail(s))
<1>1. CASE s = <<>>
  <2>1. FlattenSeq(s) = <<>>
    BY <1>1 DEF FlattenSeq
  <2> QED
    BY <1>1, <2>1, EmptySeq
<1>2. CASE s # <<>>
  <2> DEFINE u == Tail(s)
             n == Len(s)
  <2>1. /\ n \in Nat \ {0} /\ u \in Seq(Seq(S)) /\ Len(u) = n - 1
        /\ s[1] \in Seq(S) /\ Head(s) = s[1]
    BY <1>2, HeadTailProperties, ElementOfSeq, LenProperties, EmptySeq
  <2> HIDE DEF u
  <2>2. PICK h : Flattens(h, u) /\ \A i \in 1..Len(u) : h[i] \in Seq(S)
    BY <2>1, FlattensSome
  <2> DEFINE g == [i \in 1..n |-> IF i = 1 THEN s[1] ELSE s[1] \o h[i - 1]]
  <2>3. Flattens(g, s) /\ \A i \in 1..Len(s) : g[i] \in Seq(S)
    BY <1>2, <2>2, FlattensTail DEF u
  <2>4. FlattenSeq(s) = g[n]
    <3> HIDE DEF g
    <3> QED
      BY <1>2, <2>3, FlattenIs
  <2>5. g[n] = (IF n = 1 THEN s[1] ELSE s[1] \o h[n - 1]) /\ g[n] \in Seq(S)
    <3>1. n \in 1..n
      BY <2>1
    <3> HIDE DEF n
    <3>2. g[n] = (IF n = 1 THEN s[1] ELSE s[1] \o h[n - 1])
      BY <3>1
    <3> QED
      BY <2>3, <3>1, <3>2 DEF n
  <2> HIDE DEF g
  <2>6. FlattenSeq(s) = Head(s) \o FlattenSeq(u)
    <3>1. CASE u = <<>>
      <4>1. n = 1 /\ FlattenSeq(u) = <<>>
        <5>1. Len(u) = 0
          BY <3>1
        <5> QED
          BY <2>1, <3>1, <5>1 DEF FlattenSeq
      <4> QED
        BY <2>1, <2>4, <2>5, <4>1, ConcatEmptySeq
    <3>2. CASE u # <<>>
      <4>1. FlattenSeq(u) = h[n - 1] /\ n # 1
        <5>1. Len(u) # 0
          BY <2>1, <3>2, EmptySeq
        <5>2. FlattenSeq(u) = h[Len(u)]
          BY <2>1, <2>2, <3>2, FlattenIs
        <5> QED
          BY <2>1, <5>1, <5>2
      <4> QED
        BY <2>1, <2>4, <2>5, <4>1
    <3> QED
      BY <3>1, <3>2
  <2> QED
    BY <1>2, <2>4, <2>5, <2>6 DEF u
<1> QED
  BY <1>1, <1>2

From(s, j) == SubSeq(s, j + 1, Len(s))
Flat(s, j) == FlattenSeq(From(s, j))

LEMMA FromStep ==
  ASSUME NEW S, NEW s \in Seq(S), NEW j \in 0..Len(s)
  PROVE  /\ Len(s) \in Nat /\ From(s, j) \in Seq(S) /\ Len(From(s, j)) = Len(s) - j
         /\ From(s, 0) = s
         /\ j = Len(s) => From(s, j) = <<>>
         /\ j < Len(s) => /\ s[j + 1] \in S
                          /\ From(s, j) # <<>> /\ Head(From(s, j)) = s[j + 1]
                          /\ Tail(From(s, j)) = From(s, j + 1)
<1>1. Len(s) \in Nat
  BY LenProperties
<1>2. From(s, j) \in Seq(S) /\ Len(From(s, j)) = Len(s) - j
  <2>1. \A i \in (j + 1)..Len(s) : s[i] \in S
    BY ElementOfSeq
  <2>2. j + 1 \in Int /\ Len(s) \in Int
    BY <1>1
  <2>3. /\ SubSeq(s, j + 1, Len(s)) \in Seq(S)
        /\ Len(SubSeq(s, j + 1, Len(s))) = IF j + 1 <= Len(s) THEN Len(s) - (j + 1) + 1 ELSE 0
    BY ONLY <2>1, <2>2, SubSeqProperties
  <2> QED
    BY ONLY <1>1, <2>3, j \in 0..Len(s) DEF From
<1>3. From(s, 0) = s
  BY SubSeqFull DEF From
<1>4. j = Len(s) => From(s, j) = <<>>
  BY <1>1, SubSeqEmpty DEF From
<1>5. ASSUME j < Len(s)
      PROVE  /\ s[j + 1] \in S
             /\ From(s, j) # <<>> /\ Head(From(s, j)) = s[j + 1]
             /\ Tail(From(s, j)) = From(s, j + 1)
  <2>1. j + 1 \in 1..Len(s) /\ Len(s) \in (j + 1)..Len(s)
    BY <1>1, <1>5
  <2>2. s[j + 1] \in S
    BY <2>1, ElementOfSeq
  <2>3. /\ Head(SubSeq(s, j + 1, Len(s))) = s[j + 1]
        /\ Tail(SubSeq(s, j + 1, Len(s))) = SubSeq(s, (j + 1) + 1, Len(s))
    <3> DEFINE m == j + 1
               n == Len(s)
    <3>1. m \in 1..Len(s) /\ n \in m..Len(s)
      BY <2>1
    <3> HIDE DEF m, n
    <3>2. Head(SubSeq(s, m, n)) = s[m] /\ Tail(SubSeq(s, m, n)) = SubSeq(s, m + 1, n)
      BY <3>1, HeadTailOfSubSeq
    <3> QED
      BY <3>2 DEF m, n
  <2>4. Len(From(s, j)) # 0
    BY <1>1, <1>2, <1>5
  <2>5. From(s, j) # <<>>
    BY <2>4
  <2> QED
    BY <2>2, <2>3, <2>5 DEF From
<1> QED
  BY <1>1, <1>2, <1>3, <1>4, <1>5

LEMMA FlatStep ==
  ASSUME NEW S, NEW s \in Seq(Seq(S)), NEW j \in 0..Len(s)
  PROVE  /\ Flat(s, j) \in Seq(S)
         /\ Flat(s, 0) = FlattenSeq(s)
         /\ j = Len(s) => Flat(s, j) = <<>>
         /\ j < Len(s) => s[j + 1] \in Seq(S) /\ Flat(s, j) = s[j + 1] \o Flat(s, j + 1)
<1> DEFINE t == From(s, j)
<1>1. /\ t \in Seq(Seq(S)) /\ From(s, 0) = s
      /\ j = Len(s) => t = <<>>
      /\ j < Len(s) => s[j + 1] \in Seq(S) /\ t # <<>> /\ Head(t) = s[j + 1]
                       /\ Tail(t) = From(s, j + 1)
  BY FromStep
<1> HIDE DEF t
<1>2. /\ FlattenSeq(t) \in Seq(S) /\ (t = <<>> => FlattenSeq(t) = <<>>)
      /\ t # <<>> => FlattenSeq(t) = Head(t) \o FlattenSeq(Tail(t))
  BY <1>1, Flattened
<1>3. Flat(s, j) = FlattenSeq(t) /\ Flat(s, j + 1) = FlattenSeq(From(s, j + 1))
      /\ Flat(s, 0) = FlattenSeq(From(s, 0))
  BY DEF Flat, t
<1> QED
  BY <1>1, <1>2, <1>3

-----------------------------------------------------------------------------
(***************************************************************************)
(* The calls of a row of pairs.  Before(pairs, q) of them are made for its *)
(* first q pairs.                                                          *)
(***************************************************************************)
PairSet       == [name : Text, value : Text, colon : BOOLEAN]
Width(p)      == IF p.colon THEN 2 ELSE 1
PairRows(pairs)  == [i \in DOMAIN pairs |-> PairCall(pairs[i])]
Before(pairs, q) == Len(PairCalls(pairs)) - Len(Flat(PairRows(pairs), q))

LEMMA CallTyped ==
  ASSUME NEW cb \in CallNames, NEW text \in Text
  PROVE  Call(cb, text) \in CallSet /\ Call(cb, text).cb = cb /\ Call(cb, text).text = text
BY DEF Call, CallSet

LEMMA PairCallIs ==
  ASSUME NEW p \in PairSet
  PROVE  /\ PairCall(p) \in Seq(CallSet) /\ Len(PairCall(p)) = Width(p)
         /\ PairCall(p)[1] = Call("field", p.name)
         /\ p.colon => PairCall(p)[2] = Call("value", p.value)
         /\ Width(p) \in {1, 2} /\ (p.colon => Width(p) = 2) /\ (~p.colon => Width(p) = 1)
<1> DEFINE f == Call("field", p.name)
           v == Call("value", p.value)
<1>1. p.name \in Text /\ p.value \in Text
  BY DEF PairSet
<1>2. f \in CallSet /\ v \in CallSet
  BY <1>1, CallTyped DEF CallNames
<1> HIDE DEF f, v
<1>3. CASE p.colon
  <2>1. PairCall(p) = <<f, v>> /\ Width(p) = 2
    BY <1>3, Zenon DEF PairCall, Width, f, v
  <2>2. <<f, v>> \in Seq(CallSet) /\ Len(<<f, v>>) = 2 /\ <<f, v>>[1] = f /\ <<f, v>>[2] = v
    BY ONLY <1>2
  <2>3. PairCall(p) \in Seq(CallSet) /\ Len(PairCall(p)) = 2 /\ PairCall(p)[1] = f
        /\ PairCall(p)[2] = v
    BY ONLY <2>1, <2>2
  <2> QED
    BY <1>3, <2>1, <2>3, Zenon DEF f, v
<1>4. CASE ~p.colon
  <2>1. PairCall(p) = <<f>> /\ Width(p) = 1
    BY <1>4, Zenon DEF PairCall, Width, f
  <2>2. <<f>> \in Seq(CallSet) /\ Len(<<f>>) = 1 /\ <<f>>[1] = f
    BY ONLY <1>2
  <2>3. PairCall(p) \in Seq(CallSet) /\ Len(PairCall(p)) = 1 /\ PairCall(p)[1] = f
    BY ONLY <2>1, <2>2
  <2> QED
    BY <1>4, <2>1, <2>3, Zenon DEF f
<1> QED
  BY <1>3, <1>4

LEMMA RowsOfPairs ==
  ASSUME NEW pairs \in Seq(PairSet)
  PROVE  /\ Len(pairs) \in Nat /\ PairRows(pairs) \in Seq(Seq(CallSet))
         /\ Len(PairRows(pairs)) = Len(pairs)
         /\ \A q \in 1..Len(pairs) : pairs[q] \in PairSet /\ PairRows(pairs)[q] = PairCall(pairs[q])
         /\ PairCalls(pairs) = FlattenSeq(PairRows(pairs))
<1> DEFINE n == Len(pairs)
           r == PairRows(pairs)
<1>1. n \in Nat /\ DOMAIN pairs = 1..n /\ \A q \in 1..n : pairs[q] \in PairSet
  BY LenProperties, ElementOfSeq
<1> HIDE DEF n
<1>2. r = [i \in 1..n |-> PairCall(pairs[i])]
  BY <1>1 DEF PairRows
<1>3. \A q \in 1..n : PairCall(pairs[q]) \in Seq(CallSet)
  BY <1>1, PairCallIs
<1>4. r \in [1..n -> Seq(CallSet)] /\ \A q \in 1..n : r[q] = PairCall(pairs[q])
  BY ONLY <1>2, <1>3
<1>5. r \in Seq(Seq(CallSet)) /\ Len(r) = n
  BY ONLY <1>1, <1>4
<1>6. PairCalls(pairs) = FlattenSeq(r)
  BY DEF PairCalls, PairRows
<1> QED
  BY ONLY <1>1, <1>4, <1>5, <1>6 DEF n, r

LEMMA PairCallsAt ==
  ASSUME NEW pairs \in Seq(PairSet)
  PROVE  /\ Len(pairs) \in Nat /\ PairCalls(pairs) \in Seq(CallSet)
         /\ Before(pairs, 0) = 0 /\ Before(pairs, Len(pairs)) = Len(PairCalls(pairs))
         /\ \A q \in 0..Len(pairs) : Before(pairs, q) \in 0..Len(PairCalls(pairs))
         /\ \A q \in 1..Len(pairs) :
              /\ Before(pairs, q) = Before(pairs, q - 1) + Width(pairs[q])
              /\ PairCalls(pairs)[Before(pairs, q - 1) + 1] = Call("field", pairs[q].name)
              /\ pairs[q].colon => PairCalls(pairs)[Before(pairs, q - 1) + 2] = Call("value", pairs[q].value)
<1> DEFINE n    == Len(pairs)
           r    == PairRows(pairs)
           s    == PairCalls(pairs)
           F(q) == Flat(r, q)
           B(q) == Len(s) - Len(F(q))
           Behind(q) == \A i \in 1..Len(F(q)) : s[B(q) + i] = F(q)[i]
<1>1. /\ n \in Nat /\ r \in Seq(Seq(CallSet)) /\ Len(r) = n
      /\ \A q \in 1..n : pairs[q] \in PairSet /\ r[q] = PairCall(pairs[q])
      /\ s = FlattenSeq(r)
  BY RowsOfPairs
<1> HIDE DEF n, r, s
<1>2. ASSUME NEW q \in 0..n
      PROVE  /\ F(q) \in Seq(CallSet) /\ F(0) = s /\ (q = n => F(q) = <<>>)
             /\ q < n => F(q) = r[q + 1] \o F(q + 1)
  BY <1>1, FlatStep
<1>3. s \in Seq(CallSet) /\ Len(s) \in Nat /\ B(0) = 0 /\ F(0) = s
  <2>1. F(0) = s /\ F(0) \in Seq(CallSet)
    <3>1. 0 \in 0..n
      BY <1>1
    <3> HIDE DEF F
    <3> QED
      BY <1>2, <3>1, Zenon
  <2> HIDE DEF F
  <2> QED
    BY ONLY <2>1
<1>4. ASSUME NEW q \in 0..n
      PROVE  F(q) \in Seq(CallSet) /\ Len(F(q)) \in Nat
  <2>1. F(q) \in Seq(CallSet)
    BY <1>2
  <2> HIDE DEF F
  <2> QED
    BY ONLY <2>1
<1>5. ASSUME NEW q \in 1..n
      PROVE  LET w == Width(pairs[q])
             IN  /\ w \in {1, 2} /\ (pairs[q].colon => w = 2)
                 /\ B(q) = B(q - 1) + w /\ Len(F(q - 1)) = w + Len(F(q))
                 /\ F(q - 1)[1] = Call("field", pairs[q].name)
                 /\ pairs[q].colon => F(q - 1)[2] = Call("value", pairs[q].value)
                 /\ \A i \in 1..Len(F(q)) : F(q - 1)[w + i] = F(q)[i]
  <2> DEFINE w == Width(pairs[q])
             row == PairCall(pairs[q])
             x == F(q - 1)
             y == F(q)
  <2>1. q - 1 \in 0..n /\ q \in 0..n /\ q - 1 < n /\ (q - 1) + 1 = q
    BY <1>1
  <2>2. x = row \o y /\ y \in Seq(CallSet)
    <3>1. \A k \in 0..n : k < n => F(k) = r[k + 1] \o F(k + 1)
      BY <1>2
    <3> HIDE DEF F
    <3> QED
      BY ONLY <1>1, <2>1, <3>1, <1>4
  <2>3. /\ row \in Seq(CallSet) /\ Len(row) = w /\ row[1] = Call("field", pairs[q].name)
        /\ pairs[q].colon => row[2] = Call("value", pairs[q].value)
        /\ w \in {1, 2} /\ (pairs[q].colon => w = 2)
    BY <1>1, PairCallIs
  <2> HIDE DEF x, y, row, w
  <2>4. /\ Len(x) = w + Len(y) /\ Len(y) \in Nat /\ \A i \in 1..w : x[i] = row[i]
        /\ \A i \in 1..Len(y) : x[w + i] = y[i]
    <3>1. /\ Len(x) = Len(row) + Len(y) /\ Len(y) \in Nat /\ \A i \in 1..Len(row) : x[i] = row[i]
          /\ \A i \in 1..Len(y) : x[Len(row) + i] = y[i]
      BY ONLY <2>2, <2>3
    <3> QED
      BY ONLY <2>3, <3>1
  <2>5. 1 \in 1..w /\ (w = 2 => 2 \in 1..w)
    BY ONLY <2>3
  <2>6. /\ x[1] = Call("field", pairs[q].name)
        /\ pairs[q].colon => x[2] = Call("value", pairs[q].value)
    <3>1. x[1] = row[1] /\ (w = 2 => x[2] = row[2])
      BY ONLY <2>4, <2>5
    <3> QED
      BY <2>3, <3>1, Zenon
  <2>7. Len(s) - Len(y) = Len(s) - Len(x) + w
    BY ONLY <1>3, <2>3, <2>4
  <2> QED
    BY ONLY <2>3, <2>4, <2>6, <2>7, Zenon DEF x, y, w
<1> HIDE DEF F
<1>6. \A q \in 0..n : Behind(q) /\ Len(F(q)) <= Len(s)
  <2> DEFINE D == {q \in Nat : q <= n /\ ~(Behind(q) /\ Len(F(q)) <= Len(s))}
  <2>1. ASSUME D # {} PROVE FALSE
    <3>1. PICK q \in D : \A k \in D : q <= k
      <4>1. D \in SUBSET Nat
        OBVIOUS
      <4> HIDE DEF D
      <4> QED
        BY <2>1, <4>1, LeastOf
    <3>2. q \in 0..n /\ ~(Behind(q) /\ Len(F(q)) <= Len(s))
      BY <1>1
    <3>3. q # 0
      <4>2. Behind(0) /\ Len(F(0)) <= Len(s)
        BY ONLY <1>3
      <4> QED
        BY <3>2, <4>2
    <3>4. q \in 1..n /\ q - 1 \in 0..n /\ q - 1 \in Nat /\ ~(q <= q - 1)
      BY <1>1, <3>2, <3>3
    <3>5. Behind(q - 1) /\ Len(F(q - 1)) <= Len(s)
      <4>1. q - 1 \notin D
        <5> HIDE DEF D
        <5> QED
          BY <3>1, <3>4
      <4> HIDE DEF Behind
      <4> QED
        BY <1>1, <3>4, <4>1
    <3> DEFINE w == Width(pairs[q])
    <3>6. /\ w \in {1, 2} /\ B(q) = B(q - 1) + w /\ Len(F(q - 1)) = w + Len(F(q))
          /\ \A i \in 1..Len(F(q)) : F(q - 1)[w + i] = F(q)[i]
      BY <1>5, <3>4
    <3>7. Len(F(q)) \in Nat /\ Len(F(q - 1)) \in Nat
      BY <1>4, <3>2, <3>4
    <3> HIDE DEF w
    <3>8. ASSUME NEW i \in 1..Len(F(q)) PROVE s[B(q) + i] = F(q)[i]
      <4>1. w + i \in 1..Len(F(q - 1)) /\ B(q) + i = B(q - 1) + (w + i)
        <5> DEFINE x == Len(F(q - 1))
                   y == Len(F(q))
                   l == Len(s)
        <5>1. /\ w \in {1, 2} /\ x = w + y /\ x \in Nat /\ y \in Nat /\ l \in Nat
              /\ i \in 1..y
          BY <1>3, <3>6, <3>7
        <5> HIDE DEF x, y, l
        <5>2. w + i \in 1..x /\ (l - y) + i = (l - x) + (w + i)
          BY ONLY <5>1
        <5> QED
          BY ONLY <5>2 DEF x, y, l
      <4>2. s[B(q - 1) + (w + i)] = F(q - 1)[w + i]
        BY ONLY <3>5, <4>1
      <4> QED
        BY ONLY <3>6, <4>1, <4>2, i \in 1..Len(F(q))
    <3>9. Len(F(q)) <= Len(s)
      BY ONLY <1>3, <3>5, <3>6, <3>7
    <3> QED
      BY ONLY <3>2, <3>8, <3>9
  <2>2. ASSUME NEW q \in 0..n PROVE Behind(q) /\ Len(F(q)) <= Len(s)
    <3>1. q \in Nat /\ q <= n
      BY <1>1
    <3> HIDE DEF Behind
    <3> QED
      BY <2>1, <3>1
  <2> QED
    BY <2>2
<1>7. \A q \in 0..n : B(q) \in 0..Len(s)
  BY ONLY <1>3, <1>4, <1>6
<1>8. B(n) = Len(s)
  <2>1. F(n) = <<>>
    <3>1. n \in 0..n
      BY <1>1
    <3> QED
      BY <1>2, <3>1, Zenon
  <2> QED
    BY ONLY <1>3, <2>1
<1>9. ASSUME NEW q \in 1..n
      PROVE  /\ B(q) = B(q - 1) + Width(pairs[q])
             /\ s[B(q - 1) + 1] = Call("field", pairs[q].name)
             /\ pairs[q].colon => s[B(q - 1) + 2] = Call("value", pairs[q].value)
  <2> DEFINE w == Width(pairs[q])
             a == F(q - 1)
  <2>1. /\ w \in {1, 2} /\ (pairs[q].colon => w = 2) /\ B(q) = B(q - 1) + w
        /\ Len(a) = w + Len(F(q))
        /\ a[1] = Call("field", pairs[q].name)
        /\ pairs[q].colon => a[2] = Call("value", pairs[q].value)
    BY <1>5
  <2>2. q - 1 \in 0..n /\ Len(F(q)) \in Nat
    BY <1>1, <1>4
  <2> HIDE DEF w
  <2>3. 1 \in 1..Len(a) /\ (w = 2 => 2 \in 1..Len(a))
    BY ONLY <2>1, <2>2
  <2>4. \A i \in 1..Len(a) : s[B(q - 1) + i] = a[i]
    BY <1>6, <2>2
  <2> HIDE DEF a, B
  <2>5. s[B(q - 1) + 1] = a[1] /\ (w = 2 => s[B(q - 1) + 2] = a[2])
    BY ONLY <2>3, <2>4
  <2> QED
    BY <2>1, <2>5, Zenon DEF w
<1>10. \A q : Before(pairs, q) = B(q)
  BY DEF Before, B, F, s, r
<1> HIDE DEF B
<1>11. Before(pairs, 0) = 0 /\ Before(pairs, n) = Len(s)
       /\ \A q \in 0..n : Before(pairs, q) \in 0..Len(s)
  BY ONLY <1>3, <1>7, <1>8, <1>10
<1>12. \A q \in 1..n :
         /\ Before(pairs, q) = Before(pairs, q - 1) + Width(pairs[q])
         /\ s[Before(pairs, q - 1) + 1] = Call("field", pairs[q].name)
         /\ pairs[q].colon => s[Before(pairs, q - 1) + 2] = Call("value", pairs[q].value)
  BY <1>9, <1>10, Zenon
<1> QED
  BY ONLY <1>1, <1>3, <1>11, <1>12 DEF n, s

-----------------------------------------------------------------------------
(***************************************************************************)
(* Where a message is.  Its header lines and its trailers are one row of   *)
(* pairs; At is the place of the q-th pair's field among the calls, NextAt *)
(* the place behind the pair.                                              *)
(***************************************************************************)
All(m)         == m.headers \o m.trailers
HeaderCount(m) == Len(m.headers)
Extra(m)       == Len(BodyCalls(m))
HeadersAt(m)   == 2 + Len(PairCalls(m.headers))
EndAt(m)       == HeadersAt(m) + 1 + Extra(m) + Len(PairCalls(m.trailers))

At(m, q) == IF q <= HeaderCount(m) THEN 2 + Before(m.headers, q - 1)
            ELSE HeadersAt(m) + 1 + Extra(m) + Before(m.trailers, q - HeaderCount(m) - 1)

NextAt(m, q) == IF q = HeaderCount(m) THEN HeadersAt(m)
                ELSE IF q = Len(All(m)) THEN EndAt(m) ELSE At(m, q + 1)

(* The calls of a message, place by place.                                 *)
LEMMA JoinedAt ==
  ASSUME NEW s \in Seq(CallSet), NEW t \in Seq(CallSet)
  PROVE  /\ s \o t \in Seq(CallSet) /\ Len(s \o t) = Len(s) + Len(t)
         /\ Len(s) \in Nat /\ Len(t) \in Nat
         /\ \A i \in 1..Len(s) : (s \o t)[i] = s[i]
         /\ \A i \in 1..Len(t) : (s \o t)[Len(s) + i] = t[i]
OBVIOUS

LEMMA PairsJoined ==
  ASSUME NEW s \in Seq(PairSet), NEW t \in Seq(PairSet)
  PROVE  /\ s \o t \in Seq(PairSet) /\ Len(s \o t) = Len(s) + Len(t)
         /\ Len(s) \in Nat /\ Len(t) \in Nat
         /\ \A i \in 1..Len(s) : (s \o t)[i] = s[i]
         /\ \A i \in 1..Len(t) : (s \o t)[Len(s) + i] = t[i]
OBVIOUS

LEMMA PairsAreOfSet == Pairs = Seq(PairSet)
BY DEF Pairs, PairSet

LEMMA CallsAt ==
  ASSUME NEW m \in Messages
  PROVE  /\ HeaderCount(m) \in Nat /\ Len(All(m)) \in Nat /\ HeaderCount(m) <= Len(All(m))
         /\ All(m) \in Seq(PairSet)
         /\ Extra(m) \in {0, 1} /\ (Extra(m) = 0 <=> m.body = <<>>)
         /\ Calls(m) \in Seq(CallSet) /\ Len(Calls(m)) = EndAt(m)
         /\ HeadersAt(m) \in Nat /\ EndAt(m) \in Nat /\ 1 < HeadersAt(m) /\ HeadersAt(m) < EndAt(m)
         /\ Calls(m)[1] = Call(m.kind, m.first)
         /\ \A q \in 1..Len(All(m)) :
              /\ At(m, q) \in Nat /\ At(m, q) + Width(All(m)[q]) = NextAt(m, q)
              /\ Calls(m)[At(m, q)] = Call("field", All(m)[q].name)
              /\ All(m)[q].colon => Calls(m)[At(m, q) + 1] = Call("value", All(m)[q].value)
         /\ 2 = (IF HeaderCount(m) = 0 THEN HeadersAt(m) ELSE At(m, 1))
         /\ Calls(m)[HeadersAt(m)] = Call("headers", <<>>)
         /\ Extra(m) = 1 => Calls(m)[HeadersAt(m) + 1] = Call("body", m.body)
         /\ HeadersAt(m) + 1 + Extra(m) = (IF HeaderCount(m) = Len(All(m)) THEN EndAt(m)
                                          ELSE At(m, HeaderCount(m) + 1))
         /\ Calls(m)[EndAt(m)] = Call(IF m.untilEof THEN "eof" ELSE "complete", <<>>)
<1> DEFINE h == PairCalls(m.headers)
           b == BodyCalls(m)
           t == PairCalls(m.trailers)
           one == <<Call(m.kind, m.first)>>
           mid == <<Call("headers", <<>>)>>
           last == <<Call(IF m.untilEof THEN "eof" ELSE "complete", <<>>)>>
           r1 == one \o h
           r2 == r1 \o mid
           r3 == r2 \o b
           r4 == r3 \o t
           H == Len(m.headers)
           T == Len(m.trailers)
           x == Len(h)
           y == Len(b)
           z == Len(t)
           HB(q) == Before(m.headers, q)
           TB(q) == Before(m.trailers, q)
           C == Calls(m)
<1>1. m.headers \in Seq(PairSet) /\ m.trailers \in Seq(PairSet) /\ m.body \in Text
      /\ m.first \in Text /\ m.kind \in {"url", "status"}
  BY PairsAreOfSet DEF Messages
<1>2. C = r4 \o last
  BY DEF Calls
<1>3. /\ H \in Nat /\ h \in Seq(CallSet) /\ HB(0) = 0 /\ HB(H) = x
      /\ \A q \in 0..H : HB(q) \in 0..x
      /\ \A q \in 1..H : /\ HB(q) = HB(q - 1) + Width(m.headers[q])
                         /\ h[HB(q - 1) + 1] = Call("field", m.headers[q].name)
                         /\ m.headers[q].colon =>
                              h[HB(q - 1) + 2] = Call("value", m.headers[q].value)
  BY <1>1, PairCallsAt
<1>4. /\ T \in Nat /\ t \in Seq(CallSet) /\ TB(0) = 0 /\ TB(T) = z
      /\ \A q \in 0..T : TB(q) \in 0..z
      /\ \A q \in 1..T : /\ TB(q) = TB(q - 1) + Width(m.trailers[q])
                         /\ t[TB(q - 1) + 1] = Call("field", m.trailers[q].name)
                         /\ m.trailers[q].colon =>
                              t[TB(q - 1) + 2] = Call("value", m.trailers[q].value)
  BY <1>1, PairCallsAt
<1>5. /\ b \in Seq(CallSet) /\ y \in {0, 1} /\ (y = 0 <=> m.body = <<>>)
      /\ y = 1 => b[1] = Call("body", m.body)
  <2>1. Call("body", m.body) \in CallSet
    BY <1>1, CallTyped DEF CallNames
  <2> QED
    BY <2>1 DEF BodyCalls
<1>6. /\ one \in Seq(CallSet) /\ Len(one) = 1 /\ one[1] = Call(m.kind, m.first)
      /\ mid \in Seq(CallSet) /\ Len(mid) = 1 /\ mid[1] = Call("headers", <<>>)
      /\ last \in Seq(CallSet) /\ Len(last) = 1
      /\ last[1] = Call(IF m.untilEof THEN "eof" ELSE "complete", <<>>)
  <2>1. /\ Call(m.kind, m.first) \in CallSet /\ Call("headers", <<>>) \in CallSet
        /\ Call("eof", <<>>) \in CallSet /\ Call("complete", <<>>) \in CallSet
    BY <1>1 DEF Call, CallSet, CallNames, Text
  <2> QED
    BY <2>1
<1>7. /\ All(m) \in Seq(PairSet) /\ Len(All(m)) = H + T
      /\ \A q \in 1..H : All(m)[q] = m.headers[q]
      /\ \A q \in 1..T : All(m)[H + q] = m.trailers[q]
  BY ONLY <1>1, PairsJoined DEF All
<1>8. x \in Nat /\ y \in Nat /\ z \in Nat
  BY <1>3, <1>4, <1>5, LenProperties
<1>9. HeaderCount(m) = H /\ Extra(m) = y /\ HeadersAt(m) = 2 + x /\ EndAt(m) = 3 + x + y + z
  BY <1>8 DEF HeaderCount, Extra, HeadersAt, EndAt
<1> HIDE DEF h, b, t, one, mid, last, H, T, x, y, z, C, HB, TB
<1>10. x = Len(h) /\ y = Len(b) /\ z = Len(t)
  BY DEF x, y, z
<1>11. /\ r1 \in Seq(CallSet) /\ Len(r1) = 1 + x /\ r1[1] = Call(m.kind, m.first)
       /\ \A i \in 1..x : r1[1 + i] = h[i]
  <2>1. /\ r1 \in Seq(CallSet) /\ Len(r1) = Len(one) + Len(h)
        /\ \A i \in 1..Len(one) : r1[i] = one[i]
        /\ \A i \in 1..Len(h) : r1[Len(one) + i] = h[i]
    BY ONLY <1>3, <1>6, JoinedAt
  <2> HIDE DEF r1
  <2>2. 1 \in 1..Len(one)
    BY ONLY <1>6
  <2> QED
    BY ONLY <1>6, <1>10, <2>1, <2>2
<1> HIDE DEF r1
<1>12. /\ r2 \in Seq(CallSet) /\ Len(r2) = 2 + x
       /\ \A i \in 1..(1 + x) : r2[i] = r1[i]
       /\ r2[2 + x] = Call("headers", <<>>)
  <2>1. /\ r2 \in Seq(CallSet) /\ Len(r2) = Len(r1) + Len(mid)
        /\ \A i \in 1..Len(r1) : r2[i] = r1[i]
        /\ \A i \in 1..Len(mid) : r2[Len(r1) + i] = mid[i]
    BY ONLY <1>6, <1>11, JoinedAt
  <2> HIDE DEF r2
  <2>2. r2[Len(r1) + 1] = mid[1] /\ Len(r1) + 1 = 2 + x
    BY ONLY <1>6, <1>8, <1>11, <2>1
  <2> QED
    BY ONLY <1>6, <1>8, <1>11, <2>1, <2>2
<1> HIDE DEF r2
<1>13. /\ r3 \in Seq(CallSet) /\ Len(r3) = 2 + x + y
       /\ \A i \in 1..(2 + x) : r3[i] = r2[i]
       /\ \A i \in 1..y : r3[2 + x + i] = b[i]
  <2>1. /\ r3 \in Seq(CallSet) /\ Len(r3) = Len(r2) + Len(b)
        /\ \A i \in 1..Len(r2) : r3[i] = r2[i]
        /\ \A i \in 1..Len(b) : r3[Len(r2) + i] = b[i]
    BY ONLY <1>5, <1>12, JoinedAt
  <2> HIDE DEF r3
  <2> QED
    BY ONLY <1>10, <1>12, <2>1
<1> HIDE DEF r3
<1>14. /\ r4 \in Seq(CallSet) /\ Len(r4) = 2 + x + y + z
       /\ \A i \in 1..(2 + x + y) : r4[i] = r3[i]
       /\ \A i \in 1..z : r4[2 + x + y + i] = t[i]
  <2>1. /\ r4 \in Seq(CallSet) /\ Len(r4) = Len(r3) + Len(t)
        /\ \A i \in 1..Len(r3) : r4[i] = r3[i]
        /\ \A i \in 1..Len(t) : r4[Len(r3) + i] = t[i]
    BY ONLY <1>4, <1>13, JoinedAt
  <2> HIDE DEF r4
  <2> QED
    BY ONLY <1>10, <1>13, <2>1
<1> HIDE DEF r4
<1>15. /\ C \in Seq(CallSet) /\ Len(C) = 3 + x + y + z
       /\ \A i \in 1..(2 + x + y + z) : C[i] = r4[i]
       /\ C[3 + x + y + z] = last[1]
  <2>1. /\ C \in Seq(CallSet) /\ Len(C) = Len(r4) + Len(last)
        /\ \A i \in 1..Len(r4) : C[i] = r4[i]
        /\ \A i \in 1..Len(last) : C[Len(r4) + i] = last[i]
    <3> DEFINE all == r4 \o last
    <3>1. /\ all \in Seq(CallSet) /\ Len(all) = Len(r4) + Len(last)
          /\ \A i \in 1..Len(r4) : all[i] = r4[i]
          /\ \A i \in 1..Len(last) : all[Len(r4) + i] = last[i]
      BY ONLY <1>6, <1>14, JoinedAt
    <3>2. C = all
      BY <1>2
    <3> HIDE DEF all
    <3> QED
      BY ONLY <3>1, <3>2
  <2>2. C[Len(r4) + 1] = last[1] /\ Len(r4) + 1 = 3 + x + y + z
    BY ONLY <1>6, <1>8, <1>14, <2>1
  <2> QED
    BY ONLY <1>6, <1>8, <1>14, <2>1, <2>2
<1>16. /\ \A i \in 1..(1 + x) : C[i] = r1[i]
       /\ C[1] = Call(m.kind, m.first) /\ C[2 + x] = Call("headers", <<>>)
  BY ONLY <1>8, <1>11, <1>12, <1>13, <1>14, <1>15
<1>17. /\ \A i \in 1..x : C[1 + i] = h[i]
       /\ \A i \in 1..y : C[2 + x + i] = b[i]
       /\ \A i \in 1..z : C[2 + x + y + i] = t[i]
  <2>1. ASSUME NEW i \in 1..x PROVE C[1 + i] = h[i]
    <3>1. 1 + i \in 1..(1 + x)
      BY ONLY <1>8, i \in 1..x
    <3> QED
      BY ONLY <1>11, <1>16, <3>1, i \in 1..x
  <2>2. ASSUME NEW i \in 1..y PROVE C[2 + x + i] = b[i]
    <3>1. 2 + x + i \in 1..(2 + x + y) /\ 2 + x + i \in 1..(2 + x + y + z)
      BY ONLY <1>8, i \in 1..y
    <3> QED
      BY ONLY <1>13, <1>14, <1>15, <3>1, i \in 1..y
  <2>3. ASSUME NEW i \in 1..z PROVE C[2 + x + y + i] = t[i]
    <3>1. 2 + x + y + i \in 1..(2 + x + y + z)
      BY ONLY <1>8, i \in 1..z
    <3> QED
      BY ONLY <1>14, <1>15, <3>1, i \in 1..z
  <2> QED
    BY ONLY <2>1, <2>2, <2>3
<1>18. y = 1 => C[3 + x] = Call("body", m.body)
  <2>1. ASSUME y = 1 PROVE C[3 + x] = Call("body", m.body)
    <3>1. 1 \in 1..y /\ 2 + x + 1 = 3 + x
      BY ONLY <1>8, <2>1
    <3>2. C[2 + x + 1] = b[1]
      BY ONLY <1>17, <3>1
    <3> QED
      BY ONLY <1>5, <2>1, <3>1, <3>2
  <2> QED
    BY ONLY <2>1
(* The q-th header and the q-th trailer.                                   *)
<1>19. ASSUME NEW q \in 1..H
       PROVE  LET p == m.headers[q]
                  a == 2 + HB(q - 1)
              IN  /\ At(m, q) = a /\ a \in Nat /\ a + Width(p) = 2 + HB(q)
                  /\ C[a] = Call("field", p.name)
                  /\ p.colon => C[a + 1] = Call("value", p.value)
  <2> DEFINE p == m.headers[q]
             k == HB(q - 1)
             w == Width(p)
  <2>1. q - 1 \in 0..H /\ q \in 0..H /\ q <= H
    BY <1>3
  <2>2. /\ HB(q) = k + w /\ HB(q) \in 0..x /\ k \in 0..x
        /\ h[k + 1] = Call("field", p.name)
        /\ p.colon => h[k + 2] = Call("value", p.value)
    BY ONLY <1>3, <2>1, q \in 1..H
  <2>3. w \in {1, 2} /\ (p.colon => w = 2)
    <3>1. p \in PairSet
      BY <1>1 DEF H
    <3> HIDE DEF p
    <3> QED
      BY <3>1, PairCallIs
  <2>4. At(m, q) = 2 + k
    BY <1>9, <2>1 DEF At, HB
  <2> HIDE DEF k, w, p
  <2>5. k + 1 \in 1..x /\ (w = 2 => k + 2 \in 1..x) /\ 1 + (k + 1) = 2 + k
        /\ 1 + (k + 2) = (2 + k) + 1 /\ 2 + k \in Nat /\ (2 + k) + w = 2 + HB(q)
    BY ONLY <1>8, <2>2, <2>3
  <2>6. C[2 + k] = h[k + 1] /\ (w = 2 => C[(2 + k) + 1] = h[k + 2])
    BY ONLY <1>17, <2>5
  <2>7. C[2 + k] = Call("field", p.name) /\ (p.colon => C[(2 + k) + 1] = Call("value", p.value))
    BY <2>2, <2>3, <2>6, Zenon
  <2> QED
    BY <2>4, <2>5, <2>7, Zenon DEF k, w, p
<1>20. ASSUME NEW q \in 1..T
       PROVE  LET p == m.trailers[q]
                  a == 3 + x + y + TB(q - 1)
              IN  /\ At(m, H + q) = a /\ a \in Nat /\ a + Width(p) = 3 + x + y + TB(q)
                  /\ C[a] = Call("field", p.name)
                  /\ p.colon => C[a + 1] = Call("value", p.value)
  <2> DEFINE p == m.trailers[q]
             k == TB(q - 1)
             w == Width(p)
             a == 3 + x + y + k
  <2>1. q - 1 \in 0..T /\ q \in 0..T /\ ~(H + q <= H) /\ (H + q) - H - 1 = q - 1
    BY <1>3, <1>4
  <2>2. /\ TB(q) = k + w /\ TB(q) \in 0..z /\ k \in 0..z
        /\ t[k + 1] = Call("field", p.name)
        /\ p.colon => t[k + 2] = Call("value", p.value)
    BY ONLY <1>4, <2>1, q \in 1..T
  <2>3. w \in {1, 2} /\ (p.colon => w = 2)
    <3>1. p \in PairSet
      BY <1>1 DEF T
    <3> HIDE DEF p
    <3> QED
      BY <3>1, PairCallIs
  <2>4. At(m, H + q) = a
    <3>1. At(m, H + q) = HeadersAt(m) + 1 + Extra(m) + TB(q - 1)
      BY <1>9, <2>1 DEF At, TB
    <3>2. 2 + x + 1 + y + k = 3 + x + y + k
      BY ONLY <1>8, <2>2
    <3> QED
      BY ONLY <1>9, <3>1, <3>2
  <2> HIDE DEF k, w, p
  <2>5. k + 1 \in 1..z /\ (w = 2 => k + 2 \in 1..z) /\ 2 + x + y + (k + 1) = a
        /\ 2 + x + y + (k + 2) = a + 1 /\ a \in Nat /\ a + w = 3 + x + y + TB(q)
    BY ONLY <1>8, <2>2, <2>3
  <2>6. C[a] = t[k + 1] /\ (w = 2 => C[a + 1] = t[k + 2])
    <3> HIDE DEF a
    <3> QED
      BY ONLY <1>17, <2>5
  <2> HIDE DEF a
  <2>7. C[a] = Call("field", p.name) /\ (p.colon => C[a + 1] = Call("value", p.value))
    BY <2>2, <2>3, <2>6, Zenon
  <2> QED
    BY <2>4, <2>5, <2>7, Zenon DEF k, w, p, a
<1>21. H # 0 => At(m, 1) = 2
  <2>1. H # 0 => 1 \in 1..H /\ 1 - 1 = 0
    BY <1>3
  <2>2. H # 0 => At(m, 1) = 2 + HB(0)
    BY ONLY <1>19, <2>1
  <2> QED
    BY ONLY <1>3, <2>2
<1>22. T # 0 => At(m, H + 1) = 3 + x + y
  <2>1. T # 0 => 1 \in 1..T /\ 1 - 1 = 0
    BY <1>4
  <2>2. T # 0 => At(m, H + 1) = 3 + x + y + TB(0)
    BY ONLY <1>20, <2>1
  <2> QED
    BY ONLY <1>4, <1>8, <2>2
<1>23. ASSUME NEW q \in 1..(H + T)
       PROVE  LET p == All(m)[q]
              IN  /\ At(m, q) \in Nat /\ At(m, q) + Width(p) = NextAt(m, q)
                  /\ C[At(m, q)] = Call("field", p.name)
                  /\ p.colon => C[At(m, q) + 1] = Call("value", p.value)
  <2>0. q \in Nat
    BY <1>3, <1>4
  <2>1. CASE q \in 1..H
    <3>1. All(m)[q] = m.headers[q]
      BY ONLY <1>7, <2>1
    <3>2. NextAt(m, q) = 2 + HB(q)
      <4>1. CASE q = H
        BY ONLY <1>3, <1>9, <4>1 DEF NextAt
      <4>2. CASE q # H
        <5>1. q + 1 \in 1..H /\ (q + 1) - 1 = q /\ q # H + T
          BY <1>3, <1>4, <2>1, <4>2
        <5>2. At(m, q + 1) = 2 + HB(q)
          BY ONLY <1>19, <5>1
        <5> QED
          BY ONLY <1>7, <1>9, <4>2, <5>1, <5>2 DEF NextAt
      <4> QED
        BY <4>1, <4>2
    <3> QED
      BY <1>19, <2>1, <3>1, <3>2, Zenon
  <2>2. CASE q \notin 1..H
    <3> DEFINE i == q - H
    <3>1. i \in 1..T /\ q = H + i /\ q # H
      BY <1>3, <1>4, <2>2
    <3> HIDE DEF i
    <3>2. All(m)[q] = m.trailers[i]
      BY ONLY <1>7, <3>1
    <3>3. NextAt(m, q) = 3 + x + y + TB(i)
      <4>1. CASE i = T
        BY ONLY <1>4, <1>7, <1>9, <3>1, <4>1 DEF NextAt
      <4>2. CASE i # T
        <5>1. i + 1 \in 1..T /\ (i + 1) - 1 = i /\ q # H + T /\ q + 1 = H + (i + 1)
          BY <1>3, <1>4, <3>1, <4>2
        <5>2. At(m, H + (i + 1)) = 3 + x + y + TB(i)
          BY ONLY <1>20, <5>1
        <5> QED
          BY ONLY <1>7, <1>9, <3>1, <5>1, <5>2 DEF NextAt
      <4> QED
        BY <4>1, <4>2
    <3> QED
      BY <1>20, <3>1, <3>2, <3>3, Zenon
  <2> QED
    BY <2>1, <2>2
<1>24. /\ 2 = (IF H = 0 THEN 2 + x ELSE At(m, 1))
       /\ (2 + x) + 1 + y = (IF H = H + T THEN 3 + x + y + z ELSE At(m, H + 1))
       /\ (2 + x) + 1 = 3 + x
  <2>1. (H = 0 => x = 0) /\ (T = 0 => z = 0) /\ (H = H + T <=> T = 0)
    BY ONLY <1>3, <1>4
  <2>2. (2 + x) + 1 + y = 3 + x + y /\ (2 + x) + 1 = 3 + x /\ (z = 0 => 3 + x + y + z = 3 + x + y)
        /\ (x = 0 => 2 + x = 2)
    BY ONLY <1>8
  <2> QED
    BY ONLY <1>21, <1>22, <2>1, <2>2
<1>25. /\ H \in Nat /\ H + T \in Nat /\ H <= H + T
       /\ 2 + x \in Nat /\ 3 + x + y + z \in Nat /\ 1 < 2 + x /\ 2 + x < 3 + x + y + z
  BY ONLY <1>3, <1>4, <1>8
<1>26. /\ Calls(m) = C /\ last[1] = Call(IF m.untilEof THEN "eof" ELSE "complete", <<>>)
  BY <1>6 DEF C
<1>27. /\ HeaderCount(m) \in Nat /\ Len(All(m)) \in Nat /\ HeaderCount(m) <= Len(All(m))
       /\ HeadersAt(m) \in Nat /\ EndAt(m) \in Nat /\ 1 < HeadersAt(m) /\ HeadersAt(m) < EndAt(m)
       /\ Len(Calls(m)) = EndAt(m) /\ Calls(m) \in Seq(CallSet) /\ All(m) \in Seq(PairSet)
  BY ONLY <1>7, <1>9, <1>15, <1>25, <1>26
<1>28. /\ Extra(m) \in {0, 1} /\ (Extra(m) = 0 <=> m.body = <<>>)
       /\ Extra(m) = 1 => Calls(m)[HeadersAt(m) + 1] = Call("body", m.body)
       /\ Calls(m)[1] = Call(m.kind, m.first) /\ Calls(m)[HeadersAt(m)] = Call("headers", <<>>)
       /\ Calls(m)[EndAt(m)] = last[1]
  BY ONLY <1>5, <1>9, <1>15, <1>16, <1>18, <1>24, <1>26
<1>29. /\ 2 = (IF HeaderCount(m) = 0 THEN HeadersAt(m) ELSE At(m, 1))
       /\ HeadersAt(m) + 1 + Extra(m) = (IF HeaderCount(m) = Len(All(m)) THEN EndAt(m)
                                        ELSE At(m, HeaderCount(m) + 1))
  BY ONLY <1>7, <1>9, <1>24
<1>30. \A q \in 1..Len(All(m)) :
         /\ At(m, q) \in Nat /\ At(m, q) + Width(All(m)[q]) = NextAt(m, q)
         /\ Calls(m)[At(m, q)] = Call("field", All(m)[q].name)
         /\ All(m)[q].colon => Calls(m)[At(m, q) + 1] = Call("value", All(m)[q].value)
  BY <1>7, <1>23, <1>26, Zenon
<1> QED
  BY <1>26, <1>27, <1>28, <1>29, <1>30, Zenon

-----------------------------------------------------------------------------
(***************************************************************************)
(* What is left of the calls when a text, or a piece of it, was reported.  *)
(***************************************************************************)
LEMMA RestTyped ==
  ASSUME NEW s \in Seq(CallSet), s # <<>>, NEW text \in Text
  PROVE  /\ [s EXCEPT ![1].text = text] \in Seq(CallSet)
         /\ [s EXCEPT ![1].text = text] # <<>>
         /\ [s EXCEPT ![1].text = text][1].cb = s[1].cb
<1> DEFINE t == [s EXCEPT ![1].text = text]
<1>1. Len(s) \in Nat /\ Len(s) >= 1 /\ 1 \in 1..Len(s)
  OBVIOUS
<1>2. \A i \in 1..Len(s) : s[i] \in CallSet
  OBVIOUS
<1>3. /\ DOMAIN t = 1..Len(s) /\ t = [i \in 1..Len(s) |-> t[i]]
      /\ t[1] = [s[1] EXCEPT !.text = text]
      /\ \A i \in 1..Len(s) : i # 1 => t[i] = s[i]
  <2>1. DOMAIN s = 1..Len(s)
    OBVIOUS
  <2>2. DOMAIN t = DOMAIN s /\ t = [i \in DOMAIN s |-> t[i]]
    BY ONLY Zenon
  <2>3. t[1] = [s[1] EXCEPT !.text = text]
    BY ONLY <1>1, <2>1
  <2>4. \A i \in 1..Len(s) : i # 1 => t[i] = s[i]
    BY ONLY <2>1
  <2> HIDE DEF t
  <2> QED
    BY ONLY <2>1, <2>2, <2>3, <2>4
<1> HIDE DEF t
<1>4. t[1] \in CallSet /\ t[1].cb = s[1].cb
  <2>1. s[1] \in CallSet
    BY ONLY <1>1, <1>2
  <2> QED
    BY ONLY <1>3, <2>1, text \in Text DEF CallSet
<1>5. \A i \in 1..Len(s) : t[i] \in CallSet /\ t[i].cb = s[i].cb
  BY ONLY <1>2, <1>3, <1>4
<1>6. t \in Seq(CallSet) /\ Len(t) = Len(s)
  BY ONLY <1>1, <1>3, <1>5
<1>7. t # <<>>
  BY ONLY <1>1, <1>6
<1> QED
  BY ONLY <1>4, <1>6, <1>7 DEF t

-----------------------------------------------------------------------------
(***************************************************************************)
(* simple_buffer.c: a new buffer is sound, and what is added to a sound    *)
(* one fits into the block it is put in.                                   *)
(***************************************************************************)
LEMMA SbCreateOK == BufferOK(SbCreate)
<1>1. BufferSize \in Nat \ {0}
  BY HttpAssumption
<1>2. <<>> \in Text /\ Len(<<>>) = 0
  BY DEF Text
<1> QED
  BY <1>1, <1>2 DEF BufferOK, Buffers, SbCreate

LEMMA SbAppendOK ==
  ASSUME NEW sb, BufferOK(sb), NEW piece \in Text
  PROVE  BufferOK(SbAppend(sb, piece))
<1>1. BufferSize \in Nat
  BY HttpAssumption
<1>2. sb.text \in Text /\ sb.cap \in Nat /\ Len(sb.text) <= sb.cap /\ BufferSize <= sb.cap
  BY DEF BufferOK, Buffers
<1>3. /\ sb.text \o piece \in Text /\ Len(sb.text) \in Nat /\ Len(piece) \in Nat
      /\ Len(sb.text \o piece) = Len(sb.text) + Len(piece)
  BY <1>2 DEF Text
<1> DEFINE need == Len(sb.text) + Len(piece)
           cap  == IF need <= BufferSize THEN sb.cap
                   ELSE BufferSize + (IF BufferSize >= need THEN BufferSize ELSE need)
<1>4. need \in Nat
  BY <1>3
<1>5. SbAppend(sb, piece) = [text |-> sb.text \o piece, cap |-> cap]
  BY DEF SbAppend
<1> HIDE DEF need
<1>6. cap \in Nat /\ need <= cap /\ BufferSize <= cap
  BY <1>1, <1>2, <1>4
<1> HIDE DEF cap
<1>7. SbAppend(sb, piece) \in Buffers
  BY <1>3, <1>5, <1>6 DEF Buffers
<1> QED
  BY <1>3, <1>5, <1>6, <1>7 DEF BufferOK, need

-----------------------------------------------------------------------------
(***************************************************************************)
(* The types are inductive: a callback that finds no buffer to read is the *)
(* end of the program, and the others leave sound buffers.                 *)
(***************************************************************************)
LEMMA DataOK ==
  ASSUME TypeOK, NEW cb \in CallNames, NEW piece \in Pieces, Data(cb, piece)
  PROVE  /\ todo # <<>> /\ todo[1].cb = cb /\ piece \in Text /\ ~Missing
         /\ todo' \in Seq(CallSet)
<1>1. todo \in Seq(CallSet)
  BY DEF TypeOK
<1>2. todo # <<>> /\ todo[1].cb = cb
  BY DEF Data
<1>3. todo[1].text \in Text
  <2>1. todo[1] \in CallSet
    BY <1>1, <1>2
  <2> QED
    BY ONLY <2>1 DEF CallSet
<1> DEFINE text == todo[1].text
<1>4. piece \in Text
  <2> HIDE DEF text
  <2>1. PICK k \in 0..Len(text) : piece = SubSeq(text, 1, k)
    BY <1>2 DEF Pieces, text
  <2>2. text \in Seq(Char)
    BY <1>3 DEF text, Text
  <2> QED
    BY ONLY <2>1, <2>2 DEF Text
<1>5. CASE todo' = Tail(todo)
  <2>1. Tail(todo) \in Seq(CallSet)
    BY ONLY <1>1, <1>2, HeadTailProperties
  <2> QED
    BY <1>2, <1>4, <1>5, <2>1 DEF Data
<1>6. CASE todo' = [todo EXCEPT ![1].text = SubSeq(@, Len(piece) + 1, Len(@))]
  <2> DEFINE rest == SubSeq(text, Len(piece) + 1, Len(text))
  <2>1. rest \in Text
    <3> HIDE DEF text
    <3>1. text \in Seq(Char) /\ piece \in Seq(Char)
      BY <1>3, <1>4 DEF text, Text
    <3> QED
      BY ONLY <3>1 DEF Text
  <2>2. todo' = [todo EXCEPT ![1].text = rest]
    <3>1. 1 \in DOMAIN todo
      BY <1>1, <1>2
    <3> QED
      BY ONLY <1>6, <3>1
  <2> HIDE DEF rest
  <2>3. todo' \in Seq(CallSet)
    BY ONLY <1>1, <1>2, <2>1, <2>2, RestTyped
  <2> QED
    BY <1>2, <1>4, <2>3 DEF Data
<1> QED
  BY <1>5, <1>6 DEF Data

LEMMA NotifyOK ==
  ASSUME TypeOK, NEW cb \in CallNames, Notify(cb)
  PROVE  /\ todo # <<>> /\ todo[1].cb = cb /\ ~Missing
         /\ todo' \in Seq(CallSet)
<1>1. todo \in Seq(CallSet)
  BY DEF TypeOK
<1>2. todo # <<>> /\ todo[1].cb = cb /\ todo' = Tail(todo) /\ ~Missing
  BY DEF Notify
<1>3. Tail(todo) \in Seq(CallSet)
  BY ONLY <1>1, <1>2, HeadTailProperties
<1> QED
  BY ONLY <1>2, <1>3

-----------------------------------------------------------------------------
(* One lemma for each way the buffers change.                              *)
LEMMA PutOK ==
  ASSUME NEW b, BuffersOK(b), NEW n \in SbNames, NEW sb, BufferOK(sb)
  PROVE  /\ BuffersOK([b EXCEPT ![n] = sb])
         /\ [b EXCEPT ![n] = sb][n] # Null
         /\ \A k \in SbNames : k # n => [b EXCEPT ![n] = sb][k] = b[k]
<1>1. b \in [SbNames -> Buffers \cup {Null}] /\ \A k \in SbNames : b[k] = Null \/ BufferOK(b[k])
  BY DEF BuffersOK
<1>2. sb \in Buffers /\ sb # Null
  BY HttpAssumption DEF BufferOK
<1> DEFINE c == [b EXCEPT ![n] = sb]
<1>3. c \in [SbNames -> Buffers \cup {Null}]
  BY ONLY <1>1, <1>2
<1>4. c[n] = sb /\ \A k \in SbNames : k # n => c[k] = b[k]
  BY ONLY <1>1, n \in SbNames
<1> HIDE DEF c
<1>5. \A k \in SbNames : c[k] = Null \/ BufferOK(c[k])
  BY ONLY <1>1, <1>4, BufferOK(sb)
<1> QED
  BY ONLY <1>2, <1>3, <1>4, <1>5 DEF c, BuffersOK

LEMMA DropOK ==
  ASSUME NEW b, BuffersOK(b), NEW n \in SbNames
  PROVE  /\ BuffersOK([b EXCEPT ![n] = Null])
         /\ [b EXCEPT ![n] = Null][n] = Null
         /\ \A k \in SbNames : k # n => [b EXCEPT ![n] = Null][k] = b[k]
<1>1. b \in [SbNames -> Buffers \cup {Null}] /\ \A k \in SbNames : b[k] = Null \/ BufferOK(b[k])
  BY DEF BuffersOK
<1> DEFINE c == [b EXCEPT ![n] = Null]
<1>2. c \in [SbNames -> Buffers \cup {Null}]
  BY ONLY <1>1
<1>3. c[n] = Null /\ \A k \in SbNames : k # n => c[k] = b[k]
  BY ONLY <1>1, n \in SbNames
<1> HIDE DEF c
<1>4. \A k \in SbNames : c[k] = Null \/ BufferOK(c[k])
  BY ONLY <1>1, <1>3
<1> QED
  BY ONLY <1>2, <1>3, <1>4 DEF c, BuffersOK

LEMMA NoBuffersOK == BuffersOK(NoBuffers) /\ NoBuffers.name = Null /\ NoBuffers.value = Null
  BY DEF BuffersOK, NoBuffers, SbNames

-----------------------------------------------------------------------------
(* One lemma for each callback.                                            *)
LEMMA FirstLineStep ==
  ASSUME TypeOK, NEW cb \in {"url", "status"}, FirstLine(cb)
  PROVE  TypeOK'
<1>1. PICK piece \in Pieces :
        /\ Data(cb, piece)
        /\ sbs' = [sbs EXCEPT ![cb] = SbAppend(IF @ = Null THEN SbCreate ELSE @, piece)]
        /\ UNCHANGED <<hstate, message>>
  BY DEF FirstLine
<1>2. cb \in CallNames /\ cb \in SbNames
  BY DEF CallNames, SbNames
<1>3. piece \in Text /\ todo' \in Seq(CallSet)
  BY ONLY <1>1, <1>2, TypeOK, DataOK
<1>4. BuffersOK(sbs)
  BY DEF TypeOK
<1> DEFINE old == IF sbs[cb] = Null THEN SbCreate ELSE sbs[cb]
<1>5. BufferOK(old)
  BY ONLY <1>2, <1>4, SbCreateOK DEF BuffersOK
<1>6. sbs' = [sbs EXCEPT ![cb] = SbAppend(old, piece)]
  <2>1. cb \in DOMAIN sbs
    BY ONLY <1>2, <1>4 DEF BuffersOK
  <2> QED
    BY ONLY <1>1, <2>1
<1> HIDE DEF old
<1>7. BuffersOK(sbs')
  <2> DEFINE sb == SbAppend(old, piece)
  <2>1. BufferOK(sb)
    BY ONLY <1>3, <1>5, SbAppendOK
  <2>2. sbs' = [sbs EXCEPT ![cb] = sb]
    BY ONLY <1>6
  <2> HIDE DEF sb
  <2>3. BuffersOK([sbs EXCEPT ![cb] = sb])
    BY ONLY <1>2, <1>4, <2>1, PutOK
  <2> QED
    BY ONLY <2>2, <2>3
<1> QED
  BY ONLY <1>1, <1>3, <1>7, TypeOK DEF Data, TypeOK

(* What a field leaves in the buffers of the pair.                         *)
LEMMA NamePut ==
  ASSUME TypeOK, NEW piece \in Pieces, Data("field", piece),
         IF hstate = "field"
         THEN sbs' = [sbs EXCEPT !.name = SbAppend(@, piece)]
         ELSE sbs' = [sbs EXCEPT !.name = SbAppend(SbCreate, piece), !.value = Null]
  PROVE  /\ BuffersOK(sbs') /\ piece \in Text
         /\ hstate = "field" => sbs.name # Null
         /\ sbs'.name # Null /\ sbs'.url = sbs.url /\ sbs'.status = sbs.status
         /\ sbs'.name = SbAppend(IF hstate = "field" THEN sbs.name ELSE SbCreate, piece)
         /\ sbs'.value = IF hstate = "field" THEN sbs.value ELSE Null
<1>1. "field" \in CallNames /\ SbNames = {"url", "status", "name", "value"}
  BY DEF CallNames, SbNames
<1>2. todo # <<>> /\ todo[1].cb = "field" /\ piece \in Text /\ ~Missing
  BY ONLY <1>1, TypeOK, Data("field", piece), piece \in Pieces, DataOK
<1>3. BuffersOK(sbs)
  BY DEF TypeOK
<1>4. DOMAIN sbs = SbNames
  BY <1>3 DEF BuffersOK
<1>5. CASE hstate = "field"
  <2>1. sbs.name # Null
    BY <1>2, <1>5 DEF Missing
  <2> DEFINE sb  == SbAppend(sbs.name, piece)
             put == [sbs EXCEPT !["name"] = sb]
  <2>2. BufferOK(sb)
    BY ONLY <1>1, <1>2, <1>3, <2>1, SbAppendOK DEF BuffersOK
  <2>3. sbs' = put
    BY <1>1, <1>4, <1>5
  <2> HIDE DEF sb
  <2>4. /\ BuffersOK(put) /\ put["name"] # Null
        /\ \A k \in SbNames : k # "name" => put[k] = sbs[k]
    BY ONLY <1>1, <1>3, <2>2, PutOK
  <2>5. put["name"] = sb
    BY ONLY <1>1, <1>4
  <2> HIDE DEF put
  <2> QED
    BY ONLY <1>1, <1>2, <1>5, <2>1, <2>3, <2>4, <2>5 DEF sb
<1>6. CASE hstate # "field"
  <2> DEFINE sb  == SbAppend(SbCreate, piece)
             put == [sbs EXCEPT !["name"] = sb]
             dropped == [put EXCEPT !["value"] = Null]
  <2>1. BufferOK(sb)
    BY ONLY <1>2, SbAppendOK, SbCreateOK
  <2>2. sbs' = dropped
    BY <1>1, <1>4, <1>6
  <2> HIDE DEF sb
  <2>3. /\ BuffersOK(put) /\ put["name"] # Null
        /\ \A k \in SbNames : k # "name" => put[k] = sbs[k]
    BY ONLY <1>1, <1>3, <2>1, PutOK
  <2>4. put["name"] = sb
    BY ONLY <1>1, <1>4
  <2> HIDE DEF put
  <2>5. /\ BuffersOK(dropped) /\ dropped["value"] = Null
        /\ \A k \in SbNames : k # "value" => dropped[k] = put[k]
    <3>1. BuffersOK(put)
      BY ONLY <2>3
    <3> QED
      BY ONLY <1>1, <3>1, DropOK
  <2> HIDE DEF dropped
  <2> QED
    BY ONLY <1>1, <1>2, <1>6, <2>2, <2>3, <2>4, <2>5 DEF sb
<1> QED
  BY ONLY <1>5, <1>6

(* What a value leaves there.  Where no name came before it, header_state  *)
(* is "nothing" and the value is dropped.                                  *)
LEMMA ValuePut ==
  ASSUME TypeOK, NEW piece \in Pieces, Data("value", piece),
         sbs' = [sbs EXCEPT !.value = CASE hstate = "field"   -> SbAppend(SbCreate, piece)
                                        [] hstate = "value"   -> SbAppend(@, piece)
                                        [] hstate = "nothing" -> @]
  PROVE  /\ BuffersOK(sbs') /\ piece \in Text
         /\ sbs'.url = sbs.url /\ sbs'.status = sbs.status /\ sbs'.name = sbs.name
         /\ hstate # "nothing" =>
              /\ sbs'.value # Null
              /\ sbs'.value = SbAppend(IF hstate = "field" THEN SbCreate ELSE sbs.value, piece)
<1>1. "value" \in CallNames /\ SbNames = {"url", "status", "name", "value"}
  BY DEF CallNames, SbNames
<1>2. todo # <<>> /\ todo[1].cb = "value" /\ piece \in Text /\ ~Missing
  BY ONLY <1>1, TypeOK, Data("value", piece), piece \in Pieces, DataOK
<1>3. BuffersOK(sbs) /\ hstate \in {"nothing", "field", "value"}
  BY DEF TypeOK
<1>4. DOMAIN sbs = SbNames
  BY <1>3 DEF BuffersOK
<1>5. CASE hstate = "nothing"
  <2>1. sbs' = sbs
    <3>1. sbs' = [sbs EXCEPT !["value"] = sbs["value"]]
      BY <1>1, <1>4, <1>5
    <3>2. sbs \in [SbNames -> Buffers \cup {Null}]
      BY <1>3 DEF BuffersOK
    <3> QED
      BY ONLY <1>1, <3>1, <3>2
  <2> QED
    BY ONLY <1>2, <1>3, <1>5, <2>1
<1>6. CASE hstate # "nothing"
  <2> DEFINE old == IF hstate = "field" THEN SbCreate ELSE sbs.value
             sb  == SbAppend(old, piece)
             put == [sbs EXCEPT !["value"] = sb]
  <2>1. hstate = "value" => sbs.value # Null
    BY <1>2 DEF Missing
  <2>2. BufferOK(old)
    BY ONLY <1>1, <1>3, <1>6, <2>1, SbCreateOK DEF BuffersOK
  <2>3. sbs' = put
    BY <1>1, <1>3, <1>4, <1>6
  <2> HIDE DEF old
  <2>4. BufferOK(sb)
    BY ONLY <1>2, <2>2, SbAppendOK
  <2> HIDE DEF sb
  <2>5. /\ BuffersOK(put) /\ put["value"] # Null
        /\ \A k \in SbNames : k # "value" => put[k] = sbs[k]
    BY ONLY <1>1, <1>3, <2>4, PutOK
  <2>6. put["value"] = sb
    BY ONLY <1>1, <1>4
  <2> HIDE DEF put
  <2> QED
    BY ONLY <1>1, <1>2, <1>6, <2>3, <2>5, <2>6 DEF sb, old
<1> QED
  BY ONLY <1>5, <1>6

LEMMA HeaderFieldStep ==
  ASSUME TypeOK, HeaderField
  PROVE  TypeOK'
<1>1. PICK piece \in Pieces :
        /\ Data("field", piece)
        /\ hstate' = "field"
        /\ IF hstate = "field"
           THEN sbs' = [sbs EXCEPT !.name = SbAppend(@, piece)]
           ELSE sbs' = [sbs EXCEPT !.name = SbAppend(SbCreate, piece), !.value = Null]
  BY DEF HeaderField
<1>2. BuffersOK(sbs')
  BY ONLY <1>1, TypeOK, NamePut
<1>3. todo' \in Seq(CallSet)
  BY ONLY <1>1, TypeOK, DataOK DEF CallNames
<1> QED
  BY ONLY <1>1, <1>2, <1>3, TypeOK DEF Data, TypeOK

LEMMA HeaderValueStep ==
  ASSUME TypeOK, HeaderValue
  PROVE  TypeOK'
<1>1. PICK piece \in Pieces :
        /\ Data("value", piece)
        /\ hstate' = "value"
        /\ sbs' = [sbs EXCEPT !.value = CASE hstate = "field"   -> SbAppend(SbCreate, piece)
                                          [] hstate = "value"   -> SbAppend(@, piece)
                                          [] hstate = "nothing" -> @]
  BY DEF HeaderValue
<1>2. BuffersOK(sbs')
  BY ONLY <1>1, TypeOK, ValuePut
<1>3. todo' \in Seq(CallSet)
  BY ONLY <1>1, TypeOK, DataOK DEF CallNames
<1> QED
  BY ONLY <1>1, <1>2, <1>3, TypeOK DEF Data, TypeOK

LEMMA BodyDataStep ==
  ASSUME TypeOK, BodyData
  PROVE  TypeOK'
<1>1. PICK piece \in Pieces : Data("body", piece) /\ UNCHANGED <<sbs, hstate>>
  BY DEF BodyData
<1>2. todo' \in Seq(CallSet)
  BY ONLY <1>1, TypeOK, DataOK DEF CallNames
<1> QED
  BY ONLY <1>1, <1>2, TypeOK DEF Data, TypeOK

LEMMA HeadersCompleteStep ==
  ASSUME TypeOK, HeadersComplete
  PROVE  TypeOK'
<1>1. Notify("headers") /\ UNCHANGED <<sbs, done>>
  BY DEF HeadersComplete
<1>2. todo' \in Seq(CallSet)
  BY ONLY <1>1, TypeOK, NotifyOK DEF CallNames
<1> QED
  BY ONLY <1>1, <1>2, TypeOK DEF Notify, TypeOK

(* MessageComplete and AppendEof: the buffers go, header_state stays.      *)
LEMMA MessageEndStep ==
  ASSUME TypeOK, NEW cb \in {"complete", "eof"}, Notify(cb), SetUpNextMessage
  PROVE  TypeOK'
<1>1. cb \in CallNames
  BY DEF CallNames
<1>2. todo' \in Seq(CallSet)
  BY ONLY <1>1, Notify(cb), TypeOK, NotifyOK
<1>3. done' \in BOOLEAN /\ (sbs' = sbs \/ sbs' = NoBuffers)
  BY ONLY SetUpNextMessage DEF SetUpNextMessage
<1>4. BuffersOK(sbs')
  BY ONLY <1>3, TypeOK, NoBuffersOK DEF TypeOK
<1> QED
  BY ONLY <1>2, <1>3, <1>4, Notify(cb), TypeOK DEF Notify, TypeOK

LEMMA MessageBeginStep ==
  ASSUME TypeOK, MessageBegin
  PROVE  TypeOK'
<1>1. /\ stream \in Seq(Messages) /\ begun \in 0..Len(stream) /\ begun < Len(stream)
      /\ begun' = begun + 1 /\ todo' = Calls(stream[begun'])
  BY HttpAssumption DEF TypeOK, MessageBegin
<1>2. begun' \in 1..Len(stream) /\ begun' \in 0..Len(stream)
  BY <1>1
<1>3. stream[begun'] \in Messages
  BY ONLY <1>1, <1>2
<1>4. todo' \in Seq(CallSet)
  BY ONLY <1>1, <1>3, CallsAt
<1> QED
  BY <1>2, <1>4 DEF MessageBegin, TypeOK, ctxVars

LEMMA InitTypes ==
  ASSUME Init
  PROVE  TypeOK
<1>1. stream \in Seq(Messages) /\ begun = 0 /\ todo = <<>> /\ sbs = NoBuffers
  BY HttpAssumption DEF Init
<1>2. begun \in 0..Len(stream) /\ todo \in Seq(CallSet)
  BY ONLY <1>1
<1> QED
  BY <1>1, <1>2, NoBuffersOK DEF Init, TypeOK

LEMMA StepTypes ==
  ASSUME TypeOK, [Next]_vars
  PROVE  TypeOK'
<1>1. CASE MessageBegin
  BY <1>1, MessageBeginStep
<1>2. CASE UrlData
  BY <1>2, FirstLineStep DEF UrlData
<1>3. CASE StatusData
  BY <1>3, FirstLineStep DEF StatusData
<1>4. CASE HeaderField
  BY <1>4, HeaderFieldStep
<1>5. CASE HeaderValue
  BY <1>5, HeaderValueStep
<1>6. CASE HeadersComplete
  BY <1>6, HeadersCompleteStep
<1>7. CASE BodyData
  BY <1>7, BodyDataStep
<1>8. CASE MessageComplete
  BY <1>8, MessageEndStep DEF MessageComplete
<1>9. CASE AppendEof
  BY <1>9, MessageEndStep DEF AppendEof
<1>10. CASE UNCHANGED vars
  BY <1>10 DEF TypeOK, vars, ctxVars
<1> QED
  BY <1>1, <1>2, <1>3, <1>4, <1>5, <1>6, <1>7, <1>8, <1>9, <1>10 DEF Next

(***************************************************************************)
(* For every stream, every cut of its texts and every block size, each     *)
(* buffer of the context holds no more than its block (simple_buffer.c,    *)
(* HTTPParser.cpp).                                                        *)
(***************************************************************************)
THEOREM TypeCorrect == Spec => []TypeOK
<1>1. Init => TypeOK
  BY InitTypes
<1>2. TypeOK /\ [Next]_vars => TypeOK'
  BY StepTypes
<1> QED
  BY <1>1, <1>2, PTL DEF Spec

-----------------------------------------------------------------------------
(* Texts put together and cut.                                             *)
LEMMA Texts ==
  ASSUME NEW a \in Text, NEW b \in Text
  PROVE  /\ a \o b \in Text /\ a \o <<>> = a /\ <<>> \o a = a /\ <<>> \in Text
<1> DEFINE S == Char
<1>1. a \in Seq(S) /\ b \in Seq(S) /\ Text = Seq(S)
  BY DEF Text
<1> HIDE DEF S
<1>2. a \o b \in Seq(S) /\ a \o <<>> = a /\ <<>> \o a = a /\ <<>> \in Seq(S)
  BY ONLY <1>1, ConcatProperties, ConcatEmptySeq
<1> QED
  BY ONLY <1>1, <1>2

LEMMA Regrouped ==
  ASSUME NEW a \in Text, NEW b \in Text, NEW c \in Text
  PROVE  (a \o b) \o c = a \o (b \o c)
<1> DEFINE S == Char
<1>1. a \in Seq(S) /\ b \in Seq(S) /\ c \in Seq(S)
  BY DEF Text
<1> HIDE DEF S
<1> QED
  BY ONLY <1>1, ConcatAssociative

LEMMA Cut ==
  ASSUME NEW a \in Text, NEW k \in 0..Len(a)
  PROVE  /\ SubSeq(a, 1, k) \in Text /\ Len(SubSeq(a, 1, k)) = k
         /\ SubSeq(a, k + 1, Len(a)) \in Text
         /\ SubSeq(a, 1, k) \o SubSeq(a, k + 1, Len(a)) = a
<1> DEFINE S == Char
<1>1. a \in Seq(S) /\ Text = Seq(S) /\ Len(a) \in Nat
  BY DEF Text
<1> HIDE DEF S
<1>2. /\ 1 \in 1..(Len(a) + 1) /\ k \in (1 - 1)..Len(a) /\ Len(a) \in k..Len(a)
  BY ONLY <1>1, k \in 0..Len(a)
<1>3. SubSeq(a, 1, k) \o SubSeq(a, k + 1, Len(a)) = SubSeq(a, 1, Len(a))
  BY ONLY <1>1, <1>2, ConcatAdjacentSubSeq
<1>4. SubSeq(a, 1, Len(a)) = a
  BY ONLY <1>1, SubSeqFull
<1>5. /\ SubSeq(a, 1, k) \in Seq(S) /\ Len(SubSeq(a, 1, k)) = k
      /\ SubSeq(a, k + 1, Len(a)) \in Seq(S)
  BY ONLY <1>1, k \in 0..Len(a)
<1> QED
  BY ONLY <1>1, <1>3, <1>4, <1>5


(***************************************************************************)
(* The names of a row of pairs, each joined to what a line without a colon *)
(* left before it.                                                         *)
(***************************************************************************)
Joined(s, i, before) == IF i = 1 \/ s[i - 1].colon THEN s[i].name ELSE before \o s[i].name

JoinsTo(f, s, n) == f = [i \in 0..n |-> IF i = 0 THEN <<>> ELSE Joined(s, i, f[i - 1])]

LEMMA JoinedText ==
  ASSUME NEW s \in Seq(PairSet), NEW i \in 1..Len(s), NEW before \in Text
  PROVE  Joined(s, i, before) \in Text
<1>1. s[i] \in PairSet
  OBVIOUS
<1>2. s[i].name \in Text
  BY ONLY <1>1 DEF PairSet
<1>3. before \o s[i].name \in Text
  BY ONLY <1>2, before \in Text, Texts
<1> QED
  BY <1>2, <1>3, Zenon DEF Joined

LEMMA JoinsAgree ==
  ASSUME NEW s, NEW t, NEW n \in Nat, NEW k \in Nat, n <= k, NEW f, NEW g,
         JoinsTo(f, s, n), JoinsTo(g, t, k), \A i \in 1..n : s[i] = t[i]
  PROVE  \A i \in 0..n : f[i] = g[i]
<1> DEFINE D == {i \in Nat : i \in 0..n /\ f[i] # g[i]}
<1>1. /\ f = [i \in 0..n |-> IF i = 0 THEN <<>> ELSE Joined(s, i, f[i - 1])]
      /\ g = [i \in 0..k |-> IF i = 0 THEN <<>> ELSE Joined(t, i, g[i - 1])]
  BY DEF JoinsTo
<1>2. ASSUME D # {} PROVE FALSE
  <2>1. PICK i \in D : \A j \in D : i <= j
    <3>1. D \in SUBSET Nat
      OBVIOUS
    <3> HIDE DEF D
    <3> QED
      BY <1>2, <3>1, LeastOf
  <2>2. i \in 0..n /\ i \in 0..k /\ f[i] # g[i]
    OBVIOUS
  <2>3. /\ f[i] = (IF i = 0 THEN <<>> ELSE Joined(s, i, f[i - 1]))
        /\ g[i] = (IF i = 0 THEN <<>> ELSE Joined(t, i, g[i - 1]))
    BY <1>1, <2>2
  <2>4. i # 0
    BY <2>2, <2>3
  <2>5. i - 1 \in Nat /\ i - 1 \in 0..n /\ ~(i <= i - 1) /\ i \in 1..n /\ (i # 1 => i - 1 \in 1..n)
    BY <2>2, <2>4
  <2>6. f[i - 1] = g[i - 1]
    <3>1. i - 1 \notin D
      <4> HIDE DEF D
      <4> QED
        BY <2>1, <2>5
    <3> QED
      BY <2>5, <3>1
  <2>7. s[i] = t[i] /\ (i # 1 => s[i - 1] = t[i - 1])
    BY <2>5
  <2>8. Joined(s, i, f[i - 1]) = Joined(t, i, g[i - 1])
    BY <2>6, <2>7, Zenon DEF Joined
  <2> QED
    BY <2>2, <2>3, <2>4, <2>8
<1>3. \A i \in 0..n : i \in Nat
  OBVIOUS
<1> QED
  BY <1>2, <1>3

LEMMA JoinsSome ==
  ASSUME NEW s \in Seq(PairSet)
  PROVE  \A n \in 0..Len(s) : \E f : JoinsTo(f, s, n) /\ \A i \in 0..n : f[i] \in Text
<1> DEFINE Has(n) == \E f : JoinsTo(f, s, n) /\ \A i \in 0..n : f[i] \in Text
           D == {n \in Nat : n <= Len(s) /\ ~Has(n)}
<1>0. Len(s) \in Nat
  OBVIOUS
<1>1. ASSUME D # {} PROVE FALSE
  <2>1. PICK n \in D : \A m \in D : n <= m
    <3>1. D \in SUBSET Nat
      OBVIOUS
    <3> HIDE DEF D
    <3> QED
      BY <1>1, <3>1, LeastOf
  <2>2. n \in Nat /\ n <= Len(s) /\ ~Has(n)
    OBVIOUS
  <2>3. CASE n = 0
    <3> DEFINE f == [i \in 0..0 |-> <<>>]
    <3>1. \A i \in 0..0 : i = 0
      OBVIOUS
    <3>2. JoinsTo(f, s, 0)
      BY <3>1 DEF JoinsTo
    <3>3. \A i \in 0..0 : f[i] \in Text
      BY DEF Text
    <3> HIDE DEF f
    <3> QED
      BY <2>2, <2>3, <3>2, <3>3
  <2>4. CASE n # 0
    <3>1. n - 1 \in Nat /\ n - 1 <= Len(s) /\ ~(n <= n - 1) /\ n \in 1..Len(s) /\ n - 1 \in 0..(n - 1)
          /\ 0..n = (0..(n - 1)) \cup {n} /\ n \notin 0..(n - 1)
          /\ \A i \in 0..n : i # 0 => i - 1 \in 0..(n - 1)
      BY <1>0, <2>2, <2>4
    <3>2. n - 1 \notin D
      <4> HIDE DEF D
      <4> QED
        BY <2>1, <3>1
    <3> HIDE DEF Has
    <3>3. Has(n - 1)
      BY <3>1, <3>2
    <3>4. PICK f : JoinsTo(f, s, n - 1) /\ \A i \in 0..(n - 1) : f[i] \in Text
      BY <3>3 DEF Has
    <3>5. f = [i \in 0..(n - 1) |-> IF i = 0 THEN <<>> ELSE Joined(s, i, f[i - 1])]
      BY <3>4 DEF JoinsTo
    <3> DEFINE last == Joined(s, n, f[n - 1])
               g == [i \in 0..n |-> IF i = n THEN last ELSE f[i]]
               h == [i \in 0..n |-> IF i = 0 THEN <<>> ELSE Joined(s, i, g[i - 1])]
    <3>6. last \in Text
      BY <3>1, <3>4, JoinedText
    <3>7. \A i \in 0..(n - 1) : g[i] = f[i] /\ f[i] = IF i = 0 THEN <<>> ELSE Joined(s, i, f[i - 1])
      <4>1. \A i \in 0..(n - 1) : g[i] = f[i]
        BY <3>1
      <4> HIDE DEF g
      <4> QED
        BY ONLY <3>5, <4>1
    <3>8. g[n] = last
      BY <3>1
    <3> HIDE DEF last
    <3>9. ASSUME NEW i \in 0..n
          PROVE  g[i] = (IF i = 0 THEN <<>> ELSE Joined(s, i, g[i - 1])) /\ g[i] \in Text
      <4>0. i # 0 => g[i - 1] = f[i - 1]
        BY <3>1, <3>7
      <4> HIDE DEF g
      <4>1. CASE i = n
        BY <2>4, <3>6, <3>8, <4>0, <4>1 DEF last
      <4>2. CASE i # n
        <5>1. i \in 0..(n - 1)
          BY <3>1, <4>2
        <5> QED
          BY <3>4, <3>7, <4>0, <5>1
      <4> QED
        BY <4>1, <4>2
    <3>10. JoinsTo(g, s, n)
      <4>1. g = [i \in 0..n |-> g[i]]
        OBVIOUS
      <4> HIDE DEF g
      <4>2. h = [i \in 0..n |-> g[i]]
        BY <3>9
      <4> QED
        BY <4>1, <4>2 DEF JoinsTo
    <3> HIDE DEF g
    <3>11. Has(n)
      BY <3>9, <3>10 DEF Has
    <3> QED
      BY <2>2, <3>11
  <2> QED
    BY <2>3, <2>4
<1>2. ASSUME NEW n \in 0..Len(s) PROVE Has(n)
  <2>1. n \in Nat /\ n <= Len(s)
    BY <1>0
  <2> HIDE DEF Has
  <2> QED
    BY <1>1, <2>1
<1> QED
  BY <1>2

LEMMA NamesJoin ==
  ASSUME NEW s \in Seq(PairSet)
  PROVE  \E f : /\ JoinsTo(f, s, Len(s)) /\ \A i \in 0..Len(s) : f[i] \in Text
                /\ Names(s) = [i \in 1..Len(s) |-> f[i]]
<1>0. Len(s) \in Nat /\ Len(s) \in 0..Len(s) /\ DOMAIN s = 1..Len(s)
  OBVIOUS
<1> DEFINE G == CHOOSE f : f = [i \in 0..Len(s) |->
                                  IF i = 0 THEN <<>>
                                  ELSE IF i = 1 \/ s[i - 1].colon THEN s[i].name
                                  ELSE f[i - 1] \o s[i].name]
<1>1. Names(s) = [i \in DOMAIN s |-> G[i]]
  BY Zenon DEF Names
<1>2. PICK g : JoinsTo(g, s, Len(s)) /\ \A i \in 0..Len(s) : g[i] \in Text
  BY <1>0, JoinsSome
<1>3. JoinsTo(G, s, Len(s))
  <2>1. g = [i \in 0..Len(s) |-> IF i = 0 THEN <<>>
                                 ELSE IF i = 1 \/ s[i - 1].colon THEN s[i].name
                                 ELSE g[i - 1] \o s[i].name]
    BY <1>2, Zenon DEF JoinsTo, Joined
  <2>2. G = [i \in 0..Len(s) |-> IF i = 0 THEN <<>>
                                 ELSE IF i = 1 \/ s[i - 1].colon THEN s[i].name
                                 ELSE G[i - 1] \o s[i].name]
    BY <2>1, Zenon
  <2> QED
    BY <2>2, Zenon DEF JoinsTo, Joined
<1> HIDE DEF G
<1>4. \A i \in 0..Len(s) : G[i] = g[i]
  <2>1. Len(s) <= Len(s) /\ \A i \in 1..Len(s) : s[i] = s[i]
    BY <1>0
  <2> QED
    BY <1>0, <1>2, <1>3, <2>1, JoinsAgree
<1>5. \A i \in 0..Len(s) : G[i] \in Text
  BY <1>2, <1>4
<1> QED
  BY <1>0, <1>1, <1>3, <1>5

LEMMA NamesStep ==
  ASSUME NEW s \in Seq(PairSet), NEW q \in 1..Len(s)
  PROVE  /\ Names(s)[q] \in Text /\ (q # 1 => Names(s)[q - 1] \in Text)
         /\ Names(s)[q] = Joined(s, q, Names(s)[q - 1])
<1>1. PICK f : /\ JoinsTo(f, s, Len(s)) /\ \A i \in 0..Len(s) : f[i] \in Text
               /\ Names(s) = [i \in 1..Len(s) |-> f[i]]
  BY NamesJoin
<1>2. Len(s) \in Nat /\ q \in 0..Len(s) /\ q # 0 /\ (q # 1 => q - 1 \in 1..Len(s) /\ q - 1 \in 0..Len(s))
  OBVIOUS
<1>3. Names(s)[q] = f[q] /\ (q # 1 => Names(s)[q - 1] = f[q - 1])
  BY ONLY <1>1, <1>2, q \in 1..Len(s)
<1>4. f[q] = Joined(s, q, f[q - 1])
  BY ONLY <1>1, <1>2 DEF JoinsTo
<1>5. Joined(s, q, f[q - 1]) = Joined(s, q, Names(s)[q - 1])
  BY <1>3, Zenon DEF Joined
<1> QED
  BY ONLY <1>1, <1>2, <1>3, <1>4, <1>5

LEMMA NamesOfPrefix ==
  ASSUME NEW s \in Seq(PairSet), NEW n \in 0..Len(s)
  PROVE  /\ SubSeq(s, 1, n) \in Seq(PairSet) /\ Len(SubSeq(s, 1, n)) = n
         /\ \A i \in 1..n : SubSeq(s, 1, n)[i] = s[i] /\ Names(SubSeq(s, 1, n))[i] = Names(s)[i]
<1> DEFINE u == SubSeq(s, 1, n)
<1>1. /\ Len(s) \in Nat /\ n \in Nat /\ n <= Len(s) /\ u \in Seq(PairSet) /\ Len(u) = n
      /\ \A i \in 1..n : u[i] = s[i]
  OBVIOUS
<1> HIDE DEF u
<1>2. PICK f : JoinsTo(f, s, Len(s)) /\ Names(s) = [i \in 1..Len(s) |-> f[i]]
  BY NamesJoin
<1>3. PICK g : JoinsTo(g, u, n) /\ Names(u) = [i \in 1..n |-> g[i]]
  BY <1>1, NamesJoin
<1>4. \A i \in 0..n : g[i] = f[i]
  <2>1. n <= Len(s) /\ \A i \in 1..n : u[i] = s[i]
    BY ONLY <1>1
  <2> QED
    <3>1. JoinsTo(g, u, n) /\ JoinsTo(f, s, Len(s)) /\ n \in Nat /\ Len(s) \in Nat
      BY <1>1, <1>2, <1>3
    <3> QED
      BY ONLY <2>1, <3>1, JoinsAgree, SMTT(60)
<1>5. \A i \in 1..n : Names(u)[i] = Names(s)[i]
  <2>1. \A i \in 1..n : i \in 0..n /\ i \in 1..Len(s)
    BY <1>1
  <2> QED
    BY <1>2, <1>3, <1>4, <2>1
<1> QED
  BY <1>1, <1>5 DEF u

(* What of two pairs with one name counts, pair by pair.                   *)
LEMMA MapGrows ==
  ASSUME NEW s \in Seq(PairSet)
  PROVE  /\ MapOf(SubSeq(s, 1, 0)) = {}
         /\ \A q \in 1..Len(s) :
              /\ s[q].colon => MapOf(SubSeq(s, 1, q)) =
                   {p \in MapOf(SubSeq(s, 1, q - 1)) : p.name # Names(s)[q]}
                   \cup {[name |-> Names(s)[q], value |-> s[q].value]}
              /\ ~s[q].colon => MapOf(SubSeq(s, 1, q)) = MapOf(SubSeq(s, 1, q - 1))
<1> DEFINE N == Names(s)
           V == {i \in DOMAIN s : s[i].colon}
           Row(i) == [name |-> N[i], value |-> s[i].value]
           Later(j, n) == \A k \in V : k <= n /\ k > j => N[k] # N[j]
           Counting(n) == {j \in V : j <= n /\ Later(j, n)}
<1>1. Len(s) \in Nat /\ DOMAIN s = 1..Len(s)
  OBVIOUS
<1>2. V \subseteq 1..Len(s)
  BY <1>1
<1>3. ASSUME NEW n \in 0..Len(s)
      PROVE  MapOf(SubSeq(s, 1, n)) = {Row(i) : i \in Counting(n)}
  <2> DEFINE u == SubSeq(s, 1, n)
             W == {i \in DOMAIN u : u[i].colon}
             C == {j \in W : \A k \in W : k > j => Names(u)[k] # Names(u)[j]}
  <2>1. /\ u \in Seq(PairSet) /\ Len(u) = n
        /\ \A i \in 1..n : u[i] = s[i] /\ Names(u)[i] = N[i]
    BY NamesOfPrefix
  <2>2. DOMAIN u = 1..n /\ \A i \in 1..n : i \in DOMAIN s /\ i <= n
    BY <1>1, <2>1
  <2>3. W \subseteq 1..n
    BY <2>2
  <2>4. \A i \in 1..n : i \in W <=> i \in V
    <3>1. ASSUME NEW i \in 1..n PROVE i \in W <=> i \in V
      <4>1. u[i] = s[i] /\ i \in DOMAIN u /\ i \in DOMAIN s
        BY <2>1, <2>2
      <4> HIDE DEF u
      <4> QED
        BY <4>1, Zenon
    <3> QED
      BY <3>1
  <2>5. MapOf(u) = {[name |-> Names(u)[i], value |-> u[i].value] : i \in C}
    BY Zenon DEF MapOf
  <2> HIDE DEF u, W, V, N
  <2>6. \A i : i \in W <=> i \in V /\ i <= n
    <3>1. ASSUME NEW i PROVE i \in W <=> i \in V /\ i <= n
      <4>1. CASE i \in 1..n
        <5>1. i <= n
          BY ONLY <1>1, <4>1, n \in 0..Len(s)
        <5> QED
          BY ONLY <2>4, <4>1, <5>1
      <4>2. CASE i \notin 1..n
        <5>1. i \in V => ~(i <= n)
          BY ONLY <1>1, <1>2, <4>2, n \in 0..Len(s)
        <5> QED
          BY ONLY <2>3, <4>2, <5>1
      <4> QED
        BY <4>1, <4>2
    <3> QED
      BY <3>1
  <2>7. C = Counting(n)
    <3>1. ASSUME NEW j \in W
          PROVE  (\A k \in W : k > j => Names(u)[k] # Names(u)[j]) <=> Later(j, n)
      <4>1. \A k \in W : Names(u)[k] = N[k]
        BY ONLY <2>1, <2>3
      <4> QED
        BY ONLY <2>6, <4>1, j \in W
    <3> HIDE DEF Later
    <3> QED
      BY ONLY <2>6, <3>1
  <2>8. C \subseteq 1..n
    BY <2>3
  <2> HIDE DEF C, Counting
  <2>9. {[name |-> Names(u)[i], value |-> u[i].value] : i \in C} = {Row(i) : i \in C}
    BY ONLY <2>1, <2>8
  <2> HIDE DEF Row
  <2> QED
    BY ONLY <2>5, <2>7, <2>9 DEF u
<1> HIDE DEF V
<1>4. Counting(0) = {}
  <2>1. \A j \in V : ~(j <= 0)
    BY ONLY <1>1, <1>2
  <2> QED
    BY <2>1, Zenon
<1>5. ASSUME NEW q \in 1..Len(s), q \notin V
      PROVE  Counting(q) = Counting(q - 1)
  <2>1. \A k \in V : k <= q <=> k <= q - 1
    BY ONLY <1>1, <1>2, <1>5, q \in 1..Len(s)
  <2> QED
    BY ONLY <2>1
<1>6. ASSUME NEW q \in 1..Len(s), q \in V
      PROVE  Counting(q) = {j \in Counting(q - 1) : N[j] # N[q]} \cup {q}
  <2>1. /\ \A k \in V : (k <= q <=> k <= q - 1 \/ k = q) /\ (k <= q - 1 => q > k) /\ ~(k <= q /\ k > q)
        /\ ~(q <= q - 1) /\ q <= q
    BY ONLY <1>1, <1>2, q \in 1..Len(s)
  <2> HIDE DEF N
  <2>2. ASSUME NEW j \in V, j <= q - 1
        PROVE  Later(j, q) <=> Later(j, q - 1) /\ N[j] # N[q]
    BY ONLY <1>6, <2>1, <2>2, q \in 1..Len(s)
  <2>3. Later(q, q)
    BY ONLY <2>1
  <2> HIDE DEF Later
  <2>4. ASSUME NEW j \in V
        PROVE  j \in Counting(q) <=> j = q \/ (j \in Counting(q - 1) /\ N[j] # N[q])
    BY ONLY <1>6, <2>1, <2>2, <2>3, j \in V
  <2>5. Counting(q) \subseteq V /\ Counting(q - 1) \subseteq V
    OBVIOUS
  <2> HIDE DEF Counting
  <2> QED
    BY ONLY <1>6, <2>4, <2>5
<1> HIDE DEF Counting
<1>7. MapOf(SubSeq(s, 1, 0)) = {}
  <2>1. 0 \in 0..Len(s)
    BY <1>1
  <2>2. MapOf(SubSeq(s, 1, 0)) = {Row(i) : i \in Counting(0)}
    BY <1>3, <2>1
  <2> QED
    BY ONLY <1>4, <2>2
<1>8. \A i : Row(i).name = N[i]
  OBVIOUS
<1> HIDE DEF Row, N
<1>9. ASSUME NEW q \in 1..Len(s)
      PROVE  /\ q \in V => MapOf(SubSeq(s, 1, q)) =
                             {p \in MapOf(SubSeq(s, 1, q - 1)) : p.name # N[q]} \cup {Row(q)}
             /\ q \notin V => MapOf(SubSeq(s, 1, q)) = MapOf(SubSeq(s, 1, q - 1))
  <2>1. q \in 0..Len(s) /\ q - 1 \in 0..Len(s)
    BY <1>1
  <2>2. /\ MapOf(SubSeq(s, 1, q)) = {Row(i) : i \in Counting(q)}
        /\ MapOf(SubSeq(s, 1, q - 1)) = {Row(i) : i \in Counting(q - 1)}
    BY ONLY <1>3, <2>1
  <2>3. CASE q \in V
    <3> DEFINE O == Counting(q - 1)
               new == {j \in O : N[j] # N[q]}
    <3>1. Counting(q) = new \cup {q}
      BY <1>6, <2>3
    <3> HIDE DEF O
    <3>2. {Row(i) : i \in new \cup {q}} = {p \in {Row(i) : i \in O} : p.name # N[q]} \cup {Row(q)}
      BY ONLY <1>8
    <3> QED
      BY ONLY <2>2, <2>3, <3>1, <3>2 DEF O
  <2>4. CASE q \notin V
    BY ONLY <1>5, <2>2, <2>4, q \in 1..Len(s)
  <2> QED
    BY <2>3, <2>4
<1>10. ASSUME NEW q \in 1..Len(s) PROVE q \in V <=> s[q].colon
  <2>1. q \in DOMAIN s
    BY <1>1
  <2> QED
    BY <2>1, Zenon DEF V
<1> QED
  BY <1>7, <1>9, <1>10, Zenon DEF Row, N

LEMMA RestAll ==
  ASSUME NEW m \in Messages
  PROVE  /\ SubSeq(All(m), 1, HeaderCount(m)) = m.headers
         /\ Len(All(m)) = HeaderCount(m) => m.headers = m.headers \o AllButLast(m.trailers)
         /\ Len(All(m)) # HeaderCount(m) =>
              SubSeq(All(m), 1, Len(All(m)) - 1) = m.headers \o AllButLast(m.trailers)
<1> DEFINE h == m.headers
           t == m.trailers
<1>1. h \in Seq(PairSet) /\ t \in Seq(PairSet)
  BY PairsAreOfSet DEF Messages
<1> HIDE DEF h, t
<1>2. /\ h \o t \in Seq(PairSet) /\ Len(h \o t) = Len(h) + Len(t)
      /\ Len(h) \in Nat /\ Len(t) \in Nat
      /\ \A i \in 1..Len(h) : (h \o t)[i] = h[i]
      /\ \A i \in 1..Len(t) : (h \o t)[Len(h) + i] = t[i]
  BY ONLY <1>1, PairsJoined
<1> DEFINE all == h \o t
<1>3. all = All(m) /\ HeaderCount(m) = Len(h)
  BY DEF All, HeaderCount, h, t
<1> HIDE DEF all
<1>4. SubSeq(all, 1, Len(h)) = h
  BY ONLY <1>1, <1>2 DEF all
<1>5. ASSUME Len(t) = 0 PROVE h = h \o AllButLast(t)
  <2>1. AllButLast(t) = <<>>
    BY ONLY <1>1, <1>5 DEF AllButLast
  <2> QED
    BY ONLY <1>1, <2>1
<1>6. ASSUME Len(t) # 0
      PROVE  SubSeq(all, 1, Len(all) - 1) = h \o AllButLast(t)
  <2> DEFINE u == AllButLast(t)
             n == Len(t) - 1
  <2>1. n \in Nat
    BY <1>2, <1>6
  <2>2. u \in Seq(PairSet) /\ Len(u) = n /\ \A i \in 1..n : u[i] = t[i]
    <3>1. 1 \in Int /\ n \in Int /\ 1..n \subseteq 1..Len(t)
      BY ONLY <1>2, <2>1
    <3>2. \A i \in 1..n : t[i] \in PairSet
      BY ONLY <1>1, <3>1
    <3>3. u = SubSeq(t, 1, n)
      BY DEF AllButLast
    <3> HIDE DEF u, n
    <3>4. /\ SubSeq(t, 1, n) \in Seq(PairSet)
          /\ Len(SubSeq(t, 1, n)) = IF 1 <= n THEN n - 1 + 1 ELSE 0
          /\ \A i \in 1..(n - 1 + 1) : SubSeq(t, 1, n)[i] = t[1 + i - 1]
      BY ONLY <3>1, <3>2, SubSeqProperties
    <3>5. n - 1 + 1 = n /\ \A i \in 1..n : 1 + i - 1 = i
      BY ONLY <2>1
    <3> QED
      BY ONLY <2>1, <3>3, <3>4, <3>5
  <2> HIDE DEF u, n
  <2>3. /\ h \o u \in Seq(PairSet) /\ Len(h \o u) = Len(h) + n
        /\ \A i \in 1..Len(h) : (h \o u)[i] = h[i]
        /\ \A i \in 1..n : (h \o u)[Len(h) + i] = u[i]
    BY ONLY <1>1, <2>2, PairsJoined
  <2>4. all \in Seq(PairSet) /\ Len(all) = Len(h) + Len(t)
    BY ONLY <1>2 DEF all
  <2> DEFINE a == SubSeq(all, 1, Len(all) - 1)
             z == h \o u
  <2>5. a \in Seq(PairSet) /\ Len(a) = Len(h) + n /\ \A i \in 1..(Len(h) + n) : a[i] = all[i]
    <3>1. Len(all) - 1 = Len(h) + n
      BY ONLY <1>2, <2>4 DEF n
    <3>2. Len(h) + n \in Nat /\ Len(h) + n <= Len(all)
      BY ONLY <1>2, <2>1, <2>4, <3>1
    <3> QED
      BY ONLY <2>4, <3>1, <3>2
  <2> HIDE DEF a, z
  <2>6. ASSUME NEW i \in 1..(Len(h) + n) PROVE a[i] = z[i]
    <3>1. CASE i <= Len(h)
      <4>1. i \in 1..Len(h)
        BY ONLY <1>2, <2>1, <3>1, i \in 1..(Len(h) + n)
      <4> QED
        BY ONLY <1>2, <2>3, <2>5, <4>1, i \in 1..(Len(h) + n) DEF all, z
    <3>2. CASE ~(i <= Len(h))
      <4> DEFINE j == i - Len(h)
      <4>1. j \in 1..n /\ j \in 1..Len(t) /\ i = Len(h) + j
        BY ONLY <1>2, <2>1, <3>2, i \in 1..(Len(h) + n) DEF n
      <4> HIDE DEF j
      <4>2. all[i] = t[j] /\ z[i] = u[j] /\ u[j] = t[j]
        BY ONLY <1>2, <2>2, <2>3, <4>1 DEF all, z
      <4> QED
        BY ONLY <2>5, <4>2, i \in 1..(Len(h) + n)
    <3> QED
      BY <3>1, <3>2
  <2>7. z \in Seq(PairSet) /\ Len(z) = Len(h) + n
    BY ONLY <2>3 DEF z
  <2>8. a = z
    BY ONLY <1>2, <2>1, <2>5, <2>6, <2>7
  <2> QED
    BY ONLY <2>8 DEF a, z, u
<1>7. Len(all) = Len(h) <=> Len(t) = 0
  BY ONLY <1>2 DEF all
<1> QED
  BY ONLY <1>3, <1>4, <1>5, <1>6, <1>7 DEF h, t

-----------------------------------------------------------------------------
(* The calls from p on are still to be made, of the p-th what is behind g. *)
Ahead(m, s, p, g) ==
  /\ p \in 1..Len(Calls(m)) /\ s # <<>> /\ Len(s) = Len(Calls(m)) - p + 1
  /\ s[1].cb = Calls(m)[p].cb /\ g \o s[1].text = Calls(m)[p].text
  /\ \A i \in 2..Len(s) : s[i] = Calls(m)[p + i - 1]

LEMMA AllAhead ==
  ASSUME NEW m \in Messages
  PROVE  Ahead(m, Calls(m), 1, <<>>)
<1> DEFINE s == Calls(m)
<1>0. s \in Seq(CallSet) /\ Len(s) > 1
  BY CallsAt
<1> HIDE DEF s
<1>1. s \in Seq(CallSet) /\ s # <<>>
  BY <1>0
<1>2. Len(s) \in Nat /\ Len(s) >= 1 /\ s[1] \in CallSet
  BY <1>0
<1>3. <<>> \o s[1].text = s[1].text
  BY <1>2 DEF CallSet, Text
<1>4. 1 \in 1..Len(s) /\ Len(s) = Len(s) - 1 + 1 /\ \A i \in 2..Len(s) : 1 + i - 1 = i
  BY <1>2
<1> QED
  BY ONLY <1>1, <1>3, <1>4 DEF Ahead, s

LEMMA TailAhead ==
  ASSUME NEW m \in Messages, NEW s \in Seq(CallSet), NEW p, NEW g, Ahead(m, s, p, g)
  PROVE  /\ p = Len(Calls(m)) => Tail(s) = <<>>
         /\ p # Len(Calls(m)) => Ahead(m, Tail(s), p + 1, <<>>)
<1> DEFINE c == Calls(m)
           t == Tail(s)
<1>1. c \in Seq(CallSet) /\ Len(c) \in Nat
  BY CallsAt
<1>2. /\ p \in 1..Len(c) /\ s # <<>> /\ Len(s) = Len(c) - p + 1
      /\ \A i \in 2..Len(s) : s[i] = c[p + i - 1]
  BY DEF Ahead
<1> HIDE DEF c
<1>3. /\ t \in Seq(CallSet) /\ Len(t) = Len(s) - 1 /\ Len(s) \in Nat
      /\ \A i \in 1..Len(t) : t[i] = s[i + 1]
      /\ t = <<>> <=> Len(t) = 0
  <2>1. t \in Seq(CallSet) /\ Len(t) = Len(s) - 1 /\ \A i \in 1..Len(t) : t[i] = s[i + 1]
    BY ONLY <1>2, s \in Seq(CallSet), HeadTailProperties
  <2> HIDE DEF t
  <2>2. t = <<>> <=> Len(t) = 0
    BY ONLY <2>1
  <2> QED
    BY ONLY <2>1, <2>2, s \in Seq(CallSet)
<1> HIDE DEF t
<1>4. CASE p = Len(c)
  BY ONLY <1>1, <1>2, <1>3, <1>4 DEF c, t
<1>5. CASE p # Len(c)
  <2>1. p + 1 \in 1..Len(c) /\ Len(t) = Len(c) - (p + 1) + 1 /\ Len(t) >= 1
    BY ONLY <1>1, <1>2, <1>3, <1>5
  <2>2. ASSUME NEW i \in 1..Len(t) PROVE t[i] = c[(p + 1) + i - 1]
    <3>1. i + 1 \in 2..Len(s) /\ p + (i + 1) - 1 = (p + 1) + i - 1
      BY ONLY <1>1, <1>2, <1>3, i \in 1..Len(t)
    <3> QED
      BY ONLY <1>2, <1>3, <3>1, i \in 1..Len(t)
  <2>3. t[1] = c[p + 1]
    <3>1. 1 \in 1..Len(t) /\ (p + 1) + 1 - 1 = p + 1
      BY ONLY <1>1, <1>2, <1>3, <2>1
    <3> QED
      BY ONLY <2>2, <3>1
  <2>4. <<>> \o t[1].text = c[p + 1].text
    <3>1. c[p + 1] \in CallSet
      BY ONLY <1>1, <2>1
    <3> QED
      BY ONLY <2>3, <3>1 DEF CallSet, Text
  <2>5. \A i \in 2..Len(t) : t[i] = c[(p + 1) + i - 1]
    BY ONLY <1>3, <2>1, <2>2
  <2>6. t # <<>>
    BY ONLY <1>3, <2>1
  <2> QED
    BY ONLY <1>5, <2>1, <2>3, <2>4, <2>5, <2>6 DEF Ahead, c, t
<1> QED
  BY <1>4, <1>5

LEMMA RestAhead ==
  ASSUME NEW m \in Messages, NEW s \in Seq(CallSet), NEW p, NEW g \in Text, Ahead(m, s, p, g),
         NEW k \in 0..Len(s[1].text)
  PROVE  LET piece == SubSeq(s[1].text, 1, k)
             rest  == SubSeq(s[1].text, k + 1, Len(s[1].text))
         IN  Ahead(m, [s EXCEPT ![1].text = rest], p, g \o piece)
<1> DEFINE text  == s[1].text
           piece == SubSeq(text, 1, k)
           rest  == SubSeq(text, k + 1, Len(text))
           t     == [s EXCEPT ![1].text = rest]
           c     == Calls(m)
<1>1. /\ p \in 1..Len(c) /\ s # <<>> /\ Len(s) = Len(c) - p + 1
      /\ s[1].cb = c[p].cb /\ g \o text = c[p].text
      /\ \A i \in 2..Len(s) : s[i] = c[p + i - 1]
  BY DEF Ahead
<1>2. Len(s) \in Nat /\ Len(s) >= 1 /\ s[1] \in CallSet /\ DOMAIN s = 1..Len(s)
  BY <1>1
<1>3. text \in Text
  BY <1>2 DEF CallSet
<1> HIDE DEF text
<1>4. piece \in Text /\ rest \in Text /\ piece \o rest = text
  <2>1. k \in 0..Len(text)
    BY DEF text
  <2> QED
    BY ONLY <1>3, <2>1, Cut
<1> HIDE DEF piece, rest, c
<1>5. (g \o piece) \o rest = c[p].text
  <2>1. (g \o piece) \o rest = g \o (piece \o rest)
    BY ONLY <1>4, g \in Text, Regrouped
  <2> QED
    BY ONLY <1>1, <1>4, <2>1
<1>6. t # <<>> /\ Len(t) = Len(s) /\ t[1].cb = s[1].cb /\ t[1].text = rest
      /\ \A i \in 2..Len(s) : t[i] = s[i]
  <2>1. /\ 1 \in DOMAIN s
        /\ \A i \in 2..Len(s) : i \in DOMAIN s /\ i # 1
    BY ONLY <1>2
  <2>2. DOMAIN t = DOMAIN s /\ t[1] = [s[1] EXCEPT !.text = rest]
        /\ \A i \in DOMAIN s : i # 1 => t[i] = s[i]
    BY ONLY <2>1
  <2>3. t[1].cb = s[1].cb /\ t[1].text = rest
    BY ONLY <1>2, <2>2 DEF CallSet
  <2>4. t \in Seq(CallSet) /\ Len(t) = Len(s)
    <3>1. t[1] \in CallSet
      BY ONLY <1>2, <1>4, <2>2 DEF CallSet
    <3>2. \A i \in DOMAIN s : t[i] \in CallSet
      BY ONLY <2>2, <3>1, s \in Seq(CallSet)
    <3>3. t = [i \in DOMAIN s |-> t[i]]
      BY ONLY Zenon
    <3> HIDE DEF t
    <3> QED
      BY ONLY <1>2, <3>2, <3>3
  <2> HIDE DEF t
  <2>5. t # <<>>
    BY ONLY <1>2, <2>4
  <2> QED
    BY ONLY <2>1, <2>2, <2>3, <2>4, <2>5
<1> HIDE DEF t
<1>7. Ahead(m, t, p, g \o piece)
  BY ONLY <1>1, <1>5, <1>6 DEF Ahead, c
<1> QED
  BY ONLY <1>7 DEF t, rest, piece, text

-----------------------------------------------------------------------------
(* A pair without a colon, and what is in the buffer when the q-th name    *)
(* begins.                                                                 *)
Bare(m, q)  == ~All(m)[q].colon
Begun(m, q) == IF q # 1 /\ Bare(m, q - 1) THEN Names(All(m))[q - 1] ELSE <<>>

LEMMA NameAt ==
  ASSUME NEW m \in Messages, NEW q \in 1..Len(All(m))
  PROVE  /\ Begun(m, q) \in Text /\ Names(All(m))[q] \in Text
         /\ All(m)[q].name \in Text /\ All(m)[q].value \in Text
         /\ Begun(m, q) \o All(m)[q].name = Names(All(m))[q]
<1> DEFINE s == All(m)
<1>1. s \in Seq(PairSet) /\ q \in 1..Len(s)
  BY CallsAt
<1>2. s[q].name \in Text /\ s[q].value \in Text /\ <<>> \in Text /\ q \in Nat
  <2>1. s[q] \in PairSet /\ q \in Nat
    BY ONLY <1>1
  <2> QED
    BY ONLY <2>1 DEF PairSet, Text
<1>3. /\ Names(s)[q] \in Text /\ (q # 1 => Names(s)[q - 1] \in Text)
      /\ Names(s)[q] = Joined(s, q, Names(s)[q - 1])
  BY ONLY <1>1, NamesStep
<1> HIDE DEF s
<1>4. CASE q # 1 /\ ~s[q - 1].colon
  <2>1. Names(s)[q] = Names(s)[q - 1] \o s[q].name
    BY <1>3, <1>4, Zenon DEF Joined
  <2>2. Begun(m, q) = Names(s)[q - 1]
    BY <1>4, Zenon DEF Begun, Bare, s
  <2> QED
    BY <1>2, <1>3, <1>4, <2>1, <2>2, Zenon DEF s
<1>5. CASE ~(q # 1 /\ ~s[q - 1].colon)
  <2>1. Names(s)[q] = s[q].name
    BY <1>3, <1>5, Zenon DEF Joined
  <2>2. Begun(m, q) = <<>>
    BY <1>5, Zenon DEF Begun, Bare, s
  <2>3. <<>> \o s[q].name = s[q].name
    BY <1>2, Texts
  <2> QED
    BY <1>2, <1>3, <2>1, <2>2, <2>3, Zenon DEF s
<1> QED
  BY <1>4, <1>5, Zenon

(* The value of a pair that has one, and the place behind the pair.        *)
LEMMA PairAt ==
  ASSUME NEW m \in Messages, NEW q \in 1..Len(All(m))
  PROVE  /\ At(m, q) \in Nat
         /\ ~Bare(m, q) => /\ Calls(m)[At(m, q) + 1] = Call("value", All(m)[q].value)
                           /\ NextAt(m, q) = At(m, q) + 2
         /\ Bare(m, q) => NextAt(m, q) = At(m, q) + 1
<1>1. /\ At(m, q) \in Nat /\ At(m, q) + Width(All(m)[q]) = NextAt(m, q)
      /\ All(m)[q].colon => Calls(m)[At(m, q) + 1] = Call("value", All(m)[q].value)
  BY CallsAt
<1>2. CASE All(m)[q].colon
  <2>1. Width(All(m)[q]) = 2 /\ ~Bare(m, q)
    BY <1>2, Zenon DEF Width, Bare
  <2> QED
    BY <1>1, <1>2, <2>1, Zenon
<1>3. CASE ~All(m)[q].colon
  <2>1. Width(All(m)[q]) = 1 /\ Bare(m, q)
    BY <1>3, Zenon DEF Width, Bare
  <2> QED
    BY <1>1, <2>1, Zenon
<1> QED
  BY <1>2, <1>3

(* The last of the headers, and the last of the trailers.                  *)
LEMMA LastBareIs ==
  ASSUME NEW m \in Messages
  PROVE  /\ HeaderCount(m) = 0 => ~LastBare(m.headers)
         /\ HeaderCount(m) # 0 => (LastBare(m.headers) <=> Bare(m, HeaderCount(m)))
         /\ Len(All(m)) # HeaderCount(m) => (LastBare(m.trailers) <=> Bare(m, Len(All(m))))
<1> DEFINE h == m.headers
           t == m.trailers
           a == All(m)
<1>1. h \in Seq(PairSet) /\ t \in Seq(PairSet)
  BY PairsAreOfSet DEF Messages
<1>2. a = h \o t /\ HeaderCount(m) = Len(h)
  BY DEF All, HeaderCount
<1> HIDE DEF h, t, a
<1>3. /\ Len(a) = Len(h) + Len(t) /\ Len(h) \in Nat /\ Len(t) \in Nat
      /\ \A i \in 1..Len(h) : a[i] = h[i]
      /\ \A i \in 1..Len(t) : a[Len(h) + i] = t[i]
  BY ONLY <1>1, <1>2, PairsJoined
<1>4. Len(h) = 0 => ~LastBare(h)
  <2>1. Len(h) = 0 => h = <<>>
    BY ONLY <1>1
  <2> QED
    BY ONLY <2>1 DEF LastBare
<1>5. ASSUME Len(h) # 0 PROVE LastBare(h) <=> Bare(m, Len(h))
  <2>1. h # <<>> /\ Last(h) = a[Len(h)]
    BY ONLY <1>1, <1>3, <1>5 DEF Last
  <2> QED
    BY <2>1, Zenon DEF LastBare, Bare, a
<1>6. ASSUME Len(a) # Len(h) PROVE LastBare(t) <=> Bare(m, Len(a))
  <2>1. Len(t) # 0
    BY ONLY <1>3, <1>6
  <2>2. t # <<>> /\ Last(t) = t[Len(t)] /\ Len(t) \in 1..Len(t)
    BY ONLY <1>1, <1>3, <2>1 DEF Last
  <2>3. t # <<>> /\ Last(t) = a[Len(a)]
    BY ONLY <1>3, <2>2
  <2> QED
    BY <2>3, Zenon DEF LastBare, Bare, a
<1> QED
  BY <1>2, <1>4, <1>5, <1>6 DEF h, t, a

-----------------------------------------------------------------------------
(***************************************************************************)
(* What the callbacks keep, ctx, is sbs, hstate and message.  Pairs are    *)
(* saved one by one: SavedPairs says that the first n of the row are.      *)
(***************************************************************************)
Context == [sbs |-> sbs, hstate |-> hstate, message |-> message]

SavedPairs(m, ctx, n) == ctx.message.headers = MapOf(SubSeq(All(m), 1, n))

(* The pair q is in its buffers, complete, the name alone where there is   *)
(* no value; n pairs are in the message.                                   *)
Waiting(m, ctx, q, n) ==
  /\ SavedPairs(m, ctx, n)
  /\ q = 0 => ctx.sbs.name = Null /\ ctx.sbs.value = Null
  /\ q # 0 => /\ ctx.sbs.name # Null /\ ctx.sbs.name.text = Names(All(m))[q]
              /\ Bare(m, q) => ctx.hstate = "field" /\ ctx.sbs.value = Null
              /\ ~Bare(m, q) => /\ ctx.hstate = "value" /\ ctx.sbs.value # Null
                                /\ ctx.sbs.value.text = All(m)[q].value

(* How many are in the message then, among the headers and among the       *)
(* trailers: the headers callback saves the last header, and only one more *)
(* field would save the last of all.                                       *)
EarlyUpTo(q)   == IF q = 0 THEN 0 ELSE q - 1
LateUpTo(m, q) == IF q = HeaderCount(m) THEN q ELSE q - 1

UrlOf(m)    == IF m.kind = "url" THEN m.first ELSE <<>>
StatusOf(m) == IF m.kind = "status" THEN m.first ELSE <<>>

(* Up to the headers callback, and behind it.                              *)
Early(m, ctx) == /\ TextOf(ctx.sbs.url) = UrlOf(m)
                 /\ TextOf(ctx.sbs.status) = StatusOf(m)
                 /\ ctx.message.body = <<>>
Late(m, ctx)  == /\ ctx.message.url = UrlOf(m) /\ ctx.message.status = StatusOf(m)
                 /\ ~LastBare(m.headers)

Around(m, ctx, q) == IF q <= HeaderCount(m) THEN Early(m, ctx)
                     ELSE Late(m, ctx) /\ ctx.message.body = m.body

(* What is there when g of the current text has been reported.             *)
FirstStage(m, ctx, g) ==
  /\ ctx.message.headers = {} /\ ctx.message.body = <<>>
  /\ ctx.sbs.name = Null /\ ctx.sbs.value = Null
  /\ TextOf(ctx.sbs.url) = (IF m.kind = "url" THEN g ELSE <<>>)
  /\ TextOf(ctx.sbs.status) = (IF m.kind = "status" THEN g ELSE <<>>)

FieldStage(m, ctx, q, g) ==
  /\ Around(m, ctx, q)
  /\ \/ /\ ctx.hstate = "field" /\ SavedPairs(m, ctx, q - 1)
        /\ ctx.sbs.name # Null /\ ctx.sbs.name.text = Begun(m, q) \o g /\ ctx.sbs.value = Null
     \/ /\ g = <<>>
        /\ Waiting(m, ctx, q - 1,
                   IF q <= HeaderCount(m) THEN EarlyUpTo(q - 1) ELSE LateUpTo(m, q - 1))

ValueStage(m, ctx, q, g) ==
  /\ ~Bare(m, q) /\ Around(m, ctx, q) /\ SavedPairs(m, ctx, q - 1)
  /\ ctx.sbs.name # Null /\ ctx.sbs.name.text = Names(All(m))[q]
  /\ \/ ctx.hstate = "field" /\ ctx.sbs.value = Null /\ g = <<>>
     \/ ctx.hstate = "value" /\ ctx.sbs.value # Null /\ ctx.sbs.value.text = g

HeadersStage(m, ctx) == Early(m, ctx) /\ Waiting(m, ctx, HeaderCount(m), EarlyUpTo(HeaderCount(m)))

BodyStage(m, ctx, g) == /\ Late(m, ctx) /\ ctx.message.body = g
                        /\ Waiting(m, ctx, HeaderCount(m), HeaderCount(m))

EndStage(m, ctx) == /\ Late(m, ctx) /\ ctx.message.body = m.body
                    /\ Waiting(m, ctx, Len(All(m)), LateUpTo(m, Len(All(m))))

Stage(m, ctx, p, g) ==
  \/ p = 1 /\ FirstStage(m, ctx, g)
  \/ \E q \in 1..Len(All(m)) : p = At(m, q) /\ FieldStage(m, ctx, q, g)
  \/ \E q \in 1..Len(All(m)) : p = At(m, q) + 1 /\ ValueStage(m, ctx, q, g)
  \/ p = HeadersAt(m) /\ g = <<>> /\ HeadersStage(m, ctx)
  \/ p = HeadersAt(m) + 1 /\ Extra(m) = 1 /\ BodyStage(m, ctx, g)
  \/ p = EndAt(m) /\ g = <<>> /\ EndStage(m, ctx)

(* The next call says in which stage the message is.                       *)
LEMMA StageOf ==
  ASSUME NEW m \in Messages, NEW ctx, NEW p, NEW g, Stage(m, ctx, p, g)
  PROVE  /\ Calls(m)[p].cb \in {"url", "status"} =>
              p = 1 /\ m.kind = Calls(m)[p].cb /\ Calls(m)[p].text = m.first /\ FirstStage(m, ctx, g)
         /\ Calls(m)[p].cb = "field" =>
              \E q \in 1..Len(All(m)) : /\ p = At(m, q) /\ FieldStage(m, ctx, q, g)
                                        /\ Calls(m)[p].text = All(m)[q].name
         /\ Calls(m)[p].cb = "value" =>
              \E q \in 1..Len(All(m)) : /\ p = At(m, q) + 1 /\ ValueStage(m, ctx, q, g)
                                        /\ Calls(m)[p].text = All(m)[q].value
         /\ Calls(m)[p].cb = "headers" => p = HeadersAt(m) /\ HeadersStage(m, ctx)
         /\ Calls(m)[p].cb = "body" =>
              /\ p = HeadersAt(m) + 1 /\ Extra(m) = 1 /\ BodyStage(m, ctx, g)
              /\ Calls(m)[p].text = m.body
         /\ Calls(m)[p].cb \in {"complete", "eof"} => p = EndAt(m) /\ EndStage(m, ctx)
<1> DEFINE cb == Calls(m)[p].cb
           text == Calls(m)[p].text
<1>0. m.kind \in {"url", "status"}
  BY DEF Messages
<1>1. ASSUME NEW n, NEW x PROVE Call(n, x).cb = n /\ Call(n, x).text = x
  BY DEF Call
<1>2. CASE p = 1 /\ FirstStage(m, ctx, g)
  <2>1. cb = m.kind /\ text = m.first
    BY <1>1, <1>2, CallsAt
  <2> HIDE DEF cb, text
  <2> QED
    BY ONLY <1>0, <1>2, <2>1 DEF cb, text
<1>3. ASSUME NEW q \in 1..Len(All(m)), p = At(m, q), FieldStage(m, ctx, q, g)
      PROVE  cb = "field" /\ text = All(m)[q].name
  BY <1>1, <1>3, CallsAt
<1>4. ASSUME NEW q \in 1..Len(All(m)), p = At(m, q) + 1, ValueStage(m, ctx, q, g)
      PROVE  cb = "value" /\ text = All(m)[q].value
  <2>1. ~Bare(m, q)
    BY <1>4 DEF ValueStage
  <2> QED
    BY <1>1, <1>4, <2>1, PairAt
<1>5. CASE p = HeadersAt(m) /\ g = <<>> /\ HeadersStage(m, ctx)
  <2>1. cb = "headers"
    BY <1>1, <1>5, CallsAt
  <2> QED
    BY ONLY <1>5, <2>1
<1>6. CASE p = HeadersAt(m) + 1 /\ Extra(m) = 1 /\ BodyStage(m, ctx, g)
  <2>1. cb = "body" /\ text = m.body
    BY <1>1, <1>6, CallsAt
  <2> QED
    BY ONLY <1>6, <2>1
<1>7. CASE p = EndAt(m) /\ g = <<>> /\ EndStage(m, ctx)
  <2>1. cb \in {"complete", "eof"}
    BY <1>1, <1>7, CallsAt
  <2> QED
    BY ONLY <1>7, <2>1
<1>8. CASE \E q \in 1..Len(All(m)) : p = At(m, q) /\ FieldStage(m, ctx, q, g)
  <2>1. cb = "field"
    BY ONLY <1>3, <1>8
  <2> QED
    BY ONLY <1>3, <1>8, <2>1
<1>9. CASE \E q \in 1..Len(All(m)) : p = At(m, q) + 1 /\ ValueStage(m, ctx, q, g)
  <2>1. cb = "value"
    BY ONLY <1>4, <1>9
  <2> QED
    BY ONLY <1>4, <1>9, <2>1
<1> QED
  BY ONLY <1>2, <1>5, <1>6, <1>7, <1>8, <1>9, Stage(m, ctx, p, g) DEF Stage

-----------------------------------------------------------------------------
(* From one text to the next.                                              *)
LEMMA FirstDone ==
  ASSUME NEW m \in Messages, NEW ctx, FirstStage(m, ctx, m.first)
  PROVE  Stage(m, ctx, 2, <<>>)
<1>1. Early(m, ctx)
  BY DEF FirstStage, Early, UrlOf, StatusOf
<1>2. /\ All(m) \in Seq(PairSet) /\ HeaderCount(m) \in Nat /\ Len(All(m)) \in Nat
      /\ HeaderCount(m) <= Len(All(m))
      /\ 2 = (IF HeaderCount(m) = 0 THEN HeadersAt(m) ELSE At(m, 1))
  BY CallsAt
<1>3. Waiting(m, ctx, 0, 0)
  <2>1. MapOf(SubSeq(All(m), 1, 0)) = {}
    BY <1>2, MapGrows
  <2> QED
    BY <2>1 DEF FirstStage, Waiting, SavedPairs
<1>4. CASE HeaderCount(m) = 0
  <2>1. 2 = HeadersAt(m)
    BY <1>2, <1>4
  <2>2. HeadersStage(m, ctx)
    BY ONLY <1>1, <1>3, <1>4 DEF HeadersStage, EarlyUpTo
  <2> QED
    BY ONLY <2>1, <2>2 DEF Stage
<1>5. CASE HeaderCount(m) # 0
  <2>1. 1 \in 1..Len(All(m)) /\ 1 <= HeaderCount(m) /\ 2 = At(m, 1)
    BY <1>2, <1>5
  <2>2. FieldStage(m, ctx, 1, <<>>)
    <3>1. 1 - 1 = 0
      OBVIOUS
    <3> QED
      BY ONLY <1>1, <1>3, <2>1, <3>1 DEF FieldStage, Around, EarlyUpTo
  <2> QED
    BY ONLY <2>1, <2>2 DEF Stage
<1> QED
  BY <1>4, <1>5

(* Behind the q-th pair.                                                   *)
LEMMA PairDone ==
  ASSUME NEW m \in Messages, NEW ctx, NEW q \in 1..Len(All(m)), Around(m, ctx, q),
         Waiting(m, ctx, q, q - 1)
  PROVE  Stage(m, ctx, NextAt(m, q), <<>>)
<1>1. /\ HeaderCount(m) \in Nat /\ Len(All(m)) \in Nat
      /\ HeaderCount(m) <= Len(All(m)) /\ q \in Nat /\ q # 0
  BY CallsAt
<1>3. CASE q = HeaderCount(m)
  <2>1. NextAt(m, q) = HeadersAt(m)
    BY <1>3 DEF NextAt
  <2>2. HeadersStage(m, ctx)
    <3>1. q <= HeaderCount(m)
      BY <1>1, <1>3
    <3> QED
      BY ONLY <1>1, <1>3, <3>1, Around(m, ctx, q), Waiting(m, ctx, q, q - 1)
         DEF HeadersStage, Around, EarlyUpTo
  <2> QED
    BY ONLY <2>1, <2>2 DEF Stage
<1>4. CASE q # HeaderCount(m) /\ q = Len(All(m))
  <2>1. NextAt(m, q) = EndAt(m) /\ ~(q <= HeaderCount(m))
    BY <1>1, <1>4 DEF NextAt
  <2>2. EndStage(m, ctx)
    BY ONLY <1>4, <2>1, Around(m, ctx, q), Waiting(m, ctx, q, q - 1) DEF EndStage, Around, LateUpTo
  <2> QED
    BY ONLY <2>1, <2>2 DEF Stage
<1>5. CASE q # HeaderCount(m) /\ q # Len(All(m))
  <2> DEFINE r == q + 1
  <2>1. /\ r \in 1..Len(All(m)) /\ r - 1 = q /\ (q <= HeaderCount(m) <=> r <= HeaderCount(m))
        /\ NextAt(m, q) = At(m, r)
    BY <1>1, <1>5 DEF NextAt
  <2> HIDE DEF r
  <2>2. FieldStage(m, ctx, r, <<>>)
    BY ONLY <1>1, <1>5, <2>1, Around(m, ctx, q), Waiting(m, ctx, q, q - 1)
       DEF FieldStage, Around, EarlyUpTo, LateUpTo
  <2> QED
    BY ONLY <2>1, <2>2 DEF Stage
<1> QED
  BY <1>3, <1>4, <1>5

LEMMA FieldDone ==
  ASSUME NEW m \in Messages, NEW ctx, NEW q \in 1..Len(All(m)), Around(m, ctx, q),
         SavedPairs(m, ctx, q - 1), ctx.hstate = "field",
         ctx.sbs.name # Null, ctx.sbs.name.text = Names(All(m))[q], ctx.sbs.value = Null
  PROVE  Stage(m, ctx, At(m, q) + 1, <<>>)
<1>1. CASE ~Bare(m, q)
  <2>1. ValueStage(m, ctx, q, <<>>)
    BY <1>1 DEF ValueStage
  <2> QED
    BY <2>1 DEF Stage
<1>2. CASE Bare(m, q)
  <2>1. q # 0
    OBVIOUS
  <2>2. Waiting(m, ctx, q, q - 1)
    BY <1>2, <2>1 DEF Waiting
  <2>3. NextAt(m, q) = At(m, q) + 1
    BY <1>2, PairAt
  <2> QED
    BY <2>2, <2>3, PairDone
<1> QED
  BY <1>1, <1>2

LEMMA ValueDone ==
  ASSUME NEW m \in Messages, NEW ctx, NEW q \in 1..Len(All(m)), Around(m, ctx, q), ~Bare(m, q),
         SavedPairs(m, ctx, q - 1), ctx.hstate = "value",
         ctx.sbs.name # Null, ctx.sbs.name.text = Names(All(m))[q],
         ctx.sbs.value # Null, ctx.sbs.value.text = All(m)[q].value
  PROVE  Stage(m, ctx, At(m, q) + 2, <<>>)
<1>1. q # 0
  OBVIOUS
<1>2. Waiting(m, ctx, q, q - 1)
  BY <1>1 DEF Waiting
<1>3. NextAt(m, q) = At(m, q) + 2
  BY PairAt
<1> QED
  BY <1>2, <1>3, PairDone

(* Behind the headers callback and the body.                               *)
LEMMA BodyDone ==
  ASSUME NEW m \in Messages, NEW ctx, BodyStage(m, ctx, m.body)
  PROVE  Stage(m, ctx, HeadersAt(m) + 1 + Extra(m), <<>>)
<1>1. /\ HeaderCount(m) \in Nat /\ Len(All(m)) \in Nat
      /\ HeaderCount(m) <= Len(All(m))
      /\ HeadersAt(m) + 1 + Extra(m) = (IF HeaderCount(m) = Len(All(m)) THEN EndAt(m)
                                        ELSE At(m, HeaderCount(m) + 1))
  BY CallsAt
<1>2. /\ Late(m, ctx) /\ ctx.message.body = m.body
      /\ Waiting(m, ctx, HeaderCount(m), HeaderCount(m))
  BY DEF BodyStage
<1>3. CASE HeaderCount(m) = Len(All(m))
  <2>1. HeadersAt(m) + 1 + Extra(m) = EndAt(m)
    BY <1>1, <1>3
  <2>2. EndStage(m, ctx)
    BY ONLY <1>2, <1>3 DEF EndStage, LateUpTo
  <2> QED
    BY ONLY <2>1, <2>2 DEF Stage
<1>4. CASE HeaderCount(m) # Len(All(m))
  <2> DEFINE q == HeaderCount(m) + 1
  <2>1. /\ q \in 1..Len(All(m)) /\ ~(q <= HeaderCount(m)) /\ q - 1 = HeaderCount(m)
        /\ HeadersAt(m) + 1 + Extra(m) = At(m, q)
    BY <1>1, <1>4
  <2> HIDE DEF q
  <2>2. FieldStage(m, ctx, q, <<>>)
    BY ONLY <1>2, <2>1 DEF FieldStage, Around, LateUpTo
  <2> QED
    BY ONLY <2>1, <2>2 DEF Stage
<1> QED
  BY <1>3, <1>4

-----------------------------------------------------------------------------
(***************************************************************************)
(* The invariant of a whole stream.                                        *)
(***************************************************************************)
NameValues == [name : Text, value : Text]
Contents   == [url : Text, status : Text, headers : SUBSET NameValues, body : Text]

Counted(m, p) == /\ Len(announced) = (IF p <= HeadersAt(m) THEN begun - 1 ELSE begun)
                 /\ Len(delivered) = begun - 1

Between == /\ begun < Len(stream) => message = NewMessage /\ sbs = NoBuffers
           /\ Len(announced) = begun /\ Len(delivered) = begun

Under(m) == \E p \in Nat, g \in Text :
              Ahead(m, todo, p, g) /\ Stage(m, Context, p, g) /\ Counted(m, p)

Progress == IF todo = <<>> THEN Between ELSE begun # 0 /\ Under(stream[begun])

AnnouncedOK(i) == announced[i] = SentMessage(stream[i], stream[i].headers, <<>>)
DeliveredOK(i) == delivered[i] =
  SentMessage(stream[i], stream[i].headers \o AllButLast(stream[i].trailers), stream[i].body)

Histories == /\ announced \in Seq(Contents) /\ delivered \in Seq(Contents)
             /\ \A i \in 1..Len(announced) : AnnouncedOK(i)
             /\ \A i \in 1..Len(delivered) : DeliveredOK(i)

(* header_state still says that a name has begun which setUpNextMessage    *)
(* has freed: the last trailer of a message had no colon.                  *)
Ended == IF todo = <<>> THEN begun ELSE begun - 1
Stale == hstate = "field" /\ sbs.name = Null => \E i \in 1..Ended : LastBare(stream[i].trailers)

Whole == /\ TypeOK /\ message \in Contents
         /\ streaming \/ Len(stream) <= 1
         /\ Progress /\ Histories /\ Stale

(* The message a call belongs to.                                          *)
LEMMA TheMessage ==
  ASSUME Whole, todo # <<>>
  PROVE  /\ begun \in 1..Len(stream) /\ stream[begun] \in Messages
         /\ todo \in Seq(CallSet) /\ Under(stream[begun])
<1>1. /\ stream \in Seq(Messages) /\ begun \in 0..Len(stream) /\ todo \in Seq(CallSet)
      /\ begun # 0 /\ Under(stream[begun])
  BY HttpAssumption DEF Whole, TypeOK, Progress
<1>2. begun \in 1..Len(stream)
  BY <1>1
<1>3. stream[begun] \in Messages
  BY ONLY <1>1, <1>2
<1> QED
  BY ONLY <1>1, <1>2, <1>3

(* A data callback takes a piece of the text it is in, or the rest of it.  *)
LEMMA DataLeft ==
  ASSUME NEW m \in Messages, todo \in Seq(CallSet), NEW p, NEW g \in Text, Ahead(m, todo, p, g),
         NEW cb \in CallNames, NEW piece \in Pieces, Data(cb, piece), p # Len(Calls(m))
  PROVE  /\ Calls(m)[p].cb = cb /\ piece \in Text /\ g \o piece \in Text /\ p \in Nat
         /\ \/ Ahead(m, todo', p, g \o piece)
            \/ g \o piece = Calls(m)[p].text /\ Ahead(m, todo', p + 1, <<>>)
<1>1. todo # <<>> /\ todo[1].cb = cb /\ todo[1].cb = Calls(m)[p].cb
      /\ g \o todo[1].text = Calls(m)[p].text /\ p \in Nat
  <2>1. p \in 1..Len(Calls(m)) /\ Len(Calls(m)) \in Nat
    BY CallsAt DEF Ahead
  <2> QED
    BY <2>1 DEF Data, Ahead
<1>2. 1 \in DOMAIN todo /\ todo[1] \in CallSet
  BY <1>1
<1>3. todo[1].text \in Text
  BY <1>2 DEF CallSet
<1> DEFINE text == todo[1].text
<1>4. PICK k \in 0..Len(text) : piece = SubSeq(text, 1, k)
  BY <1>1 DEF Pieces
<1>5. piece \in Text /\ Len(piece) = k
  BY ONLY <1>3, <1>4, Cut
<1>6. g \o piece \in Text
  BY ONLY <1>5, g \in Text, Texts
<1>7. CASE piece = text /\ todo' = Tail(todo)
  <2>1. Ahead(m, todo', p + 1, <<>>)
    BY <1>7, TailAhead
  <2> QED
    BY ONLY <1>1, <1>5, <1>6, <1>7, <2>1
<1>8. CASE todo' = [todo EXCEPT ![1].text = SubSeq(@, Len(piece) + 1, Len(@))]
  <2> DEFINE rest == SubSeq(text, k + 1, Len(text))
  <2>1. todo' = [todo EXCEPT ![1].text = rest]
    BY ONLY <1>2, <1>5, <1>8
  <2>2. Ahead(m, [todo EXCEPT ![1].text = rest], p, g \o SubSeq(text, 1, k))
    BY RestAhead
  <2> QED
    BY ONLY <1>1, <1>4, <1>5, <1>6, <2>1, <2>2
<1> QED
  BY <1>7, <1>8 DEF Data

LEMMA DataWhole ==
  ASSUME Whole, TypeOK', message' \in Contents, Stale',
         NEW cb \in CallNames, NEW piece \in Pieces, Data(cb, piece),
         NEW p, NEW g \in Text, Ahead(stream[begun], todo, p, g), Counted(stream[begun], p),
         p # HeadersAt(stream[begun]), p # EndAt(stream[begun]),
         Stage(stream[begun], Context', p, g \o piece),
         g \o piece = Calls(stream[begun])[p].text => Stage(stream[begun], Context', p + 1, <<>>)
  PROVE  Whole'
<1> DEFINE m == stream[begun]
<1>1. todo # <<>> /\ UNCHANGED <<stream, streaming, begun, announced, delivered>>
  BY DEF Data
<1>2. m \in Messages /\ todo \in Seq(CallSet) /\ begun \in 1..Len(stream)
  BY <1>1, TheMessage
<1>3. stream'[begun'] = m
  BY <1>1
<1> HIDE DEF m
<1>4. p # Len(Calls(m))
  BY <1>2, CallsAt DEF m
<1>5. /\ Calls(m)[p].cb = cb /\ piece \in Text /\ g \o piece \in Text /\ p \in Nat
      /\ \/ Ahead(m, todo', p, g \o piece)
         \/ g \o piece = Calls(m)[p].text /\ Ahead(m, todo', p + 1, <<>>)
  BY <1>2, <1>4, DataLeft DEF m
<1>6. Counted(m, p)' /\ Counted(m, p + 1)'
  <2>1. HeadersAt(m) \in Nat
    BY <1>2, CallsAt
  <2>2. p <= HeadersAt(m) <=> p + 1 <= HeadersAt(m)
    BY <1>5, <2>1 DEF m
  <2> QED
    BY <1>1, <2>2 DEF Counted, m
<1>7. todo' # <<>>
  BY <1>5 DEF Ahead
<1>8. Under(m)'
  <2>1. CASE Ahead(m, todo', p, g \o piece)
    BY <1>1, <1>5, <1>6, <2>1 DEF Under, m
  <2>2. CASE g \o piece = Calls(m)[p].text /\ Ahead(m, todo', p + 1, <<>>)
    <3>1. p + 1 \in Nat /\ <<>> \in Text
      BY <1>5, Texts
    <3>2. Stage(m, Context', p + 1, <<>>)
      BY <2>2 DEF m
    <3> QED
      BY <1>1, <1>6, <2>2, <3>1, <3>2 DEF Under, m
  <2> QED
    BY <1>5, <2>1, <2>2
<1>9. Progress'
  <2>1. begun' # 0
    BY <1>1, <1>2
  <2> QED
    BY <1>1, <1>7, <1>8, <2>1 DEF Progress, m
<1>10. Histories'
  BY <1>1 DEF Whole, Histories, AnnouncedOK, DeliveredOK
<1> QED
  BY <1>1, <1>9, <1>10 DEF Whole

-----------------------------------------------------------------------------
(* One lemma for each callback.                                            *)
LEMMA SaveOne ==
  ASSUME NEW m \in Messages, NEW q \in 1..Len(All(m)), ~Bare(m, q), NEW H,
         H = MapOf(SubSeq(All(m), 1, q - 1)) \/ H = MapOf(SubSeq(All(m), 1, q))
  PROVE  {p \in H : p.name # Names(All(m))[q]}
           \cup {[name |-> Names(All(m))[q], value |-> All(m)[q].value]}
             = MapOf(SubSeq(All(m), 1, q))
<1> DEFINE before == MapOf(SubSeq(All(m), 1, q - 1))
           after  == MapOf(SubSeq(All(m), 1, q))
           name   == Names(All(m))[q]
           row    == [name |-> name, value |-> All(m)[q].value]
<1>1. All(m) \in Seq(PairSet)
  BY CallsAt
<1>2. All(m)[q].colon
  BY Zenon DEF Bare
<1>3. after = {p \in before : p.name # name} \cup {row}
  BY <1>1, <1>2, MapGrows, Zenon
<1>4. row.name = name
  OBVIOUS
<1> HIDE DEF before, after, row, name
<1>5. H = before \/ H = after
  BY DEF before, after
<1>6. {p \in H : p.name # name} \cup {row} = after
  BY ONLY <1>3, <1>4, <1>5
<1> QED
  BY ONLY <1>6 DEF row, name, after

(* A line without a colon adds no pair.                                    *)
LEMMA BareAdds ==
  ASSUME NEW m \in Messages, NEW q \in 1..Len(All(m)), Bare(m, q)
  PROVE  MapOf(SubSeq(All(m), 1, q)) = MapOf(SubSeq(All(m), 1, q - 1))
<1>1. All(m) \in Seq(PairSet)
  BY CallsAt
<1>2. ~All(m)[q].colon
  BY Zenon DEF Bare
<1> QED
  BY <1>1, <1>2, MapGrows, Zenon

LEMMA SavedIs ==
  ASSUME TypeOK, message \in Contents, NEW m \in Messages, NEW q \in 0..Len(All(m)),
         q = 0 \/ ~Bare(m, q),
         NEW n, n = q \/ (q # 0 /\ n = q - 1), Waiting(m, Context, q, n)
  PROVE  /\ SavedIfNamed \in Contents
         /\ SavedIfNamed.headers = MapOf(SubSeq(All(m), 1, q))
         /\ SavedIfNamed.url = message.url /\ SavedIfNamed.status = message.status
         /\ SavedIfNamed.body = message.body
<1> DEFINE name  == sbs.name.text
           value == sbs.value.text
           pair  == [name |-> name, value |-> value]
           old   == message.headers
           new   == {p \in old : p.name # name} \cup {pair}
<1>1. /\ old = MapOf(SubSeq(All(m), 1, n))
      /\ q = 0 => sbs.name = Null
      /\ q # 0 => /\ sbs.name # Null /\ name = Names(All(m))[q]
                  /\ sbs.value # Null /\ value = All(m)[q].value
  BY DEF Waiting, SavedPairs, Context
<1>2. CASE q = 0
  <2>1. SavedIfNamed = message /\ n = q
    BY <1>1, <1>2 DEF SavedIfNamed
  <2> QED
    BY <1>1, <2>1
<1>3. CASE q # 0
  <2>1. SavedIfNamed = [message EXCEPT !.headers = new]
    BY <1>1, <1>3 DEF SavedIfNamed, Saved
  <2>2. q \in 1..Len(All(m))
    <3>1. Len(All(m)) \in Nat
      BY CallsAt
    <3> QED
      BY <1>3, <3>1
  <2>3. new = MapOf(SubSeq(All(m), 1, q))
    <3>1. ~Bare(m, q) /\ (old = MapOf(SubSeq(All(m), 1, q - 1)) \/ old = MapOf(SubSeq(All(m), 1, q)))
      BY <1>1, <1>3
    <3>2. {p \in old : p.name # Names(All(m))[q]}
            \cup {[name |-> Names(All(m))[q], value |-> All(m)[q].value]}
              = MapOf(SubSeq(All(m), 1, q))
      BY <2>2, <3>1, SaveOne
    <3> HIDE DEF old
    <3> QED
      BY ONLY <1>1, <1>3, <3>2
  <2>4. pair \in NameValues
    <3>1. sbs.name \in Buffers /\ sbs.value \in Buffers
      <4>1. BuffersOK(sbs) /\ "name" \in SbNames /\ "value" \in SbNames
        BY DEF TypeOK, SbNames
      <4> QED
        BY ONLY <1>1, <1>3, <4>1 DEF BuffersOK
    <3> QED
      BY ONLY <3>1 DEF Buffers, NameValues
  <2>5. old \subseteq NameValues
    BY DEF Contents
  <2>6. new \in SUBSET NameValues
    BY ONLY <2>4, <2>5
  <2> HIDE DEF new
  <2> QED
    BY <2>1, <2>3, <2>6 DEF Contents
<1> QED
  BY <1>2, <1>3

(* A data callback does not end a message.                                 *)
LEMMA StaleKept ==
  ASSUME Whole, NEW cb \in CallNames, NEW piece \in Pieces, Data(cb, piece),
         NEW p, NEW g \in Text, Ahead(stream[begun], todo, p, g), p # Len(Calls(stream[begun])),
         hstate' = "field" /\ sbs'.name = Null => hstate = "field" /\ sbs.name = Null
  PROVE  Stale'
<1>1. todo # <<>> /\ stream' = stream /\ begun' = begun /\ Stale
  BY DEF Data, Whole
<1>2. stream[begun] \in Messages /\ todo \in Seq(CallSet)
  BY <1>1, TheMessage
<1> DEFINE m == stream[begun]
<1>3. Ahead(m, todo', p, g \o piece) \/ Ahead(m, todo', p + 1, <<>>)
  BY <1>2, DataLeft
<1>4. todo' # <<>>
  BY <1>3 DEF Ahead
<1> QED
  BY <1>1, <1>4 DEF Stale, Ended

LEMMA FirstLineWhole ==
  ASSUME Whole, TypeOK', NEW cb \in {"url", "status"}, FirstLine(cb)
  PROVE  Whole'
<1>1. PICK piece \in Pieces :
        /\ Data(cb, piece)
        /\ sbs' = [sbs EXCEPT ![cb] = SbAppend(IF @ = Null THEN SbCreate ELSE @, piece)]
        /\ UNCHANGED <<hstate, message>>
  BY DEF FirstLine
<1> DEFINE m == stream[begun]
<1>2. todo # <<>> /\ todo[1].cb = cb
  BY <1>1 DEF Data
<1>3. m \in Messages /\ todo \in Seq(CallSet) /\ Under(m)
  BY <1>2, TheMessage
<1>4. PICK p \in Nat, g \in Text : Ahead(m, todo, p, g) /\ Stage(m, Context, p, g) /\ Counted(m, p)
  BY <1>3 DEF Under
<1>5. Calls(m)[p].cb = cb
  BY <1>2, <1>4 DEF Ahead
<1>6. p = 1 /\ m.kind = cb /\ Calls(m)[p].text = m.first /\ FirstStage(m, Context, g)
  BY <1>3, <1>4, <1>5, StageOf
<1>7. p # HeadersAt(m) /\ p # EndAt(m) /\ p # Len(Calls(m))
  <2>1. /\ Len(Calls(m)) = EndAt(m) /\ HeadersAt(m) \in Nat /\ EndAt(m) \in Nat
        /\ 1 < HeadersAt(m) /\ HeadersAt(m) < EndAt(m)
    BY <1>3, CallsAt
  <2> QED
    BY ONLY <1>6, <2>1
<1>8. cb \in CallNames /\ cb \in SbNames /\ "name" \in SbNames /\ "value" \in SbNames
      /\ "url" \in SbNames /\ "status" \in SbNames /\ cb # "name" /\ cb # "value"
  BY DEF CallNames, SbNames
<1>9. piece \in Text
  BY <1>1, <1>3, <1>4, <1>7, <1>8, DataLeft
<1>10. TextOf(sbs'[cb]) = TextOf(sbs[cb]) \o piece
       /\ \A k \in SbNames : k # cb => sbs'[k] = sbs[k]
  <2>1. BuffersOK(sbs) /\ BuffersOK(sbs')
    BY DEF Whole, TypeOK
  <2>3. sbs'[cb] = SbAppend(IF sbs[cb] = Null THEN SbCreate ELSE sbs[cb], piece)
        /\ \A k \in SbNames : k # cb => sbs'[k] = sbs[k]
    <3>1. DOMAIN sbs = SbNames
      BY <2>1 DEF BuffersOK
    <3> QED
      BY ONLY <1>1, <1>8, <3>1
  <2>4. sbs'[cb] # Null
    <3> DEFINE old == IF sbs[cb] = Null THEN SbCreate ELSE sbs[cb]
    <3>1. BufferOK(old)
      BY <1>8, <2>1, SbCreateOK DEF BuffersOK
    <3> HIDE DEF old
    <3>2. BufferOK(SbAppend(old, piece))
      BY <1>9, <3>1, SbAppendOK
    <3> QED
      BY <2>3, <3>2, HttpAssumption DEF old, BufferOK
  <2>5. sbs'[cb].text = (IF sbs[cb] = Null THEN <<>> ELSE sbs[cb].text) \o piece
    BY ONLY <2>3 DEF SbAppend, SbCreate
  <2> QED
    BY ONLY <2>3, <2>4, <2>5 DEF TextOf
<1>11. FirstStage(m, Context', g \o piece)
  <2>1. /\ message.headers = {} /\ message.body = <<>>
        /\ sbs.name = Null /\ sbs.value = Null
        /\ TextOf(sbs.url) = (IF m.kind = "url" THEN g ELSE <<>>)
        /\ TextOf(sbs.status) = (IF m.kind = "status" THEN g ELSE <<>>)
    BY <1>6 DEF FirstStage, Context
  <2>2. /\ message'.headers = {} /\ message'.body = <<>>
        /\ sbs'.name = Null /\ sbs'.value = Null
    BY ONLY <1>1, <1>8, <1>10, <2>1
  <2>3. /\ TextOf(sbs'.url) = (IF m.kind = "url" THEN g \o piece ELSE <<>>)
        /\ TextOf(sbs'.status) = (IF m.kind = "status" THEN g \o piece ELSE <<>>)
    <3>1. CASE cb = "url"
      BY ONLY <1>6, <1>8, <1>10, <2>1, <3>1
    <3>2. CASE cb = "status"
      BY ONLY <1>6, <1>8, <1>10, <2>1, <3>2
    <3> QED
      BY <3>1, <3>2
  <2> QED
    BY ONLY <2>2, <2>3 DEF FirstStage, Context
<1>12. Stage(m, Context', p, g \o piece)
  BY ONLY <1>6, <1>11 DEF Stage
<1>13. g \o piece = Calls(m)[p].text => Stage(m, Context', p + 1, <<>>)
  <2>1. p + 1 = 2
    BY <1>6
  <2> QED
    BY <1>3, <1>6, <1>11, <2>1, FirstDone
<1>14. message' \in Contents
  BY <1>1 DEF Whole
<1>15. Stale'
  <2>1. hstate' = hstate /\ sbs'.name = sbs.name /\ stream' = stream /\ Stale
    BY <1>1, <1>8, <1>10 DEF Data, Whole
  <2> QED
    BY <1>1, <1>2, <1>4, <1>7, <1>8, <2>1, StaleKept
<1> QED
  BY <1>1, <1>4, <1>7, <1>8, <1>12, <1>13, <1>14, <1>15, DataWhole

(* The places of the pairs and of the body are not those of the notices.   *)
(* The places of the pairs and of the body are not those of the notices.   *)
LEMMA Places ==
  ASSUME NEW m \in Messages
  PROVE  /\ \A q \in 1..Len(All(m)) :
              /\ At(m, q) # HeadersAt(m) /\ At(m, q) # EndAt(m)
              /\ ~Bare(m, q) => At(m, q) + 1 # HeadersAt(m) /\ At(m, q) + 1 # EndAt(m)
              /\ At(m, q) + 1 + 1 = At(m, q) + 2
         /\ Extra(m) = 1 => HeadersAt(m) + 1 # HeadersAt(m) /\ HeadersAt(m) + 1 # EndAt(m)
         /\ HeadersAt(m) # EndAt(m) /\ HeadersAt(m) \in Nat
<1> DEFINE cb(p) == Calls(m)[p].cb
<1>1. ASSUME NEW n, NEW x PROVE Call(n, x).cb = n
  BY DEF Call
<1>2. cb(HeadersAt(m)) = "headers"
  <2>1. Calls(m)[HeadersAt(m)] = Call("headers", <<>>)
    BY CallsAt
  <2> QED
    BY ONLY <1>1, <2>1
<1>3. cb(EndAt(m)) \in {"complete", "eof"}
  <2>1. Calls(m)[EndAt(m)] = Call(IF m.untilEof THEN "eof" ELSE "complete", <<>>)
    BY CallsAt
  <2>2. cb(EndAt(m)) = (IF m.untilEof THEN "eof" ELSE "complete")
    BY <1>1, <2>1, Zenon
  <2> QED
    BY <2>2, Zenon
<1>4. Extra(m) = 1 => cb(HeadersAt(m) + 1) = "body"
  <2>1. Extra(m) = 1 => Calls(m)[HeadersAt(m) + 1] = Call("body", m.body)
    BY CallsAt
  <2> QED
    BY ONLY <1>1, <2>1
<1>5. ASSUME NEW q \in 1..Len(All(m))
      PROVE  /\ cb(At(m, q)) = "field" /\ At(m, q) \in Nat
             /\ ~Bare(m, q) => cb(At(m, q) + 1) = "value"
  <2>1. Calls(m)[At(m, q)] = Call("field", All(m)[q].name) /\ At(m, q) \in Nat
    BY CallsAt
  <2>2. ~Bare(m, q) => Calls(m)[At(m, q) + 1] = Call("value", All(m)[q].value)
    BY PairAt
  <2> QED
    BY ONLY <1>1, <2>1, <2>2
<1>6. HeadersAt(m) \in Nat
  BY CallsAt
<1> HIDE DEF cb
<1>7. ASSUME NEW q \in 1..Len(All(m))
      PROVE  /\ At(m, q) # HeadersAt(m) /\ At(m, q) # EndAt(m)
             /\ ~Bare(m, q) => At(m, q) + 1 # HeadersAt(m) /\ At(m, q) + 1 # EndAt(m)
             /\ At(m, q) + 1 + 1 = At(m, q) + 2
  <2>1. /\ cb(At(m, q)) = "field" /\ At(m, q) \in Nat
        /\ ~Bare(m, q) => cb(At(m, q) + 1) = "value"
    BY <1>5
  <2> QED
    BY ONLY <1>2, <1>3, <2>1
<1> QED
  BY ONLY <1>2, <1>3, <1>4, <1>6, <1>7

LEMMA HeaderFieldWhole ==
  ASSUME Whole, TypeOK', HeaderField
  PROVE  Whole'
<1>1. PICK piece \in Pieces :
        /\ Data("field", piece)
        /\ hstate' = "field"
        /\ IF hstate = "field"
           THEN /\ sbs' = [sbs EXCEPT !.name = SbAppend(@, piece)]
                /\ UNCHANGED message
           ELSE /\ message' = SavedIfNamed
                /\ sbs' = [sbs EXCEPT !.name = SbAppend(SbCreate, piece), !.value = Null]
  BY DEF HeaderField
<1> DEFINE m == stream[begun]
<1>2. todo # <<>> /\ todo[1].cb = "field"
  BY <1>1 DEF Data
<1>3. m \in Messages /\ todo \in Seq(CallSet) /\ Under(m)
  BY <1>2, TheMessage
<1>4. PICK p \in Nat, g \in Text : Ahead(m, todo, p, g) /\ Stage(m, Context, p, g) /\ Counted(m, p)
  BY <1>3 DEF Under
<1>5. Calls(m)[p].cb = "field"
  BY <1>2, <1>4 DEF Ahead
<1>6. PICK q \in 1..Len(All(m)) : /\ p = At(m, q) /\ FieldStage(m, Context, q, g)
                                  /\ Calls(m)[p].text = All(m)[q].name
  BY <1>3, <1>4, <1>5, StageOf
<1>7. p # HeadersAt(m) /\ p # EndAt(m) /\ p # Len(Calls(m))
  BY <1>3, <1>6, Places, CallsAt
<1>8. "field" \in CallNames /\ {"url", "status", "name", "value"} = SbNames
  BY DEF CallNames, SbNames
<1>9. piece \in Text
  BY <1>1, <1>3, <1>4, <1>7, <1>8, DataLeft
<1>11. /\ sbs'.url = sbs.url /\ sbs'.status = sbs.status /\ sbs'.name # Null
       /\ sbs'.name = SbAppend(IF hstate = "field" THEN sbs.name ELSE SbCreate, piece)
       /\ sbs'.value = (IF hstate = "field" THEN sbs.value ELSE Null)
       /\ hstate = "field" => sbs.name # Null
  <2>1. TypeOK
    BY DEF Whole
  <2>2. IF hstate = "field"
        THEN sbs' = [sbs EXCEPT !.name = SbAppend(@, piece)]
        ELSE sbs' = [sbs EXCEPT !.name = SbAppend(SbCreate, piece), !.value = Null]
    BY ONLY <1>1
  <2> QED
    BY <1>1, <2>1, <2>2, NamePut
<1>12. q - 1 \in 0..Len(All(m)) /\ HeaderCount(m) \in Nat /\ q \in Nat
  <2>1. Len(All(m)) \in Nat /\ HeaderCount(m) \in Nat
    BY <1>3, CallsAt
  <2> QED
    BY ONLY <2>1, q \in 1..Len(All(m))
<1> DEFINE n == IF q <= HeaderCount(m) THEN EarlyUpTo(q - 1) ELSE LateUpTo(m, q - 1)
<1>13. /\ message' \in Contents /\ message'.headers = MapOf(SubSeq(All(m), 1, q - 1))
       /\ message'.url = message.url /\ message'.status = message.status
       /\ message'.body = message.body /\ sbs'.value = Null
       /\ sbs'.name.text = Begun(m, q) \o (g \o piece)
  <2>0. message \in Contents /\ Begun(m, q) \in Text /\ <<>> \in Text
    BY <1>3, NameAt, Texts DEF Whole
  <2>1. CASE hstate = "field"
    <3>1. sbs'.name = SbAppend(sbs.name, piece) /\ message' = message /\ sbs'.value = sbs.value
      BY ONLY <1>1, <1>11, <2>1
    <3>2. CASE /\ SavedPairs(m, Context, q - 1)
               /\ sbs.name.text = Begun(m, q) \o g /\ sbs.value = Null
      <4>1. message.headers = MapOf(SubSeq(All(m), 1, q - 1))
        BY <3>2 DEF SavedPairs, Context
      <4>2. sbs'.name.text = (Begun(m, q) \o g) \o piece
        BY ONLY <3>1, <3>2 DEF SbAppend
      <4>3. (Begun(m, q) \o g) \o piece = Begun(m, q) \o (g \o piece)
        BY <1>9, <2>0, Regrouped
      <4> QED
        BY ONLY <2>0, <3>1, <3>2, <4>1, <4>2, <4>3
    <3>3. CASE g = <<>> /\ Waiting(m, Context, q - 1, n)
      <4>1. q - 1 # 0 /\ Bare(m, q - 1)
        BY <1>11, <2>1, <3>3 DEF Waiting, Context
      <4>2. /\ message.headers = MapOf(SubSeq(All(m), 1, n))
            /\ sbs.name.text = Names(All(m))[q - 1] /\ sbs.value = Null
        BY <3>3, <4>1 DEF Waiting, SavedPairs, Context
      <4>3. q # 1 /\ (n = q - 1 \/ n = q - 1 - 1)
        BY ONLY <1>12, <4>1 DEF EarlyUpTo, LateUpTo
      <4>4. MapOf(SubSeq(All(m), 1, n)) = MapOf(SubSeq(All(m), 1, q - 1))
        <5> DEFINE r == q - 1
        <5>1. r \in 1..Len(All(m)) /\ Bare(m, r) /\ (n = r \/ n = r - 1)
          BY <1>12, <4>1, <4>3
        <5> HIDE DEF r, n
        <5>2. MapOf(SubSeq(All(m), 1, r)) = MapOf(SubSeq(All(m), 1, r - 1))
          BY <1>3, <5>1, BareAdds
        <5> QED
          BY ONLY <5>1, <5>2 DEF r
      <4>5. Begun(m, q) = sbs.name.text
        BY <4>1, <4>2, <4>3 DEF Begun
      <4>6. sbs'.name.text = Begun(m, q) \o (g \o piece)
        <5>1. g \o piece = piece
          BY <1>9, <2>0, <3>3, Texts
        <5> QED
          BY ONLY <3>1, <4>5, <5>1 DEF SbAppend
      <4> HIDE DEF n
      <4> QED
        BY ONLY <2>0, <3>1, <4>2, <4>4, <4>6
    <3> QED
      BY <1>6, <2>1, <3>2, <3>3 DEF FieldStage, Context
  <2>2. CASE hstate # "field"
    <3>1. g = <<>> /\ Waiting(m, Context, q - 1, n)
      BY <1>6, <2>2 DEF FieldStage, Context
    <3>2. n = q - 1 \/ (q - 1 # 0 /\ n = q - 1 - 1)
      BY ONLY <1>12 DEF EarlyUpTo, LateUpTo
    <3> HIDE DEF n
    <3>3. q - 1 = 0 \/ ~Bare(m, q - 1)
      BY <2>2, <3>1 DEF Waiting, Context
    <3>4. /\ SavedIfNamed \in Contents
          /\ SavedIfNamed.headers = MapOf(SubSeq(All(m), 1, q - 1))
          /\ SavedIfNamed.url = message.url /\ SavedIfNamed.status = message.status
          /\ SavedIfNamed.body = message.body
      <4> DEFINE r == q - 1
      <4>1. /\ r \in 0..Len(All(m)) /\ (n = r \/ (r # 0 /\ n = r - 1)) /\ Waiting(m, Context, r, n)
            /\ r = 0 \/ ~Bare(m, r)
        BY <1>12, <3>1, <3>2, <3>3
      <4> HIDE DEF r
      <4>2. TypeOK
        BY DEF Whole
      <4>3. /\ SavedIfNamed \in Contents
            /\ SavedIfNamed.headers = MapOf(SubSeq(All(m), 1, r))
            /\ SavedIfNamed.url = message.url /\ SavedIfNamed.status = message.status
            /\ SavedIfNamed.body = message.body
        BY <1>3, <2>0, <4>1, <4>2, SavedIs
      <4> QED
        BY <4>3 DEF r
    <3>5. Begun(m, q) = <<>>
      BY <1>12, <3>3 DEF Begun
    <3>6. sbs'.name.text = <<>> \o piece /\ g \o piece = piece /\ <<>> \o piece = piece
      <4>1. g \o piece = piece /\ <<>> \o piece = piece
        BY <1>9, <2>0, <3>1, Texts
      <4>2. sbs'.name.text = <<>> \o piece
        BY ONLY <1>11, <2>2 DEF SbAppend, SbCreate
      <4> QED
        BY ONLY <4>1, <4>2
    <3> QED
      BY ONLY <1>1, <1>11, <2>2, <3>4, <3>5, <3>6
  <2> QED
    BY <2>1, <2>2
<1>14. Around(m, Context', q)
  <2>1. Around(m, Context, q)
    BY <1>6 DEF FieldStage
  <2> QED
    BY ONLY <1>11, <1>13, <2>1 DEF Around, Early, Late, Context
<1>15. FieldStage(m, Context', q, g \o piece)
  BY ONLY <1>1, <1>11, <1>13, <1>14 DEF FieldStage, SavedPairs, Context
<1>16. Stage(m, Context', p, g \o piece)
  BY ONLY <1>6, <1>15 DEF Stage
<1>17. ASSUME g \o piece = Calls(m)[p].text PROVE Stage(m, Context', p + 1, <<>>)
  <2> DEFINE ctx == Context'
  <2>1. /\ SavedPairs(m, ctx, q - 1) /\ ctx.hstate = "field"
        /\ ctx.sbs.name # Null /\ ctx.sbs.name.text = Names(All(m))[q] /\ ctx.sbs.value = Null
    <3>1. Begun(m, q) \o All(m)[q].name = Names(All(m))[q]
      BY <1>3, NameAt
    <3> QED
      BY ONLY <1>1, <1>6, <1>11, <1>13, <1>17, <3>1 DEF SavedPairs, Context
  <2>2. Around(m, ctx, q)
    BY <1>14
  <2> HIDE DEF ctx
  <2>3. Stage(m, ctx, At(m, q) + 1, <<>>)
    BY <1>3, <2>1, <2>2, FieldDone
  <2> QED
    BY ONLY <1>6, <2>3 DEF ctx
<1>18. message' \in Contents
  BY <1>13
<1>19. Stale'
  BY <1>1, <1>4, <1>7, <1>8, <1>11, StaleKept
<1> QED
  BY <1>1, <1>4, <1>7, <1>8, <1>16, <1>17, <1>18, <1>19, DataWhole

LEMMA HeaderValueWhole ==
  ASSUME Whole, TypeOK', HeaderValue
  PROVE  Whole'
<1>1. PICK piece \in Pieces :
        /\ Data("value", piece)
        /\ hstate' = "value"
        /\ sbs' = [sbs EXCEPT !.value = CASE hstate = "field"   -> SbAppend(SbCreate, piece)
                                          [] hstate = "value"   -> SbAppend(@, piece)
                                          [] hstate = "nothing" -> @]
        /\ UNCHANGED message
  BY DEF HeaderValue
<1> DEFINE m == stream[begun]
<1>2. todo # <<>> /\ todo[1].cb = "value"
  BY <1>1 DEF Data
<1>3. m \in Messages /\ todo \in Seq(CallSet) /\ Under(m)
  BY <1>2, TheMessage
<1>4. PICK p \in Nat, g \in Text : Ahead(m, todo, p, g) /\ Stage(m, Context, p, g) /\ Counted(m, p)
  BY <1>3 DEF Under
<1>5. Calls(m)[p].cb = "value"
  BY <1>2, <1>4 DEF Ahead
<1>6. PICK q \in 1..Len(All(m)) : /\ p = At(m, q) + 1 /\ ValueStage(m, Context, q, g)
                                  /\ Calls(m)[p].text = All(m)[q].value
  BY <1>3, <1>4, <1>5, StageOf
<1>7. p # HeadersAt(m) /\ p # EndAt(m) /\ p # Len(Calls(m)) /\ p + 1 = At(m, q) + 2
  BY <1>3, <1>6, Places, CallsAt DEF ValueStage
<1>8. "value" \in CallNames /\ {"url", "status", "name", "value"} = SbNames
  BY DEF CallNames, SbNames
<1>9. piece \in Text
  BY <1>1, <1>3, <1>4, <1>7, <1>8, DataLeft
<1>11. /\ hstate \in {"field", "value"} /\ (hstate = "field" => g = <<>>)
       /\ hstate = "value" => sbs.value.text = g
       /\ sbs.name # Null /\ sbs.name.text = Names(All(m))[q]
       /\ message.headers = MapOf(SubSeq(All(m), 1, q - 1)) /\ ~Bare(m, q)
  BY <1>6 DEF ValueStage, SavedPairs, Context
<1>12. /\ sbs'.url = sbs.url /\ sbs'.status = sbs.status /\ sbs'.name = sbs.name
       /\ sbs'.value = SbAppend(IF hstate = "field" THEN SbCreate ELSE sbs.value, piece)
       /\ sbs'.value # Null
  <2>1. TypeOK
    BY DEF Whole
  <2>2. hstate # "nothing"
    BY <1>11
  <2> QED
    BY <1>1, <2>1, <2>2, ValuePut
<1>14. sbs'.value.text = g \o piece
  <2> DEFINE old == IF hstate = "field" THEN SbCreate ELSE sbs.value
  <2>1. old.text = g
    BY ONLY <1>11 DEF SbCreate
  <2>2. sbs'.value = SbAppend(old, piece)
    BY ONLY <1>12
  <2> HIDE DEF old
  <2> QED
    BY ONLY <2>1, <2>2 DEF SbAppend
<1>15. Around(m, Context', q)
  <2>1. Around(m, Context, q)
    BY <1>6 DEF ValueStage
  <2> QED
    BY ONLY <1>1, <1>12, <2>1 DEF Around, Early, Late, Context
<1>16. Stage(m, Context', p, g \o piece)
  <2>1. ValueStage(m, Context', q, g \o piece)
    BY ONLY <1>1, <1>11, <1>12, <1>14, <1>15 DEF ValueStage, SavedPairs, Context
  <2> QED
    BY ONLY <1>6, <2>1 DEF Stage
<1>17. ASSUME g \o piece = Calls(m)[p].text PROVE Stage(m, Context', p + 1, <<>>)
  <2> DEFINE ctx == Context'
  <2>1. /\ SavedPairs(m, ctx, q - 1) /\ ctx.hstate = "value"
        /\ ctx.sbs.name # Null /\ ctx.sbs.name.text = Names(All(m))[q]
        /\ ctx.sbs.value # Null /\ ctx.sbs.value.text = All(m)[q].value
    BY ONLY <1>1, <1>6, <1>11, <1>12, <1>14, <1>17 DEF SavedPairs, Context
  <2>2. Around(m, ctx, q)
    BY <1>15
  <2> HIDE DEF ctx
  <2>3. Stage(m, ctx, At(m, q) + 2, <<>>)
    BY <1>3, <1>11, <2>1, <2>2, ValueDone
  <2> QED
    BY ONLY <1>7, <2>3 DEF ctx
<1>18. message' \in Contents
  BY <1>1 DEF Whole
<1>19. Stale'
  BY <1>1, <1>4, <1>7, <1>8, <1>12, StaleKept
<1> QED
  BY <1>1, <1>4, <1>7, <1>8, <1>16, <1>17, <1>18, <1>19, DataWhole

LEMMA BodyDataWhole ==
  ASSUME Whole, TypeOK', BodyData
  PROVE  Whole'
<1>1. PICK piece \in Pieces : /\ Data("body", piece)
                              /\ message' = [message EXCEPT !.body = @ \o piece]
                              /\ UNCHANGED <<sbs, hstate>>
  BY DEF BodyData
<1> DEFINE m == stream[begun]
<1>2. todo # <<>> /\ todo[1].cb = "body"
  BY <1>1 DEF Data
<1>3. m \in Messages /\ todo \in Seq(CallSet) /\ Under(m)
  BY <1>2, TheMessage
<1>4. PICK p \in Nat, g \in Text : Ahead(m, todo, p, g) /\ Stage(m, Context, p, g) /\ Counted(m, p)
  BY <1>3 DEF Under
<1>5. Calls(m)[p].cb = "body"
  BY <1>2, <1>4 DEF Ahead
<1>6. /\ p = HeadersAt(m) + 1 /\ Extra(m) = 1 /\ BodyStage(m, Context, g)
      /\ Calls(m)[p].text = m.body
  BY <1>3, <1>4, <1>5, StageOf
<1>7. p # HeadersAt(m) /\ p # EndAt(m) /\ p # Len(Calls(m))
  BY <1>3, <1>6, Places, CallsAt
<1>8. "body" \in CallNames
  BY DEF CallNames
<1>9. piece \in Text /\ g \o piece \in Text
  BY <1>1, <1>3, <1>4, <1>7, <1>8, DataLeft
<1>10. /\ message' \in Contents /\ message'.body = g \o piece
       /\ message'.url = message.url /\ message'.status = message.status
       /\ message'.headers = message.headers
  <2>1. message \in Contents
    BY DEF Whole
  <2>2. message.body = g
    BY <1>6 DEF BodyStage, Context
  <2> QED
    BY ONLY <1>1, <1>9, <2>1, <2>2 DEF Contents
<1>11. BodyStage(m, Context', g \o piece)
  BY ONLY <1>1, <1>6, <1>10 DEF BodyStage, Late, Waiting, SavedPairs, Context
<1>12. Stage(m, Context', p, g \o piece)
  BY ONLY <1>6, <1>11 DEF Stage
<1>13. g \o piece = Calls(m)[p].text => Stage(m, Context', p + 1, <<>>)
  BY <1>3, <1>6, <1>11, BodyDone
<1>14. message' \in Contents
  BY <1>10
<1>15. Stale'
  BY <1>1, <1>4, <1>7, <1>8, StaleKept
<1> QED
  BY <1>1, <1>4, <1>7, <1>8, <1>12, <1>13, <1>14, <1>15, DataWhole

LEMMA HeadersCompleteWhole ==
  ASSUME Whole, TypeOK', HeadersComplete
  PROVE  Whole'
<1>1. /\ todo # <<>> /\ todo[1].cb = "headers" /\ todo' = Tail(todo)
      /\ UNCHANGED <<stream, streaming, begun, hstate, sbs, delivered>>
      /\ message' = [SavedIfNamed EXCEPT !.url = TextOf(sbs.url), !.status = TextOf(sbs.status)]
      /\ announced' = Append(announced, message') /\ ~Missing
  BY DEF HeadersComplete, Notify
<1> DEFINE m == stream[begun]
<1>2. m \in Messages /\ todo \in Seq(CallSet) /\ Under(m) /\ begun \in 1..Len(stream)
  BY <1>1, TheMessage
<1>3. PICK p \in Nat, g \in Text : Ahead(m, todo, p, g) /\ Stage(m, Context, p, g) /\ Counted(m, p)
  BY <1>2 DEF Under
<1>4. Calls(m)[p].cb = "headers"
  BY <1>1, <1>3 DEF Ahead
<1>5. p = HeadersAt(m) /\ HeadersStage(m, Context)
  BY <1>2, <1>3, <1>4, StageOf
<1>6. p # Len(Calls(m))
  BY <1>2, <1>5, Places, CallsAt
<1>7. Ahead(m, todo', p + 1, <<>>)
  BY <1>1, <1>2, <1>3, <1>6, TailAhead
<1>8. /\ Early(m, Context) /\ Waiting(m, Context, HeaderCount(m), EarlyUpTo(HeaderCount(m)))
      /\ HeaderCount(m) \in 0..Len(All(m)) /\ HeaderCount(m) \in Nat
  BY <1>2, <1>5, CallsAt DEF HeadersStage
<1>19. HeaderCount(m) = 0 \/ ~Bare(m, HeaderCount(m))
  <2>1. ~Unsaved
    BY <1>1 DEF Missing
  <2> QED
    BY <1>8, <2>1 DEF Unsaved, Waiting, Context
<1>20. ~LastBare(m.headers)
  BY <1>2, <1>19, LastBareIs
<1>9. /\ SavedIfNamed \in Contents
      /\ SavedIfNamed.headers = MapOf(SubSeq(All(m), 1, HeaderCount(m)))
      /\ SavedIfNamed.body = message.body
  <2> DEFINE r == HeaderCount(m)
             n == EarlyUpTo(r)
  <2>1. r \in 0..Len(All(m)) /\ (n = r \/ (r # 0 /\ n = r - 1)) /\ Waiting(m, Context, r, n)
        /\ (r = 0 \/ ~Bare(m, r))
    BY ONLY <1>8, <1>19 DEF EarlyUpTo
  <2> HIDE DEF r, n
  <2>2. TypeOK /\ message \in Contents
    BY DEF Whole
  <2>3. /\ SavedIfNamed \in Contents
        /\ SavedIfNamed.headers = MapOf(SubSeq(All(m), 1, r))
        /\ SavedIfNamed.body = message.body
    BY <1>2, <2>1, <2>2, SavedIs
  <2> QED
    BY <2>3 DEF r
<1>10. /\ message.body = <<>> /\ TextOf(sbs.url) = UrlOf(m) /\ TextOf(sbs.status) = StatusOf(m)
       /\ UrlOf(m) \in Text /\ StatusOf(m) \in Text
  BY <1>2, <1>8, Texts DEF Early, Context, UrlOf, StatusOf, Messages
<1>11. /\ message' \in Contents /\ message'.headers = MapOf(SubSeq(All(m), 1, HeaderCount(m)))
       /\ message'.body = <<>> /\ message'.url = UrlOf(m) /\ message'.status = StatusOf(m)
  BY ONLY <1>1, <1>9, <1>10 DEF Contents
<1>12. message' = SentMessage(m, m.headers, <<>>)
  <2>1. message'.headers = MapOf(m.headers)
    BY <1>2, <1>11, RestAll
  <2>2. message' = [url |-> message'.url, status |-> message'.status,
                    headers |-> message'.headers, body |-> message'.body]
    BY <1>11 DEF Contents
  <2> QED
    BY ONLY <1>11, <2>1, <2>2 DEF SentMessage, UrlOf, StatusOf
<1>13. BodyStage(m, Context', <<>>)
  <2>1. Waiting(m, Context', HeaderCount(m), HeaderCount(m))
    BY ONLY <1>1, <1>8, <1>11 DEF Waiting, SavedPairs, Context
  <2> QED
    BY ONLY <1>11, <1>20, <2>1 DEF BodyStage, Late, Context
<1>14. Stage(m, Context', p + 1, <<>>)
  <2>1. CASE Extra(m) = 1
    BY ONLY <1>5, <1>13, <2>1 DEF Stage
  <2>2. CASE Extra(m) # 1
    <3>1. Extra(m) = 0 /\ m.body = <<>>
      BY <1>2, <2>2, CallsAt
    <3>2. Stage(m, Context', HeadersAt(m) + 1 + Extra(m), <<>>)
      BY <1>2, <1>13, <3>1, BodyDone
    <3>3. HeadersAt(m) + 1 + Extra(m) = p + 1
      BY <1>2, <1>5, <3>1, Places
    <3> QED
      BY ONLY <3>2, <3>3
  <2> QED
    BY <2>1, <2>2
<1>15. /\ announced \in Seq(Contents) /\ Len(announced) = begun - 1 /\ Len(delivered) = begun - 1
       /\ HeadersAt(m) \in Nat /\ begun \in Nat
  <2>1. announced \in Seq(Contents) /\ begun \in Nat
    BY <1>2 DEF Whole, Histories
  <2>2. HeadersAt(m) \in Nat
    BY <1>2, Places
  <2> QED
    BY ONLY <1>3, <1>5, <2>1, <2>2 DEF Counted
<1>16. /\ announced' \in Seq(Contents) /\ Len(announced') = begun
       /\ announced'[begun] = message' /\ \A i \in 1..Len(announced) : announced'[i] = announced[i]
       /\ 1..Len(announced') = 1..Len(announced) \cup {begun}
  <2>1. announced' = Append(announced, message') /\ message' \in Contents
    BY ONLY <1>1, <1>11
  <2>2. /\ announced' \in Seq(Contents) /\ Len(announced') = Len(announced) + 1
        /\ announced'[Len(announced) + 1] = message'
        /\ \A i \in 1..Len(announced) : announced'[i] = announced[i]
    BY ONLY <1>15, <2>1, AppendProperties
  <2>3. Len(announced) + 1 = begun /\ 1..begun = 1..Len(announced) \cup {begun}
    BY ONLY <1>2, <1>15
  <2> QED
    BY ONLY <2>2, <2>3
<1>17. Progress'
  <2>0. todo' # <<>>
    BY <1>7 DEF Ahead
  <2>1. begun' # 0 /\ todo' # <<>> /\ stream'[begun'] = m
    BY <1>1, <1>2, <2>0
  <2>2. ~(p + 1 <= HeadersAt(m)) /\ p + 1 \in Nat
    BY ONLY <1>5, <1>15
  <2>3. /\ Len(announced') = (IF p + 1 <= HeadersAt(m) THEN begun' - 1 ELSE begun')
        /\ Len(delivered') = begun' - 1
    BY ONLY <1>1, <1>15, <1>16, <2>2
  <2>4. <<>> \in Text
    BY DEF Text
  <2> HIDE DEF m
  <2>5. \E i \in Nat, h \in Text :
          /\ Ahead(m, todo', i, h) /\ Stage(m, Context', i, h)
          /\ Len(announced') = (IF i <= HeadersAt(m) THEN begun' - 1 ELSE begun')
          /\ Len(delivered') = begun' - 1
    BY ONLY <1>7, <1>14, <2>2, <2>3, <2>4
  <2> QED
    BY ONLY <2>1, <2>5 DEF Progress, Under, Counted
<1>18. Histories'
  <2>1. /\ delivered \in Seq(Contents)
        /\ \A i \in 1..Len(announced) : AnnouncedOK(i)
        /\ \A i \in 1..Len(delivered) : DeliveredOK(i)
    BY DEF Whole, Histories
  <2>2. \A i \in 1..Len(announced) : AnnouncedOK(i)'
    BY ONLY <1>1, <1>16, <2>1 DEF AnnouncedOK
  <2>4. ASSUME NEW i \in 1..Len(announced') PROVE AnnouncedOK(i)'
    <3>1. i \in 1..Len(announced) \/ i = begun
      BY ONLY <1>16, i \in 1..Len(announced')
    <3>2. CASE i \in 1..Len(announced)
      BY ONLY <2>2, <3>2
    <3>3. CASE i = begun
      BY ONLY <1>1, <1>12, <1>16, <3>3 DEF AnnouncedOK
    <3> QED
      BY ONLY <3>1, <3>2, <3>3
  <2>5. \A i \in 1..Len(delivered') : DeliveredOK(i)'
    BY ONLY <1>1, <2>1 DEF DeliveredOK
  <2> QED
    BY ONLY <1>1, <1>16, <2>1, <2>4, <2>5 DEF Histories
<1>21. Stale'
  <2>1. todo' # <<>>
    BY <1>7 DEF Ahead
  <2> QED
    BY <1>1, <2>1 DEF Whole, Stale, Ended
<1> QED
  BY <1>1, <1>11, <1>17, <1>18, <1>21 DEF Whole

(* MessageComplete and AppendEof.                                          *)
LEMMA MessageEndWhole ==
  ASSUME Whole, TypeOK', NEW cb \in {"complete", "eof"}, Notify(cb), SetUpNextMessage,
         delivered' = Append(delivered, message), UNCHANGED announced
  PROVE  Whole'
<1>1. /\ todo # <<>> /\ todo[1].cb = cb /\ todo' = Tail(todo)
      /\ UNCHANGED <<stream, streaming, begun, hstate, announced>>
  BY DEF Notify
<1> DEFINE m == stream[begun]
<1>2. m \in Messages /\ todo \in Seq(CallSet) /\ Under(m) /\ begun \in 1..Len(stream)
  BY <1>1, TheMessage
<1>3. PICK p \in Nat, g \in Text : Ahead(m, todo, p, g) /\ Stage(m, Context, p, g) /\ Counted(m, p)
  BY <1>2 DEF Under
<1>4. Calls(m)[p].cb \in {"complete", "eof"}
  BY <1>1, <1>3 DEF Ahead
<1>5. p = EndAt(m) /\ EndStage(m, Context)
  BY <1>2, <1>3, <1>4, StageOf
<1>6. p = Len(Calls(m))
  BY <1>2, <1>5, CallsAt
<1>7. todo' = <<>>
  BY <1>1, <1>2, <1>3, <1>6, TailAhead
<1>8. /\ message.url = UrlOf(m) /\ message.status = StatusOf(m) /\ message.body = m.body
      /\ message.headers = MapOf(SubSeq(All(m), 1, LateUpTo(m, Len(All(m)))))
      /\ message \in Contents
  BY <1>5 DEF EndStage, Late, Waiting, SavedPairs, Context, Whole
<1>9. message = SentMessage(m, m.headers \o AllButLast(m.trailers), m.body)
  <2>1. message.headers = MapOf(m.headers \o AllButLast(m.trailers))
    <3>1. CASE Len(All(m)) = HeaderCount(m)
      BY <1>2, <1>8, <3>1, RestAll DEF LateUpTo
    <3>2. CASE Len(All(m)) # HeaderCount(m)
      BY <1>2, <1>8, <3>2, RestAll DEF LateUpTo
    <3> QED
      BY <3>1, <3>2
  <2>2. message = [url |-> message.url, status |-> message.status,
                   headers |-> message.headers, body |-> message.body]
    BY <1>8 DEF Contents
  <2> QED
    BY ONLY <1>8, <2>1, <2>2 DEF SentMessage, UrlOf, StatusOf
<1>10. /\ delivered \in Seq(Contents) /\ announced \in Seq(Contents)
       /\ Len(announced) = begun /\ Len(delivered) = begun - 1 /\ begun \in Nat
  <2>1. HeadersAt(m) \in Nat /\ EndAt(m) \in Nat /\ ~(EndAt(m) <= HeadersAt(m))
    <3>1. HeadersAt(m) \in Nat /\ EndAt(m) \in Nat /\ HeadersAt(m) < EndAt(m)
      BY <1>2, CallsAt
    <3> QED
      BY ONLY <3>1
  <2>2. Counted(m, EndAt(m))
    BY <1>3, <1>5
  <2>3. delivered \in Seq(Contents) /\ announced \in Seq(Contents) /\ begun \in Nat
    BY <1>2 DEF Whole, Histories
  <2> QED
    BY ONLY <2>1, <2>2, <2>3 DEF Counted
<1>11. /\ delivered' \in Seq(Contents) /\ Len(delivered') = begun
       /\ delivered'[begun] = message /\ \A i \in 1..Len(delivered) : delivered'[i] = delivered[i]
       /\ 1..Len(delivered') = 1..Len(delivered) \cup {begun}
  <2>1. message \in Contents
    BY ONLY <1>8
  <2>2. /\ delivered' \in Seq(Contents) /\ Len(delivered') = Len(delivered) + 1
        /\ delivered'[Len(delivered) + 1] = message
        /\ \A i \in 1..Len(delivered) : delivered'[i] = delivered[i]
    BY ONLY <1>10, <2>1, AppendProperties, delivered' = Append(delivered, message)
  <2>3. Len(delivered) + 1 = begun /\ 1..begun = 1..Len(delivered) \cup {begun}
    BY ONLY <1>2, <1>10
  <2> QED
    BY ONLY <2>2, <2>3
<1>12. Between'
  <2>1. begun < Len(stream) => streaming
    <3>1. Len(stream) \in Nat
      BY HttpAssumption DEF Whole, TypeOK
    <3>2. streaming \/ Len(stream) <= 1
      BY DEF Whole
    <3> QED
      BY ONLY <1>2, <3>1, <3>2
  <2>2. begun < Len(stream) => message' = NewMessage /\ sbs' = NoBuffers
    BY <2>1 DEF SetUpNextMessage
  <2> QED
    BY ONLY <1>1, <1>10, <1>11, <2>2 DEF Between
<1>13. message' \in Contents
  <2>1. message' \in {message, NewMessage}
    BY DEF SetUpNextMessage
  <2>2. NewMessage \in Contents
    BY DEF NewMessage, Contents, Text
  <2> QED
    BY ONLY <1>8, <2>1, <2>2
<1>14. Histories'
  <2>1. /\ \A i \in 1..Len(announced) : AnnouncedOK(i)
        /\ \A i \in 1..Len(delivered) : DeliveredOK(i)
    BY DEF Whole, Histories
  <2>2. \A i \in 1..Len(delivered) : DeliveredOK(i)'
    BY ONLY <1>1, <1>11, <2>1 DEF DeliveredOK
  <2>4. ASSUME NEW i \in 1..Len(delivered') PROVE DeliveredOK(i)'
    <3>1. i \in 1..Len(delivered) \/ i = begun
      BY ONLY <1>11, i \in 1..Len(delivered')
    <3>2. CASE i \in 1..Len(delivered)
      BY ONLY <2>2, <3>2
    <3>3. CASE i = begun
      BY ONLY <1>1, <1>9, <1>11, <3>3 DEF DeliveredOK
    <3> QED
      BY ONLY <3>1, <3>2, <3>3
  <2>5. \A i \in 1..Len(announced') : AnnouncedOK(i)'
    BY ONLY <1>1, <2>1 DEF AnnouncedOK
  <2> QED
    BY ONLY <1>1, <1>10, <1>11, <2>4, <2>5 DEF Histories
<1>15. Progress'
  BY ONLY <1>7, <1>12 DEF Progress
<1>16. Stale'
  <2> DEFINE all == Len(All(m))
  <2>1. Waiting(m, Context, all, LateUpTo(m, all)) /\ ~LastBare(m.headers)
    BY <1>5 DEF EndStage, Late
  <2>2. SUFFICES ASSUME hstate' = "field", sbs'.name = Null
                 PROVE  \E i \in 1..begun : LastBare(stream[i].trailers)
    BY <1>1, <1>7 DEF Stale, Ended
  <2>3. CASE sbs.name = Null
    <3>1. \E i \in 1..(begun - 1) : LastBare(stream[i].trailers)
      BY <1>1, <2>2, <2>3 DEF Whole, Stale, Ended
    <3>2. 1..(begun - 1) \subseteq 1..begun
      BY <1>10
    <3> QED
      BY ONLY <3>1, <3>2
  <2>4. CASE sbs.name # Null
    <3>1. all # 0 /\ Bare(m, all)
      BY <1>1, <2>1, <2>2, <2>4 DEF Waiting, Context
    <3>2. LastBare(m.trailers)
      <4>1. HeaderCount(m) \in Nat /\ all \in Nat
        BY <1>2, CallsAt
      <4>2. all # HeaderCount(m)
        BY <1>2, <2>1, <3>1, LastBareIs
      <4> QED
        BY <1>2, <3>1, <4>2, LastBareIs
    <3>3. begun \in 1..begun
      BY <1>2, <1>10
    <3> QED
      BY <3>2, <3>3
  <2> QED
    BY <2>3, <2>4
<1> QED
  BY <1>1, <1>13, <1>14, <1>15, <1>16 DEF Whole

LEMMA MessageBeginWhole ==
  ASSUME Whole, TypeOK', MessageBegin
  PROVE  Whole'
<1>1. /\ todo = <<>> /\ begun < Len(stream) /\ begun' = begun + 1
      /\ todo' = Calls(stream[begun'])
      /\ UNCHANGED <<stream, streaming, sbs, hstate, message, announced, delivered>>
  BY DEF MessageBegin, ctxVars
<1>2. /\ message = NewMessage /\ sbs = NoBuffers
      /\ Len(announced) = begun /\ Len(delivered) = begun
  BY <1>1 DEF Whole, Progress, Between
<1>3. stream \in Seq(Messages) /\ begun \in 0..Len(stream) /\ Len(stream) \in Nat
  <2>2. stream \in Seq(Messages) /\ begun \in 0..Len(stream)
    BY HttpAssumption DEF Whole, TypeOK
  <2> QED
    BY ONLY <2>2
<1> DEFINE m == stream[begun']
<1>4. begun' \in 1..Len(stream) /\ begun' # 0 /\ begun' - 1 = begun
  BY ONLY <1>1, <1>3
<1>5. m \in Messages
  BY ONLY <1>3, <1>4
<1>6. Ahead(m, todo', 1, <<>>)
  BY <1>1, <1>5, AllAhead
<1>7. Stage(m, Context', 1, <<>>)
  <2>1. FirstStage(m, Context', <<>>)
    BY <1>1, <1>2, <1>3, NoBuffersOK DEF FirstStage, Context, NewMessage, NoBuffers, SbNames, TextOf
  <2> QED
    BY ONLY <2>1 DEF Stage
<1>8. 1 <= HeadersAt(m)
  <2>1. HeadersAt(m) \in Nat /\ 1 < HeadersAt(m)
    BY <1>5, CallsAt
  <2> QED
    BY ONLY <2>1
<1>9. todo' # <<>> /\ <<>> \in Text /\ 1 \in Nat
  BY <1>6 DEF Ahead, Text
<1>10. Progress'
  <2>1. stream'[begun'] = m
    BY <1>1
  <2>2. /\ Len(announced') = (IF 1 <= HeadersAt(m) THEN begun' - 1 ELSE begun')
        /\ Len(delivered') = begun' - 1
    BY ONLY <1>1, <1>2, <1>4, <1>8
  <2> HIDE DEF m
  <2>3. \E i \in Nat, h \in Text :
          /\ Ahead(m, todo', i, h) /\ Stage(m, Context', i, h)
          /\ Len(announced') = (IF i <= HeadersAt(m) THEN begun' - 1 ELSE begun')
          /\ Len(delivered') = begun' - 1
    BY ONLY <1>6, <1>7, <1>9, <2>2
  <2> QED
    BY ONLY <1>4, <1>9, <2>1, <2>3 DEF Progress, Under, Counted
<1>11. Histories'
  BY <1>1 DEF Whole, Histories, AnnouncedOK, DeliveredOK
<1>12. Stale'
  <2>1. Ended = begun /\ Ended' = begun
    BY <1>1, <1>4, <1>9 DEF Ended
  <2> QED
    BY <1>1, <2>1 DEF Whole, Stale
<1> QED
  BY <1>1, <1>10, <1>11, <1>12 DEF Whole

LEMMA InitWhole ==
  ASSUME Init
  PROVE  Whole
<1>1. TypeOK
  BY InitTypes
<1>2. stream \in Seq(Messages)
  BY HttpAssumption DEF Init
<1>3. message \in Contents
  BY DEF Init, NewMessage, Contents, Text
<1>4. streaming \/ Len(stream) <= 1
  BY <1>2 DEF Init
<1>5. Progress
  BY DEF Init, Progress, Between
<1>6. Histories
  BY DEF Init, Histories
<1>7. Stale
  BY DEF Init, Stale
<1> QED
  BY <1>1, <1>3, <1>4, <1>5, <1>6, <1>7 DEF Whole

LEMMA StepWhole ==
  ASSUME Whole, [Next]_vars
  PROVE  Whole'
<1>0. TypeOK'
  BY StepTypes DEF Whole
<1>1. CASE MessageBegin
  BY <1>0, <1>1, MessageBeginWhole
<1>2. CASE UrlData
  BY <1>0, <1>2, FirstLineWhole DEF UrlData
<1>3. CASE StatusData
  BY <1>0, <1>3, FirstLineWhole DEF StatusData
<1>4. CASE HeaderField
  BY <1>0, <1>4, HeaderFieldWhole
<1>5. CASE HeaderValue
  BY <1>0, <1>5, HeaderValueWhole
<1>6. CASE HeadersComplete
  BY <1>0, <1>6, HeadersCompleteWhole
<1>7. CASE BodyData
  BY <1>0, <1>7, BodyDataWhole
<1>8. CASE MessageComplete
  BY <1>0, <1>8, MessageEndWhole DEF MessageComplete
<1>9. CASE AppendEof
  BY <1>0, <1>9, MessageEndWhole DEF AppendEof
<1>10. CASE UNCHANGED vars
  BY <1>0, <1>10 DEF Whole, Progress, Between, Under, Counted, Histories, AnnouncedOK,
                     DeliveredOK, Stale, Ended, Context, vars, ctxVars
<1> QED
  BY <1>1, <1>2, <1>3, <1>4, <1>5, <1>6, <1>7, <1>8, <1>9, <1>10 DEF Next

LEMMA WholeInvariant == Spec => []Whole
<1>1. Init => Whole
  BY InitWhole
<1>2. Whole /\ [Next]_vars => Whole'
  BY StepWhole
<1> QED
  BY <1>1, <1>2, PTL DEF Spec

(* How many messages have begun, were announced and were delivered.        *)
LEMMA WholeCounts ==
  ASSUME Whole
  PROVE  /\ begun - Len(delivered) \in {0, 1}
         /\ Len(announced) - Len(delivered) \in {0, 1}
         /\ DOMAIN announced = 1..Len(announced) /\ DOMAIN delivered = 1..Len(delivered)
<1>1. begun \in Nat /\ announced \in Seq(Contents) /\ delivered \in Seq(Contents)
  BY HttpAssumption DEF Whole, TypeOK, Histories
<1>2. CASE todo = <<>>
  <2>1. Len(announced) = begun /\ Len(delivered) = begun
    BY <1>2 DEF Whole, Progress, Between
  <2> QED
    BY ONLY <1>1, <2>1
<1>3. CASE todo # <<>>
  <2>1. Under(stream[begun])
    BY <1>3 DEF Whole, Progress
  <2>2. Len(announced) \in {begun - 1, begun} /\ Len(delivered) = begun - 1
    BY <2>1 DEF Under, Counted
  <2> QED
    BY ONLY <1>1, <2>2
<1> QED
  BY <1>2, <1>3

(***************************************************************************)
(* For every stream of messages, and wherever the buffers given to         *)
(* appendBytes cut their texts, each message is delivered once, in its     *)
(* turn, with its own first line, body and pairs: all its headers, of two  *)
(* with one name the later, and all its trailers but the last.             *)
(***************************************************************************)
THEOREM DeliversWhatWasSent == Spec => []DeliveredAsSent
<1>1. Whole => DeliveredAsSent
  BY WholeCounts DEF Whole, Histories, DeliveredOK, DeliveredAsSent
<1> QED
  BY <1>1, WholeInvariant, PTL

(***************************************************************************)
(* The headers callback comes once for each message, before the message    *)
(* callback, with all of its headers, the last included.                   *)
(***************************************************************************)
THEOREM AnnouncesAllHeaders == Spec => []AnnouncedAsSent
<1>1. Whole => AnnouncedAsSent
  BY WholeCounts DEF Whole, Histories, AnnouncedOK, AnnouncedAsSent
<1> QED
  BY <1>1, WholeInvariant, PTL

LEMMA WholeBuffers ==
  ASSUME Whole
  PROVE  BuffersThere
<1> SUFFICES ASSUME Missing PROVE BuffersThere
  BY DEF BuffersThere
<1> DEFINE m  == stream[begun]
           cb == todo[1].cb
<1>1. todo # <<>>
  BY DEF Missing
<1>2. m \in Messages /\ Under(m) /\ Stale /\ TypeOK
  BY <1>1, TheMessage DEF Whole
<1>3. PICK p \in Nat, g \in Text : Ahead(m, todo, p, g) /\ Stage(m, Context, p, g)
  BY <1>2 DEF Under
<1>4. Calls(m)[p].cb = cb
  BY <1>3 DEF Ahead
<1>5. CASE cb = "field"
  <2>1. PICK q \in 1..Len(All(m)) : FieldStage(m, Context, q, g)
    BY <1>2, <1>3, <1>4, <1>5, StageOf
  <2>2. hstate = "field"
    <3>1. SUFFICES ASSUME hstate # "field" PROVE FALSE
      OBVIOUS
    <3>2. sbs.name # Null /\ sbs.value = Null
      BY <1>5, <3>1 DEF Missing, Unsaved
    <3>3. PICK n : Waiting(m, Context, q - 1, n)
      BY <2>1, <3>1 DEF FieldStage, Context
    <3> QED
      BY <3>1, <3>2, <3>3 DEF Waiting, Context
  <2>3. sbs.name = Null
    BY <1>5, <2>2 DEF Missing
  <2>4. \E i \in 1..(begun - 1) : LastBare(stream[i].trailers)
    BY <1>1, <1>2, <2>2, <2>3 DEF Stale, Ended
  <2> QED
    BY <1>5, <2>4 DEF BuffersThere
<1>6. CASE cb = "headers"
  <2>1. HeadersStage(m, Context)
    BY <1>2, <1>3, <1>4, <1>6, StageOf
  <2>2. sbs.name # Null /\ sbs.value = Null
    BY <1>6 DEF Missing, Unsaved
  <2>3. HeaderCount(m) # 0 /\ Bare(m, HeaderCount(m))
    BY <2>1, <2>2 DEF HeadersStage, Waiting, Context
  <2>4. LastBare(m.headers)
    BY <1>2, <2>3, LastBareIs
  <2> QED
    BY <1>6, <2>4 DEF BuffersThere
<1>7. cb # "value"
  <2>1. SUFFICES ASSUME cb = "value" PROVE FALSE
    OBVIOUS
  <2>2. PICK q \in 1..Len(All(m)) : ValueStage(m, Context, q, g)
    BY <1>2, <1>3, <1>4, <2>1, StageOf
  <2>3. hstate = "value" /\ sbs.value = Null
    BY <2>1 DEF Missing
  <2> QED
    BY <2>2, <2>3 DEF ValueStage, Context
<1>8. cb \in {"field", "value", "headers"}
  BY DEF Missing
<1> QED
  BY <1>5, <1>6, <1>7, <1>8

(***************************************************************************)
(* Whatever the streams are and however their texts are cut, a callback    *)
(* reads a buffer that is not there only for want of a colon: in the last  *)
(* header of the message it is in, or in the last trailer of one before.   *)
(***************************************************************************)
THEOREM BuffersAreThere == Spec => []BuffersThere
<1>1. Whole => BuffersThere
  BY WholeBuffers
<1> QED
  BY <1>1, WholeInvariant, PTL
=============================================================================
