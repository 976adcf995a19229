--------------------------- MODULE FramingProofs ---------------------------
(***************************************************************************)
(* Proofs about HttpFraming, for any connection whose messages are framed  *)
(* as they say, with a stray line anywhere: no message is missed, none is  *)
(* begun after one that closes the connection, no error is reported        *)
(* without a cause, and the calls reported for a message are those that    *)
(* HttpParser is written for.                                              *)
(***************************************************************************)
EXTENDS HttpFraming, HttpProofs

(* The lines that senders send.                                            *)
FoldLines == [t : {"fold"}, f : Folds]
LineSet == [t : {"url", "status"}, s : Sendings] \cup [t : {"header"}, h : Headers]
           \cup FoldLines \cup [t : {"data"}, text : Text] \cup [t : {"size"}, n : Nat]
           \cup [t : {"empty"}, ends : {"headers", "trailers"}]

(* Concatenation by another name: the provers reorder the sequences of     *)
(* \o.                                                                     *)
Cat(x, y) == x \o y

LEMMA RegroupCalls ==
  \A a, b, c \in Seq(CallSet) : Cat(Cat(a, b), c) = Cat(a, Cat(b, c))
<1>1. ASSUME NEW a \in Seq(CallSet), NEW b \in Seq(CallSet), NEW c \in Seq(CallSet)
      PROVE  Cat(Cat(a, b), c) = Cat(a, Cat(b, c))
  <2>1. (a \o b) \o c = a \o (b \o c)
    BY ConcatAssociative
  <2> QED
    BY <2>1 DEF Cat
<1> QED
  BY <1>1

LEMMA RegroupLines ==
  \A a, b, c \in Seq(LineSet) : Cat(Cat(a, b), c) = Cat(a, Cat(b, c))
<1>1. ASSUME NEW a \in Seq(LineSet), NEW b \in Seq(LineSet), NEW c \in Seq(LineSet)
      PROVE  Cat(Cat(a, b), c) = Cat(a, Cat(b, c))
  <2>1. (a \o b) \o c = a \o (b \o c)
    BY ConcatAssociative
  <2> QED
    BY <2>1 DEF Cat
<1> QED
  BY <1>1

LEMMA RegroupTexts ==
  \A a, b, c \in Seq(Char) : Cat(Cat(a, b), c) = Cat(a, Cat(b, c))
<1>1. ASSUME NEW a \in Seq(Char), NEW b \in Seq(Char), NEW c \in Seq(Char)
      PROVE  Cat(Cat(a, b), c) = Cat(a, Cat(b, c))
  <2>1. (a \o b) \o c = a \o (b \o c)
    BY ConcatAssociative
  <2> QED
    BY <2>1 DEF Cat
<1> QED
  BY <1>1

-----------------------------------------------------------------------------
(* Where in the lines of its connection the parser is.  rest are those of  *)
(* the senders that are left: the input without what strayed into it.      *)
Strayed(rest, in) ==
  \/ in = rest
  \/ \E k \in 1..(Len(rest) + 1) :
       \/ in = InsertAt(rest, k, Junk)
       \/ in = InsertAt(rest, k, Empty("nothing")) /\ (k <= Len(rest) => IsFirst(rest[k]))

(* The lines of the messages of w behind the i-th.                         *)
AllLines(w)   == [i \in DOMAIN w |-> Lines(w[i])]
Later(w, i)   == Flat(AllLines(w), i)

Heads(hs)     == [i \in DOMAIN hs |-> HeaderLines(hs[i])]
DataLines(s)  == [i \in DOMAIN s.chunks |-> Line("data", s.chunks[i])]
ChunkLines(s) == [i \in DOMAIN s.chunks |-> << [t |-> "size", n |-> Len(s.chunks[i])],
                                               Line("data", s.chunks[i]) >>]
LastChunk(s, later) ==
  << [t |-> "size", n |-> 0] >> \o (Section(s.trailers, "trailers") \o later)

SaidUpTo(hs, j) == {hs[i].says : i \in 1..j}
LengthHeard(hs, j, p) == \/ p.length = Unknown /\ "length" \notin SaidUpTo(hs, j)
                         \/ p.length \in Lengths(hs) /\ "length" \in Said(hs)
HeadersHeard(s, p) == p.flags = Flags \cap Said(s.headers)

(* j headers have begun, and what is folded of the j-th is not over.       *)
FoldsIn(hs) == {l \in FoldLines : l.f.says = "length" =>
                                     l.f.n \in Lengths(hs) /\ "length" \in Said(hs)}

InSection(hs, ends, j, rest, after) ==
  \E x \in Seq(FoldsIn(hs)) :
    rest = x \o (Flat(Heads(hs), j) \o (<<Empty(ends)>> \o after))

(* In the message s, with later behind it, the lines of rest are left when *)
(* the parser is p.                                                        *)
AtHeaders(s, rest, p, later) ==
  \E j \in 0..Len(s.headers) :
    /\ InSection(s.headers, "headers", j, rest, BodyLines(s) \o later)
    /\ p.flags = Flags \cap SaidUpTo(s.headers, j)
    /\ LengthHeard(s.headers, j, p)

AtTrailers(s, rest, p, later) ==
  /\ s.frame = "chunked"
  /\ \E j \in 0..Len(s.trailers) :
       /\ InSection(s.trailers, "trailers", j, rest, later)
       /\ p.flags = {"trailing"} \cup (Flags \cap (Said(s.headers) \cup SaidUpTo(s.trailers, j)))

AtSize(s, rest, p, later) ==
  /\ s.frame = "chunked" /\ HeadersHeard(s, p)
  /\ \E j \in 0..Len(s.chunks) : rest = Flat(ChunkLines(s), j) \o LastChunk(s, later)

AtChunk(s, rest, p, later) ==
  /\ s.frame = "chunked" /\ HeadersHeard(s, p)
  /\ \E j \in 1..Len(s.chunks) :
       /\ rest = <<Line("data", s.chunks[j])>> \o (Flat(ChunkLines(s), j) \o LastChunk(s, later))
       /\ p.length = Len(s.chunks[j])

AtBody(s, rest, p, later) ==
  /\ s.frame = "length" /\ HeadersHeard(s, p)
  /\ \E j \in 0..(Len(s.chunks) - 1) :
       /\ rest = From(DataLines(s), j) \o later
       /\ p.length = Len(Flat(s.chunks, j))

AtEof(s, rest, p, later) ==
  /\ s.frame = "eof" /\ HeadersHeard(s, p)
  /\ \E j \in 0..Len(s.chunks) : rest = From(DataLines(s), j) \o later

Inside(s, rest, p, later) ==
  /\ p.v11 = s.v11 /\ p.connect = s.connect /\ p.bodyless = s.bodyless /\ p.type = s.kind
  /\ \/ p.state = "header" /\ AtHeaders(s, rest, p, later)
     \/ p.state = "header" /\ AtTrailers(s, rest, p, later) /\ ~LeavesHttp(s)
     \/ p.state = "size" /\ AtSize(s, rest, p, later) /\ ~LeavesHttp(s)
     \/ p.state = "chunk" /\ AtChunk(s, rest, p, later) /\ ~LeavesHttp(s)
     \/ p.state = "body" /\ AtBody(s, rest, p, later) /\ ~LeavesHttp(s)
     \/ p.state = "eof" /\ AtEof(s, rest, p, later) /\ ~LeavesHttp(s)
     \/ p.state \in {"size", "body"} /\ Announces(s) /\ rest = <<>>

BetweenTwo(p) == p.state \in {"start", "dead"}

Outside(w, i, p) ==
  IF i = 0 THEN p.state = "start"
  ELSE LeavesHttp(w[i]) \/ (p.state = "start" <=> Persistent(w[i]))

Placed(rest, w, i, p) ==
  IF BetweenTwo(p) THEN rest = Later(w, i) /\ Outside(w, i, p)
  ELSE i > 0 /\ Inside(w[i], rest, p, Later(w, i))

Parsers == [state : {"start", "dead", "header", "size", "chunk", "body", "eof"},
            type : {"both", "url", "status"}, flags : SUBSET (Flags \cup {"trailing"}),
            length : Int, v11 : BOOLEAN, connect : BOOLEAN, bodyless : BOOLEAN, ok : BOOLEAN]

Framing ==
  /\ wire \in Wires /\ begun \in 0..Len(wire) /\ parser \in Parsers
  /\ parser.type = IF begun = 0 THEN "both" ELSE wire[1].kind
  /\ \E rest \in Seq(LineSet) : Strayed(rest, input) /\ Placed(rest, wire, begun, parser)

(* What is delivered: all messages that have begun but for one that is     *)
(* still to end.                                                           *)
EndsIt(call)   == call.cb \in {"complete", "eof"}
Ends(calls)    == calls # <<>> /\ EndsIt(calls[Len(calls)])
CallsOK(calls) == /\ calls \in Seq(CallSet) /\ Len(calls) <= 2
                  /\ Len(calls) = 2 => ~EndsIt(calls[1])
Resting        == BetweenTwo(parser) \/ (parser.state = "eof" /\ ended)

Delivery ==
  /\ CallsOK(todo) /\ (Ends(todo) => Resting)
  /\ streaming \in BOOLEAN /\ done \in BOOLEAN /\ (Len(wire) > 1 => streaming)
  /\ \E S : delivered \in Seq(S)
  /\ parser.ok => Len(delivered) = IF Resting /\ ~Ends(todo) THEN begun ELSE begun - 1
  /\ ~parser.ok => todo = <<>>
  /\ done => delivered # <<>> /\ ~streaming

Causes ==
  /\ failed \in BOOLEAN /\ ended \in BOOLEAN
  /\ failed /\ parser.ok => begun > 0 /\ LeavesHttp(wire[begun])
  /\ NothingAfterClose
  /\ FailsForCause

Reading == Framing /\ Delivery /\ Causes

-----------------------------------------------------------------------------
(* What the next line is when something may have strayed into the input.   *)
LEMMA Inserted ==
  ASSUME NEW T, NEW s \in Seq(T), NEW e \in T, NEW k \in 1..(Len(s) + 1)
  PROVE  /\ InsertAt(s, k, e) \in Seq(T)
         /\ Len(InsertAt(s, k, e)) = Len(s) + 1
         /\ \A i \in 1..(Len(s) + 1) :
              InsertAt(s, k, e)[i] = IF i < k THEN s[i] ELSE IF i = k THEN e ELSE s[i - 1]
<1> DEFINE a == SubSeq(s, 1, k - 1)
           b == SubSeq(s, k, Len(s))
           n == Len(s)
<1>1. n \in Nat /\ k \in Int /\ k - 1 \in Int /\ 1 <= k /\ k <= n + 1
  BY LenProperties
<1>2. \A i \in 1..n : s[i] \in T
  BY ElementOfSeq
<1>3. /\ a \in Seq(T) /\ Len(a) = k - 1 /\ \A i \in 1..(k - 1) : a[i] = s[i]
  <2>1. \A i \in 1..(k - 1) : s[i] \in T
    BY <1>1, <1>2
  <2>2. /\ a \in Seq(T) /\ Len(a) = (IF 1 <= k - 1 THEN (k - 1) - 1 + 1 ELSE 0)
        /\ \A i \in 1..((k - 1) - 1 + 1) : a[i] = s[1 + i - 1]
    BY <1>1, <2>1, SubSeqProperties
  <2>3. \A i \in 1..(k - 1) : a[i] = s[i]
    <3> HIDE DEF a
    <3> QED
      BY <1>1, <2>2
  <2> QED
    BY <1>1, <2>2, <2>3
<1>4. /\ b \in Seq(T) /\ Len(b) = n - k + 1 /\ \A i \in 1..(n - k + 1) : b[i] = s[k + i - 1]
  <2>1. \A i \in k..n : s[i] \in T
    BY <1>1, <1>2
  <2>2. /\ b \in Seq(T) /\ Len(b) = (IF k <= n THEN n - k + 1 ELSE 0)
        /\ \A i \in 1..(n - k + 1) : b[i] = s[k + i - 1]
    BY <1>1, <2>1, SubSeqProperties
  <2> QED
    BY <1>1, <2>2
<1> DEFINE c == <<e>>
           d == a \o c
<1>5. c \in Seq(T) /\ Len(c) = 1 /\ c[1] = e
  OBVIOUS
<1> HIDE DEF a, b, c, n
<1>6. /\ d \in Seq(T) /\ Len(d) = k
      /\ \A i \in 1..k : d[i] = IF i < k THEN s[i] ELSE e
  <2>1. /\ d \in Seq(T) /\ Len(d) = Len(a) + Len(c)
        /\ \A i \in 1..(Len(a) + Len(c)) : d[i] = IF i <= Len(a) THEN a[i] ELSE c[i - Len(a)]
    BY <1>3, <1>5, ConcatProperties
  <2> HIDE DEF d
  <2>2. ASSUME NEW i \in 1..k PROVE d[i] = IF i < k THEN s[i] ELSE e
    <3>1. d[i] = IF i <= k - 1 THEN a[i] ELSE c[i - (k - 1)]
      BY <1>1, <1>3, <1>5, <2>1
    <3> QED
      BY <1>1, <1>3, <1>5, <3>1
  <2> QED
    BY <1>1, <1>3, <1>5, <2>1, <2>2
<1> HIDE DEF d
<1>7. /\ d \o b \in Seq(T) /\ Len(d \o b) = n + 1
      /\ \A i \in 1..(n + 1) :
           (d \o b)[i] = IF i < k THEN s[i] ELSE IF i = k THEN e ELSE s[i - 1]
  <2> DEFINE f == d \o b
  <2>1. /\ f \in Seq(T) /\ Len(f) = Len(d) + Len(b)
        /\ \A i \in 1..(Len(d) + Len(b)) : f[i] = IF i <= Len(d) THEN d[i] ELSE b[i - Len(d)]
    BY <1>4, <1>6, ConcatProperties
  <2> HIDE DEF f
  <2>2. ASSUME NEW i \in 1..(n + 1)
        PROVE  f[i] = IF i < k THEN s[i] ELSE IF i = k THEN e ELSE s[i - 1]
    <3>1. f[i] = IF i <= k THEN d[i] ELSE b[i - k]
      BY <1>1, <1>4, <1>6, <2>1
    <3>2. CASE i <= k
      <4>1. d[i] = IF i < k THEN s[i] ELSE e
        BY <1>1, <1>6, <3>2
      <4> QED
        BY ONLY <1>1, <3>1, <3>2, <4>1, i \in 1..(n + 1)
    <3>3. CASE ~(i <= k)
      <4>1. i - k \in 1..(n - k + 1) /\ k + (i - k) - 1 = i - 1
        BY <1>1, <3>3
      <4>2. b[i - k] = s[k + (i - k) - 1]
        BY <1>4, <4>1
      <4> QED
        BY ONLY <1>1, <3>1, <3>3, <4>1, <4>2, i \in 1..(n + 1)
    <3> QED
      BY <3>2, <3>3
  <2>3. Len(f) = n + 1
    BY <1>1, <1>4, <1>6, <2>1
  <2> QED
    BY <2>1, <2>2, <2>3 DEF f
<1>8. InsertAt(s, k, e) = d \o b
  BY DEF InsertAt, a, b, c, d
<1> QED
  BY <1>7, <1>8 DEF n

LEMMA InsertedFirst ==
  ASSUME NEW S, NEW s \in Seq(S), NEW e
  PROVE  /\ InsertAt(s, 1, e) # <<>> /\ Head(InsertAt(s, 1, e)) = e
         /\ Tail(InsertAt(s, 1, e)) = s
<1> DEFINE f == InsertAt(s, 1, e)
           T == S \cup {e}
<1>1. Len(s) \in Nat
  BY LenProperties
<1>2. 1 \in 1..(Len(s) + 1)
  BY <1>1
<1>4. s \in Seq(T) /\ e \in T
  BY SeqMonotonic
<1> HIDE DEF T
<1>3. /\ f \in Seq(T) /\ Len(f) = Len(s) + 1
      /\ \A i \in 1..(Len(s) + 1) : f[i] = IF i < 1 THEN s[i] ELSE IF i = 1 THEN e ELSE s[i - 1]
  BY <1>2, <1>4, Inserted
<1> HIDE DEF f
<1>5. f # <<>>
  BY <1>1, <1>3
<1>6. Tail(f) \in Seq(T) /\ Len(Tail(f)) = Len(s) /\ \A i \in 1..Len(s) : Tail(f)[i] = f[i + 1]
  BY <1>1, <1>3, <1>5, HeadTailProperties
<1>7. \A i \in 1..Len(s) : Tail(f)[i] = s[i]
  <2> SUFFICES ASSUME NEW i \in 1..Len(s) PROVE f[i + 1] = s[i]
    BY <1>6
  <2>1. i + 1 \in 1..(Len(s) + 1) /\ ~(i + 1 < 1) /\ i + 1 # 1 /\ (i + 1) - 1 = i
    BY <1>1
  <2> QED
    BY <1>3, <2>1
<1>8. Tail(f) = s
  BY <1>4, <1>6, <1>7, SeqEqual
<1>9. Head(f) = e
  <2>1. f[1] = e
    BY <1>2, <1>3
  <2> QED
    BY <1>3, <1>5, <2>1
<1> QED
  BY <1>5, <1>8, <1>9 DEF f

LEMMA InsertedLater ==
  ASSUME NEW S, NEW s \in Seq(S), NEW k \in 2..(Len(s) + 1), NEW e
  PROVE  /\ s # <<>> /\ k - 1 \in 1..(Len(Tail(s)) + 1)
         /\ Head(InsertAt(s, k, e)) = Head(s)
         /\ Tail(InsertAt(s, k, e)) = InsertAt(Tail(s), k - 1, e)
         /\ k <= Len(s) => k - 1 <= Len(Tail(s)) /\ Tail(s)[k - 1] = s[k]
         /\ k > Len(s) => k - 1 > Len(Tail(s))
<1> DEFINE n == Len(s)
           u == Tail(s)
           f == InsertAt(s, k, e)
           g == InsertAt(u, k - 1, e)
           T == S \cup {e}
<1>1. n \in Nat /\ n # 0 /\ s # <<>>
  <2>1. n \in Nat
    BY LenProperties
  <2>2. n # 0
    BY <2>1
  <2> QED
    BY <2>1, <2>2
<1>2. u \in Seq(S) /\ Len(u) = n - 1 /\ \A i \in 1..(n - 1) : u[i] = s[i + 1]
  BY <1>1, HeadTailProperties
<1>3. k \in 1..(n + 1) /\ k - 1 \in 1..(Len(u) + 1)
  BY <1>1, <1>2
<1> HIDE DEF u
<1>0. s \in Seq(T) /\ u \in Seq(T) /\ e \in T
  BY <1>2, SeqMonotonic
<1> HIDE DEF T
<1>4. /\ f \in Seq(T) /\ Len(f) = n + 1
      /\ \A i \in 1..(n + 1) : f[i] = IF i < k THEN s[i] ELSE IF i = k THEN e ELSE s[i - 1]
  BY <1>0, <1>3, Inserted
<1>5. /\ g \in Seq(T) /\ Len(g) = Len(u) + 1
      /\ \A i \in 1..(Len(u) + 1) :
           g[i] = IF i < k - 1 THEN u[i] ELSE IF i = k - 1 THEN e ELSE u[i - 1]
  BY <1>0, <1>2, <1>3, Inserted
<1> HIDE DEF f, g, n
<1>6. f # <<>>
  BY <1>1, <1>4
<1>7. Tail(f) \in Seq(T) /\ Len(Tail(f)) = n /\ \A i \in 1..n : Tail(f)[i] = f[i + 1]
  BY <1>1, <1>4, <1>6, HeadTailProperties
<1>8. ASSUME NEW i \in 1..n PROVE Tail(f)[i] = g[i]
  <2>1. i + 1 \in 1..(n + 1) /\ i \in 1..(Len(u) + 1) /\ (i + 1) - 1 = i
    BY <1>1, <1>2
  <2>2. Tail(f)[i] = IF i + 1 < k THEN s[i + 1] ELSE IF i + 1 = k THEN e ELSE s[(i + 1) - 1]
    BY <1>4, <1>7, <2>1
  <2>3. g[i] = IF i < k - 1 THEN u[i] ELSE IF i = k - 1 THEN e ELSE u[i - 1]
    BY <1>5, <2>1
  <2>0. i \in Int /\ k \in Int
    OBVIOUS
  <2>4. CASE i < k - 1
    <3>1. i + 1 < k /\ i \in 1..(n - 1)
      BY <1>1, <2>4 DEF n
    <3>2. u[i] = s[i + 1]
      BY <1>2, <3>1
    <3> QED
      BY <2>2, <2>3, <2>4, <3>1, <3>2
  <2>5. CASE i = k - 1
    <3>1. i + 1 = k /\ ~(i + 1 < k) /\ ~(i < k - 1)
      BY <2>5
    <3> QED
      BY <2>2, <2>3, <2>5, <3>1
  <2>6. CASE i > k - 1
    <3>1. ~(i + 1 < k) /\ i + 1 # k /\ ~(i < k - 1) /\ i # k - 1
          /\ i - 1 \in 1..(n - 1) /\ (i - 1) + 1 = i
      BY <1>1, <2>6
    <3>2. u[i - 1] = s[(i - 1) + 1]
      BY <1>2, <3>1
    <3> QED
      BY <2>1, <2>2, <2>3, <3>1, <3>2
  <2>7. i < k - 1 \/ i = k - 1 \/ i > k - 1
    BY ONLY <2>0
  <2> QED
    BY ONLY <2>4, <2>5, <2>6, <2>7
<1>9. Tail(f) = g
  <2>1. Len(g) = n
    BY <1>1, <1>2, <1>5
  <2>2. \A i \in 1..Len(Tail(f)) : Tail(f)[i] = g[i]
    BY <1>7, <1>8
  <2>3. Len(Tail(f)) = Len(g)
    BY <1>7, <2>1
  <2> QED
    BY <1>5, <1>7, <2>2, <2>3, SeqEqual
<1>10. Head(f) = Head(s)
  <2>1. f[1] = s[1]
    <3>1. 1 \in 1..(n + 1) /\ 1 < k
      BY <1>1
    <3> QED
      BY <1>4, <3>1
  <2>2. Head(f) = f[1] /\ Head(s) = s[1]
    BY <1>1, <1>4, <1>6
  <2> QED
    BY <2>1, <2>2
<1>11. k <= n => k - 1 <= Len(u) /\ u[k - 1] = s[k]
  <2> SUFFICES ASSUME k <= n PROVE k - 1 <= Len(u) /\ u[k - 1] = s[k]
    OBVIOUS
  <2>1. k - 1 \in 1..(n - 1) /\ (k - 1) + 1 = k
    BY <1>1
  <2>2. u[k - 1] = s[(k - 1) + 1]
    BY <1>2, <2>1
  <2> QED
    BY <1>2, <2>1, <2>2
<1>12. k > n => k - 1 > Len(u)
  BY <1>1, <1>2
<1> QED
  BY <1>1, <1>3, <1>9, <1>10, <1>11, <1>12 DEF f, g, n, u

(* The next line strayed there, or it is the next that was sent.           *)
LEMMA NextLine ==
  ASSUME NEW S, NEW rest \in Seq(S), NEW in, Strayed(rest, in), in # <<>>
  PROVE  \/ Head(in) = Junk
         \/ /\ Head(in) = Empty("nothing") /\ Tail(in) = rest
            /\ rest # <<>> => IsFirst(Head(rest))
         \/ rest # <<>> /\ Head(in) = Head(rest) /\ Strayed(Tail(rest), Tail(in))
<1> DEFINE Third == rest # <<>> /\ Head(in) = Head(rest) /\ Strayed(Tail(rest), Tail(in))
<1>1. CASE in = rest
  <2>1. Strayed(Tail(rest), Tail(in))
    BY <1>1 DEF Strayed
  <2> QED
    BY <1>1, <2>1
<1>2. CASE in # rest
  <2>1. PICK k \in 1..(Len(rest) + 1) :
          \/ in = InsertAt(rest, k, Junk)
          \/ in = InsertAt(rest, k, Empty("nothing")) /\ (k <= Len(rest) => IsFirst(rest[k]))
    BY <1>2 DEF Strayed
  <2>0. Len(rest) \in Nat
    BY LenProperties
  <2>2. CASE k = 1
    <3>1. \A e : Head(InsertAt(rest, 1, e)) = e /\ Tail(InsertAt(rest, 1, e)) = rest
      BY InsertedFirst
    <3>2. rest # <<>> => 1 <= Len(rest) /\ Head(rest) = rest[1]
      BY <2>0, EmptySeq
    <3> QED
      BY <2>1, <2>2, <3>1, <3>2
  <2>3. CASE k # 1
    <3>1. k \in 2..(Len(rest) + 1)
      BY <2>0, <2>3
    <3>2. \A e : /\ rest # <<>> /\ k - 1 \in 1..(Len(Tail(rest)) + 1)
                 /\ Head(InsertAt(rest, k, e)) = Head(rest)
                 /\ Tail(InsertAt(rest, k, e)) = InsertAt(Tail(rest), k - 1, e)
                 /\ k <= Len(rest) => /\ k - 1 <= Len(Tail(rest))
                                      /\ Tail(rest)[k - 1] = rest[k]
                 /\ k > Len(rest) => k - 1 > Len(Tail(rest))
      BY <3>1, InsertedLater
    <3>3. CASE in = InsertAt(rest, k, Junk)
      <4>1. Tail(in) = InsertAt(Tail(rest), k - 1, Junk)
        BY <3>2, <3>3
      <4>2. Strayed(Tail(rest), Tail(in))
        BY <3>2, <4>1 DEF Strayed
      <4> QED
        BY <3>2, <3>3, <4>2
    <3>4. CASE in = InsertAt(rest, k, Empty("nothing")) /\ (k <= Len(rest) => IsFirst(rest[k]))
      <4>1. Tail(in) = InsertAt(Tail(rest), k - 1, Empty("nothing"))
        BY <3>2, <3>4
      <4>2. k - 1 <= Len(Tail(rest)) => IsFirst(Tail(rest)[k - 1])
        <5>1. Len(Tail(rest)) \in Nat
          BY <3>2, HeadTailProperties, LenProperties
        <5>2. k <= Len(rest) \/ k > Len(rest)
          BY <2>0
        <5>3. CASE k <= Len(rest)
          BY <3>2, <3>4, <5>3
        <5>4. CASE k > Len(rest)
          <6>1. k - 1 > Len(Tail(rest))
            BY <3>2, <5>4
          <6> QED
            BY <5>1, <6>1
        <5> QED
          BY <5>2, <5>3, <5>4
      <4>3. Strayed(Tail(rest), Tail(in))
        BY <3>2, <4>1, <4>2 DEF Strayed
      <4> QED
        BY <3>2, <3>4, <4>3
    <3> QED
      BY <2>1, <3>3, <3>4
  <2> QED
    BY <2>2, <2>3
<1> QED
  BY <1>1, <1>2

(* When the input is at its end, and when nothing that was sent is left.   *)
LEMMA NothingLeft ==
  ASSUME NEW S, NEW rest \in Seq(S)
  PROVE  /\ Strayed(rest, <<>>) => rest = <<>>
         /\ \A in : Strayed(<<>>, in) => in \in {<<>>, <<Junk>>, <<Empty("nothing")>>}
<1>1. ASSUME Strayed(rest, <<>>), rest # <<>> PROVE FALSE
  <2>1. PICK k \in 1..(Len(rest) + 1), e \in {Junk, Empty("nothing")} : <<>> = InsertAt(rest, k, e)
    BY <1>1 DEF Strayed
  <2> DEFINE T == S \cup {e}
  <2>3. rest \in Seq(T) /\ e \in T
    BY SeqMonotonic
  <2> HIDE DEF T
  <2>2. Len(<<>>) = Len(rest) + 1 /\ Len(rest) \in Nat
    BY <2>1, <2>3, Inserted, LenProperties
  <2> QED
    BY <2>2
<1>2. ASSUME NEW in, Strayed(<<>>, in), in # <<>>
      PROVE  in \in {<<Junk>>, <<Empty("nothing")>>}
  <2>1. PICK k \in 1..(0 + 1) : in = InsertAt(<<>>, k, Junk) \/ in = InsertAt(<<>>, k, Empty("nothing"))
    BY <1>2 DEF Strayed
  <2>2. k = 1
    OBVIOUS
  <2>3. ASSUME NEW e PROVE InsertAt(<<>>, 1, e) = <<e>>
    <3> DEFINE a == SubSeq(<<>>, 1, 0)
               b == SubSeq(<<>>, 1, 0)
    <3>1. a = <<>> /\ b = <<>> /\ Len(<<>>) = 0 /\ 1 - 1 = 0
      OBVIOUS
    <3>2. <<>> \o <<e>> \o <<>> = <<e>>
      OBVIOUS
    <3> QED
      BY <3>1, <3>2 DEF InsertAt
  <2> QED
    BY <2>1, <2>2, <2>3
<1> QED
  BY <1>1, <1>2

-----------------------------------------------------------------------------
(* Of what kinds the lines are.                                            *)
LEMMA LineKinds ==
  /\ \A s \in Sendings : /\ [t |-> s.kind, s |-> s] \in LineSet
                         /\ s.kind \in {"url", "status"}
  /\ \A h \in Headers : [t |-> "header", h |-> h] \in LineSet
  /\ \A x \in Text : Line("data", x) \in LineSet
  /\ \A f \in Folds : [t |-> "fold", f |-> f] \in FoldLines
  /\ \A n \in Nat : [t |-> "size", n |-> n] \in LineSet
  /\ Empty("headers") \in LineSet /\ Empty("trailers") \in LineSet
  /\ FoldLines \subseteq LineSet
<1>1. \A s \in Sendings : s.kind \in {"url", "status"}
  BY DEF Sendings
<1>2. \A s \in Sendings : [t |-> s.kind, s |-> s] \in [t : {"url", "status"}, s : Sendings]
  <2> HIDE DEF Sendings
  <2> QED
    BY <1>1
<1>3. \A h \in Headers : [t |-> "header", h |-> h] \in [t : {"header"}, h : Headers]
  OBVIOUS
<1>4. \A x \in Text : Line("data", x) \in [t : {"data"}, text : Text]
  BY DEF Line
<1>7. \A f \in Folds : [t |-> "fold", f |-> f] \in FoldLines
  BY DEF FoldLines
<1>5. \A n \in Nat : [t |-> "size", n |-> n] \in [t : {"size"}, n : Nat]
  OBVIOUS
<1>6. /\ Empty("headers") \in [t : {"empty"}, ends : {"headers", "trailers"}]
      /\ Empty("trailers") \in [t : {"empty"}, ends : {"headers", "trailers"}]
  BY DEF Empty
<1> QED
  BY ONLY <1>1, <1>2, <1>3, <1>4, <1>5, <1>6, <1>7 DEF LineSet

FoldsOf(h) == [i \in DOMAIN h.fold |-> [t |-> "fold", f |-> h.fold[i]]]

LEMMA HeaderIs ==
  ASSUME NEW h \in Headers
  PROVE  /\ FoldsOf(h) \in Seq(FoldLines)
         /\ HeaderLines(h) = <<[t |-> "header", h |-> h]>> \o FoldsOf(h)
         /\ HeaderLines(h) \in Seq(LineSet)
         /\ h.n \in Nat /\ h.says \in Flags \cup {"nothing", "length"}
<1>1. h.fold \in Seq(Folds) /\ h.n \in Nat /\ h.says \in Flags \cup {"nothing", "length"}
  BY DEF Headers
<1>2. Len(h.fold) \in Nat /\ DOMAIN h.fold = 1..Len(h.fold)
      /\ \A i \in 1..Len(h.fold) : h.fold[i] \in Folds
  <2> DEFINE f == h.fold
             S == Folds
  <2>1. f \in Seq(S)
    BY <1>1
  <2> HIDE DEF f, S
  <2>2. Len(f) \in Nat /\ DOMAIN f = 1..Len(f) /\ \A i \in 1..Len(f) : f[i] \in S
    BY ONLY <2>1, LenProperties, ElementOfSeq
  <2> QED
    BY ONLY <2>2 DEF f, S
<1>3. \A i \in 1..Len(h.fold) : [t |-> "fold", f |-> h.fold[i]] \in FoldLines
  BY <1>2, LineKinds
<1>4. FoldsOf(h) \in Seq(FoldLines)
  <2> DEFINE n == Len(h.fold)
             e(i) == [t |-> "fold", f |-> h.fold[i]]
  <2>1. FoldsOf(h) = [i \in 1..n |-> e(i)]
    BY <1>2 DEF FoldsOf
  <2>2. n \in Nat /\ \A i \in 1..n : e(i) \in FoldLines
    BY <1>2, <1>3
  <2> HIDE DEF n, e
  <2> QED
    BY ONLY <2>1, <2>2, IsASeq
<1>5. HeaderLines(h) = <<[t |-> "header", h |-> h]>> \o FoldsOf(h)
  BY DEF HeaderLines, FoldsOf
<1>6. FoldsOf(h) \in Seq(LineSet) /\ <<[t |-> "header", h |-> h]>> \in Seq(LineSet)
  <2>1. [t |-> "header", h |-> h] \in LineSet /\ FoldLines \subseteq LineSet
    BY LineKinds
  <2> DEFINE l == [t |-> "header", h |-> h]
  <2> HIDE DEF l
  <2>2. l \in LineSet
    BY ONLY <2>1 DEF l
  <2>3. <<l>> \in Seq(LineSet)
    BY ONLY <2>2
  <2>4. FoldsOf(h) \in Seq(LineSet)
    BY ONLY <1>4, <2>1, SeqMonotonic
  <2> QED
    BY ONLY <2>3, <2>4 DEF l
<1>7. HeaderLines(h) \in Seq(LineSet)
  BY ONLY <1>5, <1>6, ConcatProperties
<1> QED
  BY <1>1, <1>4, <1>5, <1>7

(* A fold that is a length is one of a header that is one.                 *)
LEMMA HeardOnce ==
  ASSUME NEW hs \in Seq(Headers), NEW k \in 1..Len(hs)
  PROVE  /\ FoldsOf(hs[k]) \in Seq(FoldsIn(hs))
         /\ hs[k].says = "length" => hs[k].n \in Lengths(hs) /\ "length" \in Said(hs)
<1> DEFINE h == hs[k]
<1>1. k \in DOMAIN hs /\ h \in Headers
  <2> DEFINE S == Headers
  <2> HIDE DEF S
  <2>1. hs \in Seq(S)
    BY DEF S
  <2>2. k \in DOMAIN hs /\ hs[k] \in S
    BY ONLY <2>1, k \in 1..Len(hs), LenProperties, ElementOfSeq
  <2> QED
    BY <2>2 DEF S
<1>2. h \in Range(hs)
  BY <1>1 DEF Range
<1> HIDE DEF h
<1>3. h.says = "length" => h.n \in Lengths(hs)
  BY <1>2 DEF Lengths
<1>4. h.says = "length" => "length" \in Said(hs)
  BY <1>1 DEF Said, h
<1>5. FoldsOf(h) \in Seq(FoldLines)
  BY <1>1, HeaderIs
<1>6. ASSUME NEW i \in 1..Len(FoldsOf(h)) PROVE FoldsOf(h)[i] \in FoldsIn(hs)
  <2> DEFINE l == FoldsOf(h)[i]
             f == h.fold[i]
  <2>1. l \in FoldLines /\ i \in DOMAIN FoldsOf(h)
    BY ONLY <1>5, <1>6, LenProperties, ElementOfSeq
  <2>2. i \in DOMAIN h.fold
    BY <2>1 DEF FoldsOf
  <2>3. l = [t |-> "fold", f |-> f]
    BY <2>2 DEF FoldsOf
  <2>4. l.f = f
    BY <2>3
  <2>5. f.says = "length" => h.says = "length"
    BY <1>1, <2>2 DEF Headers
  <2>6. f \in UNION {Range(g.fold) : g \in Range(hs)}
    <3>1. f \in Range(h.fold)
      BY <2>2 DEF Range
    <3> QED
      BY <1>2, <3>1
  <2> HIDE DEF l, f
  <2>7. f.says = "length" => f.n \in Lengths(hs)
    BY <2>6 DEF Lengths
  <2>8. l \in FoldsIn(hs)
    BY <1>4, <2>1, <2>4, <2>5, <2>7 DEF FoldsIn
  <2> QED
    BY <2>8 DEF l
<1>7. FoldsOf(h) \in Seq(FoldsIn(hs))
  <2> DEFINE S == FoldsIn(hs)
             f == FoldsOf(h)
             n == Len(f)
  <2>1. n \in Nat /\ f = [i \in 1..n |-> f[i]]
    BY ONLY <1>5, LenProperties, SeqDef
  <2> QED
    BY <1>6, <2>1, IsASeq
<1> QED
  BY <1>3, <1>4, <1>7 DEF h

LEMMA LengthsAre ==
  ASSUME NEW hs \in Seq(Headers)
  PROVE  Lengths(hs) \subseteq Nat
<1>1. ASSUME NEW h \in Range(hs) PROVE h.n \in Nat /\ \A f \in Range(h.fold) : f.n \in Nat
  <2>1. h \in Headers
    <3> DEFINE S == Headers
    <3> HIDE DEF S
    <3>1. hs \in Seq(S)
      BY DEF S
    <3>2. \A k \in DOMAIN hs : hs[k] \in S
      BY ONLY <3>1, LenProperties, ElementOfSeq
    <3> QED
      BY <1>1, <3>2 DEF Range, S
  <2>2. h.n \in Nat /\ h.fold \in Seq(Folds)
    BY <2>1 DEF Headers
  <2>3. \A k \in DOMAIN h.fold : h.fold[k] \in Folds
    <3> DEFINE S == Folds
               g == h.fold
    <3>1. g \in Seq(S)
      BY <2>2
    <3> HIDE DEF S, g
    <3>2. \A k \in DOMAIN g : g[k] \in S
      BY ONLY <3>1, LenProperties, ElementOfSeq
    <3> QED
      BY <3>2 DEF S, g
  <2>4. \A f \in Range(h.fold) : f.n \in Nat
    BY <2>3 DEF Range, Folds
  <2> QED
    BY <2>2, <2>4
<1> QED
  BY <1>1 DEF Lengths

LEMMA HeadsAre ==
  ASSUME NEW hs \in Seq(Headers)
  PROVE  /\ Len(hs) \in Nat /\ Heads(hs) \in Seq(Seq(LineSet)) /\ Len(Heads(hs)) = Len(hs)
         /\ DOMAIN hs = 1..Len(hs)
         /\ \A i \in 1..Len(hs) : hs[i] \in Headers /\ Heads(hs)[i] = HeaderLines(hs[i])
         /\ \A ends \in {"headers", "trailers"} :
              /\ Section(hs, ends) = Flat(Heads(hs), 0) \o <<Empty(ends)>>
              /\ Section(hs, ends) \in Seq(LineSet) /\ <<Empty(ends)>> \in Seq(LineSet)
<1> DEFINE n == Len(hs)
           e(i) == HeaderLines(hs[i])
           H == Heads(hs)
<1>1. n \in Nat /\ DOMAIN hs = 1..n /\ \A i \in 1..n : hs[i] \in Headers
  BY ONLY hs \in Seq(Headers), LenProperties, ElementOfSeq
<1>2. \A i \in 1..n : e(i) \in Seq(LineSet)
  BY <1>1, HeaderIs
<1>3. H = [i \in 1..n |-> e(i)]
  BY <1>1 DEF Heads
<1>4. H \in Seq(Seq(LineSet)) /\ Len(H) = n /\ \A i \in 1..n : H[i] = HeaderLines(hs[i])
  <2>1. [i \in 1..n |-> e(i)] \in Seq(Seq(LineSet))
    <3> HIDE DEF n, e
    <3> QED
      BY ONLY <1>1, <1>2, IsASeq
  <2>2. Len([i \in 1..n |-> e(i)]) = n /\ \A i \in 1..n : [j \in 1..n |-> e(j)][i] = e(i)
    <3> HIDE DEF n, e
    <3> QED
      BY ONLY <1>1
  <2> QED
    BY ONLY <1>3, <2>1, <2>2
<1>5. Flat(H, 0) = FlattenSeq(H) /\ Flat(H, 0) \in Seq(LineSet)
  <2>1. 0 \in 0..Len(H)
    BY <1>1, <1>4
  <2> HIDE DEF H
  <2> QED
    BY ONLY <1>4, <2>1, FlatStep
<1>6. ASSUME NEW ends \in {"headers", "trailers"}
      PROVE  /\ Section(hs, ends) = Flat(H, 0) \o <<Empty(ends)>>
             /\ Section(hs, ends) \in Seq(LineSet) /\ <<Empty(ends)>> \in Seq(LineSet)
  <2>1. Section(hs, ends) = FlattenSeq(H) \o <<Empty(ends)>>
    BY DEF Section, Heads
  <2>2. Empty(ends) \in LineSet
    BY LineKinds
  <2>3. <<Empty(ends)>> \in Seq(LineSet)
    BY ONLY <2>2
  <2>4. Flat(H, 0) \o <<Empty(ends)>> \in Seq(LineSet)
    BY ONLY <1>5, <2>3, ConcatProperties
  <2> QED
    BY ONLY <1>5, <2>1, <2>3, <2>4
<1> QED
  BY ONLY <1>1, <1>4, <1>6

LEMMA ChunksAre ==
  ASSUME NEW s \in Sendings
  PROVE  /\ Len(s.chunks) \in Nat /\ s.chunks \in Seq(Seq(Char))
         /\ DOMAIN s.chunks = 1..Len(s.chunks)
         /\ \A i \in 1..Len(s.chunks) : s.chunks[i] \in Text /\ Len(s.chunks[i]) \in Nat
         /\ DataLines(s) \in Seq(LineSet) /\ Len(DataLines(s)) = Len(s.chunks)
         /\ \A i \in 1..Len(s.chunks) : DataLines(s)[i] = Line("data", s.chunks[i])
         /\ ChunkLines(s) \in Seq(Seq(LineSet)) /\ Len(ChunkLines(s)) = Len(s.chunks)
         /\ \A i \in 1..Len(s.chunks) :
              ChunkLines(s)[i] = << [t |-> "size", n |-> Len(s.chunks[i])],
                                    Line("data", s.chunks[i]) >>
<1> DEFINE c == s.chunks
           n == Len(c)
           d(i) == Line("data", c[i])
           e(i) == << [t |-> "size", n |-> Len(c[i])], Line("data", c[i]) >>
<1>1. c \in Seq(Text)
  BY DEF Sendings
<1>2. DataLines(s) = [i \in DOMAIN c |-> d(i)] /\ ChunkLines(s) = [i \in DOMAIN c |-> e(i)]
  BY DEF DataLines, ChunkLines
<1> HIDE DEF c
<1>3. n \in Nat /\ DOMAIN c = 1..n /\ \A i \in 1..n : c[i] \in Text
  BY ONLY <1>1, LenProperties, ElementOfSeq
<1>4. \A i \in 1..n : Len(c[i]) \in Nat
  <2> SUFFICES ASSUME NEW i \in 1..n PROVE Len(c[i]) \in Nat
    OBVIOUS
  <2>1. c[i] \in Seq(Char)
    BY <1>3 DEF Text
  <2> QED
    BY <2>1, LenProperties
<1>5. \A i \in 1..n : d(i) \in LineSet
  BY <1>3, LineKinds
<1>6. \A i \in 1..n : e(i) \in Seq(LineSet)
  <2> SUFFICES ASSUME NEW i \in 1..n PROVE e(i) \in Seq(LineSet)
    OBVIOUS
  <2> DEFINE a == [t |-> "size", n |-> Len(c[i])]
             b == Line("data", c[i])
  <2>1. a \in LineSet /\ b \in LineSet
    BY <1>3, <1>4, LineKinds
  <2> HIDE DEF a, b
  <2>2. <<a, b>> \in Seq(LineSet)
    BY ONLY <2>1
  <2> QED
    BY ONLY <2>2 DEF a, b
<1>7. /\ [i \in 1..n |-> d(i)] \in Seq(LineSet) /\ Len([i \in 1..n |-> d(i)]) = n
      /\ \A i \in 1..n : [j \in 1..n |-> d(j)][i] = d(i)
  <2> HIDE DEF n, d
  <2> QED
    BY ONLY <1>3, <1>5, IsASeq
<1>8. /\ [i \in 1..n |-> e(i)] \in Seq(Seq(LineSet)) /\ Len([i \in 1..n |-> e(i)]) = n
      /\ \A i \in 1..n : [j \in 1..n |-> e(j)][i] = e(i)
  <2> HIDE DEF n, e
  <2> QED
    BY ONLY <1>3, <1>6, IsASeq
<1>9. Text = Seq(Char)
  BY DEF Text
<1> HIDE DEF d, e, n
<1>10. /\ DataLines(s) \in Seq(LineSet) /\ Len(DataLines(s)) = n
       /\ \A i \in 1..n : DataLines(s)[i] = d(i)
       /\ ChunkLines(s) \in Seq(Seq(LineSet)) /\ Len(ChunkLines(s)) = n
       /\ \A i \in 1..n : ChunkLines(s)[i] = e(i)
  BY ONLY <1>2, <1>3, <1>7, <1>8
<1> QED
  BY ONLY <1>1, <1>3, <1>4, <1>9, <1>10 DEF c, d, e, n

(* The lines of a message that come after its headers.                     *)
LEMMA BodyIs ==
  ASSUME NEW s \in Sendings
  PROVE  /\ BodyLines(s) \in Seq(LineSet)
         /\ s.frame = "none" => BodyLines(s) = <<>>
         /\ s.frame \in {"length", "eof"} => BodyLines(s) = DataLines(s)
         /\ s.frame = "chunked" =>
              BodyLines(s) = Flat(ChunkLines(s), 0) \o << [t |-> "size", n |-> 0] >>
                             \o Section(s.trailers, "trailers")
         /\ s.frame \in {"none", "length", "chunked", "eof"}
<1>1. s.frame \in {"none", "length", "chunked", "eof"} /\ s.trailers \in Seq(Headers)
  BY DEF Sendings
<1>2. /\ DataLines(s) \in Seq(LineSet)
      /\ ChunkLines(s) \in Seq(Seq(LineSet)) /\ Len(ChunkLines(s)) \in Nat
  BY ChunksAre
<1>3. Flat(ChunkLines(s), 0) = FlattenSeq(ChunkLines(s)) /\ Flat(ChunkLines(s), 0) \in Seq(LineSet)
  <2>1. 0 \in 0..Len(ChunkLines(s))
    BY <1>2
  <2> QED
    BY ONLY <1>2, <2>1, FlatStep
<1> DEFINE z == << [t |-> "size", n |-> 0] >>
           w == Section(s.trailers, "trailers")
<1>4. z \in Seq(LineSet) /\ w \in Seq(LineSet)
  <2>1. [t |-> "size", n |-> 0] \in LineSet
    BY LineKinds
  <2> DEFINE l == [t |-> "size", n |-> 0]
  <2>2. <<l>> \in Seq(LineSet)
    <3>1. l \in LineSet
      BY <2>1
    <3> HIDE DEF l
    <3> QED
      BY ONLY <3>1
  <2> QED
    BY <1>1, <2>2, HeadsAre
<1>5. BodyLines(s) = CASE s.frame = "chunked" -> FlattenSeq(ChunkLines(s)) \o z \o w
                       [] s.frame = "none" -> <<>>
                       [] OTHER -> DataLines(s)
  BY DEF BodyLines, ChunkLines, DataLines
<1> HIDE DEF z, w
<1>6. FlattenSeq(ChunkLines(s)) \o z \o w \in Seq(LineSet)
  BY ONLY <1>3, <1>4, ConcatProperties
<1> QED
  BY ONLY <1>1, <1>2, <1>3, <1>5, <1>6 DEF z, w

LEMMA MessageIs ==
  ASSUME NEW s \in Sendings
  PROVE  /\ Lines(s) \in Seq(LineSet)
         /\ Lines(s) = << [t |-> s.kind, s |-> s] >> \o Section(s.headers, "headers")
                       \o BodyLines(s)
         /\ s.headers \in Seq(Headers) /\ s.trailers \in Seq(Headers)
<1>1. s.headers \in Seq(Headers) /\ s.trailers \in Seq(Headers)
  BY DEF Sendings
<1> DEFINE l == [t |-> s.kind, s |-> s]
           w == Section(s.headers, "headers")
           b == BodyLines(s)
<1>2. l \in LineSet
  BY LineKinds
<1>3. w \in Seq(LineSet) /\ b \in Seq(LineSet)
  BY <1>1, HeadsAre, BodyIs
<1>4. Lines(s) = <<l>> \o w \o b
  BY DEF Lines
<1> HIDE DEF l, w, b
<1>5. <<l>> \in Seq(LineSet)
  BY ONLY <1>2
<1>6. <<l>> \o w \o b \in Seq(LineSet)
  BY ONLY <1>3, <1>5, ConcatProperties, SMTT(30)
<1> QED
  BY ONLY <1>1, <1>4, <1>6 DEF l, w, b

(* A message that leaves HTTP has no body.                                 *)
LEMMA LeavesBare ==
  ASSUME NEW s \in Sendings, Framed(s), LeavesHttp(s)
  PROVE  s.frame = "none" /\ BodyLines(s) = <<>>
<1>1. s.frame = "none"
  BY DEF Framed, Announces
<1> QED
  BY <1>1, BodyIs

(* What a connection carries.                                              *)
LEMMA WireIs ==
  ASSUME NEW w \in Wires
  PROVE  /\ Len(w) \in Nat \ {0} /\ DOMAIN w = 1..Len(w) /\ w \in Seq(Sendings)
         /\ \A i \in 1..Len(w) :
              /\ w[i] \in Sendings /\ Framed(w[i])
              /\ w[i].frame = "eof" \/ LeavesHttp(w[i]) \/ Announces(w[i]) => i = Len(w)
<1>1. /\ w \in Seq(Sendings) /\ w # <<>>
      /\ \A i \in DOMAIN w :
           Framed(w[i]) /\ (w[i].frame = "eof" \/ LeavesHttp(w[i]) \/ Announces(w[i]) => i = Len(w))
  BY FramingAssumption
<1> DEFINE S == Sendings
<1> HIDE DEF S
<1>2. w \in Seq(S)
  BY <1>1 DEF S
<1>3. Len(w) \in Nat \ {0} /\ DOMAIN w = 1..Len(w) /\ \A i \in 1..Len(w) : w[i] \in S
  BY ONLY <1>1, <1>2, LenProperties, ElementOfSeq, EmptySeq
<1> QED
  BY <1>1, <1>3 DEF S

LEMMA LaterIs ==
  ASSUME NEW w \in Wires, NEW i \in 0..Len(w)
  PROVE  /\ Later(w, i) \in Seq(LineSet)
         /\ Later(w, 0) = FlattenSeq(AllLines(w))
         /\ i = Len(w) => Later(w, i) = <<>>
         /\ i < Len(w) => /\ i + 1 \in 1..Len(w)
                          /\ Later(w, i) = Lines(w[i + 1]) \o Later(w, i + 1)
<1> DEFINE A == AllLines(w)
           n == Len(w)
           e(j) == Lines(w[j])
<1>1. n \in Nat /\ DOMAIN w = 1..n /\ \A j \in 1..n : w[j] \in Sendings
  BY WireIs
<1>2. \A j \in 1..n : e(j) \in Seq(LineSet)
  BY <1>1, MessageIs
<1>3. A = [j \in 1..n |-> e(j)]
  BY <1>1 DEF AllLines
<1>4. /\ [j \in 1..n |-> e(j)] \in Seq(Seq(LineSet)) /\ Len([j \in 1..n |-> e(j)]) = n
      /\ \A k \in 1..n : [j \in 1..n |-> e(j)][k] = e(k)
  <2> HIDE DEF n, e
  <2> QED
    BY ONLY <1>1, <1>2, IsASeq
<1> HIDE DEF A
<1>5. A \in Seq(Seq(LineSet)) /\ Len(A) = n /\ \A k \in 1..n : A[k] = Lines(w[k])
  BY ONLY <1>3, <1>4
<1>6. /\ Flat(A, i) \in Seq(LineSet) /\ Flat(A, 0) = FlattenSeq(A)
      /\ i = Len(A) => Flat(A, i) = <<>>
      /\ i < Len(A) => Flat(A, i) = A[i + 1] \o Flat(A, i + 1)
  <2>1. i \in 0..Len(A)
    BY <1>5
  <2> QED
    BY ONLY <1>5, <2>1, FlatStep
<1>7. i < n => i + 1 \in 1..n
  BY <1>1
<1> QED
  BY <1>5, <1>6, <1>7 DEF Later, A

-----------------------------------------------------------------------------
(* The first of several lines.                                             *)
LEMMA FirstOf ==
  ASSUME NEW S, NEW a \in S, NEW x \in Seq(S)
  PROVE  /\ <<a>> \o x # <<>> /\ Head(<<a>> \o x) = a /\ Tail(<<a>> \o x) = x
         /\ <<a>> \in Seq(S) /\ <<a>> \o x \in Seq(S)
<1> DEFINE c == <<a>>
           y == c \o x
<1>1. c \in Seq(S) /\ Len(c) = 1 /\ c[1] = a
  OBVIOUS
<1>2. Len(x) \in Nat
  BY LenProperties
<1> HIDE DEF c
<1>3. /\ y \in Seq(S) /\ Len(y) = 1 + Len(x)
      /\ \A i \in 1..(1 + Len(x)) : y[i] = IF i <= 1 THEN c[i] ELSE x[i - 1]
  <2>1. /\ y \in Seq(S) /\ Len(y) = Len(c) + Len(x)
        /\ \A i \in 1..(Len(c) + Len(x)) : y[i] = IF i <= Len(c) THEN c[i] ELSE x[i - Len(c)]
    BY <1>1, ConcatProperties
  <2> HIDE DEF y
  <2> QED
    BY <1>1, <2>1
<1> HIDE DEF y
<1>4. y # <<>>
  BY <1>2, <1>3
<1>5. y[1] = a
  <2>1. 1 \in 1..(1 + Len(x))
    BY <1>2
  <2> QED
    BY <1>1, <1>3, <2>1
<1>6. Head(y) = a
  BY <1>3, <1>4, <1>5
<1>7. /\ Tail(y) \in Seq(S) /\ Len(Tail(y)) = Len(y) - 1
      /\ \A i \in 1..Len(Tail(y)) : Tail(y)[i] = y[i + 1]
  BY ONLY <1>3, <1>4, HeadTailProperties
<1>8. Len(Tail(y)) = Len(x)
  BY ONLY <1>2, <1>3, <1>7
<1>9. \A i \in 1..Len(Tail(y)) : Tail(y)[i] = x[i]
  <2> SUFFICES ASSUME NEW i \in 1..Len(x) PROVE Tail(y)[i] = x[i]
    BY <1>8
  <2>1. i + 1 \in 1..(1 + Len(x)) /\ ~(i + 1 <= 1) /\ (i + 1) - 1 = i
    BY <1>2
  <2>2. y[i + 1] = x[(i + 1) - 1]
    BY <1>3, <2>1
  <2>3. Tail(y)[i] = y[i + 1]
    BY <1>7, <1>8
  <2> QED
    BY <2>1, <2>2, <2>3
<1>10. Tail(y) = x
  BY ONLY <1>7, <1>8, <1>9, x \in Seq(S), SeqEqual
<1> QED
  BY <1>1, <1>3, <1>4, <1>6, <1>10 DEF c, y

LEMMA HeadJoined ==
  ASSUME NEW S, NEW x \in Seq(S), NEW y \in Seq(S)
  PROVE  /\ x \o y \in Seq(S) /\ <<>> \o y = y /\ x \o <<>> = x /\ <<>> \in Seq(S)
         /\ x # <<>> => /\ Head(x) \in S /\ Tail(x) \in Seq(S) /\ x = <<Head(x)>> \o Tail(x)
                        /\ x \o y = <<Head(x)>> \o (Tail(x) \o y)
<1>1. x \o y \in Seq(S) /\ <<>> \o y = y /\ x \o <<>> = x /\ <<>> \in Seq(S)
  BY ConcatProperties, ConcatEmptySeq, EmptySeq
<1>2. ASSUME x # <<>>
      PROVE  /\ Head(x) \in S /\ Tail(x) \in Seq(S) /\ x = <<Head(x)>> \o Tail(x)
             /\ x \o y = <<Head(x)>> \o (Tail(x) \o y)
  <2>1. Head(x) \in S /\ Tail(x) \in Seq(S) /\ Len(x) \in Nat \ {0} /\ Head(x) = x[1]
    BY <1>2, HeadTailProperties, EmptySeq
  <2>2. x = <<Head(x)>> \o Tail(x)
    <3>1. SubSeq(x, 1, Len(x)) = <<x[1]>> \o SubSeq(x, 1 + 1, Len(x))
      <4>1. 1 \in 1..Len(x) /\ Len(x) \in 1..Len(x)
        BY <2>1
      <4> QED
        BY ONLY x \in Seq(S), <4>1, SubSeqRecursiveFirst
    <3>2. SubSeq(x, 1, Len(x)) = x
      BY SubSeqFull
    <3>3. Tail(x) = SubSeq(x, 2, Len(x))
      BY <1>2, TailIsSubSeq
    <3> QED
      BY <2>1, <3>1, <3>2, <3>3
  <2> DEFINE h == <<Head(x)>>
             t == Tail(x)
  <2>3. h \in Seq(S) /\ t \in Seq(S)
    BY <2>1
  <2> HIDE DEF h, t
  <2>4. (h \o t) \o y = h \o (t \o y)
    BY ONLY <2>3, y \in Seq(S), ConcatAssociative, SMTT(60)
  <2>5. x = h \o t
    BY <2>2 DEF h, t
  <2> QED
    BY <2>1, <2>2, <2>4, <2>5 DEF h, t
<1> QED
  BY <1>1, <1>2

(***************************************************************************)
(* The next line of a row of headers: more of a folded value, the next     *)
(* header, or the empty line that ends the row.                            *)
(***************************************************************************)
LEMMA SectionStep ==
  ASSUME NEW hs \in Seq(Headers), NEW ends \in {"headers", "trailers"}, NEW j \in 0..Len(hs),
         NEW after \in Seq(LineSet), NEW rest, InSection(hs, ends, j, rest, after)
  PROVE  /\ rest \in Seq(LineSet) /\ rest # <<>>
         /\ \/ Head(rest) \in FoldsIn(hs) /\ InSection(hs, ends, j, Tail(rest), after)
            \/ /\ j < Len(hs) /\ Head(rest) = [t |-> "header", h |-> hs[j + 1]]
               /\ InSection(hs, ends, j + 1, Tail(rest), after)
            \/ j = Len(hs) /\ Head(rest) = Empty(ends) /\ Tail(rest) = after
<1> DEFINE H == Heads(hs)
           z == <<Empty(ends)>>
           F == Flat(H, j)
           y == F \o (z \o after)
           L == LineSet
           K == FoldsIn(hs)
<1>1. /\ Len(hs) \in Nat /\ H \in Seq(Seq(L)) /\ Len(H) = Len(hs)
      /\ \A i \in 1..Len(hs) : hs[i] \in Headers /\ H[i] = HeaderLines(hs[i])
      /\ z \in Seq(L)
  BY HeadsAre
<1>2. Empty(ends) \in L
  BY LineKinds
<1> HIDE DEF H, L
<1>3. /\ F \in Seq(L) /\ (j = Len(hs) => F = <<>>)
      /\ j < Len(hs) => F = H[j + 1] \o Flat(H, j + 1)
  BY <1>1, FlatStep
<1>4. after \in Seq(L)
  BY DEF L
<1>5. z \o after \in Seq(L)
  BY ONLY <1>1, <1>4, HeadJoined
<1>6. y \in Seq(L)
  <2> HIDE DEF F, z
  <2> QED
    BY ONLY <1>3, <1>5, HeadJoined
<1>7. PICK x \in Seq(K) : rest = x \o y
  BY DEF InSection, H
<1>14. K \subseteq L
  BY LineKinds DEF L, FoldsIn
<1> HIDE DEF y, K
<1>8. x \in Seq(L)
  BY ONLY <1>14, x \in Seq(K), SeqMonotonic
<1>9. rest \in Seq(L)
  BY ONLY <1>6, <1>7, <1>8, HeadJoined
<1>10. CASE x # <<>>
  <2>1. Head(x) \in K /\ Tail(x) \in Seq(K)
    BY ONLY x \in Seq(K), <1>10, HeadTailProperties
  <2>2. Head(x) \in L /\ Tail(x) \in Seq(L) /\ rest = <<Head(x)>> \o (Tail(x) \o y)
    BY ONLY <1>6, <1>7, <1>8, <1>10, HeadJoined
  <2>3. Tail(x) \o y \in Seq(L)
    BY ONLY <1>6, <2>2, HeadJoined
  <2>4. rest # <<>> /\ Head(rest) = Head(x) /\ Tail(rest) = Tail(x) \o y
    BY ONLY <2>2, <2>3, FirstOf
  <2>5. Head(rest) \in FoldsIn(hs)
    BY ONLY <2>1, <2>4 DEF K
  <2>6. InSection(hs, ends, j, Tail(rest), after)
    BY <2>1, <2>4 DEF InSection, y, H, K
  <2> QED
    BY <1>9, <2>4, <2>5, <2>6 DEF L
<1>11. CASE x = <<>> /\ j < Len(hs)
  <2> DEFINE h == hs[j + 1]
             l == [t |-> "header", h |-> h]
             f == FoldsOf(h)
             G == Flat(H, j + 1)
  <2>1. j + 1 \in 1..Len(hs) /\ j + 1 \in 0..Len(hs)
    BY <1>1, <1>11
  <2>2. h \in Headers
    BY <1>1, <2>1
  <2> HIDE DEF h
  <2>3. f \in Seq(K) /\ H[j + 1] = <<l>> \o f
    <3>1. H[j + 1] = HeaderLines(h)
      BY <1>1, <2>1 DEF h
    <3>2. f \in Seq(K)
      BY <2>1, HeardOnce DEF K, h
    <3> QED
      BY <2>2, <3>1, <3>2, HeaderIs
  <2>4. l \in L /\ f \in Seq(L)
    <3>1. l \in L
      BY <2>2, LineKinds DEF L
    <3> QED
      BY ONLY <1>14, <3>1, <2>3, SeqMonotonic
  <2>5. G \in Seq(L)
    <3>1. j + 1 \in 0..Len(H)
      BY <1>1, <2>1
    <3> QED
      BY ONLY <1>1, <3>1, FlatStep
  <2> HIDE DEF l, f, G
  <2>6. F = (<<l>> \o f) \o G
    BY <1>3, <1>11, <2>3 DEF G
  <2> HIDE DEF F, z
  <2>7. <<l>> \in Seq(L)
    BY ONLY <2>4
  <2>8. y = <<l>> \o (f \o (G \o (z \o after)))
    <3> DEFINE za == z \o after
               ll == <<l>>
    <3>1. za \in Seq(L) /\ ll \in Seq(L)
      BY <1>5, <2>7
    <3> HIDE DEF za, ll
    <3> DEFINE lf == ll \o f
               gz == G \o za
    <3>2. lf \in Seq(L)
      BY ONLY <3>1, <2>4, HeadJoined
    <3>5. gz \in Seq(L)
      BY ONLY <3>1, <2>5, HeadJoined
    <3>3. lf \o gz = ll \o (f \o gz)
      <4> HIDE DEF gz
      <4> QED
        BY ONLY <3>1, <3>5, <2>4, ConcatAssociative, SMTT(60)
    <3>4. (lf \o G) \o za = lf \o (G \o za)
      <4> HIDE DEF lf
      <4> QED
        BY ONLY <3>1, <3>2, <2>5, ConcatAssociative, SMTT(60)
    <3> QED
      BY ONLY <2>6, <3>3, <3>4 DEF y, za, ll
  <2>9. f \o (G \o (z \o after)) \in Seq(L)
    <3>1. G \o (z \o after) \in Seq(L)
      BY ONLY <1>5, <2>5, HeadJoined
    <3> QED
      BY ONLY <3>1, <2>4, HeadJoined
  <2>10. rest = y
    BY ONLY <1>6, <1>7, <1>11, HeadJoined
  <2>11. rest # <<>> /\ Head(rest) = l /\ Tail(rest) = f \o (G \o (z \o after))
    BY ONLY <2>4, <2>8, <2>9, <2>10, FirstOf, SMTT(30)
  <2>12. InSection(hs, ends, j + 1, Tail(rest), after)
    BY <2>3, <2>11 DEF InSection, G, H, z, K
  <2> QED
    BY <1>9, <1>11, <2>11, <2>12 DEF L, l, h
<1>12. CASE x = <<>> /\ j = Len(hs)
  <2>1. rest = z \o after
    <3>1. rest = y /\ F = <<>>
      BY ONLY <1>3, <1>6, <1>7, <1>12, HeadJoined
    <3>2. <<>> \o (z \o after) = z \o after
      BY ONLY <1>5, HeadJoined
    <3> QED
      BY ONLY <3>1, <3>2 DEF y
  <2>2. rest # <<>> /\ Head(rest) = Empty(ends) /\ Tail(rest) = after
    BY ONLY <1>2, <1>4, <2>1, FirstOf DEF z
  <2> QED
    BY <1>9, <1>12, <2>2 DEF L
<1>13. j < Len(hs) \/ j = Len(hs)
  BY <1>1
<1> QED
  BY ONLY <1>10, <1>11, <1>12, <1>13

-----------------------------------------------------------------------------
(* What the parser finds next between two messages.                        *)
LEMMA BetweenLine ==
  ASSUME Framing, BetweenTwo(parser), input # <<>>, Head(input) # Junk
  PROVE  \/ /\ Head(input) = Empty("nothing")
            /\ Strayed(Later(wire, begun), Tail(input))
         \/ /\ begun < Len(wire) /\ begun + 1 \in 1..Len(wire)
            /\ Head(input) = [t |-> wire[begun + 1].kind, s |-> wire[begun + 1]]
            /\ Strayed(Section(wire[begun + 1].headers, "headers")
                         \o (BodyLines(wire[begun + 1]) \o Later(wire, begun + 1)), Tail(input))
<1>1. PICK rest \in Seq(LineSet) : Strayed(rest, input) /\ Placed(rest, wire, begun, parser)
  BY DEF Framing
<1>2. rest = Later(wire, begun)
  BY <1>1 DEF Placed
<1>3. wire \in Wires /\ begun \in 0..Len(wire) /\ Len(wire) \in Nat
  BY WireIs DEF Framing
<1>4. \/ Head(input) = Empty("nothing") /\ Tail(input) = rest
      \/ rest # <<>> /\ Head(input) = Head(rest) /\ Strayed(Tail(rest), Tail(input))
  BY <1>1, NextLine
<1>5. CASE Head(input) = Empty("nothing") /\ Tail(input) = rest
  BY <1>2, <1>5 DEF Strayed
<1>6. CASE rest # <<>> /\ Head(input) = Head(rest) /\ Strayed(Tail(rest), Tail(input))
  <2>1. begun < Len(wire) /\ begun + 1 \in 1..Len(wire) /\ begun + 1 \in 0..Len(wire)
        /\ rest = Lines(wire[begun + 1]) \o Later(wire, begun + 1)
    BY <1>2, <1>3, <1>6, LaterIs, SMTT(30)
  <2> DEFINE s == wire[begun + 1]
             l == [t |-> s.kind, s |-> s]
             w == Section(s.headers, "headers")
             b == BodyLines(s)
             z == Later(wire, begun + 1)
             L == LineSet
  <2>2. s \in Sendings
    BY <1>3, <2>1, WireIs
  <2>3. l \in L /\ w \in Seq(L) /\ b \in Seq(L) /\ Lines(s) = <<l>> \o w \o b
    BY <2>2, LineKinds, MessageIs, HeadsAre, BodyIs
  <2>4. z \in Seq(L)
    BY <1>3, <2>1, LaterIs
  <2>5. rest = (<<l>> \o w \o b) \o z
    BY <2>1, <2>3
  <2> HIDE DEF l, w, b, z, L
  <2>6. rest = <<l>> \o (w \o (b \o z)) /\ w \o (b \o z) \in Seq(L)
    <3> DEFINE ll == <<l>>
               lw == ll \o w
               bz == b \o z
    <3>1. ll \in Seq(L)
      BY ONLY <2>3, FirstOf
    <3> HIDE DEF ll
    <3>2. lw \in Seq(L)
      BY ONLY <2>3, <3>1, HeadJoined
    <3>3. bz \in Seq(L)
      BY ONLY <2>3, <2>4, HeadJoined
    <3>4. (lw \o b) \o z = lw \o (b \o z)
      <4> HIDE DEF lw
      <4> QED
        BY ONLY <2>3, <2>4, <3>2, ConcatAssociative, SMTT(60)
    <3>5. (ll \o w) \o bz = ll \o (w \o bz)
      <4> HIDE DEF bz
      <4> QED
        BY ONLY <2>3, <3>1, <3>3, ConcatAssociative, SMTT(60)
    <3>6. w \o bz \in Seq(L)
      <4> HIDE DEF bz
      <4> QED
        BY ONLY <2>3, <3>3, HeadJoined
    <3> QED
      BY ONLY <2>5, <3>4, <3>5, <3>6 DEF ll
  <2>7. Head(rest) = l /\ Tail(rest) = w \o (b \o z)
    BY ONLY <2>3, <2>6, FirstOf
  <2> QED
    BY <1>6, <2>1, <2>7 DEF l, w, b, z
<1> QED
  BY <1>4, <1>5, <1>6

(* What it finds next in a message.                                        *)
LEMMA InsideLine ==
  ASSUME Framing, ~BetweenTwo(parser), input # <<>>, Head(input) # Junk
  PROVE  /\ begun \in 1..Len(wire) /\ wire[begun] \in Sendings /\ Framed(wire[begun])
         /\ wire \in Wires /\ Later(wire, begun) \in Seq(LineSet)
         /\ \E rest \in Seq(LineSet) :
              /\ Inside(wire[begun], rest, parser, Later(wire, begun))
              /\ \/ Head(input) = Empty("nothing") /\ (rest # <<>> => IsFirst(Head(rest)))
                 \/ /\ rest # <<>> /\ Head(input) = Head(rest)
                    /\ Tail(rest) \in Seq(LineSet) /\ Strayed(Tail(rest), Tail(input))
<1>1. PICK rest \in Seq(LineSet) : Strayed(rest, input) /\ Placed(rest, wire, begun, parser)
  BY DEF Framing
<1>2. begun > 0 /\ Inside(wire[begun], rest, parser, Later(wire, begun))
  BY <1>1 DEF Placed
<1>3. wire \in Wires /\ begun \in 0..Len(wire)
  BY DEF Framing
<1>4. \/ Head(input) = Empty("nothing") /\ (rest # <<>> => IsFirst(Head(rest)))
      \/ rest # <<>> /\ Head(input) = Head(rest) /\ Strayed(Tail(rest), Tail(input))
  BY <1>1, NextLine
<1>5. rest # <<>> => Tail(rest) \in Seq(LineSet)
  BY HeadTailProperties
<1>6. begun \in 1..Len(wire)
  BY <1>2, <1>3
<1>7. wire[begun] \in Sendings /\ Framed(wire[begun])
  BY <1>3, <1>6, WireIs
<1>8. Later(wire, begun) \in Seq(LineSet)
  BY <1>3, LaterIs
<1> QED
  BY <1>2, <1>3, <1>4, <1>5, <1>6, <1>7, <1>8

(* In the headers or the trailers.                                         *)
LEMMA HeaderNext ==
  ASSUME Framing, parser.state = "header", input # <<>>, Head(input) # Junk
  PROVE  LET s == wire[begun]
             z == Later(wire, begun)
             p == parser
         IN  \/ \E j \in 0..Len(s.headers) :
                  /\ p.flags = Flags \cap SaidUpTo(s.headers, j) /\ LengthHeard(s.headers, j, p)
                  /\ \E rest \in Seq(LineSet) :
                       /\ Strayed(rest, Tail(input))
                       /\ \/ Head(input) \in FoldsIn(s.headers)
                             /\ InSection(s.headers, "headers", j, rest, BodyLines(s) \o z)
                          \/ /\ j < Len(s.headers)
                             /\ Head(input) = [t |-> "header", h |-> s.headers[j + 1]]
                             /\ InSection(s.headers, "headers", j + 1, rest, BodyLines(s) \o z)
                          \/ /\ j = Len(s.headers) /\ Head(input) = Empty("headers")
                             /\ rest = BodyLines(s) \o z
             \/ /\ s.frame = "chunked" /\ ~LeavesHttp(s)
                /\ \E j \in 0..Len(s.trailers) :
                     /\ p.flags = {"trailing"}
                          \cup (Flags \cap (Said(s.headers) \cup SaidUpTo(s.trailers, j)))
                     /\ \E rest \in Seq(LineSet) :
                          /\ Strayed(rest, Tail(input))
                          /\ \/ Head(input) \in FoldsIn(s.trailers)
                                /\ InSection(s.trailers, "trailers", j, rest, z)
                             \/ /\ j < Len(s.trailers)
                                /\ Head(input) = [t |-> "header", h |-> s.trailers[j + 1]]
                                /\ InSection(s.trailers, "trailers", j + 1, rest, z)
                             \/ /\ j = Len(s.trailers) /\ Head(input) = Empty("trailers")
                                /\ rest = z
<1> DEFINE s == wire[begun]
           z == Later(wire, begun)
           b == BodyLines(s) \o z
<1>1. ~BetweenTwo(parser)
  BY DEF BetweenTwo
<1>2. s \in Sendings /\ z \in Seq(LineSet)
  BY <1>1, InsideLine
<1>3. PICK rest \in Seq(LineSet) :
        /\ Inside(s, rest, parser, z)
        /\ \/ Head(input) = Empty("nothing") /\ (rest # <<>> => IsFirst(Head(rest)))
           \/ /\ rest # <<>> /\ Head(input) = Head(rest)
              /\ Tail(rest) \in Seq(LineSet) /\ Strayed(Tail(rest), Tail(input))
  BY <1>1, InsideLine
<1>4. /\ s.headers \in Seq(Headers) /\ s.trailers \in Seq(Headers) /\ b \in Seq(LineSet)
  <2>1. s.headers \in Seq(Headers) /\ s.trailers \in Seq(Headers) /\ BodyLines(s) \in Seq(LineSet)
    BY <1>2, MessageIs, BodyIs
  <2> HIDE DEF s, z
  <2> QED
    BY ONLY <1>2, <2>1, HeadJoined DEF b
<1> DEFINE Next3(hs, ends, j, after) ==
             \/ Head(rest) \in FoldsIn(hs) /\ InSection(hs, ends, j, Tail(rest), after)
             \/ /\ j < Len(hs) /\ Head(rest) = [t |-> "header", h |-> hs[j + 1]]
                /\ InSection(hs, ends, j + 1, Tail(rest), after)
             \/ j = Len(hs) /\ Head(rest) = Empty(ends) /\ Tail(rest) = after
<1>5. ASSUME NEW hs \in Seq(Headers), NEW ends \in {"headers", "trailers"}, NEW j \in 0..Len(hs),
             NEW after \in Seq(LineSet), InSection(hs, ends, j, rest, after)
      PROVE  /\ Next3(hs, ends, j, after)
             /\ Head(input) = Head(rest) /\ Tail(rest) \in Seq(LineSet)
             /\ Strayed(Tail(rest), Tail(input))
  <2>1. rest # <<>> /\ Next3(hs, ends, j, after)
    BY <1>5, SectionStep
  <2>2. ~IsFirst(Head(rest))
    BY <2>1 DEF IsFirst, Empty, FoldsIn, FoldLines
  <2> QED
    BY <1>3, <2>1, <2>2
<1>6. AtHeaders(s, rest, parser, z) \/ (AtTrailers(s, rest, parser, z) /\ ~LeavesHttp(s))
  BY <1>3 DEF Inside
<1>7. CASE AtHeaders(s, rest, parser, z)
  <2>1. PICK j \in 0..Len(s.headers) :
          /\ InSection(s.headers, "headers", j, rest, b)
          /\ parser.flags = Flags \cap SaidUpTo(s.headers, j)
          /\ LengthHeard(s.headers, j, parser)
    BY <1>7 DEF AtHeaders
  <2>2. /\ Next3(s.headers, "headers", j, b)
        /\ Head(input) = Head(rest) /\ Tail(rest) \in Seq(LineSet)
        /\ Strayed(Tail(rest), Tail(input))
    <3> HIDE DEF Next3, s, b
    <3> QED
      BY <1>4, <1>5, <2>1
  <2> HIDE DEF s, z
  <2> QED
    BY ONLY <2>1, <2>2 DEF s, z
<1>8. CASE AtTrailers(s, rest, parser, z) /\ ~LeavesHttp(s)
  <2>0. s.frame = "chunked"
    BY <1>8 DEF AtTrailers
  <2>1. PICK j \in 0..Len(s.trailers) :
          /\ InSection(s.trailers, "trailers", j, rest, z)
          /\ parser.flags = {"trailing"}
               \cup (Flags \cap (Said(s.headers) \cup SaidUpTo(s.trailers, j)))
    BY <1>8 DEF AtTrailers
  <2>2. /\ Next3(s.trailers, "trailers", j, z)
        /\ Head(input) = Head(rest) /\ Tail(rest) \in Seq(LineSet)
        /\ Strayed(Tail(rest), Tail(input))
    <3> HIDE DEF Next3, s, z
    <3> QED
      BY <1>2, <1>4, <1>5, <2>1
  <2> HIDE DEF s, z
  <2> QED
    BY ONLY <1>8, <2>0, <2>1, <2>2 DEF s, z
<1> QED
  BY <1>6, <1>7, <1>8

-----------------------------------------------------------------------------
(* What the headers have said, header by header.                           *)
LEMMA SaidMore ==
  ASSUME NEW hs
  PROVE  /\ SaidUpTo(hs, 0) = {}
         /\ \A j \in Nat : SaidUpTo(hs, j + 1) = SaidUpTo(hs, j) \cup {hs[j + 1].says}
         /\ hs \in Seq(Headers) => Said(hs) = SaidUpTo(hs, Len(hs))
<1>1. SaidUpTo(hs, 0) = {}
  BY DEF SaidUpTo
<1>2. ASSUME NEW j \in Nat
      PROVE  SaidUpTo(hs, j + 1) = SaidUpTo(hs, j) \cup {hs[j + 1].says}
  <2>1. \A i : i \in 1..(j + 1) <=> i \in 1..j \/ i = j + 1
    OBVIOUS
  <2> QED
    BY <2>1 DEF SaidUpTo
<1>3. ASSUME hs \in Seq(Headers) PROVE Said(hs) = SaidUpTo(hs, Len(hs))
  BY <1>3, HeadsAre DEF Said, SaidUpTo
<1> QED
  BY <1>1, <1>2, <1>3

LEMMA HeardMore ==
  ASSUME NEW hs \in Seq(Headers), NEW j \in Nat, j + 1 \in 1..Len(hs), NEW p, NEW q,
         LengthHeard(hs, j, p),
         q.length = IF hs[j + 1].says = "length" THEN hs[j + 1].n ELSE p.length
  PROVE  LengthHeard(hs, j + 1, q)
<1>1. SaidUpTo(hs, j + 1) = SaidUpTo(hs, j) \cup {hs[j + 1].says}
  BY SaidMore
<1>2. hs[j + 1].says = "length" => hs[j + 1].n \in Lengths(hs) /\ "length" \in Said(hs)
  BY HeardOnce
<1> QED
  BY ONLY <1>1, <1>2, LengthHeard(hs, j, p),
          q.length = IF hs[j + 1].says = "length" THEN hs[j + 1].n ELSE p.length
  DEF LengthHeard

(* A folded length is heard as another.                                    *)
LEMMA FoldHeard ==
  ASSUME NEW hs, NEW j, NEW l \in FoldsIn(hs), NEW p, NEW q, LengthHeard(hs, j, p),
         q.length = IF l.f.says = "length" THEN l.f.n ELSE p.length
  PROVE  LengthHeard(hs, j, q)
<1>1. l.f.says = "length" => l.f.n \in Lengths(hs) /\ "length" \in Said(hs)
  BY DEF FoldsIn
<1> QED
  BY ONLY <1>1, LengthHeard(hs, j, p), q.length = IF l.f.says = "length" THEN l.f.n ELSE p.length
  DEF LengthHeard

LEMMA FoldIs ==
  ASSUME NEW l \in FoldLines
  PROVE  /\ l.t = "fold" /\ l.f \in Folds /\ l.f.n \in Nat /\ l.f.text \in Text
         /\ l.f.says \in {"nothing", "length"} /\ Flags \cap {l.f.says} = {}
<1>1. l.t = "fold" /\ l.f \in Folds
  BY DEF FoldLines
<1>2. l.f.n \in Nat /\ l.f.text \in Text /\ l.f.says \in {"nothing", "length"}
  BY <1>1 DEF Folds
<1>3. Flags \cap {l.f.says} = {}
  BY <1>2 DEF Flags
<1> QED
  BY <1>1, <1>2, <1>3

(* What is heeded of a line with a header.                                 *)
LEMMA HeedIs ==
  ASSUME parser \in Parsers, NEW h, h.n \in Nat, NEW f, f = Flags \cap {h.says},
         parser' = Heed(h)
  PROVE  /\ parser' \in Parsers /\ parser'.type = parser.type /\ parser'.state = parser.state
         /\ parser'.v11 = parser.v11 /\ parser'.connect = parser.connect
         /\ parser'.bodyless = parser.bodyless /\ parser'.ok = parser.ok
         /\ parser'.flags = parser.flags \cup f
         /\ parser'.length = IF h.says = "length" THEN h.n ELSE parser.length
<1> DEFINE g == parser.flags \cup f
           l == IF h.says = "length" THEN h.n ELSE parser.length
<1>1. parser' = [parser EXCEPT !.flags = g, !.length = l]
  BY DEF Heed
<1>2. g \in SUBSET (Flags \cup {"trailing"}) /\ l \in Int
  BY DEF Parsers
<1> HIDE DEF g, l
<1>3. /\ parser' \in Parsers /\ parser'.type = parser.type /\ parser'.state = parser.state
      /\ parser'.v11 = parser.v11 /\ parser'.connect = parser.connect
      /\ parser'.bodyless = parser.bodyless /\ parser'.ok = parser.ok
      /\ parser'.flags = g /\ parser'.length = l
  BY <1>1, <1>2 DEF Parsers
<1> QED
  BY <1>3 DEF g, l

LEMMA SaidJoined ==
  ASSUME NEW s \in Sendings
  PROVE  Said(s.headers \o s.trailers) = Said(s.headers) \cup Said(s.trailers)
<1> DEFINE a == s.headers
           b == s.trailers
           c == a \o b
           H == Headers
<1>1. a \in Seq(H) /\ b \in Seq(H)
  BY MessageIs
<1> HIDE DEF a, b, H
<1>2. /\ c \in Seq(H) /\ Len(c) = Len(a) + Len(b) /\ Len(a) \in Nat /\ Len(b) \in Nat
      /\ \A i \in 1..(Len(a) + Len(b)) : c[i] = IF i <= Len(a) THEN a[i] ELSE b[i - Len(a)]
      /\ DOMAIN a = 1..Len(a) /\ DOMAIN b = 1..Len(b)
  BY <1>1, ConcatProperties, LenProperties
<1>3. DOMAIN c = 1..(Len(a) + Len(b))
  <2> HIDE DEF c
  <2> QED
    BY <1>2, LenProperties
<1> HIDE DEF c
<1>4. \A i \in 1..Len(a) : i \in DOMAIN c /\ c[i] = a[i]
  BY <1>2, <1>3
<1>5. \A i \in 1..Len(b) : Len(a) + i \in DOMAIN c /\ c[Len(a) + i] = b[i]
  <2> SUFFICES ASSUME NEW i \in 1..Len(b)
               PROVE  Len(a) + i \in DOMAIN c /\ c[Len(a) + i] = b[i]
    OBVIOUS
  <2>1. Len(a) + i \in 1..(Len(a) + Len(b)) /\ ~(Len(a) + i <= Len(a)) /\ (Len(a) + i) - Len(a) = i
    BY <1>2
  <2> QED
    BY <1>2, <1>3, <2>1
<1>6. ASSUME NEW x \in Said(c) PROVE x \in Said(a) \cup Said(b)
  <2>1. PICK i \in DOMAIN c : x = c[i].says
    BY DEF Said
  <2>2. i \in 1..(Len(a) + Len(b)) /\ c[i] = IF i <= Len(a) THEN a[i] ELSE b[i - Len(a)]
    BY <1>2, <1>3
  <2>3. CASE i <= Len(a)
    <3>1. i \in 1..Len(a)
      BY <1>2, <2>2, <2>3
    <3> QED
      BY <1>2, <2>1, <2>2, <2>3, <3>1 DEF Said
  <2>4. CASE ~(i <= Len(a))
    <3>1. i - Len(a) \in 1..Len(b)
      BY <1>2, <2>2, <2>4
    <3> QED
      BY <1>2, <2>1, <2>2, <2>4, <3>1 DEF Said
  <2> QED
    BY <2>3, <2>4
<1>7. ASSUME NEW x \in Said(a) PROVE x \in Said(c)
  BY <1>2, <1>4 DEF Said
<1>8. ASSUME NEW x \in Said(b) PROVE x \in Said(c)
  BY <1>2, <1>5 DEF Said
<1>9. Said(c) = Said(a) \cup Said(b)
  BY <1>6, <1>7, <1>8
<1> QED
  BY <1>9 DEF a, b, c

-----------------------------------------------------------------------------
(* The step stays in its message, or ends it.                              *)
LEMMA StaysInside ==
  ASSUME Framing, begun \in 1..Len(wire), UNCHANGED <<wire, begun>>,
         parser' \in Parsers, parser'.type = parser.type,
         NEW rest \in Seq(LineSet), Strayed(rest, input'),
         Inside(wire[begun], rest, parser', Later(wire, begun))
  PROVE  Framing'
<1>1. ~BetweenTwo(parser')
  BY DEF Inside, BetweenTwo
<1>2. begun > 0
  BY WireIs DEF Framing
<1>3. Placed(rest, wire', begun', parser')
  BY <1>1, <1>2 DEF Placed
<1> QED
  BY <1>3 DEF Framing

LEMMA FinishedIs ==
  ASSUME NEW p \in Parsers
  PROVE  /\ Finished(p) \in Parsers /\ Finished(p).type = p.type /\ BetweenTwo(Finished(p))
         /\ Finished(p).state = IF KeepAlive(p) THEN "start" ELSE "dead"
         /\ Finished(p).ok = p.ok
BY DEF Finished, Parsers, BetweenTwo

LEMMA EndsMessage ==
  ASSUME Framing, begun \in 1..Len(wire), UNCHANGED <<wire, begun>>,
         NEW p \in Parsers, p.type = parser.type, parser' = Finished(p),
         Strayed(Later(wire, begun), input'),
         LeavesHttp(wire[begun]) \/ (KeepAlive(p) <=> Persistent(wire[begun]))
  PROVE  Framing'
<1>1. /\ parser' \in Parsers /\ parser'.type = parser.type /\ BetweenTwo(parser')
      /\ parser'.state = IF KeepAlive(p) THEN "start" ELSE "dead"
  BY FinishedIs
<1>2. Outside(wire, begun, parser')
  <2>1. begun # 0
    BY WireIs DEF Framing
  <2> QED
    BY <1>1, <2>1 DEF Outside
<1>3. Placed(Later(wire, begun), wire', begun', parser')
  BY <1>1, <1>2 DEF Placed
<1>4. Later(wire, begun) \in Seq(LineSet)
  BY LaterIs DEF Framing
<1> QED
  BY <1>1, <1>3, <1>4 DEF Framing

(* Whether the connection is kept is what the message says of it.          *)
LEMMA KeptAsSaid ==
  ASSUME NEW s \in Sendings, NEW p \in Parsers, p.v11 = s.v11, s.frame # "eof", ~NeedsEof(p),
         Flags \cap p.flags = Flags \cap (Said(s.headers) \cup Said(s.trailers))
  PROVE  KeepAlive(p) <=> Persistent(s)
<1>1. Said(s.headers \o s.trailers) = Said(s.headers) \cup Said(s.trailers)
  BY SaidJoined
<1>2. "close" \in Flags /\ "keep-alive" \in Flags
  BY DEF Flags
<1>3. /\ "close" \in p.flags <=> "close" \in Said(s.headers) \cup Said(s.trailers)
      /\ "keep-alive" \in p.flags <=> "keep-alive" \in Said(s.headers) \cup Said(s.trailers)
  BY <1>2
<1> QED
  BY <1>1, <1>3 DEF KeepAlive, Persistent

-----------------------------------------------------------------------------
(* Line by line.                                                           *)
LEMMA HeaderLineFraming ==
  ASSUME Framing, HeaderLine
  PROVE  Framing'
<1> DEFINE h == Head(input).h
           s == wire[begun]
           z == Later(wire, begun)
<1>1. /\ input # <<>> /\ parser.state = "header" /\ Head(input).t = "header"
      /\ parser' = Heed(h) /\ input' = Tail(input) /\ wire' = wire /\ begun' = begun
  BY DEF HeaderLine, Execute, Reports
<1>2. Head(input) # Junk
  BY <1>1 DEF Junk
<1>3. begun \in 1..Len(wire) /\ s \in Sendings
  BY <1>1, <1>2, InsideLine DEF BetweenTwo
<1>4. /\ s.headers \in Seq(Headers) /\ s.trailers \in Seq(Headers)
      /\ Len(s.headers) \in Nat /\ Len(s.trailers) \in Nat
  BY <1>3, MessageIs, LenProperties
<1>5. /\ parser \in Parsers
      /\ parser.v11 = s.v11 /\ parser.connect = s.connect /\ parser.bodyless = s.bodyless
      /\ parser.type = s.kind
  BY <1>1, <1>2, InsideLine DEF BetweenTwo, Inside, Framing
<1>6. ASSUME h.n \in Nat
      PROVE  /\ parser' \in Parsers /\ parser'.type = parser.type /\ parser'.state = "header"
             /\ parser'.v11 = s.v11 /\ parser'.connect = s.connect /\ parser'.bodyless = s.bodyless
             /\ parser'.type = s.kind
             /\ parser'.flags = parser.flags \cup (Flags \cap {h.says})
             /\ parser'.length = IF h.says = "length" THEN h.n ELSE parser.length
  <2> HIDE DEF s, h
  <2> QED
    BY <1>1, <1>5, <1>6, HeedIs
<1>7. ASSUME NEW hs \in Seq(Headers), NEW j \in 0..Len(hs), j < Len(hs),
             Head(input) = [t |-> "header", h |-> hs[j + 1]]
      PROVE  /\ j + 1 \in 0..Len(hs) /\ h = hs[j + 1] /\ j \in Nat
             /\ h.n \in Nat /\ h.says \in Flags \cup {"nothing", "length"}
  <2>1. j + 1 \in 1..Len(hs) /\ j + 1 \in 0..Len(hs) /\ j \in Nat
    BY <1>7, LenProperties
  <2>2. hs[j + 1] \in Headers
    BY <2>1, ElementOfSeq
  <2>3. h = hs[j + 1]
    BY <1>7
  <2> QED
    BY <2>1, <2>2, <2>3, HeaderIs
<1>8. CASE \E j \in 0..Len(s.headers) :
             /\ parser.flags = Flags \cap SaidUpTo(s.headers, j)
             /\ LengthHeard(s.headers, j, parser)
             /\ j < Len(s.headers) /\ Head(input) = [t |-> "header", h |-> s.headers[j + 1]]
             /\ \E rest \in Seq(LineSet) :
                  /\ Strayed(rest, Tail(input))
                  /\ InSection(s.headers, "headers", j + 1, rest, BodyLines(s) \o z)
  <2>1. PICK j \in 0..Len(s.headers), rest \in Seq(LineSet) :
             /\ parser.flags = Flags \cap SaidUpTo(s.headers, j)
             /\ LengthHeard(s.headers, j, parser)
             /\ j < Len(s.headers) /\ Head(input) = [t |-> "header", h |-> s.headers[j + 1]]
             /\ Strayed(rest, Tail(input))
             /\ InSection(s.headers, "headers", j + 1, rest, BodyLines(s) \o z)
    BY <1>8
  <2>2. /\ j + 1 \in 0..Len(s.headers) /\ h = s.headers[j + 1] /\ j \in Nat
        /\ h.n \in Nat /\ h.says \in Flags \cup {"nothing", "length"}
    <3> HIDE DEF s, h
    <3> QED
      BY <1>4, <1>7, <2>1
  <2>3. parser'.flags = Flags \cap SaidUpTo(s.headers, j + 1)
    <3>1. SaidUpTo(s.headers, j + 1) = SaidUpTo(s.headers, j) \cup {h.says}
      <4> DEFINE hs == s.headers
      <4>1. h = hs[j + 1] /\ j \in Nat
        BY <2>2
      <4> HIDE DEF hs, h
      <4>2. SaidUpTo(hs, j + 1) = SaidUpTo(hs, j) \cup {hs[j + 1].says}
        BY ONLY <4>1, SaidMore
      <4> QED
        BY <4>1, <4>2 DEF hs
    <3>2. parser'.flags = parser.flags \cup (Flags \cap {h.says})
      BY <1>6, <2>2
    <3> QED
      BY ONLY <2>1, <3>1, <3>2
  <2>4. LengthHeard(s.headers, j + 1, parser')
    <3>1. j + 1 \in 1..Len(s.headers)
      BY <1>4, <2>1, <2>2
    <3>2. parser'.length = IF s.headers[j + 1].says = "length" THEN s.headers[j + 1].n ELSE parser.length
      BY <1>6, <2>2
    <3> HIDE DEF s
    <3> QED
      BY ONLY <1>4, <2>1, <2>2, <3>1, <3>2, HeardMore
  <2>5. AtHeaders(s, rest, parser', z)
    BY <2>1, <2>2, <2>3, <2>4 DEF AtHeaders
  <2>6. Inside(s, rest, parser', z)
    BY <1>6, <2>2, <2>5 DEF Inside
  <2> QED
    BY <1>1, <1>3, <1>6, <2>1, <2>2, <2>6, StaysInside
<1>9. CASE \E j \in 0..Len(s.trailers) :
             /\ s.frame = "chunked" /\ ~LeavesHttp(s)
             /\ parser.flags = {"trailing"}
                  \cup (Flags \cap (Said(s.headers) \cup SaidUpTo(s.trailers, j)))
             /\ j < Len(s.trailers) /\ Head(input) = [t |-> "header", h |-> s.trailers[j + 1]]
             /\ \E rest \in Seq(LineSet) :
                  /\ Strayed(rest, Tail(input))
                  /\ InSection(s.trailers, "trailers", j + 1, rest, z)
  <2>1. PICK j \in 0..Len(s.trailers), rest \in Seq(LineSet) :
             /\ parser.flags = {"trailing"}
                  \cup (Flags \cap (Said(s.headers) \cup SaidUpTo(s.trailers, j)))
             /\ j < Len(s.trailers) /\ Head(input) = [t |-> "header", h |-> s.trailers[j + 1]]
             /\ Strayed(rest, Tail(input))
             /\ InSection(s.trailers, "trailers", j + 1, rest, z)
    BY <1>9
  <2>2. /\ j + 1 \in 0..Len(s.trailers) /\ h = s.trailers[j + 1] /\ j \in Nat
        /\ h.n \in Nat /\ h.says \in Flags \cup {"nothing", "length"}
    <3> HIDE DEF s, h
    <3> QED
      BY <1>4, <1>7, <2>1
  <2>3. parser'.flags = {"trailing"}
          \cup (Flags \cap (Said(s.headers) \cup SaidUpTo(s.trailers, j + 1)))
    <3>1. SaidUpTo(s.trailers, j + 1) = SaidUpTo(s.trailers, j) \cup {h.says}
      <4> DEFINE hs == s.trailers
      <4>1. h = hs[j + 1] /\ j \in Nat
        BY <2>2
      <4> HIDE DEF hs, h
      <4>2. SaidUpTo(hs, j + 1) = SaidUpTo(hs, j) \cup {hs[j + 1].says}
        BY ONLY <4>1, SaidMore
      <4> QED
        BY <4>1, <4>2 DEF hs
    <3>2. parser'.flags = parser.flags \cup (Flags \cap {h.says})
      BY <1>6, <2>2
    <3> QED
      BY ONLY <2>1, <3>1, <3>2
  <2>5. AtTrailers(s, rest, parser', z)
    BY <1>9, <2>1, <2>2, <2>3 DEF AtTrailers
  <2>6. Inside(s, rest, parser', z)
    BY <1>6, <1>9, <2>2, <2>5 DEF Inside
  <2> QED
    BY <1>1, <1>3, <1>6, <2>1, <2>2, <2>6, StaysInside
<1>10. /\ Head(input) \notin FoldsIn(s.headers) /\ Head(input) \notin FoldsIn(s.trailers)
       /\ Head(input) # Empty("headers") /\ Head(input) # Empty("trailers")
  BY <1>1 DEF Empty, FoldsIn, FoldLines
<1> HIDE DEF s, z, h
<1> QED
  BY <1>1, <1>2, <1>8, <1>9, <1>10, HeaderNext DEF s, z

LEMMA FoldedLineFraming ==
  ASSUME Framing, FoldedLine
  PROVE  Framing'
<1> DEFINE l == Head(input)
           s == wire[begun]
           z == Later(wire, begun)
<1>1. /\ input # <<>> /\ parser.state = "header" /\ l.t = "fold"
      /\ parser' = Heed(l.f) /\ input' = Tail(input) /\ wire' = wire /\ begun' = begun
  BY DEF FoldedLine, Execute, Reports
<1>2. l # Junk /\ ~BetweenTwo(parser)
  BY <1>1 DEF Junk, BetweenTwo
<1>3. begun \in 1..Len(wire)
  BY <1>1, <1>2, InsideLine
<1>5. /\ parser \in Parsers
      /\ parser.v11 = s.v11 /\ parser.connect = s.connect /\ parser.bodyless = s.bodyless
      /\ parser.type = s.kind
  BY <1>1, <1>2, InsideLine DEF Inside, Framing
<1>6. ASSUME l \in FoldLines
      PROVE  /\ parser' \in Parsers /\ parser'.type = parser.type /\ parser'.state = "header"
             /\ parser'.v11 = s.v11 /\ parser'.connect = s.connect /\ parser'.bodyless = s.bodyless
             /\ parser'.type = s.kind /\ parser'.flags = parser.flags
             /\ parser'.length = IF l.f.says = "length" THEN l.f.n ELSE parser.length
  <2>1. l.f.n \in Nat /\ Flags \cap {l.f.says} = {}
    BY <1>6, FoldIs
  <2>2. parser.flags \cup {} = parser.flags
    OBVIOUS
  <2> HIDE DEF s, l
  <2> QED
    BY <1>1, <1>5, <2>1, <2>2, HeedIs
<1>7. ASSUME l \in FoldLines, NEW rest \in Seq(LineSet), Strayed(rest, Tail(input)),
             AtHeaders(s, rest, parser', z) \/ (AtTrailers(s, rest, parser', z) /\ ~LeavesHttp(s))
      PROVE  Framing'
  <2>1. Inside(s, rest, parser', z)
    BY <1>6, <1>7 DEF Inside
  <2> QED
    BY <1>1, <1>3, <1>6, <1>7, <2>1, StaysInside
<1>8. l # Empty("headers") /\ l # Empty("trailers") /\ \A x : l # [t |-> "header", h |-> x]
  BY <1>1 DEF Empty
<1> HIDE DEF s, z, l
<1>9. CASE \E j \in 0..Len(s.headers) :
             /\ parser.flags = Flags \cap SaidUpTo(s.headers, j)
             /\ LengthHeard(s.headers, j, parser)
             /\ \E rest \in Seq(LineSet) :
                  /\ Strayed(rest, Tail(input))
                  /\ l \in FoldsIn(s.headers)
                  /\ InSection(s.headers, "headers", j, rest, BodyLines(s) \o z)
  <2>1. PICK j \in 0..Len(s.headers), rest \in Seq(LineSet) :
             /\ parser.flags = Flags \cap SaidUpTo(s.headers, j)
             /\ LengthHeard(s.headers, j, parser)
             /\ Strayed(rest, Tail(input))
             /\ l \in FoldsIn(s.headers)
             /\ InSection(s.headers, "headers", j, rest, BodyLines(s) \o z)
    BY <1>9
  <2>2. l \in FoldLines
    BY <2>1 DEF FoldsIn
  <2>3. LengthHeard(s.headers, j, parser')
    BY <1>6, <2>1, <2>2, FoldHeard
  <2>4. AtHeaders(s, rest, parser', z)
    BY <1>6, <2>1, <2>2, <2>3 DEF AtHeaders
  <2> QED
    BY <1>7, <2>1, <2>2, <2>4
<1>10. CASE /\ s.frame = "chunked" /\ ~LeavesHttp(s)
            /\ \E j \in 0..Len(s.trailers) :
                 /\ parser.flags = {"trailing"}
                      \cup (Flags \cap (Said(s.headers) \cup SaidUpTo(s.trailers, j)))
                 /\ \E rest \in Seq(LineSet) :
                      /\ Strayed(rest, Tail(input))
                      /\ l \in FoldsIn(s.trailers)
                      /\ InSection(s.trailers, "trailers", j, rest, z)
  <2>1. PICK j \in 0..Len(s.trailers), rest \in Seq(LineSet) :
             /\ parser.flags = {"trailing"}
                  \cup (Flags \cap (Said(s.headers) \cup SaidUpTo(s.trailers, j)))
             /\ Strayed(rest, Tail(input))
             /\ l \in FoldsIn(s.trailers)
             /\ InSection(s.trailers, "trailers", j, rest, z)
    BY <1>10
  <2>2. l \in FoldLines
    BY <2>1 DEF FoldsIn
  <2>3. AtTrailers(s, rest, parser', z)
    BY <1>6, <1>10, <2>1, <2>2 DEF AtTrailers
  <2> QED
    BY <1>7, <1>10, <2>1, <2>2, <2>3
<1> QED
  BY <1>1, <1>2, <1>8, <1>9, <1>10, HeaderNext DEF s, z, l

-----------------------------------------------------------------------------
(* At the empty line after the headers the parser knows how the message    *)
(* is framed.                                                              *)
LEMMA HeadersOver ==
  ASSUME Framing, parser.state = "header", input # <<>>, Head(input).t = "empty",
         "trailing" \notin parser.flags
  PROVE  LET s == wire[begun]
             z == Later(wire, begun)
         IN  /\ begun \in 1..Len(wire) /\ s \in Sendings /\ Framed(s) /\ wire \in Wires
             /\ parser \in Parsers /\ HeadersHeard(s, parser)
             /\ LengthHeard(s.headers, Len(s.headers), parser)
             /\ parser.v11 = s.v11 /\ parser.connect = s.connect
             /\ parser.bodyless = s.bodyless /\ parser.type = s.kind
             /\ z \in Seq(LineSet) /\ BodyLines(s) \o z \in Seq(LineSet)
             /\ Strayed(BodyLines(s) \o z, Tail(input))
<1> DEFINE s == wire[begun]
           z == Later(wire, begun)
<1>1. Head(input) # Junk /\ (\A hs : Head(input) \notin FoldsIn(hs)) /\ ~BetweenTwo(parser)
      /\ \A x : Head(input) # [t |-> "header", h |-> x]
  BY DEF Junk, BetweenTwo, FoldsIn, FoldLines
<1>2. /\ begun \in 1..Len(wire) /\ s \in Sendings /\ Framed(s) /\ wire \in Wires
      /\ z \in Seq(LineSet)
      /\ parser.v11 = s.v11 /\ parser.connect = s.connect
      /\ parser.bodyless = s.bodyless /\ parser.type = s.kind
  BY <1>1, InsideLine DEF Inside
<1>3. parser \in Parsers
  BY DEF Framing
<1>4. BodyLines(s) \in Seq(LineSet) /\ s.headers \in Seq(Headers)
  BY <1>2, BodyIs, MessageIs
<1> HIDE DEF s, z
<1>5. BodyLines(s) \o z \in Seq(LineSet)
  BY ONLY <1>2, <1>4, HeadJoined
<1>6. \E j \in 0..Len(s.headers) :
        /\ parser.flags = Flags \cap SaidUpTo(s.headers, j) /\ LengthHeard(s.headers, j, parser)
        /\ j = Len(s.headers) /\ Strayed(BodyLines(s) \o z, Tail(input))
  BY <1>1, HeaderNext DEF s, z
<1>7. Said(s.headers) = SaidUpTo(s.headers, Len(s.headers))
  BY <1>4, SaidMore
<1>8. HeadersHeard(s, parser)
  BY <1>6, <1>7 DEF HeadersHeard
<1> QED
  BY <1>2, <1>3, <1>5, <1>6, <1>8 DEF s, z

LEMMA TrailersOver ==
  ASSUME Framing, parser.state = "header", input # <<>>, Head(input).t = "empty",
         "trailing" \in parser.flags
  PROVE  LET s == wire[begun]
         IN  /\ begun \in 1..Len(wire) /\ s \in Sendings /\ Framed(s)
             /\ parser \in Parsers /\ parser.v11 = s.v11
             /\ s.frame = "chunked" /\ ~LeavesHttp(s)
             /\ parser.flags = {"trailing"} \cup (Flags \cap (Said(s.headers) \cup Said(s.trailers)))
             /\ Strayed(Later(wire, begun), Tail(input))
<1> DEFINE s == wire[begun]
           z == Later(wire, begun)
<1>1. Head(input) # Junk /\ (\A hs : Head(input) \notin FoldsIn(hs)) /\ ~BetweenTwo(parser)
      /\ \A x : Head(input) # [t |-> "header", h |-> x]
  BY DEF Junk, BetweenTwo, FoldsIn, FoldLines
<1>2. /\ begun \in 1..Len(wire) /\ s \in Sendings /\ Framed(s) /\ parser.v11 = s.v11
  BY <1>1, InsideLine DEF Inside
<1>3. parser \in Parsers /\ "trailing" \notin Flags
  BY DEF Framing, Flags
<1>4. s.trailers \in Seq(Headers)
  BY <1>2, MessageIs
<1> HIDE DEF s, z
<1>5. /\ s.frame = "chunked" /\ ~LeavesHttp(s)
      /\ \E j \in 0..Len(s.trailers) :
           /\ parser.flags = {"trailing"}
                \cup (Flags \cap (Said(s.headers) \cup SaidUpTo(s.trailers, j)))
           /\ j = Len(s.trailers) /\ Strayed(z, Tail(input))
  BY <1>1, <1>3, HeaderNext DEF s, z
<1>6. Said(s.trailers) = SaidUpTo(s.trailers, Len(s.trailers))
  BY <1>4, SaidMore
<1> QED
  BY <1>2, <1>3, <1>5, <1>6 DEF s, z

(* What its headers say of the body of a message that stays with HTTP.     *)
LEMMA HowFramed ==
  ASSUME NEW s \in Sendings, Framed(s), ~LeavesHttp(s), ~Announces(s),
         NEW p, HeadersHeard(s, p), LengthHeard(s.headers, Len(s.headers), p)
  PROVE  /\ "chunked" \in p.flags <=> s.frame = "chunked"
         /\ s.frame = "length" => p.length = Len(FlattenSeq(s.chunks))
         /\ s.frame \in {"none", "eof"} => p.length = Unknown
         /\ s.frame = "eof" => s.kind = "status" /\ ~s.bodyless
         /\ s.frame = "none" => s.kind = "url" \/ s.bodyless
<1>1. s.headers \in Seq(Headers)
  BY MessageIs
<1>2. Said(s.headers) = SaidUpTo(s.headers, Len(s.headers))
  BY <1>1, SaidMore
<1>3. "chunked" \in Flags
  BY DEF Flags
<1>4. /\ "chunked" \in Said(s.headers) <=> s.frame = "chunked"
      /\ s.frame = "length" => "length" \in Said(s.headers)
      /\ s.frame \in {"none", "eof"} => "length" \notin Said(s.headers)
      /\ s.frame = "length" => Lengths(s.headers) = {Len(FlattenSeq(s.chunks))}
      /\ s.frame = "eof" => s.kind = "status" /\ ~s.bodyless
      /\ s.frame = "none" => s.kind = "url" \/ s.bodyless
  BY DEF Framed
<1>5. \/ p.length = Unknown /\ "length" \notin Said(s.headers)
      \/ p.length \in Lengths(s.headers) /\ "length" \in Said(s.headers)
  BY <1>2 DEF LengthHeard
<1>7. "chunked" \in p.flags <=> "chunked" \in Said(s.headers)
  BY <1>3 DEF HeadersHeard
<1> QED
  BY <1>4, <1>5, <1>7

(* After the headers that announce a body which does not come.             *)
LEMMA HowAnnounced ==
  ASSUME NEW s \in Sendings, Framed(s), ~LeavesHttp(s), Announces(s),
         NEW p, HeadersHeard(s, p), LengthHeard(s.headers, Len(s.headers), p)
  PROVE  "chunked" \in p.flags \/ p.length \notin {0, Unknown}
<1>1. s.headers \in Seq(Headers)
  BY MessageIs
<1>2. Said(s.headers) = SaidUpTo(s.headers, Len(s.headers))
  BY <1>1, SaidMore
<1>3. "chunked" \in Flags
  BY DEF Flags
<1>4. 0 \notin Lengths(s.headers)
  BY DEF Framed
<1>5. \/ p.length = Unknown /\ "length" \notin Said(s.headers)
      \/ p.length \in Lengths(s.headers) /\ "length" \in Said(s.headers)
  BY <1>2 DEF LengthHeard
<1>6. Lengths(s.headers) \subseteq Nat
  BY <1>1, LengthsAre
<1>7. "chunked" \in p.flags <=> "chunked" \in Said(s.headers)
  BY <1>3 DEF HeadersHeard
<1>8. "chunked" \in Said(s.headers) \/ "length" \in Said(s.headers)
  BY DEF Announces
<1>9. Unknown \notin Nat
  BY DEF Unknown
<1> QED
  BY <1>4, <1>5, <1>6, <1>7, <1>8, <1>9

(* The bytes of a body and its chunks.                                     *)
LEMMA BodyCounts ==
  ASSUME NEW s \in Sendings, Framed(s), NEW j \in 0..Len(s.chunks)
  PROVE  /\ Len(s.chunks) \in Nat /\ Flat(s.chunks, 0) = FlattenSeq(s.chunks)
         /\ Len(Flat(s.chunks, j)) \in Nat
         /\ j = Len(s.chunks) => Len(Flat(s.chunks, j)) = 0
         /\ j < Len(s.chunks) =>
              /\ Len(s.chunks[j + 1]) \in Nat \ {0}
              /\ Len(Flat(s.chunks, j)) = Len(s.chunks[j + 1]) + Len(Flat(s.chunks, j + 1))
              /\ Len(Flat(s.chunks, j + 1)) \in Nat
<1> DEFINE c == s.chunks
           e == c[j + 1]
           f == Flat(c, j)
           g == Flat(c, j + 1)
<1>1. /\ Len(c) \in Nat /\ c \in Seq(Seq(Char)) /\ DOMAIN c = 1..Len(c)
      /\ \A i \in DOMAIN c : c[i] # <<>>
  BY ChunksAre DEF Framed
<1> HIDE DEF c
<1>2. j \in 0..Len(c)
  BY DEF c
<1>3. /\ f \in Seq(Char) /\ Flat(c, 0) = FlattenSeq(c)
      /\ j = Len(c) => f = <<>>
      /\ j < Len(c) => e \in Seq(Char) /\ f = e \o g
  BY ONLY <1>1, <1>2, FlatStep DEF e, f, g
<1>4. ASSUME j < Len(c) PROVE e # <<>> /\ g \in Seq(Char)
  <2>1. j + 1 \in 0..Len(c) /\ j + 1 \in 1..Len(c)
    BY <1>1, <1>2, <1>4
  <2> QED
    BY ONLY <1>1, <2>1, FlatStep DEF e, g
<1> HIDE DEF e, f, g
<1>5. ASSUME j < Len(c) PROVE Len(e) \in Nat \ {0} /\ Len(g) \in Nat /\ Len(f) = Len(e) + Len(g)
  <2>1. e \in Seq(Char) /\ e # <<>> /\ g \in Seq(Char) /\ f = e \o g
    BY <1>3, <1>4, <1>5
  <2> QED
    BY ONLY <2>1, ConcatProperties, LenProperties, EmptySeq
<1>6. Len(f) \in Nat /\ (f = <<>> => Len(f) = 0)
  BY ONLY <1>3, LenProperties, EmptySeq
<1> QED
  BY <1>1, <1>3, <1>5, <1>6 DEF c, e, f, g

LEMMA WithoutBodyFraming ==
  ASSUME Framing, WithoutBody
  PROVE  Framing'
<1> DEFINE s == wire[begun]
           z == Later(wire, begun)
           p == parser
<1>1. /\ input # <<>> /\ p.state = "header" /\ Head(input).t = "empty"
      /\ "trailing" \notin p.flags /\ ~Upgraded /\ HasNoBody
      /\ parser' = Finished(p) /\ input' = Tail(input) /\ wire' = wire /\ begun' = begun
  BY DEF WithoutBody, HeadersEnd, Execute, Reports
<1>2. /\ begun \in 1..Len(wire) /\ s \in Sendings /\ Framed(s) /\ p \in Parsers
      /\ HeadersHeard(s, p) /\ LengthHeard(s.headers, Len(s.headers), p)
      /\ p.v11 = s.v11 /\ p.connect = s.connect /\ p.bodyless = s.bodyless /\ p.type = s.kind
      /\ z \in Seq(LineSet) /\ Strayed(BodyLines(s) \o z, Tail(input))
  BY <1>1, HeadersOver
<1> HIDE DEF s, z
<1>3. ~LeavesHttp(s)
  BY <1>1, <1>2 DEF Upgraded, LeavesHttp, HeadersHeard, Flags
<1>11. ~Announces(s)
  <2>1. Announces(s) => "chunked" \in p.flags \/ p.length \notin {0, Unknown}
    BY <1>2, <1>3, HowAnnounced
  <2> QED
    BY <1>1, <2>1 DEF HasNoBody
<1>4. /\ "chunked" \in p.flags <=> s.frame = "chunked"
      /\ s.frame = "length" => p.length = Len(FlattenSeq(s.chunks))
      /\ s.frame \in {"none", "eof"} => p.length = Unknown
      /\ s.frame = "eof" => s.kind = "status" /\ ~s.bodyless
      /\ s.frame = "none" => s.kind = "url" \/ s.bodyless
  BY <1>2, <1>3, <1>11, HowFramed
<1>5. Len(s.chunks) \in Nat /\ Flat(s.chunks, 0) = FlattenSeq(s.chunks)
      /\ Len(Flat(s.chunks, 0)) \in Nat
      /\ (0 < Len(s.chunks) => Len(s.chunks[0 + 1]) \in Nat \ {0}
            /\ Len(Flat(s.chunks, 0)) = Len(s.chunks[0 + 1]) + Len(Flat(s.chunks, 0 + 1))
            /\ Len(Flat(s.chunks, 0 + 1)) \in Nat)
  <2>1. Len(s.chunks) \in Nat
    BY <1>2, ChunksAre
  <2>2. 0 \in 0..Len(s.chunks)
    BY <2>1
  <2> QED
    BY <1>2, <2>2, BodyCounts
<1>6. /\ BodyLines(s) \in Seq(LineSet)
      /\ s.frame = "none" => BodyLines(s) = <<>>
      /\ s.frame \in {"length", "eof"} => BodyLines(s) = DataLines(s)
      /\ s.frame \in {"none", "length", "chunked", "eof"}
      /\ DataLines(s) \in Seq(LineSet) /\ Len(DataLines(s)) = Len(s.chunks)
  BY <1>2, BodyIs, ChunksAre
<1>7. s.frame # "eof" /\ s.frame # "chunked"
  BY <1>1, <1>2, <1>4 DEF HasNoBody, NeedsEof, Unknown
<1>8. BodyLines(s) = <<>> /\ ~NeedsEof(p)
  <2>1. CASE s.frame = "none"
    BY <1>2, <1>4, <1>6, <2>1 DEF NeedsEof
  <2>2. CASE s.frame = "length"
    <3>1. p.length = Len(Flat(s.chunks, 0)) /\ p.length # Unknown
      BY <1>4, <1>5, <2>2 DEF Unknown
    <3>2. p.length = 0
      BY <1>1, <3>1 DEF HasNoBody
    <3>3. Len(s.chunks) = 0
      <4> DEFINE n == Len(s.chunks)
                 a == Len(s.chunks[0 + 1])
                 b == Len(Flat(s.chunks, 0 + 1))
      <4>1. n \in Nat /\ (0 < n => a \in Nat \ {0} /\ b \in Nat /\ 0 = a + b)
        BY ONLY <1>5, <3>1, <3>2
      <4> HIDE DEF n, a, b
      <4>2. n = 0
        BY ONLY <4>1
      <4> QED
        BY <4>2 DEF n
    <3>4. DataLines(s) = <<>>
      BY <1>6, <3>3, EmptySeq
    <3> QED
      BY <1>6, <2>2, <3>1, <3>4 DEF NeedsEof
  <2> QED
    BY <1>6, <1>7, <2>1, <2>2
<1>9. Strayed(z, Tail(input))
  <2>1. <<>> \o z = z
    BY ONLY <1>2, HeadJoined
  <2> QED
    BY <1>2, <1>8, <2>1
<1>10. KeepAlive(p) <=> Persistent(s)
  <2>1. s.trailers = <<>>
    BY <1>2, <1>7 DEF Framed
  <2>2. Said(s.trailers) = {}
    BY <2>1 DEF Said
  <2>3. Flags \cap p.flags = Flags \cap (Said(s.headers) \cup Said(s.trailers))
    BY <1>2, <2>2 DEF HeadersHeard
  <2> QED
    BY <1>2, <1>7, <1>8, <2>3, KeptAsSaid
<1> HIDE DEF p
<1> QED
  BY <1>1, <1>2, <1>9, <1>10, EndsMessage DEF s, z, p

LEMMA WithBodyFraming ==
  ASSUME Framing, WithBody
  PROVE  Framing'
<1> DEFINE s == wire[begun]
           z == Later(wire, begun)
           p == parser
           rest == BodyLines(s) \o z
<1>1. /\ input # <<>> /\ p.state = "header" /\ Head(input).t = "empty"
      /\ "trailing" \notin p.flags /\ ~Upgraded /\ ~HasNoBody
      /\ parser' = [p EXCEPT !.state = IF "chunked" \in p.flags THEN "size"
                                       ELSE IF p.length # Unknown THEN "body" ELSE "eof"]
      /\ input' = Tail(input) /\ wire' = wire /\ begun' = begun
  BY DEF WithBody, HeadersEnd, Execute, Reports
<1>2. /\ begun \in 1..Len(wire) /\ s \in Sendings /\ Framed(s) /\ p \in Parsers
      /\ HeadersHeard(s, p) /\ LengthHeard(s.headers, Len(s.headers), p)
      /\ p.v11 = s.v11 /\ p.connect = s.connect /\ p.bodyless = s.bodyless /\ p.type = s.kind
      /\ z \in Seq(LineSet) /\ rest \in Seq(LineSet) /\ Strayed(rest, Tail(input))
  BY <1>1, HeadersOver
<1> HIDE DEF s, z
<1>3. ~LeavesHttp(s)
  BY <1>1, <1>2 DEF Upgraded, LeavesHttp, HeadersHeard, Flags
<1>4. ~Announces(s) =>
        /\ "chunked" \in p.flags <=> s.frame = "chunked"
        /\ s.frame = "length" => p.length = Len(FlattenSeq(s.chunks))
        /\ s.frame \in {"none", "eof"} => p.length = Unknown
        /\ s.frame = "eof" => s.kind = "status" /\ ~s.bodyless
        /\ s.frame = "none" => s.kind = "url" \/ s.bodyless
  BY <1>2, <1>3, HowFramed
<1>5. /\ parser' \in Parsers /\ parser'.flags = p.flags /\ parser'.length = p.length
      /\ parser'.v11 = s.v11 /\ parser'.connect = s.connect /\ parser'.bodyless = s.bodyless
      /\ parser'.type = s.kind /\ parser'.type = p.type
      /\ parser'.state = IF "chunked" \in p.flags THEN "size"
                         ELSE IF p.length # Unknown THEN "body" ELSE "eof"
  BY <1>1, <1>2 DEF Parsers
<1>6. HeadersHeard(s, parser')
  BY <1>2, <1>5 DEF HeadersHeard
<1>7. /\ s.frame \in {"length", "eof"} => BodyLines(s) = DataLines(s)
      /\ s.frame = "chunked" =>
           BodyLines(s) = Flat(ChunkLines(s), 0) \o << [t |-> "size", n |-> 0] >>
                          \o Section(s.trailers, "trailers")
      /\ s.frame \in {"none", "length", "chunked", "eof"}
  BY <1>2, BodyIs
<1>8. /\ Len(s.chunks) \in Nat /\ DataLines(s) \in Seq(LineSet)
      /\ ChunkLines(s) \in Seq(Seq(LineSet)) /\ Len(ChunkLines(s)) = Len(s.chunks)
      /\ Len(DataLines(s)) = Len(s.chunks)
  BY <1>2, ChunksAre
<1>9. 0 \in 0..Len(s.chunks)
  BY <1>8
<1>10. From(DataLines(s), 0) = DataLines(s)
  <2> DEFINE d == DataLines(s)
  <2>1. d \in Seq(LineSet) /\ 0 \in 0..Len(d)
    BY <1>8, <1>9
  <2> HIDE DEF d
  <2> QED
    BY ONLY <2>1, FromStep DEF d
<1>11. Inside(s, rest, parser', z)
  <2>0. CASE Announces(s)
    <3>1. parser'.state \in {"size", "body"}
      <4>1. "chunked" \in p.flags \/ p.length \notin {0, Unknown}
        BY <1>2, <1>3, <2>0, HowAnnounced
      <4> QED
        BY ONLY <1>5, <4>1
    <3>2. rest = <<>>
      <4>1. BodyLines(s) = <<>>
        BY <1>2, <2>0, BodyIs DEF Announces
      <4>2. z = <<>>
        <5>1. wire \in Wires /\ begun \in 1..Len(wire) /\ Announces(wire[begun])
          BY <1>2, <2>0 DEF s, Framing
        <5>2. begun = Len(wire)
          BY <5>1, WireIs
        <5> QED
          BY <5>1, <5>2, LaterIs DEF z
      <4> QED
        BY ONLY <4>1, <4>2, EmptySeq, HeadJoined
    <3> HIDE DEF rest, p
    <3> QED
      BY <1>5, <2>0, <3>1, <3>2 DEF Inside
  <2>1. CASE s.frame = "chunked" /\ ~Announces(s)
    <3>1. rest = Flat(ChunkLines(s), 0) \o LastChunk(s, z)
      <4> DEFINE f == Flat(ChunkLines(s), 0)
                 c == << [t |-> "size", n |-> 0] >>
                 t == Section(s.trailers, "trailers")
                 L == LineSet
      <4>1. c \in Seq(L) /\ t \in Seq(L) /\ z \in Seq(L)
        <5>1. [t |-> "size", n |-> 0] \in LineSet /\ s.trailers \in Seq(Headers)
          BY <1>2, LineKinds, MessageIs
        <5> QED
          BY <1>2, <5>1, HeadsAre
      <4>2. f \in Seq(L)
        <5>1. 0 \in 0..Len(ChunkLines(s))
          BY <1>8, <1>9
        <5> QED
          BY ONLY <1>8, <5>1, FlatStep
      <4>3. rest = ((f \o c) \o t) \o z /\ LastChunk(s, z) = c \o (t \o z)
        BY <1>7, <2>1 DEF LastChunk
      <4> HIDE DEF f, c, t, L, rest
      <4> DEFINE fc == f \o c
                 tz == t \o z
      <4>4. fc \in Seq(L) /\ tz \in Seq(L)
        BY ONLY <4>1, <4>2, HeadJoined
      <4>5. (fc \o t) \o z = fc \o (t \o z)
        <5> HIDE DEF fc
        <5> QED
          BY ONLY <4>1, <4>4, ConcatAssociative, SMTT(60)
      <4>6. (f \o c) \o tz = f \o (c \o tz)
        <5> HIDE DEF tz
        <5> QED
          BY ONLY <4>1, <4>2, <4>4, ConcatAssociative, SMTT(60)
      <4> QED
        BY ONLY <4>3, <4>5, <4>6 DEF f
    <3>2. AtSize(s, rest, parser', z)
      <4> HIDE DEF rest
      <4> QED
        BY <1>6, <1>9, <2>1, <3>1 DEF AtSize
    <3>3. parser'.state = "size"
      <4>1. "chunked" \in p.flags
        BY <1>4, <2>1
      <4> QED
        BY ONLY <1>5, <4>1
    <3> HIDE DEF rest, p
    <3> QED
      BY <1>3, <1>5, <3>2, <3>3 DEF Inside
  <2>2. CASE s.frame = "length" /\ ~Announces(s)
    <3>1. /\ Flat(s.chunks, 0) = FlattenSeq(s.chunks) /\ Len(Flat(s.chunks, 0)) \in Nat
          /\ 0 = Len(s.chunks) => Len(Flat(s.chunks, 0)) = 0
      BY <1>2, <1>9, BodyCounts
    <3>2. p.length = Len(Flat(s.chunks, 0)) /\ p.length # Unknown
      BY <1>4, <2>2, <3>1 DEF Unknown
    <3>3. p.length # 0
      BY <1>1, <1>4, <2>2, <3>2 DEF HasNoBody
    <3>4. 0 \in 0..(Len(s.chunks) - 1)
      BY <1>8, <3>1, <3>2, <3>3
    <3>5. rest = From(DataLines(s), 0) \o z
      BY <1>7, <1>10, <2>2
    <3>6. parser'.state = "body"
      BY <1>4, <1>5, <2>2, <3>2
    <3>7. AtBody(s, rest, parser', z)
      <4> HIDE DEF rest
      <4> QED
        BY <1>5, <1>6, <2>2, <3>2, <3>4, <3>5 DEF AtBody
    <3> HIDE DEF rest, p
    <3> QED
      BY <1>3, <1>5, <3>6, <3>7 DEF Inside
  <2>3. CASE s.frame = "eof" /\ ~Announces(s)
    <3>1. parser'.state = "eof"
      BY <1>4, <1>5, <2>3
    <3>2. rest = From(DataLines(s), 0) \o z
      BY <1>7, <1>10, <2>3
    <3>3. AtEof(s, rest, parser', z)
      <4> HIDE DEF rest
      <4> QED
        BY <1>6, <1>9, <2>3, <3>2 DEF AtEof
    <3> HIDE DEF rest, p
    <3> QED
      BY <1>3, <1>5, <3>1, <3>3 DEF Inside
  <2>4. ~Announces(s) => s.frame # "none"
    BY <1>1, <1>2, <1>4 DEF HasNoBody, NeedsEof
  <2> QED
    BY <1>7, <2>0, <2>1, <2>2, <2>3, <2>4
<1> HIDE DEF rest, p
<1> QED
  BY <1>1, <1>2, <1>5, <1>11, StaysInside DEF s, z, p

LEMMA TrailersEndFraming ==
  ASSUME Framing, TrailersEnd
  PROVE  Framing'
<1> DEFINE s == wire[begun]
           z == Later(wire, begun)
           p == parser
<1>1. /\ input # <<>> /\ p.state = "header" /\ Head(input).t = "empty" /\ "trailing" \in p.flags
      /\ parser' = Finished(p) /\ input' = Tail(input) /\ wire' = wire /\ begun' = begun
  BY DEF TrailersEnd, Execute, Reports
<1>2. /\ begun \in 1..Len(wire) /\ s \in Sendings /\ Framed(s) /\ p \in Parsers /\ p.v11 = s.v11
      /\ s.frame = "chunked" /\ ~LeavesHttp(s)
      /\ p.flags = {"trailing"} \cup (Flags \cap (Said(s.headers) \cup Said(s.trailers)))
      /\ Strayed(z, Tail(input))
  BY <1>1, TrailersOver
<1> HIDE DEF s, z, p
<1>3. "chunked" \in p.flags /\ ~NeedsEof(p)
  BY <1>2 DEF Framed, Flags, NeedsEof, Announces
<1>4. Flags \cap p.flags = Flags \cap (Said(s.headers) \cup Said(s.trailers))
  BY <1>2 DEF Flags
<1>5. KeepAlive(p) <=> Persistent(s)
  BY <1>2, <1>3, <1>4, KeptAsSaid
<1> QED
  BY <1>1, <1>2, <1>5, EndsMessage DEF s, z, p

(* After a message that leaves HTTP nothing follows but what strayed.      *)
LEMMA StrayedSome ==
  ASSUME NEW x, Strayed(<<>>, x)
  PROVE  x \in {<<>>, <<Junk>>, <<Empty("nothing")>>}
<1>1. <<>> \in Seq(LineSet)
  OBVIOUS
<1> QED
  BY <1>1, NothingLeft

LEMMA UpgradeFraming ==
  ASSUME Framing, input \in Seq(LineSet \cup {Junk, Empty("nothing")}), Upgrade
  PROVE  /\ Framing' /\ LeavesHttp(wire[begun]) /\ begun = Len(wire)
         /\ Tail(input) \in {<<>>, <<Junk>>, <<Empty("nothing")>>}
<1> DEFINE s == wire[begun]
           z == Later(wire, begun)
           p == parser
           T == LineSet \cup {Junk, Empty("nothing")}
<1>1. /\ input # <<>> /\ p.state = "header" /\ Head(input).t = "empty" /\ "trailing" \notin p.flags
      /\ Upgraded /\ parser' = Finished(p) /\ wire' = wire /\ begun' = begun
  BY DEF Upgrade
<1>2. PICK k \in 2..(Len(input) + 1) : input' = SubSeq(input, k, Len(input))
  BY DEF Upgrade
<1>3. /\ begun \in 1..Len(wire) /\ s \in Sendings /\ Framed(s) /\ p \in Parsers /\ wire \in Wires
      /\ HeadersHeard(s, p) /\ p.connect = s.connect
      /\ Strayed(BodyLines(s) \o z, Tail(input))
  BY <1>1, HeadersOver
<1> HIDE DEF s
<1>4. LeavesHttp(s)
  BY <1>1, <1>3 DEF Upgraded, LeavesHttp, HeadersHeard, Flags
<1>5. begun = Len(wire)
  BY <1>3, <1>4, WireIs DEF s
<1>6. z = <<>>
  BY <1>3, <1>5, LaterIs
<1>7. BodyLines(s) = <<>>
  BY <1>3, <1>4, LeavesBare
<1>8. Strayed(<<>>, Tail(input))
  BY <1>3, <1>6, <1>7
<1>9. Tail(input) \in {<<>>, <<Junk>>, <<Empty("nothing")>>}
  BY <1>8, StrayedSome
<1>10. Strayed(z, input')
  <2> HIDE DEF T
  <2>1. input \in Seq(T) /\ Len(input) \in Nat
    BY DEF T
  <2>2. Len(Tail(input)) = Len(input) - 1
    BY <1>1, <2>1, HeadTailProperties
  <2>3. Len(Tail(input)) \in {0, 1}
    <3>1. \A e : Len(<<e>>) = 1
      OBVIOUS
    <3>2. Len(<<>>) = 0
      OBVIOUS
    <3> DEFINE a == Junk
               b == Empty("nothing")
    <3>3. Len(<<a>>) = 1 /\ Len(<<b>>) = 1
      BY <3>1
    <3> HIDE DEF a, b
    <3> QED
      BY <1>9, <3>2, <3>3 DEF a, b
  <2>4. CASE k = 2
    <3>1. input' = Tail(input)
      BY <1>1, <1>2, <2>1, <2>4, TailIsSubSeq
    <3> QED
      BY <1>6, <1>8, <3>1
  <2>5. CASE k > Len(input)
    <3>1. input' = <<>>
      BY ONLY <1>2, <2>1, <2>5, SubSeqEmpty
    <3> QED
      BY <1>6, <3>1 DEF Strayed
  <2>6. k = 2 \/ k > Len(input)
    <3> DEFINE m == Len(input)
               n == Len(Tail(input))
    <3>1. m \in Nat /\ n = m - 1 /\ (n = 0 \/ n = 1) /\ k \in 2..(m + 1)
      BY <2>1, <2>2, <2>3
    <3> HIDE DEF m, n
    <3>2. k = 2 \/ k > m
      BY ONLY <3>1
    <3> QED
      BY <3>2 DEF m
  <2> QED
    BY <2>4, <2>5, <2>6
<1> HIDE DEF p, z
<1>11. Framing'
  BY <1>1, <1>3, <1>4, <1>10, EndsMessage DEF s, z, p
<1> QED
  BY <1>4, <1>5, <1>9, <1>11 DEF s

-----------------------------------------------------------------------------
(* What is left of rows of lines, line by line.                            *)
LEMMA RowStep ==
  ASSUME NEW S, NEW d \in Seq(S), NEW j \in 0..Len(d), NEW z \in Seq(S)
  PROVE  /\ From(d, j) \o z \in Seq(S)
         /\ j = Len(d) => From(d, j) \o z = z
         /\ j < Len(d) => /\ From(d, j) \o z # <<>> /\ Head(From(d, j) \o z) = d[j + 1]
                          /\ Tail(From(d, j) \o z) = From(d, j + 1) \o z
<1> DEFINE f == From(d, j)
<1>1. /\ f \in Seq(S)
      /\ j = Len(d) => f = <<>>
      /\ j < Len(d) => d[j + 1] \in S /\ f # <<>> /\ Head(f) = d[j + 1] /\ Tail(f) = From(d, j + 1)
  BY FromStep
<1> HIDE DEF f
<1>2. /\ f \o z \in Seq(S) /\ <<>> \o z = z
      /\ f # <<>> => /\ Head(f) \in S /\ Tail(f) \in Seq(S)
                     /\ f \o z = <<Head(f)>> \o (Tail(f) \o z)
  <2>1. f \in Seq(S) /\ z \in Seq(S)
    BY <1>1
  <2>2. f \o z \in Seq(S) /\ <<>> \o z = z
    BY ONLY <2>1, HeadJoined
  <2>3. ASSUME f # <<>>
        PROVE  Head(f) \in S /\ Tail(f) \in Seq(S) /\ f \o z = <<Head(f)>> \o (Tail(f) \o z)
    BY ONLY <2>1, <2>3, HeadJoined
  <2> QED
    BY ONLY <2>2, <2>3
<1>3. ASSUME j < Len(d)
      PROVE  f \o z # <<>> /\ Head(f \o z) = d[j + 1] /\ Tail(f \o z) = From(d, j + 1) \o z
  <2> DEFINE t == Tail(f)
             y == t \o z
             h == Head(f)
  <2>1. t \in Seq(S) /\ h \in S /\ f \o z = <<h>> \o y
    BY <1>1, <1>2, <1>3
  <2>2. y \in Seq(S)
    <3> HIDE DEF t
    <3> QED
      BY ONLY <2>1, z \in Seq(S), HeadJoined
  <2> HIDE DEF y, h
  <2>3. f \o z # <<>> /\ Head(f \o z) = h /\ Tail(f \o z) = y
    BY ONLY <2>1, <2>2, FirstOf
  <2> QED
    BY <1>1, <1>3, <2>3 DEF h, y
<1> QED
  BY <1>1, <1>2, <1>3 DEF f

LEMMA ChunkStep ==
  ASSUME NEW s \in Sendings, NEW j \in 0..Len(s.chunks), NEW z \in Seq(LineSet)
  PROVE  LET rest == Flat(ChunkLines(s), j) \o LastChunk(s, z)
         IN  /\ rest \in Seq(LineSet) /\ rest # <<>>
             /\ j < Len(s.chunks) =>
                  /\ Head(rest) = [t |-> "size", n |-> Len(s.chunks[j + 1])]
                  /\ Tail(rest) = <<Line("data", s.chunks[j + 1])>>
                                  \o (Flat(ChunkLines(s), j + 1) \o LastChunk(s, z))
             /\ j = Len(s.chunks) =>
                  /\ Head(rest) = [t |-> "size", n |-> 0]
                  /\ Tail(rest) = Section(s.trailers, "trailers") \o z
<1> DEFINE L == LineSet
           C == ChunkLines(s)
           y == LastChunk(s, z)
           f == Flat(C, j)
           rest == f \o y
           last == [t |-> "size", n |-> 0]
           w == Section(s.trailers, "trailers")
<1>1. last \in L /\ w \in Seq(L) /\ z \in Seq(L)
  <2>1. last \in LineSet /\ s.trailers \in Seq(Headers)
    BY LineKinds, MessageIs
  <2> QED
    BY <2>1, HeadsAre
<1>2. y = <<last>> \o (w \o z)
  BY DEF LastChunk
<1>3. /\ Len(s.chunks) \in Nat /\ C \in Seq(Seq(L)) /\ Len(C) = Len(s.chunks)
      /\ \A i \in 1..Len(s.chunks) :
           /\ s.chunks[i] \in Text /\ Len(s.chunks[i]) \in Nat
           /\ C[i] = << [t |-> "size", n |-> Len(s.chunks[i])], Line("data", s.chunks[i]) >>
  BY ChunksAre
<1> HIDE DEF last, w, L, C
<1>4. w \o z \in Seq(L)
  BY ONLY <1>1, HeadJoined
<1>5. y \in Seq(L) /\ y # <<>> /\ Head(y) = last /\ Tail(y) = w \o z
  <2> DEFINE wz == w \o z
  <2>1. wz \in Seq(L) /\ y = <<last>> \o wz
    BY <1>2, <1>4
  <2> HIDE DEF wz, y
  <2>2. y \in Seq(L) /\ y # <<>> /\ Head(y) = last /\ Tail(y) = wz
    BY ONLY <1>1, <2>1, FirstOf
  <2> QED
    BY <2>2 DEF wz
<1> HIDE DEF y
<1>6. /\ f \in Seq(L) /\ (j = Len(C) => f = <<>>)
      /\ j < Len(C) => f = C[j + 1] \o Flat(C, j + 1)
  <2>1. j \in 0..Len(C)
    BY <1>3
  <2> QED
    BY ONLY <1>3, <2>1, FlatStep
<1>7. CASE j = Len(s.chunks)
  <2>1. rest = y
    <3>1. f = <<>>
      BY ONLY <1>3, <1>6, <1>7
    <3>2. <<>> \o y = y
      BY ONLY <1>5, HeadJoined
    <3> QED
      BY ONLY <3>1, <3>2
  <2>2. ~(j < Len(s.chunks))
    BY <1>3, <1>7
  <2> HIDE DEF rest
  <2>3. rest \in Seq(L) /\ rest # <<>> /\ Head(rest) = last /\ Tail(rest) = w \o z
    BY ONLY <1>5, <2>1
  <2> QED
    BY <2>2, <2>3 DEF rest, f, C, y, L, last, w
<1>8. CASE j < Len(s.chunks)
  <2> DEFINE c == s.chunks[j + 1]
             a == [t |-> "size", n |-> Len(c)]
             b == Line("data", c)
             g == Flat(C, j + 1)
             gy == g \o y
  <2>1. j + 1 \in 1..Len(s.chunks) /\ j + 1 \in 0..Len(C) /\ j # Len(s.chunks)
    BY <1>3, <1>8
  <2>2. c \in Text /\ Len(c) \in Nat
    BY <1>3, <2>1
  <2>3. a \in L /\ b \in L
    BY <2>2, LineKinds DEF L
  <2>4. f = <<a, b>> \o g
    <3>1. C[j + 1] = <<a, b>>
      BY <1>3, <2>1
    <3> HIDE DEF f, a, b
    <3>2. f = C[j + 1] \o g
      BY <1>3, <1>6, <1>8
    <3> QED
      BY ONLY <3>1, <3>2
  <2> HIDE DEF c, a, b
  <2>5. g \in Seq(L)
    BY ONLY <1>3, <2>1, FlatStep
  <2> HIDE DEF g, f
  <2>6. gy \in Seq(L)
    BY ONLY <1>5, <2>5, HeadJoined
  <2> DEFINE ab == <<a, b>>
  <2>7. rest = <<a, b>> \o gy
    <3>1. ab \in Seq(L)
      BY ONLY <2>3
    <3>2. f = ab \o g
      BY ONLY <2>4
    <3> HIDE DEF ab
    <3>4. y \in Seq(L)
      BY <1>5
    <3>3. (ab \o g) \o y = ab \o (g \o y)
      BY ONLY <3>4, <2>5, <3>1, ConcatAssociative, SMTT(60)
    <3> QED
      <4>1. rest = (ab \o g) \o y
        BY ONLY <3>2
      <4> QED
        BY ONLY <4>1, <3>3 DEF ab
  <2> HIDE DEF gy, rest
  <2> DEFINE bg == <<b>> \o gy
  <2>8. bg \in Seq(L)
    BY ONLY <2>3, <2>6, FirstOf
  <2>9. rest = <<a>> \o bg
    <3> DEFINE aa == <<a>>
               bb == <<b>>
    <3>1. aa \in Seq(L) /\ bb \in Seq(L)
      BY ONLY <2>3
    <3>2. ab = aa \o bb
      <4>1. ab \in Seq(L) /\ ab # <<>> /\ Head(ab) = a /\ Tail(ab) = <<b>>
        BY ONLY <2>3
      <4> HIDE DEF ab
      <4>2. ab = <<Head(ab)>> \o Tail(ab)
        BY ONLY <4>1, HeadJoined
      <4> QED
        BY ONLY <4>1, <4>2
    <3> HIDE DEF aa, bb, ab
    <3>3. (aa \o bb) \o gy = aa \o (bb \o gy)
      BY ONLY <2>6, <3>1, ConcatAssociative, SMTT(60)
    <3>4. rest = (aa \o bb) \o gy
      BY ONLY <2>7, <3>2 DEF ab
    <3> QED
      BY ONLY <3>3, <3>4 DEF aa, bb
  <2> HIDE DEF bg
  <2>10. rest \in Seq(L) /\ rest # <<>> /\ Head(rest) = a /\ Tail(rest) = bg
    BY ONLY <2>3, <2>8, <2>9, FirstOf
  <2> QED
    BY <2>1, <2>10 DEF rest, f, C, y, L, a, b, bg, gy, g, c
<1>9. j = Len(s.chunks) \/ j < Len(s.chunks)
  BY <1>3
<1> QED
  BY ONLY <1>7, <1>8, <1>9

LEMMA SectionBegins ==
  ASSUME NEW hs \in Seq(Headers), NEW ends \in {"headers", "trailers"}, NEW after \in Seq(LineSet)
  PROVE  /\ Section(hs, ends) \o after \in Seq(LineSet)
         /\ InSection(hs, ends, 0, Section(hs, ends) \o after, after)
<1> DEFINE L == LineSet
           H == Heads(hs)
           f == Flat(H, 0)
           e == <<Empty(ends)>>
           y == e \o after
<1>1. /\ Len(hs) \in Nat /\ H \in Seq(Seq(L)) /\ Len(H) = Len(hs)
      /\ Section(hs, ends) = f \o e /\ e \in Seq(L)
  BY HeadsAre
<1>2. after \in Seq(L)
  OBVIOUS
<1> HIDE DEF L, H, e
<1>3. f \in Seq(L)
  <2>1. 0 \in 0..Len(H)
    BY <1>1
  <2> QED
    BY ONLY <1>1, <2>1, FlatStep
<1> HIDE DEF f
<1>4. (f \o e) \o after = f \o y
  BY ONLY <1>1, <1>2, <1>3, ConcatAssociative, SMTT(60)
<1>5. y \in Seq(L)
  BY ONLY <1>1, <1>2, HeadJoined
<1> HIDE DEF y
<1>6. f \o y \in Seq(L)
  BY ONLY <1>3, <1>5, HeadJoined
<1> DEFINE fy == f \o y
<1>7. <<>> \in Seq(FoldsIn(hs))
  OBVIOUS
<1>8. fy = <<>> \o fy
  <2>1. fy \in Seq(L)
    BY <1>6
  <2> HIDE DEF fy
  <2> QED
    BY ONLY <2>1, HeadJoined
<1>9. Section(hs, ends) \o after = fy
  BY ONLY <1>1, <1>4
<1> HIDE DEF fy
<1>10. \E x \in Seq(FoldsIn(hs)) : fy = x \o fy
  BY ONLY <1>7, <1>8
<1> QED
  BY <1>6, <1>9, <1>10 DEF InSection, fy, f, y, e, H, L

(* In a message, at a line that is none of those that may stray.           *)
LEMMA BodyLine ==
  ASSUME Framing, parser.state \in {"size", "chunk", "body", "eof"}, input # <<>>,
         Head(input).t \in {"size", "data"}
  PROVE  LET s == wire[begun]
             z == Later(wire, begun)
         IN  /\ begun \in 1..Len(wire) /\ s \in Sendings /\ Framed(s) /\ wire \in Wires
             /\ parser \in Parsers /\ z \in Seq(LineSet) /\ ~LeavesHttp(s)
             /\ parser.v11 = s.v11 /\ parser.connect = s.connect
             /\ parser.bodyless = s.bodyless /\ parser.type = s.kind
             /\ \E rest \in Seq(LineSet) :
                  /\ rest # <<>> /\ Head(input) = Head(rest)
                  /\ Tail(rest) \in Seq(LineSet) /\ Strayed(Tail(rest), Tail(input))
                  /\ parser.state = "size" => AtSize(s, rest, parser, z)
                  /\ parser.state = "chunk" => AtChunk(s, rest, parser, z)
                  /\ parser.state = "body" => AtBody(s, rest, parser, z)
                  /\ parser.state = "eof" => AtEof(s, rest, parser, z)
<1>1. Head(input) # Junk /\ Head(input) # Empty("nothing") /\ ~BetweenTwo(parser)
      /\ parser.state # "header"
  BY DEF Junk, Empty, BetweenTwo
<1>2. parser \in Parsers
  BY DEF Framing
<1> DEFINE s == wire[begun]
           z == Later(wire, begun)
<1>3. /\ begun \in 1..Len(wire) /\ s \in Sendings /\ Framed(s) /\ wire \in Wires
      /\ z \in Seq(LineSet)
  BY <1>1, InsideLine
<1>4. PICK rest \in Seq(LineSet) :
        /\ Inside(s, rest, parser, z)
        /\ rest # <<>> /\ Head(input) = Head(rest)
        /\ Tail(rest) \in Seq(LineSet) /\ Strayed(Tail(rest), Tail(input))
  BY <1>1, InsideLine
<1> HIDE DEF s, z
<1>5. /\ parser.v11 = s.v11 /\ parser.connect = s.connect
      /\ parser.bodyless = s.bodyless /\ parser.type = s.kind /\ ~LeavesHttp(s)
      /\ parser.state = "size" => AtSize(s, rest, parser, z)
      /\ parser.state = "chunk" => AtChunk(s, rest, parser, z)
      /\ parser.state = "body" => AtBody(s, rest, parser, z)
      /\ parser.state = "eof" => AtEof(s, rest, parser, z)
  BY <1>1, <1>4 DEF Inside
<1> QED
  BY <1>2, <1>3, <1>4, <1>5 DEF s, z

LEMMA ChunkSizeFraming ==
  ASSUME Framing, ChunkSize
  PROVE  Framing'
<1> DEFINE s == wire[begun]
           z == Later(wire, begun)
           p == parser
           n == Head(input).n
<1>1. /\ input # <<>> /\ p.state = "size" /\ Head(input).t = "size"
      /\ parser' = IF n = 0 THEN [p EXCEPT !.state = "header", !.length = 0,
                                           !.flags = @ \cup {"trailing"}]
                   ELSE [p EXCEPT !.state = "chunk", !.length = n]
      /\ input' = Tail(input) /\ wire' = wire /\ begun' = begun
  BY DEF ChunkSize, Execute, Reports
<1>2. /\ begun \in 1..Len(wire) /\ s \in Sendings /\ Framed(s)
      /\ p \in Parsers /\ z \in Seq(LineSet) /\ ~LeavesHttp(s)
      /\ p.v11 = s.v11 /\ p.connect = s.connect /\ p.bodyless = s.bodyless /\ p.type = s.kind
  BY <1>1, BodyLine
<1>3. PICK rest \in Seq(LineSet) :
        /\ rest # <<>> /\ Head(input) = Head(rest)
        /\ Tail(rest) \in Seq(LineSet) /\ Strayed(Tail(rest), Tail(input))
        /\ AtSize(s, rest, p, z)
  BY <1>1, BodyLine
<1> HIDE DEF s, z
<1>4. s.frame = "chunked" /\ HeadersHeard(s, p)
  BY <1>3 DEF AtSize
<1>5. PICK j \in 0..Len(s.chunks) : rest = Flat(ChunkLines(s), j) \o LastChunk(s, z)
  BY <1>3 DEF AtSize
<1>6. /\ Len(s.chunks) \in Nat /\ s.trailers \in Seq(Headers) /\ Len(s.trailers) \in Nat
  BY <1>2, ChunksAre, MessageIs, LenProperties
<1>7. /\ j < Len(s.chunks) =>
           /\ Head(rest) = [t |-> "size", n |-> Len(s.chunks[j + 1])]
           /\ Tail(rest) = <<Line("data", s.chunks[j + 1])>>
                           \o (Flat(ChunkLines(s), j + 1) \o LastChunk(s, z))
      /\ j = Len(s.chunks) =>
           /\ Head(rest) = [t |-> "size", n |-> 0]
           /\ Tail(rest) = Section(s.trailers, "trailers") \o z
  BY ONLY <1>2, <1>5, ChunkStep
<1>8. /\ p.flags \in SUBSET (Flags \cup {"trailing"}) /\ {} \cup p.flags = p.flags
  BY <1>2 DEF Parsers
<1>9. CASE j < Len(s.chunks)
  <2> DEFINE m == Len(s.chunks[j + 1])
  <2>1. /\ j + 1 \in 1..Len(s.chunks) /\ m \in Nat \ {0}
    <3>1. j + 1 \in 1..Len(s.chunks)
      BY <1>6, <1>9
    <3>2. Len(s.chunks[j + 1]) \in Nat \ {0}
      BY <1>2, <1>9, BodyCounts
    <3> QED
      BY <3>1, <3>2
  <2>2. n = m
    BY <1>3, <1>7, <1>9
  <2> HIDE DEF m, n
  <2>3. parser' = [p EXCEPT !.state = "chunk", !.length = m]
    BY <1>1, <2>1, <2>2
  <2>4. /\ parser' \in Parsers /\ parser'.type = p.type /\ parser'.state = "chunk"
        /\ parser'.v11 = p.v11 /\ parser'.connect = p.connect
        /\ parser'.bodyless = p.bodyless /\ parser'.flags = p.flags /\ parser'.length = m
    <3>1. m \in Int /\ p \in Parsers
      BY <1>2, <2>1
    <3> HIDE DEF p
    <3> QED
      BY ONLY <2>3, <3>1 DEF Parsers
  <2>5. AtChunk(s, Tail(rest), parser', z)
    <3>1. HeadersHeard(s, parser')
      BY <1>4, <2>4 DEF HeadersHeard
    <3> QED
      BY <1>4, <1>7, <1>9, <2>1, <2>4, <3>1 DEF AtChunk, m
  <2>6. Inside(s, Tail(rest), parser', z)
    BY <1>2, <2>4, <2>5 DEF Inside
  <2> QED
    BY <1>1, <1>2, <1>3, <2>4, <2>6, StaysInside DEF s, z
<1>10. CASE j = Len(s.chunks)
  <2>1. n = 0
    BY <1>3, <1>7, <1>10
  <2> HIDE DEF n
  <2>2. parser' = [p EXCEPT !.state = "header", !.length = 0, !.flags = @ \cup {"trailing"}]
    BY <1>1, <2>1
  <2>3. /\ parser' \in Parsers /\ parser'.type = p.type /\ parser'.state = "header"
        /\ parser'.v11 = p.v11 /\ parser'.connect = p.connect
        /\ parser'.bodyless = p.bodyless /\ parser'.flags = p.flags \cup {"trailing"}
    <3> DEFINE f == p.flags \cup {"trailing"}
    <3>1. f \in SUBSET (Flags \cup {"trailing"}) /\ p \in Parsers
      BY <1>2, <1>8
    <3> DEFINE q == [p EXCEPT !.state = "header", !.length = 0]
    <3>2. parser' = [q EXCEPT !.flags = f]
      BY <1>2, <2>2 DEF Parsers
    <3> HIDE DEF f, p
    <3>3. /\ q \in Parsers /\ q.type = p.type /\ q.v11 = p.v11 /\ q.connect = p.connect
          /\ q.bodyless = p.bodyless /\ q.state = "header"
      <4>1. p \in Parsers /\ 0 \in Int
        BY <3>1
      <4> DEFINE u == [p EXCEPT !.length = 0]
      <4>2. /\ u \in Parsers /\ u.type = p.type /\ u.v11 = p.v11 /\ u.connect = p.connect
            /\ u.bodyless = p.bodyless /\ q = [u EXCEPT !.state = "header"]
        BY ONLY <4>1 DEF Parsers
      <4> HIDE DEF u, q
      <4> QED
        BY ONLY <4>2 DEF Parsers
    <3> HIDE DEF q
    <3>4. /\ parser' \in Parsers /\ parser'.type = q.type /\ parser'.state = q.state
          /\ parser'.v11 = q.v11 /\ parser'.connect = q.connect
          /\ parser'.bodyless = q.bodyless /\ parser'.flags = f
      BY ONLY <3>1, <3>2, <3>3 DEF Parsers
    <3> QED
      BY ONLY <3>3, <3>4 DEF f
  <2>4. InSection(s.trailers, "trailers", 0, Tail(rest), z)
    BY <1>2, <1>6, <1>7, <1>10, SectionBegins
  <2>5. parser'.flags = {"trailing"} \cup (Flags \cap (Said(s.headers) \cup SaidUpTo(s.trailers, 0)))
    <3>1. SaidUpTo(s.trailers, 0) = {}
      BY SaidMore
    <3> QED
      BY <1>4, <2>3, <3>1 DEF HeadersHeard
  <2>6. AtTrailers(s, Tail(rest), parser', z)
    <3>1. 0 \in 0..Len(s.trailers)
      BY <1>6
    <3> QED
      BY <1>4, <2>4, <2>5, <3>1 DEF AtTrailers
  <2>7. Inside(s, Tail(rest), parser', z)
    BY <1>2, <2>3, <2>6 DEF Inside
  <2> QED
    BY <1>1, <1>2, <1>3, <2>3, <2>7, StaysInside DEF s, z
<1>11. j < Len(s.chunks) \/ j = Len(s.chunks)
  BY <1>6
<1> QED
  BY <1>9, <1>10, <1>11

LEMMA ChunkBytesFraming ==
  ASSUME Framing, ChunkBytes
  PROVE  Framing'
<1> DEFINE s == wire[begun]
           z == Later(wire, begun)
           p == parser
           text == Head(input).text
<1>1. /\ input # <<>> /\ p.state = "chunk" /\ Head(input).t = "data"
      /\ parser' = [Left(text) EXCEPT !.state = IF Left(text).length = 0 THEN "size" ELSE "chunk"]
      /\ input' = Tail(input) /\ wire' = wire /\ begun' = begun
  BY DEF ChunkBytes, Execute, Reports
<1>2. /\ begun \in 1..Len(wire) /\ s \in Sendings /\ Framed(s)
      /\ p \in Parsers /\ z \in Seq(LineSet) /\ ~LeavesHttp(s)
      /\ p.v11 = s.v11 /\ p.connect = s.connect /\ p.bodyless = s.bodyless /\ p.type = s.kind
  BY <1>1, BodyLine
<1>3. PICK rest \in Seq(LineSet) :
        /\ rest # <<>> /\ Head(input) = Head(rest)
        /\ Tail(rest) \in Seq(LineSet) /\ Strayed(Tail(rest), Tail(input))
        /\ AtChunk(s, rest, p, z)
  BY <1>1, BodyLine
<1> HIDE DEF s, z
<1>4. s.frame = "chunked" /\ HeadersHeard(s, p)
  BY <1>3 DEF AtChunk
<1>5. PICK j \in 1..Len(s.chunks) :
        /\ rest = <<Line("data", s.chunks[j])>> \o (Flat(ChunkLines(s), j) \o LastChunk(s, z))
        /\ p.length = Len(s.chunks[j])
  BY <1>3 DEF AtChunk
<1>6. /\ j \in 0..Len(s.chunks) /\ s.chunks[j] \in Text /\ Len(s.chunks[j]) \in Nat
  <2>1. Len(s.chunks) \in Nat
        /\ \A i \in 1..Len(s.chunks) : s.chunks[i] \in Text /\ Len(s.chunks[i]) \in Nat
    BY <1>2, ChunksAre
  <2>2. j \in 0..Len(s.chunks)
    BY <2>1
  <2> QED
    BY <2>1, <2>2
<1>7. Head(rest) = Line("data", s.chunks[j])
      /\ Tail(rest) = Flat(ChunkLines(s), j) \o LastChunk(s, z)
  <2> DEFINE y == Flat(ChunkLines(s), j) \o LastChunk(s, z)
             a == Line("data", s.chunks[j])
  <2>1. y \in Seq(LineSet)
    BY <1>2, <1>6, ChunkStep
  <2>2. a \in LineSet
    BY <1>6, LineKinds
  <2> HIDE DEF y, a
  <2>3. rest = <<a>> \o y
    BY <1>5 DEF a, y
  <2>4. Head(rest) = a /\ Tail(rest) = y
    BY ONLY <2>1, <2>2, <2>3, FirstOf
  <2> QED
    BY <2>4 DEF a, y
<1>8. Len(text) = Len(s.chunks[j])
  BY <1>3, <1>7 DEF Line
<1> HIDE DEF text
<1>9. Left(text) = [p EXCEPT !.length = 0]
  BY <1>2, <1>5, <1>6, <1>8 DEF Left
<1>10. /\ parser' \in Parsers /\ parser'.type = p.type /\ parser'.state = "size"
       /\ parser'.v11 = p.v11 /\ parser'.connect = p.connect
       /\ parser'.bodyless = p.bodyless /\ parser'.flags = p.flags
  <2>1. parser' = [[p EXCEPT !.length = 0] EXCEPT !.state = "size"]
    <3>1. Left(text).length = 0
      BY <1>2, <1>9 DEF Parsers
    <3> HIDE DEF p
    <3> QED
      BY <1>1, <1>9, <3>1
  <2>2. p \in Parsers
    BY <1>2
  <2> DEFINE q == [p EXCEPT !.length = 0]
  <2> HIDE DEF p
  <2>3. /\ q \in Parsers /\ q.type = p.type /\ q.v11 = p.v11 /\ q.connect = p.connect
        /\ q.bodyless = p.bodyless /\ q.flags = p.flags
    BY ONLY <2>2 DEF Parsers
  <2> HIDE DEF q
  <2>4. parser' = [q EXCEPT !.state = "size"]
    BY <2>1 DEF q
  <2>5. /\ parser' \in Parsers /\ parser'.type = q.type /\ parser'.state = "size"
        /\ parser'.v11 = q.v11 /\ parser'.connect = q.connect
        /\ parser'.bodyless = q.bodyless /\ parser'.flags = q.flags
    BY ONLY <2>3, <2>4 DEF Parsers
  <2> QED
    BY ONLY <2>3, <2>5
<1>11. AtSize(s, Tail(rest), parser', z)
  <2>1. HeadersHeard(s, parser')
    BY <1>4, <1>10 DEF HeadersHeard
  <2> QED
    BY <1>4, <1>6, <1>7, <2>1 DEF AtSize
<1>12. Inside(s, Tail(rest), parser', z)
  BY <1>2, <1>10, <1>11 DEF Inside
<1> QED
  BY <1>1, <1>2, <1>3, <1>10, <1>12, StaysInside DEF s, z

LEMMA BodyBytesFraming ==
  ASSUME Framing, BodyBytes
  PROVE  Framing'
<1> DEFINE s == wire[begun]
           z == Later(wire, begun)
           p == parser
           text == Head(input).text
           q == Left(text)
<1>1. /\ input # <<>> /\ p.state = "body" /\ Head(input).t = "data"
      /\ parser' = IF q.length = 0 THEN Finished(q) ELSE q
      /\ input' = Tail(input) /\ wire' = wire /\ begun' = begun
  BY DEF BodyBytes, Execute, Reports
<1>2. /\ begun \in 1..Len(wire) /\ s \in Sendings /\ Framed(s)
      /\ p \in Parsers /\ z \in Seq(LineSet) /\ ~LeavesHttp(s)
      /\ p.v11 = s.v11 /\ p.connect = s.connect /\ p.bodyless = s.bodyless /\ p.type = s.kind
  BY <1>1, BodyLine
<1>3. PICK rest \in Seq(LineSet) :
        /\ rest # <<>> /\ Head(input) = Head(rest)
        /\ Tail(rest) \in Seq(LineSet) /\ Strayed(Tail(rest), Tail(input))
        /\ AtBody(s, rest, p, z)
  BY <1>1, BodyLine
<1> HIDE DEF s, z
<1>4. s.frame = "length" /\ HeadersHeard(s, p)
  BY <1>3 DEF AtBody
<1>5. PICK j \in 0..(Len(s.chunks) - 1) :
        rest = From(DataLines(s), j) \o z /\ p.length = Len(Flat(s.chunks, j))
  BY <1>3 DEF AtBody
<1> DEFINE m == Len(s.chunks[j + 1])
           l == Len(Flat(s.chunks, j + 1))
<1>6. /\ Len(s.chunks) \in Nat /\ j \in 0..Len(s.chunks) /\ j < Len(s.chunks)
      /\ j + 1 \in 1..Len(s.chunks) /\ j + 1 \in 0..Len(s.chunks)
      /\ DataLines(s) \in Seq(LineSet) /\ Len(DataLines(s)) = Len(s.chunks)
      /\ DataLines(s)[j + 1] = Line("data", s.chunks[j + 1])
  <2>1. /\ Len(s.chunks) \in Nat
        /\ DataLines(s) \in Seq(LineSet) /\ Len(DataLines(s)) = Len(s.chunks)
        /\ \A i \in 1..Len(s.chunks) : DataLines(s)[i] = Line("data", s.chunks[i])
    BY <1>2, ChunksAre
  <2> QED
    BY <2>1
<1>7. m \in Nat \ {0} /\ l \in Nat /\ p.length = m + l
  BY <1>2, <1>5, <1>6, BodyCounts
<1>8. j + 1 < Len(s.chunks) => l # 0
  <2> SUFFICES ASSUME j + 1 < Len(s.chunks) PROVE l # 0
    OBVIOUS
  <2> DEFINE i == j + 1
  <2>1. i \in 0..Len(s.chunks) /\ i < Len(s.chunks)
    BY <1>6
  <2> HIDE DEF i
  <2>2. /\ Len(s.chunks[i + 1]) \in Nat \ {0} /\ Len(Flat(s.chunks, i + 1)) \in Nat
        /\ Len(Flat(s.chunks, i)) = Len(s.chunks[i + 1]) + Len(Flat(s.chunks, i + 1))
    BY <1>2, <2>1, BodyCounts
  <2>3. Len(Flat(s.chunks, i)) # 0
    <3> DEFINE a == Len(Flat(s.chunks, i))
               b == Len(s.chunks[i + 1])
               c == Len(Flat(s.chunks, i + 1))
    <3>1. b \in Nat \ {0} /\ c \in Nat /\ a = b + c
      BY ONLY <2>2
    <3> HIDE DEF a, b, c
    <3>2. a # 0
      BY ONLY <3>1
    <3> QED
      BY <3>2 DEF a
  <2> QED
    BY <2>3 DEF i
<1>9. j + 1 = Len(s.chunks) => l = 0
  BY <1>2, <1>6, BodyCounts
<1>10. /\ Head(rest) = Line("data", s.chunks[j + 1])
       /\ Tail(rest) = From(DataLines(s), j + 1) \o z
       /\ j + 1 = Len(s.chunks) => From(DataLines(s), j + 1) \o z = z
  <2> DEFINE d == DataLines(s)
             i == j + 1
  <2>1. d \in Seq(LineSet) /\ j \in 0..Len(d) /\ j < Len(d) /\ i \in 0..Len(d)
    BY <1>6
  <2>2. z \in Seq(LineSet)
    BY <1>2
  <2> HIDE DEF d
  <2>3. /\ From(d, j) \o z \in Seq(LineSet)
        /\ j = Len(d) => From(d, j) \o z = z
        /\ j < Len(d) => /\ From(d, j) \o z # <<>> /\ Head(From(d, j) \o z) = d[j + 1]
                         /\ Tail(From(d, j) \o z) = From(d, j + 1) \o z
    <3> HIDE DEF z
    <3> QED
      BY ONLY <2>1, <2>2, RowStep
  <2> HIDE DEF i
  <2>4. /\ From(d, i) \o z \in Seq(LineSet)
        /\ i = Len(d) => From(d, i) \o z = z
        /\ i < Len(d) => /\ From(d, i) \o z # <<>> /\ Head(From(d, i) \o z) = d[i + 1]
                         /\ Tail(From(d, i) \o z) = From(d, i + 1) \o z
    BY ONLY <2>1, <2>2, RowStep
  <2> QED
    BY <1>5, <1>6, <2>1, <2>3, <2>4 DEF d, i
<1>11. Len(text) = m
  BY <1>3, <1>10 DEF Line
<1> HIDE DEF text, m
<1>12. q = [p EXCEPT !.length = l]
  BY <1>2, <1>7, <1>11 DEF Left
<1>13. /\ q \in Parsers /\ q.type = p.type /\ q.state = "body" /\ q.length = l
       /\ q.v11 = p.v11 /\ q.connect = p.connect /\ q.bodyless = p.bodyless /\ q.flags = p.flags
  <2>1. l \in Int /\ p \in Parsers /\ p.state = "body"
    BY <1>1, <1>2, <1>7
  <2> HIDE DEF p, l, q
  <2> QED
    BY ONLY <1>12, <2>1 DEF Parsers
<1>14. HeadersHeard(s, q)
  BY <1>4, <1>13 DEF HeadersHeard
<1> HIDE DEF q, l, p
<1>15. CASE l = 0
  <2>1. j + 1 = Len(s.chunks)
    BY <1>6, <1>8, <1>15
  <2>2. parser' = Finished(q)
    BY <1>1, <1>13, <1>15
  <2>3. Strayed(z, Tail(input))
    BY <1>3, <1>10, <2>1
  <2>4. KeepAlive(q) <=> Persistent(s)
    <3>1. s.trailers = <<>>
      BY <1>2, <1>4 DEF Framed
    <3>2. Said(s.trailers) = {}
      BY <3>1 DEF Said
    <3>3. Flags \cap q.flags = Flags \cap (Said(s.headers) \cup Said(s.trailers))
      BY <1>14, <3>2 DEF HeadersHeard
    <3>4. ~NeedsEof(q)
      BY <1>13, <1>15 DEF NeedsEof, Unknown
    <3> QED
      BY <1>2, <1>4, <1>13, <3>3, <3>4, KeptAsSaid
  <2> QED
    BY <1>1, <1>2, <1>13, <2>2, <2>3, <2>4, EndsMessage DEF s, z, p
<1>16. CASE l # 0
  <2>1. j + 1 \in 0..(Len(s.chunks) - 1)
    BY <1>6, <1>9, <1>16
  <2>2. parser' = q
    BY <1>1, <1>13, <1>16
  <2>3. AtBody(s, Tail(rest), q, z)
    BY <1>4, <1>10, <1>13, <1>14, <2>1 DEF AtBody, l
  <2>4. Inside(s, Tail(rest), parser', z)
    BY <1>2, <1>13, <2>2, <2>3 DEF Inside
  <2> QED
    BY <1>1, <1>2, <1>3, <1>13, <2>2, <2>4, StaysInside DEF s, z, p
<1> QED
  BY <1>15, <1>16

LEMMA BytesUntilEofFraming ==
  ASSUME Framing, BytesUntilEof
  PROVE  Framing'
<1> DEFINE s == wire[begun]
           z == Later(wire, begun)
           p == parser
<1>1. /\ input # <<>> /\ p.state = "eof" /\ Head(input).t = "data"
      /\ parser' = p /\ input' = Tail(input) /\ wire' = wire /\ begun' = begun
  BY DEF BytesUntilEof, Execute, Reports
<1>2. /\ begun \in 1..Len(wire) /\ s \in Sendings /\ Framed(s) /\ wire \in Wires
      /\ p \in Parsers /\ z \in Seq(LineSet) /\ ~LeavesHttp(s)
      /\ p.v11 = s.v11 /\ p.connect = s.connect /\ p.bodyless = s.bodyless /\ p.type = s.kind
  BY <1>1, BodyLine
<1>3. PICK rest \in Seq(LineSet) :
        /\ rest # <<>> /\ Head(input) = Head(rest)
        /\ Tail(rest) \in Seq(LineSet) /\ Strayed(Tail(rest), Tail(input))
        /\ AtEof(s, rest, p, z)
  BY <1>1, BodyLine
<1>4. s.frame = "eof" /\ HeadersHeard(s, p)
  BY <1>3 DEF AtEof
<1>5. PICK j \in 0..Len(s.chunks) : rest = From(DataLines(s), j) \o z
  BY <1>3 DEF AtEof
<1>6. z = <<>>
  <2>1. begun = Len(wire)
    BY <1>2, <1>4, WireIs
  <2> QED
    BY <1>2, <2>1, LaterIs
<1> DEFINE d == DataLines(s)
<1>7. /\ d \in Seq(LineSet) /\ Len(d) = Len(s.chunks) /\ Len(s.chunks) \in Nat
  BY <1>2, ChunksAre
<1> HIDE DEF s, z, d
<1>8. /\ From(d, j) \o z \in Seq(LineSet)
      /\ j = Len(d) => From(d, j) \o z = z
      /\ j < Len(d) => /\ From(d, j) \o z # <<>> /\ Head(From(d, j) \o z) = d[j + 1]
                       /\ Tail(From(d, j) \o z) = From(d, j + 1) \o z
  <2>1. j \in 0..Len(d) /\ d \in Seq(LineSet) /\ z \in Seq(LineSet)
    BY <1>2, <1>7
  <2> QED
    BY ONLY <2>1, RowStep
<1>9. j < Len(d)
  <2>1. j = Len(d) => rest = z
    BY <1>5, <1>8 DEF d
  <2>2. j # Len(d)
    BY <1>3, <1>6, <2>1
  <2> QED
    BY <1>7, <2>2
<1>10. AtEof(s, Tail(rest), p, z)
  <2>1. j + 1 \in 0..Len(s.chunks)
    BY <1>7, <1>9
  <2>2. Tail(rest) = From(DataLines(s), j + 1) \o z
    BY <1>5, <1>8, <1>9 DEF d
  <2> QED
    BY <1>4, <2>1, <2>2 DEF AtEof
<1>11. Inside(s, Tail(rest), p, z)
  BY <1>1, <1>2, <1>10 DEF Inside
<1> QED
  BY <1>1, <1>2, <1>3, <1>11, StaysInside DEF s, z

LEMMA StrayEmptyFraming ==
  ASSUME Framing, StrayEmpty
  PROVE  Framing'
<1>1. /\ input # <<>> /\ BetweenTwo(parser) /\ Head(input).t = "empty"
      /\ parser' = parser /\ input' = Tail(input) /\ wire' = wire /\ begun' = begun
  BY DEF StrayEmpty, Execute, Reports, BetweenTwo
<1>2. /\ parser \in Parsers /\ wire \in Wires /\ begun \in 0..Len(wire)
      /\ Placed(Later(wire, begun), wire, begun, parser)
  BY <1>1 DEF Framing, Placed
<1>3. Later(wire, begun) \in Seq(LineSet)
  BY <1>2, LaterIs
<1>4. Head(input) # Junk
  BY <1>1 DEF Junk
<1>5. Strayed(Later(wire, begun), Tail(input))
  <2>1. ASSUME begun + 1 \in 1..Len(wire),
               Head(input) = [t |-> wire[begun + 1].kind, s |-> wire[begun + 1]]
        PROVE  FALSE
    <3>1. wire[begun + 1].kind \in {"url", "status"}
      BY <1>2, <2>1, WireIs, LineKinds
    <3> QED
      BY <1>1, <2>1, <3>1
  <2> QED
    BY <1>1, <1>4, <2>1, BetweenLine
<1> QED
  BY <1>1, <1>2, <1>3, <1>5 DEF Framing

LEMMA BeginFraming ==
  ASSUME Framing, NEW t \in {"url", "status"}, Begin(t)
  PROVE  Framing' /\ begun < Len(wire)
         /\ (begun > 0 => LeavesHttp(wire[begun]) \/ Persistent(wire[begun]))
<1> DEFINE n == begun + 1
           s == wire[n]
           z == Later(wire, n)
           p == parser
           rest == Section(s.headers, "headers") \o (BodyLines(s) \o z)
<1>1. /\ input # <<>> /\ p.state = "start" /\ Head(input).t = t /\ p.type \in {"both", t}
      /\ input' = Tail(input) /\ wire' = wire /\ begun' = n
      /\ parser' = [p EXCEPT !.state = "header", !.type = t, !.flags = {}, !.length = Unknown,
                             !.v11 = Head(input).s.v11, !.connect = Head(input).s.connect,
                             !.bodyless = Head(input).s.bodyless]
  BY DEF Begin, Execute
<1>2. /\ BetweenTwo(p) /\ Head(input) # Junk /\ Head(input) # Empty("nothing")
  BY <1>1 DEF BetweenTwo, Junk, Empty
<1>3. /\ begun < Len(wire) /\ n \in 1..Len(wire)
      /\ Head(input) = [t |-> s.kind, s |-> s] /\ Strayed(rest, Tail(input))
  BY <1>1, <1>2, BetweenLine
<1>4. /\ wire \in Wires /\ begun \in 0..Len(wire) /\ p \in Parsers /\ Len(wire) \in Nat \ {0}
      /\ p.type = IF begun = 0 THEN "both" ELSE wire[1].kind
  BY WireIs DEF Framing
<1>5. s \in Sendings /\ n \in 0..Len(wire) /\ n # 0 /\ wire[1] \in Sendings
  <2>1. 1 \in 1..Len(wire)
    BY <1>4
  <2> QED
    BY <1>3, <1>4, <2>1, WireIs
<1>6. Outside(wire, begun, p)
  BY <1>2 DEF Framing, Placed
<1>7. begun > 0 => LeavesHttp(wire[begun]) \/ Persistent(wire[begun])
  BY <1>1, <1>4, <1>6 DEF Outside
<1>8. z \in Seq(LineSet)
  BY <1>4, <1>5, LaterIs
<1> HIDE DEF z
<1>9. BodyLines(s) \in Seq(LineSet) /\ s.headers \in Seq(Headers) /\ Len(s.headers) \in Nat
  BY <1>5, BodyIs, MessageIs, LenProperties
<1>10. BodyLines(s) \o z \in Seq(LineSet)
  <2> HIDE DEF s
  <2> QED
    BY ONLY <1>8, <1>9, HeadJoined
<1>11. rest \in Seq(LineSet) /\ InSection(s.headers, "headers", 0, rest, BodyLines(s) \o z)
  BY <1>9, <1>10, SectionBegins
<1>12. t = s.kind /\ Head(input).s = s
  BY <1>1, <1>3
<1>13. /\ s.v11 \in BOOLEAN /\ s.connect \in BOOLEAN /\ s.bodyless \in BOOLEAN
       /\ s.kind \in {"url", "status"} /\ wire[1].kind \in {"url", "status"}
  BY <1>5 DEF Sendings
<1>14. parser' = [p EXCEPT !.state = "header", !.type = t, !.flags = {}, !.length = Unknown,
                           !.v11 = s.v11, !.connect = s.connect, !.bodyless = s.bodyless]
  BY <1>1, <1>12
<1>15. /\ parser' \in Parsers /\ parser'.state = "header" /\ parser'.type = t
       /\ parser'.flags = {} /\ parser'.length = Unknown
       /\ parser'.v11 = s.v11 /\ parser'.connect = s.connect /\ parser'.bodyless = s.bodyless
  <2> DEFINE a == s.v11
             b == s.connect
             c == s.bodyless
             l == Unknown
  <2>1. a \in BOOLEAN /\ b \in BOOLEAN /\ c \in BOOLEAN /\ p \in Parsers /\ l \in Int
        /\ parser' = [p EXCEPT !.state = "header", !.type = t, !.flags = {}, !.length = l,
                               !.v11 = a, !.connect = b, !.bodyless = c]
    BY <1>4, <1>13, <1>14 DEF Unknown
  <2> HIDE DEF a, b, c, l, p
  <2>2. /\ parser' \in Parsers /\ parser'.state = "header" /\ parser'.type = t
        /\ parser'.flags = {} /\ parser'.length = l
        /\ parser'.v11 = a /\ parser'.connect = b /\ parser'.bodyless = c
    BY ONLY <2>1, t \in {"url", "status"} DEF Parsers
  <2> QED
    BY ONLY <2>2 DEF a, b, c, l
<1> HIDE DEF p, s, rest
<1>16. AtHeaders(s, rest, parser', z)
  <2>1. SaidUpTo(s.headers, 0) = {} /\ 0 \in 0..Len(s.headers)
    BY <1>9, SaidMore
  <2>2. LengthHeard(s.headers, 0, parser')
    BY <1>15, <2>1 DEF LengthHeard
  <2> QED
    BY <1>11, <1>15, <2>1, <2>2 DEF AtHeaders
<1>17. Inside(s, rest, parser', z)
  BY <1>12, <1>15, <1>16 DEF Inside
<1>18. Placed(rest, wire', begun', parser')
  <2>1. ~BetweenTwo(parser') /\ n > 0
    BY <1>4, <1>15 DEF BetweenTwo
  <2> QED
    BY <1>1, <1>17, <2>1 DEF Placed, s, z
<1>19. parser'.type = wire[1].kind
  BY <1>1, <1>4, <1>12, <1>13, <1>15 DEF s
<1>20. Framing'
  <2>1. begun' # 0 /\ begun' \in 0..Len(wire') /\ wire' \in Wires
    BY <1>1, <1>4, <1>5
  <2> QED
    BY <1>1, <1>3, <1>11, <1>15, <1>18, <1>19, <2>1 DEF Framing
<1> QED
  BY <1>3, <1>7, <1>20

(* An error of the parser, or its end, leaves it where it is.              *)
LEMMA StaysInPlace ==
  ASSUME Framing, UNCHANGED <<wire, input, begun>>,
         parser' = parser \/ parser' = [parser EXCEPT !.ok = FALSE]
  PROVE  Framing'
<1>1. parser \in Parsers
  BY DEF Framing
<1>2. /\ parser' \in Parsers /\ parser'.state = parser.state /\ parser'.type = parser.type
      /\ parser'.flags = parser.flags /\ parser'.length = parser.length
      /\ parser'.v11 = parser.v11 /\ parser'.connect = parser.connect
      /\ parser'.bodyless = parser.bodyless
  BY <1>1 DEF Parsers
<1>3. PICK rest \in Seq(LineSet) : Strayed(rest, input) /\ Placed(rest, wire, begun, parser)
  BY DEF Framing
<1>4. BetweenTwo(parser') <=> BetweenTwo(parser)
  BY <1>2 DEF BetweenTwo
<1>5. Outside(wire, begun, parser) => Outside(wire, begun, parser')
  BY <1>2 DEF Outside
<1>6. ASSUME NEW s, NEW z, Inside(s, rest, parser, z) PROVE Inside(s, rest, parser', z)
  <2>1. HeadersHeard(s, parser) <=> HeadersHeard(s, parser')
    BY <1>2 DEF HeadersHeard
  <2>2. \A j : LengthHeard(s.headers, j, parser) <=> LengthHeard(s.headers, j, parser')
    BY <1>2 DEF LengthHeard
  <2>3. AtHeaders(s, rest, parser, z) => AtHeaders(s, rest, parser', z)
    BY <1>2, <2>2 DEF AtHeaders
  <2>4. AtTrailers(s, rest, parser, z) => AtTrailers(s, rest, parser', z)
    BY <1>2 DEF AtTrailers
  <2>5. AtSize(s, rest, parser, z) => AtSize(s, rest, parser', z)
    BY <2>1 DEF AtSize
  <2>6. AtChunk(s, rest, parser, z) => AtChunk(s, rest, parser', z)
    BY <1>2, <2>1 DEF AtChunk
  <2>7. AtBody(s, rest, parser, z) => AtBody(s, rest, parser', z)
    BY <1>2, <2>1 DEF AtBody
  <2>8. AtEof(s, rest, parser, z) => AtEof(s, rest, parser', z)
    BY <2>1 DEF AtEof
  <2> QED
    BY <1>2, <1>6, <2>3, <2>4, <2>5, <2>6, <2>7, <2>8 DEF Inside
<1>7. Placed(rest, wire, begun, parser')
  BY <1>3, <1>4, <1>5, <1>6 DEF Placed
<1> QED
  BY <1>2, <1>3, <1>7 DEF Framing

LEMMA InputIs ==
  ASSUME Framing
  PROVE  input \in Seq(LineSet \cup {Junk, Empty("nothing")})
<1> DEFINE a == Junk
           b == Empty("nothing")
           T == LineSet \cup {a, b}
<1>1. PICK rest \in Seq(LineSet) : Strayed(rest, input)
  BY DEF Framing
<1>2. rest \in Seq(T)
  <2>1. LineSet \subseteq T
    OBVIOUS
  <2> HIDE DEF T
  <2> QED
    BY ONLY <2>1, rest \in Seq(LineSet), SeqMonotonic
<1>3. \/ input = rest
      \/ \E k \in 1..(Len(rest) + 1) : input = InsertAt(rest, k, a) \/ input = InsertAt(rest, k, b)
  BY <1>1 DEF Strayed
<1>4. a \in T /\ b \in T
  OBVIOUS
<1> HIDE DEF a, b, T
<1>5. ASSUME NEW k \in 1..(Len(rest) + 1), NEW e \in T PROVE InsertAt(rest, k, e) \in Seq(T)
  BY <1>2, Inserted
<1>6. input \in Seq(T)
  BY <1>2, <1>3, <1>4, <1>5
<1> QED
  BY <1>6 DEF T, a, b

(* The first of the input.                                                 *)
LEMMA InitFraming ==
  ASSUME HttpInit
  PROVE  Framing
<1> DEFINE lines == Later(wire, 0)
           n == Len(lines)
<1>1. /\ wire \in Wires /\ begun = 0 /\ input \in Inputs(wire)
      /\ parser = [state |-> "start", type |-> "both", flags |-> {}, length |-> Unknown,
                   v11 |-> FALSE, connect |-> FALSE, bodyless |-> FALSE, ok |-> TRUE]
  BY DEF HttpInit, Init
<1>2. Len(wire) \in Nat \ {0} /\ 0 \in 0..Len(wire)
  BY <1>1, WireIs
<1>3. lines \in Seq(LineSet) /\ lines = FlattenSeq([i \in DOMAIN wire |-> Lines(wire[i])])
  BY <1>1, <1>2, LaterIs DEF AllLines
<1>4. n \in Nat /\ DOMAIN lines = 1..n /\ n + 1 \in 1..(n + 1) /\ ~(n + 1 <= n)
      /\ \A k \in 1..n : k \in 1..(n + 1)
  BY <1>3, LenProperties
<1>5. parser \in Parsers
  BY <1>1 DEF Parsers, Unknown
<1>6. Strayed(lines, input)
  <2> DEFINE last == IF wire[Len(wire)].frame = "eof" \/ Announces(wire[Len(wire)]) THEN {}
                     ELSE {n + 1}
             spots == {k \in DOMAIN lines : lines[k].t # "data"} \cup last
             gaps == {k \in DOMAIN lines : IsFirst(lines[k])} \cup last
  <2>1. \/ input = lines
        \/ \E k \in spots : input = InsertAt(lines, k, Junk)
        \/ \E k \in gaps : input = InsertAt(lines, k, Empty("nothing"))
    BY <1>1, <1>3 DEF Inputs
  <2>2. last \subseteq {n + 1}
    OBVIOUS
  <2> HIDE DEF lines, n, last
  <2>3. \A k \in spots : k \in 1..(n + 1)
    BY <1>4, <2>2
  <2>4. \A k \in gaps : k \in 1..(n + 1) /\ (k <= n => IsFirst(lines[k]))
    BY <1>4, <2>2
  <2> QED
    BY <2>1, <2>3, <2>4 DEF Strayed, n
<1>7. Placed(lines, wire, begun, parser)
  BY <1>1 DEF Placed, BetweenTwo, Outside
<1> QED
  BY <1>1, <1>2, <1>3, <1>5, <1>6, <1>7 DEF Framing

LEMMA CallbackSame ==
  ASSUME Callback
  PROVE  UNCHANGED <<wire, input, parser, failed, ended, begun, streaming>>
BY Zenon DEF Callback, framingVars, UrlData, StatusData, FirstLine, HeaderField, HeaderValue,
       HeadersComplete, BodyData, MessageComplete, AppendEof, Data, Notify

(* The place in the lines is kept.                                         *)
LEMMA FramingStep ==
  ASSUME Framing, [HttpNext]_httpVars
  PROVE  Framing'
<1>1. CASE RequestLine
  BY <1>1, BeginFraming DEF RequestLine
<1>2. CASE StatusLine
  BY <1>2, BeginFraming DEF StatusLine
<1>3. CASE HeaderLine
  BY <1>3, HeaderLineFraming
<1>4. CASE FoldedLine
  BY <1>4, FoldedLineFraming
<1>5. CASE WithoutBody
  BY <1>5, WithoutBodyFraming
<1>6. CASE WithBody
  BY <1>6, WithBodyFraming
<1>7. CASE Upgrade
  BY <1>7, InputIs, UpgradeFraming
<1>8. CASE TrailersEnd
  BY <1>8, TrailersEndFraming
<1>9. CASE ChunkSize
  BY <1>9, ChunkSizeFraming
<1>10. CASE BodyBytes
  BY <1>10, BodyBytesFraming
<1>11. CASE ChunkBytes
  BY <1>11, ChunkBytesFraming
<1>12. CASE BytesUntilEof
  BY <1>12, BytesUntilEofFraming
<1>13. CASE StrayEmpty
  BY <1>13, StrayEmptyFraming
<1>14. CASE Reject
  BY <1>14, StaysInPlace DEF Reject, vars
<1>15. CASE EofIgnored
  BY <1>15, StaysInPlace DEF EofIgnored, EndOfInput
<1>16. CASE EofCompletes
  BY <1>16, StaysInPlace DEF EofCompletes, EndOfInput
<1>17. CASE EofTruncates
  BY <1>17, StaysInPlace DEF EofTruncates, EndOfInput
<1>18. CASE Callback
  BY <1>18, CallbackSame, StaysInPlace
<1>19. CASE UNCHANGED httpVars
  BY <1>19, StaysInPlace DEF httpVars, framingVars, vars
<1> QED
  BY <1>1, <1>2, <1>3, <1>4, <1>5, <1>6, <1>7, <1>8, <1>9, <1>10, <1>11, <1>12, <1>13,
     <1>14, <1>15, <1>16, <1>17, <1>18, <1>19 DEF HttpNext

-----------------------------------------------------------------------------
(* What a line makes http_parser report.                                   *)
LEMMA FewCalls ==
  ASSUME NEW c \in CallSet, NEW d \in CallSet
  PROVE  /\ CallsOK(<<>>) /\ ~Ends(<<>>)
         /\ CallsOK(<<c>>) /\ (Ends(<<c>>) <=> EndsIt(c))
         /\ Ends(<<c, d>>) <=> EndsIt(d)
         /\ ~EndsIt(c) => CallsOK(<<c, d>>)
BY DEF CallsOK, Ends

LEMMA TheCalls ==
  /\ \A cb \in CallNames : \A x \in Text : Call(cb, x) \in CallSet
  /\ \A cb, x : EndsIt(Call(cb, x)) <=> cb \in {"complete", "eof"}
  /\ <<>> \in Text /\ Complete \in CallSet /\ EndsIt(Complete)
<1>1. <<>> \in Text
  BY DEF Text
<1>2. \A cb \in CallNames : \A x \in Text : Call(cb, x) \in CallSet
  BY DEF Call, CallSet
<1>3. \A cb, x : EndsIt(Call(cb, x)) <=> cb \in {"complete", "eof"}
  BY DEF Call, EndsIt
<1> QED
  BY <1>1, <1>2, <1>3 DEF Complete, CallNames

LEMMA TextOfLine ==
  ASSUME Framing, input # <<>>
  PROVE  /\ Head(input).t = "data" => Head(input).text \in Text
         /\ Head(input).t = "fold" => Head(input) \in FoldLines
         /\ Head(input).t = "header" => Head(input).h \in Headers
         /\ Head(input).t \in {"url", "status"} => Head(input).s \in Sendings
<1>1. Head(input) \in LineSet \cup {Junk, Empty("nothing")}
  <2> DEFINE T == LineSet \cup {Junk, Empty("nothing")}
  <2>1. input \in Seq(T)
    BY InputIs
  <2> HIDE DEF T
  <2>2. Head(input) \in T
    BY <2>1, HeadTailProperties
  <2> QED
    BY <2>2 DEF T
<1> DEFINE l == Head(input)
<1> HIDE DEF l
<1>2. /\ l.t = "data" => l.text \in Text
      /\ l.t = "fold" => l \in FoldLines
      /\ l.t = "header" => l.h \in Headers
      /\ l.t \in {"url", "status"} => l.s \in Sendings
  BY <1>1 DEF LineSet, FoldLines, Junk, Empty, l
<1> QED
  BY <1>2 DEF l

(***************************************************************************)
(* The shape of a step that reads: the parser has nothing left to report,  *)
(* goes on with no error, and reports the end of a message exactly when it *)
(* leaves it.                                                              *)
(***************************************************************************)
Reads == /\ ~ended /\ parser.ok /\ parser'.ok
         /\ todo = <<>> /\ CallsOK(todo')
         /\ UNCHANGED <<wire, ended, streaming, done, delivered>>
         /\ Ends(todo') => BetweenTwo(parser')
         /\ \/ /\ begun' = begun
               /\ BetweenTwo(parser) <=> BetweenTwo(parser') /\ ~Ends(todo')
            \/ begun' = begun + 1 /\ BetweenTwo(parser) /\ ~BetweenTwo(parser')

LEMMA ReadsBegin ==
  ASSUME Framing, NEW t \in {"url", "status"}, Begin(t)
  PROVE  Reads /\ failed' = failed
<1> DEFINE c == Call(t, Head(input).s.first)
<1>1. /\ ~ended /\ parser.ok /\ todo = <<>> /\ input # <<>> /\ parser.state = "start"
      /\ Head(input).t = t /\ todo' = <<c>> /\ begun' = begun + 1 /\ failed' = failed
      /\ UNCHANGED <<wire, ended, streaming, done, delivered>>
      /\ parser' = [parser EXCEPT !.state = "header", !.type = t, !.flags = {}, !.length = Unknown,
                                  !.v11 = Head(input).s.v11, !.connect = Head(input).s.connect,
                                  !.bodyless = Head(input).s.bodyless]
  BY DEF Begin, Execute, ctxVars
<1>2. Head(input).s.first \in Text
  BY <1>1, TextOfLine DEF Sendings
<1>3. c \in CallSet /\ ~EndsIt(c)
  BY <1>2, TheCalls DEF CallNames
<1> HIDE DEF c
<1>4. CallsOK(<<c>>) /\ ~Ends(<<c>>)
  BY <1>3, FewCalls
<1>5. parser \in Parsers
  BY DEF Framing
<1>6. parser'.ok = parser.ok /\ parser'.state = "header"
  BY <1>1, <1>5 DEF Parsers
<1> QED
  BY <1>1, <1>4, <1>6 DEF Reads, BetweenTwo

(* A line that leaves the parser in its message.                           *)
LEMMA ReadsOn ==
  ASSUME NEW state \in {"header", "size", "chunk", "body", "eof"}, NEW t, NEW calls,
         Execute(state, t), Reports(calls), parser'.ok = parser.ok, ~BetweenTwo(parser'),
         CallsOK(calls), ~Ends(calls)
  PROVE  Reads /\ failed' = failed
BY DEF Execute, Reports, Reads, BetweenTwo, ctxVars

(* A line that ends its message.                                           *)
LEMMA ReadsToEnd ==
  ASSUME NEW state \in {"header", "body"}, NEW t, NEW calls,
         Execute(state, t), Reports(calls), NEW p \in Parsers, p.ok = parser.ok,
         parser' = Finished(p), CallsOK(calls), Ends(calls)
  PROVE  Reads /\ failed' = failed
<1>1. BetweenTwo(parser') /\ parser'.ok = parser.ok
  BY FinishedIs
<1> QED
  BY <1>1 DEF Execute, Reports, Reads, BetweenTwo, ctxVars

LEMMA ReadsHeaderLine ==
  ASSUME Framing, HeaderLine
  PROVE  Reads /\ failed' = failed
<1> DEFINE h == Head(input).h
           c == Call("field", h.name)
           d == Call("value", h.value)
<1>1. Execute("header", "header") /\ parser' = Heed(h) /\ Reports(PairCall(h))
  BY DEF HeaderLine
<1>2. h \in Headers
  BY <1>1, TextOfLine DEF Execute
<1>3. h.name \in Text /\ h.value \in Text /\ h.n \in Nat
  BY <1>2 DEF Headers
<1>4. c \in CallSet /\ d \in CallSet /\ ~EndsIt(c) /\ ~EndsIt(d)
  BY <1>3, TheCalls DEF CallNames
<1>5. PairCall(h) = <<c, d>> \/ PairCall(h) = <<c>>
  BY Zenon DEF PairCall
<1>6. parser \in Parsers /\ parser.state = "header"
  BY <1>1 DEF Framing, Execute
<1> DEFINE r == PairCall(h)
           f == Flags \cap {h.says}
<1> HIDE DEF c, d
<1>9. CallsOK(r) /\ ~Ends(r)
  BY <1>4, <1>5, FewCalls
<1>7. parser'.ok = parser.ok /\ parser'.state = "header"
  <2>1. f = Flags \cap {h.says} /\ h.n \in Nat /\ parser' = Heed(h)
    BY <1>1, <1>3
  <2> HIDE DEF f, h
  <2> QED
    BY <1>6, <2>1, HeedIs
<1> HIDE DEF r, h
<1>8. ~BetweenTwo(parser')
  BY <1>7 DEF BetweenTwo
<1> QED
  BY <1>1, <1>7, <1>8, <1>9, ReadsOn DEF r

(* A line of one call that stays.                                          *)
LEMMA ReadsText ==
  ASSUME NEW state \in {"header", "size", "chunk", "body", "eof"}, NEW t, NEW text \in Text,
         NEW cb \in {"value", "body"}, Execute(state, t), Reports(<<Call(cb, text)>>),
         parser'.ok = parser.ok, ~BetweenTwo(parser')
  PROVE  Reads /\ failed' = failed
<1> DEFINE c == Call(cb, text)
<1>2. c \in CallSet /\ ~EndsIt(c)
  BY TheCalls DEF CallNames
<1> HIDE DEF c
<1>3. CallsOK(<<c>>) /\ ~Ends(<<c>>)
  BY <1>2, FewCalls
<1>4. Reports(<<c>>)
  BY DEF c
<1> QED
  BY <1>3, <1>4, ReadsOn

LEMMA ReadsFoldedLine ==
  ASSUME Framing, FoldedLine
  PROVE  Reads /\ failed' = failed
<1> DEFINE f == Head(input).f
           g == Flags \cap {f.says}
<1>1. Execute("header", "fold") /\ parser' = Heed(f) /\ Reports(<<Call("value", f.text)>>)
  BY DEF FoldedLine
<1>2. f.text \in Text /\ f.n \in Nat
  BY <1>1, TextOfLine, FoldIs DEF Execute
<1>3. parser \in Parsers /\ parser.state = "header" /\ g = Flags \cap {f.says}
  BY <1>1 DEF Framing, Execute
<1> HIDE DEF f, g
<1>4. parser'.ok = parser.ok /\ parser'.state = "header"
  BY <1>1, <1>2, <1>3, HeedIs
<1>5. ~BetweenTwo(parser')
  BY <1>4 DEF BetweenTwo
<1> QED
  BY <1>1, <1>2, <1>4, <1>5, ReadsText

LEMMA ReadsHeadersEnd ==
  ASSUME Framing, WithoutBody \/ WithBody
  PROVE  Reads /\ failed' = failed
<1> DEFINE c == Call("headers", <<>>)
           d == Complete
<1>1. c \in CallSet /\ d \in CallSet /\ ~EndsIt(c) /\ EndsIt(d)
  BY TheCalls DEF CallNames
<1>2. parser \in Parsers
  BY DEF Framing
<1>3. CASE WithoutBody
  <2>1. Execute("header", "empty") /\ parser' = Finished(parser) /\ Reports(<<c, d>>)
    BY <1>3 DEF WithoutBody, HeadersEnd
  <2> HIDE DEF c, d
  <2>2. CallsOK(<<c, d>>) /\ Ends(<<c, d>>)
    BY <1>1, FewCalls
  <2> QED
    BY <1>2, <2>1, <2>2, ReadsToEnd
<1>4. CASE WithBody
  <2>1. /\ Execute("header", "empty") /\ Reports(<<c>>)
        /\ parser' = [parser EXCEPT !.state = IF "chunked" \in parser.flags THEN "size"
                                              ELSE IF parser.length # Unknown THEN "body"
                                              ELSE "eof"]
    BY <1>4 DEF WithBody, HeadersEnd
  <2> HIDE DEF c, d
  <2>2. CallsOK(<<c>>) /\ ~Ends(<<c>>)
    BY <1>1, FewCalls
  <2>3. parser'.ok = parser.ok /\ parser'.state \in {"size", "body", "eof"}
    BY <1>2, <2>1 DEF Parsers
  <2>4. ~BetweenTwo(parser')
    BY <2>3 DEF BetweenTwo
  <2> QED
    BY <2>1, <2>2, <2>3, <2>4, ReadsOn
<1> QED
  BY <1>3, <1>4

LEMMA ReadsUpgrade ==
  ASSUME Framing, Upgrade
  PROVE  Reads /\ failed' \in BOOLEAN
<1> DEFINE c == Call("headers", <<>>)
           d == Complete
<1>1. /\ ~ended /\ parser.ok /\ todo = <<>> /\ parser.state = "header"
      /\ parser' = Finished(parser) /\ todo' = <<c, d>> /\ begun' = begun /\ failed' \in BOOLEAN
      /\ UNCHANGED <<wire, ended, streaming, done, delivered>>
  BY DEF Upgrade, ctxVars
<1>2. c \in CallSet /\ d \in CallSet /\ ~EndsIt(c) /\ EndsIt(d)
  BY TheCalls DEF CallNames
<1> HIDE DEF c, d
<1>3. CallsOK(<<c, d>>) /\ Ends(<<c, d>>)
  BY <1>2, FewCalls
<1>4. parser \in Parsers
  BY DEF Framing
<1>5. BetweenTwo(parser') /\ parser'.ok = parser.ok
  BY <1>1, <1>4, FinishedIs
<1> QED
  BY <1>1, <1>3, <1>5 DEF Reads, BetweenTwo

LEMMA ReadsTrailersEnd ==
  ASSUME Framing, TrailersEnd
  PROVE  Reads /\ failed' = failed
<1>1. Execute("header", "empty") /\ parser' = Finished(parser) /\ Reports(<<Complete>>)
  BY DEF TrailersEnd
<1>2. CallsOK(<<Complete>>) /\ Ends(<<Complete>>)
  BY TheCalls, FewCalls
<1>3. parser \in Parsers
  BY DEF Framing
<1> QED
  BY <1>1, <1>2, <1>3, ReadsToEnd

LEMMA ReadsChunk ==
  ASSUME Framing, ChunkSize \/ ChunkBytes
  PROVE  Reads /\ failed' = failed
<1>1. parser \in Parsers
  BY DEF Framing
<1>2. CASE ChunkSize
  <2>1. Execute("size", "size") /\ Reports(<<>>)
    BY <1>2 DEF ChunkSize
  <2>2. CallsOK(<<>>) /\ ~Ends(<<>>)
    BY TheCalls, FewCalls
  <2>3. parser'.ok = parser.ok /\ parser'.state \in {"header", "chunk"}
    BY <1>1, <1>2 DEF ChunkSize, Parsers
  <2>4. ~BetweenTwo(parser')
    BY <2>3 DEF BetweenTwo
  <2> QED
    BY <2>1, <2>2, <2>3, <2>4, ReadsOn
<1>3. CASE ChunkBytes
  <2>1. Execute("chunk", "data") /\ Reports(<<Call("body", Head(input).text)>>)
    BY <1>3 DEF ChunkBytes
  <2>2. parser'.ok = parser.ok /\ parser'.state \in {"size", "chunk"}
    BY <1>1, <1>3 DEF ChunkBytes, Left, Parsers
  <2>3. ~BetweenTwo(parser')
    BY <2>2 DEF BetweenTwo
  <2>4. Head(input).text \in Text
    BY <2>1, TextOfLine DEF Execute
  <2> QED
    BY <2>1, <2>2, <2>3, <2>4, ReadsText
<1> QED
  BY <1>2, <1>3

LEMMA ReadsBodyBytes ==
  ASSUME Framing, BodyBytes
  PROVE  Reads /\ failed' = failed
<1> DEFINE q == Left(Head(input).text)
           c == Call("body", Head(input).text)
<1>1. Execute("body", "data") /\ parser.state = "body"
  BY DEF BodyBytes, Execute
<1>2. \/ q.length = 0 /\ parser' = Finished(q) /\ Reports(<<c, Complete>>)
      \/ q.length # 0 /\ parser' = q /\ Reports(<<c>>)
  BY DEF BodyBytes
<1>3. Head(input).text \in Text /\ parser \in Parsers
  BY <1>1, TextOfLine DEF Execute, Framing
<1>4. q \in Parsers /\ q.ok = parser.ok /\ q.state = parser.state
  <2> DEFINE n == parser.length - Len(Head(input).text)
  <2>1. n \in Int
    <3>1. Len(Head(input).text) \in Nat
      BY <1>3, LenProperties DEF Text
    <3> QED
      BY <1>3, <3>1 DEF Parsers
  <2>2. q = [parser EXCEPT !.length = n]
    BY <1>3 DEF Left, Parsers
  <2> HIDE DEF n, q
  <2> QED
    BY ONLY <1>3, <2>1, <2>2 DEF Parsers
<1>5. c \in CallSet /\ ~EndsIt(c)
  BY <1>3, TheCalls DEF CallNames
<1>6. Complete \in CallSet /\ EndsIt(Complete)
  BY TheCalls
<1> DEFINE d == Complete
<1> HIDE DEF c, q, d
<1>7. CallsOK(<<c, d>>) /\ Ends(<<c, d>>) /\ CallsOK(<<c>>) /\ ~Ends(<<c>>)
  BY <1>5, <1>6, FewCalls DEF d
<1>8. CASE q.length = 0 /\ parser' = Finished(q) /\ Reports(<<c, Complete>>)
  <2>1. Reports(<<c, d>>)
    BY <1>8 DEF d
  <2> QED
    BY <1>1, <1>4, <1>7, <1>8, <2>1, ReadsToEnd
<1>9. CASE q.length # 0 /\ parser' = q /\ Reports(<<c>>)
  <2>1. ~BetweenTwo(parser')
    BY <1>1, <1>4, <1>9 DEF BetweenTwo
  <2> QED
    BY <1>1, <1>4, <1>7, <1>9, <2>1, ReadsOn
<1> QED
  BY <1>2, <1>8, <1>9

LEMMA ReadsUntilEof ==
  ASSUME Framing, BytesUntilEof
  PROVE  Reads /\ failed' = failed
<1>1. /\ Execute("eof", "data") /\ parser' = parser
      /\ Reports(<<Call("body", Head(input).text)>>)
  BY DEF BytesUntilEof
<1>2. ~BetweenTwo(parser')
  BY <1>1 DEF Execute, BetweenTwo
<1>3. Head(input).text \in Text
  BY <1>1, TextOfLine DEF Execute
<1> QED
  BY <1>1, <1>2, <1>3, ReadsText

LEMMA ReadsStrayEmpty ==
  ASSUME Framing, StrayEmpty
  PROVE  Reads /\ failed' = failed
<1>1. PICK state \in {"start", "dead"} :
        Execute(state, "empty") /\ parser' = parser /\ Reports(<<>>)
  BY DEF StrayEmpty
<1>2. CallsOK(<<>>) /\ ~Ends(<<>>)
  BY TheCalls, FewCalls
<1> QED
  BY <1>1, <1>2 DEF Execute, Reports, Reads, BetweenTwo, ctxVars

-----------------------------------------------------------------------------
(* Step by step, what is delivered.                                        *)
LEMMA ReadsDelivery ==
  ASSUME Framing, Delivery, Reads
  PROVE  Delivery'
<1>1. Resting' <=> BetweenTwo(parser')
  BY DEF Resting, Reads
<1>2. Resting <=> BetweenTwo(parser)
  BY DEF Resting, Reads
<1>3. ~Ends(todo)
  BY DEF Reads, Ends
<1>4. begun \in Int
  BY DEF Framing
<1>5. Len(delivered) = IF BetweenTwo(parser) THEN begun ELSE begun - 1
  BY <1>2, <1>3 DEF Delivery, Reads
<1>6. Len(delivered) = IF BetweenTwo(parser') /\ ~Ends(todo') THEN begun' ELSE begun' - 1
  <2> DEFINE n == Len(delivered)
  <2>1. CASE begun' = begun /\ (BetweenTwo(parser) <=> BetweenTwo(parser') /\ ~Ends(todo'))
    BY <1>5, <2>1
  <2>2. CASE begun' = begun + 1 /\ BetweenTwo(parser) /\ ~BetweenTwo(parser')
    <3>1. Len(delivered) = begun' - 1
      <4>1. Len(delivered) = begun
        BY <1>5, <2>2
      <4> HIDE DEF n
      <4>2. n = begun /\ begun' = begun + 1
        BY <2>2, <4>1 DEF n
      <4>3. n = begun' - 1
        BY ONLY <1>4, <4>2
      <4> QED
        BY <4>3 DEF n
    <3> QED
      BY <2>2, <3>1
  <2> QED
    BY <2>1, <2>2 DEF Reads
<1> QED
  BY <1>1, <1>6 DEF Delivery, Reads

LEMMA RejectDelivery ==
  ASSUME Framing, Delivery, Reject
  PROVE  Delivery'
<1>1. parser \in Parsers
  BY DEF Framing
<1>2. ~parser'.ok /\ todo = <<>> /\ UNCHANGED <<vars, wire, ended>>
  BY <1>1 DEF Reject, Parsers
<1>3. ~Ends(todo)
  BY <1>2 DEF Ends
<1> QED
  BY <1>2, <1>3 DEF Delivery, vars, ctxVars

LEMMA EofDelivery ==
  ASSUME Framing, Delivery, EofIgnored \/ EofCompletes \/ EofTruncates
  PROVE  Delivery'
<1>1. /\ ~ended /\ ended' /\ todo = <<>>
      /\ UNCHANGED <<wire, begun, streaming, done, delivered>>
  BY DEF EofIgnored, EofCompletes, EofTruncates, EndOfInput, ctxVars
<1>2. ~Ends(todo) /\ (Resting <=> BetweenTwo(parser))
  BY <1>1 DEF Ends, Resting
<1>3. /\ parser \in Parsers /\ begun \in 0..Len(wire) /\ Len(wire) \in Nat
  BY WireIs DEF Framing
<1>4. parser.ok => Len(delivered) = IF BetweenTwo(parser) THEN begun ELSE begun - 1
  BY <1>2 DEF Delivery
<1>5. CASE EofIgnored
  <2>1. parser' = parser /\ todo' = <<>> /\ (done \/ ~parser.ok \/ BetweenTwo(parser))
    BY <1>1, <1>5 DEF EofIgnored, BetweenMessages, BetweenTwo
  <2>2. parser.ok => BetweenTwo(parser)
    <3> SUFFICES ASSUME parser.ok, ~BetweenTwo(parser) PROVE FALSE
      OBVIOUS
    <3>1. delivered # <<>> /\ ~streaming
      BY <2>1 DEF Delivery
    <3>2. ~(Len(wire) > 1) /\ Len(delivered) = begun - 1
      BY <1>4, <3>1 DEF Delivery
    <3>3. Len(delivered) \in Nat \ {0}
      <4>1. PICK S : delivered \in Seq(S)
        BY DEF Delivery
      <4> QED
        BY <3>1, <4>1, EmptySeq, LenProperties
    <3> DEFINE n == Len(delivered)
               m == Len(wire)
    <3>4. n \in Nat \ {0} /\ m \in Nat /\ n = begun - 1 /\ ~(m > 1) /\ begun \in 0..m
      BY <1>3, <3>2, <3>3
    <3> HIDE DEF n, m
    <3> QED
      BY ONLY <3>4
  <2>3. ~Ends(todo')
    BY <2>1 DEF Ends
  <2>4. parser'.ok => Resting'
    BY <2>1, <2>2 DEF Resting
  <2> QED
    BY <1>1, <1>4, <2>1, <2>2, <2>3, <2>4 DEF Delivery
<1>6. CASE EofCompletes
  <2> DEFINE c == Call("eof", <<>>)
  <2>1. /\ parser' = parser /\ todo' = <<c>> /\ parser.ok /\ parser.state = "eof"
    BY <1>6 DEF EofCompletes, BetweenMessages
  <2>2. c \in CallSet /\ EndsIt(c)
    BY TheCalls DEF CallNames
  <2> HIDE DEF c
  <2>3. CallsOK(<<c>>) /\ Ends(<<c>>)
    BY <2>2, FewCalls
  <2>4. Resting' /\ ~BetweenTwo(parser)
    BY <1>1, <2>1 DEF Resting, BetweenTwo
  <2> QED
    BY <1>1, <1>4, <2>1, <2>3, <2>4 DEF Delivery
<1>7. CASE EofTruncates
  <2>1. ~parser'.ok /\ todo' = <<>>
    BY <1>1, <1>3, <1>7 DEF EofTruncates, Parsers
  <2>2. ~Ends(todo')
    BY <2>1 DEF Ends
  <2> QED
    BY <1>1, <2>1, <2>2 DEF Delivery
<1> QED
  BY <1>5, <1>6, <1>7

(* What is left of the calls when one is made, or part of a text given.    *)
LEMMA CallsLeft ==
  ASSUME CallsOK(todo), todo # <<>>
  PROVE  /\ CallsOK(Tail(todo))
         /\ ~EndsIt(todo[1]) => (Ends(Tail(todo)) <=> Ends(todo))
         /\ EndsIt(todo[1]) => Ends(todo) /\ Tail(todo) = <<>>
<1> DEFINE n == Len(todo)
           u == Tail(todo)
<1>1. todo \in Seq(CallSet) /\ n \in {1, 2} /\ (n = 2 => ~EndsIt(todo[1]))
  <2>1. todo \in Seq(CallSet) /\ n <= 2 /\ (n = 2 => ~EndsIt(todo[1]))
    BY DEF CallsOK
  <2>2. n \in Nat
    BY <2>1, LenProperties
  <2>3. n # 0
    BY <2>1, EmptySeq
  <2> HIDE DEF n
  <2>4. n = 1 \/ n = 2
    BY ONLY <2>1, <2>2, <2>3
  <2> QED
    BY <2>1, <2>4
<1>2. u \in Seq(CallSet) /\ Len(u) = n - 1 /\ \A i \in 1..Len(u) : u[i] = todo[i + 1]
  BY <1>1, HeadTailProperties
<1> HIDE DEF n, u
<1>3. CASE n = 1
  <2>1. Len(u) = 0
    BY <1>2, <1>3
  <2>2. u = <<>>
    BY <1>2, <2>1, EmptySeq
  <2>3. Ends(todo) <=> EndsIt(todo[1])
    BY <1>3 DEF Ends, n
  <2>4. ~Ends(u)
    BY <2>2 DEF Ends
  <2>5. CallsOK(u)
    BY <1>2, <2>1 DEF CallsOK
  <2> QED
    BY <2>2, <2>3, <2>4, <2>5 DEF u
<1>4. CASE n = 2
  <2>1. Len(u) = 1 /\ u[1] = todo[2]
    BY <1>2, <1>4
  <2>2. u # <<>>
    BY <2>1
  <2>3. Ends(u) <=> EndsIt(todo[2])
    BY <2>1, <2>2 DEF Ends
  <2>4. Ends(todo) <=> EndsIt(todo[2])
    BY <1>4 DEF Ends, n
  <2>5. CallsOK(u)
    BY <1>2, <2>1 DEF CallsOK
  <2> QED
    BY <1>1, <1>4, <2>3, <2>4, <2>5 DEF u
<1> QED
  BY <1>1, <1>3, <1>4

LEMMA CallsShorter ==
  ASSUME CallsOK(todo), todo # <<>>, NEW piece \in Pieces,
         NEW calls, calls = [todo EXCEPT ![1].text = SubSeq(@, Len(piece) + 1, Len(@))]
  PROVE  CallsOK(calls) /\ (Ends(calls) <=> Ends(todo))
<1> DEFINE text == todo[1].text
           n == Len(todo)
           rest == SubSeq(text, Len(piece) + 1, Len(text))
           c == [todo[1] EXCEPT !.text = rest]
<1>1. todo \in Seq(CallSet) /\ n \in {1, 2}
  <2>1. todo \in Seq(CallSet) /\ n <= 2 /\ (n = 2 => ~EndsIt(todo[1]))
    BY DEF CallsOK
  <2>2. n \in Nat
    BY <2>1, LenProperties
  <2>3. n # 0
    BY <2>1, EmptySeq
  <2> HIDE DEF n
  <2>4. n = 1 \/ n = 2
    BY ONLY <2>1, <2>2, <2>3
  <2> QED
    BY <2>1, <2>4
<1>2. /\ todo[1] \in CallSet /\ 1 \in 1..n /\ DOMAIN todo = 1..n
      /\ \A i \in 1..n : todo[i] \in CallSet
  BY <1>1, ElementOfSeq, LenProperties
<1>3. text \in Seq(Char)
  BY <1>2 DEF CallSet, Text
<1> HIDE DEF text
<1>4. Len(piece) \in Nat
  <2>1. PICK k \in 0..Len(text) : piece = SubSeq(text, 1, k)
    BY DEF Pieces, text
  <2>2. \A i \in 1..k : text[i] \in Char
    BY <1>3, ElementOfSeq, LenProperties
  <2>3. piece \in Seq(Char)
    <3>1. 1 \in Int /\ k \in Int
      BY <1>3, LenProperties
    <3> QED
      BY ONLY <2>1, <2>2, <3>1, SubSeqProperties
  <2> QED
    BY <2>3, LenProperties
<1>5. rest \in Seq(Char)
  <2> DEFINE a == Len(piece) + 1
             b == Len(text)
  <2>1. a \in Int /\ b \in Int /\ \A i \in a..b : text[i] \in Char
    BY <1>3, <1>4, ElementOfSeq, LenProperties
  <2> HIDE DEF a, b
  <2>2. SubSeq(text, a, b) \in Seq(Char)
    BY ONLY <2>1, SubSeqProperties
  <2> QED
    BY <2>2 DEF a, b
<1> HIDE DEF rest
<1>6. c \in CallSet /\ c.cb = todo[1].cb
  BY <1>2, <1>5 DEF CallSet, Text
<1>7. calls = [todo EXCEPT ![1] = c]
  BY DEF c, rest, text
<1> HIDE DEF c, n
<1>8. /\ calls \in Seq(CallSet) /\ Len(calls) = n /\ calls[1].cb = todo[1].cb
      /\ \A i \in 1..n : calls[i].cb = todo[i].cb
  <2> DEFINE T == CallSet
             w == todo
             v == [w EXCEPT ![1] = c]
  <2>1. w \in Seq(T) /\ 1 \in 1..Len(w) /\ c \in T /\ calls = v
    BY <1>1, <1>2, <1>6, <1>7 DEF n
  <2> HIDE DEF T, w
  <2>2. /\ v \in Seq(T) /\ Len(v) = Len(w)
        /\ \A i \in 1..Len(w) : v[i] = IF i = 1 THEN c ELSE w[i]
    BY ONLY <2>1, ExceptSeq
  <2> HIDE DEF v
  <2>3. \A i \in 1..Len(w) : v[i].cb = w[i].cb
    BY <1>6, <2>2 DEF w
  <2> QED
    BY <2>1, <2>2, <2>3 DEF T, w, n
<1>9. calls # <<>> /\ n \in 1..n
  BY <1>1, <1>8
<1>10. calls[n].cb = todo[n].cb
  BY <1>8, <1>9
<1> QED
  BY <1>8, <1>9, <1>10 DEF CallsOK, Ends, EndsIt, n

LEMMA CallbackDelivery ==
  ASSUME Framing, Delivery, Callback
  PROVE  Delivery'
<1>1. UNCHANGED <<wire, parser, ended, begun, streaming>>
  BY CallbackSame
<1>2. Resting' <=> Resting
  BY <1>1 DEF Resting, BetweenTwo
<1>3. CallsOK(todo)
  BY DEF Delivery
<1>4. ASSUME todo # <<>>, CallsOK(todo'), Ends(todo') <=> Ends(todo), UNCHANGED <<done, delivered>>
      PROVE  Delivery'
  BY <1>1, <1>2, <1>4 DEF Delivery
<1>5. ASSUME NEW piece \in Pieces, NEW cb \in {"url", "status", "field", "value", "body"},
             Data(cb, piece)
      PROVE  Delivery'
  <2>1. /\ todo # <<>> /\ todo[1].cb = cb /\ UNCHANGED <<done, delivered>>
        /\ \/ todo' = Tail(todo)
           \/ todo' = [todo EXCEPT ![1].text = SubSeq(@, Len(piece) + 1, Len(@))]
    BY <1>5 DEF Data
  <2>2. ~EndsIt(todo[1])
    BY <2>1 DEF EndsIt
  <2>3. CallsOK(todo') /\ (Ends(todo') <=> Ends(todo))
    <3>1. CASE todo' = Tail(todo)
      BY <1>3, <2>1, <2>2, <3>1, CallsLeft
    <3>2. CASE todo' = [todo EXCEPT ![1].text = SubSeq(@, Len(piece) + 1, Len(@))]
      BY <1>3, <2>1, <3>2, CallsShorter
    <3> QED
      BY <2>1, <3>1, <3>2
  <2> QED
    BY <1>4, <2>1, <2>3
<1>6. CASE UrlData \/ StatusData \/ HeaderField \/ HeaderValue \/ BodyData
  BY <1>5, <1>6 DEF UrlData, StatusData, FirstLine, HeaderField, HeaderValue, BodyData
<1>7. CASE HeadersComplete
  <2>1. /\ todo # <<>> /\ todo[1].cb = "headers" /\ todo' = Tail(todo)
        /\ UNCHANGED <<done, delivered>>
    BY <1>7 DEF HeadersComplete, Notify
  <2>2. ~EndsIt(todo[1])
    BY <2>1 DEF EndsIt
  <2> QED
    BY <1>3, <1>4, <2>1, <2>2, CallsLeft
<1>8. CASE MessageComplete \/ AppendEof
  <2>1. /\ todo # <<>> /\ todo[1].cb \in {"complete", "eof"} /\ todo' = Tail(todo)
        /\ delivered' = Append(delivered, message)
        /\ IF streaming THEN done' = FALSE ELSE done' = TRUE
    BY <1>8 DEF MessageComplete, AppendEof, Notify, SetUpNextMessage
  <2>2. EndsIt(todo[1])
    BY <2>1 DEF EndsIt
  <2>3. Ends(todo) /\ todo' = <<>>
    BY <1>3, <2>1, <2>2, CallsLeft
  <2>4. CallsOK(todo') /\ ~Ends(todo')
    BY <2>3 DEF CallsOK, Ends
  <2>5. parser.ok /\ Resting /\ Len(delivered) = begun - 1
    BY <2>1, <2>3 DEF Delivery
  <2>6. /\ \E S : delivered' \in Seq(S)
        /\ delivered' # <<>> /\ Len(delivered') = begun
    <3>1. PICK S : delivered \in Seq(S)
      BY DEF Delivery
    <3> DEFINE T == S \cup {message}
    <3>2. delivered \in Seq(T)
      <4>1. S \subseteq T
        OBVIOUS
      <4> HIDE DEF T
      <4> QED
        BY ONLY <3>1, <4>1, SeqMonotonic
    <3>3. message \in T
      OBVIOUS
    <3> HIDE DEF T
    <3>4. /\ delivered' \in Seq(T) /\ delivered' # <<>>
          /\ Len(delivered') = Len(delivered) + 1
      BY ONLY <2>1, <3>2, <3>3, AppendProperties
    <3>5. begun \in Int
      BY DEF Framing
    <3> DEFINE n == Len(delivered)
    <3>6. n = begun - 1
      BY <2>5
    <3> HIDE DEF n
    <3>7. n + 1 = begun
      BY ONLY <3>5, <3>6
    <3> QED
      BY <3>4, <3>7 DEF n
  <2> QED
    BY <1>1, <1>2, <2>1, <2>3, <2>4, <2>5, <2>6 DEF Delivery
<1> QED
  BY <1>6, <1>7, <1>8 DEF Callback

LEMMA InitDelivery ==
  ASSUME HttpInit
  PROVE  Delivery
<1>1. /\ wire \in Wires /\ stream = [i \in DOMAIN wire |-> MessageOf(wire[i])]
      /\ parser.state = "start" /\ ~ended /\ begun = 0 /\ todo = <<>> /\ done = FALSE
      /\ delivered = <<>> /\ streaming \in BOOLEAN /\ (Len(stream) > 1 => streaming)
  BY DEF HttpInit, Init
<1>2. Len(stream) = Len(wire)
  <2> DEFINE n == Len(wire)
             e(i) == MessageOf(wire[i])
  <2>1. DOMAIN wire = 1..n /\ n \in Nat
    BY <1>1, WireIs
  <2>2. stream = [i \in 1..n |-> e(i)]
    BY <1>1, <2>1
  <2> HIDE DEF n, e
  <2>3. Len(stream) = n
    BY <2>1, <2>2
  <2> QED
    BY <2>3 DEF n
<1>3. Resting
  BY <1>1 DEF Resting, BetweenTwo
<1>4. CallsOK(todo) /\ ~Ends(todo)
  BY <1>1 DEF CallsOK, Ends
<1>5. delivered \in Seq({}) /\ Len(delivered) = 0
  BY <1>1
<1>6. \E S : delivered \in Seq(S)
  BY <1>5
<1>7. parser.ok
  BY DEF HttpInit
<1> QED
  <2>1. Len(delivered) = begun /\ (Len(wire) > 1 => streaming) /\ done \in BOOLEAN /\ ~done
    BY <1>1, <1>2, <1>5
  <2>2. \/ ~parser.ok
        \/ Len(delivered) = IF Resting /\ ~Ends(todo) THEN begun ELSE begun - 1
    BY <1>3, <1>4, <2>1
  <2> HIDE DEF Resting, Ends, CallsOK
  <2> QED
    BY <1>1, <1>3, <1>4, <1>6, <1>7, <2>1, <2>2 DEF Delivery

(* The steps that read, all of them.                                       *)
ReadingStep == \/ RequestLine \/ StatusLine \/ HeaderLine \/ FoldedLine
               \/ WithoutBody \/ WithBody \/ TrailersEnd
               \/ ChunkSize \/ BodyBytes \/ ChunkBytes \/ BytesUntilEof \/ StrayEmpty

LEMMA AllRead ==
  ASSUME Framing, ReadingStep
  PROVE  Reads /\ failed' = failed
<1>1. CASE RequestLine
  BY <1>1, ReadsBegin DEF RequestLine
<1>2. CASE StatusLine
  BY <1>2, ReadsBegin DEF StatusLine
<1>3. CASE HeaderLine
  BY <1>3, ReadsHeaderLine
<1>4. CASE FoldedLine
  BY <1>4, ReadsFoldedLine
<1>5. CASE WithoutBody \/ WithBody
  BY <1>5, ReadsHeadersEnd
<1>6. CASE TrailersEnd
  BY <1>6, ReadsTrailersEnd
<1>7. CASE ChunkSize \/ ChunkBytes
  BY <1>7, ReadsChunk
<1>8. CASE BodyBytes
  BY <1>8, ReadsBodyBytes
<1>9. CASE BytesUntilEof
  BY <1>9, ReadsUntilEof
<1>10. CASE StrayEmpty
  BY <1>10, ReadsStrayEmpty
<1> QED
  BY <1>1, <1>2, <1>3, <1>4, <1>5, <1>6, <1>7, <1>8, <1>9, <1>10 DEF ReadingStep

LEMMA NextIs ==
  ASSUME HttpNext
  PROVE  ReadingStep \/ Upgrade \/ Reject \/ EofIgnored \/ EofCompletes \/ EofTruncates \/ Callback
BY DEF HttpNext, ReadingStep

LEMMA DeliveryStep ==
  ASSUME Framing, Delivery, [HttpNext]_httpVars
  PROVE  Delivery'
<1>1. CASE ReadingStep
  BY <1>1, AllRead, ReadsDelivery
<1>2. CASE Upgrade
  BY <1>2, ReadsUpgrade, ReadsDelivery
<1>3. CASE Reject
  BY <1>3, RejectDelivery
<1>4. CASE EofIgnored \/ EofCompletes \/ EofTruncates
  BY <1>4, EofDelivery
<1>5. CASE Callback
  BY <1>5, CallbackDelivery
<1>6. CASE UNCHANGED httpVars
  BY <1>6 DEF Delivery, Resting, BetweenTwo, httpVars, framingVars, vars, ctxVars
<1> QED
  BY <1>1, <1>2, <1>3, <1>4, <1>5, <1>6, NextIs

-----------------------------------------------------------------------------
(* Step by step, why the parser gives up.                                  *)
LEMMA InitCauses ==
  ASSUME HttpInit
  PROVE  Causes
<1>1. failed = FALSE /\ ended = FALSE /\ begun = 0
  BY DEF HttpInit, Init
<1>2. NothingAfterClose
  BY <1>1 DEF NothingAfterClose
<1> QED
  BY <1>1, <1>2 DEF Causes, FailsForCause

(* A message that leaves HTTP is the last.                                 *)
LEMMA LeavesLast ==
  ASSUME Framing, begun > 0, LeavesHttp(wire[begun])
  PROVE  begun = Len(wire)
<1>1. wire \in Wires /\ begun \in 1..Len(wire)
  BY WireIs DEF Framing
<1> QED
  BY <1>1, WireIs

LEMMA StaysCaused ==
  ASSUME Causes, UNCHANGED <<wire, begun>>, failed' \in BOOLEAN, ended' \in BOOLEAN,
         failed' => begun > 0 /\ LeavesHttp(wire[begun])
  PROVE  Causes'
BY DEF Causes, NothingAfterClose, FailsForCause

LEMMA BeginCauses ==
  ASSUME Framing, Causes, NEW t \in {"url", "status"}, Begin(t)
  PROVE  Causes'
<1>1. begun < Len(wire) /\ (begun > 0 => LeavesHttp(wire[begun]) \/ Persistent(wire[begun]))
  BY BeginFraming
<1>2. begun \in Nat /\ Len(wire) \in Nat
  BY WireIs DEF Framing
<1>3. begun > 0 => ~LeavesHttp(wire[begun])
  <2> DEFINE n == Len(wire)
  <2>1. begun # n
    <3>1. begun < n /\ n \in Nat
      BY <1>1, <1>2
    <3> HIDE DEF n
    <3> QED
      BY ONLY <1>2, <3>1
  <2> QED
    BY <2>1, LeavesLast
<1>4. parser.ok /\ wire' = wire /\ begun' = begun + 1 /\ failed' = failed /\ ended' = ended
  BY DEF Begin, Execute
<1>5. ~failed
  BY <1>3, <1>4 DEF Causes
<1>6. NothingAfterClose'
  <2> SUFFICES ASSUME NEW i \in 1..begun PROVE Persistent(wire[i])
    <3>1. 1..(begun' - 1) = 1..begun /\ wire' = wire
      BY <1>2, <1>4
    <3> QED
      BY <3>1 DEF NothingAfterClose
  <2>1. i = begun \/ i \in 1..(begun - 1)
    BY <1>2
  <2>2. CASE i = begun
    <3>1. begun > 0
      BY <2>2
    <3> QED
      BY <1>1, <1>3, <2>2, <3>1
  <2> QED
    BY <2>1, <2>2 DEF Causes, NothingAfterClose
<1> QED
  BY <1>4, <1>5, <1>6 DEF Causes, FailsForCause

LEMMA RejectCauses ==
  ASSUME Framing, Causes, Reject
  PROVE  Causes'
<1>1. /\ parser.ok /\ input # <<>> /\ Misplaced(Head(input)) /\ failed' = TRUE
      /\ UNCHANGED <<wire, begun, input, ended>>
  BY DEF Reject, vars
<1>2. parser \in Parsers /\ wire \in Wires /\ begun \in 0..Len(wire) /\ Len(wire) \in Nat
      /\ parser.type = IF begun = 0 THEN "both" ELSE wire[1].kind
  BY WireIs DEF Framing
<1>3. ~parser'.ok
  BY <1>2 DEF Reject, Parsers
<1> DEFINE l == Head(input)
<1>4. \/ l = Junk
      \/ begun > 0 /\ LeavesHttp(wire[begun])
      \/ IsFirst(l) /\ ((begun > 0 /\ ~Persistent(wire[begun])) \/ l.t # wire[1].kind)
  <2>1. CASE l = Junk
    BY <2>1
  <2>2. CASE l # Junk /\ BetweenTwo(parser)
    <3>1. \/ l = Empty("nothing")
          \/ /\ begun < Len(wire) /\ begun + 1 \in 1..Len(wire)
             /\ l = [t |-> wire[begun + 1].kind, s |-> wire[begun + 1]]
      BY <1>1, <2>2, BetweenLine
    <3>2. l.t # "empty"
      BY <1>1, <2>2 DEF Misplaced, BetweenTwo
    <3>3. l = [t |-> wire[begun + 1].kind, s |-> wire[begun + 1]] /\ begun + 1 \in 1..Len(wire)
      BY <3>1, <3>2 DEF Empty
    <3>4. wire[begun + 1].kind \in {"url", "status"}
      BY <1>2, <3>3, WireIs, LineKinds
    <3>5. IsFirst(l) /\ l.t \in {"url", "status"}
      BY <3>3, <3>4 DEF IsFirst
    <3>6. Outside(wire, begun, parser)
      BY <2>2 DEF Framing, Placed
    <3> HIDE DEF l
    <3>7. CASE parser.state = "dead"
      <4>1. begun # 0 /\ (LeavesHttp(wire[begun]) \/ ~Persistent(wire[begun]))
        BY <3>6, <3>7 DEF Outside
      <4>2. begun > 0
        BY <1>2, <4>1
      <4> QED
        BY <3>5, <4>1, <4>2
    <3>8. CASE parser.state = "start"
      <4>1. parser.type \notin {"both", l.t}
        BY <1>1, <3>2, <3>5, <3>8 DEF Misplaced, l
      <4>2. l.t # wire[1].kind
        BY <1>2, <4>1
      <4> QED
        BY <3>5, <4>2
    <3> QED
      BY <2>2, <3>7, <3>8 DEF BetweenTwo
  <2>3. CASE l # Junk /\ ~BetweenTwo(parser)
    <3>1. l.t = "junk"
      BY <1>1, <2>3 DEF Misplaced, BetweenTwo
    <3>2. l \in LineSet \cup {Empty("nothing")}
      <4> DEFINE T == LineSet \cup {Junk, Empty("nothing")}
      <4>1. input \in Seq(T)
        BY InputIs
      <4> HIDE DEF T
      <4>2. Head(input) \in T
        BY <1>1, <4>1, HeadTailProperties
      <4> QED
        BY <2>3, <4>2 DEF T
    <3> HIDE DEF l
    <3> QED
      BY <3>1, <3>2 DEF LineSet, FoldLines, Empty
  <2> QED
    BY <2>1, <2>2, <2>3
<1> HIDE DEF l
<1>5. FailsForCause'
  BY <1>1, <1>4 DEF FailsForCause, l
<1> QED
  BY <1>1, <1>3, <1>5 DEF Causes, NothingAfterClose

LEMMA CausesStep ==
  ASSUME Framing, Causes, [HttpNext]_httpVars
  PROVE  Causes'
<1>1. failed /\ parser.ok => begun > 0 /\ LeavesHttp(wire[begun])
  BY DEF Causes
<1>2. failed \in BOOLEAN /\ ended \in BOOLEAN
  BY DEF Causes
<1>3. CASE RequestLine \/ StatusLine
  BY <1>3, BeginCauses DEF RequestLine, StatusLine
<1>4. CASE ReadingStep /\ ~RequestLine /\ ~StatusLine
  <2>1. Reads /\ failed' = failed
    BY <1>4, AllRead
  <2>2. begun' = begun
    BY <1>4 DEF ReadingStep, HeaderLine, FoldedLine, WithoutBody, WithBody, TrailersEnd,
                ChunkSize, BodyBytes, ChunkBytes, BytesUntilEof, StrayEmpty, Reports
  <2> QED
    BY <1>1, <1>2, <2>1, <2>2, StaysCaused DEF Reads
<1>5. CASE Upgrade
  <2>1. Reads /\ failed' \in BOOLEAN /\ begun' = begun
    BY <1>5, ReadsUpgrade DEF Upgrade
  <2>2. LeavesHttp(wire[begun]) /\ begun = Len(wire)
    BY <1>5, InputIs, UpgradeFraming
  <2>3. begun > 0
    BY <2>2, WireIs DEF Framing
  <2> QED
    BY <1>2, <2>1, <2>2, <2>3, StaysCaused DEF Reads
<1>6. CASE Reject
  BY <1>6, RejectCauses
<1>7. CASE EofIgnored \/ EofCompletes \/ EofTruncates
  <2>1. /\ UNCHANGED <<wire, input, failed, begun>> /\ ended' = TRUE
        /\ parser' = parser \/ ~parser'.ok
    <3>1. parser \in Parsers
      BY DEF Framing
    <3> QED
      BY <1>7, <3>1 DEF EofIgnored, EofCompletes, EofTruncates, EndOfInput, Parsers
  <2> QED
    BY <1>1, <1>2, <2>1 DEF Causes, NothingAfterClose, FailsForCause
<1>8. CASE Callback
  <2>1. UNCHANGED <<wire, input, parser, failed, ended, begun>>
    BY <1>8, CallbackSame
  <2> QED
    BY <2>1 DEF Causes, NothingAfterClose, FailsForCause
<1>9. CASE UNCHANGED httpVars
  BY <1>9 DEF Causes, NothingAfterClose, FailsForCause, httpVars, framingVars, vars
<1> QED
  BY <1>3, <1>4, <1>5, <1>6, <1>7, <1>8, <1>9, NextIs

-----------------------------------------------------------------------------
LEMMA ReadingInvariant == HttpSpec => []Reading
<1>1. HttpInit => Reading
  BY InitFraming, InitDelivery, InitCauses DEF Reading
<1>2. Reading /\ [HttpNext]_httpVars => Reading'
  BY FramingStep, DeliveryStep, CausesStep DEF Reading
<1> QED
  BY <1>1, <1>2, PTL DEF HttpSpec

(* The parser has no line left only behind the last message, or in the     *)
(* body that ends with the connection, or that is announced.               *)
LEMMA AllLinesRead ==
  ASSUME Framing, input = <<>>, ~Announces(wire[Len(wire)])
  PROVE  /\ begun = Len(wire)
         /\ BetweenTwo(parser) \/ (parser.state = "eof" /\ wire[Len(wire)].frame = "eof")
<1> DEFINE s == wire[begun]
           z == Later(wire, begun)
<1>1. PICK rest \in Seq(LineSet) : Strayed(rest, input) /\ Placed(rest, wire, begun, parser)
  BY DEF Framing
<1>2. rest = <<>>
  BY <1>1, NothingLeft
<1>3. wire \in Wires /\ begun \in 0..Len(wire) /\ Len(wire) \in Nat
  BY WireIs DEF Framing
<1>4. CASE BetweenTwo(parser)
  <2>1. z = <<>>
    BY <1>1, <1>2, <1>4 DEF Placed
  <2>2. ASSUME begun < Len(wire) PROVE FALSE
    <3> DEFINE n == begun + 1
               u == Lines(wire[n])
               y == Later(wire, n)
    <3>1. n \in 1..Len(wire) /\ n \in 0..Len(wire) /\ z = u \o y
      BY <1>3, <2>2, LaterIs
    <3>2. wire[n] \in Sendings
      BY <1>3, <3>1, WireIs
    <3>3. u \in Seq(LineSet) /\ y \in Seq(LineSet)
      BY <1>3, <3>1, <3>2, MessageIs, LaterIs
    <3>4. Len(u) # 0
      <4> DEFINE a == [t |-> wire[n].kind, s |-> wire[n]]
                 b == Section(wire[n].headers, "headers")
                 d == BodyLines(wire[n])
                 ab == <<a>> \o b
      <4>1. a \in LineSet /\ b \in Seq(LineSet) /\ d \in Seq(LineSet) /\ u = ab \o d
        BY <3>2, LineKinds, MessageIs, HeadsAre, BodyIs
      <4> HIDE DEF a, b, d, u
      <4>2. ab \in Seq(LineSet) /\ ab # <<>>
        BY ONLY <4>1, FirstOf
      <4> HIDE DEF ab
      <4>3. Len(u) = Len(ab) + Len(d) /\ Len(ab) \in Nat \ {0} /\ Len(d) \in Nat
        BY ONLY <4>1, <4>2, ConcatProperties, LenProperties, EmptySeq
      <4> QED
        BY ONLY <4>3
    <3> HIDE DEF u, y, z
    <3>5. Len(z) = Len(u) + Len(y) /\ Len(u) \in Nat /\ Len(y) \in Nat
      BY ONLY <3>1, <3>3, ConcatProperties, LenProperties
    <3>6. Len(z) = 0
      BY <2>1
    <3> DEFINE a == Len(u)
               b == Len(y)
    <3>7. a # 0 /\ 0 = a + b /\ a \in Nat /\ b \in Nat
      BY ONLY <3>4, <3>5, <3>6
    <3> HIDE DEF a, b
    <3> QED
      BY ONLY <3>7
  <2> QED
    BY <1>3, <1>4, <2>2
<1>5. CASE ~BetweenTwo(parser)
  <2>1. begun \in 1..Len(wire) /\ Inside(s, rest, parser, z)
    BY <1>1, <1>3, <1>5 DEF Placed
  <2>2. /\ s \in Sendings /\ (s.frame = "eof" \/ Announces(s) => begun = Len(wire))
        /\ z \in Seq(LineSet)
    BY <1>3, <2>1, WireIs, LaterIs
  <2>11. ~Announces(s)
    BY <2>2
  <2> HIDE DEF s, z
  <2>3. BodyLines(s) \in Seq(LineSet) /\ s.headers \in Seq(Headers) /\ s.trailers \in Seq(Headers)
    BY <2>2, BodyIs, MessageIs
  <2>4. BodyLines(s) \o z \in Seq(LineSet)
    BY ONLY <2>2, <2>3, HeadJoined
  <2>5. ~AtHeaders(s, rest, parser, z)
    BY <1>2, <2>3, <2>4, SectionStep DEF AtHeaders
  <2>6. ~AtTrailers(s, rest, parser, z)
    BY <1>2, <2>2, <2>3, SectionStep DEF AtTrailers
  <2>7. ~AtSize(s, rest, parser, z)
    BY <1>2, <2>2, ChunkStep DEF AtSize
  <2>8. ~AtChunk(s, rest, parser, z)
    <3> SUFFICES ASSUME NEW j \in 1..Len(s.chunks),
                        <<>> = <<Line("data", s.chunks[j])>>
                               \o (Flat(ChunkLines(s), j) \o LastChunk(s, z))
                 PROVE  FALSE
      BY <1>2 DEF AtChunk
    <3> DEFINE a == Line("data", s.chunks[j])
               y == Flat(ChunkLines(s), j) \o LastChunk(s, z)
    <3>1. /\ Len(s.chunks) \in Nat
          /\ \A i \in 1..Len(s.chunks) : s.chunks[i] \in Text
      BY <2>2, ChunksAre
    <3>2. j \in 0..Len(s.chunks)
      BY <3>1
    <3>3. a \in LineSet /\ y \in Seq(LineSet)
      BY <2>2, <3>1, <3>2, LineKinds, ChunkStep
    <3>4. <<>> = <<a>> \o y
      OBVIOUS
    <3> HIDE DEF a, y
    <3> QED
      BY ONLY <3>3, <3>4, FirstOf
  <2>9. ~AtBody(s, rest, parser, z)
    <3> SUFFICES ASSUME NEW j \in 0..(Len(s.chunks) - 1), <<>> = From(DataLines(s), j) \o z
                 PROVE  FALSE
      BY <1>2 DEF AtBody
    <3> DEFINE d == DataLines(s)
    <3>1. Len(s.chunks) \in Nat /\ d \in Seq(LineSet) /\ Len(d) = Len(s.chunks)
      BY <2>2, ChunksAre
    <3>2. j \in 0..Len(d) /\ j < Len(d)
      BY <3>1
    <3> HIDE DEF d
    <3>3. /\ From(d, j) \o z \in Seq(LineSet)
          /\ j = Len(d) => From(d, j) \o z = z
          /\ j < Len(d) => /\ From(d, j) \o z # <<>> /\ Head(From(d, j) \o z) = d[j + 1]
                           /\ Tail(From(d, j) \o z) = From(d, j + 1) \o z
      BY ONLY <2>2, <3>1, <3>2, RowStep, ZenonT(40)
    <3> QED
      BY <3>2, <3>3 DEF d
  <2>10. parser.state = "eof" /\ s.frame = "eof"
    BY <2>1, <2>5, <2>6, <2>7, <2>8, <2>9, <2>11 DEF Inside, AtEof
  <2> QED
    BY <2>2, <2>10 DEF s
<1> QED
  BY <1>4, <1>5

(***************************************************************************)
(* NothingMissed: behind the last line of the input the parser has counted *)
(* every message of the connection, and none is left to deliver.           *)
(***************************************************************************)
THEOREM NoMessageMissed == HttpSpec => []NothingMissed
<1>1. Reading => NothingMissed
  <2> SUFFICES ASSUME Reading, input = <<>>, todo = <<>>, parser.ok,
                      ended \/ wire[Len(wire)].frame # "eof", ~Announces(wire[Len(wire)])
               PROVE  Len(delivered) = Len(wire)
    BY DEF NothingMissed
  <2>1. Framing /\ Delivery
    BY DEF Reading
  <2>2. begun = Len(wire)
        /\ (BetweenTwo(parser) \/ (parser.state = "eof" /\ wire[Len(wire)].frame = "eof"))
    BY <2>1, AllLinesRead
  <2>3. Resting /\ ~Ends(todo)
    BY <2>2 DEF Resting, Ends
  <2> QED
    BY <2>1, <2>2, <2>3 DEF Delivery
<1> QED
  BY <1>1, ReadingInvariant, PTL

(***************************************************************************)
(* NothingAfterClose: a message is begun only in the state start, and in   *)
(* that state the parser is only behind a message that keeps its           *)
(* connection, or leaves HTTP and is the last.                             *)
(***************************************************************************)
THEOREM ClosesForGood == HttpSpec => []NothingAfterClose
<1>1. Reading => NothingAfterClose
  BY DEF Reading, Causes
<1> QED
  BY <1>1, ReadingInvariant, PTL

(***************************************************************************)
(* FailsForCause: the error callback comes only for a stray line, for      *)
(* something behind a message that was the last, or for one of the other   *)
(* kind.                                                                   *)
(***************************************************************************)
THEOREM FailuresCaused == HttpSpec => []FailsForCause
<1>1. Reading => FailsForCause
  BY DEF Reading, Causes
<1> QED
  BY <1>1, ReadingInvariant, PTL

-----------------------------------------------------------------------------
(***************************************************************************)
(* That HttpFraming implements HttpParser.  owed holds the calls that are  *)
(* still due for the message the parser is in: those in todo and those of  *)
(* the lines that are not read, folded values and chunks each as one call. *)
(* First what Merge makes of a sequence of calls, read from its front.     *)
(***************************************************************************)

(* G applied to the members of s from the left, over the sets of places    *)
(* that MapThenFoldSet goes through.                                       *)
FoldsTo(g, G, b, s, m) ==
  \A A \in SUBSET (1..m) :
    g[A] = IF A = {} THEN b ELSE G[<<g[A \ {Max(A)}], s[Max(A)]>>]

(* The greatest member of a set of numbers up to m that holds m.           *)
LEMMA LastIn ==
  ASSUME NEW m \in Nat, NEW A \in SUBSET (1..m), m \in A
  PROVE  Max(A) = m
<1>1. \A x \in A : x <= m
  OBVIOUS
<1>2. \E x \in A : \A y \in A : x >= y
  BY <1>1
<1>3. Max(A) \in A /\ \A y \in A : Max(A) >= y
  BY <1>2 DEF Max
<1>4. Max(A) <= m /\ Max(A) >= m /\ Max(A) \in 1..m
  BY <1>1, <1>3
<1> HIDE DEF Max
<1> QED
  BY <1>4

(* A set of numbers that is not empty has a greatest one.                  *)
LEMMA SomeLast ==
  ASSUME NEW m \in Nat, NEW A \in SUBSET (1..m), A # {}
  PROVE  Max(A) \in A
<1> DEFINE D == {k \in Nat : \A x \in A : x <= k}
<1>1. D # {}
  BY m \in D
<1>2. PICK k \in D : \A j \in D : k <= j
  <2>1. D \in SUBSET Nat
    OBVIOUS
  <2> HIDE DEF D
  <2> QED
    BY <1>1, <2>1, LeastOf
<1>3. k \in A
  <2> SUFFICES ASSUME k \notin A PROVE FALSE
    OBVIOUS
  <2>1. \A x \in A : x <= k - 1 /\ x \in 1..m
    OBVIOUS
  <2>2. k - 1 \in Nat
    <3>1. PICK x \in A : TRUE
      OBVIOUS
    <3>2. x \in 1..m /\ x <= k - 1 /\ k \in Nat
      BY <2>1
    <3> QED
      BY <3>2
  <2> QED
    BY <1>2, <2>1, <2>2
<1>4. \E x \in A : \A y \in A : x >= y
  BY <1>3
<1> QED
  BY <1>4 DEF Max

(* What MapThenFoldSet chooses is there.                                   *)
LEMMA FoldsSome ==
  ASSUME NEW X, NEW Y, NEW b \in X, NEW G \in [X \X Y -> X], NEW s \in Seq(Y)
  PROVE  \E g \in [SUBSET (1..Len(s)) -> X] : FoldsTo(g, G, b, s, Len(s))
<1> DEFINE Has(m) == \E g \in [SUBSET (1..m) -> X] : FoldsTo(g, G, b, s, m)
           D == {m \in Nat : m <= Len(s) /\ ~Has(m)}
<1>1. Len(s) \in Nat /\ \A i \in 1..Len(s) : s[i] \in Y
  BY LenProperties, ElementOfSeq
<1>2. ASSUME D # {} PROVE FALSE
  <2>1. PICK m \in D : \A j \in D : m <= j
    <3>1. D \in SUBSET Nat
      OBVIOUS
    <3> HIDE DEF D
    <3> QED
      BY <1>2, <3>1, LeastOf
  <2>2. m \in Nat /\ m <= Len(s) /\ ~Has(m)
    OBVIOUS
  <2>3. CASE m = 0
    <3> DEFINE g == [A \in SUBSET (1..m) |-> b]
    <3>1. g \in [SUBSET (1..m) -> X]
      OBVIOUS
    <3>2. \A A \in SUBSET (1..m) : A = {}
      BY <2>3
    <3>3. FoldsTo(g, G, b, s, m)
      BY <3>2 DEF FoldsTo
    <3> HIDE DEF g
    <3> QED
      BY <2>2, <3>1, <3>3
  <2>4. CASE m # 0
    <3>1. m - 1 \in Nat /\ m - 1 <= Len(s) /\ ~(m <= m - 1) /\ m \in 1..Len(s)
      BY <1>1, <2>2, <2>4
    <3>2. Has(m - 1)
      <4>1. m - 1 \notin D
        <5> HIDE DEF D
        <5> QED
          BY <2>1, <3>1
      <4> HIDE DEF Has
      <4> QED
        BY <3>1, <4>1
    <3>3. PICK h \in [SUBSET (1..(m - 1)) -> X] : FoldsTo(h, G, b, s, m - 1)
      BY <3>2
    <3> DEFINE g == [A \in SUBSET (1..m) |-> IF m \in A THEN G[<<h[A \ {m}], s[m]>>] ELSE h[A]]
    <3>4. \A A \in SUBSET (1..m) : A \ {m} \in SUBSET (1..(m - 1))
      BY <2>2
    <3>5. ASSUME NEW A \in SUBSET (1..m), m \notin A
          PROVE  A \in SUBSET (1..(m - 1)) /\ g[A] = h[A] /\ g[A] \in X
      <4>1. A \in SUBSET (1..(m - 1))
        BY <3>5, <2>2
      <4> QED
        BY <3>5, <4>1
    <3>6. ASSUME NEW A \in SUBSET (1..m), m \in A
          PROVE  g[A] = G[<<h[A \ {m}], s[m]>>] /\ g[A] \in X
      <4>1. h[A \ {m}] \in X /\ s[m] \in Y
        BY <1>1, <3>1, <3>4
      <4>2. g[A] = G[<<h[A \ {m}], s[m]>>]
        BY <3>6
      <4> QED
        BY <4>1, <4>2
    <3>7. g \in [SUBSET (1..m) -> X]
      <4>1. \A A \in SUBSET (1..m) : g[A] \in X
        BY <3>5, <3>6
      <4> QED
        BY <4>1
    <3> HIDE DEF g
    <3>8. FoldsTo(g, G, b, s, m)
      <4> SUFFICES ASSUME NEW A \in SUBSET (1..m)
                   PROVE  g[A] = IF A = {} THEN b ELSE G[<<g[A \ {Max(A)}], s[Max(A)]>>]
        BY DEF FoldsTo
      <4>1. CASE m \in A
        <5>1. Max(A) = m
          BY <2>2, <4>1, LastIn
        <5>2. A \ {m} \in SUBSET (1..m) /\ m \notin A \ {m}
          OBVIOUS
        <5>3. g[A \ {m}] = h[A \ {m}]
          BY <3>5, <5>2
        <5> QED
          BY <3>6, <4>1, <5>1, <5>3
      <4>2. CASE m \notin A
        <5>1. A \in SUBSET (1..(m - 1)) /\ g[A] = h[A]
          BY <3>5, <4>2
        <5>2. h[A] = IF A = {} THEN b ELSE G[<<h[A \ {Max(A)}], s[Max(A)]>>]
          BY <3>3, <5>1 DEF FoldsTo
        <5>3. A \ {Max(A)} \in SUBSET (1..m) /\ m \notin A \ {Max(A)}
          BY <4>2
        <5>4. g[A \ {Max(A)}] = h[A \ {Max(A)}]
          BY <3>5, <5>3
        <5> QED
          BY <5>1, <5>2, <5>4
      <4> QED
        BY <4>1, <4>2
    <3> QED
      BY <2>2, <3>7, <3>8
  <2> QED
    BY <2>3, <2>4
<1>3. Len(s) \notin D
  BY <1>2
<1> HIDE DEF Has
<1>4. Has(Len(s))
  BY <1>1, <1>3
<1> QED
  BY <1>4 DEF Has

(* The calls that are due, one behind the other merged as Accounted does.  *)
Merged(calls) == FoldLeft(Merge, <<>>, calls)

(* Two calls, one behind the other.                                        *)
Both(c, d) == IF c.cb = d.cb /\ d.cb \in {"value", "body"}
              THEN <<Call(d.cb, c.text \o d.text)>> ELSE <<c>> \o <<d>>

(* A call before calls that are merged already.                            *)
Join(c, calls) == IF calls = <<>> THEN <<c>> ELSE Both(c, Head(calls)) \o Tail(calls)

(* The last of a sequence and those before it.                             *)
LEMMA LastOf ==
  ASSUME NEW S, NEW p \in Seq(S), NEW x \in S
  PROVE  /\ p \o <<x>> \in Seq(S) /\ p \o <<x>> # <<>>
         /\ Last(p \o <<x>>) = x /\ Front(p \o <<x>>) = p
<1> DEFINE q == p \o <<x>>
           n == Len(p)
<1>1. /\ n \in Nat /\ q \in Seq(S) /\ Len(q) = n + 1
      /\ \A i \in 1..n : q[i] = p[i] /\ p[i] \in S
      /\ q[n + 1] = x
  <2>1. <<x>> \in Seq(S) /\ Len(<<x>>) = 1 /\ <<x>>[1] = x
    OBVIOUS
  <2>2. n \in Nat /\ \A i \in 1..n : p[i] \in S
    BY LenProperties, ElementOfSeq
  <2>3. q \in Seq(S) /\ Len(q) = n + 1
        /\ \A i \in 1..(n + 1) : q[i] = IF i <= n THEN p[i] ELSE <<x>>[i - n]
    <3>1. Len(q) = Len(p) + Len(<<x>>)
      BY <2>1, ConcatProperties
    <3>2. \A i \in 1..(Len(p) + Len(<<x>>)) : q[i] = IF i <= Len(p) THEN p[i] ELSE <<x>>[i - Len(p)]
      BY <2>1, ConcatProperties
    <3> QED
      BY <2>1, <3>1, <3>2, ConcatProperties
  <2> HIDE DEF q, n
  <2>4. n + 1 \in 1..(n + 1) /\ ~(n + 1 <= n) /\ (n + 1) - n = 1
    BY <2>2
  <2>5. \A i \in 1..n : i \in 1..(n + 1) /\ i <= n
    BY <2>2
  <2> QED
    BY <2>1, <2>2, <2>3, <2>4, <2>5
<1> HIDE DEF q
<1>2. q # <<>> /\ Last(q) = x
  BY <1>1 DEF Last
<1>3. Front(q) = p
  <2>1. Front(q) = SubSeq(q, 1, n)
    BY <1>1 DEF Front
  <2>2. \A i \in 1..n : q[i] \in S
    BY <1>1
  <2>3. /\ SubSeq(q, 1, n) \in Seq(S) /\ Len(SubSeq(q, 1, n)) = n
        /\ \A i \in 1..n : SubSeq(q, 1, n)[i] = q[i]
    <3> HIDE DEF n
    <3>1. /\ SubSeq(q, 1, n) \in Seq(S)
          /\ Len(SubSeq(q, 1, n)) = IF 1 <= n THEN n - 1 + 1 ELSE 0
          /\ \A i \in 1..(n - 1 + 1) : SubSeq(q, 1, n)[i] = q[1 + i - 1]
      BY <1>1, <2>2, SubSeqProperties
    <3>2. n - 1 + 1 = n /\ \A i \in 1..n : 1 + i - 1 = i
      BY <1>1
    <3> QED
      BY <1>1, <3>1, <3>2
  <2> QED
    BY <1>1, <2>1, <2>3, SeqEqual
<1> QED
  BY <1>1, <1>2, <1>3 DEF q

LEMMA BothType ==
  ASSUME NEW c \in CallSet, NEW d \in CallSet
  PROVE  /\ Both(c, d) \in Seq(CallSet) /\ Both(c, d) # <<>>
         /\ c.cb \in CallNames /\ c.text \in Text
<1>1. c.cb \in CallNames /\ c.text \in Text /\ d.cb \in CallNames /\ d.text \in Text
  BY DEF CallSet
<1>2. c.text \o d.text \in Text
  BY <1>1, ConcatProperties DEF Text
<1>3. Call(d.cb, c.text \o d.text) \in CallSet
  BY <1>1, <1>2, TheCalls
<1> DEFINE e == Call(d.cb, c.text \o d.text)
<1> HIDE DEF e
<1>4. <<e>> \in Seq(CallSet) /\ <<e>> # <<>>
  BY <1>3 DEF e
<1>5. <<c>> \o <<d>> \in Seq(CallSet) /\ <<c>> \o <<d>> # <<>>
  BY LastOf
<1> QED
  BY <1>1, <1>4, <1>5 DEF Both, e

(* Merge only ever looks at the last call.                                 *)
LEMMA MergeIs ==
  /\ \A x \in CallSet : Merge(<<>>, x) = <<x>>
  /\ \A p \in Seq(CallSet), d \in CallSet, x \in CallSet :
        Merge(p \o <<d>>, x) = p \o Both(d, x)
<1>1. \A x \in CallSet : Merge(<<>>, x) = <<x>>
  BY DEF Merge
<1>2. ASSUME NEW p \in Seq(CallSet), NEW d \in CallSet, NEW x \in CallSet
      PROVE  Merge(p \o <<d>>, x) = p \o Both(d, x)
  <2> DEFINE q == p \o <<d>>
  <2>1. q \in Seq(CallSet) /\ q # <<>> /\ Last(q) = d /\ Front(q) = p
    BY LastOf
  <2>2. Append(q, x) = p \o (<<d>> \o <<x>>)
    <3>1. Append(q, x) = q \o <<x>>
      <4> HIDE DEF q
      <4> QED
        BY <2>1, AppendIsConcat
    <3>2. <<d>> \in Seq(CallSet) /\ <<x>> \in Seq(CallSet)
      OBVIOUS
    <3> DEFINE u == <<d>>
               v == <<x>>
    <3> HIDE DEF u, v
    <3>3. (p \o u) \o v = p \o (u \o v)
      BY <3>2, ConcatAssociative, SMTT(60) DEF u, v
    <3> QED
      BY <3>1, <3>3 DEF u, v
  <2> DEFINE one == <<Call(x.cb, d.text \o x.text)>>
             two == <<d>> \o <<x>>
             same == d.cb = x.cb /\ x.cb \in {"value", "body"}
  <2> HIDE DEF q
  <2>3. Merge(q, x) = IF same THEN p \o one ELSE Append(q, x)
    BY ONLY <2>1 DEF Merge
  <2>4. Both(d, x) = IF same THEN one ELSE two
    BY DEF Both
  <2> HIDE DEF one, two, same
  <2>5. Append(q, x) = p \o two
    BY <2>2 DEF two
  <2> QED
    BY ONLY <2>3, <2>4, <2>5 DEF q
<1> QED
  BY <1>1, <1>2

LEMMA JoinIs ==
  ASSUME NEW c \in CallSet
  PROVE  /\ Join(c, <<>>) = <<c>>
         /\ \A a \in CallSet, y \in Seq(CallSet) : Join(c, <<a>> \o y) = Both(c, a) \o y
         /\ \A q \in Seq(CallSet) : Join(c, q) \in Seq(CallSet)
<1>1. \A a \in CallSet, y \in Seq(CallSet) : Join(c, <<a>> \o y) = Both(c, a) \o y
  BY FirstOf DEF Join
<1>2. ASSUME NEW q \in Seq(CallSet) PROVE Join(c, q) \in Seq(CallSet)
  <2>1. CASE q = <<>>
    BY <2>1 DEF Join
  <2>2. CASE q # <<>>
    <3>1. Head(q) \in CallSet /\ Tail(q) \in Seq(CallSet)
      BY <2>2, HeadTailProperties
    <3>2. Both(c, Head(q)) \in Seq(CallSet)
      BY <3>1, BothType
    <3> QED
      BY <2>2, <3>1, <3>2, ConcatProperties DEF Join
  <2> QED
    BY <2>1, <2>2
<1> QED
  BY <1>1, <1>2 DEF Join

LEMMA MergeType ==
  ASSUME NEW q \in Seq(CallSet), NEW x \in CallSet
  PROVE  Merge(q, x) \in Seq(CallSet)
<1>1. CASE q = <<>>
  <2>1. <<x>> \in Seq(CallSet)
    OBVIOUS
  <2> QED
    BY <1>1, <2>1, MergeIs
<1>2. CASE q # <<>>
  <2>1. PICK p \in Seq(CallSet), d \in CallSet : q = Append(p, d)
    BY <1>2, SequenceEmptyOrAppend
  <2>2. q = p \o <<d>>
    BY <2>1, AppendIsConcat
  <2>3. Merge(q, x) = p \o Both(d, x)
    BY <2>2, MergeIs
  <2> QED
    BY <2>3, BothType, ConcatProperties
<1> QED
  BY <1>1, <1>2

LEMMA BothTwice ==
  ASSUME NEW c \in CallSet, NEW d \in CallSet, NEW x \in CallSet
  PROVE  Join(c, Both(d, x)) = Merge(Both(c, d), x)
<1> DEFINE likeX == d.cb = x.cb /\ x.cb \in {"value", "body"}
           likeC == c.cb = d.cb /\ d.cb \in {"value", "body"}
           dx == Call(x.cb, d.text \o x.text)
           cd == Call(d.cb, c.text \o d.text)
<1>1. /\ c.cb \in CallNames /\ c.text \in Text /\ d.cb \in CallNames /\ d.text \in Text
      /\ x.cb \in CallNames /\ x.text \in Text
  BY BothType
<1>2. dx \in CallSet /\ cd \in CallSet
  <2>1. c.text \o d.text \in Text /\ d.text \o x.text \in Text
    BY <1>1, ConcatProperties DEF Text
  <2> QED
    BY <1>1, <2>1, TheCalls
<1>3. /\ dx.cb = x.cb /\ dx.text = d.text \o x.text
      /\ cd.cb = d.cb /\ cd.text = c.text \o d.text
  BY DEF Call
<1>4. c.text \o (d.text \o x.text) = (c.text \o d.text) \o x.text
  <2> DEFINE t1 == c.text
             t2 == d.text
             t3 == x.text
  <2>1. t1 \in Seq(Char) /\ t2 \in Seq(Char) /\ t3 \in Seq(Char)
    BY <1>1 DEF Text
  <2> HIDE DEF t1, t2, t3
  <2>2. (t1 \o t2) \o t3 = t1 \o (t2 \o t3)
    BY ONLY <2>1, ConcatAssociative, SMTT(60)
  <2> QED
    BY ONLY <2>2 DEF t1, t2, t3
<1> DEFINE all == Call(x.cb, (c.text \o d.text) \o x.text)
<1>5. Both(d, x) = IF likeX THEN <<dx>> ELSE <<d>> \o <<x>>
  BY DEF Both
<1>6. Both(c, d) = IF likeC THEN <<cd>> ELSE <<c>> \o <<d>>
  BY DEF Both
<1>7. likeX => Both(c, dx) = IF likeC THEN <<all>> ELSE <<c>> \o <<dx>>
  BY <1>3, <1>4 DEF Both
<1>8. likeC => Both(cd, x) = IF likeX THEN <<all>> ELSE <<cd>> \o <<x>>
  BY <1>3 DEF Both
<1> HIDE DEF dx, cd, all
<1>9. /\ <<c>> \in Seq(CallSet) /\ <<d>> \in Seq(CallSet) /\ <<x>> \in Seq(CallSet)
      /\ <<dx>> \in Seq(CallSet) /\ <<cd>> \in Seq(CallSet) /\ <<>> \in Seq(CallSet)
  BY <1>2
<1>10. /\ Join(c, <<dx>>) = Both(c, dx)
       /\ Join(c, <<d>> \o <<x>>) = Both(c, d) \o <<x>>
  <2>1. <<dx>> = <<dx>> \o <<>>
    BY <1>9, ConcatEmptySeq
  <2>2. Join(c, <<dx>> \o <<>>) = Both(c, dx) \o <<>>
    BY ONLY <1>2, <1>9, JoinIs, ZenonT(40)
  <2>3. Both(c, dx) \o <<>> = Both(c, dx)
    BY ONLY <1>2, BothType, ConcatEmptySeq
  <2>4. Join(c, <<d>> \o <<x>>) = Both(c, d) \o <<x>>
    BY ONLY <1>9, JoinIs, ZenonT(40)
  <2> QED
    BY <2>1, <2>2, <2>3, <2>4
<1>11. /\ Merge(<<cd>>, x) = Both(cd, x)
       /\ Merge(<<c>> \o <<d>>, x) = <<c>> \o Both(d, x)
  <2>1. <<cd>> = <<>> \o <<cd>>
    BY <1>9, ConcatEmptySeq
  <2>2. Merge(<<>> \o <<cd>>, x) = <<>> \o Both(cd, x)
    BY ONLY <1>2, <1>9, MergeIs
  <2>3. <<>> \o Both(cd, x) = Both(cd, x)
    BY ONLY <1>2, BothType, ConcatEmptySeq
  <2>4. Merge(<<c>> \o <<d>>, x) = <<c>> \o Both(d, x)
    BY ONLY <1>9, MergeIs
  <2> QED
    BY <2>1, <2>2, <2>3, <2>4
<1>12. (<<c>> \o <<d>>) \o <<x>> = <<c>> \o (<<d>> \o <<x>>)
  <2> DEFINE u == <<c>>
             v == <<d>>
             w == <<x>>
  <2> HIDE DEF u, v, w
  <2>1. (u \o v) \o w = u \o (v \o w)
    BY <1>9, ConcatAssociative, SMTT(60) DEF u, v, w
  <2> QED
    BY <2>1 DEF u, v, w
<1> HIDE DEF likeX, likeC
<1> QED
  BY ONLY <1>5, <1>6, <1>7, <1>8, <1>10, <1>11, <1>12, Zenon

(* It is the same whether a call is joined in front before or after one is *)
(* merged behind.                                                          *)
LEMMA JoinMerge ==
  ASSUME NEW c \in CallSet, NEW q \in Seq(CallSet), NEW x \in CallSet
  PROVE  Join(c, Merge(q, x)) = Merge(Join(c, q), x)
<1>1. CASE q = <<>>
  <2>1. Merge(q, x) = <<x>> \o <<>> /\ Join(c, q) = <<>> \o <<c>>
    <3>1. <<x>> \in Seq(CallSet) /\ <<c>> \in Seq(CallSet)
      OBVIOUS
    <3> QED
      BY <1>1, <3>1, MergeIs, JoinIs, ConcatEmptySeq
  <2>2. <<>> \in Seq(CallSet)
    OBVIOUS
  <2>3. Join(c, <<x>> \o <<>>) = Both(c, x) \o <<>> /\ Merge(<<>> \o <<c>>, x) = <<>> \o Both(c, x)
    BY <2>2, MergeIs, JoinIs
  <2>4. Both(c, x) \o <<>> = Both(c, x) /\ <<>> \o Both(c, x) = Both(c, x)
    BY BothType, ConcatEmptySeq
  <2> QED
    BY <2>1, <2>3, <2>4
<1>2. CASE q # <<>>
  <2>1. PICK p \in Seq(CallSet), d \in CallSet : q = p \o <<d>>
    <3>1. PICK p \in Seq(CallSet), d \in CallSet : q = Append(p, d)
      BY <1>2, SequenceEmptyOrAppend
    <3>2. q = p \o <<d>>
      BY <3>1, AppendIsConcat
    <3> QED
      BY <3>2
  <2>2. Merge(q, x) = p \o Both(d, x)
    BY <2>1, MergeIs
  <2>3. /\ Both(d, x) \in Seq(CallSet) /\ Both(c, d) \in Seq(CallSet)
        /\ <<d>> \in Seq(CallSet) /\ <<>> \in Seq(CallSet)
    BY BothType
  <2>4. CASE p = <<>>
    <3>1. q = <<d>> \o <<>> /\ Merge(q, x) = Both(d, x)
      BY <2>1, <2>2, <2>3, <2>4, ConcatEmptySeq
    <3>2. Join(c, <<d>> \o <<>>) = Both(c, d) \o <<>> /\ Both(c, d) \o <<>> = Both(c, d)
      BY ONLY <2>3, JoinIs, ConcatEmptySeq
    <3> QED
      BY <3>1, <3>2, BothTwice
  <2>5. CASE p # <<>>
    <3> DEFINE a == Head(p)
               r == Tail(p)
               b == Both(c, a)
               e == Both(d, x)
               u == <<d>>
    <3>1. a \in CallSet /\ r \in Seq(CallSet) /\ p = <<a>> \o r
      BY <2>5, HeadJoined
    <3>2. b \in Seq(CallSet) /\ <<a>> \in Seq(CallSet) /\ e \in Seq(CallSet) /\ u \in Seq(CallSet)
      BY <2>3, <3>1, BothType
    <3> HIDE DEF a, r, b, e, u
    <3>3. r \o u \in Seq(CallSet) /\ r \o e \in Seq(CallSet) /\ b \o r \in Seq(CallSet)
      BY <3>1, <3>2, ConcatProperties
    <3>4. q = <<a>> \o (r \o u) /\ Merge(q, x) = <<a>> \o (r \o e)
      <4> DEFINE v == <<a>>
      <4>1. v \in Seq(CallSet)
        BY <3>2
      <4> HIDE DEF v
      <4>2. (v \o r) \o u = v \o (r \o u) /\ (v \o r) \o e = v \o (r \o e)
        <5>1. v \in Seq(CallSet) /\ r \in Seq(CallSet) /\ u \in Seq(CallSet) /\ e \in Seq(CallSet)
          BY ONLY <4>1, <3>1, <3>2
        <5>2. /\ Cat(Cat(v, r), u) = Cat(v, Cat(r, u))
               /\ Cat(Cat(v, r), e) = Cat(v, Cat(r, e))
          BY ONLY <5>1, RegroupCalls
        <5> QED
          BY ONLY <5>2 DEF Cat
      <4> QED
        BY <2>1, <2>2, <3>1, <4>2 DEF u, e, v
    <3>5. Join(c, q) = b \o (r \o u) /\ Join(c, Merge(q, x)) = b \o (r \o e)
      <4>1. Join(c, <<a>> \o (r \o u)) = b \o (r \o u)
            /\ Join(c, <<a>> \o (r \o e)) = b \o (r \o e)
        <5> DEFINE y == r \o u
                   z == r \o e
        <5>1. y \in Seq(CallSet) /\ z \in Seq(CallSet)
          BY <3>3
        <5> HIDE DEF y, z
        <5>2. \A i \in Seq(CallSet) : Join(c, <<a>> \o i) = Both(c, a) \o i
          BY ONLY c \in CallSet, <3>1, JoinIs
        <5> QED
          BY ONLY <5>1, <5>2 DEF b, y, z
      <4> QED
        BY ONLY <3>4, <4>1
    <3>6. b \o (r \o u) = (b \o r) \o u /\ b \o (r \o e) = (b \o r) \o e
      <4>1. b \in Seq(CallSet) /\ r \in Seq(CallSet) /\ u \in Seq(CallSet) /\ e \in Seq(CallSet)
        BY ONLY <3>1, <3>2
      <4>2. /\ Cat(Cat(b, r), u) = Cat(b, Cat(r, u))
             /\ Cat(Cat(b, r), e) = Cat(b, Cat(r, e))
        BY ONLY <4>1, RegroupCalls
      <4> QED
        BY ONLY <4>2 DEF Cat
    <3>7. Merge((b \o r) \o u, x) = (b \o r) \o e
      BY <3>3, MergeIs DEF u, e
    <3> QED
      BY <3>5, <3>6, <3>7
  <2> QED
    BY <2>4, <2>5
<1> QED
  BY <1>1, <1>2

(* What is merged of the first k calls.                                    *)
Merges(h, s) == /\ h \in [0..Len(s) -> Seq(CallSet)]
                /\ h[0] = <<>>
                /\ \A k \in 1..Len(s) : h[k] = Merge(h[k - 1], s[k])

(* There is one way to merge.                                              *)
LEMMA MergesOnce ==
  ASSUME NEW s \in Seq(CallSet), NEW g, NEW h, Merges(g, s), Merges(h, s)
  PROVE  g[Len(s)] = h[Len(s)]
<1> DEFINE D == {k \in Nat : k <= Len(s) /\ g[k] # h[k]}
<1>1. Len(s) \in Nat /\ g[0] = <<>> /\ h[0] = <<>>
      /\ \A k \in 1..Len(s) : g[k] = Merge(g[k - 1], s[k]) /\ h[k] = Merge(h[k - 1], s[k])
  BY LenProperties DEF Merges
<1>2. ASSUME D # {} PROVE FALSE
  <2>1. PICK k \in D : \A j \in D : k <= j
    <3>1. D \in SUBSET Nat
      OBVIOUS
    <3> HIDE DEF D
    <3> QED
      BY <1>2, <3>1, LeastOf
  <2>2. k \in Nat /\ k <= Len(s) /\ g[k] # h[k]
    OBVIOUS
  <2>3. k # 0 /\ k \in 1..Len(s) /\ k - 1 \in Nat /\ k - 1 <= Len(s) /\ ~(k <= k - 1)
    BY <1>1, <2>2
  <2>4. k - 1 \notin D
    <3> HIDE DEF D
    <3> QED
      BY <2>1, <2>3
  <2>5. g[k - 1] = h[k - 1]
    BY <2>3, <2>4
  <2> QED
    BY <1>1, <2>2, <2>3, <2>5
<1>3. Len(s) \notin D
  BY <1>2
<1> QED
  BY <1>1, <1>3

(* FoldLeft goes through the calls in their order.                         *)
LEMMA MergedIs ==
  ASSUME NEW s \in Seq(CallSet)
  PROVE  \E h : Merges(h, s) /\ Merged(s) = h[Len(s)]
<1> DEFINE n == Len(s)
           X == Seq(CallSet)
           it == CHOOSE f : f = [A \in SUBSET (1..n) |->
                   IF A = {} THEN <<>> ELSE Merge(f[A \ {Max(A)}], s[Max(A)])]
           G == [p \in X \X CallSet |-> Merge(p[1], p[2])]
<1>1. Merged(s) = it[1..n]
  <2>1. DOMAIN s = 1..n
    OBVIOUS
  <2> QED
    BY <2>1 DEF Merged, FoldLeft, MapThenFoldSet
<1>2. n \in Nat /\ \A i \in 1..n : s[i] \in CallSet
  BY LenProperties, ElementOfSeq
<1>3. G \in [X \X CallSet -> X]
  <2>1. \A p \in X \X CallSet : Merge(p[1], p[2]) \in X
    <3>1. \A q \in X : \A x \in CallSet : Merge(q, x) \in X
      BY MergeType
    <3> HIDE DEF X
    <3> QED
      BY <3>1
  <2> HIDE DEF X
  <2> QED
    BY <2>1
<1>4. \A q \in X : \A x \in CallSet : G[<<q, x>>] = Merge(q, x)
  <2> HIDE DEF X
  <2> QED
    OBVIOUS
<1>5. PICK g \in [SUBSET (1..n) -> X] : FoldsTo(g, G, <<>>, s, n)
  <2>1. <<>> \in X
    OBVIOUS
  <2> HIDE DEF X, G
  <2> QED
    BY <1>3, <2>1, FoldsSome
<1> HIDE DEF G, X, n
<1>6. ASSUME NEW A \in SUBSET (1..n)
      PROVE  g[A] = IF A = {} THEN <<>> ELSE Merge(g[A \ {Max(A)}], s[Max(A)])
  <2>1. g[A] = IF A = {} THEN <<>> ELSE G[<<g[A \ {Max(A)}], s[Max(A)]>>]
    BY <1>5 DEF FoldsTo
  <2>2. A # {} => g[A \ {Max(A)}] \in X /\ s[Max(A)] \in CallSet
    <3>1. A # {} => Max(A) \in A
      BY <1>2, SomeLast
    <3> HIDE DEF Max
    <3> QED
      BY <1>2, <3>1
  <2> QED
    BY <1>4, <2>1, <2>2
<1>7. g = [A \in SUBSET (1..n) |-> IF A = {} THEN <<>> ELSE Merge(g[A \ {Max(A)}], s[Max(A)])]
  <2>1. g = [A \in SUBSET (1..n) |-> g[A]]
    OBVIOUS
  <2>2. [A \in SUBSET (1..n) |-> g[A]]
        = [A \in SUBSET (1..n) |-> IF A = {} THEN <<>> ELSE Merge(g[A \ {Max(A)}], s[Max(A)])]
    BY <1>6
  <2> QED
    BY <2>1, <2>2
<1>8. it = [A \in SUBSET (1..n) |-> IF A = {} THEN <<>> ELSE Merge(it[A \ {Max(A)}], s[Max(A)])]
  BY <1>7
<1> HIDE DEF it
<1>9. \A A \in SUBSET (1..n) : it[A] = IF A = {} THEN <<>> ELSE Merge(it[A \ {Max(A)}], s[Max(A)])
  BY <1>8
<1> DEFINE h == [k \in 0..n |-> it[1..k]]
<1>10. h[0] = <<>> /\ h[n] = it[1..n]
  <2>1. 1..0 = {} /\ {} \in SUBSET (1..n) /\ 0 \in 0..n /\ n \in 0..n
    BY <1>2
  <2> QED
    BY <1>9, <2>1
<1>11. ASSUME NEW k \in 1..n PROVE h[k] = Merge(h[k - 1], s[k])
  <2>1. k \in 0..n /\ k - 1 \in 0..n /\ k \in Nat /\ k \in 1..k /\ 1..k # {}
        /\ 1..k \in SUBSET (1..n) /\ (1..k) \ {k} = 1..(k - 1)
    BY <1>2
  <2>2. Max(1..k) = k
    BY <2>1, LastIn
  <2>3. it[1..k] = Merge(it[1..(k - 1)], s[k])
    BY <1>9, <2>1, <2>2
  <2> QED
    BY <2>1, <2>3
<1>12. h \in [0..n -> X]
  <2> DEFINE D == {k \in Nat : k <= n /\ h[k] \notin X}
  <2>1. ASSUME D # {} PROVE FALSE
    <3>1. PICK k \in D : \A j \in D : k <= j
      <4>1. D \in SUBSET Nat
        OBVIOUS
      <4> HIDE DEF D
      <4> QED
        BY <2>1, <4>1, LeastOf
    <3>2. k \in Nat /\ k <= n /\ h[k] \notin X
      OBVIOUS
    <3>3. <<>> \in X
      BY DEF X
    <3>4. k \in 1..n /\ k - 1 \in Nat /\ k - 1 <= n /\ ~(k <= k - 1)
      <4> HIDE DEF h
      <4>1. k # 0
        BY <1>10, <3>2, <3>3
      <4> QED
        BY <1>2, <3>2, <4>1
    <3>5. k - 1 \notin D
      <4> HIDE DEF D
      <4> QED
        BY <3>1, <3>4
    <3> HIDE DEF h
    <3>6. h[k - 1] \in X /\ s[k] \in CallSet
      BY <1>2, <3>4, <3>5
    <3> QED
      BY <1>11, <3>2, <3>4, <3>6, MergeType DEF X
  <2>2. \A k \in 0..n : h[k] \in X
    <3> HIDE DEF h
    <3>1. \A k \in 0..n : k \in Nat /\ k <= n
      BY <1>2
    <3> QED
      BY <2>1, <3>1
  <2> QED
    BY <2>2
<1> HIDE DEF h
<1>13. Merges(h, s)
  BY <1>10, <1>11, <1>12 DEF Merges, n, X
<1> QED
  BY <1>1, <1>10, <1>13 DEF n

(***************************************************************************)
(* FoldLeft merges from the left; the parser reads its lines from there as *)
(* well, so what is merged is said of a first call and the rest.           *)
(***************************************************************************)
LEMMA MergedJoin ==
  /\ Merged(<<>>) = <<>>
  /\ \A s \in Seq(CallSet) : Merged(s) \in Seq(CallSet)
  /\ \A c \in CallSet, s \in Seq(CallSet) : Merged(<<c>> \o s) = Join(c, Merged(s))
<1>1. Merged(<<>>) = <<>>
  <2>1. <<>> \in Seq(CallSet) /\ Len(<<>>) = 0
    OBVIOUS
  <2>2. PICK h : Merges(h, <<>>) /\ Merged(<<>>) = h[Len(<<>>)]
    BY <2>1, MergedIs
  <2> QED
    BY <2>1, <2>2 DEF Merges
<1>2. ASSUME NEW s \in Seq(CallSet) PROVE Merged(s) \in Seq(CallSet)
  <2>1. PICK h : Merges(h, s) /\ Merged(s) = h[Len(s)]
    BY MergedIs
  <2>2. Len(s) \in 0..Len(s)
    BY LenProperties
  <2> QED
    BY <2>1, <2>2 DEF Merges
<1>3. ASSUME NEW c \in CallSet, NEW s \in Seq(CallSet)
      PROVE  Merged(<<c>> \o s) = Join(c, Merged(s))
  <2> DEFINE n == Len(s)
             r == <<c>> \o s
  <2>1. PICK h : Merges(h, s) /\ Merged(s) = h[n]
    BY MergedIs
  <2>2. /\ h \in [0..n -> Seq(CallSet)] /\ h[0] = <<>>
        /\ \A k \in 1..n : h[k] = Merge(h[k - 1], s[k])
    BY <2>1 DEF Merges
  <2>3. /\ r \in Seq(CallSet) /\ n \in Nat /\ Len(r) = n + 1 /\ r[1] = c
        /\ \A k \in 1..n : r[k + 1] = s[k] /\ s[k] \in CallSet
    <3>1. <<c>> \in Seq(CallSet) /\ Len(<<c>>) = 1 /\ <<c>>[1] = c
      OBVIOUS
    <3>2. n \in Nat /\ \A k \in 1..n : s[k] \in CallSet
      BY LenProperties, ElementOfSeq
    <3>3. /\ r \in Seq(CallSet) /\ Len(r) = Len(<<c>>) + n
          /\ \A i \in 1..(Len(<<c>>) + n) : r[i] = IF i <= Len(<<c>>) THEN <<c>>[i] ELSE s[i - Len(<<c>>)]
      BY <3>1, ConcatProperties
    <3> HIDE DEF r, n
    <3>4. \A i \in 1..(1 + n) : r[i] = IF i <= 1 THEN <<c>>[i] ELSE s[i - 1]
      BY <3>1, <3>3
    <3>5. 1 \in 1..(1 + n)
      BY <3>2
    <3>6. \A k \in 1..n : k + 1 \in 1..(1 + n) /\ ~(k + 1 <= 1) /\ (k + 1) - 1 = k
      BY <3>2
    <3>7. \A k \in 1..n : r[k + 1] = s[k]
      BY <3>4, <3>6
    <3> QED
      BY <3>1, <3>2, <3>3, <3>4, <3>5, <3>7
  <2> HIDE DEF n, r
  <2> DEFINE g == [k \in 0..(n + 1) |-> IF k = 0 THEN <<>> ELSE Join(c, h[k - 1])]
  <2>4. ASSUME NEW k \in 0..n PROVE g[k + 1] = Join(c, h[k]) /\ h[k] \in Seq(CallSet)
    <3>1. k + 1 \in 0..(n + 1) /\ k + 1 # 0 /\ (k + 1) - 1 = k
      BY <2>3
    <3> QED
      BY <2>2, <3>1
  <2>5. g[0] = <<>>
    <3>1. 0 \in 0..(n + 1)
      BY <2>3
    <3> QED
      BY <3>1
  <2>6. g \in [0..(n + 1) -> Seq(CallSet)]
    <3>1. ASSUME NEW k \in 0..(n + 1) PROVE g[k] \in Seq(CallSet)
      <4>1. CASE k = 0
        BY <2>5, <4>1
      <4>2. CASE k # 0
        <5>1. k - 1 \in 0..n /\ (k - 1) + 1 = k
          BY <2>3, <4>2
        <5> HIDE DEF g
        <5>2. g[(k - 1) + 1] = Join(c, h[k - 1]) /\ h[k - 1] \in Seq(CallSet)
          BY <2>4, <5>1
        <5> QED
          BY <5>1, <5>2, JoinIs
      <4> QED
        BY <4>1, <4>2
    <3> QED
      BY <3>1
  <2> HIDE DEF g
  <2>7. ASSUME NEW k \in 1..(n + 1) PROVE g[k] = Merge(g[k - 1], r[k])
    <3>1. CASE k = 1
      <4>1. 0 \in 0..n
        BY <2>3
      <4>2. g[0 + 1] = Join(c, h[0])
        BY <2>4, <4>1
      <4>3. g[1] = <<c>> /\ r[1] = c
        <5>1. Join(c, <<>>) = <<c>>
          BY JoinIs
        <5>2. g[1] = Join(c, h[0])
          BY <4>2
        <5> QED
          BY <2>2, <2>3, <5>1, <5>2
      <4>4. Merge(<<>>, c) = <<c>>
        BY MergeIs
      <4>5. k - 1 = 0
        BY <3>1
      <4> QED
        BY <2>5, <3>1, <4>3, <4>4, <4>5
    <3>2. CASE k # 1
      <4> DEFINE i == k - 1
      <4>1. i \in 1..n /\ i \in 0..n /\ i - 1 \in 0..n /\ i + 1 = k /\ (i - 1) + 1 = i
        BY <2>3, <3>2
      <4> HIDE DEF i
      <4>2. g[i + 1] = Join(c, h[i]) /\ g[(i - 1) + 1] = Join(c, h[i - 1]) /\ h[i - 1] \in Seq(CallSet)
        BY <2>4, <4>1
      <4>3. h[i] = Merge(h[i - 1], s[i]) /\ r[i + 1] = s[i] /\ s[i] \in CallSet
        BY <2>2, <2>3, <4>1
      <4>4. Join(c, Merge(h[i - 1], s[i])) = Merge(Join(c, h[i - 1]), s[i])
        BY <4>2, <4>3, JoinMerge
      <4> QED
        BY <4>1, <4>2, <4>3, <4>4 DEF i
    <3> QED
      BY <3>1, <3>2
  <2>8. Merges(g, r)
    BY <2>3, <2>5, <2>6, <2>7 DEF Merges
  <2>9. PICK f : Merges(f, r) /\ Merged(r) = f[Len(r)]
    BY <2>3, MergedIs
  <2>10. f[Len(r)] = g[Len(r)]
    BY <2>3, <2>8, <2>9, MergesOnce
  <2>11. g[n + 1] = Join(c, h[n])
    <3>1. n \in 0..n
      BY <2>3
    <3> QED
      BY <2>4, <3>1
  <2> QED
    BY <2>1, <2>3, <2>9, <2>10, <2>11 DEF r, n
<1> QED
  BY <1>1, <1>2, <1>3

-----------------------------------------------------------------------------
(* The calls that an input is due, line by line.                           *)

(* The lines of an input: those of senders and what may stray in.          *)
AnyLine == LineSet \cup {Junk, Empty("nothing")}

(* RestOfMessage and the calls it is due, of any input.                    *)
UpToNext(in) ==
  LET next == {i \in DOMAIN in : IsFirst(in[i])}
  IN  IF next = {} THEN in ELSE SubSeq(in, 1, Min(next) - 1)

(* The calls that http_parser has still to make for a message at its line. *)
CallsIn(in) == LET rest == UpToNext(in)
               IN  FlattenSeq([i \in DOMAIN rest |-> CallsOf(rest[i])])

(* The lines up to the next first line, when there is one and when there   *)
(* is none.                                                                *)
LEMMA StopsAt ==
  ASSUME NEW in \in Seq(AnyLine)
  PROVE  /\ (\A i \in 1..Len(in) : ~IsFirst(in[i])) => UpToNext(in) = in
         /\ \A m \in 1..Len(in) : IsFirst(in[m]) /\ (\A i \in 1..(m - 1) : ~IsFirst(in[i]))
              => UpToNext(in) = SubSeq(in, 1, m - 1)
<1> DEFINE next == {i \in DOMAIN in : IsFirst(in[i])}
<1>1. Len(in) \in Nat /\ DOMAIN in = 1..Len(in)
  BY LenProperties
<1>2. ASSUME \A i \in 1..Len(in) : ~IsFirst(in[i]) PROVE UpToNext(in) = in
  <2>1. next = {}
    BY <1>1, <1>2
  <2> HIDE DEF next
  <2>2. UpToNext(in) = IF next = {} THEN in ELSE SubSeq(in, 1, Min(next) - 1)
    BY DEF UpToNext, next
  <2> QED
    BY <2>1, <2>2
<1>3. ASSUME NEW m \in 1..Len(in), IsFirst(in[m]), \A i \in 1..(m - 1) : ~IsFirst(in[i])
      PROVE  UpToNext(in) = SubSeq(in, 1, m - 1)
  <2>1. m \in next /\ \A i \in next : m <= i /\ i \in Nat
    BY <1>1, <1>3
  <2> HIDE DEF next
  <2>2. Min(next) = m
    <3>1. \E i \in next : \A k \in next : i <= k
      BY <2>1
    <3>2. Min(next) \in next /\ \A k \in next : Min(next) <= k
      BY <3>1 DEF Min
    <3> HIDE DEF Min
    <3>3. Min(next) <= m /\ m <= Min(next) /\ Min(next) \in Nat /\ m \in Nat
      BY <2>1, <3>2
    <3> QED
      BY <3>3
  <2>3. UpToNext(in) = IF next = {} THEN in ELSE SubSeq(in, 1, Min(next) - 1)
    BY DEF UpToNext, next
  <2> QED
    BY <2>1, <2>2, <2>3
<1> QED
  BY <1>2, <1>3

LEMMA SomeFirst ==
  ASSUME NEW in \in Seq(AnyLine), NEW k \in 1..Len(in), IsFirst(in[k])
  PROVE  \E m \in 1..Len(in) : IsFirst(in[m]) /\ \A i \in 1..(m - 1) : ~IsFirst(in[i])
<1> DEFINE D == {i \in Nat : i \in 1..Len(in) /\ IsFirst(in[i])}
<1>1. PICK m \in D : \A i \in D : m <= i
  <2>1. k \in D /\ D \in SUBSET Nat
    OBVIOUS
  <2> HIDE DEF D
  <2> QED
    BY <2>1, LeastOf
<1>2. m \in 1..Len(in) /\ IsFirst(in[m]) /\ Len(in) \in Nat
  BY LenProperties
<1>3. \A i \in 1..(m - 1) : i \in Nat /\ i \in 1..Len(in) /\ ~(m <= i)
  BY <1>2
<1>4. \A i \in 1..(m - 1) : ~IsFirst(in[i])
  BY <1>1, <1>3
<1> QED
  BY <1>2, <1>4

(* A first line is where the message before it ends.                       *)
LEMMA UpToStep ==
  ASSUME NEW l \in AnyLine, NEW r \in Seq(AnyLine)
  PROVE  /\ UpToNext(<<>>) = <<>>
         /\ UpToNext(r) \in Seq(AnyLine)
         /\ IsFirst(l) => UpToNext(<<l>> \o r) = <<>>
         /\ ~IsFirst(l) => UpToNext(<<l>> \o r) = <<l>> \o UpToNext(r)
<1> DEFINE s == <<l>> \o r
           n == Len(r)
<1>1. /\ s \in Seq(AnyLine) /\ n \in Nat /\ Len(s) = n + 1 /\ s[1] = l
      /\ \A k \in 1..n : s[k + 1] = r[k] /\ r[k] \in AnyLine
      /\ \A k \in 2..(n + 1) : s[k] = r[k - 1] /\ k - 1 \in 1..n
  <2>1. <<l>> \in Seq(AnyLine) /\ Len(<<l>>) = 1 /\ <<l>>[1] = l
    OBVIOUS
  <2>2. n \in Nat /\ \A k \in 1..n : r[k] \in AnyLine
    BY LenProperties, ElementOfSeq
  <2>3. /\ s \in Seq(AnyLine) /\ Len(s) = Len(<<l>>) + n
        /\ \A i \in 1..(Len(<<l>>) + n) : s[i] = IF i <= Len(<<l>>) THEN <<l>>[i] ELSE r[i - Len(<<l>>)]
    BY <2>1, ConcatProperties
  <2> HIDE DEF s, n
  <2>4. \A i \in 1..(1 + n) : s[i] = IF i <= 1 THEN <<l>>[i] ELSE r[i - 1]
    BY <2>1, <2>3
  <2>5. 1 \in 1..(1 + n)
    BY <2>2
  <2>6. \A k \in 1..n : k + 1 \in 1..(1 + n) /\ ~(k + 1 <= 1) /\ (k + 1) - 1 = k
    BY <2>2
  <2>7. \A k \in 1..n : s[k + 1] = r[k]
    BY <2>4, <2>6
  <2>8. \A k \in 2..(n + 1) : k \in 1..(1 + n) /\ ~(k <= 1) /\ k - 1 \in 1..n
    BY <2>2
  <2>9. \A k \in 2..(n + 1) : s[k] = r[k - 1] /\ k - 1 \in 1..n
    BY <2>4, <2>8
  <2> QED
    BY <2>1, <2>2, <2>3, <2>4, <2>5, <2>7, <2>9
<1> HIDE DEF s, n
<1>2. UpToNext(<<>>) = <<>>
  <2>1. <<>> \in Seq(AnyLine) /\ Len(<<>>) = 0 /\ 1..0 = {}
    OBVIOUS
  <2>2. \A i \in 1..Len(<<>>) : ~IsFirst(<<>>[i])
    BY <2>1
  <2> QED
    BY <2>1, <2>2, StopsAt
<1>3. CASE \A i \in 1..n : ~IsFirst(r[i])
  <2>1. UpToNext(r) = r
    BY <1>3, StopsAt DEF n
  <2>2. IsFirst(l) => UpToNext(s) = <<>>
    <3>1. IsFirst(l) => UpToNext(s) = SubSeq(s, 1, 1 - 1)
      <4>1. 1 \in 1..Len(s) /\ 1..(1 - 1) = {}
        BY <1>1
      <4> QED
        BY <1>1, <4>1, StopsAt
    <3> QED
      BY <3>1, SubSeqEmpty
  <2>3. ~IsFirst(l) => UpToNext(s) = s
    <3>1. ~IsFirst(l) => \A i \in 1..Len(s) : ~IsFirst(s[i])
      <4> SUFFICES ASSUME ~IsFirst(l), NEW i \in 1..Len(s) PROVE ~IsFirst(s[i])
        OBVIOUS
      <4>1. i = 1 \/ i \in 2..(n + 1)
        BY <1>1
      <4> QED
        BY <1>1, <1>3, <4>1
    <3> QED
      BY <1>1, <3>1, StopsAt
  <2> QED
    BY <1>2, <2>1, <2>2, <2>3 DEF s
<1>4. CASE \E k \in 1..n : IsFirst(r[k])
  <2>1. PICK m \in 1..n : IsFirst(r[m]) /\ \A i \in 1..(m - 1) : ~IsFirst(r[i])
    BY <1>4, SomeFirst DEF n
  <2>2. UpToNext(r) = SubSeq(r, 1, m - 1)
    BY <2>1, StopsAt DEF n
  <2> DEFINE u == SubSeq(r, 1, m - 1)
  <2>3. u \in Seq(AnyLine) /\ Len(u) = m - 1 /\ \A i \in 1..(m - 1) : u[i] = r[i]
    <3>1. m - 1 \in Int /\ m - 1 \in Nat /\ \A i \in 1..(m - 1) : r[i] \in AnyLine
      BY <1>1
    <3> DEFINE k == m - 1
    <3>2. k \in Nat /\ \A i \in 1..k : r[i] \in AnyLine
      BY <3>1
    <3> HIDE DEF k
    <3>3. /\ SubSeq(r, 1, k) \in Seq(AnyLine)
          /\ Len(SubSeq(r, 1, k)) = IF 1 <= k THEN k - 1 + 1 ELSE 0
          /\ \A i \in 1..(k - 1 + 1) : SubSeq(r, 1, k)[i] = r[1 + i - 1]
      BY <3>2, SubSeqProperties
    <3>4. k - 1 + 1 = k /\ \A i \in 1..k : 1 + i - 1 = i
      BY <3>2
    <3>5. SubSeq(r, 1, k) \in Seq(AnyLine) /\ Len(SubSeq(r, 1, k)) = k
          /\ \A i \in 1..k : SubSeq(r, 1, k)[i] = r[i]
      BY <3>2, <3>3, <3>4
    <3> QED
      BY <3>5 DEF k
  <2>4. IsFirst(l) => UpToNext(s) = <<>>
    <3>1. IsFirst(l) => UpToNext(s) = SubSeq(s, 1, 1 - 1)
      <4>1. 1 \in 1..Len(s) /\ 1..(1 - 1) = {}
        BY <1>1
      <4> QED
        BY <1>1, <4>1, StopsAt
    <3> QED
      BY <3>1, SubSeqEmpty
  <2>5. ASSUME ~IsFirst(l) PROVE UpToNext(s) = <<l>> \o u
    <3>1. m + 1 \in 1..Len(s) /\ s[m + 1] = r[m] /\ (m + 1) - 1 = m
      BY <1>1
    <3>2. \A i \in 1..((m + 1) - 1) : ~IsFirst(s[i])
      <4> SUFFICES ASSUME NEW i \in 1..m PROVE ~IsFirst(s[i])
        BY <3>1
      <4>1. i = 1 \/ (i \in 2..(n + 1) /\ i - 1 \in 1..(m - 1))
        BY <1>1
      <4> QED
        BY <1>1, <2>1, <2>5, <4>1
    <3>3. UpToNext(s) = SubSeq(s, 1, m)
      <4>1. UpToNext(s) = SubSeq(s, 1, (m + 1) - 1)
        BY <1>1, <2>1, <3>1, <3>2, StopsAt
      <4> QED
        BY <3>1, <4>1
    <3> DEFINE v == SubSeq(s, 1, m)
               w == <<l>> \o u
    <3>4. v \in Seq(AnyLine) /\ Len(v) = m /\ \A i \in 1..m : v[i] = s[i]
      <4>1. m \in Nat /\ 1 <= m /\ \A i \in 1..m : s[i] \in AnyLine
        <5>1. \A i \in 1..Len(s) : s[i] \in AnyLine
          BY <1>1, ElementOfSeq
        <5> QED
          BY <1>1, <5>1
      <4>2. /\ SubSeq(s, 1, m) \in Seq(AnyLine)
            /\ Len(SubSeq(s, 1, m)) = IF 1 <= m THEN m - 1 + 1 ELSE 0
            /\ \A i \in 1..(m - 1 + 1) : SubSeq(s, 1, m)[i] = s[1 + i - 1]
        BY <4>1, SubSeqProperties
      <4>3. m - 1 + 1 = m /\ \A i \in 1..m : 1 + i - 1 = i
        BY <4>1
      <4> QED
        BY <4>1, <4>2, <4>3
    <3>5. w \in Seq(AnyLine) /\ Len(w) = m /\ w[1] = l /\ \A i \in 2..m : w[i] = r[i - 1]
      <4> HIDE DEF u
      <4>1. <<l>> \in Seq(AnyLine) /\ Len(<<l>>) = 1 /\ <<l>>[1] = l
        OBVIOUS
      <4>2. /\ w \in Seq(AnyLine) /\ Len(w) = Len(<<l>>) + Len(u)
            /\ \A i \in 1..(Len(<<l>>) + Len(u)) : w[i] = IF i <= Len(<<l>>) THEN <<l>>[i] ELSE u[i - Len(<<l>>)]
        BY <2>3, <4>1, ConcatProperties
      <4> HIDE DEF w
      <4>3. Len(<<l>>) + Len(u) = m
        BY <2>3, <4>1
      <4>4. Len(w) = m /\ \A i \in 1..m : w[i] = IF i <= 1 THEN <<l>>[i] ELSE u[i - 1]
        BY <4>1, <4>2, <4>3
      <4>5. 1 \in 1..m /\ \A i \in 2..m : i \in 1..m /\ ~(i <= 1) /\ i - 1 \in 1..(m - 1)
        OBVIOUS
      <4>6. \A i \in 2..m : w[i] = u[i - 1] /\ u[i - 1] = r[i - 1]
        BY <2>3, <4>4, <4>5
      <4> QED
        BY <4>1, <4>2, <4>4, <4>5, <4>6
    <3> HIDE DEF v, w
    <3>6. \A i \in 1..m : v[i] = w[i]
      <4> SUFFICES ASSUME NEW i \in 1..m PROVE v[i] = w[i]
        OBVIOUS
      <4>1. i = 1 \/ (i \in 2..(n + 1) /\ i \in 2..m)
        BY <1>1
      <4> QED
        BY <1>1, <3>4, <3>5, <4>1
    <3>7. v = w
      BY <3>4, <3>5, <3>6, SeqEqual
    <3> QED
      BY <3>3, <3>7 DEF v, w
  <2> QED
    BY <1>2, <2>2, <2>3, <2>4, <2>5 DEF s
<1> QED
  BY <1>3, <1>4 DEF s

(***************************************************************************)
(* What a header adds to the calls K behind it: its name, and a value that *)
(* may go on in K, or, without a colon, its name alone.                    *)
(***************************************************************************)
Adds(h, K) == <<Call("field", h.name)>>
              \o (IF h.colon THEN Join(Call("value", h.value), K) ELSE K)

LEMMA AddsOf ==
  ASSUME NEW h \in Headers
  PROVE  /\ h.name \in Text /\ h.value \in Text /\ h.colon \in BOOLEAN
         /\ PairCall(h) \in Seq(CallSet)
         /\ Call("field", h.name) \in CallSet /\ Call("value", h.value) \in CallSet
         /\ h.colon => PairCall(h) = <<Call("field", h.name), Call("value", h.value)>>
         /\ ~h.colon => PairCall(h) = <<Call("field", h.name)>>
<1>1. h.name \in Text /\ h.value \in Text /\ h.colon \in BOOLEAN
  BY DEF Headers
<1> DEFINE f == Call("field", h.name)
           v == Call("value", h.value)
<1>2. f \in CallSet /\ v \in CallSet
  BY <1>1, TheCalls DEF CallNames
<1>3. /\ h.colon => PairCall(h) = <<f, v>>
      /\ ~h.colon => PairCall(h) = <<f>>
  BY Zenon DEF PairCall
<1> HIDE DEF f, v
<1>4. <<f, v>> \in Seq(CallSet) /\ <<f>> \in Seq(CallSet)
  BY ONLY <1>2
<1>5. PairCall(h) \in Seq(CallSet)
  BY <1>3, <1>4, Zenon
<1> QED
  BY <1>1, <1>2, <1>3, <1>5, Zenon DEF f, v

(* What each kind of line is reported with.                                *)
LEMMA CallsOfLine ==
  ASSUME NEW l \in AnyLine
  PROVE  /\ CallsOf(l) \in Seq(CallSet)
         /\ l.t = "header" => CallsOf(l) = PairCall(l.h)
         /\ l.t = "fold" => CallsOf(l) = <<Call("value", l.f.text)>> /\ l.f.text \in Text
         /\ l.t = "data" => CallsOf(l) = <<Call("body", l.text)>> /\ l.text \in Text
         /\ l = Empty("headers") => CallsOf(l) = <<Call("headers", <<>>)>>
         /\ l = Empty("trailers") \/ l = Empty("nothing") => CallsOf(l) = <<>>
         /\ l.t \in {"url", "status", "size", "junk"} => CallsOf(l) = <<>>
         /\ l.t = "header" => l.h \in Headers
         /\ l.t \in {"url", "status", "size", "junk", "header", "fold", "data", "empty"}
         /\ l.t = "empty" => l \in {Empty("headers"), Empty("trailers"), Empty("nothing")}
<1>1. \/ l \in [t : {"url", "status"}, s : Sendings]
      \/ l \in [t : {"header"}, h : Headers]
      \/ l \in FoldLines \/ l \in [t : {"data"}, text : Text]
      \/ l \in [t : {"size"}, n : Nat]
      \/ l \in [t : {"empty"}, ends : {"headers", "trailers"}]
      \/ l = Junk \/ l = Empty("nothing")
  BY DEF AnyLine, LineSet
<1>2. <<>> \in Seq(CallSet) /\ <<>> \in Text
  BY DEF Text
<1>3. \A a \in CallSet : <<a>> \in Seq(CallSet)
  OBVIOUS
<1>5. Call("headers", <<>>) \in CallSet
  BY <1>2, TheCalls DEF CallNames
<1>6. CASE l \in [t : {"url", "status"}, s : Sendings]
  <2>1. l.t \in {"url", "status"}
    BY <1>6
  <2>2. CallsOf(l) = <<>>
    BY <2>1 DEF CallsOf
  <2> QED
    BY <1>2, <2>1, <2>2 DEF Empty
<1>7. CASE l \in [t : {"header"}, h : Headers]
  <2>1. l.t = "header" /\ l.h \in Headers
    BY <1>7
  <2>2. CallsOf(l) = PairCall(l.h)
    BY <2>1 DEF CallsOf
  <2>3. CallsOf(l) \in Seq(CallSet)
    BY <2>1, <2>2, AddsOf
  <2> QED
    BY <2>1, <2>2, <2>3 DEF Empty
<1>8. CASE l \in FoldLines
  <2>1. l.t = "fold" /\ l.f.text \in Text
    BY <1>8, FoldIs
  <2>2. CallsOf(l) = <<Call("value", l.f.text)>>
    BY <2>1 DEF CallsOf
  <2>3. Call("value", l.f.text) \in CallSet
    BY <2>1, TheCalls DEF CallNames
  <2>4. CallsOf(l) \in Seq(CallSet)
    BY <1>3, <2>2, <2>3
  <2> QED
    BY <2>1, <2>2, <2>4 DEF Empty
<1>9. CASE l \in [t : {"data"}, text : Text]
  <2>1. l.t = "data" /\ l.text \in Text
    BY <1>9
  <2>2. CallsOf(l) = <<Call("body", l.text)>>
    BY <2>1 DEF CallsOf
  <2>3. Call("body", l.text) \in CallSet
    BY <2>1, TheCalls DEF CallNames
  <2>4. CallsOf(l) \in Seq(CallSet)
    BY <1>3, <2>2, <2>3
  <2> QED
    BY <2>1, <2>2, <2>4 DEF Empty
<1>10. CASE l \in [t : {"size"}, n : Nat] \/ l = Junk
  <2>1. l.t \in {"size", "junk"}
    BY <1>10 DEF Junk
  <2>2. CallsOf(l) = <<>>
    BY <2>1 DEF CallsOf
  <2> QED
    BY <1>2, <2>1, <2>2 DEF Empty
<1>11. CASE l \in [t : {"empty"}, ends : {"headers", "trailers"}] \/ l = Empty("nothing")
  <2>1. l.t = "empty" /\ l.ends \in {"headers", "trailers", "nothing"}
    BY <1>11 DEF Empty
  <2>2. CallsOf(l) = IF l.ends = "headers" THEN <<Call("headers", <<>>)>> ELSE <<>>
    BY <2>1 DEF CallsOf
  <2>3. l \in {Empty("headers"), Empty("trailers"), Empty("nothing")}
    BY <1>11 DEF Empty
  <2>4. CallsOf(l) \in Seq(CallSet)
    BY <1>2, <1>3, <1>5, <2>2
  <2>5. \A e \in {"headers", "trailers", "nothing"} : Empty(e).ends = e
    BY DEF Empty
  <2> QED
    BY <2>1, <2>2, <2>3, <2>4, <2>5
<1> QED
  BY <1>1, <1>6, <1>7, <1>8, <1>9, <1>10, <1>11

(* The first line of an input is due its calls, those behind it theirs.    *)
LEMMA CallsInStep ==
  ASSUME NEW l \in AnyLine, NEW r \in Seq(AnyLine)
  PROVE  /\ CallsIn(<<>>) = <<>>
         /\ CallsIn(r) \in Seq(CallSet)
         /\ IsFirst(l) => CallsIn(<<l>> \o r) = <<>>
         /\ ~IsFirst(l) => CallsIn(<<l>> \o r) = CallsOf(l) \o CallsIn(r)
<1> DEFINE Each(u) == [i \in DOMAIN u |-> CallsOf(u[i])]
<1>1. \A in : CallsIn(in) = FlattenSeq(Each(UpToNext(in)))
  BY DEF CallsIn
<1>2. ASSUME NEW u \in Seq(AnyLine) PROVE Each(u) \in Seq(Seq(CallSet)) /\ Len(Each(u)) = Len(u)
  <2>1. Len(u) \in Nat /\ DOMAIN u = 1..Len(u) /\ \A i \in 1..Len(u) : CallsOf(u[i]) \in Seq(CallSet)
    BY LenProperties, ElementOfSeq, CallsOfLine
  <2>2. Each(u) = [i \in 1..Len(u) |-> CallsOf(u[i])]
    BY <2>1
  <2> DEFINE S == Seq(CallSet)
  <2> HIDE DEF S
  <2>3. [i \in 1..Len(u) |-> CallsOf(u[i])] \in [1..Len(u) -> S]
    BY <2>1 DEF S
  <2>4. [i \in 1..Len(u) |-> CallsOf(u[i])] \in Seq(S)
    BY <2>1, <2>3
  <2>5. Len([i \in 1..Len(u) |-> CallsOf(u[i])]) = Len(u)
    BY <2>1
  <2> QED
    BY <2>2, <2>4, <2>5 DEF S
<1>3. Each(<<>>) = <<>>
  OBVIOUS
<1>4. FlattenSeq(Each(<<>>)) = <<>>
  BY <1>3 DEF FlattenSeq
<1> DEFINE u == UpToNext(r)
<1>5. u \in Seq(AnyLine) /\ UpToNext(<<>>) = <<>>
  BY UpToStep
<1>6. CallsIn(r) \in Seq(CallSet)
  <2> HIDE DEF u, Each
  <2>1. Each(u) \in Seq(Seq(CallSet))
    BY <1>2, <1>5
  <2>2. FlattenSeq(Each(u)) \in Seq(CallSet)
    BY <2>1, Flattened
  <2> QED
    BY <1>1, <2>2 DEF u
<1>7. IsFirst(l) => CallsIn(<<l>> \o r) = <<>>
  <2>1. IsFirst(l) => UpToNext(<<l>> \o r) = <<>>
    BY UpToStep
  <2> HIDE DEF u, Each
  <2> QED
    BY <1>1, <1>4, <2>1
<1>8. ASSUME ~IsFirst(l) PROVE CallsIn(<<l>> \o r) = CallsOf(l) \o CallsIn(r)
  <2> DEFINE w == <<l>> \o u
             q == Each(w)
  <2>1. UpToNext(<<l>> \o r) = w
    BY <1>8, UpToStep
  <2>2. /\ w \in Seq(AnyLine) /\ w # <<>> /\ Len(w) \in Nat \ {0} /\ w[1] = l
        /\ Tail(w) = u /\ DOMAIN w = 1..Len(w) /\ Len(u) = Len(w) - 1
        /\ \A i \in 1..Len(u) : u[i] = w[i + 1] /\ i + 1 \in 1..Len(w)
    <3> HIDE DEF u
    <3>1. w \in Seq(AnyLine) /\ w # <<>> /\ Tail(w) = u /\ Head(w) = l
      BY <1>5, FirstOf
    <3> HIDE DEF w
    <3>2. Head(w) = w[1]
      BY <3>1
    <3>3. Len(w) \in Nat \ {0} /\ DOMAIN w = 1..Len(w)
      BY <3>1, EmptySeq, LenProperties
    <3>4. Len(u) = Len(w) - 1 /\ \A i \in 1..Len(u) : u[i] = w[i + 1]
      BY <3>1, HeadTailProperties, SMTT(30)
    <3>5. \A i \in 1..Len(u) : i + 1 \in 1..Len(w)
      BY <3>3, <3>4
    <3> QED
      BY <3>1, <3>2, <3>3, <3>4, <3>5
  <2> HIDE DEF u, w
  <2>3. q \in Seq(Seq(CallSet)) /\ Len(q) = Len(w) /\ Each(u) \in Seq(Seq(CallSet)) /\ Len(Each(u)) = Len(u)
    <3> HIDE DEF Each
    <3> QED
      BY <1>2, <1>5, <2>2, Zenon
  <2>4. \A i \in 1..Len(w) : q[i] = CallsOf(w[i])
    BY <2>2
  <2>5. \A i \in 1..Len(u) : Each(u)[i] = CallsOf(u[i])
    BY <1>5, LenProperties
  <2> HIDE DEF Each, q
  <2>6. q # <<>> /\ Head(q) = CallsOf(l)
    <3>1. q # <<>>
      BY <2>2, <2>3, EmptySeq
    <3>2. Head(q) = q[1] /\ 1 \in 1..Len(w)
      BY <2>2, <2>3, <3>1
    <3> QED
      BY <2>2, <2>4, <3>1, <3>2
  <2>7. Tail(q) = Each(u)
    <3> DEFINE S == Seq(CallSet)
    <3> HIDE DEF S
    <3>1. /\ Tail(q) \in Seq(S) /\ Len(Tail(q)) = Len(q) - 1
          /\ \A i \in 1..Len(Tail(q)) : Tail(q)[i] = q[i + 1]
      BY <2>3, <2>6, HeadTailProperties DEF S
    <3>2. Len(Tail(q)) = Len(Each(u)) /\ Len(Tail(q)) = Len(u)
      BY <2>2, <2>3, <3>1
    <3>3. \A i \in 1..Len(u) : Tail(q)[i] = Each(u)[i]
      BY <2>2, <2>4, <2>5, <3>1, <3>2
    <3> QED
      BY <2>3, <3>1, <3>2, <3>3, SeqEqual DEF S
  <2>8. FlattenSeq(q) = CallsOf(l) \o FlattenSeq(Each(u))
    BY <2>3, <2>6, <2>7, Flattened
  <2> QED
    BY <1>1, <2>1, <2>8 DEF u, q
<1> QED
  BY <1>1, <1>4, <1>5, <1>6, <1>7, <1>8

-----------------------------------------------------------------------------
(* What is due of an input that ends with a given call.                    *)

(* Nothing that would be merged with a call of that name comes first.      *)
Apart(cb, calls) == calls = <<>> \/ Head(calls).cb # cb

LEMMA JoinApart ==
  ASSUME NEW c \in CallSet, NEW K \in Seq(CallSet),
         Apart(c.cb, K) \/ c.cb \notin {"value", "body"}
  PROVE  Join(c, K) = <<c>> \o K
<1>1. <<c>> \in Seq(CallSet)
  OBVIOUS
<1>2. CASE K = <<>>
  BY <1>1, <1>2, ConcatEmptySeq DEF Join
<1>3. CASE K # <<>>
  <2> DEFINE a == Head(K)
             y == Tail(K)
             u == <<c>>
             v == <<a>>
  <2>1. a \in CallSet /\ y \in Seq(CallSet) /\ K = v \o y
    BY <1>3, HeadJoined
  <2>2. ~(c.cb = a.cb /\ a.cb \in {"value", "body"})
    BY <1>3 DEF Apart
  <2>3. Both(c, a) = u \o v
    BY <2>2 DEF Both
  <2>4. v \in Seq(CallSet)
    BY <2>1
  <2> HIDE DEF a, y, v
  <2>5. Join(c, v \o y) = Both(c, a) \o y
    BY ONLY <2>1, JoinIs, c \in CallSet DEF v
  <2> HIDE DEF u
  <2>6. (u \o v) \o y = u \o (v \o y)
    BY <1>1, <2>1, <2>4, ConcatAssociative, SMTT(60) DEF u
  <2> QED
    BY <2>1, <2>3, <2>5, <2>6 DEF u
<1> QED
  BY <1>2, <1>3

(* Two pieces in front of calls are one.                                   *)
LEMMA JoinTwice ==
  ASSUME NEW cb \in {"value", "body"}, NEW a \in Text, NEW b \in Text, NEW K \in Seq(CallSet)
  PROVE  Join(Call(cb, a), Join(Call(cb, b), K)) = Join(Call(cb, a \o b), K)
<1> DEFINE c == Call(cb, a)
           d == Call(cb, b)
           e == Call(cb, a \o b)
<1>1. c \in CallSet /\ d \in CallSet /\ e \in CallSet /\ a \o b \in Text
  <2>1. a \o b \in Text
    BY ConcatProperties DEF Text
  <2> QED
    BY <2>1, TheCalls DEF CallNames
<1>2. c.cb = cb /\ d.cb = cb /\ e.cb = cb /\ c.text = a /\ d.text = b /\ e.text = a \o b
  BY DEF Call
<1>3. Both(c, d) = <<e>>
  BY <1>2 DEF Both
<1>4. <<>> \in Seq(CallSet) /\ <<e>> \in Seq(CallSet) /\ <<d>> \in Seq(CallSet)
  BY <1>1
<1> HIDE DEF c, d, e
<1>5. CASE K = <<>>
  <2>1. Join(d, K) = <<d>> \o <<>> /\ Join(e, K) = <<e>>
    BY <1>1, <1>4, <1>5, JoinIs, ConcatEmptySeq
  <2>2. Join(c, <<d>> \o <<>>) = Both(c, d) \o <<>>
    BY ONLY <1>1, <1>4, JoinIs, Zenon
  <2>3. <<e>> \o <<>> = <<e>>
    BY <1>4, ConcatEmptySeq
  <2> QED
    BY <1>3, <2>1, <2>2, <2>3 DEF c, d, e
<1>6. CASE K # <<>>
  <2> DEFINE f == Head(K)
             y == Tail(K)
  <2>1. f \in CallSet /\ y \in Seq(CallSet) /\ K = <<f>> \o y
    BY <1>6, HeadJoined
  <2> HIDE DEF f, y
  <2>2. Join(d, K) = Both(d, f) \o y /\ Join(e, K) = Both(e, f) \o y
    BY ONLY <1>1, <2>1, JoinIs
  <2>3. CASE f.cb = cb
    <3> DEFINE g == Call(cb, b \o f.text)
               h == Call(cb, a \o (b \o f.text))
    <3>1. f.text \in Text /\ b \o f.text \in Text /\ g \in CallSet
      <4>1. f.text \in Text
        BY <2>1, BothType
      <4>2. b \o f.text \in Text
        BY <4>1, ConcatProperties DEF Text
      <4> QED
        BY <4>1, <4>2, TheCalls DEF CallNames
    <3>2. g.cb = cb /\ g.text = b \o f.text
      BY DEF Call
    <3>3. Both(d, f) = <<g>>
      BY <1>2, <2>3 DEF Both
    <3>4. Both(c, g) = <<h>>
      BY <1>2, <3>2 DEF Both
    <3>5. (a \o b) \o f.text = a \o (b \o f.text)
      <4> DEFINE x == f.text
      <4>1. a \in Seq(Char) /\ b \in Seq(Char) /\ x \in Seq(Char)
        BY <3>1 DEF Text
      <4> HIDE DEF x
      <4>2. (a \o b) \o x = a \o (b \o x)
        BY ONLY <4>1, ConcatAssociative, SMTT(60)
      <4> QED
        BY <4>2 DEF x
    <3>6. Both(e, f) = <<h>>
      BY <1>2, <2>3, <3>5 DEF Both
    <3> HIDE DEF g, h
    <3>7. Join(c, <<g>> \o y) = Both(c, g) \o y
      BY ONLY <1>1, <2>1, <3>1, JoinIs
    <3> QED
      BY <2>2, <3>3, <3>4, <3>6, <3>7 DEF c, d, e
  <2>4. CASE f.cb # cb
    <3>1. Both(d, f) = <<d>> \o <<f>> /\ Both(e, f) = <<e>> \o <<f>>
      BY <1>2, <2>4 DEF Both
    <3> DEFINE u == <<d>>
               v == <<f>>
               w == <<e>>
    <3>2. u \in Seq(CallSet) /\ v \in Seq(CallSet) /\ w \in Seq(CallSet)
      BY <1>4, <2>1
    <3> HIDE DEF u, v, w
    <3>3. (u \o v) \o y = u \o (v \o y) /\ (w \o v) \o y = w \o (v \o y)
      <4>1. u \in Seq(CallSet) /\ v \in Seq(CallSet) /\ w \in Seq(CallSet) /\ y \in Seq(CallSet)
        BY ONLY <2>1, <3>2
      <4>2. /\ Cat(Cat(u, v), y) = Cat(u, Cat(v, y))
             /\ Cat(Cat(w, v), y) = Cat(w, Cat(v, y))
        BY ONLY <4>1, RegroupCalls
      <4> QED
        BY ONLY <4>2 DEF Cat
    <3>4. v \o y \in Seq(CallSet)
      BY <2>1, <3>2, ConcatProperties
    <3>5. Join(c, u \o (v \o y)) = Both(c, d) \o (v \o y)
      BY ONLY <1>1, <3>4, JoinIs DEF u
    <3> QED
      BY <1>3, <2>2, <3>1, <3>3, <3>5 DEF c, d, e, u, v, w
  <2> QED
    BY <2>3, <2>4
<1> QED
  BY <1>5, <1>6

(* What is due of the lines of in, the call e being the last.              *)
Due(in, e) == Merged(CallsIn(in) \o <<e>>)

(* Two calls as one and one.                                               *)
LEMMA TwoOf ==
  ASSUME NEW S, NEW f \in S, NEW v \in S
  PROVE  <<f, v>> = <<f>> \o <<v>> /\ <<f, v>> \in Seq(S)
<1> DEFINE a == <<f, v>>
           x == <<f>>
           y == <<v>>
           b == x \o y
<1>1. a \in Seq(S) /\ Len(a) = 2 /\ a[1] = f /\ a[2] = v
  OBVIOUS
<1>2. x \in Seq(S) /\ y \in Seq(S) /\ Len(x) = 1 /\ Len(y) = 1 /\ x[1] = f /\ y[1] = v
  OBVIOUS
<1> HIDE DEF a, x, y
<1>3. b \in Seq(S) /\ Len(b) = 2
      /\ \A i \in 1..(Len(x) + Len(y)) : b[i] = IF i <= Len(x) THEN x[i] ELSE y[i - Len(x)]
  BY <1>2, ConcatProperties
<1> HIDE DEF b
<1>4. b[1] = f /\ b[2] = v
  BY <1>2, <1>3
<1>5. \A i \in 1..Len(a) : a[i] = b[i]
  BY <1>1, <1>4
<1>6. a = b
  BY <1>1, <1>3, <1>5, SeqEqual
<1> QED
  BY <1>1, <1>6 DEF a, b, x, y

(* What each kind of line adds to what is due.                             *)
LEMMA DueStep ==
  ASSUME NEW e \in CallSet, NEW l \in AnyLine, NEW r \in Seq(AnyLine)
  PROVE  /\ Due(<<>>, e) = <<e>> /\ Due(r, e) \in Seq(CallSet)
         /\ IsFirst(l) => Due(<<l>> \o r, e) = <<e>>
         /\ l.t = "header" => Due(<<l>> \o r, e) = Adds(l.h, Due(r, e))
         /\ l.t = "fold" => Due(<<l>> \o r, e) = Join(Call("value", l.f.text), Due(r, e))
         /\ l.t = "data" => Due(<<l>> \o r, e) = Join(Call("body", l.text), Due(r, e))
         /\ l = Empty("headers") => Due(<<l>> \o r, e) = <<Call("headers", <<>>)>> \o Due(r, e)
         /\ l.t \in {"size", "junk"} \/ l \in {Empty("trailers"), Empty("nothing")}
              => Due(<<l>> \o r, e) = Due(r, e)
<1> DEFINE E == <<e>>
           C == CallsIn(r)
           R == C \o E
           S == Seq(CallSet)
<1>1. C \in S /\ E \in S /\ R \in S /\ <<>> \in S
  <2>1. C \in S
    BY CallsInStep
  <2>2. E \in S /\ <<>> \in S
    OBVIOUS
  <2> QED
    BY <2>1, <2>2, ConcatProperties
<1>2. Merged(R) = Due(r, e) /\ Due(r, e) \in S
  BY <1>1, MergedJoin DEF Due
<1>3. Merged(<<e>>) = <<e>>
  <2>1. <<e>> = <<e>> \o <<>>
    BY <1>1, ConcatEmptySeq
  <2>2. Merged(<<e>> \o <<>>) = Join(e, Merged(<<>>))
    BY ONLY <1>1, e \in CallSet, MergedJoin
  <2>3. Join(e, <<>>) = <<e>> /\ Merged(<<>>) = <<>>
    BY JoinIs, MergedJoin
  <2> QED
    BY <2>1, <2>2, <2>3
<1>4. <<>> \o E = E
  BY <1>1, ConcatEmptySeq
<1>5. Due(<<>>, e) = <<e>>
  <2>1. CallsIn(<<>>) = <<>>
    BY CallsInStep
  <2> QED
    BY <1>3, <1>4, <2>1 DEF Due
<1>6. IsFirst(l) => Due(<<l>> \o r, e) = <<e>>
  <2>1. IsFirst(l) => CallsIn(<<l>> \o r) = <<>>
    BY CallsInStep
  <2> QED
    BY <1>3, <1>4, <2>1 DEF Due
<1> DEFINE O == CallsOf(l)
<1>7. ~IsFirst(l) => CallsIn(<<l>> \o r) = O \o C
  BY CallsInStep
<1>8. O \in S
  BY CallsOfLine
<1>9. ~IsFirst(l) => Due(<<l>> \o r, e) = Merged(O \o R)
  <2> HIDE DEF O, C, E, S
  <2>1. (O \o C) \o E = O \o (C \o E)
    BY <1>1, <1>8, ConcatAssociative, SMTT(60) DEF S
  <2> QED
    BY <1>7, <2>1 DEF Due, E
<1> HIDE DEF C, E, R, O
<1>10. ASSUME NEW c \in CallSet, O = <<c>> PROVE Merged(O \o R) = Join(c, Due(r, e))
  BY <1>1, <1>2, <1>10, MergedJoin
<1>11. l.t \in {"header", "fold", "data", "size", "junk", "empty"} => ~IsFirst(l)
  BY DEF IsFirst
<1>12. ASSUME l.t = "header", l.h.colon
       PROVE  Due(<<l>> \o r, e) = Adds(l.h, Due(r, e))
  <2> DEFINE f == Call("field", l.h.name)
             v == Call("value", l.h.value)
  <2>1. l.h \in Headers
    BY <1>12, CallsOfLine
  <2>3. f \in CallSet /\ v \in CallSet
    BY <2>1, AddsOf
  <2>4. f.cb \notin {"value", "body"}
    BY DEF Call
  <2>5. O = <<f, v>>
    <3>1. O = PairCall(l.h)
      BY <1>12, CallsOfLine DEF O
    <3> QED
      BY <1>12, <2>1, <3>1, AddsOf
  <2> HIDE DEF f, v
  <2> DEFINE U == <<f>>
             V == <<v>>
  <2>6. O = U \o V /\ U \in S /\ V \in S
    <3>1. O = U \o V
      BY <2>3, <2>5, TwoOf
    <3>2. U \in S /\ V \in S
      BY ONLY <2>3
    <3> QED
      BY <3>1, <3>2
  <2> HIDE DEF U, V, S
  <2>7. (U \o V) \o R = U \o (V \o R)
    <3>1. U \in Seq(CallSet) /\ V \in Seq(CallSet) /\ R \in Seq(CallSet)
      BY <1>1, <2>6 DEF S
    <3>2. Cat(Cat(U, V), R) = Cat(U, Cat(V, R))
      BY ONLY <3>1, RegroupCalls
    <3> QED
      BY ONLY <3>2 DEF Cat
  <2>8. V \o R \in S
    BY <1>1, <2>6, ConcatProperties DEF S
  <2>9. Merged(V \o R) = Join(v, Due(r, e)) /\ Merged(U \o (V \o R)) = Join(f, Merged(V \o R))
    <3>1. Merged(V \o R) = Join(v, Merged(R))
      BY ONLY <1>1, <2>3, MergedJoin DEF V, S
    <3>2. Merged(U \o (V \o R)) = Join(f, Merged(V \o R))
      BY ONLY <2>3, <2>8, MergedJoin DEF U, S
    <3> QED
      BY <1>2, <3>1, <3>2
  <2>10. Join(v, Due(r, e)) \in S
    BY <1>2, <2>3, JoinIs DEF S
  <2>11. Join(f, Join(v, Due(r, e))) = <<f>> \o Join(v, Due(r, e))
    BY <2>3, <2>4, <2>10, JoinApart DEF S
  <2>12. Due(<<l>> \o r, e) = <<f>> \o Join(v, Due(r, e))
    BY <1>9, <1>11, <1>12, <2>6, <2>7, <2>9, <2>11
  <2>13. Adds(l.h, Due(r, e)) = <<f>> \o Join(v, Due(r, e))
    BY <1>12, Zenon DEF Adds, f, v
  <2> QED
    BY <2>12, <2>13
<1>17. ASSUME l.t = "header", ~l.h.colon
       PROVE  Due(<<l>> \o r, e) = Adds(l.h, Due(r, e))
  <2> DEFINE f == Call("field", l.h.name)
  <2>1. l.h \in Headers
    BY <1>17, CallsOfLine
  <2>2. f \in CallSet /\ f.cb \notin {"value", "body"}
    BY <2>1, AddsOf DEF Call
  <2>3. O = <<f>>
    <3>1. O = PairCall(l.h)
      BY <1>17, CallsOfLine DEF O
    <3> QED
      BY <1>17, <2>1, <3>1, AddsOf
  <2>4. Adds(l.h, Due(r, e)) = <<f>> \o Due(r, e)
    BY <1>17, Zenon DEF Adds
  <2> HIDE DEF f
  <2>5. Join(f, Due(r, e)) = <<f>> \o Due(r, e)
    BY <1>2, <2>2, JoinApart
  <2> QED
    BY <1>9, <1>10, <1>11, <1>17, <2>2, <2>3, <2>4, <2>5
<1>13. l.t = "fold" => Due(<<l>> \o r, e) = Join(Call("value", l.f.text), Due(r, e))
  <2> SUFFICES ASSUME l.t = "fold"
               PROVE  Due(<<l>> \o r, e) = Join(Call("value", l.f.text), Due(r, e))
    OBVIOUS
  <2>1. O = <<Call("value", l.f.text)>> /\ l.f.text \in Text
    BY CallsOfLine DEF O
  <2>2. Call("value", l.f.text) \in CallSet
    BY <2>1, TheCalls DEF CallNames
  <2> QED
    BY <1>9, <1>10, <1>11, <2>1, <2>2
<1>14. l.t = "data" => Due(<<l>> \o r, e) = Join(Call("body", l.text), Due(r, e))
  <2> SUFFICES ASSUME l.t = "data"
               PROVE  Due(<<l>> \o r, e) = Join(Call("body", l.text), Due(r, e))
    OBVIOUS
  <2>1. O = <<Call("body", l.text)>> /\ l.text \in Text
    BY CallsOfLine DEF O
  <2>2. Call("body", l.text) \in CallSet
    BY <2>1, TheCalls DEF CallNames
  <2> QED
    BY <1>9, <1>10, <1>11, <2>1, <2>2
<1>15. l = Empty("headers") => Due(<<l>> \o r, e) = <<Call("headers", <<>>)>> \o Due(r, e)
  <2> SUFFICES ASSUME l = Empty("headers")
               PROVE  Due(<<l>> \o r, e) = <<Call("headers", <<>>)>> \o Due(r, e)
    OBVIOUS
  <2> DEFINE c == Call("headers", <<>>)
  <2>1. O = <<c>> /\ l.t = "empty"
    BY CallsOfLine DEF O, Empty
  <2>2. c \in CallSet /\ c.cb = "headers"
    BY TheCalls DEF CallNames, Call
  <2> HIDE DEF c
  <2>3. Join(c, Due(r, e)) = <<c>> \o Due(r, e)
    BY <1>2, <2>2, JoinApart
  <2> QED
    BY <1>9, <1>10, <1>11, <2>1, <2>2, <2>3 DEF c
<1>16. l.t \in {"size", "junk"} \/ l \in {Empty("trailers"), Empty("nothing")}
         => Due(<<l>> \o r, e) = Due(r, e)
  <2> SUFFICES ASSUME l.t \in {"size", "junk"} \/ l \in {Empty("trailers"), Empty("nothing")}
               PROVE  Due(<<l>> \o r, e) = Due(r, e)
    OBVIOUS
  <2>1. O = <<>>
    BY CallsOfLine DEF O
  <2>2. l.t \in {"size", "junk", "empty"}
    BY DEF Empty
  <2>3. O \o R = R
    BY <1>1, <2>1, ConcatEmptySeq
  <2> QED
    BY <1>2, <1>9, <1>11, <2>2, <2>3
<1>18. l.t = "header" => Due(<<l>> \o r, e) = Adds(l.h, Due(r, e))
  BY <1>12, <1>17, Zenon
<1> QED
  BY <1>2, <1>5, <1>6, <1>13, <1>14, <1>15, <1>16, <1>18

(* A line that strayed in is due no call.                                  *)
LEMMA CallsInserted ==
  ASSUME NEW x \in {Junk, Empty("nothing")}, NEW s \in Seq(AnyLine), NEW k \in 1..(Len(s) + 1)
  PROVE  InsertAt(s, k, x) \in Seq(AnyLine) /\ CallsIn(InsertAt(s, k, x)) = CallsIn(s)
<1> DEFINE Same(s_, k_) == CallsIn(InsertAt(s_, k_, x)) = CallsIn(s_)
           D == {i \in Nat : \E r \in Seq(AnyLine) : i \in 1..(Len(r) + 1) /\ ~Same(r, i)}
<1>1. x \in AnyLine /\ ~IsFirst(x) /\ CallsOf(x) = <<>>
  <2>1. x \in AnyLine
    BY DEF AnyLine
  <2>2. x.t \in {"junk", "empty"} /\ (x.t = "junk" \/ x = Empty("nothing"))
    BY DEF Junk, Empty
  <2> QED
    BY <2>1, <2>2, CallsOfLine DEF IsFirst
<1>2. ASSUME NEW r \in Seq(AnyLine), NEW i \in 1..(Len(r) + 1)
      PROVE  InsertAt(r, i, x) \in Seq(AnyLine)
  BY <1>1, <1>2, Inserted
<1>3. ASSUME D # {} PROVE FALSE
  <2>1. PICK i \in D : \A j \in D : i <= j
    <3>1. D \in SUBSET Nat
      OBVIOUS
    <3> HIDE DEF D
    <3> QED
      BY <1>3, <3>1, LeastOf
  <2>2. PICK r \in Seq(AnyLine) : i \in 1..(Len(r) + 1) /\ ~Same(r, i)
    OBVIOUS
  <2> DEFINE a == InsertAt(r, i, x)
  <2>3. a \in Seq(AnyLine) /\ Len(r) \in Nat
    BY <1>2, <2>2, LenProperties
  <2>4. CASE i = 1
    <3>1. a # <<>> /\ Head(a) = x /\ Tail(a) = r
      BY <2>4, InsertedFirst
    <3> HIDE DEF a
    <3>2. a = <<x>> \o r
      BY <2>3, <3>1, HeadJoined
    <3>3. CallsIn(a) = <<>> \o CallsIn(r) /\ CallsIn(r) \in Seq(CallSet)
      BY <1>1, <3>2, CallsInStep
    <3>4. CallsIn(a) = CallsIn(r)
      BY <3>3, ConcatEmptySeq
    <3> QED
      BY <2>2, <3>4 DEF a
  <2>5. CASE i # 1
    <3> DEFINE h == Head(r)
               t == Tail(r)
               b == InsertAt(t, i - 1, x)
    <3>1. i \in 2..(Len(r) + 1)
      BY <2>2, <2>3, <2>5
    <3>2. /\ r # <<>> /\ i - 1 \in 1..(Len(t) + 1)
          /\ Head(a) = h /\ Tail(a) = b
      BY <3>1, InsertedLater
    <3>3. h \in AnyLine /\ t \in Seq(AnyLine) /\ r = <<h>> \o t
      BY <3>2, HeadJoined
    <3>4. b \in Seq(AnyLine)
      BY <1>2, <3>2, <3>3
    <3>5. a # <<>>
      <4>1. Len(a) = Len(r) + 1
        BY <1>1, <2>2, Inserted
      <4> HIDE DEF a
      <4> QED
        BY <2>3, <4>1
    <3> HIDE DEF h, t, b, a
    <3>6. a = <<h>> \o b
      BY <2>3, <3>2, <3>5, HeadJoined
    <3>7. CallsIn(b) = CallsIn(t)
      <4>1. i - 1 \in Nat /\ ~(i <= i - 1)
        BY <3>1
      <4>2. i - 1 \notin D
        <5> HIDE DEF D
        <5> QED
          BY <2>1, <4>1
      <4>3. Same(t, i - 1)
        <5> HIDE DEF Same
        <5> QED
          BY <3>2, <3>3, <4>1, <4>2
      <4> QED
        BY <4>3 DEF b
    <3>8. CallsIn(a) = CallsIn(r)
      <4>1. IsFirst(h) => CallsIn(a) = <<>> /\ CallsIn(r) = <<>>
        BY <3>3, <3>4, <3>6, CallsInStep
      <4>2. ~IsFirst(h) => CallsIn(a) = CallsOf(h) \o CallsIn(b) /\ CallsIn(r) = CallsOf(h) \o CallsIn(t)
        BY <3>3, <3>4, <3>6, CallsInStep
      <4> QED
        BY <3>7, <4>1, <4>2
    <3> QED
      BY <2>2, <3>8 DEF a
  <2> QED
    BY <2>4, <2>5
<1>4. k \in Nat
  BY LenProperties
<1>5. Same(s, k)
  <2> HIDE DEF Same
  <2> QED
    BY <1>3, <1>4
<1> QED
  BY <1>2, <1>5

(* Whatever may have strayed in.                                           *)
LEMMA CallsInStrayed ==
  ASSUME NEW rest \in Seq(LineSet), NEW in, Strayed(rest, in)
  PROVE  /\ rest \in Seq(AnyLine) /\ in \in Seq(AnyLine)
         /\ CallsIn(in) = CallsIn(rest)
<1>1. rest \in Seq(AnyLine)
  <2>1. LineSet \subseteq AnyLine
    BY DEF AnyLine
  <2> QED
    BY <2>1, SeqMonotonic
<1>2. ASSUME NEW k \in 1..(Len(rest) + 1), NEW x \in {Junk, Empty("nothing")}, in = InsertAt(rest, k, x)
      PROVE  in \in Seq(AnyLine) /\ CallsIn(in) = CallsIn(rest)
  BY <1>1, <1>2, CallsInserted
<1> QED
  BY <1>1, <1>2 DEF Strayed

(* Of the messages that are still to begin.                                *)
LEMMA CallsLater ==
  ASSUME NEW w \in Wires, NEW i \in 0..Len(w), NEW in, Strayed(Later(w, i), in)
  PROVE  CallsIn(in) = <<>> /\ CallsIn(Later(w, i)) = <<>> /\ in \in Seq(AnyLine)
<1> DEFINE z == Later(w, i)
<1>1. z \in Seq(LineSet)
  BY LaterIs
<1>2. CallsIn(in) = CallsIn(z) /\ z \in Seq(AnyLine) /\ in \in Seq(AnyLine)
  BY <1>1, CallsInStrayed
<1>3. CallsIn(<<>>) = <<>>
  <2>1. Junk \in AnyLine /\ <<>> \in Seq(AnyLine)
    BY DEF AnyLine
  <2> QED
    BY <2>1, CallsInStep
<1>4. CASE i = Len(w)
  <2>1. z = <<>>
    BY <1>4, LaterIs
  <2> QED
    BY <1>2, <1>3, <2>1
<1>5. CASE i # Len(w)
  <2>1. i < Len(w) /\ i + 1 \in 1..Len(w)
    BY <1>5, WireIs
  <2> DEFINE s == w[i + 1]
             f == [t |-> s.kind, s |-> s]
             y == Section(s.headers, "headers") \o BodyLines(s)
             later == Later(w, i + 1)
  <2>2. s \in Sendings /\ z = Lines(s) \o later
    BY <2>1, LaterIs, WireIs
  <2>3. later \in Seq(LineSet)
    BY <2>1, LaterIs, WireIs
  <2>4. f \in LineSet /\ f.t \in {"url", "status"}
    BY <2>2, LineKinds
  <2>5. Section(s.headers, "headers") \in Seq(LineSet) /\ BodyLines(s) \in Seq(LineSet)
        /\ Lines(s) \in Seq(LineSet)
    BY <2>2, MessageIs, HeadsAre, BodyIs
  <2>6. Lines(s) = <<f>> \o y /\ y \in Seq(LineSet)
    <3> DEFINE A == Section(s.headers, "headers")
               B == BodyLines(s)
               F == <<f>>
    <3>1. Lines(s) = F \o A \o B /\ F \in Seq(LineSet)
      <4>1. F \in Seq(LineSet)
        BY <2>4
      <4> HIDE DEF s
      <4>2. Lines(s) = F \o A \o B
        BY <2>2, MessageIs
      <4> QED
        BY <4>1, <4>2
    <3> HIDE DEF A, B, F
    <3>2. (F \o A) \o B = F \o (A \o B) /\ A \o B \in Seq(LineSet)
      <4>1. F \in Seq(LineSet) /\ A \in Seq(LineSet) /\ B \in Seq(LineSet)
        BY <2>5, <3>1 DEF A, B
      <4>2. Cat(Cat(F, A), B) = Cat(F, Cat(A, B))
        BY ONLY <4>1, RegroupLines
      <4>3. A \o B \in Seq(LineSet)
        BY ONLY <4>1, ConcatProperties
      <4> QED
        BY ONLY <4>2, <4>3 DEF Cat
    <3> QED
      BY <3>1, <3>2 DEF A, B, F
  <2> HIDE DEF f, y, later, s
  <2>7. z = <<f>> \o (y \o later) /\ y \o later \in Seq(LineSet)
    <3> DEFINE F == <<f>>
    <3>1. F \in Seq(LineSet)
      BY <2>4
    <3> HIDE DEF F
    <3>2. (F \o y) \o later = F \o (y \o later) /\ y \o later \in Seq(LineSet)
      <4>1. F \in Seq(LineSet) /\ y \in Seq(LineSet) /\ later \in Seq(LineSet)
        BY <2>3, <2>6, <3>1
      <4>2. Cat(Cat(F, y), later) = Cat(F, Cat(y, later))
        BY ONLY <4>1, RegroupLines
      <4>3. y \o later \in Seq(LineSet)
        BY ONLY <4>1, ConcatProperties
      <4> QED
        BY ONLY <4>2, <4>3 DEF Cat
    <3> QED
      BY <2>2, <2>6, <3>2 DEF F
  <2>8. f \in AnyLine /\ y \o later \in Seq(AnyLine) /\ IsFirst(f)
    <3>1. LineSet \subseteq AnyLine
      BY DEF AnyLine
    <3> QED
      BY <2>4, <2>7, <3>1, SeqMonotonic DEF IsFirst
  <2>9. CallsIn(z) = <<>>
    BY <2>7, <2>8, CallsInStep
  <2> QED
    BY <1>2, <2>9
<1> QED
  BY <1>4, <1>5

(* The calls of a row of pairs, and what a pair adds to calls that do not  *)
(* begin with a value.                                                     *)
LEMMA NoPairs == PairCalls(<<>>) = <<>>
<1>1. [i \in DOMAIN <<>> |-> PairCall(<<>>[i])] = <<>>
  OBVIOUS
<1> QED
  BY <1>1 DEF PairCalls, FlattenSeq

LEMMA PairCallsStep ==
  ASSUME NEW p \in PairSet, NEW q \in Seq(PairSet)
  PROVE  /\ PairCalls(q) \in Seq(CallSet)
         /\ PairCalls(<<p>> \o q) = PairCall(p) \o PairCalls(q)
<1> DEFINE S == Seq(CallSet)
           r == <<p>> \o q
           u == PairRows(r)
           v == PairRows(q)
           n == Len(q)
<1>2. r \in Seq(PairSet) /\ r # <<>> /\ Head(r) = p /\ Tail(r) = q
  BY FirstOf
<1> HIDE DEF r
<1>3. /\ n \in Nat /\ v \in Seq(Seq(CallSet)) /\ Len(v) = n
      /\ \A k \in 1..n : v[k] = PairCall(q[k])
      /\ PairCalls(q) = FlattenSeq(v)
  BY RowsOfPairs
<1>4. /\ u \in Seq(Seq(CallSet)) /\ Len(u) = Len(r)
      /\ \A k \in 1..Len(r) : u[k] = PairCall(r[k])
      /\ PairCalls(r) = FlattenSeq(u)
  BY <1>2, RowsOfPairs
<1>5. Len(r) = n + 1 /\ r[1] = p /\ \A k \in 1..n : q[k] = r[k + 1]
  BY <1>2, HeadTailProperties, LenProperties, EmptySeq
<1> HIDE DEF u, v, n, S
<1>6. u # <<>> /\ Head(u) = PairCall(p)
  <2>1. u # <<>> /\ 1 \in 1..Len(r)
    BY <1>3, <1>4, <1>5, EmptySeq
  <2>2. Head(u) = u[1]
    BY <1>4, <2>1
  <2> QED
    BY <1>4, <1>5, <2>1, <2>2
<1>7. Tail(u) = v
  <2>1. u \in Seq(S) /\ v \in Seq(S)
    BY <1>3, <1>4 DEF S
  <2>2. /\ Tail(u) \in Seq(S) /\ Len(Tail(u)) = Len(u) - 1
        /\ \A k \in 1..Len(Tail(u)) : Tail(u)[k] = u[k + 1]
    BY <1>6, <2>1, HeadTailProperties
  <2>3. Len(Tail(u)) = n
    BY <1>3, <1>4, <1>5, <2>2
  <2>4. ASSUME NEW k \in 1..n PROVE Tail(u)[k] = v[k]
    <3>1. k + 1 \in 1..Len(r)
      BY <1>3, <1>5
    <3>2. Tail(u)[k] = u[k + 1] /\ u[k + 1] = PairCall(r[k + 1])
      BY <1>4, <2>2, <2>3, <3>1
    <3> QED
      BY <1>3, <1>5, <3>2
  <2> QED
    BY <1>3, <2>1, <2>2, <2>3, <2>4, SeqEqual
<1>8. FlattenSeq(u) = Head(u) \o FlattenSeq(Tail(u)) /\ FlattenSeq(v) \in Seq(CallSet)
  BY <1>3, <1>4, <1>6, Flattened
<1> QED
  BY <1>3, <1>4, <1>6, <1>7, <1>8 DEF r

(* They begin with a name.                                                 *)
LEMMA PairCallsBegin ==
  ASSUME NEW q \in Seq(PairSet)
  PROVE  /\ PairCalls(q) \in Seq(CallSet)
         /\ PairCalls(q) # <<>> => Head(PairCalls(q)).cb = "field"
<1>1. PairCalls(q) \in Seq(CallSet)
  BY RowsOfPairs, Flattened
<1>2. ASSUME PairCalls(q) # <<>> PROVE Head(PairCalls(q)).cb = "field"
  <2> DEFINE p == Head(q)
             r == Tail(q)
             A == PairCall(p)
             C == PairCalls(r)
  <2>1. q # <<>>
    BY <1>2, NoPairs
  <2>2. p \in PairSet /\ r \in Seq(PairSet) /\ q = <<p>> \o r
    BY <2>1, HeadJoined
  <2> HIDE DEF p, r
  <2>3. A \in Seq(CallSet) /\ C \in Seq(CallSet) /\ PairCalls(q) = A \o C
        /\ Len(A) \in {1, 2} /\ A[1] = Call("field", p.name)
    BY <2>2, PairCallsStep, PairCallIs
  <2> HIDE DEF A, C
  <2>4. A # <<>> /\ Head(A) = A[1] /\ A = <<Head(A)>> \o Tail(A)
        /\ A \o C = <<Head(A)>> \o (Tail(A) \o C)
        /\ Head(A) \in CallSet /\ Tail(A) \in Seq(CallSet)
    <3>1. A # <<>>
      BY <2>3
    <3>2. Head(A) = A[1]
      BY <2>3, <3>1
    <3> QED
      BY <2>3, <3>1, <3>2, HeadJoined
  <2>5. Tail(A) \o C \in Seq(CallSet)
    BY <2>3, <2>4, ConcatProperties
  <2>6. Head(A \o C) = Head(A)
    <3> DEFINE a == Head(A)
               y == Tail(A) \o C
    <3> HIDE DEF a, y
    <3>1. Head(<<a>> \o y) = a
      BY <2>4, <2>5, FirstOf DEF a, y
    <3> QED
      BY <2>4, <3>1 DEF a, y
  <2>7. Head(A).cb = "field"
    BY <2>3, <2>4 DEF Call
  <2> QED
    BY <2>3, <2>6, <2>7
<1> QED
  BY <1>1, <1>2

LEMMA AddsApart ==
  ASSUME NEW p \in PairSet, NEW K \in Seq(CallSet), Apart("value", K)
  PROVE  Adds(p, K) = PairCall(p) \o K /\ Apart("value", Adds(p, K))
<1> DEFINE f == Call("field", p.name)
           v == Call("value", p.value)
<1>1. p.name \in Text /\ p.value \in Text /\ p.colon \in BOOLEAN
  BY DEF PairSet
<1>2. f \in CallSet /\ v \in CallSet /\ f.cb = "field" /\ v.cb = "value"
  BY <1>1, CallTyped DEF CallNames
<1>3. /\ p.colon => PairCall(p) = <<f, v>> /\ Adds(p, K) = <<f>> \o Join(v, K)
      /\ ~p.colon => PairCall(p) = <<f>> /\ Adds(p, K) = <<f>> \o K
  BY Zenon DEF PairCall, Adds
<1> HIDE DEF f, v
<1>4. Join(v, K) = <<v>> \o K
  BY <1>2, JoinApart
<1> DEFINE U == <<f>>
           V == <<v>>
<1>5. U \in Seq(CallSet) /\ V \in Seq(CallSet) /\ <<f, v>> = U \o V
  <2>1. <<f, v>> = U \o V
    BY <1>2, TwoOf
  <2> QED
    BY <1>2, <2>1
<1>6. \A x \in Seq(CallSet) : Apart("value", U \o x)
  <2> SUFFICES ASSUME NEW x \in Seq(CallSet) PROVE Apart("value", U \o x)
    OBVIOUS
  <2>1. Head(<<f>> \o x) = f
    BY <1>2, FirstOf
  <2> QED
    BY <1>2, <2>1 DEF Apart
<1> HIDE DEF U, V
<1>7. (U \o V) \o K = U \o (V \o K) /\ V \o K \in Seq(CallSet)
  <2>1. Cat(Cat(U, V), K) = Cat(U, Cat(V, K))
    BY ONLY <1>5, K \in Seq(CallSet), RegroupCalls
  <2>2. V \o K \in Seq(CallSet)
    BY ONLY <1>5, K \in Seq(CallSet), ConcatProperties
  <2> QED
    BY ONLY <2>1, <2>2 DEF Cat
<1>8. CASE p.colon
  <2>1. Adds(p, K) = U \o (V \o K) /\ PairCall(p) = U \o V
    BY <1>3, <1>4, <1>5, <1>8, Zenon DEF U, V
  <2> QED
    BY ONLY <1>6, <1>7, <2>1
<1>9. CASE ~p.colon
  <2>1. Adds(p, K) = U \o K /\ PairCall(p) = U
    BY <1>3, <1>9, Zenon DEF U
  <2> QED
    BY ONLY <1>6, <2>1, K \in Seq(CallSet)
<1> QED
  BY <1>8, <1>9, Zenon

-----------------------------------------------------------------------------
(***************************************************************************)
(* Texts that are reported one after the other are one text; D[j] is what  *)
(* is due when j of them are read.                                         *)
(***************************************************************************)
LEMMA TextsJoined ==
  ASSUME NEW cb \in {"value", "body"}, NEW tx \in Seq(Text),
         NEW D \in [0..Len(tx) -> Seq(CallSet)],
         \A j \in 1..Len(tx) : D[j - 1] = Join(Call(cb, tx[j]), D[j]),
         NEW a \in Text, NEW j \in 0..Len(tx)
  PROVE  Join(Call(cb, a), D[j]) = Join(Call(cb, a \o Flat(tx, j)), D[Len(tx)])
<1> DEFINE n == Len(tx)
           Same(b, i) == Join(Call(cb, b), D[i]) = Join(Call(cb, b \o Flat(tx, i)), D[n])
           Bad == {k \in Nat : k <= n /\ \E b \in Text : ~Same(b, n - k)}
<1>1. /\ n \in Nat /\ tx \in Seq(Seq(Char))
      /\ \A i \in 0..n : Flat(tx, i) \in Text
      /\ Flat(tx, n) = <<>>
      /\ \A i \in 0..n : i < n => tx[i + 1] \in Text /\ Flat(tx, i) = tx[i + 1] \o Flat(tx, i + 1)
  <2>1. tx \in Seq(Seq(Char))
    BY DEF Text
  <2>2. n \in Nat /\ n \in 0..n
    BY LenProperties
  <2>3. \A i \in 0..n : /\ Flat(tx, i) \in Seq(Char) /\ (i = n => Flat(tx, i) = <<>>)
                        /\ i < n => tx[i + 1] \in Seq(Char) /\ Flat(tx, i) = tx[i + 1] \o Flat(tx, i + 1)
    BY ONLY <2>1, FlatStep
  <2> QED
    BY <2>1, <2>2, <2>3 DEF Text
<1>2. ASSUME Bad # {} PROVE FALSE
  <2>1. PICK k \in Bad : \A i \in Bad : k <= i
    <3>1. Bad \in SUBSET Nat
      OBVIOUS
    <3> HIDE DEF Bad
    <3> QED
      BY <1>2, <3>1, LeastOf
  <2>2. k \in Nat /\ k <= n /\ \E b \in Text : ~Same(b, n - k)
    OBVIOUS
  <2>3. PICK b \in Text : ~Same(b, n - k)
    BY <2>2
  <2>4. CASE k = 0
    <3>1. n - k = n /\ b \o Flat(tx, n) = b
      <4>1. b \in Seq(Char) /\ b \o <<>> = b
        BY ConcatEmptySeq DEF Text
      <4> QED
        BY <1>1, <2>4, <4>1
    <3> QED
      BY <2>3, <3>1
  <2>5. CASE k # 0
    <3> DEFINE i == n - k
               x == tx[i + 1]
    <3>1. i \in 0..n /\ i < n /\ i + 1 \in 1..n /\ (i + 1) - 1 = i /\ i + 1 = n - (k - 1)
          /\ k - 1 \in Nat /\ k - 1 <= n /\ ~(k <= k - 1) /\ i + 1 \in 0..n
      BY <1>1, <2>2, <2>5
    <3>2. k - 1 \notin Bad
      <4> HIDE DEF Bad
      <4> QED
        BY <2>1, <3>1
    <3>3. \A y \in Text : Same(y, n - (k - 1))
      <4> HIDE DEF Same
      <4> QED
        BY <3>1, <3>2
    <3> HIDE DEF i
    <3>4. \A y \in Text : Same(y, i + 1)
      BY <3>1, <3>3
    <3>5. x \in Text /\ Flat(tx, i) = x \o Flat(tx, i + 1) /\ Flat(tx, i + 1) \in Text
      BY <1>1, <3>1
    <3>6. D[i] = Join(Call(cb, x), D[i + 1]) /\ D[i + 1] \in Seq(CallSet)
      <4>1. D[(i + 1) - 1] = Join(Call(cb, tx[i + 1]), D[i + 1])
        BY <3>1
      <4> QED
        BY <3>1, <4>1
    <3> HIDE DEF x
    <3>7. Join(Call(cb, b), D[i]) = Join(Call(cb, b \o x), D[i + 1])
      BY <3>5, <3>6, JoinTwice
    <3>8. b \o x \in Text
      BY <3>5, ConcatProperties DEF Text
    <3>9. Join(Call(cb, b \o x), D[i + 1]) = Join(Call(cb, (b \o x) \o Flat(tx, i + 1)), D[n])
      BY <3>4, <3>8
    <3>10. (b \o x) \o Flat(tx, i + 1) = b \o (x \o Flat(tx, i + 1))
      <4> DEFINE y == Flat(tx, i + 1)
      <4>1. b \in Seq(Char) /\ x \in Seq(Char) /\ y \in Seq(Char)
        BY <3>5 DEF Text
      <4> HIDE DEF y
      <4>2. (b \o x) \o y = b \o (x \o y)
        <5>1. b \in Seq(Char) /\ x \in Seq(Char) /\ y \in Seq(Char)
          BY ONLY <4>1
        <5>2. Cat(Cat(b, x), y) = Cat(b, Cat(x, y))
          BY ONLY <5>1, RegroupTexts
        <5> QED
          BY ONLY <5>2 DEF Cat
      <4> QED
        BY <4>2 DEF y
    <3>11. Same(b, i)
      BY <3>5, <3>7, <3>9, <3>10
    <3> QED
      BY <2>3, <3>11 DEF i
  <2> QED
    BY <2>4, <2>5
<1>3. n - j \in Nat /\ n - j <= n /\ n - (n - j) = j
  BY <1>1
<1>4. n - j \notin Bad
  BY <1>2
<1> HIDE DEF Same
<1>5. Same(a, n - (n - j))
  BY <1>3, <1>4
<1>6. Same(a, j)
  BY <1>3, <1>5
<1> QED
  BY <1>6 DEF Same

(* Headers that are reported one after the other.                          *)
LEMMA PairCallsJoined ==
  ASSUME NEW P \in Seq(PairSet), NEW D \in [0..Len(P) -> Seq(CallSet)],
         \A j \in 1..Len(P) : D[j - 1] = Adds(P[j], D[j]),
         Apart("value", D[Len(P)])
  PROVE  D[0] = PairCalls(P) \o D[Len(P)] /\ Apart("value", D[0])
<1> DEFINE n == Len(P)
           K == D[n]
           Good(i) == D[i] = PairCalls(From(P, i)) \o K /\ Apart("value", D[i])
           Bad == {k \in Nat : k <= n /\ ~Good(n - k)}
<1>1. /\ n \in Nat /\ K \in Seq(CallSet) /\ n \in 0..n
      /\ From(P, 0) = P /\ From(P, n) = <<>>
      /\ \A i \in 0..n : /\ From(P, i) \in Seq(PairSet)
                         /\ i < n => P[i + 1] \in PairSet /\ From(P, i) = <<P[i + 1]>> \o From(P, i + 1)
  <2>1. n \in Nat /\ n \in 0..n /\ 0 \in 0..n
    BY LenProperties
  <2>2. K \in Seq(CallSet)
    BY <2>1
  <2>3. \A i \in 0..n : /\ From(P, i) \in Seq(PairSet) /\ From(P, 0) = P
                        /\ i = n => From(P, i) = <<>>
                        /\ i < n => /\ P[i + 1] \in PairSet /\ From(P, i) # <<>>
                                    /\ Head(From(P, i)) = P[i + 1]
                                    /\ Tail(From(P, i)) = From(P, i + 1)
    BY FromStep
  <2>4. \A i \in 0..n : i < n => From(P, i) = <<P[i + 1]>> \o From(P, i + 1)
    <3> SUFFICES ASSUME NEW i \in 0..n, i < n PROVE From(P, i) = <<P[i + 1]>> \o From(P, i + 1)
      OBVIOUS
    <3> DEFINE f == From(P, i)
    <3>1. f \in Seq(PairSet) /\ f # <<>> /\ Head(f) = P[i + 1] /\ Tail(f) = From(P, i + 1)
      BY <2>3
    <3> HIDE DEF f
    <3>2. f = <<Head(f)>> \o Tail(f)
      BY <3>1, HeadJoined
    <3> QED
      BY <3>1, <3>2, Zenon DEF f
  <2> QED
    BY <2>1, <2>2, <2>3, <2>4
<1>2. ASSUME Bad # {} PROVE FALSE
  <2>1. PICK k \in Bad : \A i \in Bad : k <= i
    <3>1. Bad \in SUBSET Nat
      OBVIOUS
    <3> HIDE DEF Bad
    <3> QED
      BY <1>2, <3>1, LeastOf
  <2>2. k \in Nat /\ k <= n /\ ~Good(n - k)
    OBVIOUS
  <2>3. CASE k = 0
    <3>1. n - k = n
      BY <1>1, <2>3
    <3>2. PairCalls(<<>>) = <<>>
      BY NoPairs
    <3>3. <<>> \o K = K
      BY <1>1, ConcatEmptySeq
    <3>4. Good(n)
      BY <1>1, <3>2, <3>3
    <3> QED
      BY <2>2, <3>1, <3>4
  <2>4. CASE k # 0
    <3> DEFINE i == n - k
               p == P[i + 1]
               q == From(P, i + 1)
    <3>1. i \in 0..n /\ i < n /\ i + 1 \in 1..n /\ (i + 1) - 1 = i /\ i + 1 = n - (k - 1)
          /\ k - 1 \in Nat /\ k - 1 <= n /\ ~(k <= k - 1) /\ i + 1 \in 0..n
      BY <1>1, <2>2, <2>4
    <3>2. Good(n - (k - 1))
      <4>1. k - 1 \notin Bad
        <5> HIDE DEF Bad
        <5> QED
          BY <2>1, <3>1
      <4> HIDE DEF Good
      <4> QED
        BY <3>1, <4>1
    <3> HIDE DEF i
    <3>3. D[i + 1] = PairCalls(q) \o K /\ Apart("value", D[i + 1]) /\ D[i + 1] \in Seq(CallSet)
      BY <3>1, <3>2
    <3>4. p \in PairSet /\ q \in Seq(PairSet) /\ From(P, i) = <<p>> \o q
      BY <1>1, <3>1
    <3> HIDE DEF q, p
    <3> DEFINE A == PairCall(p)
               C == PairCalls(q)
    <3>5. A \in Seq(CallSet) /\ C \in Seq(CallSet) /\ PairCalls(<<p>> \o q) = A \o C
      BY <3>4, PairCallsStep, PairCallIs
    <3>6. D[i] = Adds(p, D[i + 1])
      <4>1. D[(i + 1) - 1] = Adds(P[i + 1], D[i + 1])
        BY <3>1
      <4> QED
        BY <3>1, <4>1 DEF p
    <3>7. D[i] = A \o D[i + 1] /\ Apart("value", D[i])
      BY <3>3, <3>4, <3>6, AddsApart
    <3> HIDE DEF A, C, K
    <3>8. (A \o C) \o K = A \o (C \o K)
      <4>1. Cat(Cat(A, C), K) = Cat(A, Cat(C, K))
        BY ONLY <1>1, <3>5, RegroupCalls
      <4> QED
        BY ONLY <4>1 DEF Cat
    <3>9. D[i] = PairCalls(From(P, i)) \o K
      BY <3>3, <3>4, <3>5, <3>7, <3>8 DEF C
    <3>13. Good(i)
      BY <3>7, <3>9 DEF K
    <3> QED
      BY <2>2, <3>13 DEF i
  <2> QED
    BY <2>3, <2>4
<1>3. n \notin Bad /\ n - n = 0
  <2>1. n - n = 0
    BY <1>1
  <2>2. n \notin Bad
    <3> HIDE DEF Bad
    <3> QED
      BY <1>2
  <2> QED
    BY <2>1, <2>2
<1> HIDE DEF Good
<1>4. Good(n - n)
  BY <1>1, <1>3
<1>5. Good(0)
  BY <1>3, <1>4
<1> QED
  BY <1>1, <1>5 DEF Good

(* The lines of senders are lines.                                         *)
LEMMA LinesAny ==
  /\ LineSet \subseteq AnyLine
  /\ \A x \in Seq(LineSet) : x \in Seq(AnyLine)
<1>1. LineSet \subseteq AnyLine
  BY DEF AnyLine
<1> QED
  BY <1>1, SeqMonotonic

(* A header with all its lines.                                            *)
LEMMA HeaderDue ==
  ASSUME NEW e \in CallSet, NEW h \in Headers, NEW r \in Seq(LineSet)
  PROVE  /\ PairOf(h) \in PairSet /\ HeaderLines(h) \o r \in Seq(LineSet)
         /\ Due(HeaderLines(h) \o r, e) = Adds(PairOf(h), Due(r, e))
<1> DEFINE tx == [i \in DOMAIN h.fold |-> h.fold[i].text]
           n == Len(tx)
           f == FoldsOf(h)
           l == [t |-> "header", h |-> h]
           D == [j \in 0..n |-> Due(From(f, j) \o r, e)]
<1>1. /\ tx \in Seq(Text) /\ h.name \in Text /\ h.value \in Text /\ n \in Nat
      /\ DOMAIN h.fold = 1..n /\ \A j \in 1..n : tx[j] = h.fold[j].text
      /\ ~h.colon => n = 0
  <2> DEFINE o == h.fold
             S == Folds
             m == Len(o)
             x(i) == o[i].text
  <2>1. o \in Seq(S) /\ h.name \in Text /\ h.value \in Text /\ (~h.colon => o = <<>>)
    BY DEF Headers
  <2>2. \A g \in Folds : g.text \in Text
    BY DEF Folds
  <2> HIDE DEF o
  <2>3. m \in Nat /\ DOMAIN o = 1..m /\ \A i \in 1..m : o[i] \in S
    <3> HIDE DEF S
    <3> QED
      BY ONLY <2>1, LenProperties, ElementOfSeq
  <2>4. \A i \in 1..m : x(i) \in Text
    BY <2>2, <2>3
  <2>5. (o = <<>>) => m = 0
    OBVIOUS
  <2>6. tx = [i \in 1..m |-> x(i)]
    BY <2>3 DEF o
  <2> HIDE DEF m, x, tx
  <2>7. tx \in Seq(Text)
    BY ONLY <2>3, <2>4, <2>6, IsASeq
  <2>8. Len(tx) = m /\ \A i \in 1..m : tx[i] = x(i)
    BY <2>3, <2>6
  <2> QED
    BY <2>1, <2>3, <2>5, <2>7, <2>8 DEF o, x
<1>2. /\ f \in Seq(LineSet) /\ Len(f) = n
      /\ \A j \in 1..n : f[j].t = "fold" /\ f[j].f.text = tx[j]
      /\ HeaderLines(h) = <<l>> \o f /\ l \in LineSet
  <2>1. f \in Seq(FoldLines) /\ HeaderLines(h) = <<l>> \o f
    BY HeaderIs
  <2>2. f \in Seq(LineSet) /\ l \in LineSet
    BY <2>1, LineKinds, SeqMonotonic
  <2> HIDE DEF tx, n
  <2>3. f = [j \in 1..n |-> [t |-> "fold", f |-> h.fold[j]]]
    BY <1>1 DEF FoldsOf
  <2>4. Len(f) = n /\ \A j \in 1..n : f[j] = [t |-> "fold", f |-> h.fold[j]]
    BY <1>1, <2>3
  <2>5. \A j \in 1..n : f[j].t = "fold" /\ f[j].f.text = tx[j]
    <3> SUFFICES ASSUME NEW j \in 1..n PROVE f[j].t = "fold" /\ f[j].f.text = tx[j]
      OBVIOUS
    <3>1. f[j] = [t |-> "fold", f |-> h.fold[j]]
      BY <2>4
    <3>2. tx[j] = h.fold[j].text
      BY <1>1
    <3> HIDE DEF f
    <3> QED
      BY ONLY <3>1, <3>2
  <2> HIDE DEF f, l
  <2> QED
    BY ONLY <2>1, <2>2, <2>4, <2>5 DEF l
<1>3. tx \in Seq(Seq(Char))
  BY <1>1 DEF Text
<1>4. /\ Flat(tx, 0) = FlattenSeq(tx) /\ Flat(tx, 0) \in Text
      /\ PairOf(h).name = h.name /\ PairOf(h).value = h.value \o Flat(tx, 0)
      /\ PairOf(h).colon = h.colon
      /\ PairOf(h) \in PairSet
  <2>1. Flat(tx, 0) = FlattenSeq(tx) /\ Flat(tx, 0) \in Text
    <3>1. 0 \in 0..n
      BY <1>1
    <3> QED
      BY <1>3, <3>1, FlatStep DEF Text
  <2>2. h.value \o Flat(tx, 0) \in Text
    BY <1>1, <2>1, ConcatProperties DEF Text
  <2>3. h.name \in Text /\ h.colon \in BOOLEAN
    BY DEF Headers
  <2> QED
    BY <2>1, <2>2, <2>3, Zenon DEF PairOf, PairSet
<1> HIDE DEF f
<1>5. /\ \A j \in 0..n : From(f, j) \o r \in Seq(LineSet)
      /\ From(f, 0) \o r = f \o r /\ From(f, n) \o r = r
      /\ \A j \in 1..n : From(f, j - 1) \o r = <<f[j]>> \o (From(f, j) \o r)
  <2>1. ASSUME NEW j \in 0..n
        PROVE  /\ From(f, j) \o r \in Seq(LineSet)
               /\ j = n => From(f, j) \o r = r
               /\ j < n => /\ From(f, j) \o r # <<>> /\ Head(From(f, j) \o r) = f[j + 1]
                           /\ Tail(From(f, j) \o r) = From(f, j + 1) \o r
    <3>1. j \in 0..Len(f)
      BY <1>2
    <3> HIDE DEF n
    <3> QED
      BY <1>2, <3>1, RowStep, ZenonT(40)
  <2>2. From(f, 0) = f
    BY <1>1, <1>2, FromStep
  <2>3. ASSUME NEW j \in 1..n PROVE From(f, j - 1) \o r = <<f[j]>> \o (From(f, j) \o r)
    <3> DEFINE i == j - 1
               x == From(f, i) \o r
    <3>1. i \in 0..n /\ i < n /\ i + 1 = j
      BY <1>1
    <3>2. x \in Seq(LineSet) /\ x # <<>> /\ Head(x) = f[i + 1] /\ Tail(x) = From(f, i + 1) \o r
      BY <2>1, <3>1
    <3> HIDE DEF x
    <3>3. x = <<Head(x)>> \o Tail(x)
      BY <3>2, HeadJoined
    <3> QED
      BY <3>1, <3>2, <3>3 DEF x
  <2>4. 0 \in 0..n /\ n \in 0..n
    BY <1>1
  <2> HIDE DEF n
  <2> QED
    BY <2>1, <2>2, <2>3, <2>4
<1>6. D \in [0..n -> Seq(CallSet)] /\ \A j \in 0..n : D[j] = Due(From(f, j) \o r, e)
  <2>1. ASSUME NEW j \in 0..n PROVE Due(From(f, j) \o r, e) \in Seq(CallSet)
    BY <1>2, <1>5, LinesAny, DueStep
  <2> QED
    BY <2>1
<1> HIDE DEF D
<1> HIDE DEF tx
<1>7. \A j \in 1..n : D[j - 1] = Join(Call("value", tx[j]), D[j])
  <2> SUFFICES ASSUME NEW j \in 1..n PROVE D[j - 1] = Join(Call("value", tx[j]), D[j])
    OBVIOUS
  <2>1. j \in 0..n /\ j - 1 \in 0..n
    BY <1>1
  <2>2. f[j] \in AnyLine /\ From(f, j) \o r \in Seq(AnyLine)
    BY <1>2, <1>5, <2>1, LinesAny, ElementOfSeq
  <2>3. f[j].t = "fold" /\ f[j].f.text = tx[j]
    BY <1>2
  <2>4. Due(<<f[j]>> \o (From(f, j) \o r), e) = Join(Call("value", tx[j]), Due(From(f, j) \o r, e))
    BY <2>2, <2>3, DueStep
  <2> QED
    BY <1>5, <1>6, <2>1, <2>4
<1>8. Join(Call("value", h.value), D[0]) = Join(Call("value", h.value \o Flat(tx, 0)), D[n])
  <2>1. 0 \in 0..n /\ "value" \in {"value", "body"}
    BY <1>1
  <2> HIDE DEF tx
  <2> QED
    BY <1>1, <1>6, <1>7, <2>1, TextsJoined
<1>9. D[0] = Due(f \o r, e) /\ D[n] = Due(r, e)
  <2>1. 0 \in 0..n /\ n \in 0..n
    BY <1>1
  <2> HIDE DEF n
  <2> QED
    BY <1>5, <1>6, <2>1
<1>10. f \o r \in Seq(LineSet) /\ HeaderLines(h) \o r = <<l>> \o (f \o r)
       /\ HeaderLines(h) \o r \in Seq(LineSet)
  <2> DEFINE L == <<l>>
  <2>1. L \in Seq(LineSet)
    BY <1>2
  <2> HIDE DEF L
  <2>2. (L \o f) \o r = L \o (f \o r) /\ f \o r \in Seq(LineSet)
    <3>1. L \in Seq(LineSet) /\ f \in Seq(LineSet) /\ r \in Seq(LineSet)
      BY <1>2, <2>1
    <3>2. Cat(Cat(L, f), r) = Cat(L, Cat(f, r))
      BY ONLY <3>1, RegroupLines
    <3>3. f \o r \in Seq(LineSet)
      BY ONLY <3>1, ConcatProperties
    <3> QED
      BY ONLY <3>2, <3>3 DEF Cat
  <2>3. L \o (f \o r) \in Seq(LineSet)
    BY <2>1, <2>2, ConcatProperties
  <2> QED
    BY <1>2, <2>2, <2>3 DEF L
<1>11. Due(<<l>> \o (f \o r), e) = Adds(h, Due(f \o r, e))
  <2>1. l \in AnyLine /\ f \o r \in Seq(AnyLine) /\ l.t = "header" /\ l.h = h
    BY <1>2, <1>10, LinesAny
  <2> HIDE DEF l
  <2> QED
    BY <2>1, DueStep
<1>12. Adds(h, Due(f \o r, e)) = Adds(PairOf(h), Due(r, e))
  <2>1. CASE h.colon
    <3> DEFINE c == Call("field", h.name)
               u == Join(Call("value", h.value), D[0])
               w == Join(Call("value", PairOf(h).value), D[n])
    <3>1. u = w
      BY <1>4, <1>8
    <3>2. Adds(h, D[0]) = <<c>> \o u
      BY <2>1, Zenon DEF Adds
    <3>3. Adds(PairOf(h), D[n]) = <<c>> \o w
      BY <1>4, <2>1, Zenon DEF Adds
    <3> QED
      BY ONLY <1>9, <3>1, <3>2, <3>3
  <2>2. CASE ~h.colon
    <3> DEFINE c == Call("field", h.name)
    <3>1. D[0] = D[n]
      BY <1>1, <2>2, Zenon
    <3>2. Adds(h, D[0]) = <<c>> \o D[0]
      BY <2>2, Zenon DEF Adds
    <3>3. Adds(PairOf(h), D[n]) = <<c>> \o D[n]
      BY <1>4, <2>2, Zenon DEF Adds
    <3> QED
      BY ONLY <1>9, <3>1, <3>2, <3>3
  <2> QED
    BY <2>1, <2>2, Zenon
<1> QED
  BY <1>4, <1>10, <1>11, <1>12

(* The headers of a section are due their fields and values.               *)
LEMMA SectionDue ==
  ASSUME NEW e \in CallSet, NEW hs \in Seq(Headers), NEW ends \in {"headers", "trailers"},
         NEW r \in Seq(LineSet), Apart("value", Due(<<Empty(ends)>> \o r, e))
  PROVE  /\ [i \in DOMAIN hs |-> PairOf(hs[i])] \in Seq(PairSet)
         /\ Due(Section(hs, ends) \o r, e)
            = PairCalls([i \in DOMAIN hs |-> PairOf(hs[i])]) \o Due(<<Empty(ends)>> \o r, e)
<1> DEFINE n == Len(hs)
           H == Heads(hs)
           P == [i \in DOMAIN hs |-> PairOf(hs[i])]
           end == <<Empty(ends)>>
           z == end \o r
           D == [j \in 0..n |-> Due(Flat(H, j) \o z, e)]
<1>1. /\ n \in Nat /\ H \in Seq(Seq(LineSet)) /\ Len(H) = n /\ DOMAIN hs = 1..n
      /\ \A i \in 1..n : hs[i] \in Headers /\ H[i] = HeaderLines(hs[i])
      /\ Section(hs, ends) = Flat(H, 0) \o end
      /\ end \in Seq(LineSet)
  BY HeadsAre
<1>2. P \in Seq(PairSet) /\ Len(P) = n /\ \A i \in 1..n : P[i] = PairOf(hs[i])
  <2>1. \A i \in 1..n : PairOf(hs[i]) \in PairSet
    <3>1. <<>> \in Seq(LineSet) /\ Complete \in CallSet
      BY TheCalls
    <3> QED
      BY <1>1, <3>1, HeaderDue
  <2> HIDE DEF n
  <2>2. P = [i \in 1..n |-> PairOf(hs[i])]
    BY <1>1
  <2>3. [i \in 1..n |-> PairOf(hs[i])] \in [1..n -> PairSet]
    BY <2>1
  <2> QED
    BY <1>1, <2>2, <2>3
<1> HIDE DEF P, H, end
<1>3. z \in Seq(LineSet) /\ \A j \in 0..n : Flat(H, j) \in Seq(LineSet) /\ Flat(H, j) \o z \in Seq(LineSet)
  <2>1. z \in Seq(LineSet)
    BY <1>1, ConcatProperties
  <2> HIDE DEF z
  <2>2. ASSUME NEW j \in 0..n PROVE Flat(H, j) \in Seq(LineSet) /\ Flat(H, j) \o z \in Seq(LineSet)
    <3>1. Flat(H, j) \in Seq(LineSet)
      BY <1>1, FlatStep
    <3> QED
      BY <2>1, <3>1, ConcatProperties
  <2> QED
    BY <2>1, <2>2
<1> HIDE DEF z
<1>4. D \in [0..n -> Seq(CallSet)] /\ \A j \in 0..n : D[j] = Due(Flat(H, j) \o z, e)
  <2>1. ASSUME NEW j \in 0..n PROVE Due(Flat(H, j) \o z, e) \in Seq(CallSet)
    <3>1. Flat(H, j) \o z \in Seq(AnyLine) /\ Junk \in AnyLine
      BY <1>3, LinesAny DEF AnyLine
    <3> QED
      BY <3>1, DueStep
  <2> QED
    BY <2>1
<1> HIDE DEF D
<1>5. \A j \in 1..n : D[j - 1] = Adds(P[j], D[j])
  <2> SUFFICES ASSUME NEW j \in 1..n
               PROVE  D[j - 1] = Adds(P[j], D[j])
    OBVIOUS
  <2>1. j \in 0..n /\ j - 1 \in 0..n /\ j - 1 < n /\ (j - 1) + 1 = j
    BY <1>1
  <2>2. Flat(H, j - 1) = HeaderLines(hs[j]) \o Flat(H, j)
    <3>1. Flat(H, j - 1) = H[(j - 1) + 1] \o Flat(H, (j - 1) + 1)
      BY <1>1, <2>1, FlatStep
    <3> QED
      BY <1>1, <2>1, <3>1
  <2> DEFINE a == HeaderLines(hs[j])
             b == Flat(H, j)
  <2>3. a \in Seq(LineSet) /\ b \in Seq(LineSet)
    BY <1>1, <1>3, <2>1, HeaderIs
  <2> HIDE DEF a, b
  <2>4. (a \o b) \o z = a \o (b \o z) /\ b \o z \in Seq(LineSet)
    <3>1. a \in Seq(LineSet) /\ b \in Seq(LineSet) /\ z \in Seq(LineSet)
      BY <1>3, <2>3
    <3>2. Cat(Cat(a, b), z) = Cat(a, Cat(b, z))
      BY ONLY <3>1, RegroupLines
    <3>3. b \o z \in Seq(LineSet)
      BY ONLY <3>1, ConcatProperties
    <3> QED
      BY ONLY <3>2, <3>3 DEF Cat
  <2>5. Due(a \o (b \o z), e) = Adds(PairOf(hs[j]), Due(b \o z, e))
    BY <1>1, <2>4, HeaderDue DEF a
  <2> QED
    BY <1>2, <1>4, <2>1, <2>2, <2>4, <2>5 DEF a, b
<1>6. D[n] = Due(z, e) /\ D[0] = Due(Section(hs, ends) \o r, e)
  <2>1. Flat(H, n) = <<>> /\ <<>> \o z = z /\ 0 \in 0..n /\ n \in 0..n
    <3>1. 0 \in 0..n /\ n \in 0..n
      BY <1>1
    <3> HIDE DEF n
    <3>2. Flat(H, n) = <<>>
      BY <1>1, <3>1, FlatStep
    <3> QED
      BY <1>3, <3>1, <3>2, ConcatEmptySeq
  <2> DEFINE a == Flat(H, 0)
  <2>2. a \in Seq(LineSet)
    BY <1>3, <2>1
  <2> HIDE DEF a
  <2>3. (a \o end) \o r = a \o (end \o r)
    <3>1. a \in Seq(LineSet) /\ end \in Seq(LineSet) /\ r \in Seq(LineSet)
      BY <1>1, <2>2
    <3>2. Cat(Cat(a, end), r) = Cat(a, Cat(end, r))
      BY ONLY <3>1, RegroupLines
    <3> QED
      BY ONLY <3>2 DEF Cat
  <2> QED
    BY <1>1, <1>4, <2>1, <2>3 DEF a, z
<1>7. Apart("value", D[n])
  BY <1>6 DEF z, end
<1>8. D[0] = PairCalls(P) \o D[n]
  BY <1>2, <1>4, <1>5, <1>7, PairCallsJoined
<1> QED
  BY <1>2, <1>6, <1>8 DEF P, z, end

(* The texts of a body are due its body as one.                            *)
LEMMA TextsDue ==
  ASSUME NEW tx \in Seq(Text), \A i \in 1..Len(tx) : tx[i] # <<>>,
         NEW D \in [0..Len(tx) -> Seq(CallSet)],
         \A j \in 1..Len(tx) : D[j - 1] = Join(Call("body", tx[j]), D[j]),
         Apart("body", D[Len(tx)])
  PROVE  D[0] = (IF FlattenSeq(tx) = <<>> THEN <<>> ELSE <<Call("body", FlattenSeq(tx))>>)
                \o D[Len(tx)]
<1> DEFINE n == Len(tx)
<1>1. n \in Nat /\ D[n] \in Seq(CallSet) /\ tx \in Seq(Seq(Char)) /\ 0 \in 0..n
  BY LenProperties DEF Text
<1>2. CASE n = 0
  <2>1. tx = <<>> /\ FlattenSeq(tx) = <<>>
    <3>1. tx = <<>>
      BY <1>2, EmptySeq
    <3> QED
      BY <3>1 DEF FlattenSeq
  <2> QED
    BY <1>1, <1>2, <2>1, ConcatEmptySeq
<1>3. CASE n # 0
  <2> DEFINE a == tx[1]
             b == Flat(tx, 1)
             c == Call("body", a \o b)
  <2>1. 1 \in 1..n /\ 1 \in 0..n /\ 0 < n
    BY <1>1, <1>3
  <2>2. /\ a \in Text /\ a # <<>> /\ b \in Text
        /\ FlattenSeq(tx) = a \o b
    <3>1. Flat(tx, 0) = FlattenSeq(tx) /\ Flat(tx, 0) = tx[0 + 1] \o Flat(tx, 0 + 1) /\ tx[0 + 1] \in Seq(Char)
      BY <1>1, <2>1, FlatStep
    <3>2. b \in Seq(Char)
      BY <1>1, <2>1, FlatStep
    <3> QED
      BY <2>1, <3>1, <3>2 DEF Text
  <2> HIDE DEF a, b
  <2>3. a \o b # <<>> /\ a \o b \in Text
    BY <2>2, ConcatEqualIffEmpty, ConcatProperties DEF Text
  <2>4. Join(Call("body", a), D[1]) = Join(c, D[n])
    <3>1. "body" \in {"value", "body"} /\ \A j \in 1..n : D[j - 1] = Join(Call("body", tx[j]), D[j])
      OBVIOUS
    <3>2. Join(Call("body", a), D[1]) = Join(Call("body", a \o Flat(tx, 1)), D[Len(tx)])
      BY <2>1, <2>2, <3>1, TextsJoined
    <3> QED
      BY <3>2 DEF b
  <2>5. D[0] = Join(Call("body", a), D[1])
    <3>1. D[1 - 1] = Join(Call("body", tx[1]), D[1])
      BY <2>1
    <3> QED
      BY <3>1 DEF a
  <2>6. c \in CallSet /\ c.cb = "body"
    BY <2>3, TheCalls DEF CallNames, Call
  <2>7. Join(c, D[n]) = <<c>> \o D[n]
    <3> HIDE DEF c
    <3> QED
      BY <1>1, <2>6, JoinApart
  <2> QED
    BY <2>2, <2>3, <2>4, <2>5, <2>7
<1> QED
  BY <1>2, <1>3

(* Where no line is due a call only the end is.                            *)
LEMMA NothingDue ==
  ASSUME NEW e \in CallSet, NEW z \in Seq(LineSet), CallsIn(z) = <<>>
  PROVE  Due(z, e) = <<e>>
<1>1. Junk \in AnyLine /\ <<>> \in Seq(AnyLine)
  BY DEF AnyLine
<1>2. CallsIn(<<>>) = <<>> /\ Due(<<>>, e) = <<e>>
  BY <1>1, CallsInStep, DueStep
<1> QED
  BY <1>2 DEF Due

LEMMA DataDue ==
  ASSUME NEW e \in CallSet, NEW x \in Text, NEW r \in Seq(LineSet)
  PROVE  Due(<<Line("data", x)>> \o r, e) = Join(Call("body", x), Due(r, e))
<1> DEFINE l == Line("data", x)
<1>1. l \in AnyLine /\ r \in Seq(AnyLine) /\ l.t = "data" /\ l.text = x
  BY LineKinds, LinesAny DEF Line
<1> HIDE DEF l
<1>2. Due(<<l>> \o r, e) = Join(Call("body", l.text), Due(r, e))
  BY <1>1, DueStep
<1> QED
  BY <1>1, <1>2 DEF l

LEMMA SizeDue ==
  ASSUME NEW e \in CallSet, NEW k \in Nat, NEW r \in Seq(LineSet)
  PROVE  Due(<<[t |-> "size", n |-> k]>> \o r, e) = Due(r, e)
<1> DEFINE l == [t |-> "size", n |-> k]
<1>1. l \in AnyLine /\ r \in Seq(AnyLine) /\ l.t = "size"
  BY LineKinds, LinesAny
<1> HIDE DEF l
<1>2. Due(<<l>> \o r, e) = Due(r, e)
  BY <1>1, DueStep
<1> QED
  BY <1>2 DEF l

(* The lines of a body without chunks.                                     *)
LEMMA DataLinesDue ==
  ASSUME NEW e \in CallSet, NEW s \in Sendings, Framed(s), NEW z \in Seq(LineSet),
         Apart("body", Due(z, e))
  PROVE  Due(DataLines(s) \o z, e)
         = (IF FlattenSeq(s.chunks) = <<>> THEN <<>> ELSE <<Call("body", FlattenSeq(s.chunks))>>)
           \o Due(z, e)
<1> DEFINE tx == s.chunks
           n == Len(tx)
           f == DataLines(s)
           D == [j \in 0..n |-> Due(From(f, j) \o z, e)]
<1>1. /\ n \in Nat /\ f \in Seq(LineSet) /\ Len(f) = n
      /\ \A i \in 1..n : f[i] = Line("data", tx[i]) /\ tx[i] \in Text
      /\ tx \in Seq(Text) /\ DOMAIN tx = 1..n
  BY ChunksAre DEF Text
<1>2. \A i \in 1..n : tx[i] # <<>>
  BY <1>1 DEF Framed
<1> HIDE DEF f, n
<1>3. /\ \A j \in 0..n : From(f, j) \o z \in Seq(LineSet)
      /\ From(f, 0) \o z = f \o z /\ From(f, n) \o z = z
      /\ \A j \in 1..n : From(f, j - 1) \o z = <<f[j]>> \o (From(f, j) \o z)
  <2>1. ASSUME NEW j \in 0..n
        PROVE  /\ From(f, j) \o z \in Seq(LineSet)
               /\ j = n => From(f, j) \o z = z
               /\ j < n => /\ From(f, j) \o z # <<>> /\ Head(From(f, j) \o z) = f[j + 1]
                           /\ Tail(From(f, j) \o z) = From(f, j + 1) \o z
    BY <1>1, RowStep, ZenonT(40)
  <2>2. From(f, 0) = f
    BY <1>1, FromStep
  <2>3. ASSUME NEW j \in 1..n PROVE From(f, j - 1) \o z = <<f[j]>> \o (From(f, j) \o z)
    <3> DEFINE i == j - 1
               x == From(f, i) \o z
    <3>1. i \in 0..n /\ i < n /\ i + 1 = j
      BY <1>1
    <3>2. x \in Seq(LineSet) /\ x # <<>> /\ Head(x) = f[i + 1] /\ Tail(x) = From(f, i + 1) \o z
      BY <2>1, <3>1
    <3> HIDE DEF x
    <3>3. x = <<Head(x)>> \o Tail(x)
      BY <3>2, HeadJoined
    <3> QED
      BY <3>1, <3>2, <3>3 DEF x
  <2>4. 0 \in 0..n /\ n \in 0..n
    BY <1>1
  <2> QED
    BY <2>1, <2>2, <2>3, <2>4
<1>4. D \in [0..n -> Seq(CallSet)] /\ \A j \in 0..n : D[j] = Due(From(f, j) \o z, e)
  <2>1. ASSUME NEW j \in 0..n PROVE Due(From(f, j) \o z, e) \in Seq(CallSet)
    <3>1. From(f, j) \o z \in Seq(AnyLine) /\ Junk \in AnyLine
      BY <1>3, LinesAny DEF AnyLine
    <3> QED
      BY <3>1, DueStep
  <2> QED
    BY <2>1
<1> HIDE DEF D
<1>5. ASSUME NEW j \in 1..n PROVE D[j - 1] = Join(Call("body", tx[j]), D[j])
  <2>1. j \in 0..n /\ j - 1 \in 0..n
    BY <1>1
  <2>2. Due(<<f[j]>> \o (From(f, j) \o z), e) = Join(Call("body", tx[j]), Due(From(f, j) \o z, e))
    BY <1>1, <1>3, <2>1, DataDue
  <2> QED
    BY <1>3, <1>4, <2>1, <2>2
<1>6. D[0] = Due(f \o z, e) /\ D[n] = Due(z, e)
  <2>1. 0 \in 0..n /\ n \in 0..n
    BY <1>1
  <2> QED
    BY <1>3, <1>4, <2>1
<1> HIDE DEF tx
<1>7. D[0] = (IF FlattenSeq(tx) = <<>> THEN <<>> ELSE <<Call("body", FlattenSeq(tx))>>) \o D[n]
  BY <1>1, <1>2, <1>4, <1>5, <1>6, TextsDue DEF n
<1> QED
  BY <1>6, <1>7 DEF f, tx

(* The chunks of a body, and the lines behind the last.                    *)
LEMMA ChunksDue ==
  ASSUME NEW e \in CallSet, NEW s \in Sendings, Framed(s), NEW z \in Seq(LineSet),
         Apart("body", Due(z, e))
  PROVE  Due(Flat(ChunkLines(s), 0) \o z, e)
         = (IF FlattenSeq(s.chunks) = <<>> THEN <<>> ELSE <<Call("body", FlattenSeq(s.chunks))>>)
           \o Due(z, e)
<1> DEFINE tx == s.chunks
           n == Len(tx)
           C == ChunkLines(s)
           D == [j \in 0..n |-> Due(Flat(C, j) \o z, e)]
<1>1. /\ n \in Nat /\ C \in Seq(Seq(LineSet)) /\ Len(C) = n
      /\ \A i \in 1..n : /\ C[i] = <<[t |-> "size", n |-> Len(tx[i])], Line("data", tx[i])>>
                         /\ tx[i] \in Text /\ Len(tx[i]) \in Nat
      /\ tx \in Seq(Text) /\ DOMAIN tx = 1..n
  BY ChunksAre DEF Text
<1>2. \A i \in 1..n : tx[i] # <<>>
  BY <1>1 DEF Framed
<1> HIDE DEF C, n
<1>3. \A j \in 0..n : Flat(C, j) \in Seq(LineSet) /\ Flat(C, j) \o z \in Seq(LineSet)
  <2>1. ASSUME NEW j \in 0..n PROVE Flat(C, j) \in Seq(LineSet) /\ Flat(C, j) \o z \in Seq(LineSet)
    <3>1. Flat(C, j) \in Seq(LineSet)
      BY <1>1, FlatStep
    <3> QED
      BY <3>1, ConcatProperties
  <2> QED
    BY <2>1
<1>4. D \in [0..n -> Seq(CallSet)] /\ \A j \in 0..n : D[j] = Due(Flat(C, j) \o z, e)
  <2>1. ASSUME NEW j \in 0..n PROVE Due(Flat(C, j) \o z, e) \in Seq(CallSet)
    <3>1. Flat(C, j) \o z \in Seq(AnyLine) /\ Junk \in AnyLine
      BY <1>3, LinesAny DEF AnyLine
    <3> QED
      BY <3>1, DueStep
  <2> QED
    BY <2>1
<1> HIDE DEF D
<1>5. ASSUME NEW j \in 1..n PROVE D[j - 1] = Join(Call("body", tx[j]), D[j])
  <2> DEFINE k == Len(tx[j])
             a == <<[t |-> "size", n |-> k]>>
             b == <<Line("data", tx[j])>>
             c == Flat(C, j)
  <2>1. j \in 0..n /\ j - 1 \in 0..n /\ j - 1 < n /\ (j - 1) + 1 = j
    BY <1>1
  <2>2. k \in Nat /\ tx[j] \in Text /\ C[j] = a \o b
        /\ [t |-> "size", n |-> k] \in LineSet /\ Line("data", tx[j]) \in LineSet
    <3>1. k \in Nat /\ tx[j] \in Text
      BY <1>1
    <3>2. [t |-> "size", n |-> k] \in LineSet /\ Line("data", tx[j]) \in LineSet
      BY <3>1, LineKinds
    <3> DEFINE p == [t |-> "size", n |-> k]
               q == Line("data", tx[j])
    <3>3. C[j] = <<p, q>>
      BY <1>1
    <3> HIDE DEF p, q
    <3>4. <<p, q>> = <<p>> \o <<q>>
      BY <3>2, TwoOf DEF p, q
    <3> QED
      BY <3>1, <3>2, <3>3, <3>4 DEF p, q
  <2>3. Flat(C, j - 1) = C[j] \o c
    <3>1. Flat(C, j - 1) = C[(j - 1) + 1] \o Flat(C, (j - 1) + 1)
      BY <1>1, <2>1, FlatStep
    <3> QED
      BY <2>1, <3>1
  <2>4. a \in Seq(LineSet) /\ b \in Seq(LineSet) /\ c \in Seq(LineSet)
    BY <1>3, <2>1, <2>2
  <2> HIDE DEF a, b, c
  <2>5. /\ ((a \o b) \o c) \o z = a \o (b \o (c \o z))
        /\ c \o z \in Seq(LineSet) /\ b \o (c \o z) \in Seq(LineSet)
    <3>1. c \o z \in Seq(LineSet) /\ b \o c \in Seq(LineSet)
      BY <2>4, ConcatProperties
    <3> DEFINE bc == b \o c
               cz == c \o z
    <3>2. (a \o b) \o c = a \o bc /\ bc \o z = b \o cz
      <4>1. a \in Seq(LineSet) /\ b \in Seq(LineSet) /\ c \in Seq(LineSet) /\ z \in Seq(LineSet)
        BY <2>4
      <4>2. /\ Cat(Cat(a, b), c) = Cat(a, Cat(b, c))
             /\ Cat(Cat(b, c), z) = Cat(b, Cat(c, z))
        BY ONLY <4>1, RegroupLines
      <4> QED
        BY ONLY <4>2 DEF Cat
    <3> HIDE DEF bc, cz
    <3>3. (a \o bc) \o z = a \o (bc \o z) /\ b \o cz \in Seq(LineSet)
      <4>1. a \in Seq(LineSet) /\ bc \in Seq(LineSet) /\ z \in Seq(LineSet) /\ b \in Seq(LineSet) /\ cz \in Seq(LineSet)
        BY <2>4, <3>1 DEF bc, cz
      <4>2. Cat(Cat(a, bc), z) = Cat(a, Cat(bc, z))
        BY ONLY <4>1, RegroupLines
      <4>3. b \o cz \in Seq(LineSet)
        BY ONLY <4>1, ConcatProperties
      <4> QED
        BY ONLY <4>2, <4>3 DEF Cat
    <3> QED
      BY <3>1, <3>2, <3>3 DEF cz
  <2> DEFINE y == b \o (c \o z)
  <2>6. Due(a \o y, e) = Due(y, e)
    <3> HIDE DEF y
    <3> QED
      BY <2>2, <2>5, SizeDue DEF a, y
  <2>7. Due(y, e) = Join(Call("body", tx[j]), Due(c \o z, e))
    BY <2>2, <2>5, DataDue DEF b
  <2> QED
    BY <1>4, <2>1, <2>2, <2>3, <2>5, <2>6, <2>7 DEF c
<1>6. D[0] = Due(Flat(C, 0) \o z, e) /\ D[n] = Due(z, e)
  <2>1. 0 \in 0..n /\ n \in 0..n
    BY <1>1
  <2>2. Flat(C, n) = <<>> /\ <<>> \o z = z
    <3>1. Flat(C, n) = <<>>
      BY <1>1, <2>1, FlatStep
    <3> QED
      BY <3>1, ConcatEmptySeq
  <2> QED
    BY <1>4, <2>1, <2>2
<1> HIDE DEF tx
<1>7. D[0] = (IF FlattenSeq(tx) = <<>> THEN <<>> ELSE <<Call("body", FlattenSeq(tx))>>) \o D[n]
  BY <1>1, <1>2, <1>4, <1>5, <1>6, TextsDue DEF n
<1> QED
  BY <1>6, <1>7 DEF C, tx

(* The calls for a body, and the headers of a message as pairs.            *)
BodyIn(s) == IF FlattenSeq(s.chunks) = <<>> THEN <<>> ELSE <<Call("body", FlattenSeq(s.chunks))>>
PairsOf(hs) == [i \in DOMAIN hs |-> PairOf(hs[i])]

(* The lines behind the headers of a message are due its body and its      *)
(* trailers.                                                               *)
LEMMA BodyDue ==
  ASSUME NEW e \in CallSet, e.cb \in {"complete", "eof"},
         NEW s \in Sendings, Framed(s), NEW z \in Seq(LineSet), CallsIn(z) = <<>>
  PROVE  /\ BodyIn(s) \in Seq(CallSet)
         /\ PairCalls(PairsOf(s.trailers)) \in Seq(CallSet)
         /\ BodyLines(s) \o z \in Seq(LineSet)
         /\ Due(BodyLines(s) \o z, e) = BodyIn(s) \o (PairCalls(PairsOf(s.trailers)) \o <<e>>)
<1> DEFINE T == PairCalls(PairsOf(s.trailers))
           B == BodyIn(s)
           E == <<e>>
           S == Seq(CallSet)
<1>1. Due(z, e) = E /\ E \in S /\ s.headers \in Seq(Headers) /\ s.trailers \in Seq(Headers)
  <2>1. s.headers \in Seq(Headers) /\ s.trailers \in Seq(Headers)
    BY MessageIs
  <2>2. Due(z, e) = <<e>>
    BY NothingDue
  <2> QED
    BY <2>1, <2>2
<1>2. /\ BodyLines(s) \in Seq(LineSet) /\ s.frame \in {"none", "length", "chunked", "eof"}
      /\ BodyLines(s) \o z \in Seq(LineSet)
  BY BodyIs, ConcatProperties
<1>3. B \in S
  <2>1. s.chunks \in Seq(Seq(Char))
    BY ChunksAre
  <2>2. FlattenSeq(s.chunks) \in Text
    BY <2>1, Flattened DEF Text
  <2>3. Call("body", FlattenSeq(s.chunks)) \in CallSet
    BY <2>2, TheCalls DEF CallNames
  <2> QED
    BY <2>3 DEF BodyIn
<1>4. T \in S /\ PairsOf(s.trailers) \in Seq(PairSet) /\ PairCalls(<<>>) = <<>>
  <2>1. \A h \in Headers : PairOf(h) \in PairSet
    BY HeaderDue
  <2>2. PairsOf(s.trailers) \in Seq(PairSet)
    <3> DEFINE hs == s.trailers
               n == Len(hs)
    <3>1. n \in Nat /\ DOMAIN hs = 1..n /\ \A i \in 1..n : hs[i] \in Headers
      BY <1>1, HeadsAre
    <3> HIDE DEF hs, n
    <3>2. PairsOf(hs) = [i \in 1..n |-> PairOf(hs[i])]
      BY <3>1 DEF PairsOf
    <3>3. [i \in 1..n |-> PairOf(hs[i])] \in [1..n -> PairSet]
      BY <2>1, <3>1
    <3> QED
      BY <3>1, <3>2, <3>3 DEF hs
  <2>3. PairCalls(<<>>) = <<>>
    BY NoPairs
  <2> QED
    BY <2>2, <2>3, PairCallsBegin
<1>5. Apart("body", E) /\ Apart("value", E)
  BY DEF Apart
<1>6. CASE s.frame # "chunked"
  <2>1. s.trailers = <<>>
    BY <1>6 DEF Framed
  <2>2. T = <<>> /\ T \o E = E
    <3>1. PairsOf(<<>>) = <<>>
      BY DEF PairsOf
    <3>2. T = <<>>
      BY <1>4, <2>1, <3>1
    <3> QED
      BY <1>1, <3>2, ConcatEmptySeq
  <2>3. CASE s.frame = "none"
    <3>1. BodyLines(s) = <<>> /\ s.chunks = <<>> /\ <<>> \o z = z
      BY <2>3, BodyIs, ConcatEmptySeq DEF Framed
    <3>2. B = <<>>
      BY <3>1 DEF BodyIn, FlattenSeq
    <3>3. <<>> \o E = E
      BY <1>1, ConcatEmptySeq
    <3> QED
      BY <1>1, <1>2, <1>3, <1>4, <2>2, <3>1, <3>2, <3>3
  <2>4. CASE s.frame \in {"length", "eof"}
    <3>1. BodyLines(s) = DataLines(s)
      BY <2>4, BodyIs
    <3>2. Due(DataLines(s) \o z, e) = B \o E
      BY <1>1, <1>5, DataLinesDue DEF BodyIn
    <3> QED
      BY <1>2, <1>3, <1>4, <2>2, <3>1, <3>2
  <2> QED
    BY <1>2, <1>6, <2>3, <2>4
<1>7. CASE s.frame = "chunked"
  <2> DEFINE c == Flat(ChunkLines(s), 0)
             l == << [t |-> "size", n |-> 0] >>
             x == Section(s.trailers, "trailers")
             end == <<Empty("trailers")>>
  <2>1. BodyLines(s) = c \o l \o x
    BY <1>7, BodyIs
  <2>2. c \in Seq(LineSet) /\ l \in Seq(LineSet) /\ x \in Seq(LineSet)
    <3>1. [t |-> "size", n |-> 0] \in LineSet
      BY LineKinds
    <3>2. x \in Seq(LineSet)
      BY <1>1, HeadsAre
    <3>3. c \in Seq(LineSet)
      <4>1. ChunkLines(s) \in Seq(Seq(LineSet)) /\ 0 \in 0..Len(ChunkLines(s))
        BY ChunksAre
      <4> QED
        BY <4>1, FlatStep
    <3> QED
      BY <3>1, <3>2, <3>3
  <2> HIDE DEF c, l, x
  <2>3. ((c \o l) \o x) \o z = c \o (l \o (x \o z)) /\ x \o z \in Seq(LineSet) /\ l \o (x \o z) \in Seq(LineSet)
    <3> DEFINE cl == c \o l
               xz == x \o z
    <3>1. cl \in Seq(LineSet) /\ xz \in Seq(LineSet)
      BY <2>2, ConcatProperties
    <3>2. (cl \o x) \o z = cl \o xz
      <4> HIDE DEF cl
      <4> QED
        <5>1. cl \in Seq(LineSet) /\ x \in Seq(LineSet) /\ z \in Seq(LineSet)
          BY <2>2, <3>1
        <5>2. Cat(Cat(cl, x), z) = Cat(cl, Cat(x, z))
          BY ONLY <5>1, RegroupLines
        <5> QED
          BY ONLY <5>2 DEF Cat
    <3>3. (c \o l) \o xz = c \o (l \o xz) /\ l \o xz \in Seq(LineSet)
      <4> HIDE DEF xz
      <4> QED
        BY <2>2, <3>1, ConcatAssociative, ConcatProperties, SMTT(60)
    <3> QED
      BY <3>1, <3>2, <3>3
  <2>4. Due(end \o z, e) = E
    <3>1. Empty("trailers") \in AnyLine /\ z \in Seq(AnyLine)
      BY LineKinds, LinesAny
    <3>2. Due(<<Empty("trailers")>> \o z, e) = Due(z, e)
      BY <3>1, DueStep
    <3> QED
      BY <1>1, <3>2
  <2>5. Due(x \o z, e) = T \o E
    <3>1. Due(Section(s.trailers, "trailers") \o z, e)
          = PairCalls([i \in DOMAIN s.trailers |-> PairOf(s.trailers[i])]) \o Due(end \o z, e)
      <4>1. Apart("value", Due(<<Empty("trailers")>> \o z, e))
        BY <1>5, <2>4
      <4> QED
        BY <1>1, <4>1, SectionDue
    <3> QED
      BY <2>4, <3>1 DEF x, PairsOf
  <2>6. Apart("body", T \o E)
    <3>1. CASE T = <<>>
      BY <1>1, <1>5, <3>1, ConcatEmptySeq
    <3>2. CASE T # <<>>
      <4>1. Head(T \o E) = Head(T) /\ T \o E # <<>>
        <5> HIDE DEF T, E
        <5>1. Head(T) \in CallSet /\ Tail(T) \in S /\ T \o E = <<Head(T)>> \o (Tail(T) \o E)
          BY <1>1, <1>4, <3>2, HeadJoined
        <5>2. Tail(T) \o E \in S
          BY <1>1, <5>1, ConcatProperties
        <5> DEFINE a == Head(T)
                   y == Tail(T) \o E
        <5> HIDE DEF a, y
        <5>3. Head(<<a>> \o y) = a /\ <<a>> \o y # <<>>
          BY <5>1, <5>2, FirstOf DEF a, y
        <5> QED
          BY <5>1, <5>3 DEF a, y
      <4>2. Head(T).cb = "field"
        BY <1>4, <3>2, PairCallsBegin
      <4> QED
        BY <4>1, <4>2 DEF Apart
    <3> QED
      BY <3>1, <3>2
  <2> DEFINE y == l \o (x \o z)
  <2>7. Due(y, e) = T \o E
    <3>1. Due(<< [t |-> "size", n |-> 0] >> \o (x \o z), e) = Due(x \o z, e)
      BY <2>3, SizeDue
    <3> QED
      BY <2>5, <3>1 DEF l
  <2> HIDE DEF y
  <2>8. Due(c \o y, e) = B \o (T \o E)
    <3>1. y \in Seq(LineSet)
      BY <2>3 DEF y
    <3>2. Apart("body", Due(y, e))
      BY <2>6, <2>7
    <3>3. Due(c \o y, e) = B \o Due(y, e)
      BY <3>1, <3>2, ChunksDue DEF BodyIn, c
    <3> QED
      BY <2>7, <3>3
  <2> QED
    BY <1>2, <1>3, <1>4, <2>1, <2>3, <2>8 DEF y
<1> QED
  BY <1>6, <1>7

LEMMA CatIs ==
  ASSUME NEW S, NEW x \in Seq(S), NEW y \in Seq(S), NEW z \in Seq(S)
  PROVE  Cat(x, y) \in Seq(S) /\ Cat(x, Cat(y, z)) = Cat(Cat(x, y), z)
<1>1. x \o y \in Seq(S)
  BY ConcatProperties
<1>2. (x \o y) \o z = x \o (y \o z)
  BY ConcatAssociative
<1> QED
  BY <1>1, <1>2 DEF Cat

LEMMA RegroupedSix ==
  ASSUME NEW S, NEW a \in Seq(S), NEW p \in Seq(S), NEW h \in Seq(S), NEW b \in Seq(S),
         NEW t \in Seq(S), NEW e \in Seq(S)
  PROVE  Cat(a, Cat(p, Cat(h, Cat(b, Cat(t, e))))) = Cat(Cat(Cat(Cat(Cat(a, p), h), b), t), e)
<1> DEFINE te == Cat(t, e)
           bte == Cat(b, te)
           hbte == Cat(h, bte)
           ap == Cat(a, p)
           aph == Cat(ap, h)
           aphb == Cat(aph, b)
<1>1. te \in Seq(S) /\ ap \in Seq(S)
  BY CatIs
<1>2. bte \in Seq(S) /\ aph \in Seq(S)
  BY <1>1, CatIs
<1>3. hbte \in Seq(S) /\ aphb \in Seq(S)
  BY <1>2, CatIs
<1>4. Cat(a, Cat(p, hbte)) = Cat(ap, hbte)
  BY <1>3, CatIs
<1>5. Cat(ap, Cat(h, bte)) = Cat(aph, bte)
  BY <1>1, <1>2, CatIs
<1>6. Cat(aph, Cat(b, te)) = Cat(aphb, te)
  BY <1>1, <1>2, CatIs
<1>7. Cat(aphb, Cat(t, e)) = Cat(Cat(aphb, t), e)
  BY <1>3, CatIs
<1> QED
  BY <1>4, <1>5, <1>6, <1>7

(* The call that ends a message.                                           *)
EndCall(s) == Call(IF s.frame = "eof" THEN "eof" ELSE "complete", <<>>)

(* However a message is framed and folded, the calls its lines are due     *)
(* together are the calls that HttpParser is promised for it.              *)
LEMMA MessageDue ==
  ASSUME NEW s \in Sendings, Framed(s), NEW z \in Seq(LineSet), CallsIn(z) = <<>>
  PROVE  Merged(<<Call(s.kind, s.first)>>
                \o (CallsIn(Section(s.headers, "headers") \o (BodyLines(s) \o z)) \o <<EndCall(s)>>))
         = Calls(MessageOf(s))
<1> DEFINE m == MessageOf(s)
           e == EndCall(s)
           S == Seq(CallSet)
           A == <<Call(s.kind, s.first)>>
           P == PairCalls(PairsOf(s.headers))
           H == <<Call("headers", <<>>)>>
           B == BodyIn(s)
           T == PairCalls(PairsOf(s.trailers))
           E == <<e>>
           r == BodyLines(s) \o z
           x == Section(s.headers, "headers") \o r
<1>1. e \in CallSet /\ e.cb \in {"complete", "eof"}
  BY TheCalls DEF EndCall, CallNames, Call
<1>2. /\ B \in S /\ T \in S /\ r \in Seq(LineSet) /\ E \in S
      /\ Due(r, e) = B \o (T \o E)
  <2> HIDE DEF e
  <2> QED
    BY <1>1, BodyDue
<1>3. H \in S /\ Call("headers", <<>>) \in CallSet
  <2>1. Call("headers", <<>>) \in CallSet
    BY TheCalls DEF CallNames
  <2> QED
    BY <2>1
<1>4. Call(s.kind, s.first) \in CallSet /\ A \in S /\ Call(s.kind, s.first).cb \in {"url", "status"}
  <2>1. s.kind \in {"url", "status"} /\ s.first \in Text
    BY DEF Sendings
  <2>2. Call(s.kind, s.first) \in CallSet
    BY <2>1, TheCalls DEF CallNames
  <2> QED
    BY <2>1, <2>2 DEF Call
<1> HIDE DEF e, r
<1>5. Due(<<Empty("headers")>> \o r, e) = H \o Due(r, e)
  <2>1. Empty("headers") \in AnyLine /\ r \in Seq(AnyLine)
    BY <1>2, LineKinds, LinesAny
  <2> QED
    BY <1>1, <2>1, DueStep
<1>6. Due(r, e) \in S
  <2>1. T \o E \in S
    BY <1>2, ConcatProperties
  <2> QED
    BY <1>2, <2>1, ConcatProperties
<1>7. Apart("value", H \o Due(r, e))
  <2> DEFINE d == Due(r, e)
             h == Call("headers", <<>>)
  <2>1. h.cb = "headers"
    BY DEF Call
  <2> HIDE DEF d, h
  <2>2. Head(<<h>> \o d) = h
    BY <1>3, <1>6, FirstOf DEF d, h
  <2> QED
    BY <2>1, <2>2 DEF Apart, d, h
<1>8. P \in S /\ Due(x, e) = P \o (H \o Due(r, e)) /\ s.headers \in Seq(Headers)
  <2>1. s.headers \in Seq(Headers)
    BY MessageIs
  <2>2. PairsOf(s.headers) \in Seq(PairSet)
        /\ Due(Section(s.headers, "headers") \o r, e) = P \o Due(<<Empty("headers")>> \o r, e)
    BY <1>1, <1>2, <1>5, <1>7, <2>1, SectionDue DEF PairsOf
  <2> QED
    BY <1>5, <2>1, <2>2, PairCallsBegin
<1>9. x \in Seq(AnyLine) /\ CallsIn(x) \in S
  <2>1. x \in Seq(LineSet)
    BY <1>2, <1>8, SectionBegins
  <2> HIDE DEF x
  <2>2. Junk \in AnyLine /\ x \in Seq(AnyLine)
    BY <2>1, LinesAny DEF AnyLine
  <2> QED
    BY <2>2, CallsInStep
<1> HIDE DEF x
<1>10. Merged(A \o (CallsIn(x) \o E)) = A \o Due(x, e)
  <2> DEFINE a == Call(s.kind, s.first)
             y == CallsIn(x) \o E
  <2>1. y \in S
    BY <1>2, <1>9, ConcatProperties
  <2>2. Merged(y) = Due(x, e) /\ Merged(y) \in S
    BY <2>1, MergedJoin DEF Due
  <2> HIDE DEF a, y
  <2>3. Merged(<<a>> \o y) = Join(a, Merged(y))
    BY <1>4, <2>1, MergedJoin DEF a
  <2>4. Join(a, Merged(y)) = <<a>> \o Merged(y)
    BY <1>4, <2>2, JoinApart DEF a
  <2> QED
    BY <2>2, <2>3, <2>4 DEF a, y
<1>11. Calls(m) = A \o P \o H \o B \o T \o E
  <2>1. /\ m.kind = s.kind /\ m.first = s.first /\ m.headers = PairsOf(s.headers)
        /\ m.trailers = PairsOf(s.trailers) /\ m.body = FlattenSeq(s.chunks)
        /\ m.untilEof = (s.frame = "eof")
    BY DEF MessageOf, PairsOf
  <2> HIDE DEF m
  <2>2. BodyCalls(m) = B
    BY <2>1 DEF BodyCalls, BodyIn
  <2>3. Call(IF m.untilEof THEN "eof" ELSE "complete", <<>>) = e
    BY <2>1 DEF e, EndCall
  <2> QED
    BY <2>1, <2>2, <2>3 DEF Calls
<1> HIDE DEF A, P, H, B, T, E
<1>12. A \o (P \o (H \o (B \o (T \o E)))) = A \o P \o H \o B \o T \o E
  <2>1. /\ A \in Seq(CallSet) /\ P \in Seq(CallSet) /\ H \in Seq(CallSet)
        /\ B \in Seq(CallSet) /\ T \in Seq(CallSet) /\ E \in Seq(CallSet)
    BY <1>2, <1>3, <1>4, <1>8
  <2>2. Cat(A, Cat(P, Cat(H, Cat(B, Cat(T, E))))) = Cat(Cat(Cat(Cat(Cat(A, P), H), B), T), E)
    BY ONLY <2>1, RegroupedSix
  <2> QED
    BY <2>2 DEF Cat
<1> QED
  BY <1>2, <1>8, <1>10, <1>11, <1>12 DEF x, r, e, A, E

-----------------------------------------------------------------------------
(* What is owed in a state.                                                *)

(* What is owed when in is the input, of the message s, or of none.        *)
OwedAt(in, s, resting) == IF resting THEN <<>> ELSE CallsIn(in) \o <<EndCall(s)>>

Sent       == stream = [i \in DOMAIN wire |-> MessageOf(wire[i])]
(* Until http_parser gives up, owed is a function of the other variables.  *)
Accounting == parser.ok => owed = Merged(todo \o Owed)

(* Owed before a step and after it.                                        *)
LEMMA OwedIs ==
  ASSUME Sent, Resting \/ begun \in DOMAIN wire
  PROVE  Owed = OwedAt(input, wire[begun], Resting)
<1>1. CASE Resting
  BY <1>1 DEF Owed, OwedAt, Resting, BetweenTwo
<1>2. CASE ~Resting
  <2>1. stream[begun].untilEof = (wire[begun].frame = "eof")
    BY <1>2 DEF Sent, MessageOf
  <2>2. RestOfMessage = UpToNext(input)
    BY DEF RestOfMessage, UpToNext
  <2>3. Owed = FlattenSeq([i \in DOMAIN RestOfMessage |-> CallsOf(RestOfMessage[i])])
               \o <<Call(IF stream[begun].untilEof THEN "eof" ELSE "complete", <<>>)>>
    BY <1>2 DEF Owed, Resting, BetweenTwo
  <2>4. Call(IF stream[begun].untilEof THEN "eof" ELSE "complete", <<>>) = EndCall(wire[begun])
    BY <2>1 DEF EndCall
  <2> QED
    BY <1>2, <2>2, <2>3, <2>4 DEF OwedAt, CallsIn
<1> QED
  BY <1>1, <1>2

LEMMA OwedNext ==
  ASSUME Sent', Resting' \/ begun' \in DOMAIN wire'
  PROVE  Owed' = OwedAt(input', wire'[begun'], Resting')
<1>1. CASE Resting'
  BY <1>1 DEF Owed, OwedAt, Resting, BetweenTwo
<1>2. CASE ~Resting'
  <2>1. stream'[begun'].untilEof = (wire'[begun'].frame = "eof")
    BY <1>2 DEF Sent, MessageOf
  <2>2. RestOfMessage' = UpToNext(input')
    BY DEF RestOfMessage, UpToNext
  <2>3. Owed' = FlattenSeq([i \in DOMAIN RestOfMessage' |-> CallsOf(RestOfMessage'[i])])
               \o <<Call(IF stream'[begun'].untilEof THEN "eof" ELSE "complete", <<>>)>>
    BY <1>2 DEF Owed, Resting, BetweenTwo
  <2>4. Call(IF stream'[begun'].untilEof THEN "eof" ELSE "complete", <<>>) = EndCall(wire'[begun'])
    BY <2>1 DEF EndCall
  <2> QED
    BY <1>2, <2>2, <2>3, <2>4 DEF OwedAt, CallsIn
<1> QED
  BY <1>1, <1>2

(* What is owed are calls.                                                 *)
LEMMA OwedType ==
  ASSUME NEW in \in Seq(AnyLine), NEW s, NEW resting \in BOOLEAN
  PROVE  EndCall(s) \in CallSet /\ OwedAt(in, s, resting) \in Seq(CallSet)
<1>1. EndCall(s) \in CallSet
  BY TheCalls DEF EndCall, CallNames
<1>2. Junk \in AnyLine /\ CallsIn(in) \in Seq(CallSet) /\ <<EndCall(s)>> \in Seq(CallSet)
  <2>1. Junk \in AnyLine
    BY DEF AnyLine
  <2>2. CallsIn(in) \in Seq(CallSet)
    BY <2>1, CallsInStep
  <2> QED
    BY <1>1, <2>1, <2>2
<1>3. CallsIn(in) \o <<EndCall(s)>> \in Seq(CallSet) /\ <<>> \in Seq(CallSet)
  BY <1>2, ConcatProperties
<1> QED
  BY <1>1, <1>3 DEF OwedAt

(* The input when some of it is left.                                      *)
LEMMA InputAny ==
  ASSUME Framing
  PROVE  /\ input \in Seq(AnyLine)
         /\ input # <<>> => /\ Head(input) \in AnyLine /\ Tail(input) \in Seq(AnyLine)
                            /\ input = <<Head(input)>> \o Tail(input)
         /\ BetweenTwo(parser) \/ begun \in DOMAIN wire
         /\ wire \in Wires /\ parser \in Parsers /\ DOMAIN wire = 1..Len(wire)
<1>1. input \in Seq(AnyLine)
  BY InputIs DEF AnyLine
<1>2. wire \in Wires /\ begun \in 0..Len(wire) /\ parser \in Parsers
  BY DEF Framing
<1>3. Len(wire) \in Nat /\ DOMAIN wire = 1..Len(wire)
  BY <1>2, WireIs
<1>4. BetweenTwo(parser) \/ begun > 0
  BY DEF Framing, Placed
<1>5. input # <<>> => /\ Head(input) \in AnyLine /\ Tail(input) \in Seq(AnyLine)
                      /\ input = <<Head(input)>> \o Tail(input)
  BY <1>1, HeadJoined
<1> QED
  BY <1>1, <1>2, <1>3, <1>4, <1>5

(* Between two messages no call is owed.                                   *)
LEMMA NothingOwed ==
  ASSUME Framing', BetweenTwo(parser')
  PROVE  CallsIn(input') = <<>>
<1>1. /\ wire' \in Wires /\ begun' \in 0..Len(wire')
      /\ Strayed(Later(wire', begun'), input')
  BY DEF Framing, Placed
<1> QED
  BY <1>1, CallsLater

(* A line that is reported with its calls leaves owed as it was: they are  *)
(* in todo.                                                                *)
LEMMA LineOwed ==
  ASSUME Framing, Sent, Accounting, parser.ok, todo = <<>>, ~Resting,
         input # <<>>, ~IsFirst(Head(input)), UNCHANGED <<wire, stream, begun>>, Accounted,
         \/ ~Resting' /\ input' = Tail(input) /\ todo' = CallsOf(Head(input))
         \/ /\ Resting' /\ CallsIn(Tail(input)) = <<>> /\ wire[begun].frame # "eof"
            /\ todo' = CallsOf(Head(input)) \o <<Complete>>
  PROVE  owed' = owed
<1> DEFINE l == Head(input)
           r == Tail(input)
           E == <<EndCall(wire[begun])>>
<1>1. /\ l \in AnyLine /\ r \in Seq(AnyLine) /\ input = <<l>> \o r
      /\ begun \in DOMAIN wire
  BY InputAny DEF Resting
<1>2. Owed = CallsIn(input) \o E
  BY <1>1, OwedIs DEF OwedAt
<1>3. /\ CallsIn(input) = CallsOf(l) \o CallsIn(r)
      /\ CallsIn(r) \in Seq(CallSet)
  <2> HIDE DEF l, r
  <2>1. ~IsFirst(l)
    BY DEF l
  <2> QED
    BY <1>1, <2>1, CallsInStep
<1>4. E \in Seq(CallSet) /\ CallsOf(l) \in Seq(CallSet)
  <2>1. EndCall(wire[begun]) \in CallSet
    BY <1>1, OwedType
  <2>2. CallsOf(l) \in Seq(CallSet)
    BY <1>1, CallsOfLine
  <2> QED
    BY <2>1, <2>2
<1>5. Owed \in Seq(CallSet) /\ <<>> \o Owed = Owed
  <2>1. CallsOf(l) \o CallsIn(r) \in Seq(CallSet)
    BY <1>3, <1>4, ConcatProperties
  <2>2. Owed \in Seq(CallSet)
    BY <1>2, <1>3, <1>4, <2>1, ConcatProperties
  <2> QED
    BY <2>2, HeadJoined
<1>6. owed = Merged(Owed)
  BY <1>5 DEF Accounting
<1>7. owed' = Merged(todo' \o Owed')
  BY DEF Accounted, Merged
<1>8. Sent' /\ Owed' = OwedAt(input', wire[begun], Resting')
  <2>1. Sent'
    BY DEF Sent
  <2> QED
    BY <1>1, <2>1, OwedNext
<1>9. CASE ~Resting' /\ input' = r /\ todo' = CallsOf(l)
  <2>1. Owed' = CallsIn(r) \o E
    BY <1>8, <1>9 DEF OwedAt
  <2> HIDE DEF l, r, E
  <2>2. CallsOf(l) \o (CallsIn(r) \o E) = (CallsOf(l) \o CallsIn(r)) \o E
    <3>1. CallsOf(l) \in Seq(CallSet) /\ CallsIn(r) \in Seq(CallSet) /\ E \in Seq(CallSet)
      BY <1>3, <1>4
    <3>2. Cat(Cat(CallsOf(l), CallsIn(r)), E) = Cat(CallsOf(l), Cat(CallsIn(r), E))
      BY ONLY <3>1, RegroupCalls
    <3> QED
      BY ONLY <3>2 DEF Cat
  <2> QED
    BY <1>2, <1>3, <1>6, <1>7, <1>9, <2>1, <2>2
<1>10. CASE /\ Resting' /\ CallsIn(r) = <<>> /\ wire[begun].frame # "eof"
            /\ todo' = CallsOf(l) \o <<Complete>>
  <2>1. Owed' = <<>>
    BY <1>8, <1>10 DEF OwedAt
  <2>2. E = <<Complete>>
    BY <1>10 DEF EndCall, Complete
  <2> HIDE DEF l, r, E
  <2>3. CallsOf(l) \o <<>> = CallsOf(l) /\ CallsOf(l) \o E \in Seq(CallSet)
    BY <1>4, HeadJoined
  <2>4. (CallsOf(l) \o E) \o <<>> = CallsOf(l) \o E
    BY <2>3, HeadJoined
  <2>5. Owed = CallsOf(l) \o E
    BY <1>2, <1>3, <1>10, <2>3
  <2>6. todo' \o Owed' = CallsOf(l) \o E
    BY <1>10, <2>1, <2>2, <2>4
  <2> QED
    BY <1>6, <1>7, <2>5, <2>6
<1> QED
  BY <1>9, <1>10

(* A line between two messages.                                            *)
LEMMA StrayOwed ==
  ASSUME Sent, Accounting, parser.ok, todo = <<>>, Resting, Resting', todo' = <<>>,
         UNCHANGED <<wire, stream, begun>>, Accounted
  PROVE  owed' = owed
<1>1. Owed = <<>> /\ Owed' = <<>>
  BY DEF Owed, Resting, BetweenTwo
<1>2. owed = Merged(<<>> \o <<>>) /\ owed' = Merged(<<>> \o <<>>)
  BY <1>1 DEF Accounting, Accounted, Merged
<1> QED
  BY <1>2

(* A line inside a message, the last of it or not.                         *)
LEMMA InLine ==
  ASSUME Framing, Sent, Accounting, parser.ok, ~ended, todo = <<>>,
         input # <<>>, input' = Tail(input), ~BetweenTwo(parser), ~IsFirst(Head(input)),
         UNCHANGED <<wire, stream, begun, ended>>, Accounted,
         \/ ~BetweenTwo(parser') /\ todo' = CallsOf(Head(input))
         \/ /\ BetweenTwo(parser') /\ Framing' /\ wire[begun].frame # "eof"
            /\ todo' = CallsOf(Head(input)) \o <<Complete>>
  PROVE  owed' = owed
<1>1. ~Resting
  BY DEF Resting
<1>2. CASE ~BetweenTwo(parser') /\ todo' = CallsOf(Head(input))
  <2>1. ~Resting'
    BY <1>2 DEF Resting
  <2> QED
    BY <1>1, <1>2, <2>1, LineOwed
<1>3. CASE /\ BetweenTwo(parser') /\ Framing' /\ wire[begun].frame # "eof"
           /\ todo' = CallsOf(Head(input)) \o <<Complete>>
  <2>1. Resting'
    BY <1>3 DEF Resting
  <2>2. CallsIn(Tail(input)) = <<>>
    BY <1>3, NothingOwed
  <2> QED
    BY <1>1, <1>3, <2>1, <2>2, LineOwed
<1> QED
  BY <1>2, <1>3

(* Line by line.                                                           *)
LEMMA HeaderLineOwed ==
  ASSUME Framing, Sent, Accounting, HeaderLine
  PROVE  owed' = owed
<1>1. /\ parser.ok /\ ~ended /\ todo = <<>> /\ input # <<>> /\ parser.state = "header"
      /\ Head(input).t = "header" /\ input' = Tail(input)
      /\ UNCHANGED <<wire, stream, begun, ended>> /\ Accounted
      /\ parser' = Heed(Head(input).h)
      /\ todo' = PairCall(Head(input).h)
  BY DEF HeaderLine, Execute, Reports
<1>2. Head(input) \in AnyLine /\ parser \in Parsers
  BY <1>1, InputAny
<1>3. CallsOf(Head(input)) = todo'
  BY <1>1, <1>2, CallsOfLine
<1>4. parser'.state = "header"
  <2> DEFINE h == Head(input).h
             f == Flags \cap {h.says}
  <2>1. h.n \in Nat /\ f = Flags \cap {h.says} /\ parser' = Heed(h)
    BY <1>1, TextOfLine, HeaderIs
  <2> HIDE DEF h, f
  <2> QED
    BY <1>1, <1>2, <2>1, HeedIs
<1> QED
  BY <1>1, <1>3, <1>4, InLine DEF BetweenTwo, IsFirst

LEMMA TextLineOwed ==
  ASSUME Framing, Sent, Accounting,
         NEW state \in {"header", "chunk", "eof"}, NEW t \in {"fold", "data"},
         Execute(state, t), ~BetweenTwo(parser'), NEW calls, Reports(calls),
         t = "fold" => calls = <<Call("value", Head(input).f.text)>>,
         t = "data" => calls = <<Call("body", Head(input).text)>>
  PROVE  owed' = owed
<1>1. /\ parser.ok /\ ~ended /\ todo = <<>> /\ input # <<>> /\ parser.state = state
      /\ Head(input).t = t /\ input' = Tail(input)
      /\ UNCHANGED <<wire, stream, begun, ended>> /\ Accounted
      /\ todo' = calls
  BY DEF Execute, Reports
<1>2. Head(input) \in AnyLine
  BY <1>1, InputAny
<1>3. CallsOf(Head(input)) = todo'
  <2>1. CASE t = "fold"
    BY <1>1, <1>2, <2>1, CallsOfLine
  <2>2. CASE t = "data"
    BY <1>1, <1>2, <2>2, CallsOfLine
  <2> QED
    BY <2>1, <2>2
<1> QED
  BY <1>1, <1>3, InLine DEF BetweenTwo, IsFirst

LEMMA SizeOwed ==
  ASSUME Framing, Sent, Accounting, ChunkSize
  PROVE  owed' = owed
<1>1. /\ parser.ok /\ ~ended /\ todo = <<>> /\ input # <<>> /\ parser.state = "size"
      /\ Head(input).t = "size" /\ input' = Tail(input)
      /\ UNCHANGED <<wire, stream, begun, ended>> /\ Accounted
      /\ todo' = <<>>
  BY DEF ChunkSize, Execute, Reports
<1>2. Head(input) \in AnyLine /\ parser \in Parsers
  BY <1>1, InputAny
<1>3. CallsOf(Head(input)) = todo'
  BY <1>1, <1>2, CallsOfLine
<1>4. parser'.state \in {"header", "chunk"}
  BY <1>1, <1>2 DEF ChunkSize, Parsers
<1> QED
  BY <1>1, <1>3, <1>4, InLine DEF BetweenTwo, IsFirst

LEMMA TextOwed ==
  ASSUME Framing, Sent, Accounting, FoldedLine \/ ChunkBytes \/ BytesUntilEof
  PROVE  owed' = owed
<1>0. ASSUME input # <<>> PROVE parser \in Parsers
  BY <1>0, InputAny
<1>1. CASE FoldedLine
  <2> DEFINE f == Head(input).f
             g == Flags \cap {f.says}
  <2>1. /\ Execute("header", "fold") /\ parser' = Heed(f)
        /\ Reports(<<Call("value", f.text)>>) /\ parser.state = "header"
        /\ parser \in Parsers
    BY <1>0, <1>1 DEF FoldedLine, Execute
  <2>2. f.n \in Nat /\ g = Flags \cap {f.says}
    BY <2>1, TextOfLine, FoldIs DEF Execute
  <2>3. parser'.state = "header"
    <3> HIDE DEF f, g
    <3> QED
      BY <2>1, <2>2, HeedIs
  <2>4. ~BetweenTwo(parser')
    BY <2>3 DEF BetweenTwo
  <2> QED
    BY <2>1, <2>4, TextLineOwed
<1>2. CASE ChunkBytes
  <2>1. /\ Execute("chunk", "data") /\ Reports(<<Call("body", Head(input).text)>>)
    BY <1>2 DEF ChunkBytes
  <2>2. parser \in Parsers
    BY <2>1, <1>0 DEF Execute
  <2>3. parser'.state \in {"size", "chunk"}
    BY <1>2, <2>2 DEF ChunkBytes, Left, Parsers
  <2> QED
    BY <2>1, <2>3, TextLineOwed DEF BetweenTwo
<1>3. CASE BytesUntilEof
  <2>1. /\ Execute("eof", "data") /\ parser' = parser
        /\ Reports(<<Call("body", Head(input).text)>>) /\ parser.state = "eof"
    BY <1>3 DEF BytesUntilEof, Execute
  <2> QED
    BY <2>1, TextLineOwed DEF BetweenTwo
<1> QED
  BY <1>1, <1>2, <1>3

(* Two calls one behind the other.                                         *)
LEMMA Paired ==
  ASSUME NEW a, NEW b
  PROVE  <<a, b>> = <<a>> \o <<b>>
<1>1. a \in {a, b} /\ b \in {a, b}
  OBVIOUS
<1> QED
  BY <1>1, TwoOf

LEMMA BodyBytesOwed ==
  ASSUME Framing, Framing', Sent, Accounting, BodyBytes
  PROVE  owed' = owed
<1>1. /\ parser.ok /\ ~ended /\ todo = <<>> /\ input # <<>> /\ parser.state = "body"
      /\ Head(input).t = "data" /\ input' = Tail(input)
      /\ UNCHANGED <<wire, stream, begun, ended>> /\ Accounted
  BY DEF BodyBytes, Execute, Reports
<1>2. Head(input) \in AnyLine /\ parser \in Parsers
  BY <1>1, InputAny
<1>3. CallsOf(Head(input)) = <<Call("body", Head(input).text)>>
  BY <1>1, <1>2, CallsOfLine
<1>4. wire[begun].frame = "length"
  <2>1. PICK rest \in Seq(LineSet) : AtBody(wire[begun], rest, parser, Later(wire, begun))
    BY <1>1, BodyLine
  <2> QED
    BY <2>1 DEF AtBody
<1> DEFINE p == Left(Head(input).text)
<1>5. p.state = "body" /\ p.length = parser.length - Len(Head(input).text) /\ p \in Parsers
  <2>1. Head(input).text \in Text
    BY <1>1, TextOfLine
  <2>2. Len(Head(input).text) \in Nat
    BY <2>1 DEF Text
  <2> QED
    BY <1>1, <1>2, <2>2 DEF Left, Parsers
<1>6. \/ parser' = Finished(p) /\ todo' = <<Call("body", Head(input).text), Complete>>
      \/ parser' = p /\ todo' = <<Call("body", Head(input).text)>>
  BY DEF BodyBytes, Reports
<1> HIDE DEF p
<1>7. CASE parser' = Finished(p) /\ todo' = <<Call("body", Head(input).text), Complete>>
  <2>1. BetweenTwo(parser')
    BY <1>5, <1>7, FinishedIs
  <2>2. todo' = CallsOf(Head(input)) \o <<Complete>>
    BY <1>3, <1>7, Paired
  <2> QED
    BY <1>1, <1>4, <2>1, <2>2, InLine DEF BetweenTwo, IsFirst
<1>8. CASE parser' = p /\ todo' = <<Call("body", Head(input).text)>>
  BY <1>1, <1>3, <1>5, <1>8, InLine DEF BetweenTwo, IsFirst
<1> QED
  BY <1>6, <1>7, <1>8

(* The parser takes an empty line for what it was meant to end.            *)
LEMMA EmptyIs ==
  ASSUME Framing, parser.state = "header", input # <<>>, Head(input).t = "empty"
  PROVE  /\ "trailing" \notin parser.flags => Head(input) = Empty("headers")
         /\ "trailing" \in parser.flags => Head(input) = Empty("trailers")
<1>1. Head(input) # Junk
  BY DEF Junk
<1> DEFINE s == wire[begun]
           z == Later(wire, begun)
<1>2. \/ /\ "trailing" \notin parser.flags
         /\ \E j \in 0..Len(s.headers) : \E rest \in Seq(LineSet) :
               \/ Head(input).t = "fold"
               \/ Head(input) = [t |-> "header", h |-> s.headers[j + 1]]
               \/ Head(input) = Empty("headers")
      \/ /\ "trailing" \in parser.flags
         /\ \E j \in 0..Len(s.trailers) : \E rest \in Seq(LineSet) :
               \/ Head(input).t = "fold"
               \/ Head(input) = [t |-> "header", h |-> s.trailers[j + 1]]
               \/ Head(input) = Empty("trailers")
  <2>1. \A hs : \A l \in FoldsIn(hs) : l.t = "fold"
    BY DEF FoldsIn, FoldLines
  <2> QED
    BY <1>1, <2>1, HeaderNext, SMTT(30) DEF Flags
<1> QED
  BY <1>2

(* The empty lines: where the message ends with its headers, and where     *)
(* not.                                                                    *)
LEMMA HeadersEndOwed ==
  ASSUME Framing, Framing', Sent, Accounting, WithoutBody \/ WithBody
  PROVE  owed' = owed
<1>1. /\ parser.ok /\ ~ended /\ todo = <<>> /\ input # <<>> /\ parser.state = "header"
      /\ Head(input).t = "empty" /\ input' = Tail(input)
      /\ UNCHANGED <<wire, stream, begun, ended>> /\ Accounted
      /\ "trailing" \notin parser.flags
  BY DEF WithoutBody, WithBody, HeadersEnd, Execute, Reports
<1>2. Head(input) \in AnyLine /\ parser \in Parsers
  BY <1>1, InputAny
<1>3. CallsOf(Head(input)) = <<Call("headers", <<>>)>>
  BY <1>1, <1>2, CallsOfLine, EmptyIs
<1>4. CASE WithoutBody
  <2>1. /\ parser' = Finished(parser) /\ todo' = <<Call("headers", <<>>), Complete>>
        /\ ~Upgraded /\ HasNoBody
    BY <1>4 DEF WithoutBody, Reports
  <2>2. BetweenTwo(parser')
    BY <1>2, <2>1, FinishedIs
  <2>3. todo' = CallsOf(Head(input)) \o <<Complete>>
    BY <1>3, <2>1, Paired
  <2>4. wire[begun].frame # "eof"
    <3> DEFINE s == wire[begun]
    <3>1. /\ s \in Sendings /\ Framed(s) /\ HeadersHeard(s, parser)
          /\ LengthHeard(s.headers, Len(s.headers), parser)
          /\ parser.bodyless = s.bodyless /\ parser.type = s.kind
          /\ parser.connect = s.connect
      BY <1>1, HeadersOver
    <3> SUFFICES ASSUME s.frame = "eof" PROVE FALSE
      OBVIOUS
    <3> HIDE DEF s
    <3>2. ~LeavesHttp(s)
      BY <2>1, <3>1 DEF LeavesHttp, Upgraded, HeadersHeard, Flags
    <3>3. ~Announces(s)
      BY DEF Announces
    <3>4. /\ "chunked" \notin parser.flags /\ parser.length = Unknown
          /\ s.kind = "status" /\ ~s.bodyless
      BY <3>1, <3>2, <3>3, HowFramed
    <3> QED
      BY <2>1, <3>1, <3>4 DEF HasNoBody, NeedsEof, Unknown
  <2> QED
    BY <1>1, <2>2, <2>3, <2>4, InLine DEF BetweenTwo, IsFirst
<1>5. CASE WithBody
  <2>1. /\ todo' = <<Call("headers", <<>>)>>
        /\ parser' = [parser EXCEPT !.state = IF "chunked" \in parser.flags THEN "size"
                                              ELSE IF parser.length # Unknown THEN "body"
                                              ELSE "eof"]
    BY <1>5 DEF WithBody, Reports
  <2>2. parser'.state \in {"size", "body", "eof"}
    BY <1>2, <2>1 DEF Parsers
  <2> QED
    BY <1>1, <1>3, <2>1, <2>2, InLine DEF BetweenTwo, IsFirst
<1> QED
  BY <1>4, <1>5

LEMMA TrailersEndOwed ==
  ASSUME Framing, Framing', Sent, Accounting, TrailersEnd
  PROVE  owed' = owed
<1>1. /\ parser.ok /\ ~ended /\ todo = <<>> /\ input # <<>> /\ parser.state = "header"
      /\ Head(input).t = "empty" /\ input' = Tail(input)
      /\ UNCHANGED <<wire, stream, begun, ended>> /\ Accounted
      /\ "trailing" \in parser.flags /\ parser' = Finished(parser) /\ todo' = <<Complete>>
  BY DEF TrailersEnd, Execute, Reports
<1>2. Head(input) \in AnyLine /\ parser \in Parsers
  BY <1>1, InputAny
<1>3. CallsOf(Head(input)) = <<>>
  BY <1>1, <1>2, CallsOfLine, EmptyIs
<1>4. todo' = CallsOf(Head(input)) \o <<Complete>>
  <2>1. <<Complete>> \in Seq(CallSet)
    BY TheCalls
  <2> QED
    BY <1>1, <1>3, <2>1, HeadJoined
<1>5. wire[begun].frame # "eof"
  BY <1>1, TrailersOver
<1>6. BetweenTwo(parser')
  BY <1>1, <1>2, FinishedIs
<1> QED
  BY <1>1, <1>4, <1>5, <1>6, InLine DEF BetweenTwo, IsFirst

LEMMA UpgradeOwed ==
  ASSUME Framing, Sent, Accounting, Upgrade
  PROVE  owed' = owed
<1>1. /\ parser.ok /\ ~ended /\ todo = <<>> /\ input # <<>> /\ parser.state = "header"
      /\ Head(input).t = "empty" /\ "trailing" \notin parser.flags
      /\ UNCHANGED <<wire, stream, begun, ended>> /\ Accounted
      /\ parser' = Finished(parser) /\ todo' = <<Call("headers", <<>>), Complete>>
  BY DEF Upgrade
<1>2. /\ Head(input) \in AnyLine /\ parser \in Parsers /\ begun \in DOMAIN wire
      /\ wire \in Wires /\ DOMAIN wire = 1..Len(wire)
  BY <1>1, InputAny DEF BetweenTwo
<1>3. CallsOf(Head(input)) = <<Call("headers", <<>>)>>
  BY <1>1, <1>2, CallsOfLine, EmptyIs
<1>4. todo' = CallsOf(Head(input)) \o <<Complete>>
  BY <1>1, <1>3, Paired
<1>5. /\ LeavesHttp(wire[begun])
      /\ Tail(input) \in {<<>>, <<Junk>>, <<Empty("nothing")>>}
  BY InputIs, UpgradeFraming
<1>6. wire[begun].frame # "eof"
  <2>1. wire[begun] \in Sendings /\ Framed(wire[begun])
    BY <1>2, WireIs
  <2> QED
    BY <1>5, <2>1, LeavesBare
<1>7. CallsIn(Tail(input)) = <<>>
  <2>1. Junk \in AnyLine /\ Empty("nothing") \in AnyLine /\ <<>> \in Seq(AnyLine)
    BY DEF AnyLine
  <2>2. CallsIn(<<>>) = <<>>
    BY <2>1, CallsInStep
  <2>3. ASSUME NEW l \in {Junk, Empty("nothing")} PROVE CallsIn(<<l>>) = <<>>
    <3>1. l \in AnyLine /\ CallsOf(l) = <<>>
      <4>1. l \in AnyLine
        BY <2>1, <2>3
      <4>2. l.t = "junk" \/ l = Empty("nothing")
        BY <2>3 DEF Junk
      <4> QED
        BY <4>1, <4>2, CallsOfLine
    <3>2. ~IsFirst(l)
      BY <2>3 DEF IsFirst, Junk, Empty
    <3>3. CallsIn(<<l>> \o <<>>) = CallsOf(l) \o CallsIn(<<>>)
      BY <2>1, <3>1, <3>2, CallsInStep
    <3>4. <<l>> \o <<>> = <<l>> /\ <<>> \o <<>> = <<>>
      OBVIOUS
    <3> QED
      BY <2>2, <3>1, <3>3, <3>4
  <2> QED
    BY <1>5, <2>2, <2>3
<1>8. Resting' /\ ~Resting
  <2>1. BetweenTwo(parser')
    BY <1>1, <1>2, FinishedIs
  <2> QED
    BY <1>1, <2>1 DEF Resting, BetweenTwo
<1> QED
  BY <1>1, <1>4, <1>6, <1>7, <1>8, LineOwed DEF IsFirst

LEMMA StrayEmptyOwed ==
  ASSUME Sent, Accounting, StrayEmpty
  PROVE  owed' = owed
<1>1. /\ parser.ok /\ todo = <<>> /\ parser' = parser /\ todo' = <<>> /\ BetweenTwo(parser)
      /\ UNCHANGED <<wire, stream, begun, ended>> /\ Accounted
  BY DEF StrayEmpty, Execute, Reports, BetweenTwo
<1>2. Resting /\ Resting'
  BY <1>1 DEF Resting
<1> QED
  BY <1>1, <1>2, StrayOwed

(* The first line of a message makes all of its calls owed.                *)
LEMMA BeginOwed ==
  ASSUME Framing, Framing', Sent, Accounting, NEW t \in {"url", "status"}, Begin(t)
  PROVE  /\ owed = <<>> /\ begun < Len(stream) /\ begun' = begun + 1
         /\ owed' = Calls(stream[begun + 1])
<1>1. /\ parser.ok /\ ~ended /\ todo = <<>> /\ input # <<>> /\ parser.state = "start"
      /\ Head(input).t = t /\ input' = Tail(input)
      /\ UNCHANGED <<wire, stream, ended>> /\ Accounted
      /\ begun' = begun + 1 /\ todo' = <<Call(t, Head(input).s.first)>>
  BY DEF Begin, Execute
<1>2. parser \in Parsers /\ wire \in Wires /\ DOMAIN wire = 1..Len(wire) /\ BetweenTwo(parser)
  BY <1>1, InputAny DEF BetweenTwo
<1>3. parser'.state = "header"
  BY <1>1, <1>2 DEF Begin, Parsers
<1>4. ~Resting'
  BY <1>3 DEF Resting, BetweenTwo
<1> DEFINE i == begun + 1
           s == wire[i]
           z == Later(wire, i)
           x == Section(s.headers, "headers") \o (BodyLines(s) \o z)
<1>5. /\ begun < Len(wire) /\ i \in 1..Len(wire)
      /\ Head(input) = [t |-> s.kind, s |-> s]
      /\ Strayed(x, Tail(input))
  BY <1>1, <1>2, BetweenLine DEF Junk, Empty
<1>6. s \in Sendings /\ Framed(s) /\ Len(wire) \in Nat
  BY <1>2, <1>5, WireIs
<1>7. z \in Seq(LineSet) /\ CallsIn(z) = <<>>
  <2>1. i \in 0..Len(wire) /\ Strayed(z, z)
    BY <1>5 DEF Strayed
  <2> QED
    BY <1>2, <2>1, LaterIs, CallsLater
<1>8. x \in Seq(LineSet)
  <2>1. s.headers \in Seq(Headers) /\ BodyLines(s) \in Seq(LineSet)
    BY <1>6, MessageIs, BodyIs
  <2>2. BodyLines(s) \o z \in Seq(LineSet)
    BY <1>7, <2>1, ConcatProperties
  <2> QED
    BY <2>1, <2>2, SectionBegins
<1>9. todo' = <<Call(s.kind, s.first)>>
  BY <1>1, <1>5
<1>10. Sent' /\ Owed' = CallsIn(Tail(input)) \o <<EndCall(s)>>
  <2>1. Sent'
    BY <1>1 DEF Sent
  <2>2. Owed' = OwedAt(input', wire'[begun'], Resting')
    BY <1>1, <1>2, <1>5, <2>1, OwedNext
  <2> QED
    BY <1>1, <1>4, <2>1, <2>2 DEF OwedAt
<1> HIDE DEF x, s, z
<1>11. CallsIn(Tail(input)) = CallsIn(x)
  BY <1>5, <1>8, CallsInStrayed
<1>12. owed' = Merged(<<Call(s.kind, s.first)>> \o (CallsIn(x) \o <<EndCall(s)>>))
  BY <1>1, <1>9, <1>10, <1>11 DEF Accounted, Merged
<1>13. owed' = Calls(MessageOf(s))
  BY <1>6, <1>7, <1>12, MessageDue DEF x
<1>14. /\ stream[i] = MessageOf(s) /\ Len(stream) = Len(wire)
  <2>1. stream = [k \in 1..Len(wire) |-> MessageOf(wire[k])]
    BY <1>2 DEF Sent
  <2> QED
    BY <1>5, <1>6, <2>1 DEF s
<1>15. owed = <<>>
  <2>1. Owed = <<>>
    BY <1>1 DEF Owed
  <2>2. owed = Merged(<<>> \o <<>>)
    BY <1>1, <2>1 DEF Accounting
  <2> QED
    BY <2>2, MergedJoin
<1> QED
  BY <1>1, <1>5, <1>13, <1>14, <1>15

(* A call joined to those after it gives its bytes first.                  *)
LEMMA JoinedCall ==
  ASSUME NEW c \in CallSet, NEW K \in Seq(CallSet)
  PROVE  \E x \in Text, y \in Seq(CallSet) :
           /\ Join(c, K) = <<Call(c.cb, c.text \o x)>> \o y
           /\ \/ x = <<>> /\ y = K /\ \A a \in Text : Join(Call(c.cb, a), K) = <<Call(c.cb, a)>> \o K
              \/ /\ K = <<Call(c.cb, x)>> \o y
                 /\ \A a \in Text : Join(Call(c.cb, a), K) = <<Call(c.cb, a \o x)>> \o y
<1>0. /\ c.cb \in CallNames /\ c.text \in Text /\ c = Call(c.cb, c.text)
      /\ \A a \in Text : Call(c.cb, a) \in CallSet
  BY TheCalls DEF CallSet, Call
<1>1. CASE Apart(c.cb, K) \/ c.cb \notin {"value", "body"}
  <2>1. ASSUME NEW a \in Text PROVE Join(Call(c.cb, a), K) = <<Call(c.cb, a)>> \o K
    <3> DEFINE d == Call(c.cb, a)
    <3>1. d \in CallSet /\ d.cb = c.cb
      BY <1>0 DEF Call
    <3> HIDE DEF d
    <3>2. Join(d, K) = <<d>> \o K
      BY <1>1, <3>1, JoinApart
    <3> QED
      BY <3>2 DEF d
  <2>2. <<>> \in Text /\ c.text \o <<>> = c.text
    BY <1>0, TheCalls, HeadJoined DEF Text
  <2>3. Join(c, K) = <<Call(c.cb, c.text \o <<>>)>> \o K
    BY <1>0, <2>1, <2>2
  <2> QED
    BY <2>1, <2>2, <2>3
<1>2. CASE ~Apart(c.cb, K) /\ c.cb \in {"value", "body"}
  <2> DEFINE d == Head(K)
             y == Tail(K)
  <2>1. K # <<>> /\ d.cb = c.cb
    BY <1>2 DEF Apart
  <2>2. d \in CallSet /\ y \in Seq(CallSet) /\ K = <<d>> \o y
    BY <2>1, HeadJoined
  <2>3. d.text \in Text /\ d = Call(c.cb, d.text)
    BY <2>1, <2>2 DEF CallSet, Call
  <2>4. ASSUME NEW a \in Text PROVE Join(Call(c.cb, a), K) = <<Call(c.cb, a \o d.text)>> \o y
    <3>1. Join(Call(c.cb, a), K) = Both(Call(c.cb, a), d) \o y
      BY <2>1 DEF Join
    <3>2. Both(Call(c.cb, a), d) = <<Call(c.cb, a \o d.text)>>
      BY <1>2, <2>1 DEF Both, Call
    <3> QED
      BY <3>1, <3>2
  <2>5. Join(c, K) = <<Call(c.cb, c.text \o d.text)>> \o y
    BY <1>0, <2>4
  <2> HIDE DEF d, y
  <2>6. K = <<Call(c.cb, d.text)>> \o y
    BY <2>2, <2>3
  <2> DEFINE x == d.text
  <2>7. x \in Text /\ y \in Seq(CallSet)
    BY <2>2, <2>3
  <2> HIDE DEF x
  <2>8. \A a \in Text : Join(Call(c.cb, a), K) = <<Call(c.cb, a \o x)>> \o y
    BY <2>4 DEF x
  <2>9. Join(c, K) = <<Call(c.cb, c.text \o x)>> \o y /\ K = <<Call(c.cb, x)>> \o y
    BY <2>5, <2>6 DEF x
  <2> QED
    BY <2>7, <2>8, <2>9
<1> QED
  BY <1>1, <1>2

(* A text that is cut, alone and with one behind it.                       *)
LEMMA CutTexts ==
  ASSUME NEW S, NEW t \in Seq(S), NEW x \in Seq(S), NEW k \in 0..Len(t)
  PROVE  /\ t \o x \in Seq(S) /\ Len(t) \in Nat /\ Len(x) \in Nat /\ Len(t \o x) = Len(t) + Len(x)
         /\ SubSeq(t, 1, k) \in Seq(S) /\ Len(SubSeq(t, 1, k)) = k
         /\ SubSeq(t \o x, 1, k) = SubSeq(t, 1, k)
         /\ SubSeq(t, k + 1, Len(t)) \in Seq(S)
         /\ SubSeq(t \o x, k + 1, Len(t \o x)) = Cat(SubSeq(t, k + 1, Len(t)), x)
         /\ SubSeq(t \o x, Len(t) + 1, Len(t \o x)) = x
         /\ SubSeq(t, 1, Len(t)) = t
<1>1. /\ t \o x \in Seq(S) /\ Len(t) \in Nat /\ Len(x) \in Nat /\ Len(t \o x) = Len(t) + Len(x)
  BY ConcatProperties, LenProperties
<1>2. \A i \in 1..(Len(t) + Len(x)) : (t \o x)[i] = IF i <= Len(t) THEN t[i] ELSE x[i - Len(t)]
  BY ConcatProperties
<1> DEFINE u == t \o x
<1> HIDE DEF u
<1>3. u \in Seq(S) /\ Len(u) = Len(t) + Len(x) /\ k \in Nat /\ k <= Len(t)
  BY <1>1 DEF u
<1>4. \A i \in 1..(Len(t) + Len(x)) : u[i] = IF i <= Len(t) THEN t[i] ELSE x[i - Len(t)]
  BY <1>2 DEF u
<1> DEFINE a == SubSeq(t, 1, k)
           b == SubSeq(u, 1, k)
<1>5. /\ a \in Seq(S) /\ Len(a) = k /\ \A i \in 1..k : a[i] = t[i]
  BY <1>1, <1>3
<1>6. /\ b \in Seq(S) /\ Len(b) = k /\ \A i \in 1..k : b[i] = u[i]
  BY <1>1, <1>3
<1> HIDE DEF a, b
<1>7. a = b
  <2>1. \A i \in 1..k : a[i] = b[i]
    BY <1>1, <1>3, <1>4, <1>5, <1>6
  <2> QED
    BY <1>3, <1>5, <1>6, <2>1, SeqEqual
<1> DEFINE c == SubSeq(t, k + 1, Len(t))
           d == SubSeq(u, k + 1, Len(u))
<1>8. /\ c \in Seq(S) /\ Len(c) = Len(t) - k /\ \A i \in 1..(Len(t) - k) : c[i] = t[i + k]
  BY <1>1, <1>3
<1>9. /\ d \in Seq(S) /\ Len(d) = Len(t) - k + Len(x)
      /\ \A i \in 1..(Len(t) - k + Len(x)) : d[i] = u[i + k]
  BY <1>1, <1>3
<1> HIDE DEF c, d
<1>10. /\ c \o x \in Seq(S) /\ Len(c \o x) = Len(t) - k + Len(x)
       /\ \A i \in 1..(Len(t) - k + Len(x)) :
            (c \o x)[i] = IF i <= Len(t) - k THEN c[i] ELSE x[i - (Len(t) - k)]
  <2> DEFINE n == Len(t) - k
  <2>1. c \in Seq(S) /\ Len(c) = n /\ n \in Nat
    BY <1>1, <1>3, <1>8
  <2> HIDE DEF n
  <2>2. /\ c \o x \in Seq(S) /\ Len(c \o x) = n + Len(x)
        /\ \A i \in 1..(n + Len(x)) : (c \o x)[i] = IF i <= n THEN c[i] ELSE x[i - n]
    <3>1. /\ c \o x \in Seq(S) /\ Len(c \o x) = Len(c) + Len(x)
          /\ \A i \in 1..(Len(c) + Len(x)) :
               (c \o x)[i] = IF i <= Len(c) THEN c[i] ELSE x[i - Len(c)]
      BY <2>1, ConcatProperties
    <3> QED
      BY ONLY <2>1, <3>1, Zenon
  <2> QED
    BY <2>2 DEF n
<1> DEFINE cx == c \o x
<1> HIDE DEF cx
<1>11. cx = d
  <2>1. \A i \in 1..(Len(t) - k + Len(x)) : cx[i] = d[i]
    <3> TAKE i \in 1..(Len(t) - k + Len(x))
    <3>1. i + k \in 1..(Len(t) + Len(x)) /\ i \in Nat
      BY <1>1, <1>3
    <3>2. d[i] = u[i + k] /\ u[i + k] = IF i + k <= Len(t) THEN t[i + k] ELSE x[i + k - Len(t)]
      BY <1>4, <1>9, <3>1
    <3>3. CASE i <= Len(t) - k
      <4>1. i \in 1..(Len(t) - k) /\ i + k <= Len(t)
        BY <1>1, <1>3, <3>1, <3>3
      <4> QED
        BY <1>8, <1>10, <3>2, <3>3, <4>1 DEF cx
    <3>4. CASE i > Len(t) - k
      <4>1. i + k > Len(t) /\ i - (Len(t) - k) = i + k - Len(t)
        BY <1>1, <1>3, <3>1, <3>4
      <4>2. ~(i + k <= Len(t)) /\ ~(i <= Len(t) - k)
        BY <1>1, <1>3, <3>1, <3>4
      <4> QED
        BY <1>10, <3>2, <4>1, <4>2 DEF cx
    <3> QED
      BY <1>1, <1>3, <3>1, <3>3, <3>4
  <2>2. cx \in Seq(S) /\ Len(cx) = Len(t) - k + Len(x)
    BY <1>10 DEF cx
  <2> QED
    BY <1>1, <1>3, <1>9, <2>1, <2>2, SeqEqual
<1> DEFINE e == SubSeq(u, Len(t) + 1, Len(u))
<1>12. /\ e \in Seq(S) /\ Len(e) = Len(x)
       /\ \A i \in 1..Len(x) : e[i] = u[i + Len(t)]
  BY <1>1, <1>3
<1> HIDE DEF e
<1>13. e = x
  <2>1. \A i \in 1..Len(x) : e[i] = x[i]
    <3> TAKE i \in 1..Len(x)
    <3>1. i + Len(t) \in 1..(Len(t) + Len(x)) /\ ~(i + Len(t) <= Len(t)) /\ i + Len(t) - Len(t) = i
      BY <1>1
    <3>2. e[i] = u[i + Len(t)]
      BY <1>12
    <3>3. u[i + Len(t)] = x[i + Len(t) - Len(t)]
      BY <1>4, <3>1
    <3> QED
      BY <3>1, <3>2, <3>3
  <2> QED
    BY <1>12, <2>1, SeqEqual
<1>14. SubSeq(t, 1, Len(t)) = t
  <2> DEFINE f == SubSeq(t, 1, Len(t))
  <2>1. f \in Seq(S) /\ Len(f) = Len(t) /\ \A i \in 1..Len(t) : f[i] = t[i]
    BY <1>1
  <2> HIDE DEF f
  <2>2. f = t
    BY <2>1, SeqEqual
  <2> QED
    BY <2>2 DEF f
<1>15. SubSeq(t, 1, k) \in Seq(S) /\ Len(SubSeq(t, 1, k)) = k
  BY <1>5 DEF a
<1>16. SubSeq(t \o x, 1, k) = SubSeq(t, 1, k)
  BY <1>7 DEF a, b, u
<1>17. SubSeq(t, k + 1, Len(t)) \in Seq(S)
  BY <1>8 DEF c
<1>18. SubSeq(t \o x, k + 1, Len(t \o x)) = Cat(SubSeq(t, k + 1, Len(t)), x)
  BY <1>11 DEF c, cx, d, u, Cat
<1>19. SubSeq(t \o x, Len(t) + 1, Len(t \o x)) = x
  BY <1>13 DEF e, u
<1> QED
  BY ONLY <1>1, <1>14, <1>15, <1>16, <1>17, <1>18, <1>19

(* A piece taken from the front of the first text.                         *)
CutFirst(calls, n) == [calls EXCEPT ![1].text = SubSeq(@, n + 1, Len(@))]

LEMMA CutFirstIs ==
  ASSUME NEW cb \in CallNames, NEW u \in Text, NEW y \in Seq(CallSet), NEW n \in 0..Len(u),
         NEW o, o = Cat(<<Call(cb, u)>>, y)
  PROVE  /\ o \in Seq(CallSet) /\ o # <<>> /\ o[1] = Call(cb, u) /\ Tail(o) = y
         /\ CutFirst(o, n) = Cat(<<Call(cb, SubSeq(u, n + 1, Len(u)))>>, y)
<1> DEFINE a == Call(cb, u)
           v == SubSeq(u, n + 1, Len(u))
           b == Call(cb, v)
           w == <<b>> \o y
           e == CutFirst(o, n)
<1>1. u \in Seq(Char) /\ Len(u) \in Nat /\ n \in Nat /\ n <= Len(u)
  BY DEF Text
<1>2. v \in Text
  BY <1>1, CutTexts DEF Text
<1>3. a \in CallSet /\ b \in CallSet /\ a.text = u /\ b = [a EXCEPT !.text = v]
  <2>1. a \in CallSet
    BY TheCalls
  <2>2. b \in CallSet
    BY <1>2, TheCalls
  <2>3. a.text = u /\ b = [a EXCEPT !.text = v]
    <3> HIDE DEF v
    <3> QED
      BY DEF Call
  <2> QED
    BY <2>1, <2>2, <2>3
<1>0. o = <<a>> \o y
  BY DEF Cat
<1> HIDE DEF a, b
<1>4. /\ o \in Seq(CallSet) /\ o # <<>> /\ Head(o) = a /\ Tail(o) = y /\ <<a>> \in Seq(CallSet)
  <2>1. /\ <<a>> \o y # <<>> /\ Head(<<a>> \o y) = a /\ Tail(<<a>> \o y) = y
        /\ <<a>> \in Seq(CallSet) /\ <<a>> \o y \in Seq(CallSet)
    BY ONLY <1>3, y \in Seq(CallSet), FirstOf
  <2> QED
    BY ONLY <1>0, <2>1
<1>5. /\ w \in Seq(CallSet) /\ w # <<>> /\ Head(w) = b /\ Tail(w) = y /\ <<b>> \in Seq(CallSet)
  BY <1>3, FirstOf
<1>6. /\ Len(y) \in Nat /\ Len(o) = 1 + Len(y) /\ Len(w) = 1 + Len(y)
      /\ o[1] = a /\ w[1] = b
      /\ \A i \in 2..Len(o) : o[i] = w[i]
  <2>1. Len(<<a>>) = 1 /\ Len(<<b>>) = 1 /\ <<a>>[1] = a /\ <<b>>[1] = b /\ Len(y) \in Nat
    OBVIOUS
  <2>2. /\ Len(o) = Len(<<a>>) + Len(y)
        /\ \A i \in 1..(Len(<<a>>) + Len(y)) :
             o[i] = IF i <= Len(<<a>>) THEN <<a>>[i] ELSE y[i - Len(<<a>>)]
    BY <1>0, <1>4, ConcatProperties
  <2>3. /\ Len(w) = Len(<<b>>) + Len(y)
        /\ \A i \in 1..(Len(<<b>>) + Len(y)) :
             w[i] = IF i <= Len(<<b>>) THEN <<b>>[i] ELSE y[i - Len(<<b>>)]
    BY <1>5, ConcatProperties
  <2> HIDE DEF w
  <2>4. Len(o) = 1 + Len(y) /\ Len(w) = 1 + Len(y)
    BY <2>1, <2>2, <2>3
  <2>5. \A i \in 1..(1 + Len(y)) : o[i] = (IF i <= 1 THEN <<a>>[i] ELSE y[i - 1])
                                   /\ w[i] = (IF i <= 1 THEN <<b>>[i] ELSE y[i - 1])
    BY <2>1, <2>2, <2>3
  <2>6. 1 \in 1..(1 + Len(y)) /\ \A i \in 2..(1 + Len(y)) : i \in 1..(1 + Len(y)) /\ ~(i <= 1)
    BY <2>1
  <2>7. o[1] = a /\ w[1] = b
    BY <2>1, <2>5, <2>6
  <2>8. \A i \in 2..Len(o) : o[i] = w[i]
    BY <2>4, <2>5, <2>6
  <2> QED
    BY <2>1, <2>4, <2>7, <2>8
<1> HIDE DEF w, v
<1>7. e = w
  <2>1. /\ e \in Seq(CallSet) /\ Len(e) = Len(o) /\ e[1] = [a EXCEPT !.text = v]
        /\ \A i \in 2..Len(o) : e[i] = o[i]
    <3>1. DOMAIN o = 1..Len(o) /\ 1 \in DOMAIN o /\ \A i \in DOMAIN o : o[i] \in CallSet
      BY <1>4, <1>6
    <3>2. e = [i \in 1..Len(o) |-> IF i = 1 THEN [a EXCEPT !.text = v] ELSE o[i]]
      BY <1>3, <1>6, <3>1 DEF CutFirst, v
    <3>3. \A i \in 1..Len(o) : (IF i = 1 THEN [a EXCEPT !.text = v] ELSE o[i]) \in CallSet
      BY <1>3, <3>1
    <3> HIDE DEF e
    <3>4. e \in [1..Len(o) -> CallSet] /\ Len(o) \in Nat
      <4>1. Len(o) \in Nat
        BY <1>6
      <4>2. e \in [1..Len(o) -> CallSet]
        BY ONLY <3>2, <3>3
      <4> QED
        BY ONLY <4>1, <4>2
    <3>5. e \in Seq(CallSet) /\ Len(e) = Len(o)
      BY <3>4
    <3>6. 1 \in 1..Len(o) /\ \A i \in 2..Len(o) : i \in 1..Len(o) /\ i # 1
      BY <1>6
    <3> QED
      BY ONLY <3>2, <3>5, <3>6
  <2> HIDE DEF e
  <2>2. \A i \in 1..Len(e) : e[i] = w[i]
    BY <1>3, <1>6, <2>1
  <2> QED
    BY <1>5, <1>6, <2>1, <2>2, SeqEqual
<1> QED
  BY <1>4, <1>6, <1>7 DEF w, a, b, v, Cat

(* What a callback takes of the text that comes first is taken of what is  *)
(* owed.                                                                   *)
LEMMA PieceDue ==
  ASSUME NEW c \in CallSet, NEW K \in Seq(CallSet), NEW k \in 0..Len(c.text), NEW q,
         \/ q = K /\ SubSeq(c.text, 1, k) = c.text
         \/ q = Join(Call(c.cb, SubSeq(c.text, k + 1, Len(c.text))), K)
  PROVE  LET o     == Join(c, K)
             piece == SubSeq(c.text, 1, k)
         IN  /\ o # <<>> /\ o[1].cb = c.cb
             /\ k \in 0..Len(o[1].text) /\ piece = SubSeq(o[1].text, 1, k)
             /\ Len(piece) = k
             /\ (piece = o[1].text /\ q = Tail(o)) \/ q = CutFirst(o, k)
<1>0. c.cb \in CallNames /\ c.text \in Text /\ c.text \in Seq(Char)
  BY DEF CallSet, Text
<1>1. PICK x \in Text, y \in Seq(CallSet) :
           /\ Join(c, K) = <<Call(c.cb, c.text \o x)>> \o y
           /\ \/ x = <<>> /\ y = K /\ \A a \in Text : Join(Call(c.cb, a), K) = <<Call(c.cb, a)>> \o K
              \/ /\ K = <<Call(c.cb, x)>> \o y
                 /\ \A a \in Text : Join(Call(c.cb, a), K) = <<Call(c.cb, a \o x)>> \o y
  BY JoinedCall
<1> DEFINE t == c.text
           u == t \o x
           o == Join(c, K)
           a == SubSeq(t, k + 1, Len(t))
<1>2. t \in Seq(Char) /\ x \in Seq(Char)
  BY <1>0 DEF Text
<1>3. /\ u \in Text /\ Len(t) \in Nat /\ Len(x) \in Nat /\ Len(u) = Len(t) + Len(x)
      /\ Len(SubSeq(t, 1, k)) = k /\ SubSeq(u, 1, k) = SubSeq(t, 1, k)
      /\ a \in Text /\ SubSeq(u, k + 1, Len(u)) = a \o x
      /\ SubSeq(u, Len(t) + 1, Len(u)) = x
      /\ a \o <<>> = a /\ t \o <<>> = t
  <2> HIDE DEF t
  <2>1. k \in 0..Len(t)
    BY DEF t
  <2> USE DEF Text
  <2>2. /\ u \in Text /\ Len(t) \in Nat /\ Len(x) \in Nat /\ Len(u) = Len(t) + Len(x)
        /\ Len(SubSeq(t, 1, k)) = k
    BY <1>2, <2>1, CutTexts
  <2>3. /\ SubSeq(u, 1, k) = SubSeq(t, 1, k)
        /\ a \in Text /\ SubSeq(u, k + 1, Len(u)) = a \o x
    <3>1. SubSeq(u, 1, k) = SubSeq(t, 1, k)
      BY <1>2, <2>1, CutTexts
    <3>2. a \in Text
      BY <1>2, <2>1, CutTexts
    <3>3. SubSeq(u, k + 1, Len(u)) = a \o x
      <4>1. SubSeq(u, k + 1, Len(u)) = Cat(SubSeq(t, k + 1, Len(t)), x)
        BY ONLY <1>2, <2>1, CutTexts
      <4> QED
        BY <4>1 DEF Cat
    <3> QED
      BY <3>1, <3>2, <3>3
  <2>4. SubSeq(u, Len(t) + 1, Len(u)) = x
    BY <1>2, <2>1, CutTexts
  <2> HIDE DEF a
  <2>5. a \o <<>> = a /\ t \o <<>> = t
    BY <1>2, <2>3, HeadJoined
  <2> QED
    BY <2>2, <2>3, <2>4, <2>5
<1> HIDE DEF t, u, a
<1>4. k \in 0..Len(u) /\ Len(t) \in 0..Len(u) /\ k \in 0..Len(t)
  BY <1>3 DEF t
<1>5. o = Cat(<<Call(c.cb, u)>>, y)
  BY <1>1 DEF u, t, Cat
<1> HIDE DEF o
<1>6. /\ o # <<>> /\ o[1] = Call(c.cb, u) /\ Tail(o) = y
      /\ CutFirst(o, k) = <<Call(c.cb, SubSeq(u, k + 1, Len(u)))>> \o y
      /\ CutFirst(o, Len(t)) = <<Call(c.cb, SubSeq(u, Len(t) + 1, Len(u)))>> \o y
  <2>1. c.cb \in CallNames /\ u \in Text /\ y \in Seq(CallSet) /\ k \in 0..Len(u) /\ Len(t) \in 0..Len(u)
    BY <1>0, <1>3, <1>4
  <2>2. CutFirst(o, k) = Cat(<<Call(c.cb, SubSeq(u, k + 1, Len(u)))>>, y)
    BY ONLY <1>5, <2>1, CutFirstIs
  <2>4. o # <<>> /\ o[1] = Call(c.cb, u) /\ Tail(o) = y
    <3> DEFINE a1 == Call(c.cb, u)
    <3>1. a1 \in CallSet
      BY <2>1, TheCalls
    <3>2. o = <<a1>> \o y
      BY <1>5 DEF Cat
    <3> HIDE DEF a1
    <3>3. /\ <<a1>> \o y # <<>> /\ Head(<<a1>> \o y) = a1 /\ Tail(<<a1>> \o y) = y
      BY ONLY <2>1, <3>1, FirstOf
    <3>4. o # <<>> /\ Head(o) = a1 /\ Tail(o) = y
      BY ONLY <3>2, <3>3
    <3> QED
      BY <3>4 DEF a1
  <2>3. CutFirst(o, Len(t)) = Cat(<<Call(c.cb, SubSeq(u, Len(t) + 1, Len(u)))>>, y)
    BY ONLY <1>5, <2>1, CutFirstIs
  <2> QED
    BY <2>2, <2>3, <2>4 DEF Cat
<1>7. o[1].cb = c.cb /\ o[1].text = u
  BY <1>6 DEF Call
<1>8. (SubSeq(t, 1, k) = u /\ q = Tail(o)) \/ q = CutFirst(o, k)
  <2>1. CASE q = K /\ SubSeq(t, 1, k) = t
    <3>1. k = Len(t)
      BY <1>3, <2>1
    <3>2. CASE x = <<>> /\ y = K
      BY <1>3, <1>6, <2>1, <3>2, Zenon DEF u
    <3>3. CASE K = <<Call(c.cb, x)>> \o y
      BY <1>3, <1>6, <2>1, <3>1, <3>3, Zenon
    <3> QED
      BY <1>1, <3>2, <3>3
  <2>2. CASE q = Join(Call(c.cb, a), K)
    <3>1. q = <<Call(c.cb, a \o x)>> \o y
      BY <1>1, <1>3, <2>2
    <3> QED
      BY <1>3, <1>6, <3>1
  <2> QED
    BY <2>1, <2>2 DEF t, a
<1>9. SubSeq(t, 1, k) = SubSeq(o[1].text, 1, k) /\ k \in 0..Len(o[1].text) /\ Len(SubSeq(t, 1, k)) = k
  BY <1>3, <1>4, <1>7
<1>10. (SubSeq(t, 1, k) = o[1].text /\ q = Tail(o)) \/ q = CutFirst(o, k)
  BY <1>7, <1>8
<1> QED
  BY <1>6, <1>7, <1>9, <1>10 DEF t, o

-----------------------------------------------------------------------------
(* The callbacks.                                                          *)

(* Owed depends on the input and the parser only.                          *)
LEMMA OwedSame ==
  ASSUME UNCHANGED framingVars, UNCHANGED <<stream, begun>>
  PROVE  Owed' = Owed
<1>1. RestOfMessage' = RestOfMessage
  BY DEF RestOfMessage, framingVars
<1> QED
  BY <1>1 DEF Owed, framingVars

(* The call that comes first in todo comes first in owed, perhaps longer.  *)
LEMMA FirstDue ==
  ASSUME Framing, Delivery, Sent, Accounting, todo # <<>>
  PROVE  LET c == todo[1]
             r == Tail(todo)
             K == Merged(r \o Owed)
         IN  /\ c \in CallSet /\ r \in Seq(CallSet) /\ todo = Cat(<<c>>, r)
             /\ parser.ok /\ K \in Seq(CallSet) /\ owed = Join(c, K)
             /\ \A d \in CallSet : Merged(Cat(<<d>>, r) \o Owed) = Join(d, K)
<1> DEFINE c == todo[1]
           r == Tail(todo)
           K == Merged(r \o Owed)
<1>1. todo \in Seq(CallSet) /\ parser.ok
  BY DEF Delivery, CallsOK
<1>2. c \in CallSet /\ r \in Seq(CallSet) /\ todo = <<c>> \o r
  <2>1. Head(todo) = todo[1]
    BY <1>1
  <2> QED
    BY <1>1, <2>1, HeadJoined
<1>3. Owed \in Seq(CallSet)
  <2>1. Owed = OwedAt(input, wire[begun], Resting) /\ Resting \in BOOLEAN
    BY InputAny, OwedIs DEF Resting
  <2> QED
    BY <2>1, InputAny, OwedType
<1> HIDE DEF c, r
<1>4. r \o Owed \in Seq(CallSet)
  BY <1>2, <1>3, ConcatProperties
<1>5. K \in Seq(CallSet)
  BY <1>4, MergedJoin
<1>6. ASSUME NEW d \in CallSet
      PROVE  Merged(Cat(<<d>>, r) \o Owed) = Join(d, K)
  <2> DEFINE x == r \o Owed
  <2>1. <<d>> \in Seq(CallSet)
    OBVIOUS
  <2>2. Cat(Cat(<<d>>, r), Owed) = Cat(<<d>>, Cat(r, Owed))
    <3> DEFINE a == <<d>>
    <3>1. a \in Seq(CallSet)
      BY <2>1
    <3> HIDE DEF a
    <3>2. Cat(Cat(a, r), Owed) = Cat(a, Cat(r, Owed))
      BY ONLY <1>2, <1>3, <3>1, CatIs
    <3> QED
      BY <3>2 DEF a
  <2>3. Cat(<<d>>, r) \o Owed = <<d>> \o x
    BY <2>2 DEF Cat
  <2> HIDE DEF x
  <2>4. Merged(<<d>> \o x) = Join(d, Merged(x))
    BY <1>4, MergedJoin DEF x
  <2> QED
    BY <2>3, <2>4 DEF x
<1>7. todo = Cat(<<c>>, r)
  BY <1>2 DEF Cat
<1>8. owed = Join(c, K)
  BY <1>1, <1>2, <1>6, <1>7 DEF Accounting
<1> QED
  BY <1>1, <1>2, <1>5, <1>6, <1>7, <1>8 DEF c, r

(* A callback reads a buffer that is not there in both or in neither.      *)
LEMMA SameCallback ==
  ASSUME Framing, Delivery, Sent, Accounting, todo # <<>>
  PROVE  owed # <<>> /\ owed[1].cb = todo[1].cb /\ (Missing <=> Promised!Missing)
<1> DEFINE c == todo[1]
           K == Merged(Tail(todo) \o Owed)
<1>1. c \in CallSet /\ K \in Seq(CallSet) /\ owed = Join(c, K)
  BY FirstDue
<1> HIDE DEF c, K
<1>2. PICK x \in Text, y \in Seq(CallSet) : owed = <<Call(c.cb, c.text \o x)>> \o y
  BY ONLY <1>1, JoinedCall
<1>3. c.cb \in CallNames /\ c.text \in Text
  BY <1>1 DEF CallSet
<1> DEFINE d == Call(c.cb, c.text \o x)
<1>4. d \in CallSet /\ d.cb = c.cb
  <2>1. c.text \o x \in Text
    BY <1>3, ConcatProperties DEF Text
  <2> QED
    BY <1>3, <2>1, CallTyped
<1> HIDE DEF d
<1>5. owed # <<>> /\ Head(owed) = d
  BY <1>2, <1>4, FirstOf DEF d
<1>6. owed[1] = Head(owed)
  BY <1>5
<1>7. owed[1].cb = todo[1].cb
  BY <1>4, <1>5, <1>6 DEF c
<1>8. Missing <=> Promised!Missing
  BY <1>5, <1>7, Zenon DEF Missing, Unsaved, Promised!Missing, Promised!Unsaved
<1> QED
  BY <1>5, <1>7, <1>8

(* A piece of a text, and a call without one, as HttpParser has them.      *)
LEMMA DataPromised ==
  ASSUME Framing, Delivery, Sent, Accounting, NEW cb, NEW piece \in Pieces, Data(cb, piece),
         UNCHANGED framingVars, Accounted
  PROVE  piece \in Promised!Pieces /\ Promised!Data(cb, piece)
<1> DEFINE c == todo[1]
           r == Tail(todo)
           K == Merged(r \o Owed)
<1>0. ~Promised!Missing
  BY SameCallback DEF Data
<1>1. /\ todo # <<>> /\ c.cb = cb
      /\ UNCHANGED <<stream, streaming, begun, done, announced, delivered>>
      /\ (piece = c.text /\ todo' = r) \/ todo' = CutFirst(todo, Len(piece))
  BY DEF Data, CutFirst
<1>2. PICK k \in 0..Len(c.text) : piece = SubSeq(c.text, 1, k)
  BY <1>1 DEF Pieces
<1>3. /\ c \in CallSet /\ r \in Seq(CallSet) /\ todo = Cat(<<c>>, r)
      /\ K \in Seq(CallSet) /\ owed = Join(c, K)
      /\ \A d \in CallSet : Merged(Cat(<<d>>, r) \o Owed) = Join(d, K)
  BY <1>1, FirstDue
<1>4. owed' = Merged(todo' \o Owed)
  BY <1>1, OwedSame DEF Accounted, Merged
<1>5. /\ c.cb \in CallNames /\ c.text \in Text /\ c = Call(c.cb, c.text)
      /\ Len(piece) = k /\ SubSeq(c.text, k + 1, Len(c.text)) \in Text
  <2>1. c.cb \in CallNames /\ c.text \in Text /\ c = Call(c.cb, c.text)
    BY <1>3 DEF CallSet, Call
  <2>2. c.text \in Seq(Char)
    BY <2>1 DEF Text
  <2> HIDE DEF c
  <2>3. Len(SubSeq(c.text, 1, k)) = k /\ SubSeq(c.text, k + 1, Len(c.text)) \in Seq(Char)
    BY <2>2, CutTexts
  <2> QED
    BY <1>2, <2>1, <2>3 DEF Text
<1> HIDE DEF c, r, K
<1>6. \/ owed' = K /\ SubSeq(c.text, 1, k) = c.text
      \/ owed' = Join(Call(c.cb, SubSeq(c.text, k + 1, Len(c.text))), K)
  <2>1. CASE piece = c.text /\ todo' = r
    BY <1>2, <1>4, <2>1 DEF K
  <2>2. CASE todo' = CutFirst(todo, Len(piece))
    <3> DEFINE d == Call(c.cb, SubSeq(c.text, k + 1, Len(c.text)))
    <3>1. d \in CallSet
      BY <1>5, TheCalls
    <3>2. todo = Cat(<<Call(c.cb, c.text)>>, r)
      BY <1>3, <1>5
    <3>3. CutFirst(todo, k) = Cat(<<d>>, r)
      BY ONLY <1>3, <1>5, <3>2, k \in 0..Len(c.text), CutFirstIs
    <3> HIDE DEF d
    <3>4. todo' = Cat(<<d>>, r)
      BY <1>5, <2>2, <3>3
    <3> QED
      BY <1>3, <1>4, <3>1, <3>4 DEF d
  <2> QED
    BY <1>1, <2>1, <2>2
<1>7. /\ owed # <<>> /\ owed[1].cb = c.cb
      /\ k \in 0..Len(owed[1].text) /\ piece = SubSeq(owed[1].text, 1, k)
      /\ (piece = owed[1].text /\ owed' = Tail(owed)) \/ owed' = CutFirst(owed, k)
  <2> DEFINE o == Join(c, K)
             t == SubSeq(c.text, 1, k)
  <2>1. /\ o # <<>> /\ o[1].cb = c.cb
        /\ k \in 0..Len(o[1].text) /\ t = SubSeq(o[1].text, 1, k)
        /\ (t = o[1].text /\ owed' = Tail(o)) \/ owed' = CutFirst(o, k)
    BY ONLY <1>3, <1>6, k \in 0..Len(c.text), PieceDue
  <2> HIDE DEF o, t
  <2>2. owed = o /\ piece = t
    BY <1>2, <1>3 DEF o, t
  <2> QED
    BY ONLY <2>1, <2>2
<1>8. piece \in Promised!Pieces
  BY <1>7 DEF Promised!Pieces
<1>9. Promised!Data(cb, piece)
  BY <1>0, <1>1, <1>5, <1>7 DEF Promised!Data, CutFirst, c
<1> QED
  BY <1>8, <1>9

LEMMA NotifyPromised ==
  ASSUME Framing, Delivery, Sent, Accounting, NEW cb \in {"headers", "complete", "eof"}, Notify(cb),
         UNCHANGED framingVars, Accounted
  PROVE  Promised!Notify(cb)
<1> DEFINE c == todo[1]
           r == Tail(todo)
           K == Merged(r \o Owed)
<1>0. ~Promised!Missing
  BY SameCallback DEF Notify
<1>1. /\ todo # <<>> /\ c.cb = cb /\ todo' = r
      /\ UNCHANGED <<stream, streaming, begun, hstate>>
  BY DEF Notify
<1>2. c \in CallSet /\ K \in Seq(CallSet) /\ owed = Join(c, K)
  BY <1>1, FirstDue
<1>3. owed' = K
  BY <1>1, OwedSame DEF Accounted, Merged
<1> HIDE DEF c, K
<1>4. owed = <<c>> \o K
  BY <1>1, <1>2, JoinApart
<1>5. owed # <<>> /\ Head(owed) = c /\ Tail(owed) = K
  BY <1>2, <1>4, FirstOf
<1>6. Head(owed) = owed[1]
  BY <1>5
<1> QED
  BY <1>0, <1>1, <1>3, <1>5, <1>6 DEF Promised!Notify

(* Each callback is the step of HttpParser of that name.                   *)
LEMMA CallbackPromised ==
  ASSUME Framing, Delivery, Sent, Accounting, Callback
  PROVE  Promised!Next
<1>1. UNCHANGED framingVars /\ Accounted
  BY DEF Callback
<1>2. ASSUME NEW cb, NEW piece \in Pieces, Data(cb, piece)
      PROVE  piece \in Promised!Pieces /\ Promised!Data(cb, piece)
  BY <1>1, <1>2, DataPromised
<1>3. ASSUME NEW cb \in {"headers", "complete", "eof"}, Notify(cb)
      PROVE  Promised!Notify(cb)
  BY <1>1, <1>3, NotifyPromised
<1>4. CASE UrlData
  <2>1. Promised!UrlData
    BY <1>2, <1>4 DEF UrlData, FirstLine, SbAppend, SbCreate, Promised!UrlData,
                      Promised!FirstLine, Promised!SbAppend, Promised!SbCreate
  <2> QED
    BY <2>1 DEF Promised!Next
<1>5. CASE StatusData
  <2>1. Promised!StatusData
    BY <1>2, <1>5 DEF StatusData, FirstLine, SbAppend, SbCreate, Promised!StatusData,
                      Promised!FirstLine, Promised!SbAppend, Promised!SbCreate
  <2> QED
    BY <2>1 DEF Promised!Next
<1>6. CASE HeaderField
  <2>1. Promised!HeaderField
    BY <1>2, <1>6 DEF HeaderField, SbAppend, SbCreate, SavedIfNamed, Saved, Promised!HeaderField,
                      Promised!SbAppend, Promised!SbCreate, Promised!SavedIfNamed, Promised!Saved
  <2> QED
    BY <2>1 DEF Promised!Next
<1>7. CASE HeaderValue
  <2>1. Promised!HeaderValue
    BY <1>2, <1>7 DEF HeaderValue, SbAppend, SbCreate, Promised!HeaderValue,
                      Promised!SbAppend, Promised!SbCreate
  <2> QED
    BY <2>1 DEF Promised!Next
<1>8. CASE BodyData
  <2>1. Promised!BodyData
    BY <1>2, <1>8 DEF BodyData, Promised!BodyData
  <2> QED
    BY <2>1 DEF Promised!Next
<1>9. CASE HeadersComplete
  <2>1. Promised!HeadersComplete
    BY <1>3, <1>9 DEF HeadersComplete, SavedIfNamed, Saved, TextOf, Promised!HeadersComplete,
                      Promised!SavedIfNamed, Promised!Saved, Promised!TextOf
  <2> QED
    BY <2>1 DEF Promised!Next
<1>10. CASE MessageComplete
  <2>1. Promised!MessageComplete
    BY <1>3, <1>10 DEF MessageComplete, SetUpNextMessage, NewMessage, NoBuffers, SbNames,
                       Promised!MessageComplete, Promised!SetUpNextMessage, Promised!NewMessage,
                       Promised!NoBuffers, Promised!SbNames
  <2> QED
    BY <2>1 DEF Promised!Next
<1>11. CASE AppendEof
  <2>1. Promised!AppendEof
    BY <1>3, <1>11 DEF AppendEof, SetUpNextMessage, NewMessage, NoBuffers, SbNames,
                       Promised!AppendEof, Promised!SetUpNextMessage, Promised!NewMessage,
                       Promised!NoBuffers, Promised!SbNames
  <2> QED
    BY <2>1 DEF Promised!Next
<1> QED
  BY <1>4, <1>5, <1>6, <1>7, <1>8, <1>9, <1>10, <1>11 DEF Callback

(* At the beginning nothing is owed.                                       *)
LEMMA InitPromised ==
  ASSUME HttpInit
  PROVE  Sent /\ Accounting /\ Promised!Init
<1>1. Sent /\ Init /\ owed = <<>>
  BY DEF HttpInit, Sent
<1>2. Promised!Init
  BY <1>1 DEF Init, NoBuffers, SbNames, NewMessage, Promised!Init, Promised!NoBuffers,
              Promised!SbNames, Promised!NewMessage
<1>3. Accounting
  <2>1. todo = <<>> /\ Owed = <<>>
    BY DEF HttpInit, Init, Owed
  <2>2. todo \o Owed = <<>>
    BY <2>1
  <2> QED
    BY <1>1, <2>2, MergedJoin DEF Accounting
<1> QED
  BY <1>1, <1>2, <1>3

(* A step of the parser that no callback sees.                             *)
LEMMA Stutters ==
  ASSUME UNCHANGED <<stream, streaming, begun, ctxVars, announced, delivered>>, owed' = owed
  PROVE  [Promised!Next]_(Promised!vars)
BY DEF ctxVars, Promised!vars, Promised!ctxVars

(* The first line of a message is MessageBegin.                            *)
LEMMA BeginPromised ==
  ASSUME Framing, Framing', Sent, Accounting, NEW t \in {"url", "status"}, Begin(t)
  PROVE  /\ Promised!Next /\ UNCHANGED <<wire, stream>> /\ Accounted
<1>1. /\ UNCHANGED <<wire, stream, streaming, ctxVars, announced, delivered>> /\ Accounted
  BY DEF Begin, Execute
<1>2. /\ owed = <<>> /\ begun < Len(stream) /\ begun' = begun + 1
      /\ owed' = Calls(stream[begun + 1])
  BY BeginOwed
<1>3. ASSUME NEW m PROVE Promised!Calls(m) = Calls(m)
  BY Zenon DEF FlattenSeq, Promised!FlattenSeq, Calls, PairCalls, PairCall, BodyCalls, Call, Promised!Calls, Promised!PairCalls,
         Promised!PairCall, Promised!BodyCalls, Promised!Call
<1>4. Promised!MessageBegin
  BY <1>1, <1>2, <1>3 DEF ctxVars, Promised!MessageBegin, Promised!ctxVars
<1> QED
  BY <1>1, <1>4 DEF Promised!Next

(* The end of a connection.                                                *)
LEMMA EndPromised ==
  ASSUME Framing, Delivery, Sent, Accounting, EofIgnored \/ EofCompletes \/ EofTruncates
  PROVE  Accounting'
<1>1. /\ ~ended /\ ended' /\ todo = <<>> /\ owed' = owed
      /\ UNCHANGED <<wire, input, stream, begun>>
  BY DEF EofIgnored, EofCompletes, EofTruncates, EndOfInput
<1> SUFFICES ASSUME parser'.ok PROVE Accounting'
  BY DEF Accounting
<1>2. parser \in Parsers /\ wire \in Wires /\ DOMAIN wire = 1..Len(wire)
  BY InputAny
<1>3. CASE EofIgnored
  <2>1. parser' = parser /\ todo' = todo /\ BetweenMessages /\ parser.ok
    BY <1>3 DEF EofIgnored
  <2>2. BetweenTwo(parser)
    <3> SUFFICES ASSUME done PROVE BetweenTwo(parser)
      BY <2>1 DEF BetweenMessages, BetweenTwo
    <3>1. delivered # <<>> /\ ~streaming /\ ~(Len(wire) > 1)
      BY DEF Delivery
    <3>2. Len(delivered) > 0
      <4>1. PICK S : delivered \in Seq(S)
        BY DEF Delivery
      <4> QED
        BY <3>1, <4>1
    <3>3. begun \in Nat /\ begun <= 1 /\ Len(wire) \in Nat
      BY <1>2, <3>1, WireIs DEF Framing
    <3>4. Len(delivered) = IF Resting /\ ~Ends(todo) THEN begun ELSE begun - 1
      BY <2>1 DEF Delivery
    <3>5. Resting
      BY <3>2, <3>3, <3>4
    <3> QED
      BY <1>1, <3>5 DEF Resting
  <2>3. Owed = <<>> /\ Owed' = <<>>
    BY <2>1, <2>2 DEF Owed, BetweenTwo
  <2> QED
    BY <1>1, <2>1, <2>3 DEF Accounting
<1>4. CASE EofCompletes
  <2>1. /\ parser' = parser /\ parser.ok /\ parser.state = "eof" /\ input = <<>>
        /\ todo' = <<Call("eof", <<>>)>>
    BY <1>4 DEF EofCompletes, BetweenMessages
  <2>2. Owed' = <<>>
    BY <1>1, <2>1 DEF Owed
  <2>3. begun \in DOMAIN wire /\ wire[begun].frame = "eof"
    <3>1. PICK rest \in Seq(LineSet) : Placed(rest, wire, begun, parser)
      BY DEF Framing
    <3> QED
      BY <1>2, <2>1, <3>1, InputAny DEF Placed, BetweenTwo, Inside, AtEof
  <2>4. EndCall(wire[begun]) = Call("eof", <<>>)
    BY <2>3 DEF EndCall
  <2>5. ~Resting
    BY <1>1, <2>1 DEF Resting, BetweenTwo
  <2>6. Owed = CallsIn(<<>>) \o <<Call("eof", <<>>)>>
    BY <2>1, <2>3, <2>4, <2>5, OwedIs DEF OwedAt
  <2>7. CallsIn(<<>>) = <<>>
    <3>1. Junk \in AnyLine /\ <<>> \in Seq(AnyLine)
      BY DEF AnyLine
    <3> QED
      BY <3>1, CallsInStep
  <2>8. Call("eof", <<>>) \in CallSet
    BY TheCalls DEF CallNames
  <2> DEFINE e == Call("eof", <<>>)
  <2> HIDE DEF e
  <2>9. <<>> \o <<e>> = <<e>> /\ <<e>> \o <<>> = <<e>> /\ <<>> \o (<<>> \o <<e>>) = <<e>>
    OBVIOUS
  <2>10. todo \o Owed = <<e>> /\ todo' \o Owed' = <<e>>
    BY <1>1, <2>1, <2>2, <2>6, <2>7, <2>9 DEF e
  <2> QED
    BY <1>1, <2>1, <2>10 DEF Accounting
<1>5. CASE EofTruncates
  BY <1>2, <1>5 DEF EofTruncates, Parsers
<1> QED
  BY <1>3, <1>4, <1>5

(* The invariant of the refinement.                                        *)
Keeps == Framing /\ Delivery /\ Sent /\ Accounting

(* Reading a line begins a message or changes nothing HttpParser sees.     *)
LEMMA ReadingPromised ==
  ASSUME Keeps, Framing', ReadingStep \/ Upgrade
  PROVE  /\ [Promised!Next]_(Promised!vars)
         /\ UNCHANGED <<wire, stream>> /\ Accounted
<1> USE DEF Keeps
<1>1. ASSUME NEW t \in {"url", "status"}, Begin(t)
      PROVE  [Promised!Next]_(Promised!vars) /\ UNCHANGED <<wire, stream>> /\ Accounted
  BY <1>1, BeginPromised
<1>2. ASSUME HeaderLine \/ FoldedLine \/ WithoutBody \/ WithBody \/ TrailersEnd
             \/ ChunkSize \/ BodyBytes \/ ChunkBytes \/ BytesUntilEof \/ StrayEmpty \/ Upgrade
      PROVE  [Promised!Next]_(Promised!vars) /\ UNCHANGED <<wire, stream>> /\ Accounted
  <2>1. owed' = owed
    BY <1>2, HeaderLineOwed, TextOwed, SizeOwed, BodyBytesOwed, HeadersEndOwed,
       TrailersEndOwed, UpgradeOwed, StrayEmptyOwed
  <2>2. /\ UNCHANGED <<wire, stream, streaming, ctxVars, announced, delivered>>
        /\ UNCHANGED begun /\ Accounted
    <3>1. ASSUME NEW state, NEW t, Execute(state, t), NEW calls, Reports(calls)
          PROVE  /\ UNCHANGED <<wire, stream, streaming, ctxVars, announced, delivered>>
                 /\ UNCHANGED begun /\ Accounted
      BY <3>1 DEF Execute, Reports
    <3>2. CASE HeaderLine
      BY <3>1, <3>2 DEF HeaderLine
    <3>3. CASE FoldedLine
      BY <3>1, <3>3 DEF FoldedLine
    <3>4. CASE WithoutBody
      BY <3>1, <3>4 DEF WithoutBody, HeadersEnd
    <3>5. CASE WithBody
      BY <3>1, <3>5 DEF WithBody, HeadersEnd
    <3>6. CASE TrailersEnd
      BY <3>1, <3>6 DEF TrailersEnd
    <3>7. CASE ChunkSize
      BY <3>1, <3>7 DEF ChunkSize
    <3>8. CASE BodyBytes
      BY <3>1, <3>8 DEF BodyBytes
    <3>9. CASE ChunkBytes
      BY <3>1, <3>9 DEF ChunkBytes
    <3>10. CASE BytesUntilEof
      BY <3>1, <3>10 DEF BytesUntilEof
    <3>11. CASE StrayEmpty
      BY <3>1, <3>11 DEF StrayEmpty
    <3>12. CASE Upgrade
      BY <3>12 DEF Upgrade
    <3> QED
      BY <1>2, <3>2, <3>3, <3>4, <3>5, <3>6, <3>7, <3>8, <3>9, <3>10, <3>11, <3>12
  <2> QED
    BY <2>1, <2>2, Stutters
<1> QED
  BY <1>1, <1>2 DEF ReadingStep, RequestLine, StatusLine

(* Every step is one of HttpParser, or none.                               *)
LEMMA PromisedStep ==
  ASSUME Keeps, [HttpNext]_httpVars
  PROVE  Keeps' /\ [Promised!Next]_(Promised!vars)
<1>0. Framing /\ Delivery /\ Sent /\ Accounting
  BY DEF Keeps
<1>1. Framing' /\ Delivery'
  BY <1>0, FramingStep, DeliveryStep
<1>2. ASSUME Accounted PROVE Accounting'
  BY <1>2 DEF Accounted, Accounting, Merged
<1>3. ASSUME UNCHANGED <<wire, stream>> PROVE Sent'
  BY <1>0, <1>3 DEF Sent
<1>4. CASE ReadingStep \/ Upgrade
  <2>1. [Promised!Next]_(Promised!vars) /\ UNCHANGED <<wire, stream>> /\ Accounted
    BY <1>1, <1>4, ReadingPromised
  <2> QED
    BY <1>1, <1>2, <1>3, <2>1 DEF Keeps
<1>5. CASE Reject
  <2>1. /\ UNCHANGED <<wire, vars>> /\ owed' = owed /\ parser' = [parser EXCEPT !.ok = FALSE]
    BY <1>5 DEF Reject
  <2>2. UNCHANGED <<wire, stream, streaming, begun, ctxVars, announced, delivered>>
    BY <2>1 DEF vars
  <2>3. ~parser'.ok
    <3>1. parser \in Parsers
      BY <1>0, InputAny
    <3> QED
      BY <2>1, <3>1 DEF Parsers
  <2>4. Accounting'
    BY <2>3 DEF Accounting
  <2> QED
    BY <1>1, <1>3, <2>1, <2>2, <2>4, Stutters DEF Keeps
<1>6. CASE EofIgnored \/ EofCompletes \/ EofTruncates
  <2>1. /\ UNCHANGED <<wire, stream, streaming, begun, ctxVars, announced, delivered>>
        /\ owed' = owed
    BY <1>6 DEF EofIgnored, EofCompletes, EofTruncates, EndOfInput
  <2>2. Accounting'
    BY <1>0, <1>6, EndPromised
  <2> QED
    BY <1>1, <1>3, <2>1, <2>2, Stutters DEF Keeps
<1>7. CASE Callback
  <2>1. Promised!Next
    BY <1>0, <1>7, CallbackPromised
  <2>2. Accounted /\ wire' = wire
    BY <1>7, SMTT(30) DEF Callback, framingVars
  <2>3. stream' = stream
    BY <1>7, Zenon DEF Callback, UrlData, StatusData, FirstLine, HeaderField, HeaderValue,
                HeadersComplete, BodyData, MessageComplete, AppendEof, Data, Notify
  <2> QED
    BY <1>1, <1>2, <1>3, <2>1, <2>2, <2>3 DEF Keeps
<1>8. CASE UNCHANGED httpVars
  <2>1. /\ UNCHANGED <<wire, stream, streaming, begun, ctxVars, announced, delivered>>
        /\ owed' = owed /\ UNCHANGED framingVars /\ todo' = todo
    BY <1>8 DEF httpVars, vars, framingVars
  <2>2. Accounting'
    <3>1. Owed' = Owed /\ parser' = parser
      BY <2>1, OwedSame DEF framingVars
    <3> QED
      BY <1>0, <2>1, <3>1 DEF Accounting
  <2> QED
    BY <1>1, <1>3, <2>1, <2>2, Stutters DEF Keeps
<1> QED
  BY <1>4, <1>5, <1>6, <1>7, <1>8, NextIs

(***************************************************************************)
(* http_parser reports the messages of a connection with the calls, in the *)
(* order, that the callbacks of HTTPParser are written for: what           *)
(* http_parser_execute and appendEOF do implements HttpParser.             *)
(***************************************************************************)
THEOREM CallsAsPromised == HttpSpec => ImplementsCalls
<1>1. HttpInit => Keeps /\ Promised!Init
  BY InitFraming, InitDelivery, InitPromised DEF Keeps
<1>2. Keeps /\ [HttpNext]_httpVars => Keeps' /\ [Promised!Next]_(Promised!vars)
  BY PromisedStep
<1> QED
  BY <1>1, <1>2, PTL DEF HttpSpec, ImplementsCalls, Promised!Spec

(* Until http_parser gives up, owed is what the other variables say.       *)
LEMMA KeepsInvariant == HttpSpec => []Keeps
<1>1. HttpInit => Keeps
  BY InitFraming, InitDelivery, InitPromised DEF Keeps
<1>2. Keeps /\ [HttpNext]_httpVars => Keeps'
  BY PromisedStep
<1> QED
  BY <1>1, <1>2, PTL DEF HttpSpec

-----------------------------------------------------------------------------
(***************************************************************************)
(* What HttpProofs proves of the callbacks under any http_parser that      *)
(* keeps the promise holds of them under this one.                         *)
(***************************************************************************)

Callbacks == INSTANCE HttpProofs WITH todo <- owed

(* The assumption of HttpProofs.                                           *)
LEMMA SameMessages == /\ Streams \subseteq Seq(Callbacks!Messages)
                      /\ BufferSize \in Nat \ {0}
                      /\ Null \notin Callbacks!Buffers
BY HttpAssumption, Zenon DEF Messages, Pairs, Text, Buffers, Callbacks!Messages, Callbacks!Pairs,
                      Callbacks!Text, Callbacks!Buffers

(* HttpProofs and Promised are two instances of the same specification.    *)
LEMMA SameInit == Promised!Init => Callbacks!Init
BY DEF Promised!Init, Promised!NoBuffers, Promised!SbNames, Promised!NewMessage,
       Callbacks!Init, Callbacks!NoBuffers, Callbacks!SbNames, Callbacks!NewMessage

LEMMA SameSteps ==
  ASSUME Promised!Next
  PROVE  Callbacks!Next
<1>1. ASSUME NEW m PROVE Promised!Calls(m) = Callbacks!Calls(m)
  BY Zenon DEF Callbacks!FlattenSeq, Promised!FlattenSeq, Callbacks!Calls, Callbacks!PairCalls, Callbacks!PairCall, Callbacks!BodyCalls,
         Callbacks!Call, Promised!Calls, Promised!PairCalls, Promised!PairCall,
         Promised!BodyCalls, Promised!Call
<1>2. ASSUME NEW sb, NEW piece PROVE Promised!SbAppend(sb, piece) = Callbacks!SbAppend(sb, piece)
  BY DEF Promised!SbAppend, Callbacks!SbAppend
<1>3. /\ Promised!SbCreate = Callbacks!SbCreate /\ Promised!Pieces = Callbacks!Pieces
      /\ Promised!SavedIfNamed = Callbacks!SavedIfNamed
      /\ \A sb : Promised!TextOf(sb) = Callbacks!TextOf(sb)
  BY DEF Promised!SbCreate, Callbacks!SbCreate, Promised!Pieces, Callbacks!Pieces,
         Promised!SavedIfNamed, Callbacks!SavedIfNamed, Promised!Saved, Callbacks!Saved,
         Promised!TextOf, Callbacks!TextOf
<1>14. Promised!Missing <=> Callbacks!Missing
  BY Zenon DEF Promised!Missing, Promised!Unsaved, Callbacks!Missing, Callbacks!Unsaved
<1>4. ASSUME NEW cb, NEW piece, Promised!Data(cb, piece) PROVE Callbacks!Data(cb, piece)
  BY <1>4, <1>14 DEF Promised!Data, Callbacks!Data
<1>5. ASSUME NEW cb, Promised!Notify(cb) PROVE Callbacks!Notify(cb)
  BY <1>5, <1>14 DEF Promised!Notify, Callbacks!Notify
<1>6. Promised!SetUpNextMessage => Callbacks!SetUpNextMessage
  BY DEF Promised!SetUpNextMessage, Callbacks!SetUpNextMessage, Promised!NewMessage,
         Promised!NoBuffers, Promised!SbNames, Callbacks!NewMessage, Callbacks!NoBuffers,
         Callbacks!SbNames
<1>7. CASE Promised!MessageBegin
  BY <1>1, <1>7 DEF Promised!MessageBegin, Callbacks!MessageBegin, Promised!ctxVars,
                    Callbacks!ctxVars, Callbacks!Next
<1>8. CASE Promised!UrlData \/ Promised!StatusData
  BY <1>2, <1>3, <1>4, <1>8 DEF Promised!UrlData, Promised!StatusData, Promised!FirstLine,
    Callbacks!UrlData, Callbacks!StatusData, Callbacks!FirstLine, Callbacks!Next
<1>9. CASE Promised!HeaderField
  BY <1>2, <1>3, <1>4, <1>9 DEF Promised!HeaderField, Callbacks!HeaderField, Callbacks!Next
<1>10. CASE Promised!HeaderValue
  BY <1>2, <1>3, <1>4, <1>10 DEF Promised!HeaderValue, Callbacks!HeaderValue, Callbacks!Next
<1>11. CASE Promised!BodyData
  BY <1>3, <1>4, <1>11 DEF Promised!BodyData, Callbacks!BodyData, Callbacks!Next
<1>12. CASE Promised!HeadersComplete
  BY <1>3, <1>5, <1>12 DEF Promised!HeadersComplete, Callbacks!HeadersComplete, Callbacks!Next
<1>13. CASE Promised!MessageComplete \/ Promised!AppendEof
  BY <1>5, <1>6, <1>13 DEF Promised!MessageComplete, Promised!AppendEof,
     Callbacks!MessageComplete, Callbacks!AppendEof, Callbacks!Next
<1> QED
  BY <1>7, <1>8, <1>9, <1>10, <1>11, <1>12, <1>13 DEF Promised!Next

LEMMA CallbacksFollow == HttpSpec => Callbacks!Spec
<1>1. [Promised!Next]_(Promised!vars) => [Callbacks!Next]_(Callbacks!vars)
  BY SameSteps DEF Promised!vars, Promised!ctxVars, Callbacks!vars, Callbacks!ctxVars
<1> QED
  BY <1>1, SameInit, CallsAsPromised, PTL DEF ImplementsCalls, Promised!Spec, Callbacks!Spec

(***************************************************************************)
(* What the message callback is given is what was sent, for every framing. *)
(***************************************************************************)
THEOREM FramedDelivered == HttpSpec => []DeliveredAsSent
<1>1. Callbacks!DeliveredAsSent => DeliveredAsSent
  <2>1. ASSUME NEW m, NEW pairs, NEW body
        PROVE  Callbacks!SentMessage(m, pairs, body) = SentMessage(m, pairs, body)
    BY Zenon DEF SentMessage, MapOf, Names, Callbacks!SentMessage, Callbacks!MapOf, Callbacks!Names
  <2> QED
    BY <2>1, Zenon DEF DeliveredAsSent, AllButLast, Callbacks!DeliveredAsSent, Callbacks!AllButLast
<1> QED
  BY <1>1, SameMessages, CallbacksFollow, Callbacks!DeliversWhatWasSent, PTL

(***************************************************************************)
(* The headers callback is given all headers of a message, and once.       *)
(***************************************************************************)
THEOREM FramedAnnounced == HttpSpec => []AnnouncedAsSent
<1>1. Callbacks!AnnouncedAsSent => AnnouncedAsSent
  <2>1. ASSUME NEW m, NEW pairs, NEW body
        PROVE  Callbacks!SentMessage(m, pairs, body) = SentMessage(m, pairs, body)
    BY Zenon DEF SentMessage, MapOf, Names, Callbacks!SentMessage, Callbacks!MapOf, Callbacks!Names
  <2> QED
    BY <2>1, Zenon DEF AnnouncedAsSent, Callbacks!AnnouncedAsSent
<1> QED
  BY <1>1, SameMessages, CallbacksFollow, Callbacks!AnnouncesAllHeaders, PTL

(***************************************************************************)
(* Of all connections only those with a line that has no colon, the last   *)
(* of a message's headers or the last trailer of one before, make a        *)
(* callback read a buffer that is not there.                               *)
(***************************************************************************)
THEOREM FramedBuffers == HttpSpec => []BuffersThere
<1>1. Keeps /\ Callbacks!BuffersThere => BuffersThere
  <2> SUFFICES ASSUME Keeps, Callbacks!BuffersThere, Missing PROVE BuffersThere
    BY Zenon DEF BuffersThere
  <2>1. todo # <<>>
    BY DEF Missing
  <2>2. owed[1].cb = todo[1].cb /\ Promised!Missing
    BY <2>1, SameCallback DEF Keeps
  <2>3. Callbacks!Missing
    BY <2>2, Zenon DEF Promised!Missing, Promised!Unsaved, Callbacks!Missing, Callbacks!Unsaved
  <2> QED
    BY <2>2, <2>3, Zenon DEF BuffersThere, LastBare, Last, Callbacks!BuffersThere,
       Callbacks!LastBare, Callbacks!Last
<1> QED
  BY <1>1, SameMessages, CallbacksFollow, KeepsInvariant, Callbacks!BuffersAreThere, PTL

(***************************************************************************)
(* Types, and no simple_buffer is written beyond its block.                *)
(***************************************************************************)
THEOREM FramedTypes == HttpSpec => []TypeOK
<1>1. Reading /\ Callbacks!TypeOK => TypeOK
  BY DEF Reading, Delivery, CallsOK, TypeOK, BuffersOK, BufferOK, Buffers, Text, SbNames,
         Callbacks!TypeOK, Callbacks!BuffersOK, Callbacks!BufferOK, Callbacks!Buffers,
         Callbacks!Text, Callbacks!SbNames
<1> QED
  BY <1>1, SameMessages, CallbacksFollow, ReadingInvariant, Callbacks!TypeCorrect, PTL
=============================================================================
