-------------------------- MODULE BlkParserProofs --------------------------
(***************************************************************************)
(* Theorems about BlkParser.tla, for every first line, every set of verbs, *)
(* every size of an int and of a read, and whatever the client sends.      *)
(***************************************************************************)
EXTENDS BlkParser, FiniteSetTheorems, SequenceTheorems, WellFoundedInduction, TLAPS

(***************************************************************************)
(* The messages as the machine takes them: where the format asks for       *)
(* digits, std::stoi decides, and a body is not empty.  The definitions    *)
(* differ from those of BlkParser.tla for the texts of Lax and for no      *)
(* others, which is shown below (SameFormat).                              *)
(***************************************************************************)
FieldsOf(s) == [port |-> ParseInt(LineOf(s, 1)).value,
                verb |-> WordOf(s, 2),
                len  |-> ParseInt(LineOf(s, 3)).value,
                body |-> BodyOf(s)]

Taken(s) == /\ Ended(s, 3)
            /\ WordOf(s, 0) = Start /\ WordOf(s, 2) \in Verbs
            /\ ParseInt(LineOf(s, 1)).ok /\ ParseInt(LineOf(s, 3)).ok
            /\ BodyOf(s) # <<>> /\ FieldsOf(s).len = Len(BodyOf(s))

NoInt(s, n) == Ended(s, n) /\ ~ParseInt(LineOf(s, n)).ok

Refused(s) == \/ WrongWord(s, 0, {Start})
              \/ NoInt(s, 1)
              \/ Ended(s, 1) /\ WrongWord(s, 2, Verbs)
              \/ NoInt(s, 3)
              \/ Ended(s, 3) /\ FieldsOf(s).len \in 0..(Len(BodyOf(s)) - 1)

MachineAgrees == /\ parser.done <=> Taken(parser.seen)
                 /\ parser.bad <=> Refused(parser.seen)
                 /\ parser.done => Message(parser) = FieldsOf(parser.seen)

TakenUpTo(n) == \A i \in 1..n : Taken(script[i])

TurnsAsTaken ==
  \A n \in 1..Len(results) : TakenUpTo(IF n <= sent THEN n ELSE sent) =>
    IF n > sent THEN results[n].status # "OK"
    ELSE \/ results[n] = [status |-> "OK", msg |-> FieldsOf(script[n])]
         \/ results[n].status = "THROWN"

(* A set of numbers that is not empty has a least one.                     *)
LEMMA LeastOf ==
  ASSUME NEW S \in SUBSET Nat, S # {}
  PROVE  \E n \in S : \A m \in S : n <= m
<1>1. PICK n \in S : \A m \in S : ~(<<m, n>> \in OpToRel(<, Nat))
  BY NatLessThanWellFounded, WFMin
<1>2. ASSUME NEW m \in S, m < n PROVE FALSE
  <2>1. OpToRel(<, Nat) = {ss \in Nat \X Nat : ss[1] < ss[2]}
    BY DEF OpToRel
  <2>2. <<m, n>> \in {ss \in Nat \X Nat : ss[1] < ss[2]}
    BY <1>2
  <2> QED
    BY <1>1, <2>1, <2>2, Zenon
<1>3. \A m \in S : n <= m
  BY <1>2
<1> QED
  BY <1>3

-----------------------------------------------------------------------------
(* Lines.  How many newlines a text has, up to an index and in all.        *)
UpTo(s, i) == {j \in Newlines(s) : j <= i}
Upto(s, i) == Cardinality(UpTo(s, i))
Count(s)   == Cardinality(Newlines(s))

LEMMA Counts ==
  ASSUME NEW s \in Text
  PROVE  /\ Len(s) \in Nat
         /\ IsFiniteSet(Newlines(s)) /\ Count(s) \in Nat
         /\ \A i \in Int : /\ IsFiniteSet(UpTo(s, i)) /\ Upto(s, i) \in Nat
                           /\ Upto(s, i) <= Count(s)
<1>1. Len(s) \in Nat
  BY DEF Text
<1>2. IsFiniteSet(1..Len(s)) /\ Newlines(s) \in SUBSET (1..Len(s))
  BY <1>1, FS_Interval DEF Newlines
<1>3. IsFiniteSet(Newlines(s)) /\ Count(s) \in Nat
  BY <1>2, FS_Subset, FS_CardinalityType DEF Count
<1>4. ASSUME NEW i \in Int
      PROVE  IsFiniteSet(UpTo(s, i)) /\ Upto(s, i) \in Nat /\ Upto(s, i) <= Count(s)
  <2>1. UpTo(s, i) \in SUBSET Newlines(s)
    BY DEF UpTo
  <2> QED
    BY <1>3, <2>1, FS_Subset, FS_CardinalityType DEF Upto, Count
<1> QED
  BY <1>1, <1>3, <1>4

(* Counting goes up by one at a newline and stays elsewhere.               *)
LEMMA CountOne ==
  ASSUME NEW s \in Text, NEW i \in 1..Len(s)
  PROVE  Upto(s, i) = IF i \in Newlines(s) THEN Upto(s, i - 1) + 1 ELSE Upto(s, i - 1)
<1>0. i \in Int /\ i - 1 \in Int /\ Newlines(s) \subseteq Int
  BY Counts DEF Newlines
<1>1. CASE i \in Newlines(s)
  <2>1. UpTo(s, i) = UpTo(s, i - 1) \cup {i} /\ i \notin UpTo(s, i - 1)
    BY <1>0, <1>1 DEF UpTo
  <2> QED
    BY <1>0, <1>1, <2>1, Counts, FS_AddElement DEF Upto
<1>2. CASE i \notin Newlines(s)
  <2>1. UpTo(s, i) = UpTo(s, i - 1)
    BY <1>0, <1>2 DEF UpTo
  <2> QED
    BY <1>2, <2>1 DEF Upto
<1> QED
  BY <1>1, <1>2

(* Of two newlines the later has more before it.                           *)
LEMMA CountGrows ==
  ASSUME NEW s \in Text, NEW i \in Int, NEW j \in Newlines(s), i < j
  PROVE  Upto(s, i) < Upto(s, j)
<1>0. Newlines(s) \subseteq Int /\ j \in Int
  BY Counts DEF Newlines
<1>1. UpTo(s, i) \cup {j} \in SUBSET UpTo(s, j) /\ j \notin UpTo(s, i)
  BY <1>0 DEF UpTo
<1>2. Cardinality(UpTo(s, i) \cup {j}) = Upto(s, i) + 1
  BY <1>1, Counts, FS_AddElement DEF Upto
<1>3. Cardinality(UpTo(s, i) \cup {j}) <= Upto(s, j)
  BY <1>0, <1>1, Counts, FS_Subset DEF Upto
<1> QED
  BY <1>0, <1>2, <1>3, Counts

(* The n-th newline exists if there are n of them.                         *)
LEMMA NthNewline ==
  ASSUME NEW s \in Text, NEW n \in 1..Count(s)
  PROVE  \E i \in Newlines(s) : Upto(s, i) = n
<1> DEFINE S == {i \in 0..Len(s) : Upto(s, i) >= n}
<1>1. UpTo(s, Len(s)) = Newlines(s)
  BY Counts DEF UpTo, Newlines
<1>2. Len(s) \in S
  BY <1>1, Counts DEF Upto, Count
<1>3. PICK i \in S : \A m \in S : i <= m
  <2>1. S \in SUBSET Nat /\ S # {}
    BY <1>2
  <2> HIDE DEF S
  <2> QED
    BY <2>1, LeastOf
<1>4. i # 0
  <2>1. UpTo(s, 0) = {}
    BY Counts DEF UpTo, Newlines
  <2>2. Upto(s, 0) = 0
    BY <2>1, FS_EmptySet DEF Upto
  <2> QED
    BY <1>3, <2>2
<1>5. i \in 1..Len(s) /\ i - 1 \in 0..Len(s) /\ i - 1 \notin S
  <2>1. Len(s) \in Nat /\ i \in 0..Len(s)
    BY Counts
  <2>2. i - 1 \notin S
    <3> HIDE DEF S
    <3> QED
      BY <1>3, <2>1
  <2> QED
    BY <1>4, <2>1, <2>2
<1>6. Upto(s, i - 1) < n /\ Upto(s, i - 1) \in Nat /\ Upto(s, i) >= n
  BY <1>3, <1>5, Counts
<1> HIDE DEF S
<1> QED
  BY <1>5, <1>6, CountOne

(* Before(s, n) is that newline, and the only one.                         *)
LEMMA BeforeIs ==
  ASSUME NEW s \in Text, NEW n \in 1..Count(s)
  PROVE  /\ Before(s, n) \in Newlines(s) /\ Before(s, n) \in 1..Len(s)
         /\ Upto(s, Before(s, n)) = n
         /\ \A i \in Newlines(s) : Upto(s, i) = n => i = Before(s, n)
<1>1. n # 0
  BY Counts
<1>2. Before(s, n) \in Newlines(s) /\ Upto(s, Before(s, n)) = n
  BY <1>1, NthNewline DEF Before, Upto, UpTo
<1>3. ASSUME NEW i \in Newlines(s), Upto(s, i) = n PROVE i = Before(s, n)
  <2>1. i \in Int /\ Before(s, n) \in Int
    BY <1>2, Counts DEF Newlines
  <2> DEFINE j == Before(s, n)
  <2>2. /\ i \in Newlines(s) /\ i \in Int /\ Upto(s, i) = n
        /\ j \in Newlines(s) /\ j \in Int /\ Upto(s, j) = n
    BY ONLY <1>2, <1>3, <2>1
  <2> HIDE DEF j
  <2>3. ~(n < n)
    BY Counts
  <2>4. ~(i < j)
    BY ONLY s \in Text, <2>2, <2>3, CountGrows
  <2>5. ~(j < i)
    BY ONLY s \in Text, <2>2, <2>3, CountGrows
  <2> QED
    BY ONLY <2>2, <2>4, <2>5 DEF j
<1> QED
  BY <1>2, <1>3 DEF Newlines

(* A line that ended begins behind the newline before and ends before its  *)
(* own.                                                                    *)
LEMMA Bounds ==
  ASSUME NEW s \in Text, NEW n \in 0..Count(s)
  PROVE  /\ Before(s, n) \in 0..Len(s) /\ Before(s, n) \in Nat
         /\ Ended(s, n) => Before(s, n + 1) \in 1..Len(s) /\ Before(s, n) < Before(s, n + 1)
<1>0. Len(s) \in Nat /\ Count(s) \in Nat
  BY Counts
<1>1. Before(s, n) \in 0..Len(s)
  <2>1. CASE n = 0
    BY <1>0, <2>1 DEF Before
  <2>2. CASE n # 0
    <3>1. n \in 1..Count(s)
      BY <1>0, <2>2
    <3>2. Before(s, n) \in 1..Len(s)
      BY <3>1, BeforeIs
    <3> QED
      BY <1>0, <3>2
  <2> QED
    BY <2>1, <2>2
<1>2. ASSUME Ended(s, n)
      PROVE  Before(s, n + 1) \in 1..Len(s) /\ Before(s, n) < Before(s, n + 1)
  <2>1. n + 1 \in 1..Count(s) /\ n \in Nat
    BY <1>2, Counts DEF Ended, Count
  <2>2. Before(s, n + 1) \in 1..Len(s) /\ Upto(s, Before(s, n + 1)) = n + 1
    BY <2>1, BeforeIs
  <2>3. CASE n = 0
    BY <2>2, <2>3 DEF Before
  <2>4. CASE n # 0
    <3>1. n \in 1..Count(s)
      BY <2>1, <2>4
    <3>2. Before(s, n) \in Newlines(s) /\ Before(s, n) \in Int /\ Upto(s, Before(s, n)) = n
      BY <3>1, BeforeIs
    <3>3. Before(s, n) # Before(s, n + 1)
      BY <2>1, <2>2, <3>2
    <3>4. ~(Before(s, n + 1) < Before(s, n))
      BY <2>1, <2>2, <3>2, CountGrows
    <3> QED
      BY <2>2, <3>2, <3>3, <3>4
  <2> QED
    BY <2>2, <2>3, <2>4
<1> QED
  BY <1>0, <1>1, <1>2

-----------------------------------------------------------------------------
(* A text and one that begins with it.                                     *)
Begins(s, t) == Len(s) <= Len(t) /\ \A i \in 1..Len(s) : t[i] = s[i]

(* A part of a text.                                                       *)
LEMMA PartOf ==
  ASSUME NEW s \in Text, NEW b \in Nat, NEW e \in Nat, b <= e, e <= Len(s)
  PROVE  /\ SubSeq(s, b + 1, e) \in Text
         /\ Len(SubSeq(s, b + 1, e)) = e - b
         /\ \A i \in 1..(e - b) : SubSeq(s, b + 1, e)[i] = s[b + i] /\ b + i \in 1..Len(s)
<1>0. Len(s) \in Nat
  BY Counts
<1>1. \A i \in (b + 1)..e : s[i] \in Char
  <2>1. \A i \in 1..Len(s) : s[i] \in Char
    BY DEF Text
  <2>2. \A i \in (b + 1)..e : i \in 1..Len(s)
    BY <1>0
  <2> QED
    BY <2>1, <2>2
<1>2. /\ SubSeq(s, b + 1, e) \in Seq(Char)
      /\ Len(SubSeq(s, b + 1, e)) = IF b + 1 <= e THEN e - (b + 1) + 1 ELSE 0
      /\ \A i \in 1..(e - (b + 1) + 1) : SubSeq(s, b + 1, e)[i] = s[(b + 1) + i - 1]
  <2>1. b + 1 \in Int /\ e \in Int
    OBVIOUS
  <2> QED
    BY <1>1, <2>1, SubSeqProperties
<1>3. \A i \in 1..(e - b) : b + i \in 1..Len(s) /\ (b + 1) + i - 1 = b + i
  BY <1>0
<1>4. e - (b + 1) + 1 = e - b /\ (~(b + 1 <= e) => e - b = 0)
  OBVIOUS
<1> QED
  BY <1>2, <1>3, <1>4 DEF Text

(* Two texts with the same characters are one.                             *)
LEMMA TextEqual ==
  ASSUME NEW s \in Text, NEW t \in Text, Len(s) = Len(t), \A i \in 1..Len(s) : s[i] = t[i]
  PROVE  s = t
BY SeqEqual DEF Text

(* The same part of both.                                                  *)
LEMMA SamePart ==
  ASSUME NEW s \in Text, NEW t \in Text, Begins(s, t),
         NEW b \in Nat, NEW e \in Nat, b <= e, e <= Len(s)
  PROVE  SubSeq(s, b + 1, e) = SubSeq(t, b + 1, e)
<1>0. Len(s) \in Nat /\ Len(t) \in Nat /\ Len(s) <= Len(t) /\ e <= Len(t)
  BY Counts DEF Begins
<1> DEFINE u == SubSeq(s, b + 1, e)
           v == SubSeq(t, b + 1, e)
<1>1. /\ u \in Text /\ Len(u) = e - b
      /\ \A i \in 1..(e - b) : u[i] = s[b + i] /\ b + i \in 1..Len(s)
  BY PartOf
<1>2. /\ v \in Text /\ Len(v) = e - b
      /\ \A i \in 1..(e - b) : v[i] = t[b + i]
  BY <1>0, PartOf
<1> HIDE DEF u, v
<1>3. \A i \in 1..Len(u) : u[i] = v[i]
  BY <1>1, <1>2 DEF Begins
<1>4. u = v
  BY <1>1, <1>2, <1>3, TextEqual
<1> QED
  BY <1>4 DEF u, v

(* The newlines a text has are where they are in any longer one, and the   *)
(* next one comes behind it.                                               *)
LEMMA SameNewlines ==
  ASSUME NEW s \in Text, NEW t \in Text, Begins(s, t)
  PROVE  /\ Count(s) <= Count(t)
         /\ \A n \in 0..Count(s) : Before(t, n) = Before(s, n)
         /\ \A n \in (Count(s) + 1)..Count(t) : Before(t, n) > Len(s)
<1>0. Len(s) \in Nat /\ Len(t) \in Nat /\ Len(s) <= Len(t) /\ Count(s) \in Nat /\ Count(t) \in Nat
  BY Counts DEF Begins
<1>1. Newlines(s) = {i \in Newlines(t) : i <= Len(s)}
  BY <1>0 DEF Newlines, Begins
<1>2. \A i \in 1..Len(s) : UpTo(t, i) = UpTo(s, i)
  BY <1>0, <1>1 DEF UpTo, Newlines
<1>3. Count(s) <= Count(t)
  <2>1. Newlines(s) \in SUBSET Newlines(t)
    BY <1>1
  <2> QED
    BY <2>1, Counts, FS_Subset DEF Count
<1>4. ASSUME NEW n \in 0..Count(s) PROVE Before(t, n) = Before(s, n)
  <2>1. CASE n = 0
    BY <2>1 DEF Before
  <2>2. CASE n # 0
    <3>1. n \in 1..Count(s) /\ n \in 1..Count(t)
      BY <1>0, <1>3, <2>2
    <3>2. Before(s, n) \in Newlines(s) /\ Before(s, n) \in 1..Len(s) /\ Upto(s, Before(s, n)) = n
      BY <3>1, BeforeIs
    <3>3. Before(s, n) \in Newlines(t) /\ Upto(t, Before(s, n)) = n
      BY <1>1, <1>2, <3>2 DEF Upto
    <3> QED
      BY <3>1, <3>3, BeforeIs
  <2> QED
    BY <2>1, <2>2
<1>5. ASSUME NEW n \in (Count(s) + 1)..Count(t), Before(t, n) <= Len(s) PROVE FALSE
  <2>1. n \in 1..Count(t)
    BY <1>0
  <2>2. Before(t, n) \in Newlines(t) /\ Before(t, n) \in 1..Len(t) /\ Upto(t, Before(t, n)) = n
    BY <2>1, BeforeIs
  <2>3. Before(t, n) \in 1..Len(s)
    BY <1>0, <1>5, <2>2
  <2>4. Upto(s, Before(t, n)) = n
    BY <1>2, <2>2, <2>3 DEF Upto
  <2>5. Upto(s, Before(t, n)) <= Count(s)
    BY <2>3, Counts
  <2> QED
    BY <1>0, <2>4, <2>5
<1>6. \A n \in (Count(s) + 1)..Count(t) : Before(t, n) \in Int
  BY <1>0, BeforeIs
<1> QED
  BY <1>0, <1>3, <1>4, <1>5, <1>6

(* A line that ended stays as it is.                                       *)
LEMMA SameLine ==
  ASSUME NEW s \in Text, NEW t \in Text, Begins(s, t), NEW n \in Nat, Ended(s, n)
  PROVE  Ended(t, n) /\ LineOf(t, n) = LineOf(s, n) /\ WordOf(t, n) = WordOf(s, n)
<1>1. Count(s) \in Nat /\ Count(t) \in Nat /\ n < Count(s) /\ Count(s) <= Count(t)
  BY Counts, SameNewlines DEF Ended, Count
<1>2. Ended(t, n)
  BY <1>1 DEF Ended, Count
<1>3. n \in 0..Count(s) /\ n + 1 \in 0..Count(s)
  BY <1>1
<1>4. Before(t, n) = Before(s, n) /\ Before(t, n + 1) = Before(s, n + 1)
  BY <1>3, SameNewlines
<1>5. Before(s, n) \in Nat /\ Before(s, n + 1) \in 1..Len(s) /\ Len(s) \in Nat
  BY <1>3, Bounds, Counts
<1>6. SubSeq(s, Before(s, n) + 1, Before(s, n + 1) - 1)
        = SubSeq(t, Before(s, n) + 1, Before(s, n + 1) - 1)
  <2>1. Before(s, n) < Before(s, n + 1)
    BY <1>3, Bounds
  <2>2. Before(s, n + 1) - 1 \in Nat /\ Before(s, n) <= Before(s, n + 1) - 1
        /\ Before(s, n + 1) - 1 <= Len(s)
    BY <1>5, <2>1
  <2> DEFINE from == Before(s, n)
             last == Before(s, n + 1) - 1
  <2>3. from \in Nat /\ last \in Nat /\ from <= last /\ last <= Len(s)
    BY ONLY <1>5, <2>2
  <2> HIDE DEF from, last
  <2>4. SubSeq(s, from + 1, last) = SubSeq(t, from + 1, last)
    BY <2>3, SamePart
  <2> QED
    BY ONLY <2>4 DEF from, last
<1>7. LineOf(t, n) = LineOf(s, n)
  BY <1>2, <1>4, <1>6 DEF LineOf
<1> QED
  BY <1>2, <1>7 DEF WordOf

(* Lines and words are texts.                                              *)
LEMMA LineText ==
  ASSUME NEW s \in Text, NEW n \in 0..Count(s)
  PROVE  /\ LineOf(s, n) \in Text /\ WordOf(s, n) \in Text
         /\ Len(WordOf(s, n)) = Len(LineOf(s, n))
         /\ \A i \in 1..Len(LineOf(s, n)) : WordOf(s, n)[i] = Upper(LineOf(s, n)[i])
<1>0. Len(s) \in Nat /\ Before(s, n) \in 0..Len(s)
  BY Counts, Bounds
<1>1. LineOf(s, n) \in Text
  <2>1. CASE Ended(s, n)
    <3>1. Before(s, n + 1) \in 1..Len(s) /\ Before(s, n) < Before(s, n + 1)
      BY <2>1, Bounds
    <3>2. /\ Before(s, n + 1) - 1 \in Nat /\ Before(s, n) <= Before(s, n + 1) - 1
          /\ Before(s, n + 1) - 1 <= Len(s) /\ Before(s, n) \in Nat
      BY <1>0, <3>1
    <3> QED
      BY <2>1, <3>2, PartOf DEF LineOf
  <2>2. CASE ~Ended(s, n)
    BY <1>0, <2>2, PartOf DEF LineOf
  <2> QED
    BY <2>1, <2>2
<1> DEFINE l == LineOf(s, n)
           w == [i \in DOMAIN l |-> Upper(l[i])]
<1>2. WordOf(s, n) = w
  BY DEF WordOf
<1>3. l \in Seq(Char)
  BY <1>1 DEF Text
<1> HIDE DEF l
<1>4. DOMAIN l = 1..Len(l) /\ Len(l) \in Nat /\ \A i \in 1..Len(l) : l[i] \in Char
  BY <1>3
<1>5. \A ch \in Char : Upper(ch) \in Char
  BY DEF Char, Upper
<1>6. w \in Seq(Char) /\ Len(w) = Len(l) /\ \A i \in 1..Len(l) : w[i] = Upper(l[i])
  BY <1>4, <1>5
<1> HIDE DEF w
<1> QED
  BY <1>1, <1>2, <1>6 DEF l, Text

(* The last line of a text begins the line it is part of in a longer one.  *)
LEMMA OpenLine ==
  ASSUME NEW s \in Text, NEW t \in Text, Begins(s, t), NEW n \in Nat, n = Count(s), Ended(t, n)
  PROVE  Begins(LineOf(s, n), LineOf(t, n)) /\ Begins(WordOf(s, n), WordOf(t, n))
<1>1. /\ Count(s) \in Nat /\ Count(t) \in Nat /\ Len(s) \in Nat /\ Len(t) \in Nat
      /\ ~Ended(s, n) /\ n < Count(t) /\ n = Count(s)
  BY Counts DEF Ended, Count
<1>2. n \in 0..Count(s) /\ n \in 0..Count(t) /\ n + 1 \in (Count(s) + 1)..Count(t)
  BY <1>1
<1> DEFINE b == Before(s, n)
           e == Before(t, n + 1)
<1>3. b \in 0..Len(s) /\ Before(t, n) = b /\ e \in 1..Len(t) /\ e > Len(s)
  BY <1>2, SameNewlines, Bounds
<1>4. LineOf(s, n) = SubSeq(s, b + 1, Len(s)) /\ LineOf(t, n) = SubSeq(t, b + 1, e - 1)
  BY <1>1, <1>3 DEF LineOf
<1> HIDE DEF b, e
<1>5. /\ b \in Nat /\ e - 1 \in Nat /\ b <= Len(s) /\ b <= e - 1
      /\ e - 1 <= Len(t) /\ Len(s) - b <= e - 1 - b
  BY <1>1, <1>3
<1>6. /\ Len(LineOf(s, n)) = Len(s) - b
      /\ \A i \in 1..(Len(s) - b) : LineOf(s, n)[i] = s[b + i] /\ b + i \in 1..Len(s)
  <2>1. Len(s) \in Nat /\ b \in Nat /\ b <= Len(s)
    BY ONLY <1>1, <1>5
  <2> DEFINE part == SubSeq(s, b + 1, Len(s))
  <2>2. /\ Len(part) = Len(s) - b
        /\ \A i \in 1..(Len(s) - b) : part[i] = s[b + i] /\ b + i \in 1..Len(s)
    BY ONLY s \in Text, <2>1, PartOf
  <2> QED
    BY ONLY <1>4, <2>2
<1>7. /\ Len(LineOf(t, n)) = e - 1 - b
      /\ \A i \in 1..(e - 1 - b) : LineOf(t, n)[i] = t[b + i]
  <2> DEFINE last == e - 1
             part == SubSeq(t, b + 1, last)
  <2>1. last \in Nat /\ b \in Nat /\ b <= last /\ last <= Len(t)
    BY ONLY <1>5
  <2>2. LineOf(t, n) = part
    BY ONLY <1>4
  <2> HIDE DEF last
  <2>3. /\ Len(part) = last - b
        /\ \A i \in 1..(last - b) : part[i] = t[b + i]
    BY ONLY t \in Text, <2>1, PartOf
  <2> QED
    BY ONLY <2>2, <2>3 DEF last
<1>8. Len(s) - b \in Nat /\ \A i \in 1..(Len(s) - b) : i \in 1..(e - 1 - b)
  BY <1>1, <1>5
<1>9. Begins(LineOf(s, n), LineOf(t, n))
  BY <1>5, <1>6, <1>7, <1>8 DEF Begins
<1>10. Begins(WordOf(s, n), WordOf(t, n))
  <2>1. /\ Len(WordOf(s, n)) = Len(LineOf(s, n))
        /\ \A i \in 1..Len(LineOf(s, n)) : WordOf(s, n)[i] = Upper(LineOf(s, n)[i])
    BY <1>2, LineText
  <2>2. /\ Len(WordOf(t, n)) = Len(LineOf(t, n))
        /\ \A i \in 1..Len(LineOf(t, n)) : WordOf(t, n)[i] = Upper(LineOf(t, n)[i])
    BY <1>2, LineText
  <2> QED
    BY <1>6, <1>7, <1>8, <1>9, <2>1, <2>2 DEF Begins
<1> QED
  BY <1>9, <1>10

-----------------------------------------------------------------------------
(* One more character.                                                     *)
LEMMA OneMore ==
  ASSUME NEW s \in Text, NEW ch \in Char
  PROVE  /\ Append(s, ch) \in Text /\ Len(Append(s, ch)) = Len(s) + 1
         /\ Append(s, ch)[Len(s) + 1] = ch /\ Append(s, ch) # <<>>
         /\ Begins(s, Append(s, ch))
         /\ Newlines(Append(s, ch)) = IF ch = NL THEN Newlines(s) \cup {Len(s) + 1} ELSE Newlines(s)
         /\ Count(Append(s, ch)) = IF ch = NL THEN Count(s) + 1 ELSE Count(s)
<1> DEFINE t == Append(s, ch)
<1>1. /\ t \in Text /\ t # <<>> /\ Len(t) = Len(s) + 1 /\ t[Len(s) + 1] = ch
      /\ \A i \in 1..Len(s) : t[i] = s[i]
  BY AppendProperties DEF Text
<1>2. Len(s) \in Nat /\ Count(s) \in Nat /\ IsFiniteSet(Newlines(s))
  BY Counts
<1> HIDE DEF t
<1>3. Newlines(t) = IF ch = NL THEN Newlines(s) \cup {Len(s) + 1} ELSE Newlines(s)
  <2>1. 1..Len(t) = (1..Len(s)) \cup {Len(s) + 1}
    BY <1>1, <1>2
  <2> QED
    BY <1>1, <2>1 DEF Newlines
<1>4. Len(s) + 1 \notin Newlines(s)
  BY <1>2 DEF Newlines
<1>5. Count(t) = IF ch = NL THEN Count(s) + 1 ELSE Count(s)
  BY <1>2, <1>3, <1>4, FS_AddElement DEF Count
<1>6. Begins(s, t)
  BY <1>1, <1>2 DEF Begins
<1> QED
  BY <1>1, <1>3, <1>5, <1>6 DEF t

(* What is behind an index grows by the character.                         *)
LEMMA RestGrows ==
  ASSUME NEW s \in Text, NEW ch \in Char, NEW b \in Nat, b <= Len(s)
  PROVE  SubSeq(Append(s, ch), b + 1, Len(s) + 1) = Append(SubSeq(s, b + 1, Len(s)), ch)
<1> DEFINE t == Append(s, ch)
           u == SubSeq(s, b + 1, Len(s))
           v == SubSeq(t, b + 1, Len(s) + 1)
           w == Append(u, ch)
<1>0. /\ Len(s) \in Nat /\ t \in Text /\ Len(t) = Len(s) + 1 /\ t[Len(s) + 1] = ch
      /\ \A i \in 1..Len(s) : t[i] = s[i]
  BY Counts, OneMore DEF Begins
<1>1. /\ u \in Text /\ Len(u) = Len(s) - b
      /\ \A i \in 1..(Len(s) - b) : u[i] = s[b + i] /\ b + i \in 1..Len(s)
  BY <1>0, PartOf
<1> HIDE DEF t
<1>2. /\ v \in Text /\ Len(v) = Len(s) + 1 - b
      /\ \A i \in 1..(Len(s) + 1 - b) : v[i] = t[b + i]
  <2>1. Len(s) + 1 \in Nat /\ b <= Len(s) + 1 /\ Len(s) + 1 <= Len(t)
    BY <1>0
  <2> QED
    BY <1>0, <2>1, PartOf
<1> HIDE DEF u, v
<1>3. /\ w \in Text /\ Len(w) = Len(u) + 1 /\ w[Len(u) + 1] = ch
      /\ \A i \in 1..Len(u) : w[i] = u[i]
  BY <1>1, OneMore DEF Begins
<1> HIDE DEF w
<1>4. ASSUME NEW i \in 1..Len(v) PROVE v[i] = w[i]
  <2>1. CASE i <= Len(s) - b
    <3>1. i \in 1..(Len(s) - b) /\ i \in 1..(Len(s) + 1 - b)
      BY <1>0, <1>2, <2>1
    <3> QED
      BY <1>0, <1>1, <1>2, <1>3, <3>1
  <2>2. CASE ~(i <= Len(s) - b)
    <3>1. i = Len(s) - b + 1 /\ b + i = Len(s) + 1 /\ i \in 1..(Len(s) + 1 - b)
      BY <1>0, <1>2, <2>2
    <3> QED
      BY <1>0, <1>1, <1>2, <1>3, <3>1
  <2> QED
    BY <2>1, <2>2
<1>5. Len(v) = Len(w)
  BY <1>0, <1>1, <1>2, <1>3
<1>6. v = w
  BY <1>2, <1>3, <1>4, <1>5, TextEqual
<1> QED
  BY <1>6 DEF t, u, v, w

(* A character goes to the last line.                                      *)
LEMMA LineGrows ==
  ASSUME NEW s \in Text, NEW ch \in Char, ch # NL
  PROVE  /\ LineOf(Append(s, ch), Count(s)) = Append(LineOf(s, Count(s)), ch)
         /\ WordOf(Append(s, ch), Count(s)) = Append(WordOf(s, Count(s)), Upper(ch))
<1> DEFINE t == Append(s, ch)
           n == Count(s)
<1>1. /\ t \in Text /\ Len(t) = Len(s) + 1 /\ Begins(s, t) /\ Count(t) = n
      /\ n \in 0..n /\ Len(s) \in Nat /\ ~Ended(s, n) /\ ~Ended(t, n)
  <2>1. n \in Nat /\ Len(s) \in Nat
    BY Counts
  <2>2. t \in Text /\ Len(t) = Len(s) + 1 /\ Begins(s, t) /\ Count(t) = n
    BY OneMore
  <2> QED
    BY <2>1, <2>2 DEF Ended, Count
<1>2. Before(t, n) = Before(s, n) /\ Before(s, n) \in 0..Len(s)
  BY <1>1, SameNewlines, Bounds
<1>3. LineOf(t, n) = Append(LineOf(s, n), ch)
  <2>1. Before(s, n) \in Nat /\ Before(s, n) <= Len(s)
    BY <1>1, <1>2
  <2> HIDE DEF n
  <2> QED
    BY <1>1, <1>2, <2>1, RestGrows DEF LineOf
<1>4. LineOf(s, n) \in Text /\ Len(LineOf(s, n)) \in Nat
  BY <1>1, LineText, Counts
<1> DEFINE l == LineOf(s, n)
           w == Append(WordOf(s, n), Upper(ch))
<1> HIDE DEF t, n
<1>5. /\ Len(LineOf(t, n)) = Len(l) + 1 /\ LineOf(t, n)[Len(l) + 1] = ch
      /\ \A i \in 1..Len(l) : LineOf(t, n)[i] = l[i]
  BY <1>3, <1>4, OneMore DEF Begins
<1>6. /\ WordOf(s, n) \in Text /\ Len(WordOf(s, n)) = Len(l)
      /\ \A i \in 1..Len(l) : WordOf(s, n)[i] = Upper(l[i])
  BY <1>1, LineText DEF n, l
<1>7. /\ WordOf(t, n) \in Text /\ Len(WordOf(t, n)) = Len(l) + 1
      /\ \A i \in 1..(Len(l) + 1) : WordOf(t, n)[i] = Upper(LineOf(t, n)[i])
  BY <1>1, <1>5, LineText
<1>8. /\ w \in Text /\ Len(w) = Len(l) + 1 /\ w[Len(l) + 1] = Upper(ch)
      /\ \A i \in 1..Len(l) : w[i] = WordOf(s, n)[i]
  <2>1. Upper(ch) \in Char
    BY DEF Upper, Char
  <2> HIDE DEF l
  <2>2. /\ w \in Text /\ Len(w) = Len(WordOf(s, n)) + 1
        /\ w[Len(WordOf(s, n)) + 1] = Upper(ch) /\ Begins(WordOf(s, n), w)
    BY <1>6, <2>1, OneMore
  <2> HIDE DEF w
  <2> QED
    BY <1>6, <2>2 DEF Begins
<1> HIDE DEF w, l
<1>9. ASSUME NEW i \in 1..(Len(l) + 1) PROVE WordOf(t, n)[i] = w[i]
  <2>1. CASE i \in 1..Len(l)
    BY <1>5, <1>6, <1>7, <1>8, <2>1
  <2>2. CASE i \notin 1..Len(l)
    <3>1. i = Len(l) + 1
      BY <1>4, <2>2 DEF l
    <3> QED
      BY <1>5, <1>7, <1>8, <3>1
  <2> QED
    BY <2>1, <2>2
<1>10. WordOf(t, n) = w
  BY <1>7, <1>8, <1>9, TextEqual
<1> QED
  BY <1>3, <1>10 DEF t, n, w

(* A newline ends the last line as it is and begins an empty one.          *)
LEMMA LineEnds ==
  ASSUME NEW s \in Text
  PROVE  LET t == Append(s, NL)
             n == Count(s)
         IN  /\ Ended(t, n) /\ ~Ended(t, n + 1)
             /\ LineOf(t, n) = LineOf(s, n) /\ WordOf(t, n) = WordOf(s, n)
             /\ Before(t, n + 1) = Len(t)
             /\ LineOf(t, n + 1) = <<>> /\ WordOf(t, n + 1) = <<>>
<1> DEFINE t == Append(s, NL)
           n == Count(s)
<1>0. NL \in Char
  BY DEF NL, Char
<1>1. t \in Text /\ Len(t) = Len(s) + 1 /\ Begins(s, t) /\ Count(t) = n + 1
  BY <1>0, OneMore
<1>2. n \in Nat /\ Len(s) \in Nat
  BY Counts
<1> HIDE DEF t
<1>3. /\ Ended(t, n) /\ ~Ended(t, n + 1) /\ ~Ended(s, n)
      /\ n \in 0..n /\ n + 1 \in (n + 1)..Count(t) /\ n + 1 \in 1..Count(t)
  BY <1>1, <1>2 DEF Ended, Count
<1>4. Before(t, n) = Before(s, n) /\ Before(s, n) \in 0..Len(s)
  BY <1>1, <1>3, SameNewlines, Bounds
<1>5. Before(t, n + 1) = Len(t)
  <2>1. Before(t, n + 1) \in 1..Len(t)
    BY <1>1, <1>3, BeforeIs
  <2>2. Before(t, n + 1) > Len(s)
    BY <1>1, <1>3, SameNewlines
  <2> QED
    BY <1>1, <1>2, <2>1, <2>2
<1>6. LineOf(t, n) = LineOf(s, n)
  <2>1. SubSeq(t, Before(s, n) + 1, Len(s)) = SubSeq(s, Before(s, n) + 1, Len(s))
    <3>1. Before(s, n) \in Nat /\ Before(s, n) <= Len(s) /\ Len(s) <= Len(s)
      BY <1>2, <1>4
    <3> QED
      BY <1>1, <1>2, <3>1, SamePart
  <2>2. Before(t, n + 1) - 1 = Len(s)
    BY <1>1, <1>2, <1>5
  <2> QED
    BY <1>3, <1>4, <2>1, <2>2 DEF LineOf
<1>7. LineOf(t, n + 1) = <<>>
  <2>1. Len(t) + 1 \in Int /\ Len(t) \in Int /\ Len(t) < Len(t) + 1
    BY <1>1, <1>2
  <2>2. SubSeq(t, Len(t) + 1, Len(t)) = <<>>
    BY <2>1, SubSeqEmpty
  <2> QED
    BY <1>3, <1>5, <2>2 DEF LineOf
<1>8. WordOf(t, n + 1) = <<>>
  BY <1>7 DEF WordOf
<1>9. WordOf(t, n) = WordOf(s, n)
  BY <1>6 DEF WordOf
<1> QED
  BY <1>3, <1>5, <1>6, <1>7, <1>8, <1>9 DEF t

(* Behind the fourth newline is the body.                                  *)
LEMMA BodyGrows ==
  ASSUME NEW s \in Text, NEW ch \in Char, Count(s) >= 4
  PROVE  BodyOf(s) \in Text /\ BodyOf(Append(s, ch)) = Append(BodyOf(s), ch)
<1>1. Count(s) \in Nat /\ 4 \in 0..Count(s) /\ Len(s) \in Nat
  BY Counts
<1>2. /\ Append(s, ch) \in Text /\ Begins(s, Append(s, ch))
      /\ Len(Append(s, ch)) = Len(s) + 1
  BY OneMore
<1>3. Before(Append(s, ch), 4) = Before(s, 4) /\ Before(s, 4) \in 0..Len(s)
  BY <1>1, <1>2, SameNewlines, Bounds
<1>4. Before(s, 4) \in Nat /\ Before(s, 4) <= Len(s)
  BY <1>1, <1>3
<1>5. BodyOf(s) \in Text
  BY <1>1, <1>4, PartOf DEF BodyOf
<1> QED
  BY <1>2, <1>3, <1>4, <1>5, RestGrows DEF BodyOf

LEMMA BodyBegins ==
  ASSUME NEW s \in Text, Count(s) = 3
  PROVE  BodyOf(Append(s, NL)) = <<>>
<1>1. Before(Append(s, NL), 4) = Len(Append(s, NL))
  BY LineEnds
<1>2. Len(Append(s, NL)) \in Int
  BY OneMore, Counts DEF NL, Char
<1> QED
  BY <1>1, <1>2, SubSeqEmpty DEF BodyOf

-----------------------------------------------------------------------------
(* The parser.  What it knows of the text it has seen, in the middle of a  *)
(* message: the line it is in, the fields of the lines before it, and of   *)
(* that line what came so far.                                             *)
Parsers == [line : 0..4, cur : Text, port : Int32, verb : Text, len : Int32,
            body : Text, seen : Text, done : BOOLEAN, bad : BOOLEAN]

Fields(p) ==
  /\ p.line = IF Count(p.seen) < 4 THEN Count(p.seen) ELSE 4
  /\ p.line > 0 => WordOf(p.seen, 0) = Start
  /\ p.line > 1 => LET port == ParseInt(LineOf(p.seen, 1)) IN port.ok /\ p.port = port.value
  /\ p.line > 2 => WordOf(p.seen, 2) \in Verbs /\ p.verb = WordOf(p.seen, 2)
  /\ p.line > 3 => LET len == ParseInt(LineOf(p.seen, 3)) IN len.ok /\ p.len = len.value

Current(p) ==
  /\ p.line = 0 => p.cur = WordOf(p.seen, 0) /\ IsPrefix(p.cur, Start)
  /\ p.line = 1 => p.cur = LineOf(p.seen, 1)
  /\ p.line = 2 => p.cur = WordOf(p.seen, 2) /\ \E w \in Verbs : IsPrefix(p.cur, w)
  /\ p.line = 3 => p.cur = LineOf(p.seen, 3)
  /\ p.line < 4 => p.body = <<>>
  /\ p.line = 4 => /\ p.body = BodyOf(p.seen)
                   /\ p.len \notin 0..(Len(p.body) - 1)
                   /\ p.body = <<>> \/ p.len # Len(p.body)

Reading(p) == p \in Parsers /\ ~p.done /\ ~p.bad /\ Fields(p) /\ Current(p)

Agrees(p) == /\ p.done <=> Taken(p.seen)
             /\ p.bad <=> Refused(p.seen)
             /\ p.done => Message(p) = FieldsOf(p.seen)

Parsed(p, ch) == LET q == ParseChar(p, ch)
                 IN  /\ q \in Parsers /\ q.seen = Append(p.seen, ch)
                     /\ Agrees(q) /\ ~(q.done /\ q.bad)
                     /\ ~q.done /\ ~q.bad => Reading(q)

(* A parser in the middle of a message has seen neither a whole one nor a  *)
(* wrong one.                                                              *)
LEMMA ReadingAgrees == ASSUME NEW p, Reading(p) PROVE Agrees(p)
<1>1. Count(p.seen) \in Nat
  BY Counts DEF Reading, Parsers
<1>2. ~Taken(p.seen)
  BY <1>1 DEF Reading, Fields, Current, Taken, Ended, Count, FieldsOf
<1>3. ~Refused(p.seen)
  <2>1. ~WrongWord(p.seen, 0, {Start})
    BY <1>1 DEF Reading, Fields, Current, WrongWord, Ended, Count
  <2>2. ~NoInt(p.seen, 1) /\ ~NoInt(p.seen, 3)
    BY <1>1 DEF Reading, Fields, NoInt, Ended, Count
  <2>3. Ended(p.seen, 1) => ~WrongWord(p.seen, 2, Verbs)
    BY <1>1 DEF Reading, Fields, Current, WrongWord, Ended, Count
  <2>4. Ended(p.seen, 3) => FieldsOf(p.seen).len \notin 0..(Len(BodyOf(p.seen)) - 1)
    BY <1>1 DEF Reading, Fields, Current, Ended, Count, FieldsOf
  <2> QED
    BY <2>1, <2>2, <2>3, <2>4 DEF Refused
<1> QED
  BY <1>2, <1>3 DEF Agrees, Reading

(* The empty text begins any word, and is where a parser begins.           *)
LEMMA EmptyBegins ==
  /\ <<>> \in Text
  /\ \A w \in Text : IsPrefix(<<>>, w)
<1>1. ASSUME NEW w \in Text PROVE IsPrefix(<<>>, w)
  <2>1. Len(w) \in Nat /\ Len(<<>>) = 0
    BY Counts
  <2>2. SubSeq(<<>>, 1, 0) = <<>> /\ SubSeq(w, 1, 0) = <<>>
    BY SubSeqEmpty
  <2> QED
    BY <2>1, <2>2 DEF IsPrefix
<1> QED
  BY <1>1 DEF Text

LEMMA NewReads == ASSUME ParserAssumption PROVE Reading(NewParser)
<1>1. <<>> \in Text /\ Count(<<>>) = 0
  <2>1. Newlines(<<>>) = {}
    BY DEF Newlines
  <2> QED
    BY <2>1, EmptyBegins, FS_EmptySet DEF Count
<1>2. WordOf(<<>>, 0) = <<>>
  <2>1. LineOf(<<>>, 0) = SubSeq(<<>>, 1, 0)
    BY <1>1 DEF LineOf, Ended, Count, Before
  <2>2. LineOf(<<>>, 0) = <<>>
    BY <2>1, SubSeqEmpty
  <2> QED
    BY <2>2 DEF WordOf
<1>3. NewParser \in Parsers
  BY <1>1 DEF NewParser, Parsers, Int32, ParserAssumption
<1>4. IsPrefix(<<>>, Start)
  BY EmptyBegins DEF ParserAssumption
<1> QED
  BY <1>1, <1>2, <1>3, <1>4 DEF Reading, Fields, Current, NewParser

(* The two ways to go on within the first four lines.                      *)
LEMMA NextLineIs ==
  ASSUME NEW p \in Parsers, p.line < 4, NEW ok \in BOOLEAN
  PROVE  /\ NextLine(p, ok) \in Parsers
         /\ NextLine(p, ok).line = p.line + 1 /\ NextLine(p, ok).cur = <<>>
         /\ NextLine(p, ok).bad = ~ok
         /\ NextLine(p, ok).port = p.port /\ NextLine(p, ok).verb = p.verb
         /\ NextLine(p, ok).len = p.len /\ NextLine(p, ok).body = p.body
         /\ NextLine(p, ok).seen = p.seen /\ NextLine(p, ok).done = p.done
<1>1. p.line + 1 \in 0..4 /\ <<>> \in Text
  BY EmptyBegins DEF Parsers
<1>2. (~ok) \in BOOLEAN
  OBVIOUS
<1> QED
  BY <1>1, <1>2 DEF NextLine, Parsers

LEMMA GrowIs ==
  ASSUME NEW p \in Parsers, NEW ch \in Char, NEW ok \in BOOLEAN
  PROVE  /\ Grow(p, ch, ok) \in Parsers
         /\ Grow(p, ch, ok).line = p.line /\ Grow(p, ch, ok).cur = Append(p.cur, ch)
         /\ Grow(p, ch, ok).bad = ~ok
         /\ Grow(p, ch, ok).port = p.port /\ Grow(p, ch, ok).verb = p.verb
         /\ Grow(p, ch, ok).len = p.len /\ Grow(p, ch, ok).body = p.body
         /\ Grow(p, ch, ok).seen = p.seen /\ Grow(p, ch, ok).done = p.done
<1>1. Append(p.cur, ch) \in Text
  BY OneMore DEF Parsers
<1>2. (~ok) \in BOOLEAN
  OBVIOUS
<1> QED
  BY <1>1, <1>2 DEF Grow, Parsers

(* A number that was accepted fits an int.                                 *)
LEMMA IntFits ==
  ASSUME NEW l
  PROVE  ParseInt(l).ok \in BOOLEAN /\ (ParseInt(l).ok => ParseInt(l).value \in Int32)
BY DEF ParseInt

(* The lines before the last one stay.                                     *)
LEMMA LinesStay ==
  ASSUME NEW s \in Text, NEW ch \in Char, NEW n \in Nat, n < Count(s)
  PROVE  /\ LineOf(Append(s, ch), n) = LineOf(s, n)
         /\ WordOf(Append(s, ch), n) = WordOf(s, n)
BY OneMore, SameLine, Counts DEF Ended, Count

(* A newline in the first four lines.                                      *)
(* n is the line it ends; what the parser makes of it decides.             *)
LEMMA NewlineSeen ==
  ASSUME NEW p, Reading(p), p.line < 4
  PROVE  LET s == p.seen
             t == Append(p.seen, NL)
         IN  /\ s \in Text /\ t \in Text /\ NL \in Char
             /\ Count(s) = p.line /\ Count(t) = p.line + 1
             /\ \A n \in 0..p.line : LineOf(t, n) = LineOf(s, n) /\ WordOf(t, n) = WordOf(s, n)
             /\ WordOf(t, p.line + 1) = <<>> /\ LineOf(t, p.line + 1) = <<>>
             /\ \A n \in Nat : Ended(t, n) <=> n <= p.line
             /\ p.line = 3 => BodyOf(t) = <<>>
<1> DEFINE s == p.seen
           t == Append(p.seen, NL)
<1>1. s \in Text /\ NL \in Char /\ p.line \in 0..4 /\ p.line = Count(s)
  BY Counts DEF Reading, Parsers, Fields, NL, Char
<1>2. t \in Text /\ Count(t) = p.line + 1
  BY <1>1, OneMore
<1>3. ASSUME NEW n \in 0..p.line PROVE LineOf(t, n) = LineOf(s, n) /\ WordOf(t, n) = WordOf(s, n)
  BY <1>1, LinesStay, LineEnds
<1>4. \A n \in Nat : Ended(t, n) <=> n <= p.line
  BY <1>1, <1>2 DEF Ended, Count
<1>5. p.line = 3 => BodyOf(t) = <<>>
  BY <1>1, BodyBegins
<1> QED
  BY <1>1, <1>2, <1>3, <1>4, <1>5, LineEnds

(* Any other character there.                                              *)
LEMMA CharSeen ==
  ASSUME NEW p, Reading(p), p.line < 4, NEW ch \in Char, ch # NL
  PROVE  LET s == p.seen
             t == Append(p.seen, ch)
         IN  /\ s \in Text /\ t \in Text
             /\ Count(s) = p.line /\ Count(t) = p.line
             /\ \A n \in 0..(p.line - 1) :
                  LineOf(t, n) = LineOf(s, n) /\ WordOf(t, n) = WordOf(s, n)
             /\ LineOf(t, p.line) = Append(LineOf(s, p.line), ch)
             /\ WordOf(t, p.line) = Append(WordOf(s, p.line), Upper(ch))
             /\ \A n \in Nat : Ended(t, n) <=> n < p.line
<1> DEFINE s == p.seen
           t == Append(p.seen, ch)
<1>1. s \in Text /\ p.line \in 0..4 /\ p.line = Count(s)
  BY Counts DEF Reading, Parsers, Fields
<1>2. t \in Text /\ Count(t) = p.line
  BY <1>1, OneMore
<1>3. ASSUME NEW n \in 0..(p.line - 1)
      PROVE  LineOf(t, n) = LineOf(s, n) /\ WordOf(t, n) = WordOf(s, n)
  BY <1>1, LinesStay
<1>4. \A n \in Nat : Ended(t, n) <=> n < p.line
  BY <1>1, <1>2 DEF Ended, Count
<1> QED
  BY <1>1, <1>2, <1>3, <1>4, LineGrows

(* The parser with the character in currentBuffer.                         *)
LEMMA SeenIs ==
  ASSUME NEW p \in Parsers, NEW ch \in Char
  PROVE  LET q == [p EXCEPT !.seen = Append(@, ch)]
         IN  /\ q \in Parsers /\ q.seen = Append(p.seen, ch)
             /\ q.line = p.line /\ q.cur = p.cur /\ q.port = p.port /\ q.verb = p.verb
             /\ q.len = p.len /\ q.body = p.body /\ q.done = p.done /\ q.bad = p.bad
<1>1. Append(p.seen, ch) \in Text
  BY OneMore DEF Parsers
<1> QED
  BY <1>1 DEF Parsers

(* The first line.                                                         *)
LEMMA FirstLineParsed ==
  ASSUME ParserAssumption, NEW p, Reading(p), p.line = 0, NEW ch \in Char
  PROVE  Parsed(p, ch)
<1> DEFINE q == [p EXCEPT !.seen = Append(@, ch)]
           r == ParseChar(p, ch)
<1>1. p \in Parsers /\ ~p.done /\ p.cur = WordOf(p.seen, 0) /\ p.body = <<>>
  BY DEF Reading, Current
<1>2. /\ q \in Parsers /\ q.seen = Append(p.seen, ch) /\ q.line = 0 /\ q.cur = p.cur
      /\ q.done = FALSE /\ q.body = <<>>
  BY <1>1, SeenIs DEF Parsers
<1>3. r = WordChar(q, ch, {Start})
  BY DEF ParseChar, FirstLineChar
<1> HIDE DEF q, r
<1>4. CASE ch = NL
  <2> DEFINE ok == q.cur \in {Start}
  <2>1. r = NextLine(q, ok) /\ ok \in BOOLEAN
    BY <1>3, <1>4 DEF WordChar
  <2> HIDE DEF ok
  <2>2. /\ r \in Parsers /\ r.line = 1 /\ r.cur = <<>> /\ r.bad = (~ok)
        /\ r.seen = Append(p.seen, NL) /\ r.done = FALSE /\ r.body = <<>>
    BY <1>2, <1>4, <2>1, NextLineIs
  <2>3. /\ Count(r.seen) = 1 /\ WordOf(r.seen, 0) = p.cur /\ LineOf(r.seen, 1) = <<>>
        /\ \A n \in Nat : Ended(r.seen, n) <=> n <= 0
    BY <1>1, <2>2, NewlineSeen
  <2>4. ~Taken(r.seen)
    BY <2>3 DEF Taken
  <2>5. Refused(r.seen) <=> ~ok
    BY <1>2, <2>3 DEF Refused, WrongWord, NoInt, ok
  <2>6. ok => Fields(r) /\ Current(r)
    BY <1>2, <2>2, <2>3 DEF Fields, Current, ok
  <2> QED
    BY <1>4, <2>2, <2>4, <2>5, <2>6 DEF Parsed, Agrees, Reading, r
<1>5. CASE ch # NL
  <2> DEFINE ok == \E w \in {Start} : IsPrefix(Append(q.cur, Upper(ch)), w)
  <2>0. Upper(ch) \in Char
    BY DEF Upper, Char
  <2>1. r = Grow(q, Upper(ch), ok) /\ ok \in BOOLEAN
    BY <1>3, <1>5 DEF WordChar
  <2> HIDE DEF ok
  <2>2. /\ r \in Parsers /\ r.line = 0 /\ r.cur = Append(q.cur, Upper(ch)) /\ r.bad = (~ok)
        /\ r.seen = Append(p.seen, ch) /\ r.done = FALSE /\ r.body = <<>>
    <3> DEFINE g == Grow(q, Upper(ch), ok)
    <3>1. /\ g \in Parsers /\ g.line = q.line /\ g.cur = Append(q.cur, Upper(ch))
          /\ g.bad = (~ok) /\ g.seen = q.seen /\ g.done = q.done /\ g.body = q.body
      BY ONLY <1>2, <2>0, <2>1, GrowIs, SMTT(30)
    <3> HIDE DEF g
    <3> QED
      BY <1>2, <2>1, <3>1 DEF g
  <2>3. /\ Count(r.seen) = 0 /\ WordOf(r.seen, 0) = r.cur
        /\ \A n \in Nat : Ended(r.seen, n) <=> n < 0
    BY <1>1, <1>2, <1>5, <2>2, CharSeen
  <2>4. ~Taken(r.seen)
    BY <2>3 DEF Taken
  <2>5. Refused(r.seen) <=> ~ok
    <3>0. ~Ended(r.seen, 0) /\ WordOf(r.seen, 0) = Append(q.cur, Upper(ch))
      BY <2>2, <2>3
    <3>1. WrongWord(r.seen, 0, {Start}) <=> ~ok
      BY <3>0 DEF WrongWord, ok
    <3>2. ~NoInt(r.seen, 1) /\ ~NoInt(r.seen, 3) /\ ~Ended(r.seen, 1)
          /\ ~Ended(r.seen, 3)
      BY <2>3 DEF NoInt
    <3> QED
      BY <3>1, <3>2 DEF Refused
  <2>6. ok => Fields(r) /\ Current(r)
    BY <2>2, <2>3 DEF Fields, Current, ok
  <2> QED
    BY <1>5, <2>2, <2>4, <2>5, <2>6 DEF Parsed, Agrees, Reading, r
<1> QED
  BY <1>4, <1>5

(* The port.                                                               *)
LEMMA PortParsed ==
  ASSUME ParserAssumption, NEW p, Reading(p), p.line = 1, NEW ch \in Char
  PROVE  Parsed(p, ch)
<1> DEFINE q == [p EXCEPT !.seen = Append(@, ch)]
           r == ParseChar(p, ch)
<1>1. /\ p \in Parsers /\ ~p.done /\ p.cur = LineOf(p.seen, 1) /\ p.body = <<>>
      /\ WordOf(p.seen, 0) = Start
  BY DEF Reading, Current, Fields
<1>2. /\ q \in Parsers /\ q.seen = Append(p.seen, ch) /\ q.line = 1 /\ q.cur = p.cur
      /\ q.done = FALSE /\ q.body = <<>>
  BY <1>1, SeenIs DEF Parsers
<1>3. r = PortChar(q, ch)
  BY DEF ParseChar
<1> HIDE DEF q, r
<1>4. CASE ch = NL
  <2> DEFINE port == ParseInt(q.cur)
             ok == port.ok
             q1 == [q EXCEPT !.port = IF port.ok THEN port.value ELSE @]
  <2>1. r = NextLine(q1, ok) /\ ok \in BOOLEAN /\ (ok => port.value \in Int32)
    BY <1>3, <1>4, IntFits DEF PortChar
  <2> HIDE DEF port
  <2>2. /\ q1 \in Parsers /\ q1.seen = q.seen /\ q1.line = 1 /\ q1.done = FALSE /\ q1.body = <<>>
        /\ ok => q1.port = port.value
    BY <1>2, <2>1 DEF Parsers
  <2> HIDE DEF ok, q1
  <2>3. /\ r \in Parsers /\ r.line = 2 /\ r.cur = <<>> /\ r.bad = (~ok)
        /\ r.seen = Append(p.seen, NL) /\ r.done = FALSE /\ r.body = <<>>
        /\ ok => r.port = port.value
    BY <1>2, <1>4, <2>1, <2>2, NextLineIs
  <2>4. /\ Count(r.seen) = 2 /\ WordOf(r.seen, 0) = Start /\ LineOf(r.seen, 1) = p.cur
        /\ WordOf(r.seen, 2) = <<>>
        /\ \A n \in Nat : Ended(r.seen, n) <=> n <= 1
    BY <1>1, <2>3, NewlineSeen
  <2>5. ~Taken(r.seen)
    BY <2>4 DEF Taken
  <2>6. \E w \in Verbs : IsPrefix(<<>>, w)
    BY EmptyBegins DEF ParserAssumption
  <2>7. Refused(r.seen) <=> ~ok
    <3>1. NoInt(r.seen, 1) <=> ~ok
      BY <1>2, <2>4 DEF NoInt, ok, port
    <3>2. ~WrongWord(r.seen, 0, {Start}) /\ ~NoInt(r.seen, 3) /\ ~Ended(r.seen, 3)
      BY <2>4 DEF WrongWord, NoInt
    <3>3. ~WrongWord(r.seen, 2, Verbs)
      BY <2>4, <2>6 DEF WrongWord
    <3> QED
      BY <3>1, <3>2, <3>3 DEF Refused
  <2>8. ok => Fields(r) /\ Current(r)
    BY <1>2, <2>3, <2>4, <2>6 DEF Fields, Current, ok, port
  <2> QED
    BY <1>4, <2>3, <2>5, <2>7, <2>8 DEF Parsed, Agrees, Reading, r
<1>5. CASE ch # NL
  <2>1. r = Grow(q, ch, TRUE)
    BY <1>3, <1>5 DEF PortChar
  <2>2. /\ r \in Parsers /\ r.line = 1 /\ r.cur = Append(q.cur, ch) /\ r.bad = FALSE
        /\ r.seen = Append(p.seen, ch) /\ r.done = FALSE /\ r.body = <<>>
    BY <1>2, <2>1, GrowIs
  <2>3. /\ Count(r.seen) = 1 /\ WordOf(r.seen, 0) = Start /\ LineOf(r.seen, 1) = r.cur
        /\ \A n \in Nat : Ended(r.seen, n) <=> n < 1
    BY <1>1, <1>2, <1>5, <2>2, CharSeen
  <2>4. Fields(r) /\ Current(r)
    BY <2>2, <2>3 DEF Fields, Current
  <2>5. Reading(r)
    BY <2>2, <2>4 DEF Reading
  <2> QED
    BY <1>5, <2>2, <2>5, ReadingAgrees DEF Parsed, r
<1> QED
  BY <1>4, <1>5

(* The verb.                                                               *)
LEMMA VerbParsed ==
  ASSUME NEW p, Reading(p), p.line = 2, NEW ch \in Char
  PROVE  Parsed(p, ch)
<1> DEFINE q == [p EXCEPT !.seen = Append(@, ch)]
           r == ParseChar(p, ch)
           port == ParseInt(LineOf(p.seen, 1))
<1>1. /\ p \in Parsers /\ ~p.done /\ p.cur = WordOf(p.seen, 2) /\ p.body = <<>>
      /\ WordOf(p.seen, 0) = Start /\ port.ok /\ p.port = port.value
  BY DEF Reading, Current, Fields
<1>2. /\ q \in Parsers /\ q.seen = Append(p.seen, ch) /\ q.line = 2 /\ q.cur = p.cur
      /\ q.done = FALSE /\ q.body = <<>> /\ q.port = p.port
  BY <1>1, SeenIs DEF Parsers
<1>3. r = VerbChar(q, ch)
  BY DEF ParseChar
<1> HIDE DEF q, r
<1>4. CASE ch = NL
  <2> DEFINE ok == q.cur \in Verbs
             m == NextLine(q, ok)
  <2>1. r = [m EXCEPT !.verb = q.cur] /\ ok \in BOOLEAN
    BY <1>3, <1>4 DEF VerbChar, WordChar
  <2> HIDE DEF ok
  <2>2. /\ m \in Parsers /\ m.line = 3 /\ m.cur = <<>> /\ m.bad = (~ok) /\ m.port = q.port
        /\ m.seen = q.seen /\ m.done = FALSE /\ m.body = <<>>
    BY <1>2, <2>1, NextLineIs
  <2> HIDE DEF m
  <2>3. /\ r \in Parsers /\ r.line = 3 /\ r.cur = <<>> /\ r.bad = (~ok) /\ r.port = p.port
        /\ r.seen = Append(p.seen, NL) /\ r.done = FALSE /\ r.body = <<>>
        /\ r.verb = p.cur
    BY <1>2, <1>4, <2>1, <2>2 DEF Parsers
  <2>4. /\ Count(r.seen) = 3 /\ WordOf(r.seen, 0) = Start
        /\ LineOf(r.seen, 1) = LineOf(p.seen, 1)
        /\ WordOf(r.seen, 2) = p.cur /\ LineOf(r.seen, 3) = <<>>
        /\ \A n \in Nat : Ended(r.seen, n) <=> n <= 2
    BY <1>1, <2>3, NewlineSeen
  <2>5. ~Taken(r.seen)
    BY <2>4 DEF Taken
  <2>6. Refused(r.seen) <=> ~ok
    <3>1. WrongWord(r.seen, 2, Verbs) <=> ~ok
      BY <1>2, <2>4 DEF WrongWord, ok
    <3>2. ~WrongWord(r.seen, 0, {Start}) /\ ~NoInt(r.seen, 1) /\ ~NoInt(r.seen, 3)
          /\ Ended(r.seen, 1) /\ ~Ended(r.seen, 3)
      BY <1>1, <2>4 DEF WrongWord, NoInt
    <3> QED
      BY <3>1, <3>2 DEF Refused
  <2>7. ok => Fields(r) /\ Current(r)
    BY <1>1, <1>2, <2>3, <2>4 DEF Fields, Current, ok
  <2> QED
    BY <1>4, <2>3, <2>5, <2>6, <2>7 DEF Parsed, Agrees, Reading, r
<1>5. CASE ch # NL
  <2> DEFINE ok == \E w \in Verbs : IsPrefix(Append(q.cur, Upper(ch)), w)
             g == Grow(q, Upper(ch), ok)
  <2>0. Upper(ch) \in Char
    BY DEF Upper, Char
  <2>1. r = g
    BY <1>3, <1>5 DEF VerbChar, WordChar
  <2>1b. ok \in BOOLEAN
    OBVIOUS
  <2> HIDE DEF ok
  <2>2. /\ g \in Parsers /\ g.line = q.line /\ g.cur = Append(q.cur, Upper(ch))
        /\ g.bad = (~ok) /\ g.seen = q.seen /\ g.done = q.done /\ g.body = q.body
        /\ g.port = q.port
    <3>1. q \in Parsers /\ Upper(ch) \in Char /\ ok \in BOOLEAN
      BY ONLY <1>2, <2>0, <2>1b
    <3> QED
      BY ONLY <3>1, GrowIs
  <2> HIDE DEF g
  <2>3. /\ r \in Parsers /\ r.line = 2 /\ r.cur = Append(q.cur, Upper(ch)) /\ r.bad = (~ok)
        /\ r.seen = Append(p.seen, ch) /\ r.done = FALSE /\ r.body = <<>> /\ r.port = p.port
    BY <1>2, <2>1, <2>2
  <2>4. /\ Count(r.seen) = 2 /\ WordOf(r.seen, 0) = Start
        /\ LineOf(r.seen, 1) = LineOf(p.seen, 1) /\ WordOf(r.seen, 2) = r.cur
        /\ \A n \in Nat : Ended(r.seen, n) <=> n < 2
    BY <1>1, <1>2, <1>5, <2>3, CharSeen
  <2>5. ~Taken(r.seen)
    BY <2>4 DEF Taken
  <2>6. Refused(r.seen) <=> ~ok
    <3>0. ~Ended(r.seen, 2) /\ WordOf(r.seen, 2) = Append(q.cur, Upper(ch))
      BY <2>3, <2>4
    <3>1. WrongWord(r.seen, 2, Verbs) <=> ~ok
      BY <3>0 DEF WrongWord, ok
    <3>2. ~WrongWord(r.seen, 0, {Start}) /\ ~NoInt(r.seen, 1) /\ ~NoInt(r.seen, 3)
          /\ Ended(r.seen, 1) /\ ~Ended(r.seen, 3)
      BY <1>1, <2>4 DEF WrongWord, NoInt
    <3> QED
      BY <3>1, <3>2 DEF Refused
  <2>7. ok => Fields(r) /\ Current(r)
    BY <1>1, <2>3, <2>4 DEF Fields, Current, ok
  <2> QED
    BY <1>5, <2>3, <2>5, <2>6, <2>7 DEF Parsed, Agrees, Reading, r
<1> QED
  BY <1>4, <1>5

(* The length of the body.                                                 *)
LEMMA LengthParsed ==
  ASSUME NEW p, Reading(p), p.line = 3, NEW ch \in Char
  PROVE  Parsed(p, ch)
<1> DEFINE q == [p EXCEPT !.seen = Append(@, ch)]
           r == ParseChar(p, ch)
           port == ParseInt(LineOf(p.seen, 1))
<1>1. /\ p \in Parsers /\ ~p.done /\ p.cur = LineOf(p.seen, 3) /\ p.body = <<>>
      /\ WordOf(p.seen, 0) = Start /\ port.ok /\ p.port = port.value
      /\ WordOf(p.seen, 2) \in Verbs /\ p.verb = WordOf(p.seen, 2)
  BY DEF Reading, Current, Fields
<1>2. /\ q \in Parsers /\ q.seen = Append(p.seen, ch) /\ q.line = 3 /\ q.cur = p.cur
      /\ q.done = FALSE /\ q.body = <<>> /\ q.port = p.port /\ q.verb = p.verb
  BY <1>1, SeenIs DEF Parsers
<1>3. r = LengthChar(q, ch)
  BY DEF ParseChar
<1> HIDE DEF q, r
<1>4. CASE ch = NL
  <2> DEFINE len == ParseInt(q.cur)
             ok == len.ok
             q1 == [q EXCEPT !.len = IF len.ok THEN len.value ELSE @]
  <2>1. r = NextLine(q1, ok) /\ ok \in BOOLEAN /\ (ok => len.value \in Int32)
    BY <1>3, <1>4, IntFits DEF LengthChar
  <2> HIDE DEF len
  <2>2. /\ q1 \in Parsers /\ q1.seen = q.seen /\ q1.line = 3 /\ q1.done = FALSE /\ q1.body = <<>>
        /\ q1.port = p.port /\ q1.verb = p.verb
        /\ ok => q1.len = len.value
    BY <1>2, <2>1 DEF Parsers
  <2> HIDE DEF ok, q1
  <2>3. /\ r \in Parsers /\ r.line = 4 /\ r.cur = <<>> /\ r.bad = (~ok)
        /\ r.seen = Append(p.seen, NL) /\ r.done = FALSE /\ r.body = <<>>
        /\ r.port = p.port /\ r.verb = p.verb
        /\ ok => r.len = len.value
    BY <1>2, <1>4, <2>1, <2>2, NextLineIs
  <2>4. /\ Count(r.seen) = 4 /\ WordOf(r.seen, 0) = Start
        /\ LineOf(r.seen, 1) = LineOf(p.seen, 1) /\ WordOf(r.seen, 2) = WordOf(p.seen, 2)
        /\ LineOf(r.seen, 3) = p.cur /\ BodyOf(r.seen) = <<>>
        /\ \A n \in Nat : Ended(r.seen, n) <=> n <= 3
    BY <1>1, <2>3, NewlineSeen
  <2>5. ~Taken(r.seen)
    BY <2>4 DEF Taken
  <2>6. Refused(r.seen) <=> ~ok
    <3>1. NoInt(r.seen, 3) <=> ~ok
      BY <1>2, <2>4 DEF NoInt, ok, len
    <3>2. ~WrongWord(r.seen, 0, {Start}) /\ ~NoInt(r.seen, 1)
          /\ ~WrongWord(r.seen, 2, Verbs)
      BY <1>1, <2>4 DEF WrongWord, NoInt
    <3>3. FieldsOf(r.seen).len \notin 0..(Len(BodyOf(r.seen)) - 1)
      <4>1. Len(BodyOf(r.seen)) - 1 = -1
        BY <2>4
      <4> QED
        BY <4>1
    <3> QED
      BY <3>1, <3>2, <3>3 DEF Refused
  <2>7. ok => Fields(r) /\ Current(r)
    BY <1>1, <1>2, <2>3, <2>4 DEF Fields, Current, ok, len
  <2> QED
    BY <1>4, <2>3, <2>5, <2>6, <2>7 DEF Parsed, Agrees, Reading, r
<1>5. CASE ch # NL
  <2>1. r = Grow(q, ch, TRUE)
    BY <1>3, <1>5 DEF LengthChar
  <2>2. /\ r \in Parsers /\ r.line = 3 /\ r.cur = Append(q.cur, ch) /\ r.bad = FALSE
        /\ r.seen = Append(p.seen, ch) /\ r.done = FALSE /\ r.body = <<>>
        /\ r.port = p.port /\ r.verb = p.verb
    BY <1>2, <2>1, GrowIs
  <2>3. /\ Count(r.seen) = 3 /\ WordOf(r.seen, 0) = Start
        /\ LineOf(r.seen, 1) = LineOf(p.seen, 1) /\ WordOf(r.seen, 2) = WordOf(p.seen, 2)
        /\ LineOf(r.seen, 3) = r.cur
        /\ \A n \in Nat : Ended(r.seen, n) <=> n < 3
    BY <1>1, <1>2, <1>5, <2>2, CharSeen
  <2>4. Fields(r) /\ Current(r)
    BY <1>1, <2>2, <2>3 DEF Fields, Current
  <2>5. Reading(r)
    BY <2>2, <2>4 DEF Reading
  <2> QED
    BY <1>5, <2>2, <2>5, ReadingAgrees DEF Parsed, r
<1> QED
  BY <1>4, <1>5

(* The body, newlines included.                                            *)
LEMMA BodyParsed ==
  ASSUME NEW p, Reading(p), p.line = 4, NEW ch \in Char
  PROVE  Parsed(p, ch)
<1> DEFINE r == ParseChar(p, ch)
           s == p.seen
           t == Append(s, ch)
           size == Len(p.body)
<1>1. /\ p \in Parsers /\ ~p.done /\ p.body = BodyOf(s) /\ s \in Text /\ Count(s) >= 4
      /\ p.len \notin 0..(size - 1) /\ p.len \in Int /\ size \in Nat
      /\ WordOf(s, 0) = Start /\ WordOf(s, 2) \in Verbs /\ p.verb = WordOf(s, 2)
      /\ ParseInt(LineOf(s, 1)).ok /\ p.port = ParseInt(LineOf(s, 1)).value
      /\ ParseInt(LineOf(s, 3)).ok /\ p.len = ParseInt(LineOf(s, 3)).value
  <2>1. p \in Parsers /\ s \in Text /\ Count(s) \in Nat
    BY Counts DEF Reading, Parsers
  <2>2. p.len \in Int /\ size \in Nat
    BY <2>1, Counts, ParserAssumption DEF Parsers, Int32, ParserAssumption
  <2> QED
    BY <2>1, <2>2 DEF Reading, Current, Fields
<1>2. /\ t \in Text /\ Count(t) \in Nat /\ Count(t) >= 4 /\ BodyOf(t) = Append(p.body, ch)
      /\ Append(p.body, ch) \in Text /\ Len(Append(p.body, ch)) = size + 1
      /\ Append(p.body, ch) # <<>>
  <2>1. s \in Text /\ ch \in Char /\ Count(s) \in Nat
    BY <1>1, Counts
  <2>2. p.body \in Text
    BY <1>1 DEF Parsers
  <2>3. t \in Text /\ Count(t) = IF ch = NL THEN Count(s) + 1 ELSE Count(s)
    BY <2>1, OneMore
  <2>4. Count(t) \in Nat /\ Count(t) >= 4
    <3> HIDE DEF t, s
    <3> QED
      BY <1>1, <2>1, <2>3
  <2>5. BodyOf(t) = Append(p.body, ch)
    BY <1>1, BodyGrows
  <2>6. /\ Append(p.body, ch) \in Text /\ Len(Append(p.body, ch)) = size + 1
        /\ Append(p.body, ch) # <<>>
    BY <2>2, OneMore
  <2> QED
    BY <2>3, <2>4, <2>5, <2>6
<1>3. /\ WordOf(t, 0) = WordOf(s, 0) /\ WordOf(t, 2) = WordOf(s, 2)
      /\ LineOf(t, 1) = LineOf(s, 1) /\ LineOf(t, 3) = LineOf(s, 3)
  <2>1. Count(s) \in Nat
    BY <1>1, Counts
  <2> QED
    BY <1>1, <2>1, LinesStay
<1>4. Ended(t, 0) /\ Ended(t, 1) /\ Ended(t, 2) /\ Ended(t, 3)
  BY <1>2 DEF Ended, Count
<1>5. /\ r \in Parsers /\ r.seen = t /\ r.line = 4 /\ r.body = Append(p.body, ch)
      /\ r.port = p.port /\ r.verb = p.verb /\ r.len = p.len
      /\ r.bad <=> p.len >= 0 /\ size >= p.len
      /\ r.done <=> size + 1 = p.len
  <2> DEFINE q == [p EXCEPT !.seen = t]
             bad == p.len >= 0 /\ size >= p.len
             done == size + 1 = p.len
  <2>1. bad \in BOOLEAN /\ done \in BOOLEAN
    OBVIOUS
  <2>2. t \in Text /\ Append(p.body, ch) \in Text
    BY <1>2
  <2>3. q \in Parsers /\ q.line = 4 /\ q.body = p.body /\ q.port = p.port
        /\ q.verb = p.verb /\ q.len = p.len /\ q.seen = t
    BY <1>1, <2>2 DEF Parsers
  <2>4. r = BodyChar(q, ch)
    BY DEF ParseChar
  <2>5. r = [q EXCEPT !.body = Append(p.body, ch), !.bad = bad, !.done = done]
    <3> HIDE DEF q, r
    <3> QED
      BY <2>3, <2>4 DEF BodyChar
  <2> HIDE DEF q, r, t, s, size, bad, done
  <2>6. /\ r \in Parsers /\ r.seen = t /\ r.line = 4 /\ r.body = Append(p.body, ch)
        /\ r.port = p.port /\ r.verb = p.verb /\ r.len = p.len
        /\ r.bad = bad /\ r.done = done
    BY <2>1, <2>2, <2>3, <2>5 DEF Parsers
  <2> QED
    BY <2>6 DEF bad, done
<1> HIDE DEF r, s, t, size
<1>6. FieldsOf(t).len = p.len
  BY <1>1, <1>3 DEF FieldsOf
<1>7. r.done <=> Taken(t)
  BY <1>1, <1>2, <1>3, <1>4, <1>5, <1>6 DEF Taken
<1>8. r.bad <=> Refused(t)
  <2>1. ~WrongWord(t, 0, {Start}) /\ ~NoInt(t, 1) /\ ~WrongWord(t, 2, Verbs)
        /\ ~NoInt(t, 3)
    BY <1>1, <1>3, <1>4 DEF WrongWord, NoInt
  <2>2. FieldsOf(t).len \in 0..(Len(BodyOf(t)) - 1) <=> p.len >= 0 /\ size >= p.len
    BY <1>1, <1>2, <1>6
  <2> QED
    BY <1>4, <1>5, <2>1, <2>2 DEF Refused
<1>9. Message(r) = FieldsOf(t)
  BY <1>1, <1>2, <1>3, <1>5 DEF Message, FieldsOf
<1>10. ~(r.done /\ r.bad)
  BY <1>1, <1>5
<1>11. ~r.done /\ ~r.bad => Reading(r)
  <2>1. Fields(r)
    BY <1>1, <1>2, <1>3, <1>5 DEF Fields
  <2>2. ~r.done /\ ~r.bad => Current(r)
    BY <1>1, <1>2, <1>5 DEF Current
  <2> QED
    BY <1>5, <2>1, <2>2 DEF Reading
<1> QED
  BY <1>5, <1>7, <1>8, <1>9, <1>10, <1>11 DEF Parsed, Agrees, r, s, t

(* Wherever the parser is, one more character keeps it in agreement with   *)
(* the format.                                                             *)
LEMMA CharParsed ==
  ASSUME ParserAssumption, NEW p, Reading(p), NEW ch \in Char
  PROVE  Parsed(p, ch)
<1>1. p.line \in 0..4
  BY DEF Reading, Parsers
<1>2. p.line = 0 \/ p.line = 1 \/ p.line = 2 \/ p.line = 3 \/ p.line = 4
  BY <1>1
<1> QED
  BY <1>2, FirstLineParsed, PortParsed, VerbParsed, LengthParsed, BodyParsed

-----------------------------------------------------------------------------
(***************************************************************************)
(* The reader.  The parser of the current call is in the middle of a       *)
(* message while the call lasts, and agrees with the format always.        *)
(***************************************************************************)
Returned == [status : {"OK", "EOF", "THROWN", "PARSE_ERROR"},
             msg : [port : Int32, verb : Text, len : Int32, body : Text]]

Flowing == /\ script \in Seq(Text) /\ sent \in 0..Len(script)
           /\ peer \in {"open", "fin", "rst"}
           /\ pc \in {"read", "append", "handle", "over"}
           /\ wire \in Text /\ buf \in Text
           /\ parser \in Parsers /\ Agrees(parser)
           /\ pc \in {"read", "append"} => Reading(parser)
           /\ pc = "append" <=> buf # <<>>
           /\ results \in Seq(Returned)
           /\ pc = "handle" => results # <<>>

LEMMA MessageTyped ==
  ASSUME NEW p \in Parsers
  PROVE  Message(p) \in [port : Int32, verb : Text, len : Int32, body : Text]
BY DEF Message, Parsers

(* What one more result does to the sequence of them.                      *)
LEMMA ReturnedOne ==
  ASSUME results \in Seq(Returned), parser' \in Parsers, ParserAssumption,
         NEW status \in {"OK", "EOF", "THROWN", "PARSE_ERROR"}, Return(status)
  PROVE  /\ results' \in Seq(Returned) /\ results' # <<>>
         /\ Len(results') = Len(results) + 1 /\ Len(results) \in Nat
         /\ \A n \in 1..Len(results) : results'[n] = results[n]
         /\ results'[Len(results) + 1].status = status
         /\ status = "OK" =>
              results'[Len(results) + 1] = [status |-> "OK", msg |-> Message(parser')]
<1> DEFINE msg == IF status = "OK" THEN Message(parser') ELSE Message(NewParser)
           r == [status |-> status, msg |-> msg]
<1>1. NewParser \in Parsers
  BY NewReads DEF Reading
<1>2. msg \in [port : Int32, verb : Text, len : Int32, body : Text]
  BY <1>1, MessageTyped
<1>3. r \in Returned /\ r.status = status /\ (status = "OK" => r.msg = Message(parser'))
  <2> HIDE DEF msg
  <2>1. r \in Returned /\ r.status = status
    BY <1>2 DEF Returned
  <2> QED
    BY <2>1 DEF msg
<1>4. results' = Append(results, r)
  BY DEF Return
<1>5. status = "OK" => r = [status |-> "OK", msg |-> Message(parser')]
  OBVIOUS
<1> HIDE DEF r
<1>6. /\ Append(results, r) \in Seq(Returned) /\ Append(results, r) # <<>>
      /\ Len(Append(results, r)) = Len(results) + 1
      /\ \A n \in 1..Len(results) : Append(results, r)[n] = results[n]
      /\ Append(results, r)[Len(results) + 1] = r
  BY <1>3, AppendProperties
<1> QED
  BY <1>3, <1>4, <1>5, <1>6

(* What one turn of append's loop does to the parser and to what is left.  *)
LEMMA ParseStep ==
  ASSUME ParserAssumption, Flowing, Parse
  PROVE  /\ Parsed(parser, Head(buf)) /\ parser' = ParseChar(parser, Head(buf))
         /\ Head(buf) \in Char /\ Tail(buf) \in Text
<1>1. buf \in Seq(Char) /\ buf # <<>> /\ Reading(parser)
  BY DEF Flowing, Parse, Text
<1>2. Head(buf) \in Char /\ Tail(buf) \in Seq(Char)
  BY <1>1, HeadTailProperties
<1> QED
  BY <1>1, <1>2, CharParsed DEF Parse, Text

LEMMA FlowingInit == ASSUME ParserAssumption, Init PROVE Flowing
<1>1. Reading(NewParser) /\ Agrees(NewParser) /\ NewParser \in Parsers
  BY NewReads, ReadingAgrees DEF Reading
<1>2. script \in Seq(Text) /\ 0 \in 0..Len(script) /\ <<>> \in Text
  BY EmptyBegins DEF Init, ParserAssumption
<1>3. results \in Seq(Returned)
  BY DEF Init
<1> QED
  BY <1>1, <1>2, <1>3 DEF Init, Flowing

LEMMA FlowingStep ==
  ASSUME ParserAssumption, Flowing, [Next]_vars
  PROVE  Flowing'
<1> <<>> \in Text
  BY EmptyBegins
<1>1. CASE Send
  <2>1. sent + 1 \in 0..Len(script) /\ sent + 1 \in 1..Len(script)
    BY <1>1 DEF Flowing, Send
  <2>2. script[sent + 1] \in Text
    BY <2>1 DEF Flowing
  <2>3. wire \o script[sent + 1] \in Text
    BY <2>2, ConcatProperties DEF Flowing, Text
  <2> QED
    BY <1>1, <2>1, <2>3 DEF Flowing, Send
<1>2. CASE HangUp
  BY <1>2 DEF Flowing, HangUp
<1>3. CASE Read
  <2>1. PICK n \in 1..Len(wire) : /\ buf' = SubSeq(wire, 1, n)
                                  /\ wire' = SubSeq(wire, n + 1, Len(wire))
    BY <1>3 DEF Read
  <2>2. Len(wire) \in Nat /\ wire \in Text /\ n \in Nat /\ n > 0 /\ n <= Len(wire)
    BY Counts DEF Flowing
  <2>3. SubSeq(wire, 1, n) \in Text /\ Len(SubSeq(wire, 1, n)) = n
    <3>1. \A i \in 1..n : wire[i] \in Char
      BY <2>2 DEF Text
    <3> QED
      BY <2>2, <3>1, SubSeqProperties DEF Text
  <2>4. SubSeq(wire, n + 1, Len(wire)) \in Text
    BY <2>2, PartOf
  <2>5. buf' \in Text /\ buf' # <<>> /\ wire' \in Text
    BY <2>1, <2>2, <2>3, <2>4
  <2> QED
    BY <1>3, <2>5 DEF Flowing, Read
<1>4. CASE ReadEof \/ ReadThrows
  <2>1. PICK status \in {"EOF", "THROWN"} : Return(status) /\ pc = "read" /\ UNCHANGED <<buf, parser>>
    BY <1>4 DEF ReadEof, ReadThrows
  <2>2. results' \in Seq(Returned)
    BY <2>1, ReturnedOne DEF Flowing
  <2> QED
    BY <2>1, <2>2 DEF Flowing, Return
<1>5. CASE ParseOn
  <2>1. Parsed(parser, Head(buf)) /\ parser' = ParseChar(parser, Head(buf)) /\ Tail(buf) \in Text
    BY <1>5, ParseStep DEF ParseOn
  <2>2. parser' \in Parsers /\ Agrees(parser') /\ Reading(parser')
    BY <1>5, <2>1 DEF Parsed, ParseOn
  <2> QED
    BY <1>5, <2>1, <2>2 DEF Flowing, ParseOn
<1>6. CASE ParseDone \/ ParseError
  <2>1. PICK status \in {"OK", "PARSE_ERROR"} : Return(status) /\ Parse /\ buf' = <<>>
    BY <1>6 DEF ParseDone, ParseError
  <2>2. parser' \in Parsers /\ Agrees(parser')
    BY <2>1, ParseStep DEF Parsed
  <2>3. results' \in Seq(Returned) /\ results' # <<>>
    BY <2>1, <2>2, ReturnedOne DEF Flowing
  <2> QED
    BY <2>1, <2>2, <2>3 DEF Flowing, Return
<1>7. CASE Forward
  BY <1>7, NewReads, ReadingAgrees DEF Flowing, Forward, Reading
<1>8. CASE UNCHANGED vars
  BY <1>8 DEF Flowing, vars
<1> QED
  BY <1>1, <1>2, <1>3, <1>4, <1>5, <1>6, <1>7, <1>8 DEF Next, ReaderStep

LEMMA AlwaysFlowing == ASSUME ParserAssumption PROVE Spec => []Flowing
<1>1. Init => Flowing
  BY FlowingInit
<1>2. Flowing /\ [Next]_vars => Flowing'
  BY FlowingStep
<1> QED
  BY <1>1, <1>2, PTL DEF Spec

-----------------------------------------------------------------------------
(* Where a run of characters ends.                                         *)
LEMMA RunExists ==
  ASSUME NEW s \in Text, NEW C, NEW i \in 1..(Len(s) + 1)
  PROVE  \E k \in (i - 1)..Len(s) : /\ \A j \in i..k : s[j] \in C
                                    /\ k = Len(s) \/ s[k + 1] \notin C
<1> DEFINE S == {k \in (i - 1)..Len(s) : k = Len(s) \/ s[k + 1] \notin C}
<1>0. Len(s) \in Nat
  BY Counts
<1>1. S \in SUBSET Nat /\ S # {} /\ \A k \in S : k \in (i - 1)..Len(s) /\ (k = Len(s) \/ s[k + 1] \notin C)
  BY <1>0
<1>2. \A k \in (i - 1)..Len(s) : k \notin S => s[k + 1] \in C
  OBVIOUS
<1> HIDE DEF S
<1>3. PICK k \in S : \A m \in S : k <= m
  BY <1>1, LeastOf
<1>4. ASSUME NEW j \in i..k PROVE s[j] \in C
  <2>1. j - 1 \in (i - 1)..Len(s) /\ j - 1 < k /\ (j - 1) + 1 = j
    BY <1>0, <1>1, <1>3
  <2>2. j - 1 \notin S
    BY <1>1, <1>3, <2>1
  <2> QED
    BY <1>2, <2>1, <2>2
<1>5. k \in (i - 1)..Len(s) /\ (k = Len(s) \/ s[k + 1] \notin C)
  BY <1>1, <1>3
<1> QED
  BY <1>4, <1>5

LEMMA RunHolds ==
  ASSUME NEW s \in Text, NEW C, NEW i \in 1..(Len(s) + 1)
  PROVE  /\ RunEnd(s, i, C) \in (i - 1)..Len(s)
         /\ \A j \in i..RunEnd(s, i, C) : s[j] \in C
         /\ RunEnd(s, i, C) = Len(s) \/ s[RunEnd(s, i, C) + 1] \notin C
<1> DEFINE P(k) == (\A j \in i..k : s[j] \in C) /\ (k = Len(s) \/ s[k + 1] \notin C)
<1>1. \E k \in (i - 1)..Len(s) : P(k)
  BY RunExists
<1>2. RunEnd(s, i, C) = CHOOSE k \in (i - 1)..Len(s) : P(k)
  BY DEF RunEnd
<1>3. RunEnd(s, i, C) \in (i - 1)..Len(s) /\ P(RunEnd(s, i, C))
  <2> HIDE DEF P
  <2> QED
    BY <1>1, <1>2
<1> QED
  BY <1>3

LEMMA RunEnds ==
  ASSUME NEW s \in Text, NEW C
  PROVE  RunEnd(s, 1, C) \in 0..Len(s)
<1>1. 1 \in 1..(Len(s) + 1)
  BY Counts
<1>2. RunEnd(s, 1, C) \in (1 - 1)..Len(s)
  BY <1>1, RunHolds
<1> QED
  BY <1>2

(* Where a run of characters ends, when it is known.                       *)
LEMMA RunEndIs ==
  ASSUME NEW s \in Text, NEW i \in Nat \ {0}, NEW C, NEW k \in (i - 1)..Len(s),
         \A j \in i..k : s[j] \in C, k = Len(s) \/ s[k + 1] \notin C
  PROVE  RunEnd(s, i, C) = k
<1>0. Len(s) \in Nat
  BY Counts
<1> DEFINE P(l) == (\A j \in i..l : s[j] \in C) /\ (l = Len(s) \/ s[l + 1] \notin C)
<1>1. ASSUME NEW l \in (i - 1)..Len(s), P(l) PROVE l = k
  <2>1. ~(l < k)
    <3> SUFFICES ASSUME l < k PROVE FALSE
      OBVIOUS
    <3>1. l + 1 \in i..k /\ l # Len(s)
      BY <1>0
    <3> QED
      BY <1>1, <3>1
  <2>2. ~(k < l)
    <3> SUFFICES ASSUME k < l PROVE FALSE
      OBVIOUS
    <3>1. k + 1 \in i..l /\ k # Len(s)
      BY <1>0
    <3> QED
      BY <1>1, <3>1
  <2> QED
    BY <1>0, <2>1, <2>2
<1>2. P(k)
  OBVIOUS
<1>3. RunEnd(s, i, C) = CHOOSE l \in (i - 1)..Len(s) : P(l)
  BY DEF RunEnd
<1> HIDE DEF P
<1> QED
  BY <1>1, <1>2, <1>3

-----------------------------------------------------------------------------
(* A line of digits is the number they spell.                              *)
LEMMA NumericParsed ==
  ASSUME NEW l \in Text, Numeric(l)
  PROVE  /\ ParseInt(l).ok <=> ValueOf(l) \in Int32
         /\ ParseInt(l).value = ValueOf(l)
<1>0. Len(l) \in Nat /\ Len(l) > 0 /\ \A i \in 1..Len(l) : l[i] \in Digits
  <2>1. l \in Seq(Char)
    BY DEF Text
  <2>2. l # <<>> /\ \A i \in DOMAIN l : l[i] \in Digits
    BY DEF Numeric
  <2>3. Len(l) \in Nat /\ DOMAIN l = 1..Len(l)
    BY <2>1, LenProperties
  <2>4. Len(l) # 0
    BY <2>1, <2>2, EmptySeq
  <2>5. Len(l) > 0
    BY <2>3, <2>4
  <2> QED
    BY <2>2, <2>3, <2>5
<1>1. RunEnd(l, 1, Blanks) = 0
  <2>1. 1 \in 1..Len(l) /\ 0 \in (1 - 1)..Len(l) /\ 0 + 1 = 1
    BY <1>0
  <2>2. l[1] \in Digits
    BY <1>0, <2>1
  <2>3. l[0 + 1] \notin Blanks
    BY <2>1, <2>2 DEF Digits, Blanks
  <2>4. \A j \in 1..0 : l[j] \in Blanks
    OBVIOUS
  <2> QED
    BY <2>1, <2>3, <2>4, RunEndIs
<1>2. ~(0 < Len(l) /\ l[0 + 1] \in Signs)
  BY <1>0 DEF Digits, Signs
<1>3. RunEnd(l, 0 + 1, Digits) = Len(l)
  <2>1. Len(l) \in (1 - 1)..Len(l) /\ 0 + 1 = 1
    BY <1>0
  <2> QED
    BY <1>0, <2>1, RunEndIs
<1>4. SubSeq(l, 0 + 1, Len(l)) = l
  BY <1>0, SubSeqFull DEF Text
<1>5. l # <<>>
  BY <1>0
<1> HIDE DEF Numeric
<1>6. Strtol(l) = [found |-> TRUE, value |-> ValueOf(l)]
  BY <1>1, <1>2, <1>3, <1>4, <1>5 DEF Strtol
<1>7. Strtol(l).found /\ Strtol(l).value = ValueOf(l)
  BY <1>6
<1>8. ParseInt(l).ok <=> Strtol(l).found /\ Strtol(l).value \in Int32
  BY Zenon DEF ParseInt
<1>9. ParseInt(l).value = Strtol(l).value
  BY DEF ParseInt
<1> QED
  BY <1>7, <1>8, <1>9

(* A line that is no number is none for std::stoi either, if no digit is   *)
(* where it looks for one.                                                 *)
LEMMA NotParsed ==
  ASSUME NEW l \in Text, ~Numeric(l), ~Loose(l)
  PROVE  ~ParseInt(l).ok
<1> DEFINE blanks == RunEnd(l, 1, Blanks)
           signed == blanks < Len(l) /\ l[blanks + 1] \in Signs
           first  == IF signed THEN blanks + 2 ELSE blanks + 1
           last   == RunEnd(l, first, Digits)
<1>0. Len(l) \in Nat /\ 1 \in 1..(Len(l) + 1)
  BY Counts
<1>1. blanks \in (1 - 1)..Len(l) /\ \A j \in 1..blanks : l[j] \in Blanks
  BY <1>0, RunHolds
<1> HIDE DEF blanks
<1>2. first \in 1..(Len(l) + 1)
  BY <1>0, <1>1
<1>3. \A j \in 1..(first - 1) : l[j] \in Blanks \/ (j = first - 1 /\ l[j] \in Signs)
  BY <1>0, <1>1
<1> HIDE DEF first
<1>4. last \in (first - 1)..Len(l) /\ \A j \in first..last : l[j] \in Digits
  BY <1>2, RunHolds
<1> HIDE DEF last
<1>5. ~(first <= last)
  <2> SUFFICES ASSUME first <= last PROVE FALSE
    OBVIOUS
  <2>1. first \in 1..Len(l) /\ l[first] \in Digits
    BY <1>0, <1>2, <1>4
  <2>2. first \in DOMAIN l
    BY <2>1 DEF Text
  <2> QED
    BY <1>3, <2>1, <2>2 DEF Loose
<1>6. SubSeq(l, first, last) = <<>>
  BY <1>0, <1>2, <1>4, <1>5, SubSeqEmpty
<1>7. ~Strtol(l).found
  BY <1>6 DEF Strtol, blanks, first, last
<1> QED
  BY <1>7 DEF ParseInt

LEMMA SameNumber ==
  ASSUME NEW l \in Text, ~Loose(l)
  PROVE  /\ ParseInt(l).ok <=> IsNumber(l)
         /\ Numeric(l) => ParseInt(l).value = ValueOf(l)
<1>1. CASE Numeric(l)
  BY <1>1, NumericParsed DEF IsNumber
<1>2. CASE ~Numeric(l)
  BY <1>2, NotParsed DEF IsNumber
<1> QED
  BY <1>1, <1>2

(* The machine's messages and the format's.                                *)
LEMMA SameFormat ==
  ASSUME NEW s \in Text, ~Lax(s)
  PROVE  /\ Taken(s) <=> Complete(s)
         /\ Refused(s) <=> Invalid(s)
         /\ Taken(s) => FieldsOf(s) = MessageOf(s)
<1>0. Ended(s, 3) => Ended(s, 1)
  BY Counts DEF Ended, Count
<1>1. ASSUME NEW n \in {1, 3}, Ended(s, n)
      PROVE  /\ ParseInt(LineOf(s, n)).ok <=> IsNumber(LineOf(s, n))
             /\ Numeric(LineOf(s, n)) => ParseInt(LineOf(s, n)).value = ValueOf(LineOf(s, n))
  <2>0. n \in 0..Count(s)
    BY <1>1, Counts DEF Ended, Count
  <2>1. LineOf(s, n) \in Text
    BY <2>0, LineText
  <2>2. ~Loose(LineOf(s, n))
    BY <1>1 DEF Lax
  <2> QED
    BY <2>1, <2>2, SameNumber
<1>2. FieldsOf(s).len = ParseInt(LineOf(s, 3)).value
  BY DEF FieldsOf
<1>3. ASSUME Ended(s, 3) PROVE Len(BodyOf(s)) = 0 <=> BodyOf(s) = <<>>
  <2>1. 4 \in 0..Count(s)
    BY <1>3, Counts DEF Ended, Count
  <2>2. Before(s, 4) \in 0..Len(s) /\ Len(s) \in Nat
    BY <2>1, Bounds, Counts
  <2>3. BodyOf(s) \in Text
    BY <2>2, PartOf DEF BodyOf
  <2> QED
    BY <2>3 DEF Text
<1>4. Taken(s) <=> Complete(s)
  <2>1. SUFFICES ASSUME Ended(s, 3) PROVE Taken(s) <=> Complete(s)
    BY DEF Taken, Complete
  <2>2. /\ ParseInt(LineOf(s, 1)).ok <=> IsNumber(LineOf(s, 1))
        /\ ParseInt(LineOf(s, 3)).ok <=> IsNumber(LineOf(s, 3))
    BY <1>0, <1>1, <2>1
  <2>3. CASE IsNumber(LineOf(s, 3))
    <3>1. FieldsOf(s).len = ValueOf(LineOf(s, 3)) /\ ValueOf(LineOf(s, 3)) # 0
      BY <1>1, <1>2, <2>1, <2>3 DEF IsNumber, Lax
    <3> QED
      BY <1>3, <2>1, <2>2, <2>3, <3>1 DEF Taken, Complete
  <2>4. CASE ~IsNumber(LineOf(s, 3))
    BY <2>2, <2>4 DEF Taken, Complete
  <2> QED
    BY <2>3, <2>4
<1>5. Refused(s) <=> Invalid(s)
  <2>1. NoInt(s, 1) <=> WrongNumber(s, 1)
    BY <1>1 DEF NoInt, WrongNumber
  <2>2. NoInt(s, 3) <=> WrongNumber(s, 3)
    BY <1>1 DEF NoInt, WrongNumber
  <2>3. CASE Ended(s, 3) /\ Numeric(LineOf(s, 3))
    <3>1. FieldsOf(s).len = ValueOf(LineOf(s, 3))
      BY <1>1, <1>2, <2>3
    <3> QED
      BY <2>1, <2>2, <3>1 DEF Refused, Invalid
  <2>4. CASE Ended(s, 3) /\ ~Numeric(LineOf(s, 3))
    <3>1. WrongNumber(s, 3)
      BY <2>4 DEF WrongNumber, IsNumber
    <3> QED
      BY <2>2, <3>1 DEF Refused, Invalid
  <2>5. CASE ~Ended(s, 3)
    BY <2>1, <2>2, <2>5 DEF Refused, Invalid
  <2> QED
    BY <2>3, <2>4, <2>5
<1>6. ASSUME Taken(s) PROVE FieldsOf(s) = MessageOf(s)
  <2>1. IsNumber(LineOf(s, 1)) /\ IsNumber(LineOf(s, 3))
    BY <1>4, <1>6 DEF Complete
  <2>2. Ended(s, 1) /\ Ended(s, 3)
    BY <1>0, <1>6 DEF Taken
  <2> QED
    BY <1>1, <2>1, <2>2 DEF IsNumber, FieldsOf, MessageOf
<1> QED
  BY <1>4, <1>5, <1>6

(***************************************************************************)
(* The character machine of BlkMessageParser and the format of             *)
(* BlkMessage.h agree but for the texts of Lax: it is done on a whole      *)
(* message and on nothing else, with that message's fields, and it fails   *)
(* exactly when no continuation can be a message, wherever the reads of    *)
(* readMessage cut the text.                                               *)
(***************************************************************************)
THEOREM RecognisesFormat == Spec => []ParserAgrees
<1>1. Flowing => MachineAgrees
  BY DEF Flowing, MachineAgrees, Agrees
<1>2. Flowing => parser.seen \in Text
  BY DEF Flowing, Parsers
<1>3. Flowing => ParserAgrees
  BY <1>1, <1>2, SameFormat DEF MachineAgrees, ParserAgrees
<1> QED
  BY <1>3, AlwaysFlowing, ParserAssumption, PTL

-----------------------------------------------------------------------------
(* Texts put together.                                                     *)
LEMMA Regrouped ==
  ASSUME NEW a \in Text, NEW b \in Text, NEW c \in Text
  PROVE  (a \o b) \o c = a \o (b \o c)
<1> DEFINE S == Char
<1>1. a \in Seq(S) /\ b \in Seq(S) /\ c \in Seq(S)
  BY DEF Text
<1> HIDE DEF S
<1> QED
  BY ONLY <1>1, ConcatAssociative

LEMMA Joined ==
  ASSUME NEW a \in Text, NEW b \in Text
  PROVE  /\ a \o b \in Text /\ Begins(a, a \o b)
         /\ Len(a \o b) = Len(a) + Len(b)
         /\ a \o <<>> = a /\ <<>> \o a = a
         /\ \A c \in Text : (a \o b) \o c = a \o (b \o c)
         /\ (a \o b = <<>> => a = <<>> /\ b = <<>>)
         /\ (a \o b = a => b = <<>>)
<1> USE DEF Text
<1>1. /\ a \o b \in Text /\ Len(a \o b) = Len(a) + Len(b)
      /\ \A i \in 1..(Len(a) + Len(b)) : (a \o b)[i] = IF i <= Len(a) THEN a[i] ELSE b[i - Len(a)]
  BY ConcatProperties
<1>2. Len(a) \in Nat /\ Len(b) \in Nat
  OBVIOUS
<1>3. Begins(a, a \o b)
  BY <1>1, <1>2 DEF Begins
<1>4. /\ a \o <<>> = a /\ <<>> \o a = a
      /\ (a \o b = <<>> => a = <<>> /\ b = <<>>) /\ (a \o b = a => b = <<>>)
  BY ConcatEmptySeq, ConcatEqualIffEmpty
<1>5. \A c \in Text : (a \o b) \o c = a \o (b \o c)
  BY Regrouped
<1> QED
  BY <1>1, <1>3, <1>4, <1>5

(* The first character and the others.                                     *)
LEMMA FirstAndRest ==
  ASSUME NEW a \in Text, NEW b \in Text, b # <<>>
  PROVE  Head(b) \in Char /\ Tail(b) \in Text /\ Append(a, Head(b)) \o Tail(b) = a \o b
<1> USE DEF Text
<1>1. Head(b) \in Char /\ Tail(b) \in Text /\ Append(a, Head(b)) = a \o <<Head(b)>>
  BY HeadTailProperties, AppendIsConcat
<1>2. <<Head(b)>> \in Text
  BY <1>1
<1>3. b = <<Head(b)>> \o Tail(b)
  <2>1. 1 \in 1..Len(b) /\ Len(b) \in 1..Len(b)
    BY EmptySeq
  <2>2. SubSeq(b, 1, Len(b)) = <<b[1]>> \o SubSeq(b, 1 + 1, Len(b))
    BY <2>1, SubSeqRecursiveFirst
  <2>3. SubSeq(b, 1, Len(b)) = b /\ Tail(b) = SubSeq(b, 2, Len(b)) /\ Head(b) = b[1]
    BY SubSeqFull, TailIsSubSeq
  <2> QED
    BY <2>2, <2>3
<1>4. (a \o <<Head(b)>>) \o Tail(b) = a \o (<<Head(b)>> \o Tail(b))
  BY <1>1, <1>2, Joined
<1> QED
  BY <1>1, <1>3, <1>4

(* A character that moves from what is left to what was seen.              *)
LEMMA Moved ==
  ASSUME NEW a \in Text, NEW b \in Text, NEW c \in Text, b # <<>>
  PROVE  Append(a, Head(b)) \o (Tail(b) \o c) = a \o (b \o c)
<1>1. Head(b) \in Char /\ Tail(b) \in Text /\ Append(a, Head(b)) \o Tail(b) = a \o b
  BY FirstAndRest
<1>2. Append(a, Head(b)) \in Text
  BY <1>1, OneMore
<1>4. (Append(a, Head(b)) \o Tail(b)) \o c = Append(a, Head(b)) \o (Tail(b) \o c)
  BY <1>1, <1>2, Regrouped
<1>5. (a \o b) \o c = a \o (b \o c)
  BY Regrouped
<1> QED
  BY <1>1, <1>4, <1>5

LEMMA BeginsIsPrefix ==
  ASSUME NEW s \in Text, NEW t \in Text, Begins(s, t)
  PROVE  IsPrefix(s, t)
<1>1. Len(s) \in Nat
  BY Counts
<1>2. SubSeq(s, 0 + 1, Len(s)) = SubSeq(t, 0 + 1, Len(s))
  <2>1. 0 \in Nat /\ 0 <= Len(s) /\ Len(s) <= Len(s)
    BY <1>1
  <2> QED
    BY ONLY <1>1, <2>1, s \in Text, t \in Text, Begins(s, t), SamePart
<1> QED
  BY <1>2 DEF IsPrefix, Begins

(* What begins a whole message is not wrong, and is a whole message itself *)
(* only when it is all of it: a message is recognised at one place.        *)
LEMMA CompleteOnce ==
  ASSUME NEW t \in Text, NEW s \in Text, Begins(t, s), Taken(s)
  PROVE  ~Refused(t) /\ (Taken(t) => t = s)
<1>1. /\ Count(t) \in Nat /\ Count(s) \in Nat /\ Len(t) \in Nat /\ Len(s) \in Nat
      /\ Count(s) > 3
  BY Counts DEF Taken, Ended, Count
<1>2. \A n \in 0..3 : Ended(s, n)
  BY <1>1 DEF Ended, Count
<1>3. ASSUME NEW n \in 0..3, Ended(t, n)
      PROVE  LineOf(t, n) = LineOf(s, n) /\ WordOf(t, n) = WordOf(s, n)
  BY <1>3, SameLine
<1>4. ASSUME NEW n \in 0..3, n = Count(t) PROVE IsPrefix(WordOf(t, n), WordOf(s, n))
  <2>1. Begins(WordOf(t, n), WordOf(s, n))
    BY <1>2, <1>4, OpenLine
  <2>2. n \in 0..Count(t) /\ n \in 0..Count(s)
    BY <1>1, <1>4
  <2>3. WordOf(t, n) \in Text /\ WordOf(s, n) \in Text
    BY <2>2, LineText
  <2> QED
    BY <2>1, <2>3, BeginsIsPrefix
<1>5. Ended(t, 3) => /\ FieldsOf(t).len = FieldsOf(s).len
                     /\ Before(t, 4) = Before(s, 4) /\ Before(s, 4) \in 0..Len(t)
                     /\ Len(BodyOf(t)) = Len(t) - Before(s, 4)
                     /\ Len(BodyOf(s)) = Len(s) - Before(s, 4)
  <2> SUFFICES ASSUME Ended(t, 3)
               PROVE  /\ FieldsOf(t).len = FieldsOf(s).len
                      /\ Before(t, 4) = Before(s, 4) /\ Before(s, 4) \in 0..Len(t)
                      /\ Len(BodyOf(t)) = Len(t) - Before(s, 4)
                      /\ Len(BodyOf(s)) = Len(s) - Before(s, 4)
    OBVIOUS
  <2>1. 4 \in 0..Count(t)
    BY <1>1 DEF Ended, Count
  <2>2. Before(t, 4) = Before(s, 4) /\ Before(t, 4) \in 0..Len(t)
    BY <2>1, SameNewlines, Bounds
  <2>3. Before(s, 4) \in Nat /\ Before(s, 4) <= Len(t) /\ Before(s, 4) <= Len(s)
    BY <1>1, <2>2 DEF Begins
  <2>4. Len(BodyOf(t)) = Len(t) - Before(s, 4) /\ Len(BodyOf(s)) = Len(s) - Before(s, 4)
    BY <1>1, <2>2, <2>3, PartOf DEF BodyOf
  <2> QED
    BY <1>3, <2>2, <2>4 DEF FieldsOf
<1>6. ~Refused(t)
  <2>1. ~WrongWord(t, 0, {Start})
    <3>1. CASE Ended(t, 0)
      BY <1>3, <3>1 DEF WrongWord, Taken
    <3>2. CASE ~Ended(t, 0)
      <4>1. Count(t) = 0
        BY <1>1, <3>2 DEF Ended, Count
      <4> QED
        BY <1>4, <3>2, <4>1 DEF WrongWord, Taken
    <3> QED
      BY <3>1, <3>2
  <2>2. ~NoInt(t, 1) /\ ~NoInt(t, 3)
    BY <1>3 DEF NoInt, Taken
  <2>3. ~(Ended(t, 1) /\ WrongWord(t, 2, Verbs))
    <3>1. CASE Ended(t, 2)
      BY <1>3, <3>1 DEF WrongWord, Taken
    <3>2. CASE ~Ended(t, 2) /\ Ended(t, 1)
      <4>1. Count(t) = 2
        BY <1>1, <3>2 DEF Ended, Count
      <4> QED
        BY <1>4, <3>2, <4>1 DEF WrongWord, Taken
    <3> QED
      BY <3>1, <3>2
  <2>4. ASSUME Ended(t, 3) PROVE FieldsOf(t).len \notin 0..(Len(BodyOf(t)) - 1)
    <3>1. FieldsOf(t).len = Len(s) - Before(s, 4) /\ Before(s, 4) \in 0..Len(t)
          /\ Len(BodyOf(t)) = Len(t) - Before(s, 4)
      BY <1>5, <2>4 DEF Taken
    <3> QED
      BY <1>1, <3>1 DEF Begins
  <2> QED
    BY <2>1, <2>2, <2>3, <2>4 DEF Refused
<1>7. ASSUME Taken(t) PROVE t = s
  <2>1. Len(t) - Before(s, 4) = Len(s) - Before(s, 4) /\ Before(s, 4) \in 0..Len(t)
    BY <1>5, <1>7 DEF Taken
  <2>2. Len(t) = Len(s)
    BY <1>1, <2>1
  <2> QED
    BY <2>2, TextEqual DEF Begins
<1> QED
  BY <1>6, <1>7

-----------------------------------------------------------------------------
(***************************************************************************)
(* A client that waits for its answer.  It is one text ahead of the calls  *)
(* of readMessage at most, and as long as the texts before were messages,  *)
(* what is pending, seen by the parser or not, is that text and no more.   *)
(***************************************************************************)
Pending == IF pc = "handle" THEN wire ELSE parser.seen \o (buf \o wire)

InTurn == /\ sent <= Len(results) + 1
          /\ pc # "over" => \A n \in 1..Len(results) : results[n].status = "OK"
          /\ pc # "over" /\ Len(results) <= sent /\ TakenUpTo(Len(results)) =>
               /\ sent = Len(results) => Pending = <<>>
               /\ sent # Len(results) => Pending = script[sent]

Turns == Flowing /\ TurnsAsTaken /\ InTurn

LEMMA Sizes ==
  ASSUME Flowing
  PROVE  /\ Len(results) \in Nat /\ sent \in Nat /\ sent <= Len(script)
         /\ parser.seen \in Text /\ wire \in Text /\ buf \in Text
         /\ \A n \in 1..sent : script[n] \in Text
<1>1. Len(script) \in Nat /\ \A n \in 1..Len(script) : script[n] \in Text
  BY DEF Flowing
<1> QED
  BY <1>1 DEF Flowing, Parsers

(* In the middle of a call, either the client has sent nothing since the   *)
(* last answer or it sent what that call reads.                            *)
LEMMA TurnOf ==
  ASSUME Turns, pc # "over",
         TakenUpTo(IF Len(results) + 1 <= sent THEN Len(results) + 1 ELSE sent)
  PROVE  /\ sent = Len(results) => Pending = <<>>
         /\ sent # Len(results) => /\ sent = Len(results) + 1 /\ Pending = script[sent]
                                   /\ Taken(script[sent]) /\ script[sent] \in Text
         /\ TakenUpTo(Len(results))
<1> DEFINE k == Len(results)
<1>1. k \in Nat /\ sent \in Nat /\ sent <= k + 1 /\ \A n \in 1..sent : script[n] \in Text
  BY Sizes DEF Turns, InTurn
<1>2. k <= sent
  <2>1. SUFFICES ASSUME sent < k PROVE FALSE
    BY <1>1
  <2>2. TakenUpTo(sent) /\ sent + 1 \in 1..k /\ ~(sent + 1 <= sent) /\ sent + 1 > sent
    BY <1>1, <2>1
  <2>3. results[sent + 1].status # "OK"
    BY <2>2 DEF Turns, TurnsAsTaken
  <2>4. results[sent + 1].status = "OK"
    BY <2>2 DEF Turns, InTurn
  <2> QED
    BY <2>3, <2>4
<1>3. TakenUpTo(k)
  <2>1. \A i \in 1..k : i \in 1..(IF k + 1 <= sent THEN k + 1 ELSE sent)
    BY <1>1, <1>2
  <2> QED
    BY <2>1 DEF TakenUpTo
<1>4. ASSUME sent # k PROVE sent = k + 1 /\ Taken(script[sent]) /\ script[sent] \in Text
  <2>1. sent = k + 1 /\ sent \in 1..sent
    BY <1>1, <1>2, <1>4
  <2>2. TakenUpTo(sent)
    BY <2>1
  <2> QED
    BY <1>1, <2>1, <2>2 DEF TakenUpTo
<1> QED
  BY <1>2, <1>3, <1>4 DEF Turns, InTurn

(* One more result: the earlier ones stay, and it is right itself.         *)
LEMMA OneResult ==
  ASSUME ParserAssumption, Turns, Flowing', pc # "over",
         NEW status \in {"OK", "EOF", "THROWN", "PARSE_ERROR"}, Return(status),
         TakenUpTo(IF Len(results) + 1 <= sent THEN Len(results) + 1 ELSE sent) =>
           IF sent = Len(results) THEN status # "OK"
           ELSE \/ status = "OK" /\ Message(parser') = FieldsOf(script[sent]) /\ wire = <<>>
                \/ status = "THROWN"
  PROVE  Turns'
<1> DEFINE k == Len(results)
<1>1. k \in Nat /\ sent \in Nat /\ sent <= k + 1
  BY Sizes DEF Turns, InTurn
<1>2. /\ Len(results') = k + 1
      /\ \A n \in 1..k : results'[n] = results[n]
      /\ results'[k + 1].status = status
      /\ status = "OK" => results'[k + 1] = [status |-> "OK", msg |-> Message(parser')]
  <2>1. results \in Seq(Returned) /\ parser' \in Parsers
    BY DEF Turns, Flowing
  <2> QED
    BY <2>1, ReturnedOne
<1>3. script' = script /\ sent' = sent /\ wire' = wire
      /\ pc' = IF status = "OK" THEN "handle" ELSE "over"
  BY DEF Return
<1>4. \A n : TakenUpTo(n)' <=> TakenUpTo(n)
  BY <1>3 DEF TakenUpTo
<1>5. TurnsAsTaken'
  <2> SUFFICES ASSUME NEW n \in 1..(k + 1), TakenUpTo(IF n <= sent THEN n ELSE sent)
               PROVE  IF n > sent THEN results'[n].status # "OK"
                      ELSE \/ results'[n] = [status |-> "OK", msg |-> FieldsOf(script[n])]
                           \/ results'[n].status = "THROWN"
    BY <1>2, <1>3, <1>4 DEF TurnsAsTaken
  <2>1. CASE n \in 1..k
    BY <1>2, <2>1 DEF Turns, TurnsAsTaken
  <2>2. CASE n \notin 1..k
    <3>1. n = k + 1
      BY <1>1, <2>2
    <3>2. TakenUpTo(IF k + 1 <= sent THEN k + 1 ELSE sent)
      BY <3>1
    <3>3. sent # k => sent = n
      BY <3>1, <3>2, TurnOf
    <3>4. n > sent <=> sent = k
      BY <1>1, <3>1, <3>3
    <3> QED
      BY <1>2, <3>1, <3>2, <3>3, <3>4
  <2> QED
    BY <2>1, <2>2
<1>6. InTurn'
  <2>1. sent' <= Len(results') + 1
    BY <1>1, <1>2, <1>3
  <2>2. ASSUME pc' # "over" PROVE \A n \in 1..(k + 1) : results'[n].status = "OK"
    <3>1. status = "OK" /\ \A n \in 1..k : results[n].status = "OK"
      BY <1>3, <2>2 DEF Turns, InTurn
    <3>2. \A n \in 1..(k + 1) : n \in 1..k \/ n = k + 1
      BY <1>1
    <3> QED
      BY <1>2, <3>1, <3>2
  <2>3. ASSUME pc' # "over", k + 1 <= sent, TakenUpTo(k + 1)
        PROVE  sent = k + 1 /\ Pending' = <<>>
    <3>1. status = "OK" /\ sent = k + 1 /\ sent # k
      BY <1>1, <1>3, <2>3
    <3>2. wire = <<>>
      BY <2>3, <3>1
    <3> QED
      BY <1>3, <3>1, <3>2 DEF Pending
  <2> QED
    BY <1>2, <1>3, <1>4, <2>1, <2>2, <2>3 DEF InTurn
<1> QED
  BY <1>5, <1>6 DEF Turns

(* Nothing is returned and nothing is sent; what is pending moves.         *)
LEMMA SamePending ==
  ASSUME Turns, Flowing', UNCHANGED <<script, sent, results>>,
         pc # "over" /\ pc' # "over", Pending' = Pending
  PROVE  Turns'
<1>1. \A n : TakenUpTo(n)' <=> TakenUpTo(n)
  BY DEF TakenUpTo
<1>2. TurnsAsTaken'
  BY <1>1 DEF Turns, TurnsAsTaken
<1>3. InTurn'
  BY <1>1 DEF Turns, InTurn
<1> QED
  BY <1>2, <1>3 DEF Turns

LEMMA TurnsInit == ASSUME ParserAssumption, Init PROVE Turns
<1>1. Flowing
  BY FlowingInit
<1>2. Len(results) = 0 /\ sent = 0
  BY DEF Init
<1>3. <<>> \o (<<>> \o <<>>) = <<>>
  BY EmptyBegins, Joined
<1>4. Pending = <<>>
  BY <1>3 DEF Init, Pending, NewParser
<1> QED
  BY <1>1, <1>2, <1>4 DEF Turns, InTurn, TurnsAsTaken

LEMMA TurnsStep ==
  ASSUME ParserAssumption, ~Pipelining, Turns, [Next]_vars
  PROVE  Turns'
<1> DEFINE k == Len(results)
           upto == IF k + 1 <= sent THEN k + 1 ELSE sent
<1>0. Flowing /\ Flowing'
  BY FlowingStep DEF Turns
<1>00. /\ k \in Nat /\ sent \in Nat /\ sent <= Len(script) /\ sent <= k + 1
       /\ parser.seen \in Text /\ wire \in Text /\ buf \in Text /\ <<>> \in Text
       /\ \A n \in 1..sent : script[n] \in Text
  BY <1>0, Sizes, EmptyBegins DEF Turns, InTurn
<1>9. buf # <<>> =>
        Append(parser.seen, Head(buf)) \o (Tail(buf) \o wire) = parser.seen \o (buf \o wire)
  <2>1. parser.seen \in Text /\ buf \in Text /\ wire \in Text
    BY <1>00
  <2> QED
    BY ONLY <2>1, Moved
<1>1. CASE Send
  <2>1. sent = k /\ sent' = k + 1 /\ sent < Len(script) /\ pc # "over"
        /\ wire' = wire \o script[sent'] /\ UNCHANGED <<script, pc, buf, parser, results>>
    BY <1>1 DEF Send
  <2>2. k' = k
    BY <2>1
  <2>3. \A n : TakenUpTo(n)' <=> TakenUpTo(n)
    BY <2>1 DEF TakenUpTo
  <2>4. TurnsAsTaken'
    <3> SUFFICES ASSUME NEW n \in 1..k, TakenUpTo(n)
                 PROVE  \/ results[n] = [status |-> "OK", msg |-> FieldsOf(script[n])]
                        \/ results[n].status = "THROWN"
      <4>1. \A n \in 1..k : n <= sent' /\ ~(n > sent')
        BY <1>00, <2>1
      <4> QED
        BY <2>1, <2>2, <2>3, <4>1 DEF TurnsAsTaken
    <3>1. n <= sent /\ ~(n > sent)
      BY <1>00, <2>1
    <3> QED
      BY <3>1 DEF Turns, TurnsAsTaken
  <2>5. TakenUpTo(k) => Pending' = script[k + 1]
    <3> SUFFICES ASSUME TakenUpTo(k) PROVE Pending' = script[k + 1]
      OBVIOUS
    <3>1. Pending = <<>>
      BY <1>00, <2>1 DEF Turns, InTurn
    <3>2. wire = <<>> /\ (pc # "handle" => parser.seen = <<>> /\ buf = <<>>)
      <4>1. CASE pc = "handle"
        BY <3>1, <4>1 DEF Pending
      <4>2. CASE pc # "handle"
        <5>1. parser.seen \o (buf \o wire) = <<>> /\ buf \o wire \in Text
          BY <1>00, <3>1, <4>2, Joined DEF Pending
        <5>2. parser.seen = <<>> /\ buf \o wire = <<>>
          BY <1>00, <5>1, Joined
        <5> QED
          BY <1>00, <5>2, Joined
      <4> QED
        BY <4>1, <4>2
    <3>3. script[k + 1] \in Text
      <4>1. k + 1 \in 1..Len(script)
        BY <1>00, <2>1
      <4> QED
        BY <1>0, <4>1 DEF Flowing
    <3>4. wire' = script[k + 1]
      BY <2>1, <3>2, <3>3, Joined
    <3>5. <<>> \o (<<>> \o script[k + 1]) = script[k + 1]
      BY <1>00, <3>3, Joined
    <3> QED
      BY <2>1, <3>2, <3>4, <3>5 DEF Pending
  <2>6. InTurn'
    BY <1>00, <2>1, <2>2, <2>3, <2>5 DEF Turns, InTurn
  <2> QED
    BY <1>0, <2>4, <2>6 DEF Turns
<1>2. CASE HangUp \/ UNCHANGED vars
  <2>1. UNCHANGED <<script, sent, results, pc, wire, buf, parser>>
    BY <1>2 DEF HangUp, vars
  <2>2. \A n : TakenUpTo(n)' <=> TakenUpTo(n)
    BY <2>1 DEF TakenUpTo
  <2>3. Pending' = Pending
    BY <2>1 DEF Pending
  <2> QED
    BY <1>0, <2>1, <2>2, <2>3 DEF Turns, InTurn, TurnsAsTaken
<1>3. CASE Read
  <2>1. PICK n \in 1..Len(wire) : buf' = SubSeq(wire, 1, n) /\ wire' = SubSeq(wire, n + 1, Len(wire))
    BY <1>3 DEF Read
  <2>2. buf = <<>> /\ pc = "read" /\ pc' = "append" /\ UNCHANGED <<script, sent, parser, results>>
    BY <1>0, <1>3 DEF Flowing, Read
  <2>3. buf' \o wire' = wire
    <3>1. Len(wire) \in Nat /\ wire \in Seq(Char)
      BY <1>00 DEF Text
    <3>2. 1 \in 1..(Len(wire) + 1) /\ n \in (1 - 1)..Len(wire) /\ Len(wire) \in n..Len(wire)
      BY <3>1
    <3>3. SubSeq(wire, 1, n) \o SubSeq(wire, n + 1, Len(wire)) = SubSeq(wire, 1, Len(wire))
      BY <3>1, <3>2, ConcatAdjacentSubSeq
    <3> QED
      BY <2>1, <3>1, <3>3, SubSeqFull
  <2>4. <<>> \o wire = wire
    BY <1>00, Joined
  <2>5. Pending' = Pending
    BY <2>2, <2>3, <2>4 DEF Pending
  <2> QED
    BY <1>0, <2>2, <2>5, SamePending
<1>4. CASE ReadEof
  <2>1. Return("EOF") /\ pc = "read" /\ wire = <<>> /\ buf = <<>> /\ Reading(parser)
    BY <1>0, <1>4 DEF ReadEof, Flowing
  <2>2. ASSUME TakenUpTo(upto), sent # k PROVE FALSE
    <3>1. Pending = script[sent] /\ Taken(script[sent])
      BY <2>1, <2>2, TurnOf
    <3>2. Pending = parser.seen
      <4>1. <<>> \o <<>> = <<>> /\ parser.seen \o <<>> = parser.seen
        BY <1>00, Joined
      <4> QED
        BY <2>1, <4>1 DEF Pending
    <3> QED
      BY <2>1, <3>1, <3>2, ReadingAgrees DEF Agrees, Reading
  <2> QED
    BY <1>0, <2>1, <2>2, OneResult
<1>5. CASE ReadThrows
  <2>1. Return("THROWN") /\ pc # "over"
    BY <1>5 DEF ReadThrows
  <2> QED
    BY <1>0, <2>1, OneResult
<1>6. CASE ParseOn
  <2>1. parser' = ParseChar(parser, Head(buf)) /\ buf' = Tail(buf) /\ buf # <<>>
        /\ pc = "append" /\ pc' \in {"read", "append"} /\ UNCHANGED <<script, sent, wire, results>>
    BY <1>6 DEF ParseOn, Parse
  <2>2. parser'.seen = Append(parser.seen, Head(buf))
    BY <1>0, <1>6, ParseStep DEF Parsed, ParseOn
  <2>3. Head(buf) \in Char /\ Tail(buf) \in Text /\ Append(parser.seen, Head(buf)) \in Text
    BY <1>00, <2>1, FirstAndRest, OneMore
  <2>4. parser'.seen \o (Tail(buf) \o wire) = parser.seen \o (buf \o wire)
    BY <1>9, <2>1, <2>2
  <2>5. Pending' = Pending
    BY <2>1, <2>4 DEF Pending
  <2> QED
    BY <1>0, <2>1, <2>5, SamePending
<1>7. CASE ParseDone \/ ParseError
  <2> DEFINE t == Append(parser.seen, Head(buf))
  <2>1. buf # <<>> /\ pc = "append" /\ Parsed(parser, Head(buf))
        /\ parser' = ParseChar(parser, Head(buf))
    BY <1>0, <1>7, ParseStep DEF Parse, ParseDone, ParseError
  <2>2. Agrees(parser') /\ parser'.seen = t
    BY <2>1 DEF Parsed
  <2>3. Head(buf) \in Char /\ Tail(buf) \in Text /\ t \in Text /\ Tail(buf) \o wire \in Text
    BY <1>00, <2>1, FirstAndRest, OneMore, Joined
  <2>4. Pending = t \o (Tail(buf) \o wire) /\ Pending # <<>>
    <3>1. t \o (Tail(buf) \o wire) = parser.seen \o (buf \o wire)
      BY <1>9, <2>1
    <3>4. t # <<>>
      BY <1>00, <2>3, OneMore
    <3>5. t \o (Tail(buf) \o wire) # <<>>
      BY <2>3, <3>4, Joined
    <3> QED
      BY <2>1, <3>1, <3>5 DEF Pending
  <2> HIDE DEF t
  <2>5. ASSUME TakenUpTo(upto)
        PROVE  /\ sent # k /\ ~Refused(t) /\ (Taken(t) => t = script[sent])
               /\ script[sent] = t \o (Tail(buf) \o wire)
    <3>1. sent # k /\ Pending = script[sent] /\ Taken(script[sent]) /\ script[sent] \in Text
      BY <2>1, <2>4, <2>5, TurnOf
    <3>2. Begins(t, t \o (Tail(buf) \o wire))
      BY <2>3, Joined
    <3>3. Begins(t, script[sent])
      BY <2>4, <3>1, <3>2
    <3> QED
      BY <2>3, <2>4, <3>1, <3>3, CompleteOnce
  <2>6. CASE ParseDone
    <3>1. Return("OK") /\ parser'.done
      BY <2>6 DEF ParseDone
    <3>2. Taken(t) /\ Message(parser') = FieldsOf(t)
      BY <2>2, <3>1 DEF Agrees
    <3>3. ASSUME TakenUpTo(upto)
          PROVE  sent # k /\ Message(parser') = FieldsOf(script[sent]) /\ wire = <<>>
      <4>1. sent # k /\ t = script[sent] /\ t = t \o (Tail(buf) \o wire)
        BY <2>5, <3>2, <3>3
      <4>2. Tail(buf) \o wire = <<>>
        <5> DEFINE rest == Tail(buf) \o wire
        <5>1. t \in Text /\ rest \in Text /\ t = t \o rest
          BY ONLY <2>3, <4>1
        <5> HIDE DEF rest
        <5>2. rest = <<>>
          BY ONLY <5>1, Joined
        <5> QED
          BY ONLY <5>2 DEF rest
      <4>3. wire = <<>>
        BY <1>00, <2>3, <4>2, Joined
      <4> QED
        BY <3>2, <4>1, <4>3
    <3> QED
      BY <1>0, <2>1, <3>1, <3>3, OneResult
  <2>7. CASE ParseError
    <3>1. Return("PARSE_ERROR") /\ Refused(t)
      BY <2>2, <2>7 DEF ParseError, Agrees
    <3> QED
      BY <1>0, <2>1, <2>5, <3>1, OneResult
  <2> QED
    BY <1>7, <2>6, <2>7
<1>8. CASE Forward
  <2>1. parser' = NewParser /\ pc = "handle" /\ pc' = "read" /\ buf = <<>> /\ buf' = <<>>
        /\ UNCHANGED <<script, sent, wire, results>>
    BY <1>0, <1>8 DEF Forward, Flowing
  <2>2. <<>> \o (<<>> \o wire) = wire
    BY <1>00, Joined
  <2>3. Pending' = Pending
    BY <2>1, <2>2 DEF Pending, NewParser
  <2> QED
    BY <1>0, <2>1, <2>3, SamePending
<1> QED
  BY <1>1, <1>2, <1>3, <1>4, <1>5, <1>6, <1>7, <1>8 DEF Next, ReaderStep

(***************************************************************************)
(* With a client that waits for each answer, the n-th call of readMessage  *)
(* returns the n-th message the client sent, with its fields, whatever the *)
(* reads cut it into; a failing socket may end the connection instead.     *)
(* Without that hypothesis it is false: MCBlkParserPipelining shows it.    *)
(***************************************************************************)
THEOREM MessagesInTurn == ASSUME ~Pipelining PROVE Spec => []ParsedAsSent
<1>1. Init => Turns
  BY TurnsInit, ParserAssumption
<1>2. Turns /\ [Next]_vars => Turns'
  BY TurnsStep, ParserAssumption
<1>3. Turns => ParsedAsSent
  <2> SUFFICES ASSUME Turns, NEW n \in 1..Len(results),
                      MessagesUpTo(IF n <= sent THEN n ELSE sent)
               PROVE  IF n > sent THEN results[n].status # "OK"
                      ELSE \/ results[n] = [status |-> "OK", msg |-> MessageOf(script[n])]
                           \/ results[n].status = "THROWN"
    BY DEF ParsedAsSent
  <2> DEFINE k == IF n <= sent THEN n ELSE sent
  <2>0. sent \in Nat /\ n \in Nat /\ \A i \in 1..sent : script[i] \in Text
    BY Sizes DEF Turns
  <2>1. \A i \in 1..k : i \in 1..sent
    BY <2>0
  <2>2. \A i \in 1..k : Complete(script[i]) /\ ~Lax(script[i])
    BY DEF MessagesUpTo
  <2>3. \A i \in 1..k : Taken(script[i]) /\ FieldsOf(script[i]) = MessageOf(script[i])
    BY <2>0, <2>1, <2>2, SameFormat
  <2>4. TakenUpTo(k)
    BY <2>3 DEF TakenUpTo
  <2>5. IF n > sent THEN results[n].status # "OK"
        ELSE \/ results[n] = [status |-> "OK", msg |-> FieldsOf(script[n])]
             \/ results[n].status = "THROWN"
    BY <2>4 DEF Turns, TurnsAsTaken
  <2>6. ~(n > sent) => n \in 1..k
    BY <2>0
  <2> QED
    BY <2>3, <2>5, <2>6
<1> QED
  BY <1>1, <1>2, <1>3, PTL DEF Spec

-----------------------------------------------------------------------------
(***************************************************************************)
(* Decimal is defined by recursion.  That its equation has a solution is   *)
(* shown from the solutions up to a number, which agree with each other.   *)
(***************************************************************************)
DigitsOf(g, n) == IF n < 10 THEN <<48 + n>> ELSE g[n \div 10] \o <<48 + (n % 10)>>
UpToNumber(g, k) == g = [n \in 0..k |-> DigitsOf(g, n)]

LEMMA Tenth ==
  ASSUME NEW n \in Nat, ~(n < 10)
  PROVE  n \div 10 \in Nat /\ n \div 10 < n /\ n % 10 \in 0..9
OBVIOUS

LEMMA SolutionsAgree ==
  ASSUME NEW k \in Nat, NEW l \in Nat, NEW g, NEW h, UpToNumber(g, k), UpToNumber(h, l)
  PROVE  \A n \in Nat : n <= k /\ n <= l => g[n] = h[n]
<1> DEFINE S == {n \in Nat : n <= k /\ n <= l /\ g[n] # h[n]}
<1>1. SUFFICES ASSUME S # {} PROVE FALSE
  OBVIOUS
<1>2. PICK n \in S : \A m \in S : n <= m
  <2>1. S \in SUBSET Nat
    OBVIOUS
  <2> HIDE DEF S
  <2> QED
    BY <1>1, <2>1, LeastOf
<1>3. n \in Nat /\ n \in 0..k /\ n \in 0..l /\ g[n] # h[n]
  OBVIOUS
<1>4. g[n] = DigitsOf(g, n) /\ h[n] = DigitsOf(h, n)
  BY <1>3 DEF UpToNumber
<1>5. CASE n < 10
  BY <1>3, <1>4, <1>5 DEF DigitsOf
<1>6. CASE ~(n < 10)
  <2>1. n \div 10 \in Nat /\ n \div 10 < n
    BY <1>3, <1>6, Tenth
  <2>2. n \div 10 \notin S
    <3> HIDE DEF S
    <3> QED
      BY <1>2, <1>3, <2>1
  <2>3. g[n \div 10] = h[n \div 10]
    BY <1>3, <2>1, <2>2
  <2> QED
    BY <1>3, <1>4, <1>6, <2>3 DEF DigitsOf
<1> QED
  BY <1>5, <1>6

LEMMA Solutions == \A k \in Nat : \E g : UpToNumber(g, k)
<1> DEFINE S == {k \in Nat : ~\E g : UpToNumber(g, k)}
<1>1. SUFFICES ASSUME S # {} PROVE FALSE
  OBVIOUS
<1>2. PICK k \in S : \A m \in S : k <= m
  <2>1. S \in SUBSET Nat
    OBVIOUS
  <2> HIDE DEF S
  <2> QED
    BY <1>1, <2>1, LeastOf
<1>3. k \in Nat /\ ~\E g : UpToNumber(g, k)
  OBVIOUS
<1>4. PICK h : k > 0 => UpToNumber(h, k - 1)
  <2>1. k > 0 => k - 1 \in Nat /\ k - 1 \notin S
    <3> HIDE DEF S
    <3> QED
      BY <1>2, <1>3
  <2> QED
    BY <2>1
<1> DEFINE g == [n \in 0..k |-> DigitsOf(h, n)]
<1>5. ASSUME NEW n \in 0..k, ~(n < 10) PROVE g[n \div 10] = h[n \div 10]
  <2>1. n \in Nat /\ n \div 10 \in Nat /\ n \div 10 < n
    BY <1>3, <1>5, Tenth
  <2>2. k > 0 /\ n \div 10 \in 0..(k - 1) /\ n \div 10 \in 0..k
    BY <1>3, <2>1
  <2>3. h[n \div 10] = DigitsOf(h, n \div 10)
    BY <1>4, <2>2 DEF UpToNumber
  <2> QED
    BY <2>2, <2>3
<1>6. \A n \in 0..k : DigitsOf(h, n) = DigitsOf(g, n)
  <2> HIDE DEF g
  <2> QED
    BY <1>5 DEF DigitsOf
<1>7. UpToNumber(g, k)
  BY <1>6 DEF UpToNumber
<1> QED
  BY <1>3, <1>7

LEMMA DecimalIs == \A n \in Nat : Decimal[n] = DigitsOf(Decimal, n)
<1> DEFINE G(n) == CHOOSE g : UpToNumber(g, n)
           F == [n \in Nat |-> G(n)[n]]
<1>1. \A n \in Nat : UpToNumber(G(n), n)
  BY Solutions
<1> HIDE DEF G
<1>2. ASSUME NEW n \in Nat PROVE F[n] = DigitsOf(F, n)
  <2>1. F[n] = DigitsOf(G(n), n)
    <3>1. n \in 0..n
      OBVIOUS
    <3> QED
      BY <1>1, <3>1 DEF UpToNumber
  <2>2. ASSUME ~(n < 10) PROVE G(n)[n \div 10] = F[n \div 10]
    <3>1. n \div 10 \in Nat /\ n \div 10 <= n /\ n \div 10 <= n \div 10
      BY <2>2, Tenth
    <3>2. G(n)[n \div 10] = G(n \div 10)[n \div 10]
      BY <1>1, <3>1, SolutionsAgree
    <3> QED
      BY <3>1, <3>2
  <2> HIDE DEF F
  <2> QED
    BY <2>1, <2>2 DEF DigitsOf
<1>3. F = [n \in Nat |-> DigitsOf(F, n)]
  <2> DEFINE E == [n \in Nat |-> DigitsOf(F, n)]
  <2>1. \A n \in Nat : F[n] = E[n]
    BY <1>2
  <2> QED
    BY <2>1
<1>4. \E D : D = [n \in Nat |-> DigitsOf(D, n)]
  <2> HIDE DEF F
  <2> QED
    BY <1>3
<1>5. Decimal = CHOOSE D : D = [n \in Nat |-> DigitsOf(D, n)]
  BY DEF Decimal, DigitsOf
<1>6. Decimal = [n \in Nat |-> DigitsOf(Decimal, n)]
  BY <1>4, <1>5
<1> QED
  BY <1>6

LEMMA NumeralText == ASSUME NEW n \in Int PROVE Numeral(n) \in Text
<1> DEFINE S == {m \in Nat : Decimal[m] \notin Text}
<1>1. S = {}
  <2>1. SUFFICES ASSUME S # {} PROVE FALSE
    OBVIOUS
  <2>2. PICK m \in S : \A o \in S : m <= o
    <3>1. S \in SUBSET Nat
      OBVIOUS
    <3> HIDE DEF S
    <3> QED
      BY <2>1, <3>1, LeastOf
  <2>3. m \in Nat /\ Decimal[m] \notin Text /\ Decimal[m] = DigitsOf(Decimal, m)
    BY DecimalIs
  <2>4. CASE m < 10
    <3>1. <<48 + m>> \in Text
      BY <2>3, <2>4 DEF Text, Char
    <3> QED
      BY <2>3, <2>4, <3>1 DEF DigitsOf
  <2>5. CASE ~(m < 10)
    <3>1. m \div 10 \in Nat /\ m \div 10 < m /\ m % 10 \in 0..9
      BY <2>3, <2>5, Tenth
    <3>2. m \div 10 \notin S
      <4> HIDE DEF S
      <4> QED
        BY <2>2, <2>3, <3>1
    <3>3. Decimal[m \div 10] \in Text /\ <<48 + (m % 10)>> \in Text
      BY <3>1, <3>2 DEF Text, Char
    <3> QED
      BY <2>3, <2>5, <3>3, Joined DEF DigitsOf
  <2> QED
    BY <2>4, <2>5
<1>2. \A m \in Nat : Decimal[m] \in Text
  BY <1>1
<1> HIDE DEF S
<1>3. <<45>> \in Text
  BY DEF Text, Char
<1>4. CASE n < 0
  <2>1. -n \in Nat
    BY <1>4
  <2> QED
    BY <1>2, <1>3, <1>4, <2>1, Joined DEF Numeral
<1>5. CASE ~(n < 0)
  BY <1>2, <1>5 DEF Numeral
<1> QED
  BY <1>4, <1>5

(* What writeMessage sends.                                                *)
LEMMA WrittenText ==
  ASSUME NEW m, m.port \in Int, m.len \in Int, m.verb \in Text, m.body \in Text,
         ParserAssumption
  PROVE  Written(m) \in Text
<1>1. /\ Start \in Text /\ <<NL>> \in Text
      /\ Numeral(m.port) \in Text /\ Numeral(m.len) \in Text
  <2>1. Start \in Text
    BY DEF ParserAssumption
  <2>2. <<NL>> \in Text
    BY DEF NL, Text, Char
  <2> QED
    BY <2>1, <2>2, NumeralText
<1>2. \A a \in Text, b \in Text : a \o b \in Text
  BY Joined
<1>3. RawString(m) \in Text
  BY <1>1, <1>2 DEF RawString
<1> DEFINE r == RawString(m)
           e == RunEnd(r, 1, Char \ {NUL})
<1> HIDE DEF r
<1>4. e \in 0..Len(r) /\ r \in Text /\ Len(r) \in Nat
  BY <1>3, RunEnds, Counts DEF r
<1> HIDE DEF e
<1>5. SubSeq(r, 1, e) \in Text
  <2>1. \A i \in 1..e : r[i] \in Char
    BY <1>4 DEF Text
  <2> QED
    BY <1>4, <2>1, SubSeqProperties DEF Text
<1> QED
  BY <1>5 DEF Written, r, e

LEMMA OutStep ==
  ASSUME ParserAssumption, Flowing, out \in Text, [Next]_vars
  PROVE  out' \in Text
<1>1. CASE Forward
  <2> DEFINE m == results[Len(results)].msg
             r == Rules(m)
  <2>1. results \in Seq(Returned) /\ results # <<>>
    BY <1>1 DEF Flowing, Forward
  <2>2. results[Len(results)] \in Returned
    BY <2>1
  <2>3. m \in [port : Int32, verb : Text, len : Int32, body : Text]
    BY <2>2 DEF Returned
  <2> HIDE DEF m
  <2>4. Prefix \in Text /\ Prefix \o m.body \in Text /\ Len(Prefix) + Len(m.body) \in Int
        /\ m.port \in Int
    BY <2>3, Joined, Counts DEF ParserAssumption, Int32
  <2>5. r.port = m.port /\ r.verb = m.verb /\ r.body = Prefix \o m.body
        /\ r.len = Len(Prefix) + Len(m.body)
    BY <2>3 DEF Rules
  <2>6. Written(r) \in Text
    <3> HIDE DEF r
    <3> QED
      BY <2>3, <2>4, <2>5, WrittenText
  <2> QED
    BY <1>1, <2>6 DEF Forward, m
<1>2. CASE ~Forward
  BY <1>2 DEF Next, ReaderStep, Read, ReadEof, ReadThrows, ParseOn, ParseDone, ParseError,
              Return, Send, HangUp, vars
<1> QED
  BY <1>1, <1>2

(***************************************************************************)
(* Types: the numbers of a message that was returned fit an int, a parser  *)
(* stops before its fifth line ends and a parser at work has neither       *)
(* finished nor failed, and writeMessage sends a text.                     *)
(***************************************************************************)
THEOREM TypeCorrect == Spec => []TypeOK
<1>1. Init => Flowing /\ out \in Text
  BY FlowingInit, EmptyBegins, ParserAssumption DEF Init
<1>2. (Flowing /\ out \in Text) /\ [Next]_vars => (Flowing /\ out \in Text)'
  BY FlowingStep, OutStep, ParserAssumption
<1>3. Flowing /\ out \in Text => TypeOK
  BY DEF Flowing, TypeOK, ParserOK, Parsers, Reading
<1> QED
  BY <1>1, <1>2, <1>3, PTL DEF Spec

-----------------------------------------------------------------------------
(***************************************************************************)
(* FoldLeft is defined through a function of sets of indices.  That its    *)
(* equation has a solution is shown by adding one index at a time, for     *)
(* each of the two folds of the model; what is folded is then the last of  *)
(* a run, in which each step takes the next character.                     *)
(***************************************************************************)
LEMMA LargestIs ==
  ASSUME NEW k \in Nat, NEW S \in SUBSET (1..k), k \in S
  PROVE  Max(S) = k
<1>1. \A y \in S : k >= y
  OBVIOUS
<1>2. \A x \in S : (\A y \in S : x >= y) => x = k
  OBVIOUS
<1> QED
  BY <1>1, <1>2 DEF Max

ParseFold(g, s, k) ==
  g = [S \in SUBSET (1..k) |->
         IF S = {} THEN NewParser ELSE ParseChar(g[S \ {Max(S)}], s[Max(S)])]

LEMMA ParseFolds == ASSUME NEW s PROVE \A k \in Nat : \E g : ParseFold(g, s, k)
<1> DEFINE B == {k \in Nat : ~\E g : ParseFold(g, s, k)}
<1>1. SUFFICES ASSUME B # {} PROVE FALSE
  OBVIOUS
<1>2. PICK k \in B : \A m \in B : k <= m
  <2>1. B \in SUBSET Nat
    OBVIOUS
  <2> HIDE DEF B
  <2> QED
    BY <1>1, <2>1, LeastOf
<1>3. k \in Nat /\ ~\E g : ParseFold(g, s, k)
  OBVIOUS
<1>4. PICK h : k > 0 => ParseFold(h, s, k - 1)
  <2>1. k > 0 => k - 1 \in Nat /\ k - 1 \notin B
    <3> HIDE DEF B
    <3> QED
      BY <1>2, <1>3
  <2> QED
    BY <2>1
<1> DEFINE E(g, S) == IF S = {} THEN NewParser ELSE ParseChar(g[S \ {Max(S)}], s[Max(S)])
           g == [S \in SUBSET (1..k) |-> IF k \in S THEN ParseChar(h[S \ {k}], s[k]) ELSE
                                         IF S = {} THEN NewParser ELSE h[S]]
<1>5. ASSUME NEW S \in SUBSET (1..k), k \notin S, S # {} PROVE k > 0 /\ g[S] = h[S] /\ S \in SUBSET (1..(k - 1))
  <2>1. g[S] = h[S]
    BY <1>5
  <2>2. \A i \in S : i \in 1..(k - 1)
    BY <1>3, <1>5
  <2>3. PICK i : i \in S
    BY <1>5
  <2>4. k > 0
    BY <1>3, <2>2, <2>3
  <2> QED
    BY <2>1, <2>2, <2>4
<1>6. ASSUME NEW S \in SUBSET (1..k) PROVE g[S] = E(g, S)
  <2>1. CASE S = {}
    <3>1. k \notin S /\ S \in SUBSET (1..k)
      BY <2>1
    <3> QED
      BY <2>1, <3>1
  <2>2. CASE k \in S
    <3>1. Max(S) = k
      BY <1>3, <2>2, LargestIs
    <3>2. g[S] = ParseChar(h[S \ {k}], s[k])
      BY <2>2
    <3>3. S \ {k} \in SUBSET (1..k) /\ k \notin S \ {k} /\ k > 0
      BY <1>3, <2>2
    <3>4. h[S \ {k}] = g[S \ {k}]
      <4>1. CASE S \ {k} = {}
        <5>1. {} \in SUBSET (1..(k - 1)) /\ {} \in SUBSET (1..k)
          OBVIOUS
        <5>2. h[{}] = NewParser
          <6>1. ParseFold(h, s, k - 1)
            BY <1>4, <3>3
          <6> QED
            BY <5>1, <6>1 DEF ParseFold
        <5>3. g[{}] = NewParser
          BY <5>1
        <5> QED
          BY <4>1, <5>2, <5>3
      <4>2. CASE S \ {k} # {}
        BY <1>5, <3>3, <4>2
      <4> QED
        BY <4>1, <4>2
    <3> HIDE DEF g
    <3> QED
      BY <2>2, <3>1, <3>2, <3>4
  <2>3. CASE k \notin S /\ S # {}
    <3>1. k > 0 /\ g[S] = h[S] /\ S \in SUBSET (1..(k - 1)) /\ ParseFold(h, s, k - 1)
      BY <1>4, <1>5, <2>3
    <3>2. h[S] = E(h, S)
      BY <3>1 DEF ParseFold
    <3>3. h[S \ {Max(S)}] = g[S \ {Max(S)}]
      <4> DEFINE U == S \ {Max(S)}
      <4>1. U \in SUBSET (1..(k - 1)) /\ U \in SUBSET (1..k) /\ k \notin U
        <5>1. \A i \in 1..(k - 1) : i \in 1..k /\ i # k
          BY <1>3
        <5> QED
          BY <3>1, <5>1
      <4>2. CASE U = {}
        <5>1. h[U] = NewParser
          BY <3>1, <4>1, <4>2 DEF ParseFold
        <5>2. g[U] = NewParser
          BY <4>1, <4>2
        <5> QED
          BY <5>1, <5>2
      <4>3. CASE U # {}
        <5> HIDE DEF U, g
        <5>1. g[U] = h[U]
          BY <1>5, <4>1, <4>3
        <5> QED
          BY <5>1 DEF U
      <4> QED
        BY <4>2, <4>3
    <3> HIDE DEF g
    <3> QED
      BY <2>3, <3>1, <3>2, <3>3
  <2> QED
    BY <2>1, <2>2, <2>3
<1>7. g = [S \in SUBSET (1..k) |-> E(g, S)]
  <2> DEFINE F == [S \in SUBSET (1..k) |-> E(g, S)]
  <2>1. \A S \in SUBSET (1..k) : g[S] = F[S]
    BY <1>6
  <2>2. g = [S \in SUBSET (1..k) |-> g[S]]
    OBVIOUS
  <2> HIDE DEF g
  <2> QED
    BY <2>1, <2>2
<1>8. ParseFold(g, s, k)
  <2> HIDE DEF g
  <2> QED
    BY <1>7 DEF ParseFold
<1> QED
  BY <1>3, <1>8

(* The parsers in turn, of which the fold is the last.                     *)
LEMMA ParserRuns ==
  ASSUME NEW s \in Text
  PROVE  \E r : /\ r[0] = NewParser
                /\ \A k \in 1..Len(s) : r[k] = ParseChar(r[k - 1], s[k])
                /\ FoldLeft(ParseChar, NewParser, s) = r[Len(s)]
<1>0. Len(s) \in Nat /\ DOMAIN s = 1..Len(s)
  BY DEF Text
<1> DEFINE g == CHOOSE g : ParseFold(g, s, Len(s))
           r == [k \in 0..Len(s) |-> g[1..k]]
<1>1. ParseFold(g, s, Len(s))
  BY <1>0, ParseFolds
<1>2. FoldLeft(ParseChar, NewParser, s) = g[1..Len(s)]
  <2>1. FoldLeft(ParseChar, NewParser, s) = (CHOOSE h : ParseFold(h, s, Len(s)))[DOMAIN s]
    <3>1. FoldLeft(ParseChar, NewParser, s) =
            (CHOOSE h : h = [S \in SUBSET (DOMAIN s) |->
               IF S = {} THEN NewParser ELSE ParseChar(h[S \ {Max(S)}], s[Max(S)])])[DOMAIN s]
      BY DEF FoldLeft, MapThenFoldSet
    <3> QED
      BY <1>0, <3>1 DEF ParseFold
  <2> QED
    BY <1>0, <2>1
<1> HIDE DEF g
<1>3. r[0] = NewParser
  <2>1. g[{}] = NewParser /\ 1..0 = {} /\ 0 \in 0..Len(s)
    BY <1>0, <1>1 DEF ParseFold
  <2> QED
    BY <2>1
<1>4. ASSUME NEW k \in 1..Len(s) PROVE r[k] = ParseChar(r[k - 1], s[k])
  <2>1. k \in Nat /\ k \in 1..k /\ 1..k \in SUBSET (1..Len(s)) /\ 1..k # {}
        /\ k \in 0..Len(s) /\ k - 1 \in 0..Len(s) /\ (1..k) \ {k} = 1..(k - 1)
    <3>1. k \in Nat /\ k \in 1..k /\ k \in 0..Len(s) /\ k - 1 \in 0..Len(s)
      BY <1>0
    <3>2. \A i \in 1..k : i \in 1..Len(s)
      BY <1>0
    <3>3. \A i \in Int : i \in (1..k) \ {k} <=> i \in 1..(k - 1)
      BY <3>1
    <3>4. (1..k) \ {k} = 1..(k - 1)
      BY <3>3
    <3> QED
      BY <3>1, <3>2, <3>4
  <2>2. Max(1..k) = k
    BY <2>1, LargestIs
  <2>3. g[1..k] = ParseChar(g[(1..k) \ {k}], s[k])
    BY <1>1, <2>1, <2>2 DEF ParseFold
  <2> QED
    BY <2>1, <2>3
<1>5. FoldLeft(ParseChar, NewParser, s) = r[Len(s)]
  BY <1>0, <1>2
<1> QED
  BY <1>3, <1>4, <1>5
ValueFold(g, s, k) ==
  g = [S \in SUBSET (1..k) |->
         IF S = {} THEN 0 ELSE 10 * g[S \ {Max(S)}] + (s[Max(S)] - 48)]

LEMMA ValueFolds == ASSUME NEW s PROVE \A k \in Nat : \E g : ValueFold(g, s, k)
<1> DEFINE B == {k \in Nat : ~\E g : ValueFold(g, s, k)}
<1>1. SUFFICES ASSUME B # {} PROVE FALSE
  OBVIOUS
<1>2. PICK k \in B : \A m \in B : k <= m
  <2>1. B \in SUBSET Nat
    OBVIOUS
  <2> HIDE DEF B
  <2> QED
    BY <1>1, <2>1, LeastOf
<1>3. k \in Nat /\ ~\E g : ValueFold(g, s, k)
  OBVIOUS
<1>4. PICK h : k > 0 => ValueFold(h, s, k - 1)
  <2>1. k > 0 => k - 1 \in Nat /\ k - 1 \notin B
    <3> HIDE DEF B
    <3> QED
      BY <1>2, <1>3
  <2> QED
    BY <2>1
<1> DEFINE E(g, S) == IF S = {} THEN 0 ELSE 10 * g[S \ {Max(S)}] + (s[Max(S)] - 48)
           g == [S \in SUBSET (1..k) |-> IF k \in S THEN 10 * h[S \ {k}] + (s[k] - 48) ELSE
                                         IF S = {} THEN 0 ELSE h[S]]
<1>5. ASSUME NEW S \in SUBSET (1..k), k \notin S, S # {} PROVE k > 0 /\ g[S] = h[S] /\ S \in SUBSET (1..(k - 1))
  <2>1. g[S] = h[S]
    BY <1>5
  <2>2. \A i \in S : i \in 1..(k - 1)
    BY <1>3, <1>5
  <2>3. PICK i : i \in S
    BY <1>5
  <2>4. k > 0
    BY <1>3, <2>2, <2>3
  <2> QED
    BY <2>1, <2>2, <2>4
<1>6. ASSUME NEW S \in SUBSET (1..k) PROVE g[S] = E(g, S)
  <2>1. CASE S = {}
    <3>1. k \notin S /\ S \in SUBSET (1..k)
      BY <2>1
    <3> QED
      BY <2>1, <3>1
  <2>2. CASE k \in S
    <3>1. Max(S) = k
      BY <1>3, <2>2, LargestIs
    <3>2. g[S] = 10 * h[S \ {k}] + (s[k] - 48)
      BY <2>2
    <3>3. S \ {k} \in SUBSET (1..k) /\ k \notin S \ {k} /\ k > 0
      BY <1>3, <2>2
    <3>4. h[S \ {k}] = g[S \ {k}]
      <4>1. CASE S \ {k} = {}
        <5>1. {} \in SUBSET (1..(k - 1)) /\ {} \in SUBSET (1..k)
          OBVIOUS
        <5>2. h[{}] = 0
          <6>1. ValueFold(h, s, k - 1)
            BY <1>4, <3>3
          <6> QED
            BY <5>1, <6>1 DEF ValueFold
        <5>3. g[{}] = 0
          BY <5>1
        <5> QED
          BY <4>1, <5>2, <5>3
      <4>2. CASE S \ {k} # {}
        BY <1>5, <3>3, <4>2
      <4> QED
        BY <4>1, <4>2
    <3> HIDE DEF g
    <3> QED
      BY <2>2, <3>1, <3>2, <3>4
  <2>3. CASE k \notin S /\ S # {}
    <3>1. k > 0 /\ g[S] = h[S] /\ S \in SUBSET (1..(k - 1)) /\ ValueFold(h, s, k - 1)
      BY <1>4, <1>5, <2>3
    <3>2. h[S] = E(h, S)
      BY <3>1 DEF ValueFold
    <3>3. h[S \ {Max(S)}] = g[S \ {Max(S)}]
      <4> DEFINE U == S \ {Max(S)}
      <4>1. U \in SUBSET (1..(k - 1)) /\ U \in SUBSET (1..k) /\ k \notin U
        <5>1. \A i \in 1..(k - 1) : i \in 1..k /\ i # k
          BY <1>3
        <5> QED
          BY <3>1, <5>1
      <4>2. CASE U = {}
        <5>1. h[U] = 0
          BY <3>1, <4>1, <4>2 DEF ValueFold
        <5>2. g[U] = 0
          BY <4>1, <4>2
        <5> QED
          BY <5>1, <5>2
      <4>3. CASE U # {}
        <5> HIDE DEF U, g
        <5>1. g[U] = h[U]
          BY <1>5, <4>1, <4>3
        <5> QED
          BY <5>1 DEF U
      <4> QED
        BY <4>2, <4>3
    <3> HIDE DEF g
    <3> QED
      BY <2>3, <3>1, <3>2, <3>3
  <2> QED
    BY <2>1, <2>2, <2>3
<1>7. g = [S \in SUBSET (1..k) |-> E(g, S)]
  <2> DEFINE F == [S \in SUBSET (1..k) |-> E(g, S)]
  <2>1. \A S \in SUBSET (1..k) : g[S] = F[S]
    BY <1>6
  <2>2. g = [S \in SUBSET (1..k) |-> g[S]]
    OBVIOUS
  <2> HIDE DEF g
  <2> QED
    BY <2>1, <2>2
<1>8. ValueFold(g, s, k)
  <2> HIDE DEF g
  <2> QED
    BY <1>7 DEF ValueFold
<1> QED
  BY <1>3, <1>8

(* And the numbers.                                                        *)
LEMMA ValueRuns ==
  ASSUME NEW s \in Seq(Digits)
  PROVE  \E r : /\ r[0] = 0
                /\ \A k \in 1..Len(s) : r[k] = 10 * r[k - 1] + (s[k] - 48)
                /\ ValueOf(s) = r[Len(s)]
<1>0. Len(s) \in Nat /\ DOMAIN s = 1..Len(s)
  OBVIOUS
<1> DEFINE g == CHOOSE g : ValueFold(g, s, Len(s))
           r == [k \in 0..Len(s) |-> g[1..k]]
<1>1. ValueFold(g, s, Len(s))
  BY <1>0, ValueFolds
<1>2. ValueOf(s) = g[1..Len(s)]
  <2>1. ValueOf(s) = (CHOOSE h : ValueFold(h, s, Len(s)))[DOMAIN s]
    <3>1. ValueOf(s) =
            (CHOOSE h : h = [S \in SUBSET (DOMAIN s) |->
               IF S = {} THEN 0 ELSE 10 * h[S \ {Max(S)}] + (s[Max(S)] - 48)])[DOMAIN s]
      BY DEF ValueOf, FoldLeft, MapThenFoldSet
    <3> QED
      BY <1>0, <3>1 DEF ValueFold
  <2> QED
    BY <1>0, <2>1
<1> HIDE DEF g
<1>3. r[0] = 0
  <2>1. g[{}] = 0 /\ 1..0 = {} /\ 0 \in 0..Len(s)
    BY <1>0, <1>1 DEF ValueFold
  <2> QED
    BY <2>1
<1>4. ASSUME NEW k \in 1..Len(s) PROVE r[k] = 10 * r[k - 1] + (s[k] - 48)
  <2>1. k \in Nat /\ k \in 1..k /\ 1..k \in SUBSET (1..Len(s)) /\ 1..k # {}
        /\ k \in 0..Len(s) /\ k - 1 \in 0..Len(s) /\ (1..k) \ {k} = 1..(k - 1)
    <3>1. k \in Nat /\ k \in 1..k /\ k \in 0..Len(s) /\ k - 1 \in 0..Len(s)
      BY <1>0
    <3>2. \A i \in 1..k : i \in 1..Len(s)
      BY <1>0
    <3>3. \A i \in Int : i \in (1..k) \ {k} <=> i \in 1..(k - 1)
      BY <3>1
    <3>4. (1..k) \ {k} = 1..(k - 1)
      BY <3>3
    <3> QED
      BY <3>1, <3>2, <3>4
  <2>2. Max(1..k) = k
    BY <2>1, LargestIs
  <2>3. g[1..k] = 10 * g[(1..k) \ {k}] + (s[k] - 48)
    BY <1>1, <2>1, <2>2 DEF ValueFold
  <2> QED
    BY <2>1, <2>3
<1>5. ValueOf(s) = r[Len(s)]
  BY <1>0, <1>2
<1> QED
  BY <1>3, <1>4, <1>5

(* A parser that is given a text of which no first part is a message or    *)
(* wrong has seen all of it at the end, and agrees with the format.        *)
Back(s)     == FoldLeft(ParseChar, NewParser, s)
First(s, k) == SubSeq(s, 1, k)

LEMMA FirstOf ==
  ASSUME NEW s \in Text, NEW k \in 0..Len(s)
  PROVE  /\ First(s, k) \in Text /\ Len(First(s, k)) = k /\ Begins(First(s, k), s)
         /\ k = 0 => First(s, k) = <<>>
         /\ k = Len(s) => First(s, k) = s
         /\ k > 0 => s[k] \in Char /\ First(s, k) = Append(First(s, k - 1), s[k])
<1>0. Len(s) \in Nat /\ k \in Nat /\ k <= Len(s)
  BY Counts
<1>1. \A j \in 0..Len(s) : /\ SubSeq(s, 0 + 1, j) \in Text /\ Len(SubSeq(s, 0 + 1, j)) = j - 0
                           /\ \A i \in 1..(j - 0) : SubSeq(s, 0 + 1, j)[i] = s[0 + i]
  <2> SUFFICES ASSUME NEW j \in 0..Len(s)
               PROVE  /\ SubSeq(s, 0 + 1, j) \in Text /\ Len(SubSeq(s, 0 + 1, j)) = j - 0
                      /\ \A i \in 1..(j - 0) : SubSeq(s, 0 + 1, j)[i] = s[0 + i]
    OBVIOUS
  <2>1. 0 \in Nat /\ j \in Nat /\ 0 <= j /\ j <= Len(s)
    BY <1>0
  <2> QED
    BY <2>1, PartOf
<1>2. \A j \in 0..Len(s) : /\ First(s, j) \in Text /\ Len(First(s, j)) = j
                           /\ \A i \in 1..j : First(s, j)[i] = s[i]
  BY <1>1 DEF First
<1>3. Begins(First(s, k), s)
  BY <1>0, <1>2 DEF Begins
<1>4. k = 0 => First(s, k) = <<>>
  BY <1>0, SubSeqEmpty DEF First
<1>5. k = Len(s) => First(s, k) = s
  BY <1>2, TextEqual
<1>6. ASSUME k > 0 PROVE s[k] \in Char /\ First(s, k) = Append(First(s, k - 1), s[k])
  <2>1. k \in 1..Len(s) /\ k - 1 \in 0..Len(s) /\ k \in 0..Len(s) /\ (k - 1) + 1 = k
    BY <1>0, <1>6
  <2>2. s[k] \in Char
    BY <2>1 DEF Text
  <2> DEFINE a == First(s, k - 1)
             b == Append(a, s[k])
  <2>3. a \in Text /\ Len(a) = k - 1 /\ \A i \in 1..(k - 1) : a[i] = s[i]
    BY <1>2, <2>1
  <2>4. b \in Text /\ Len(b) = k /\ b[k] = s[k] /\ \A i \in 1..(k - 1) : b[i] = a[i]
    <3>1. a \in Text
      BY <2>3
    <3>2. /\ b \in Text /\ Len(b) = Len(a) + 1 /\ b[Len(a) + 1] = s[k]
          /\ Begins(a, b)
      <4> HIDE DEF a
      <4> QED
        BY <2>2, <3>1, OneMore
    <3> HIDE DEF a, b
    <3>3. \A i \in 1..Len(a) : b[i] = a[i]
      BY <3>2 DEF Begins
    <3> QED
      BY <2>1, <2>3, <3>2, <3>3
  <2>5. First(s, k) \in Text /\ Len(First(s, k)) = k /\ \A i \in 1..k : First(s, k)[i] = s[i]
    BY <1>2, <2>1
  <2> HIDE DEF a, b
  <2>6. \A i \in 1..k : First(s, k)[i] = b[i]
    BY <1>0, <2>3, <2>4, <2>5
  <2>7. First(s, k) = b
    BY <2>4, <2>5, <2>6, TextEqual
  <2> QED
    BY <2>2, <2>7 DEF a, b
<1> QED
  BY <1>2, <1>3, <1>4, <1>5, <1>6

Undecided(s, k) == ~Taken(First(s, k)) /\ ~Refused(First(s, k))

(* The parsers of a run are all in the middle of the text.                 *)
LEMMA ReadThrough ==
  ASSUME ParserAssumption, NEW s \in Text, NEW r, r[0] = NewParser,
         \A k \in 1..Len(s) : r[k] = ParseChar(r[k - 1], s[k]),
         \A k \in 0..(Len(s) - 1) : Undecided(s, k)
  PROVE  \A k \in 0..(Len(s) - 1) : Reading(r[k]) /\ r[k].seen = First(s, k)
<1> DEFINE Bad == {k \in 0..(Len(s) - 1) : ~(Reading(r[k]) /\ r[k].seen = First(s, k))}
<1>0. Len(s) \in Nat
  BY Counts
<1>1. SUFFICES ASSUME Bad # {} PROVE FALSE
  OBVIOUS
<1>2. PICK k \in Bad : \A m \in Bad : k <= m
  <2>1. Bad \in SUBSET Nat
    BY <1>0
  <2> HIDE DEF Bad
  <2> QED
    BY <1>1, <2>1, LeastOf
<1>3. k \in 0..(Len(s) - 1) /\ ~(Reading(r[k]) /\ r[k].seen = First(s, k))
  OBVIOUS
<1>4. k # 0
  <2>1. First(s, 0) = <<>>
    BY <1>0, FirstOf
  <2> QED
    BY <1>3, <2>1, NewReads DEF NewParser
<1>5. k - 1 \in 0..(Len(s) - 1) /\ k \in 1..Len(s) /\ k > 0 /\ k \in 0..Len(s) /\ ~(k <= k - 1)
  BY <1>0, <1>3, <1>4
<1>6. Reading(r[k - 1]) /\ r[k - 1].seen = First(s, k - 1)
  <2>1. k - 1 \notin Bad
    <3> HIDE DEF Bad
    <3> QED
      BY <1>2, <1>5
  <2> QED
    BY <1>5, <2>1
<1> HIDE DEF Bad
<1>7. s[k] \in Char /\ First(s, k) = Append(First(s, k - 1), s[k]) /\ r[k] = ParseChar(r[k - 1], s[k])
  BY <1>5, FirstOf
<1>8. Parsed(r[k - 1], s[k])
  BY <1>6, <1>7, CharParsed
<1>9. r[k].seen = First(s, k) /\ Agrees(r[k]) /\ (~r[k].done /\ ~r[k].bad => Reading(r[k]))
  BY <1>6, <1>7, <1>8 DEF Parsed
<1>10. ~r[k].done /\ ~r[k].bad
  BY <1>3, <1>9 DEF Agrees, Undecided
<1> QED
  BY <1>3, <1>9, <1>10

(* And the last one has seen it all.                                       *)
LEMMA ReadWhole ==
  ASSUME ParserAssumption, NEW s \in Text, \A k \in 0..(Len(s) - 1) : Undecided(s, k)
  PROVE  Back(s).seen = s /\ Agrees(Back(s)) /\ ~(Back(s).done /\ Back(s).bad)
<1>0. Len(s) \in Nat /\ First(s, Len(s)) = s
  <2>1. Len(s) \in Nat /\ Len(s) \in 0..Len(s)
    BY Counts
  <2> QED
    BY <2>1, FirstOf
<1>1. PICK r : /\ r[0] = NewParser
               /\ \A k \in 1..Len(s) : r[k] = ParseChar(r[k - 1], s[k])
               /\ Back(s) = r[Len(s)]
  BY ParserRuns DEF Back
<1>2. \A k \in 0..(Len(s) - 1) : Reading(r[k]) /\ r[k].seen = First(s, k)
  BY <1>1, ReadThrough
<1>3. CASE Len(s) = 0
  <2>1. First(s, 0) = <<>> /\ First(s, 0) = s
    BY <1>0, <1>3, FirstOf
  <2>2. Back(s) = NewParser
    BY <1>1, <1>3
  <2> QED
    BY <2>1, <2>2, NewReads, ReadingAgrees DEF NewParser
<1>4. CASE Len(s) # 0
  <2> DEFINE k == Len(s)
  <2>1. k \in 1..Len(s) /\ k - 1 \in 0..(Len(s) - 1) /\ k > 0 /\ k \in 0..Len(s)
    BY <1>0, <1>4
  <2>2. Reading(r[k - 1]) /\ r[k - 1].seen = First(s, k - 1) /\ r[k] = ParseChar(r[k - 1], s[k])
    BY <1>1, <1>2, <2>1
  <2>3. s[k] \in Char /\ s = Append(First(s, k - 1), s[k])
    BY <1>0, <2>1, FirstOf
  <2>4. Parsed(r[k - 1], s[k])
    BY <2>2, <2>3, CharParsed
  <2>5. r[k].seen = s /\ Agrees(r[k]) /\ ~(r[k].done /\ r[k].bad)
    BY <2>2, <2>3, <2>4 DEF Parsed
  <2> QED
    BY <1>1, <2>5
<1> QED
  BY <1>3, <1>4

(***************************************************************************)
(* A parser that is given what a whole message begins with is done with    *)
(* that message if it was all of it, and waits for the rest if not.        *)
(***************************************************************************)
LEMMA BackRead ==
  ASSUME ParserAssumption, NEW c \in Text, Taken(c), NEW t \in Text, Begins(t, c)
  PROVE  /\ ~Back(t).bad
         /\ Back(t).done <=> t = c
         /\ t = c => Message(Back(t)) = FieldsOf(c)
<1>0. Len(t) \in Nat /\ Len(c) \in Nat /\ Len(t) <= Len(c)
  BY Counts DEF Begins
<1>1. ASSUME NEW k \in 0..(Len(t) - 1) PROVE Undecided(t, k)
  <2>1. k \in 0..Len(t) /\ k < Len(c)
    BY <1>0
  <2>2. First(t, k) \in Text /\ Len(First(t, k)) = k /\ Begins(First(t, k), t)
    BY <2>1, FirstOf
  <2>3. Begins(First(t, k), c)
    BY <1>0, <2>1, <2>2 DEF Begins
  <2>4. First(t, k) # c
    BY <1>0, <2>1, <2>2
  <2> QED
    BY <2>2, <2>3, <2>4, CompleteOnce DEF Undecided
<1>2. Back(t).seen = t /\ Agrees(Back(t))
  BY <1>1, ReadWhole
<1>3. ~Refused(t) /\ (Taken(t) => t = c)
  BY CompleteOnce
<1> QED
  BY <1>2, <1>3 DEF Agrees

-----------------------------------------------------------------------------
(***************************************************************************)
(* std::stoi reads back what std::to_string wrote.                         *)
(***************************************************************************)
Run(r, s) == r[0] = 0 /\ \A k \in 1..Len(s) : r[k] = 10 * r[k - 1] + (s[k] - 48)

(* There is one run for each text of digits.                               *)
LEMMA ValueIs ==
  ASSUME NEW s \in Seq(Digits), NEW r, Run(r, s)
  PROVE  ValueOf(s) = r[Len(s)]
<1>1. PICK q : Run(q, s) /\ ValueOf(s) = q[Len(s)]
  BY ValueRuns DEF Run
<1> DEFINE Bad == {k \in 0..Len(s) : q[k] # r[k]}
<1>0. Len(s) \in Nat
  OBVIOUS
<1>2. Bad = {}
  <2> SUFFICES ASSUME Bad # {} PROVE FALSE
    OBVIOUS
  <2>1. PICK k \in Bad : \A m \in Bad : k <= m
    <3>1. Bad \in SUBSET Nat
      BY <1>0
    <3> HIDE DEF Bad
    <3> QED
      BY <3>1, LeastOf
  <2>2. k \in 0..Len(s) /\ q[k] # r[k]
    OBVIOUS
  <2>3. k # 0
    BY <1>1, <2>2 DEF Run
  <2>4. k \in 1..Len(s) /\ k - 1 \in 0..Len(s) /\ ~(k <= k - 1)
    BY <1>0, <2>2, <2>3
  <2>5. k - 1 \notin Bad
    <3> HIDE DEF Bad
    <3> QED
      BY <2>1, <2>4
  <2>6. q[k - 1] = r[k - 1]
    BY <2>4, <2>5
  <2>7. q[k] = 10 * q[k - 1] + (s[k] - 48) /\ r[k] = 10 * r[k - 1] + (s[k] - 48)
    BY <1>1, <2>4 DEF Run
  <2> QED
    BY <2>2, <2>6, <2>7
<1>3. Len(s) \in 0..Len(s)
  BY <1>0
<1> QED
  BY <1>1, <1>2, <1>3

(* The digits of a number, whose value is that number.                     *)
Spelled(n) == /\ Decimal[n] \in Seq(Digits) /\ Decimal[n] # <<>>
              /\ \E r : Run(r, Decimal[n]) /\ r[Len(Decimal[n])] = n

LEMMA AllSpelled == \A n \in Nat : Spelled(n)
<1> DEFINE Bad == {n \in Nat : ~Spelled(n)}
<1>1. SUFFICES ASSUME Bad # {} PROVE FALSE
  OBVIOUS
<1>2. PICK n \in Bad : \A m \in Bad : n <= m
  <2>1. Bad \in SUBSET Nat
    OBVIOUS
  <2> HIDE DEF Bad
  <2> QED
    BY <1>1, <2>1, LeastOf
<1>3. n \in Nat /\ ~Spelled(n) /\ Decimal[n] = DigitsOf(Decimal, n)
  BY DecimalIs
<1>4. CASE n < 10
  <2>1. Decimal[n] = <<48 + n>>
    BY <1>3, <1>4 DEF DigitsOf
  <2>2. 48 + n \in Digits
    BY <1>3, <1>4 DEF Digits
  <2>3. Decimal[n] \in Seq(Digits) /\ Decimal[n] # <<>> /\ Len(Decimal[n]) = 1 /\ Decimal[n][1] = 48 + n
    BY <2>1, <2>2
  <2> DEFINE r == [k \in 0..1 |-> IF k = 0 THEN 0 ELSE n]
  <2>4. r[0] = 0 /\ r[1] = n
    OBVIOUS
  <2> HIDE DEF r
  <2>5. Run(r, Decimal[n])
    BY <1>3, <2>3, <2>4 DEF Run
  <2>6. Spelled(n)
    BY <2>3, <2>4, <2>5 DEF Spelled
  <2> QED
    BY <1>3, <2>6
<1>5. CASE ~(n < 10)
  <2> DEFINE m == n \div 10
             c == 48 + (n % 10)
             d == Decimal[m]
  <2>1. m \in Nat /\ m < n /\ n % 10 \in 0..9 /\ n = 10 * m + (n % 10)
    BY <1>3, <1>5, Tenth
  <2>2. Spelled(m)
    <3>1. m \notin Bad
      <4> HIDE DEF Bad
      <4> QED
        BY <1>2, <1>3, <2>1
    <3> QED
      BY <2>1, <3>1
  <2>3. c \in Digits /\ c - 48 = n % 10
    BY <2>1 DEF Digits
  <2>4. Decimal[n] = d \o <<c>>
    BY <1>3, <1>5 DEF DigitsOf
  <2>5. PICK q : d \in Seq(Digits) /\ Run(q, d) /\ q[Len(d)] = m
    BY <2>2 DEF Spelled
  <2> HIDE DEF c, d, m
  <2>6. Decimal[n] = Append(d, c)
    BY <2>3, <2>4, <2>5, AppendIsConcat
  <2>7. /\ Decimal[n] \in Seq(Digits) /\ Decimal[n] # <<>> /\ Len(Decimal[n]) = Len(d) + 1
        /\ \A k \in 1..Len(d) : Decimal[n][k] = d[k]
        /\ Decimal[n][Len(d) + 1] = c /\ Len(d) \in Nat
    BY <2>3, <2>5, <2>6, AppendProperties
  <2> DEFINE r == [k \in 0..(Len(d) + 1) |-> IF k <= Len(d) THEN q[k] ELSE n]
  <2>8. r[Len(d) + 1] = n /\ \A k \in 0..Len(d) : r[k] = q[k]
    BY <2>7
  <2> HIDE DEF r
  <2>9. r[0] = 0 /\ r[Len(d)] = m
    BY <2>5, <2>7, <2>8 DEF Run
  <2>10. ASSUME NEW k \in 1..(Len(d) + 1)
         PROVE  r[k] = 10 * r[k - 1] + (Decimal[n][k] - 48)
    <3>1. CASE k = Len(d) + 1
      <4>1. k - 1 = Len(d)
        BY <2>7, <3>1
      <4> QED
        BY <2>1, <2>3, <2>7, <2>8, <2>9, <3>1, <4>1
    <3>2. CASE k # Len(d) + 1
      <4>1. k \in 1..Len(d) /\ k \in 0..Len(d) /\ k - 1 \in 0..Len(d)
        BY <2>7, <3>2
      <4> QED
        BY <2>5, <2>7, <2>8, <4>1 DEF Run
    <3> QED
      BY <3>1, <3>2
  <2>11. Run(r, Decimal[n])
    BY <2>7, <2>9, <2>10 DEF Run
  <2>12. Spelled(n)
    BY <2>7, <2>8, <2>11 DEF Spelled
  <2> QED
    BY <1>3, <2>12
<1> QED
  BY <1>4, <1>5

LEMMA DigitsText == ASSUME NEW d \in Seq(Digits) PROVE d \in Text /\ \A i \in 1..Len(d) : d[i] \in Digits
<1>1. \A i \in 1..Len(d) : d[i] \in Digits /\ d[i] \in Char
  BY DEF Digits, Char
<1> QED
  BY <1>1 DEF Text

(* The characters of a numeral.                                            *)
LEMMA NumeralChars ==
  ASSUME NEW n \in Int
  PROVE  /\ Numeral(n) \in Text /\ Len(Numeral(n)) > 0
         /\ \A i \in 1..Len(Numeral(n)) : Numeral(n)[i] \in Digits \cup {45}
<1>1. CASE n < 0
  <2> DEFINE d == Decimal[-n]
  <2>1. d \in Seq(Digits) /\ d # <<>> /\ Numeral(n) = <<45>> \o d /\ <<45>> \in Text
    <3>1. -n \in Nat
      BY <1>1
    <3> QED
      BY <1>1, <3>1, AllSpelled DEF Spelled, Numeral, Text, Char
  <2>2. d \in Text /\ \A i \in 1..Len(d) : d[i] \in Digits
    BY <2>1, DigitsText
  <2> HIDE DEF d
  <2>3. Len(Numeral(n)) = 1 + Len(d) /\ Numeral(n) \in Text /\ Len(d) \in Nat
        /\ \A i \in 1..(1 + Len(d)) : Numeral(n)[i] = IF i <= 1 THEN 45 ELSE d[i - 1]
    BY <2>1, <2>2, ConcatProperties DEF Text
  <2>4. \A i \in 1..(1 + Len(d)) : i <= 1 \/ i - 1 \in 1..Len(d)
    BY <2>3
  <2> QED
    BY <2>2, <2>3, <2>4
<1>2. CASE ~(n < 0)
  <2>1. n \in Nat /\ Numeral(n) = Decimal[n]
    BY <1>2 DEF Numeral
  <2>2. Decimal[n] \in Seq(Digits) /\ Decimal[n] # <<>>
    BY <2>1, AllSpelled DEF Spelled
  <2> QED
    BY <2>1, <2>2, DigitsText
<1> QED
  BY <1>1, <1>2

(* strtol takes no blank, the sign if there is one, and all the digits.    *)
LEMMA ReadNumeral == ASSUME NEW n \in Int PROVE Strtol(Numeral(n)) = [found |-> TRUE, value |-> n]
<1> DEFINE s == Numeral(n)
           m == IF n < 0 THEN -n ELSE n
           d == Decimal[m]
           first == IF n < 0 THEN 2 ELSE 1
<1>1. m \in Nat
  OBVIOUS
<1>2. d \in Seq(Digits) /\ d # <<>> /\ \E r : Run(r, d) /\ r[Len(d)] = m
  <2> HIDE DEF m
  <2> QED
    BY <1>1, AllSpelled DEF Spelled
<1>3. ValueOf(d) = m /\ d \in Text /\ Len(d) \in Nat /\ Len(d) > 0
      /\ \A i \in 1..Len(d) : d[i] \in Digits
  <2> HIDE DEF d, m
  <2> QED
    BY <1>2, ValueIs, DigitsText
<1>4. s \in Text /\ Len(s) > 0 /\ Len(s) \in Nat
  BY NumeralChars, Counts
<1>5. n < 0 => Len(s) = Len(d) + 1 /\ s[1] = 45 /\ \A i \in 1..Len(d) : s[i + 1] = d[i]
  <2> SUFFICES ASSUME n < 0
               PROVE  Len(s) = Len(d) + 1 /\ s[1] = 45 /\ \A i \in 1..Len(d) : s[i + 1] = d[i]
    OBVIOUS
  <2>1. s = <<45>> \o d
    BY DEF Numeral
  <2> HIDE DEF d, s
  <2>2. /\ Len(s) = 1 + Len(d)
        /\ \A i \in 1..(1 + Len(d)) : s[i] = IF i <= 1 THEN 45 ELSE d[i - 1]
    <3>1. <<45>> \in Seq(Char) /\ d \in Seq(Char) /\ Len(<<45>>) = 1 /\ <<45>>[1] = 45
      BY <1>3 DEF Char, Text
    <3> QED
      BY <1>3, <2>1, <3>1, ConcatProperties
  <2>3. \A i \in 1..Len(d) : i + 1 \in 1..(1 + Len(d)) /\ ~(i + 1 <= 1) /\ (i + 1) - 1 = i
    BY <1>3
  <2> QED
    BY <1>3, <2>2, <2>3
<1>6. ~(n < 0) => s = d
  BY DEF Numeral
<1>7. \A i \in first..Len(s) : s[i] \in Digits
  <2>1. CASE n < 0
    <3>1. \A i \in first..Len(s) : i - 1 \in 1..Len(d) /\ (i - 1) + 1 = i
      BY <1>3, <1>4, <1>5, <2>1
    <3>2. \A i \in first..Len(s) : s[(i - 1) + 1] = d[i - 1]
      <4> HIDE DEF s, d, first
      <4> QED
        BY <1>5, <2>1, <3>1
    <3> HIDE DEF s, d, first
    <3> QED
      BY <1>3, <3>1, <3>2
  <2>2. CASE ~(n < 0)
    <3>1. first = 1
      BY <2>2
    <3> HIDE DEF s, d, first
    <3> QED
      BY <1>3, <1>6, <2>2, <3>1
  <2> QED
    BY <2>1, <2>2
<1>8. SubSeq(s, first, Len(s)) = d
  <2>1. CASE n < 0
    <3>1. first = 1 + 1
      BY <2>1
    <3> HIDE DEF s, d, first
    <3>2. 1 \in Nat /\ 1 <= Len(s) /\ Len(s) <= Len(s) /\ Len(s) - 1 = Len(d)
      BY <1>3, <1>4, <1>5, <2>1
    <3>3. /\ SubSeq(s, 1 + 1, Len(s)) \in Text /\ Len(SubSeq(s, 1 + 1, Len(s))) = Len(s) - 1
          /\ \A i \in 1..(Len(s) - 1) : SubSeq(s, 1 + 1, Len(s))[i] = s[1 + i]
      BY <1>4, <3>2, PartOf
    <3>4. \A i \in 1..Len(d) : SubSeq(s, 1 + 1, Len(s))[i] = d[i]
      BY <1>3, <1>5, <2>1, <3>2, <3>3
    <3>5. SubSeq(s, 1 + 1, Len(s)) = d
      BY <1>3, <3>2, <3>3, <3>4, TextEqual
    <3> QED
      BY <3>1, <3>5
  <2>2. CASE ~(n < 0)
    <3>1. first = 1
      BY <2>2
    <3> HIDE DEF s, d, first
    <3>2. s \in Seq(Char)
      BY <1>4 DEF Text
    <3>3. SubSeq(s, 1, Len(s)) = s
      BY <3>2, SubSeqFull
    <3> QED
      BY <1>6, <2>2, <3>1, <3>3
  <2> QED
    BY <2>1, <2>2
<1>9. s[1] = 45 \/ s[1] \in Digits
  BY <1>3, <1>5, <1>6
<1>10. (s[1] \in Signs <=> n < 0) /\ s[1] \notin Blanks
  <2>1. ~(n < 0) => s[1] \in Digits
    BY <1>3, <1>6
  <2> HIDE DEF s
  <2> QED
    BY <1>5, <1>9, <2>1 DEF Signs, Digits, Blanks
<1> HIDE DEF s, d, m
<1>11. RunEnd(s, 1, Blanks) = 0
  <2>1. 0 \in (1 - 1)..Len(s) /\ (\A j \in 1..0 : s[j] \in Blanks) /\ s[0 + 1] \notin Blanks
        /\ 1 \in Nat \ {0}
    BY <1>4, <1>10
  <2> QED
    BY ONLY <1>4, <2>1, RunEndIs
<1>12. RunEnd(s, first, Digits) = Len(s)
  <2>1. first \in Nat \ {0} /\ Len(s) \in (first - 1)..Len(s)
    BY <1>3, <1>4, <1>5
  <2> HIDE DEF first
  <2> QED
    BY <1>4, <1>7, <2>1, RunEndIs
<1>13. (0 < Len(s) /\ s[0 + 1] \in Signs) <=> n < 0
  BY <1>4, <1>10
<1>14. Strtol(s) = [found |-> d # <<>>, value |-> IF n < 0 /\ s[1] = 45 THEN -ValueOf(d) ELSE ValueOf(d)]
  <2> DEFINE blanks == RunEnd(s, 1, Blanks)
             signed == blanks < Len(s) /\ s[blanks + 1] \in Signs
             begin  == IF signed THEN blanks + 2 ELSE blanks + 1
             digits == SubSeq(s, begin, RunEnd(s, begin, Digits))
  <2>1. Strtol(s) = [found |-> digits # <<>>,
                     value |-> IF signed /\ s[blanks + 1] = 45 THEN -ValueOf(digits) ELSE ValueOf(digits)]
    BY DEF Strtol, ValueOf
  <2>2. blanks = 0
    BY <1>11
  <2>3. signed <=> n < 0
    BY <1>13, <2>2
  <2>4. begin = first
    <3> HIDE DEF blanks, signed
    <3> QED
      BY <2>2, <2>3
  <2>5. digits = d
    <3> HIDE DEF begin, first
    <3> QED
      BY <1>8, <1>12, <2>4
  <2>6. blanks + 1 = 1
    BY <2>2
  <2> HIDE DEF blanks, signed, begin, digits
  <2> QED
    BY <2>1, <2>3, <2>5, <2>6
<1>15. (IF n < 0 /\ s[1] = 45 THEN -m ELSE m) = n
  BY <1>5 DEF m
<1>16. Strtol(s) = [found |-> TRUE, value |-> n]
  BY <1>2, <1>3, <1>14, <1>15
<1> QED
  BY <1>16 DEF s

(* And stoi does not throw on an int.                                      *)
LEMMA NumeralParsed ==
  ASSUME NEW n \in Int32, ParserAssumption
  PROVE  ParseInt(Numeral(n)) = [ok |-> TRUE, value |-> n]
<1>1. n \in Int
  BY DEF Int32, ParserAssumption
<1> DEFINE r == Strtol(Numeral(n))
<1>2. r = [found |-> TRUE, value |-> n]
  BY <1>1, ReadNumeral
<1>3. ParseInt(Numeral(n)) = [ok |-> r.found /\ r.value \in Int32, value |-> r.value]
  BY DEF ParseInt
<1> HIDE DEF r
<1>4. (r.found /\ r.value \in Int32) = TRUE /\ r.value = n
  BY <1>2
<1> QED
  BY <1>3, <1>4

-----------------------------------------------------------------------------
(***************************************************************************)
(* The lines of a text that is written one line after the other.           *)
(***************************************************************************)
NoNewline(l) == \A i \in 1..Len(l) : l[i] # NL
InUpper(l)   == [i \in DOMAIN l |-> Upper(l[i])]

(* s ends with a line, and has n of them.                                  *)
EndsLine(s, n) == s \in Text /\ n \in Nat /\ Count(s) = n /\ Before(s, n) = Len(s)

(* One more line: it is line n of the text, as it was written.             *)
LEMMA LineWritten ==
  ASSUME NEW s, NEW n, EndsLine(s, n), NEW l \in Text, NoNewline(l)
  PROVE  LET t == (s \o l) \o <<NL>>
         IN  /\ EndsLine(t, n + 1) /\ Begins(s, t)
             /\ Ended(t, n) /\ LineOf(t, n) = l /\ WordOf(t, n) = InUpper(l)
<1> DEFINE u == s \o l
           t == u \o <<NL>>
<1>0. Len(s) \in Nat /\ Len(l) \in Nat /\ s \in Text /\ n \in Nat /\ NL \in Char
  BY Counts DEF EndsLine, NL, Char
<1>1. /\ u \in Text /\ Len(u) = Len(s) + Len(l) /\ Begins(s, u)
      /\ \A i \in 1..(Len(s) + Len(l)) : u[i] = IF i <= Len(s) THEN s[i] ELSE l[i - Len(s)]
  BY <1>0, Joined, ConcatProperties DEF Text
<1> HIDE DEF u
<1>2. t = Append(u, NL)
  BY <1>0, <1>1, AppendIsConcat DEF Text
<1> HIDE DEF t
<1>3. t \in Text /\ Len(t) = Len(u) + 1 /\ Begins(u, t) /\ Count(t) = Count(u) + 1
  BY <1>0, <1>1, <1>2, OneMore
<1>4. Newlines(u) = Newlines(s)
  <2>1. ASSUME NEW i \in 1..Len(u) PROVE u[i] = NL <=> i \in 1..Len(s) /\ s[i] = NL
    <3>1. CASE i <= Len(s)
      BY <1>0, <1>1, <3>1
    <3>2. CASE ~(i <= Len(s))
      <4>1. i - Len(s) \in 1..Len(l) /\ u[i] = l[i - Len(s)]
        BY <1>0, <1>1, <3>2
      <4> QED
        BY <3>2, <4>1 DEF NoNewline
    <3> QED
      BY <3>1, <3>2
  <2>2. \A i \in 1..Len(s) : i \in 1..Len(u)
    BY <1>0, <1>1
  <2> QED
    BY <2>1, <2>2 DEF Newlines
<1>5. Count(u) = n /\ Count(t) = n + 1
  BY <1>3, <1>4 DEF Count, EndsLine
<1>6. Before(u, n) = Len(s)
  <2>1. n \in 0..Count(s)
    BY <1>0 DEF EndsLine
  <2> QED
    BY <1>1, <2>1, SameNewlines DEF EndsLine
<1>7. ~Ended(u, n)
  BY <1>0, <1>5 DEF Ended, Count
<1>8. LineOf(u, n) = SubSeq(u, Len(s) + 1, Len(u))
  BY <1>6, <1>7 DEF LineOf
<1>9. SubSeq(u, Len(s) + 1, Len(u)) = l
  <2> DEFINE w == SubSeq(u, Len(s) + 1, Len(u))
  <2>1. Len(s) <= Len(u) /\ Len(u) <= Len(u) /\ Len(u) \in Nat /\ Len(u) - Len(s) = Len(l)
    BY <1>0, <1>1
  <2>2. w \in Text /\ Len(w) = Len(u) - Len(s) /\ \A i \in 1..(Len(u) - Len(s)) : w[i] = u[Len(s) + i]
    BY <1>0, <1>1, <2>1, PartOf
  <2> HIDE DEF w
  <2>3. \A i \in 1..Len(l) : Len(s) + i \in 1..(Len(s) + Len(l)) /\ ~(Len(s) + i <= Len(s))
                             /\ (Len(s) + i) - Len(s) = i
    BY <1>0
  <2>4. \A i \in 1..Len(l) : w[i] = l[i]
    BY <1>1, <2>1, <2>2, <2>3
  <2>5. w = l
    BY <2>1, <2>2, <2>4, TextEqual
  <2> QED
    BY <2>5 DEF w
<1>10. /\ Ended(t, n) /\ LineOf(t, n) = LineOf(u, n) /\ Before(t, n + 1) = Len(t)
  BY <1>1, <1>2, <1>5, LineEnds
<1>11. Begins(s, t)
  BY <1>0, <1>1, <1>3 DEF Begins
<1>12. LineOf(t, n) = l /\ WordOf(t, n) = InUpper(l)
  BY <1>8, <1>9, <1>10 DEF WordOf, InUpper
<1>13. EndsLine(t, n + 1)
  BY <1>0, <1>3, <1>5, <1>10 DEF EndsLine
<1> QED
  BY <1>10, <1>11, <1>12, <1>13 DEF t, u

LEMMA NothingWritten == EndsLine(<<>>, 0)
<1>1. Newlines(<<>>) = {} /\ <<>> \in Text /\ Len(<<>>) = 0
  BY DEF Newlines, Text
<1>2. Count(<<>>) = 0
  BY <1>1, FS_EmptySet DEF Count
<1> QED
  BY <1>1, <1>2 DEF EndsLine, Before

LEMMA BeginsOn ==
  ASSUME NEW a \in Text, NEW b \in Text, NEW c \in Text, Begins(a, b), Begins(b, c)
  PROVE  Begins(a, c)
<1>1. Len(a) \in Nat /\ Len(b) \in Nat /\ Len(c) \in Nat
  BY Counts
<1> QED
  BY <1>1 DEF Begins

(***************************************************************************)
(* A message whose fields are as the parser makes them, and what its text  *)
(* is read as.                                                             *)
(***************************************************************************)
Sendable(m) ==
  /\ m.port \in Int32 /\ m.len \in Int32
  /\ m.verb \in Verbs /\ m.verb \in Text /\ NoNewline(m.verb) /\ InUpper(m.verb) = m.verb
  /\ NoNewline(Start) /\ InUpper(Start) = Start
  /\ m.body \in Text /\ m.body # <<>> /\ m.len = Len(m.body)

LEMMA NumeralLine == ASSUME NEW n \in Int PROVE Numeral(n) \in Text /\ NoNewline(Numeral(n))
<1>1. \A x \in Digits \cup {45} : x # NL
  BY DEF Digits, NL
<1> QED
  BY <1>1, NumeralChars DEF NoNewline

(* toRawString writes a message of the format, with these fields.          *)
LEMMA RawStringComplete ==
  ASSUME ParserAssumption, NEW m, Sendable(m)
  PROVE  /\ RawString(m) \in Text /\ Taken(RawString(m))
         /\ FieldsOf(RawString(m)).port = m.port
         /\ FieldsOf(RawString(m)).verb = m.verb
         /\ FieldsOf(RawString(m)).len = m.len
         /\ FieldsOf(RawString(m)).body = m.body
<1>0. /\ Start \in Text /\ Numeral(m.port) \in Text /\ Numeral(m.len) \in Text
      /\ NoNewline(Numeral(m.port)) /\ NoNewline(Numeral(m.len))
  BY NumeralLine DEF ParserAssumption, Sendable, Int32
<1> DEFINE a == (<<>> \o Start) \o <<NL>>
           b == (a \o Numeral(m.port)) \o <<NL>>
           c == (b \o m.verb) \o <<NL>>
           d == (c \o Numeral(m.len)) \o <<NL>>
           r == d \o m.body
<1>1. /\ EndsLine(a, 1) /\ Ended(a, 0) /\ WordOf(a, 0) = InUpper(Start)
  <2>1. EndsLine(a, 0 + 1) /\ Ended(a, 0) /\ WordOf(a, 0) = InUpper(Start)
    <3>1. EndsLine(<<>>, 0) /\ NoNewline(Start)
      BY NothingWritten DEF Sendable
    <3> QED
      BY <1>0, <3>1, LineWritten
  <2> QED
    BY <2>1
<1> HIDE DEF a
<1>2. EndsLine(b, 2) /\ Begins(a, b) /\ Ended(b, 1) /\ LineOf(b, 1) = Numeral(m.port)
  <2>1. EndsLine(b, 1 + 1) /\ Begins(a, b) /\ Ended(b, 1) /\ LineOf(b, 1) = Numeral(m.port)
    BY <1>0, <1>1, LineWritten
  <2> QED
    BY <2>1
<1> HIDE DEF b
<1>3. EndsLine(c, 3) /\ Begins(b, c) /\ Ended(c, 2) /\ WordOf(c, 2) = InUpper(m.verb)
  <2>1. EndsLine(c, 2 + 1) /\ Begins(b, c) /\ Ended(c, 2) /\ WordOf(c, 2) = InUpper(m.verb)
    BY <1>2, LineWritten DEF Sendable
  <2> QED
    BY <2>1
<1> HIDE DEF c
<1>4. EndsLine(d, 4) /\ Begins(c, d) /\ Ended(d, 3) /\ LineOf(d, 3) = Numeral(m.len)
  <2>1. EndsLine(d, 3 + 1) /\ Begins(c, d) /\ Ended(d, 3) /\ LineOf(d, 3) = Numeral(m.len)
    BY <1>0, <1>3, LineWritten
  <2> QED
    BY <2>1
<1> HIDE DEF d
<1>5. a \in Text /\ b \in Text /\ c \in Text /\ d \in Text /\ m.body \in Text
  BY <1>1, <1>2, <1>3, <1>4 DEF EndsLine, Sendable
<1>6. r \in Text /\ Begins(d, r) /\ Len(r) = Len(d) + Len(m.body)
      /\ \A i \in 1..(Len(d) + Len(m.body)) : r[i] = IF i <= Len(d) THEN d[i] ELSE m.body[i - Len(d)]
  <2>1. r \in Text /\ Begins(d, r) /\ Len(r) = Len(d) + Len(m.body)
    BY <1>5, Joined
  <2>2. d \in Seq(Char) /\ m.body \in Seq(Char)
    BY <1>5 DEF Text
  <2>3. \A i \in 1..(Len(d) + Len(m.body)) : r[i] = IF i <= Len(d) THEN d[i] ELSE m.body[i - Len(d)]
    BY ONLY <2>2, ConcatProperties
  <2> QED
    BY <2>1, <2>3
<1>7. RawString(m) = r
  <2>1. <<>> \o Start = Start
    BY <1>0, <1>5, Joined
  <2> QED
    BY <2>1 DEF RawString, a, b, c, d
<1> HIDE DEF r
<1>8. Begins(c, r) /\ Begins(b, r) /\ Begins(a, r)
  BY <1>2, <1>3, <1>4, <1>5, <1>6, BeginsOn
<1>9. /\ WordOf(r, 0) = Start
      /\ LineOf(r, 1) = Numeral(m.port)
      /\ WordOf(r, 2) = m.verb
      /\ Ended(r, 3) /\ LineOf(r, 3) = Numeral(m.len)
  <2>1. WordOf(r, 0) = Start
    BY <1>1, <1>5, <1>6, <1>8, SameLine DEF Sendable
  <2>2. LineOf(r, 1) = Numeral(m.port)
    BY <1>2, <1>5, <1>6, <1>8, SameLine
  <2>3. WordOf(r, 2) = m.verb
    BY <1>3, <1>5, <1>6, <1>8, SameLine DEF Sendable
  <2>4. Ended(r, 3) /\ LineOf(r, 3) = Numeral(m.len)
    BY <1>4, <1>5, <1>6, SameLine
  <2> QED
    BY <2>1, <2>2, <2>3, <2>4
<1>10. BodyOf(r) = m.body
  <2>0. Len(d) \in Nat /\ Len(m.body) \in Nat /\ Len(r) \in Nat
    BY <1>5, <1>6, Counts
  <2>1. Before(r, 4) = Len(d)
    <3>1. 4 \in 0..Count(d)
      BY <1>4 DEF EndsLine
    <3> QED
      BY <1>4, <1>5, <1>6, <3>1, SameNewlines DEF EndsLine
  <2> DEFINE w == SubSeq(r, Len(d) + 1, Len(r))
  <2>2. w \in Text /\ Len(w) = Len(r) - Len(d) /\ \A i \in 1..(Len(r) - Len(d)) : w[i] = r[Len(d) + i]
    <3>1. Len(d) <= Len(r) /\ Len(r) <= Len(r)
      BY <1>6, <2>0
    <3> QED
      BY <1>6, <2>0, <3>1, PartOf
  <2> HIDE DEF w
  <2>3. Len(r) - Len(d) = Len(m.body)
    BY <1>6, <2>0
  <2>4. \A i \in 1..Len(m.body) : Len(d) + i \in 1..(Len(d) + Len(m.body)) /\ ~(Len(d) + i <= Len(d))
                                  /\ (Len(d) + i) - Len(d) = i
    BY <2>0
  <2>5. \A i \in 1..Len(m.body) : w[i] = m.body[i]
    BY <1>6, <2>2, <2>3, <2>4
  <2>6. w = m.body
    BY ONLY <1>5, <2>2, <2>3, <2>5, TextEqual, SMTT(30)
  <2> QED
    BY <2>1, <2>6 DEF w, BodyOf
<1>11. ParseInt(LineOf(r, 1)) = [ok |-> TRUE, value |-> m.port]
       /\ ParseInt(LineOf(r, 3)) = [ok |-> TRUE, value |-> m.len]
  BY <1>9, NumeralParsed DEF Sendable
<1>12. /\ FieldsOf(r).port = m.port /\ FieldsOf(r).verb = m.verb
       /\ FieldsOf(r).len = m.len /\ FieldsOf(r).body = m.body
  BY <1>9, <1>10, <1>11 DEF FieldsOf
<1>13. Taken(r)
  BY <1>9, <1>10, <1>11, <1>12 DEF Taken, Sendable
<1> QED
  BY <1>6, <1>7, <1>12, <1>13

-----------------------------------------------------------------------------
(* Texts without a NUL, of which writeMessage sends all.                   *)
NoNul(s) == \A i \in 1..Len(s) : s[i] # NUL

LEMMA NoNulJoined ==
  ASSUME NEW a \in Text, NEW b \in Text
  PROVE  a \o b \in Text /\ (NoNul(a \o b) <=> NoNul(a) /\ NoNul(b))
<1> DEFINE u == a \o b
<1>1. /\ u \in Text /\ Len(u) = Len(a) + Len(b) /\ Len(a) \in Nat /\ Len(b) \in Nat
      /\ \A i \in 1..(Len(a) + Len(b)) : u[i] = IF i <= Len(a) THEN a[i] ELSE b[i - Len(a)]
  BY Joined, Counts, ConcatProperties DEF Text
<1> HIDE DEF u
<1>2. ASSUME NoNul(a), NoNul(b) PROVE NoNul(u)
  <2>1. \A i \in 1..(Len(a) + Len(b)) : i <= Len(a) \/ i - Len(a) \in 1..Len(b)
    BY <1>1
  <2> QED
    BY <1>1, <1>2, <2>1 DEF NoNul
<1>3. ASSUME NoNul(u) PROVE NoNul(a) /\ NoNul(b)
  <2>1. ASSUME NEW i \in 1..Len(a) PROVE a[i] # NUL
    <3>1. i \in 1..Len(u) /\ u[i] = a[i]
      BY <1>1
    <3> QED
      BY <1>3, <3>1 DEF NoNul
  <2>2. ASSUME NEW i \in 1..Len(b) PROVE b[i] # NUL
    <3> DEFINE j == Len(a) + i
    <3>1. j \in 1..(Len(a) + Len(b)) /\ ~(j <= Len(a)) /\ j - Len(a) = i
      BY <1>1
    <3> HIDE DEF j
    <3>2. j \in 1..Len(u) /\ u[j] = b[i]
      BY <1>1, <3>1
    <3> QED
      BY <1>3, <3>2 DEF NoNul
  <2> QED
    BY <2>1, <2>2 DEF NoNul
<1>4. u \in Text /\ (NoNul(u) <=> NoNul(a) /\ NoNul(b))
  BY <1>1, <1>2, <1>3
<1> QED
  BY <1>4 DEF u

LEMMA NumeralNoNul == ASSUME NEW n \in Int PROVE NoNul(Numeral(n))
<1>1. \A x \in Digits \cup {45} : x # NUL
  BY DEF Digits, NUL
<1> QED
  BY <1>1, NumeralChars DEF NoNul

(* Only the body can bring a NUL into the text of a message.               *)
LEMMA RawNoNul ==
  ASSUME ParserAssumption, NEW m, Sendable(m), NoNul(Start), NoNul(m.verb)
  PROVE  NoNul(RawString(m)) <=> NoNul(m.body)
<1>1. /\ Start \in Text /\ Numeral(m.port) \in Text /\ Numeral(m.len) \in Text
      /\ NoNul(Numeral(m.port)) /\ NoNul(Numeral(m.len))
      /\ m.verb \in Text /\ m.body \in Text
  BY NumeralNoNul, NumeralLine DEF Sendable, ParserAssumption, Int32
<1>2. <<NL>> \in Text /\ NoNul(<<NL>>)
  BY DEF NL, Text, Char, NoNul, NUL
<1> DEFINE h == Start \o <<NL>> \o Numeral(m.port) \o <<NL>> \o m.verb \o <<NL>>
                \o Numeral(m.len) \o <<NL>>
           Q(s) == s \in Text /\ NoNul(s)
<1>3. \A a, b : Q(a) /\ Q(b) => Q(a \o b)
  BY NoNulJoined
<1>4. Q(Start) /\ Q(Numeral(m.port)) /\ Q(Numeral(m.len)) /\ Q(m.verb) /\ Q(<<NL>>)
  BY <1>1, <1>2
<1> HIDE DEF Q
<1>5. Q(h)
  BY <1>3, <1>4
<1> HIDE DEF h
<1>6. RawString(m) = h \o m.body
  BY DEF RawString, h
<1> QED
  BY <1>1, <1>5, <1>6, NoNulJoined DEF Q

(* What is sent of a text is what it begins with, and all of it only when  *)
(* it has no NUL.                                                          *)
LEMMA WrittenBegins ==
  ASSUME NEW m, RawString(m) \in Text
  PROVE  /\ Written(m) \in Text /\ Begins(Written(m), RawString(m))
         /\ Written(m) = RawString(m) <=> NoNul(RawString(m))
<1> DEFINE r == RawString(m)
           C == Char \ {NUL}
           k == RunEnd(r, 1, C)
<1>0. r \in Text /\ Len(r) \in Nat /\ \A i \in 1..Len(r) : r[i] \in Char
  BY Counts DEF Text
<1> HIDE DEF r
<1>1. k \in 0..Len(r) /\ (\A j \in 1..k : r[j] \in C) /\ (k = Len(r) \/ r[k + 1] \notin C)
  <2> HIDE DEF C
  <2> DEFINE P(l) == (\A j \in 1..l : r[j] \in C) /\ (l = Len(r) \/ r[l + 1] \notin C)
  <2>1. \E l \in (1 - 1)..Len(r) : P(l)
    <3>1. 1 \in 1..(Len(r) + 1)
      BY <1>0
    <3> HIDE DEF P
    <3>2. \E l \in (1 - 1)..Len(r) : (\A j \in 1..l : r[j] \in C) /\ (l = Len(r) \/ r[l + 1] \notin C)
      BY <1>0, <3>1, RunExists
    <3> QED
      BY <3>2 DEF P
  <2>2. k = CHOOSE l \in (1 - 1)..Len(r) : P(l)
    BY DEF RunEnd
  <2> HIDE DEF P, k
  <2>3. k \in (1 - 1)..Len(r) /\ P(k)
    BY <2>1, <2>2
  <2> QED
    BY <2>3 DEF P
<1> HIDE DEF k
<1>2. First(r, k) \in Text /\ Len(First(r, k)) = k /\ Begins(First(r, k), r)
      /\ (k = Len(r) => First(r, k) = r)
  BY <1>0, <1>1, FirstOf
<1>3. Written(m) = First(r, k)
  BY DEF Written, First, k, r
<1>4. First(r, k) = r => NoNul(r)
  BY <1>0, <1>1, <1>2 DEF NoNul
<1>5. NoNul(r) => k = Len(r)
  <2> SUFFICES ASSUME NoNul(r), k # Len(r) PROVE FALSE
    OBVIOUS
  <2>1. k + 1 \in 1..Len(r) /\ r[k + 1] \notin C
    BY <1>0, <1>1
  <2> QED
    BY <1>0, <2>1 DEF NoNul
<1> QED
  BY <1>2, <1>3, <1>4, <1>5 DEF r

-----------------------------------------------------------------------------
(* What was received: a line has no newline in it, and a word of a message *)
(* is as toupper leaves it.                                                *)
LEMMA LineHasNoNewline ==
  ASSUME NEW s \in Text, NEW n \in Nat, Ended(s, n)
  PROVE  LineOf(s, n) \in Text /\ NoNewline(LineOf(s, n))
<1>1. Count(s) \in Nat /\ Len(s) \in Nat /\ n \in 0..Count(s) /\ n + 1 \in 1..Count(s)
  BY Counts DEF Ended, Count
<1> DEFINE b == Before(s, n)
           e == Before(s, n + 1)
           l == LineOf(s, n)
<1>2. b \in Nat /\ e \in 1..Len(s) /\ b < e
  BY <1>1, Bounds
<1>3. e \in Newlines(s) /\ Upto(s, e) = n + 1
  BY <1>1, BeforeIs
<1>4. n # 0 => b \in Newlines(s) /\ Upto(s, b) = n
  <2>1. n # 0 => n \in 1..Count(s)
    BY <1>1
  <2> QED
    BY <2>1, BeforeIs
<1>5. l = SubSeq(s, b + 1, e - 1)
  BY DEF LineOf
<1> HIDE DEF b, e, l
<1>6. /\ l \in Text /\ Len(l) = (e - 1) - b
      /\ \A i \in 1..((e - 1) - b) : l[i] = s[b + i]
  <2>1. e - 1 \in Nat /\ b <= e - 1 /\ e - 1 <= Len(s)
    BY <1>1, <1>2
  <2> QED
    BY <1>2, <1>5, <2>1, PartOf
<1>7. ASSUME NEW i \in 1..Len(l), l[i] = NL PROVE FALSE
  <2>1. b + i \in 1..Len(s) /\ b + i < e /\ b < b + i /\ s[b + i] = NL
    BY <1>1, <1>2, <1>6, <1>7
  <2> DEFINE j == b + i
  <2>2. j \in Newlines(s) /\ j \in 1..Len(s) /\ j < e /\ b < j
    BY <2>1 DEF Newlines
  <2> HIDE DEF j
  <2>3. Upto(s, j) < Upto(s, e)
    BY <1>2, <1>3, <2>2, CountGrows
  <2>4. n # 0 => Upto(s, b) < Upto(s, j)
    BY <1>2, <1>4, <2>2, CountGrows
  <2>5. Upto(s, j) \in Nat /\ Upto(s, j) > 0
    <3>1. j - 1 \in Int /\ j \in Int
      BY <2>2
    <3>2. Upto(s, j - 1) \in Nat /\ Upto(s, j) \in Nat
      BY <3>1, Counts
    <3>3. Upto(s, j) = Upto(s, j - 1) + 1
      BY <2>2, CountOne
    <3> QED
      BY <3>2, <3>3
  <2> QED
    BY <1>1, <1>3, <1>4, <2>3, <2>4, <2>5
<1>8. l \in Text /\ NoNewline(l)
  BY <1>6, <1>7 DEF NoNewline
<1> QED
  BY <1>8 DEF l

LEMMA WordIsUpper ==
  ASSUME NEW s \in Text, NEW n \in Nat, Ended(s, n)
  PROVE  LET w == WordOf(s, n)
         IN  w \in Text /\ NoNewline(w) /\ InUpper(w) = w
<1> DEFINE w == WordOf(s, n)
           l == LineOf(s, n)
<1>1. l \in Text /\ NoNewline(l)
  BY LineHasNoNewline
<1>2. n \in 0..Count(s)
  BY Counts DEF Ended, Count
<1>3. w \in Text /\ Len(w) = Len(l) /\ \A i \in 1..Len(l) : w[i] = Upper(l[i])
  BY <1>2, LineText
<1> HIDE DEF w, l
<1>4. \A ch \in Char : (ch # NL => Upper(ch) # NL) /\ Upper(Upper(ch)) = Upper(ch)
  BY DEF Char, Upper, NL
<1>5. \A i \in 1..Len(l) : l[i] \in Char /\ l[i] # NL
  BY <1>1 DEF Text, NoNewline
<1>6. \A i \in 1..Len(w) : w[i] # NL /\ Upper(w[i]) = w[i]
  BY <1>3, <1>4, <1>5
<1>7. InUpper(w) = w
  <2>1. DOMAIN w = 1..Len(w) /\ w = [i \in DOMAIN w |-> w[i]]
    BY <1>3 DEF Text
  <2> QED
    BY <1>6, <2>1 DEF InUpper
<1>8. w \in Text /\ NoNewline(w) /\ InUpper(w) = w
  BY <1>3, <1>6, <1>7 DEF NoNewline
<1> QED
  BY <1>8 DEF w

(* A message as readMessage returns it.                                    *)
Received(m) ==
  /\ m \in [port : Int32, verb : Text, len : Int32, body : Text]
  /\ m.verb \in Verbs /\ NoNewline(m.verb) /\ InUpper(m.verb) = m.verb
  /\ NoNewline(Start) /\ InUpper(Start) = Start
  /\ m.body # <<>>

(* The parser accepts no others.                                           *)
LEMMA CompleteReceived ==
  ASSUME ParserAssumption, NEW s \in Text, Taken(s),
         FieldsOf(s) \in [port : Int32, verb : Text, len : Int32, body : Text]
  PROVE  Received(FieldsOf(s))
<1>1. Ended(s, 3) /\ Count(s) \in Nat
  BY Counts DEF Taken
<1>2. Ended(s, 0) /\ Ended(s, 2)
  BY <1>1 DEF Ended, Count
<1>3. NoNewline(WordOf(s, 0)) /\ InUpper(WordOf(s, 0)) = WordOf(s, 0)
  BY <1>2, WordIsUpper
<1>4. NoNewline(WordOf(s, 2)) /\ InUpper(WordOf(s, 2)) = WordOf(s, 2)
  BY <1>2, WordIsUpper
<1>5. WordOf(s, 0) = Start /\ WordOf(s, 2) \in Verbs /\ BodyOf(s) # <<>>
  BY DEF Taken
<1>6. FieldsOf(s).verb = WordOf(s, 2) /\ FieldsOf(s).body = BodyOf(s)
  BY DEF FieldsOf
<1> QED
  BY <1>3, <1>4, <1>5, <1>6 DEF Received

(* What blk_proxy_rules makes of it can be sent, if its length is an int.  *)
LEMMA RulesSendable ==
  ASSUME ParserAssumption, NEW m, Received(m), Len(Prefix) + Len(m.body) <= MaxInt
  PROVE  /\ Sendable(Rules(m))
         /\ Rules(m).port = m.port /\ Rules(m).verb = m.verb /\ Rules(m).body = Prefix \o m.body
<1>1. /\ Rules(m).port = m.port /\ Rules(m).verb = m.verb
      /\ Rules(m).body = Prefix \o m.body /\ Rules(m).len = Len(Prefix) + Len(m.body)
  BY DEF Rules, Received
<1>2. /\ Prefix \in Text /\ m.body \in Text /\ m.body # <<>> /\ MaxInt \in Nat
  BY DEF ParserAssumption, Received
<1>3. /\ Prefix \o m.body \in Text /\ Prefix \o m.body # <<>>
      /\ Len(Prefix \o m.body) = Len(Prefix) + Len(m.body)
      /\ Len(Prefix) \in Nat /\ Len(m.body) \in Nat
  BY <1>2, Joined, Counts
<1>4. Len(Prefix) + Len(m.body) \in Int32
  BY <1>2, <1>3 DEF Int32
<1>5. m.port \in Int32 /\ m.verb \in Text
  BY DEF Received
<1>6. /\ m.verb \in Verbs /\ NoNewline(m.verb) /\ InUpper(m.verb) = m.verb
      /\ NoNewline(Start) /\ InUpper(Start) = Start
  BY DEF Received
<1> DEFINE r == Rules(m)
<1> HIDE DEF r
<1>7. /\ r.port = m.port /\ r.verb = m.verb
      /\ r.body = Prefix \o m.body /\ r.len = Len(Prefix) + Len(m.body)
  BY <1>1 DEF r
<1>8. Sendable(r)
  BY <1>3, <1>4, <1>5, <1>6, <1>7 DEF Sendable
<1> QED
  BY <1>1, <1>8 DEF r

-----------------------------------------------------------------------------
(* The last result is of a message while the worker is in its loop, and    *)
(* what was written upstream is what the rules made of it.                 *)
LastMsg == results[Len(results)].msg

Passing ==
  /\ pc = "handle" => results # <<>> /\ Received(LastMsg)
  /\ pc \in {"read", "append"} /\ out # <<>> =>
       results # <<>> /\ Received(LastMsg) /\ out = Written(Rules(LastMsg))

(* Only finishedParsing makes a message, and only the handler writes one.  *)
LEMMA PassingStep ==
  ASSUME ParserAssumption, Flowing, Passing, [Next]_vars
  PROVE  Passing'
<1>1. CASE Send \/ HangUp \/ UNCHANGED vars
  BY <1>1 DEF Passing, LastMsg, Send, HangUp, vars
<1>2. CASE Read \/ ParseOn
  <2>1. pc \in {"read", "append"} /\ results' = results /\ out' = out /\ pc' # "handle"
    BY <1>2 DEF Read, ParseOn, Parse
  <2> QED
    BY <2>1 DEF Passing, LastMsg
<1>3. CASE ReadEof \/ ReadThrows \/ ParseError
  <2>1. pc' = "over"
    BY <1>3 DEF ReadEof, ReadThrows, ParseError, Return
  <2> QED
    BY <2>1 DEF Passing
<1>4. CASE ParseDone
  <2>1. Parsed(parser, Head(buf)) /\ parser' = ParseChar(parser, Head(buf)) /\ Return("OK") /\ parser'.done
    BY <1>4, ParseStep DEF ParseDone
  <2>2. parser' \in Parsers /\ Agrees(parser')
    BY <2>1 DEF Parsed
  <2>3. Message(parser') = FieldsOf(parser'.seen) /\ Taken(parser'.seen)
    BY <2>1, <2>2 DEF Agrees
  <2>4. Message(parser') \in [port : Int32, verb : Text, len : Int32, body : Text] /\ parser'.seen \in Text
    BY <2>2, MessageTyped DEF Parsers
  <2>5. Received(Message(parser'))
    BY <2>3, <2>4, CompleteReceived
  <2>6. /\ results' # <<>> /\ Len(results') = Len(results) + 1
        /\ results'[Len(results) + 1] = [status |-> "OK", msg |-> Message(parser')]
    BY <2>1, <2>2, ReturnedOne DEF Flowing
  <2>7. LastMsg' = Message(parser')
    BY <2>6 DEF LastMsg
  <2>8. pc' = "handle"
    BY <2>1 DEF Return
  <2> QED
    BY <2>5, <2>6, <2>7, <2>8 DEF Passing
<1>5. CASE Forward
  <2>1. pc = "handle" /\ results' = results /\ out' = Written(Rules(LastMsg)) /\ pc' = "read"
    BY <1>5 DEF Forward, LastMsg
  <2> QED
    BY <2>1 DEF Passing, LastMsg
<1> QED
  BY <1>1, <1>2, <1>3, <1>4, <1>5 DEF Next, ReaderStep

(* The length of what the rules made of the last message is an int.        *)
LengthFits == results # <<>> => Len(Prefix) + Len(LastMsg.body) <= MaxInt

(* The parser that reads it back agrees with the format about it.          *)
LEMMA PassingReadBack ==
  ASSUME ParserAssumption, Passing, LengthFits,
         NoNul(Start), NoNul(Prefix), \A v \in Verbs : NoNul(v)
  PROVE  RoundTrip
<1> DEFINE m == LastMsg
           r == Rules(m)
           back == Back(out)
           Nul == NUL \in {m.body[i] : i \in DOMAIN m.body}
<1>1. SUFFICES ASSUME pc \in {"read", "append"}, out # <<>>
               PROVE  IF Nul THEN ~back.done /\ ~back.bad
                      ELSE /\ back.done /\ ~back.bad
                           /\ back.port = m.port /\ back.verb = m.verb
                           /\ back.body = Prefix \o m.body
  BY DEF RoundTrip, Back, LastMsg
<1>2. results # <<>> /\ Received(m) /\ out = Written(r)
  BY <1>1 DEF Passing
<1>3. Len(Prefix) + Len(m.body) <= MaxInt
  BY <1>2 DEF LengthFits
<1> HIDE DEF m
<1>4. Sendable(r) /\ r.port = m.port /\ r.verb = m.verb /\ r.body = Prefix \o m.body
  BY <1>2, <1>3, RulesSendable
<1> HIDE DEF r
<1> DEFINE c == RawString(r)
<1>5. /\ c \in Text /\ Taken(c)
      /\ FieldsOf(c).port = m.port /\ FieldsOf(c).verb = m.verb
      /\ FieldsOf(c).body = Prefix \o m.body
  BY <1>4, RawStringComplete
<1>6. out \in Text /\ Begins(out, c) /\ (out = c <=> NoNul(c))
  BY <1>2, <1>5, WrittenBegins
<1>7. NoNul(c) <=> NoNul(r.body)
  <2>1. r.verb \in Verbs
    BY <1>4 DEF Sendable
  <2>2. NoNul(r.verb)
    BY <2>1
  <2> QED
    BY <1>4, <2>2, RawNoNul
<1>8. m.body \in Text /\ Prefix \in Text /\ DOMAIN m.body = 1..Len(m.body)
  <2>1. m.body \in Text
    BY <1>2 DEF Received
  <2> QED
    BY <2>1 DEF ParserAssumption, Text
<1>9. Nul <=> ~NoNul(m.body)
  BY <1>8 DEF NoNul
<1>10. NoNul(r.body) <=> NoNul(m.body)
  BY <1>4, <1>8, NoNulJoined
<1>11. Nul <=> out # c
  BY <1>6, <1>7, <1>9, <1>10
<1> HIDE DEF c, Nul
<1>12. /\ ~back.bad /\ (back.done <=> out = c)
       /\ out = c => Message(back) = FieldsOf(c)
  BY <1>5, <1>6, BackRead
<1> HIDE DEF back
<1>13. out = c => /\ back.port = m.port /\ back.verb = m.verb /\ back.body = Prefix \o m.body
  <2>1. /\ Message(back).port = back.port /\ Message(back).verb = back.verb
        /\ Message(back).body = back.body
    BY DEF Message
  <2> QED
    BY <1>5, <1>12, <2>1
<1> QED
  BY <1>11, <1>12, <1>13

(***************************************************************************)
(* What the proxy writes upstream, BlkMessage::toRawString as writeMessage *)
(* sends it, is read back by the parser as the request with the prefix,    *)
(* or waits for the rest when its body has a NUL.  It is so as long as the *)
(* length with the prefix is an int, and for words without a NUL, as those *)
(* of the code are.                                                        *)
(***************************************************************************)
THEOREM ReadsWhatItWrote ==
  ASSUME NoNul(Start), NoNul(Prefix), \A v \in Verbs : NoNul(v)
  PROVE  Spec => [](LengthFits => RoundTrip)
<1>1. Init => Flowing /\ Passing
  BY FlowingInit, ParserAssumption DEF Init, Passing
<1>2. (Flowing /\ Passing) /\ [Next]_vars => (Flowing /\ Passing)'
  BY FlowingStep, PassingStep, ParserAssumption
<1>3. Flowing /\ Passing => (LengthFits => RoundTrip)
  BY PassingReadBack, ParserAssumption
<1> QED
  BY <1>1, <1>2, <1>3, PTL DEF Spec
=============================================================================
