----------------------------- MODULE TwcProofs -----------------------------
(***************************************************************************)
(* Theorems about Twc.tla, for every size of the buffers and any amount of *)
(* data.                                                                   *)
(***************************************************************************)
EXTENDS Twc, SequenceTheorems, TLAPS

IInv == TypeOK /\ FirstLap

(* Appending n bytes to a byte sequence.                                   *)
LEMMA Appended ==
  ASSUME NEW s \in Seq(Nat), NEW n \in Nat, NEW f \in [1..n -> Nat]
  PROVE  /\ s \o f \in Seq(Nat)
         /\ Len(s \o f) = Len(s) + n
         /\ \A i \in 1..Len(s) : (s \o f)[i] = s[i]
         /\ \A i \in (Len(s) + 1)..(Len(s) + n) : (s \o f)[i] = f[i - Len(s)]
<1>1. f \in Seq(Nat) /\ Len(f) = n /\ Len(s) \in Nat
  OBVIOUS
<1>2. /\ s \o f \in Seq(Nat)
      /\ Len(s \o f) = Len(s) + n
      /\ \A i \in 1..(Len(s) + n) :
           (s \o f)[i] = IF i <= Len(s) THEN s[i] ELSE f[i - Len(s)]
  BY <1>1, ConcatProperties, Zenon
<1> QED BY <1>1, <1>2

(* The lesser of two numbers is one of them.                               *)
LEMMA LesserIsOne ==
  ASSUME NEW a \in Int, NEW b \in Int
  PROVE  /\ Lesser(a, b) \in {a, b}
         /\ Lesser(a, b) <= a /\ Lesser(a, b) <= b
BY DEF Lesser

(* What TypeOK says of one direction.                                      *)
LEMMA TypedDirection ==
  ASSUME TwcAssumption, TypeOK, NEW d \in Dirs
  PROVE  /\ N \in Nat /\ N >= 2
         /\ sent[d] \in Nat /\ nread[d] \in Nat /\ nread[d] <= sent[d]
         /\ buf[d] \in [0..(N - 1) -> Nat]
         /\ rd[d] \in 0..(N - 2) /\ wr[d] \in 0..(N - 2)
         /\ rd[d] \in Nat /\ wr[d] \in Nat /\ rd[d] <= N - 2 /\ wr[d] <= N - 2
         /\ out[d] \in Seq(Nat) /\ Len(out[d]) \in Nat
BY DEF TwcAssumption, TypeOK

(* What TypeOK says of one end.                                            *)
LEMMA TypedEnd ==
  ASSUME TwcAssumption, TypeOK, NEW e \in Ends
  PROVE  /\ taken[e] \in Nat /\ Room \in Nat
         /\ Space(e) \in Int /\ 0 <= Space(e) /\ Space(e) <= Room
         /\ Space(e) = Room - (Len(out[Into(e)]) - taken[e])
         /\ Len(out[Into(e)]) \in Nat
<1>1. taken[e] \in Nat /\ Room \in Nat /\ Space(e) \in 0..Room
  BY DEF TwcAssumption, TypeOK
<1>2. Into(e) \in Dirs
  BY DEF Into, Dirs
<1>3. Len(out[Into(e)]) \in Nat
  BY <1>2, TypedDirection
<1> QED BY <1>1, <1>3 DEF Space

(* Each direction ends at one end, and no other does.                      *)
LEMMA Directions ==
  ASSUME NEW d \in Dirs
  PROVE  Src(d) \in Ends /\ Dst(d) \in Ends /\ Into(Dst(d)) = d
         /\ \A e \in Ends : Into(e) \in Dirs /\ (Into(e) = d <=> e = Dst(d))
BY DEF Dirs, Ends, Src, Dst, Into

(* Everything is empty to begin with.                                      *)
LEMMA InitInv == ASSUME TwcAssumption PROVE Init => IInv
BY DEF TwcAssumption, Init, IInv, TypeOK, FirstLap, InOrder, Dirs, Ends, Into,
       Space, Labels

(* The peers touch neither the buffers nor the control of twc_run.         *)
LEMMA PeerInv == ASSUME TwcAssumption, IInv, PeerStep PROVE IInv'
<1> USE DEF IInv
<1>1. ASSUME NEW d \in Dirs, PeerSend(d) PROVE IInv'
  <2>1. PICK n \in 1..(MaxBytes[d] - sent[d]) : sent' = [sent EXCEPT ![d] = @ + n]
    BY <1>1 DEF PeerSend
  <2>2. UNCHANGED <<nread, buf, rd, wr, out, peer, taken, status, rfds, wfds, pc, result, failed>>
    BY <1>1 DEF PeerSend, buffers, control
  <2>3. MaxBytes[d] \in Nat /\ sent[d] \in Nat
    BY DEF TwcAssumption, TypeOK
  <2>3a. n \in Nat /\ sent[d] + n \in Nat /\ sent[d] <= sent[d] + n /\ sent[d] + n <= MaxBytes[d]
    BY ONLY <2>3, n \in 1..(MaxBytes[d] - sent[d])
  <2>3b. /\ sent \in [Dirs -> Nat] /\ nread \in [Dirs -> Nat]
        /\ \A e \in Dirs : nread[e] <= sent[e] /\ sent[e] <= MaxBytes[e]
    BY DEF TypeOK
  <2>4. sent' \in [Dirs -> Nat]
    BY ONLY <2>1, <2>3a, <2>3b
  <2>5. \A e \in Dirs : nread'[e] <= sent'[e] /\ sent'[e] <= MaxBytes[e]
    <3>1. TAKE e \in Dirs
    <3>2. nread[e] \in Nat /\ nread'[e] = nread[e]
      BY ONLY <2>2, <2>3b, e \in Dirs
    <3>3. CASE e = d
      <4>1. sent'[d] = sent[d] + n
        BY ONLY <2>1, <2>3b, d \in Dirs
      <4> QED BY ONLY <2>3, <2>3a, <2>3b, <3>2, <3>3, <4>1, e \in Dirs
    <3>4. CASE e # d
      BY ONLY <2>1, <2>3b, <3>2, <3>4, e \in Dirs
    <3> QED BY ONLY <3>3, <3>4
  <2>6. \A e \in Ends : Space(e)' = Space(e)
    BY <2>2 DEF Space
  <2>7. TypeOK'
    BY <2>2, <2>4, <2>5, <2>6 DEF TypeOK
  <2>8. FirstLap'
    BY <2>2 DEF FirstLap, InOrder
  <2> QED BY <2>7, <2>8
<1>2. ASSUME NEW e \in Ends, PeerTake(e) PROVE IInv'
  <2>1. /\ taken' = [taken EXCEPT ![e] = Len(out[Into(e)])]
        /\ UNCHANGED <<sent, nread, buf, rd, wr, out, peer, status, rfds, wfds, pc, result, failed>>
    BY <1>2 DEF PeerTake, buffers, control
  <2>2. taken' \in [Ends -> Nat]
    BY <2>1, TypedEnd DEF TypeOK
  <2>3. \A x \in Ends : Space(x)' \in 0..Room
    <3>1. TAKE x \in Ends
    <3>2. CASE x = e
      <4>1. Space(x)' = Room - (Len(out[Into(e)]) - Len(out[Into(e)]))
        BY <2>1, <3>2 DEF Space, TypeOK
      <4> QED BY <4>1, TypedEnd
    <3>3. CASE x # e
      <4>1. Space(x)' = Space(x)
        BY <2>1, <3>3 DEF Space, TypeOK
      <4> QED BY <4>1 DEF TypeOK
    <3> QED BY <3>2, <3>3
  <2>4. TypeOK'
    BY <2>1, <2>2, <2>3 DEF TypeOK
  <2>5. FirstLap'
    BY <2>1 DEF FirstLap, InOrder
  <2> QED BY <2>4, <2>5
<1>3. ASSUME NEW e \in Ends, PeerClose(e) \/ PeerReset(e) PROVE IInv'
  <2>1. TypeOK'
    BY <1>3 DEF PeerClose, PeerReset, TypeOK, buffers, control, Space
  <2>2. FirstLap'
    BY <1>3 DEF PeerClose, PeerReset, FirstLap, InOrder, buffers
  <2> QED BY <2>1, <2>2
<1> QED BY <1>1, <1>2, <1>3 DEF PeerStep

(* A write moves write_ptr, never past read_ptr.                           *)
LEMMA WriteInv ==
  ASSUME TwcAssumption, IInv, NEW d \in Dirs, WriteSome(d)
  PROVE  IInv'
<1> DEFINE n == Lesser(WriteAvailable(d), Space(Dst(d)))
           f == [i \in 1..n |-> buf[d][wr[d] + i - 1]]
<1> USE DEF IInv
<1>1. Dst(d) \in Ends /\ Into(Dst(d)) = d
  BY Directions
<1>2. N \in Nat /\ wr[d] \in Nat /\ rd[d] \in Nat /\ rd[d] <= N - 2 /\ wr[d] <= N - 2
  BY TypedDirection
<1>2o. out[d] \in Seq(Nat) /\ Len(out[d]) \in Nat
  BY TypedDirection
<1>2b. buf[d] \in [0..(N - 1) -> Nat]
  BY TypedDirection
<1>3. /\ WriteAvailable(d) = rd[d] - wr[d] /\ WriteAvailable(d) > 0
      /\ Space(Dst(d)) \in Int /\ 0 <= Space(Dst(d))
  BY <1>1, TypedEnd DEF WriteSome, Writes, WriteAvailable
<1>4. n \in Nat /\ n <= rd[d] - wr[d] /\ n <= Space(Dst(d))
  <2>1. WriteAvailable(d) \in Int
    BY <1>2, <1>3
  <2>2. /\ n \in {WriteAvailable(d), Space(Dst(d))}
        /\ n <= WriteAvailable(d) /\ n <= Space(Dst(d))
    BY <2>1, <1>3, LesserIsOne
  <2> HIDE DEF n
  <2> QED BY <1>3, <2>1, <2>2
<1>5. /\ out' = [out EXCEPT ![d] = @ \o f]
      /\ wr' = [wr EXCEPT ![d] = Advanced(@, n)]
      /\ status' = [status EXCEPT ![d] = "OK"]
      /\ UNCHANGED <<nread, buf, rd, sent, peer, taken, rfds, wfds, result, failed>>
      /\ pc' = ReadLabel(d)
  BY DEF WriteSome, Run, peers
<1> HIDE DEF n
<1>6. Advanced(wr[d], n) = wr[d] + n
  BY <1>2, <1>4 DEF Advanced
<1>7. f \in [1..n -> Nat] /\ \A i \in 1..n : f[i] = buf[d][wr[d] + i - 1]
  <2>1. \A i \in 1..n : wr[d] + i - 1 \in 0..(N - 1)
    BY <1>2, <1>4
  <2> QED BY <1>2b, <2>1
<1> HIDE DEF f
<1>8. /\ out'[d] = out[d] \o f
      /\ wr'[d] = wr[d] + n
      /\ \A x \in Dirs : x # d => out'[x] = out[x] /\ wr'[x] = wr[x]
  BY <1>5, <1>6 DEF TypeOK
<1>9. out'[d] \in Seq(Nat) /\ Len(out'[d]) = Len(out[d]) + n
  <2>1. n \in Nat /\ f \in [1..n -> Nat] /\ out[d] \in Seq(Nat)
    BY <1>2o, <1>4, <1>7
  <2>2. out[d] \o f \in Seq(Nat) /\ Len(out[d] \o f) = Len(out[d]) + n
    BY <2>1, Appended, Zenon
  <2> QED BY <2>2, <1>8, Zenon
<1>10. TypeOK'
  <2>1. wr' \in [Dirs -> 0..(N - 2)]
    <3>1. wr[d] + n \in 0..(N - 2)
      BY <1>2, <1>4
    <3> QED BY <1>5, <1>6, <3>1 DEF TypeOK
  <2>2. out' \in [Dirs -> Seq(Nat)]
    BY <1>5, <1>8, <1>9 DEF TypeOK
  <2>3. \A e \in Ends : Space(e)' \in 0..Room
    <3>1. TAKE e \in Ends
    <3>2. CASE e = Dst(d)
      <4>1. Space(e)' = Room - (Len(out'[d]) - taken[e])
        BY <3>2, <1>1, <1>5 DEF Space
      <4>2. /\ taken[e] \in Nat /\ Room \in Nat /\ Space(e) \in Int
            /\ Space(e) = Room - (Len(out[d]) - taken[e]) /\ Space(e) <= Room
        BY <3>2, <1>1, TypedEnd
      <4>3. n <= Space(e) /\ n \in Nat
        BY <3>2, <1>4
      <4>4. Space(e)' = Space(e) - n
        <5>1. Space(e)' = Room - ((Len(out[d]) + n) - taken[e])
          BY <4>1, <1>9, Zenon
        <5>2. Room - ((Len(out[d]) + n) - taken[e]) = Room - (Len(out[d]) - taken[e]) - n
          BY ONLY <4>2, <4>3, <1>2o
        <5> QED BY <5>1, <5>2, <4>2, Zenon
      <4>5. Space(e) - n \in 0..Room
        BY <4>2, <4>3
      <4> QED BY <4>4, <4>5
    <3>3. CASE e # Dst(d)
      <4>1. Into(e) \in Dirs /\ Into(e) # d
        BY <3>3, Directions
      <4>2. Space(e)' = Space(e)
        BY <4>1, <1>5, <1>8 DEF Space
      <4> QED BY <4>2 DEF TypeOK
    <3> QED BY <3>2, <3>3
  <2>4. pc' \in Labels
    BY <1>5 DEF ReadLabel, Labels
  <2> QED BY <2>1, <2>2, <2>3, <2>4, <1>5 DEF TypeOK
<1>11. FirstLap'
  <2>1. SUFFICES ASSUME NEW e \in Dirs, nread[e] < N - 1
                 PROVE  /\ InOrder(e)'
                        /\ rd'[e] = nread'[e] /\ wr'[e] = Len(out'[e]) /\ wr'[e] <= rd'[e]
                        /\ \A i \in wr'[e]..(rd'[e] - 1) : buf'[e][i] = i + 1
    BY <1>5 DEF FirstLap
  <2>2. CASE e # d
    BY <2>1, <2>2, <1>5, <1>8 DEF FirstLap, InOrder
  <2>3. CASE e = d
    <3>1. /\ InOrder(d) /\ rd[d] = nread[d] /\ wr[d] = Len(out[d])
          /\ \A i \in wr[d]..(rd[d] - 1) : buf[d][i] = i + 1
      BY <2>1, <2>3 DEF FirstLap
    <3>2. \A i \in 1..n : f[i] = wr[d] + i
      <4>1. TAKE i \in 1..n
      <4>2. wr[d] + i - 1 \in wr[d]..(rd[d] - 1)
        BY <1>2, <1>4
      <4>3. buf[d][wr[d] + i - 1] = wr[d] + i - 1 + 1
        BY <4>2, <3>1
      <4>4. f[i] = buf[d][wr[d] + i - 1]
        BY <1>7
      <4> QED BY <4>3, <4>4, <1>2, <1>4
    <3>3. InOrder(d)'
      <4>1. SUFFICES ASSUME NEW i \in 1..Len(out'[d]) PROVE out'[d][i] = i
        BY DEF InOrder
      <4>2. CASE i <= Len(out[d])
        <5>1. i \in 1..Len(out[d])
          BY <4>2, <1>2o, <1>9, <1>4
        <5>2. out'[d][i] = out[d][i]
          BY <5>1, <1>2, <1>4, <1>7, <1>8, Appended
        <5> QED BY <5>1, <5>2, <3>1 DEF InOrder
      <4>3. CASE i > Len(out[d])
        <5>1. i - Len(out[d]) \in 1..n /\ i \in (Len(out[d]) + 1)..(Len(out[d]) + n)
          BY <4>3, <1>2o, <1>4, <1>9
        <5>2. out'[d][i] = f[i - Len(out[d])]
          BY <5>1, <1>2, <1>4, <1>7, <1>8, Appended
        <5>3. f[i - Len(out[d])] = Len(out[d]) + (i - Len(out[d]))
          BY <5>1, <3>1, <3>2
        <5> QED BY <5>1, <5>2, <5>3, <1>2o
      <4> QED BY <4>2, <4>3, <1>2o, <1>4, <1>9
    <3>4. /\ rd'[d] = nread'[d] /\ wr'[d] = Len(out'[d]) /\ wr'[d] <= rd'[d]
      BY <1>2, <1>2o, <1>4, <1>5, <1>8, <1>9, <3>1
    <3>5. \A i \in wr'[d]..(rd'[d] - 1) : buf'[d][i] = i + 1
      <4>1. wr'[d] = wr[d] + n /\ rd' = rd /\ buf' = buf
        BY <1>5, <1>8
      <4>2. (wr[d] + n)..(rd[d] - 1) \subseteq wr[d]..(rd[d] - 1)
        BY ONLY <1>2, <1>4
      <4> QED BY ONLY <3>1, <4>1, <4>2
    <3> QED BY <2>3, <3>3, <3>4, <3>5
  <2> QED BY <2>2, <2>3
<1> QED BY <1>10, <1>11

(* A read puts the next bytes behind those that wait.                      *)
LEMMA ReadInv ==
  ASSUME TwcAssumption, IInv, NEW d \in Dirs, ReadSome(d)
  PROVE  IInv'
<1> DEFINE m == Reads(d)
           filled == [i \in 0..(N - 1) |->
                        IF i \in rd[d]..(rd[d] + m - 1) THEN nread[d] + 1 + i - rd[d]
                        ELSE buf[d][i]]
<1> USE DEF IInv
<1>1. /\ N \in Nat /\ N >= 2 /\ wr[d] \in Nat /\ rd[d] \in Nat
      /\ rd[d] <= N - 2 /\ wr[d] <= N - 2 /\ sent[d] \in Nat /\ nread[d] \in Nat
  BY TypedDirection
<1>1b. buf[d] \in [0..(N - 1) -> Nat]
  BY TypedDirection
<1>2. m \in Nat /\ nread[d] + m <= sent[d] /\ rd[d] + m <= N - 1
  <2>1. /\ Arrived(d) = sent[d] - nread[d] /\ Arrived(d) > 0
        /\ ReadAvailable(d) = N - rd[d]
    BY DEF ReadSome, Arrived, ReadAvailable
  <2>2. Arrived(d) \in Int /\ ReadAvailable(d) \in Int /\ ReadAvailable(d) > 0
    BY <1>1, <2>1
  <2>3. m \in {Arrived(d), ReadAvailable(d)} /\ m <= Arrived(d)
    BY <2>2, LesserIsOne DEF Reads
  <2>4. ~(rd[d] + m > N - 1)
    BY DEF ReadSome, Overruns
  <2> HIDE DEF m
  <2>5. m \in Int /\ m > 0
    BY <2>1, <2>2, <2>3
  <2> QED BY <1>1, <2>1, <2>3, <2>4, <2>5
<1>3. /\ nread' = [nread EXCEPT ![d] = nread[d] + m]
      /\ buf' = [buf EXCEPT ![d] = filled]
      /\ rd' = [rd EXCEPT ![d] = Advanced(rd[d], m)]
      /\ status' = [status EXCEPT ![d] = "OK"]
      /\ UNCHANGED <<wr, out, sent, peer, taken, result, failed>>
      /\ pc' = AfterRead(d)
      /\ rfds' \subseteq Ends /\ wfds' \subseteq Ends
  BY Directions DEF ReadSome, Run, peers, Rearm, TypeOK
<1> HIDE DEF m
<1>4. /\ Advanced(rd[d], m) \in 0..(N - 2)
      /\ rd[d] + m < N - 1 => Advanced(rd[d], m) = rd[d] + m
  BY <1>1, <1>2 DEF Advanced
<1>5. filled \in [0..(N - 1) -> Nat]
  <2>1. ASSUME NEW i \in 0..(N - 1), i \in rd[d]..(rd[d] + m - 1)
        PROVE  nread[d] + 1 + i - rd[d] \in Nat
    <3>1. i \in Int /\ i >= rd[d]
      BY <1>1, <1>2, <2>1
    <3> QED BY <1>1, <3>1
  <2> QED BY <1>1b, <2>1
<1>6. \A i \in 0..(N - 1) :
         filled[i] = IF i \in rd[d]..(rd[d] + m - 1) THEN nread[d] + 1 + i - rd[d]
                     ELSE buf[d][i]
  OBVIOUS
<1> HIDE DEF filled
<1>7. /\ nread'[d] = nread[d] + m /\ rd'[d] = Advanced(rd[d], m) /\ buf'[d] = filled
      /\ \A x \in Dirs : x # d => nread'[x] = nread[x] /\ rd'[x] = rd[x] /\ buf'[x] = buf[x]
  BY <1>3 DEF TypeOK
<1>8. TypeOK'
  <2>1. buf' \in [Dirs -> [0..(N - 1) -> Nat]]
    BY <1>3, <1>5 DEF TypeOK
  <2>2. nread' \in [Dirs -> Nat]
    <3>1. nread \in [Dirs -> Nat]
      BY DEF TypeOK
    <3>2. nread[d] + m \in Nat
      BY ONLY <1>1, <1>2
    <3> QED BY ONLY <1>3, <3>1, <3>2
  <2>3. rd' \in [Dirs -> 0..(N - 2)]
    BY <1>3, <1>4 DEF TypeOK
  <2>4. \A x \in Dirs : nread'[x] <= sent'[x] /\ sent'[x] <= MaxBytes[x]
    <3>1. TAKE x \in Dirs
    <3>2. CASE x = d
      BY <3>2, <1>2, <1>3, <1>7 DEF TypeOK
    <3>3. CASE x # d
      BY <3>3, <1>3, <1>7 DEF TypeOK
    <3> QED BY <3>2, <3>3
  <2>5. pc' \in Labels
    BY <1>3 DEF AfterRead, Labels
  <2>6. \A x \in Ends : Space(x)' = Space(x)
    BY <1>3 DEF Space
  <2>7. /\ sent' \in [Dirs -> Nat] /\ wr' \in [Dirs -> 0..(N - 2)]
        /\ out' \in [Dirs -> Seq(Nat)] /\ peer' \in [Ends -> {"open", "fin", "rst"}]
        /\ taken' \in [Ends -> Nat] /\ rfds' \subseteq Ends /\ wfds' \subseteq Ends
        /\ result' \in {"running", "TO", "EOF", "IOERR", "sigpipe", "abort"}
        /\ failed' \subseteq Dirs
    BY <1>3 DEF TypeOK
  <2>8. status' \in [Dirs -> {"OK", "EOF", "IOERR"}]
    BY <1>3 DEF TypeOK
  <2>9. \A x \in Ends : Space(x)' \in 0..Room
    BY <2>6 DEF TypeOK
  <2> QED BY ONLY <2>1, <2>2, <2>3, <2>4, <2>5, <2>7, <2>8, <2>9 DEF TypeOK
<1>9. FirstLap'
  <2>1. SUFFICES ASSUME NEW e \in Dirs, nread'[e] < N - 1
                 PROVE  /\ InOrder(e)'
                        /\ rd'[e] = nread'[e] /\ wr'[e] = Len(out'[e]) /\ wr'[e] <= rd'[e]
                        /\ \A i \in wr'[e]..(rd'[e] - 1) : buf'[e][i] = i + 1
    BY DEF FirstLap
  <2>2. CASE e # d
    <3>1. nread'[e] = nread[e] /\ rd'[e] = rd[e] /\ buf'[e] = buf[e]
      BY <2>2, <1>7
    <3>2. wr'[e] = wr[e] /\ out' = out
      BY <1>3
    <3> QED BY <2>1, <3>1, <3>2 DEF FirstLap, InOrder
  <2>3. CASE e = d
    <3>1. nread[d] + m < N - 1 /\ nread[d] < N - 1
      BY <2>1, <2>3, <1>1, <1>2, <1>7
    <3>2. /\ InOrder(d) /\ rd[d] = nread[d] /\ wr[d] = Len(out[d]) /\ wr[d] <= rd[d]
          /\ \A i \in wr[d]..(rd[d] - 1) : buf[d][i] = i + 1
      BY <3>1 DEF FirstLap
    <3>3. rd'[d] = rd[d] + m
      BY <3>1, <3>2, <1>4, <1>7
    <3>4. \A i \in wr[d]..(rd[d] + m - 1) : filled[i] = i + 1
      <4>1. TAKE i \in wr[d]..(rd[d] + m - 1)
      <4>2. i \in 0..(N - 1)
        BY <1>1, <1>2
      <4>3. CASE i < rd[d]
        <5>1. i \in wr[d]..(rd[d] - 1) /\ i \notin rd[d]..(rd[d] + m - 1)
          BY <4>2, <4>3, <1>1, <1>2
        <5>2. filled[i] = buf[d][i]
          BY <4>2, <5>1, <1>6
        <5> QED BY <5>1, <5>2, <3>2
      <4>4. CASE ~(i < rd[d])
        <5>1. i \in rd[d]..(rd[d] + m - 1)
          BY <4>4, <1>1, <1>2
        <5>2. filled[i] = nread[d] + 1 + i - rd[d]
          BY <4>2, <5>1, <1>6
        <5> QED BY <5>1, <5>2, <3>2, <1>1, <1>2
      <4> QED BY <4>3, <4>4
    <3>5. InOrder(d)'
      BY <1>3, <3>2 DEF InOrder
    <3>6. /\ rd'[d] = nread'[d] /\ wr'[d] = Len(out'[d]) /\ wr'[d] <= rd'[d]
      BY <1>1, <1>2, <1>3, <1>7, <3>2, <3>3
    <3>7. \A i \in wr'[d]..(rd'[d] - 1) : buf'[d][i] = i + 1
      <4>1. wr'[d] = wr[d] /\ buf'[d] = filled
        BY <1>3, <1>7
      <4>2. rd'[d] - 1 = rd[d] + m - 1
        BY <3>3, <1>1, <1>2
      <4> QED BY <4>1, <4>2, <3>4, Zenon
    <3> QED BY <2>3, <3>5, <3>6, <3>7
  <2> QED BY <2>2, <2>3
<1> QED BY <1>8, <1>9

(* Every other step of twc_run leaves the buffers alone.                   *)
LEMMA ControlInv ==
  ASSUME TwcAssumption, IInv, UNCHANGED <<buffers, sent, taken, peer>>,
         status' \in [Dirs -> {"OK", "EOF", "IOERR"}],
         rfds' \subseteq Ends, wfds' \subseteq Ends, pc' \in Labels,
         result' \in {"running", "TO", "EOF", "IOERR", "sigpipe", "abort"},
         failed' \subseteq Dirs
  PROVE  IInv'
<1>1. TypeOK'
  BY DEF IInv, TypeOK, buffers, Space
<1>2. FirstLap'
  BY DEF IInv, FirstLap, InOrder, buffers
<1> QED BY <1>1, <1>2 DEF IInv

(* No step of twc_run or of a peer breaks the invariant.                   *)
LEMMA StepInv == ASSUME TwcAssumption, IInv, [Next]_vars PROVE IInv'
<1>0. TypeOK
  BY DEF IInv
<1>1. CASE PeerStep
  BY <1>1, PeerInv
<1>2. ASSUME NEW d \in Dirs, Execute(d) PROVE IInv'
  <2>1. CASE WriteSome(d)
    BY <2>1, WriteInv
  <2>2. CASE ReadSome(d)
    BY <2>2, ReadInv
  <2>3. CASE SkipWrite(d) \/ WriteFails(d)
    BY <2>3, <1>0, ControlInv DEF SkipWrite, WriteFails, Run, ReadLabel, Labels,
       peers, TypeOK
  <2>4. CASE SkipRead(d) \/ ReadAborts(d) \/ ReadEof(d) \/ ReadFails(d)
    BY <2>4, <1>0, ControlInv, Directions DEF SkipRead, ReadAborts, ReadEof,
       ReadFails, Run, AfterRead, Rearm, Labels, peers, TypeOK
  <2> QED BY <1>2, <2>1, <2>2, <2>3, <2>4 DEF Execute
<1>3. CASE Select \/ Timeout \/ SelectFails
  BY <1>3, <1>0, ControlInv DEF Select, Timeout, SelectFails, Run, ReadyR, ReadyW, Labels,
     peers, TypeOK
<1>4. CASE Continue \/ Leave
  BY <1>4, <1>0, ControlInv DEF Continue, Leave, Run, Labels, peers, TypeOK, Dirs
<1>5. CASE UNCHANGED vars
  BY <1>5, <1>0, ControlInv DEF vars, control, peers, TypeOK
<1> QED BY <1>1, <1>2, <1>3, <1>4, <1>5 DEF Next, TwcStep

(* The inductive invariant holds in every state of a tunnel.               *)
THEOREM Invariance == Spec => []IInv
BY InitInv, StepInv, TwcAssumption, PTL DEF Spec

(* The pointers stay off the last byte and the variables well typed.       *)
THEOREM TypeCorrect == Spec => []TypeOK
BY Invariance, PTL DEF IInv

(* A tunnel delivers in order what a buffer's first lap carries.           *)
THEOREM FirstLapInOrder == Spec => []FirstLap
BY Invariance, PTL DEF IInv

-----------------------------------------------------------------------------
(* What waits after the last read of a direction: the source, and the      *)
(* destination if bytes are pending, unless its status is bad.             *)
Rearmed(d) == status[d] = "OK" => /\ Src(d) \in rfds
                                  /\ WriteAvailable(d) > 0 => Dst(d) \in wfds

(* Each direction is put back into the sets before the next select.        *)
Watched == /\ pc = "select" => \A d \in Dirs : status[d] = "OK" /\ Rearmed(d)
           /\ result = "running" =>
                /\ pc \in {"B2A write", "B2A read", "check"} => Rearmed("A2B")
                /\ pc = "check" => Rearmed("B2A")

(* The end of a direction: its destination's socket has been full, or a    *)
(* write to it failed.                                                     *)
Filled(d) == Len(out[d]) >= Room
Excused(d) == Filled(d) \/ d \in failed

(* The statements between select and the write of a direction.             *)
Before(d) == IF d = "A2B" THEN {"A2B write"} ELSE {"A2B write", "A2B read", "B2A write"}

(* Bytes that wait for a socket that select did not find writable, or that *)
(* wait after the write, wait because it was full; none wait at the end.   *)
Rest(d) == nread[d] < N - 1 =>
  /\ pc \in Before(d) /\ WriteAvailable(d) > 0 /\ Dst(d) \notin wfds => Filled(d)
  /\ pc = ReadLabel(d) /\ WriteAvailable(d) > 0 => Excused(d)
  /\ status[d] = "EOF" => peer[Src(d)] # "open" /\ (Len(out[d]) = sent[d] \/ Excused(d))

Rests == \A d \in Dirs : Rest(d)

LInv == IInv /\ Watched /\ Rests

(* A rearmed direction is watched as long as the other one is at work.     *)
LEMMA RearmedStays ==
  ASSUME NEW d \in Dirs, Rearmed(d), rfds \subseteq rfds', wfds \subseteq wfds',
         status'[d] = status[d], rd'[d] = rd[d], wr'[d] = wr[d]
  PROVE  Rearmed(d)'
BY DEF Rearmed, WriteAvailable

(* The half of sm_execute that writes.                                     *)
WriteHalf(d) == SkipWrite(d) \/ WriteSome(d) \/ WriteFails(d)
ReadHalf(d)  == SkipRead(d) \/ ReadSome(d) \/ ReadAborts(d) \/ ReadEof(d) \/ ReadFails(d)

(* What sm_execute does to the control of twc_run, in either half.         *)
LEMMA ExecuteControl ==
  ASSUME IInv, NEW d \in Dirs, Execute(d)
  PROVE  /\ result = "running"
         /\ \/ WriteHalf(d) /\ pc = WriteLabel(d) /\ pc' = ReadLabel(d)
            \/ ReadHalf(d) /\ pc = ReadLabel(d) /\ pc' = AfterRead(d)
         /\ rfds \subseteq rfds' /\ wfds \subseteq wfds'
         /\ \A x \in Dirs : x # d => /\ status'[x] = status[x]
                                     /\ rd'[x] = rd[x] /\ wr'[x] = wr[x]
                                     /\ nread'[x] = nread[x] /\ out'[x] = out[x]
         /\ UNCHANGED peers /\ failed \subseteq failed'
<1>1. CASE WriteHalf(d)
  BY <1>1 DEF WriteHalf, SkipWrite, WriteSome, WriteFails, Run, buffers, peers, IInv, TypeOK
<1>2. CASE ReadHalf(d)
  BY <1>2 DEF ReadHalf, SkipRead, ReadSome, ReadAborts, ReadEof, ReadFails, Run, Rearm,
     buffers, peers, IInv, TypeOK
<1> QED BY <1>1, <1>2 DEF Execute, WriteHalf, ReadHalf

(* sm_execute ends with the two descriptors of its direction in the sets,  *)
(* unless the process aborts.                                              *)
LEMMA ReadRearms ==
  ASSUME TwcAssumption, IInv, NEW d \in Dirs, ReadHalf(d)
  PROVE  Rearmed(d)' \/ result' = "abort"
<1>1. CASE SkipRead(d)
  BY <1>1 DEF SkipRead, Rearm, Rearmed, WriteAvailable, buffers
<1>2. CASE ReadSome(d)
  <2>1. rd[d] \in Int /\ Reads(d) \in Int /\ wr[d] \in Int /\ N \in Int
    <3>1. Arrived(d) \in Int /\ ReadAvailable(d) \in Int /\ rd[d] \in Int /\ wr[d] \in Int
          /\ N \in Int
      BY TypedDirection DEF Arrived, ReadAvailable, IInv
    <3> QED BY <3>1, LesserIsOne DEF Reads
  <2>2. Advanced(rd[d], Reads(d)) \in Int
    BY <2>1 DEF Advanced
  <2>3. rd'[d] = Advanced(rd[d], Reads(d)) /\ wr'[d] = wr[d]
    BY <1>2 DEF ReadSome, IInv, TypeOK
  <2>4. /\ Src(d) \in rfds'
        /\ Advanced(rd[d], Reads(d)) > wr[d] => Dst(d) \in wfds'
    BY <1>2 DEF ReadSome, Rearm
  <2>5. rd'[d] - wr'[d] > 0 => Advanced(rd[d], Reads(d)) > wr[d]
    BY <2>1, <2>2, <2>3
  <2> QED BY <2>4, <2>5 DEF Rearmed, WriteAvailable
<1>3. CASE ReadAborts(d)
  BY <1>3 DEF ReadAborts
<1>4. CASE ReadEof(d) \/ ReadFails(d)
  BY <1>4 DEF ReadEof, ReadFails, Rearmed, IInv, TypeOK
<1> QED BY <1>1, <1>2, <1>3, <1>4 DEF ReadHalf

(* No step of twc_run or of a peer breaks Watched.                         *)
LEMMA StepWatched == ASSUME TwcAssumption, IInv, Watched, [Next]_vars PROVE Watched'
<1>1. ASSUME NEW d \in Dirs, Execute(d) PROVE Watched'
  <2>1. CASE d = "A2B"
    <3>1. pc' = "A2B read" \/ (pc' = "B2A write" /\ (Rearmed(d)' \/ result' = "abort"))
      BY <1>1, <2>1, ExecuteControl, ReadRearms DEF ReadLabel, AfterRead
    <3> QED BY <2>1, <3>1 DEF Watched
  <2>2. CASE d = "B2A"
    <3>1. Rearmed("A2B")
      BY <1>1, <2>2, ExecuteControl DEF WriteLabel, ReadLabel, Watched
    <3>2. Rearmed("A2B")'
      BY <1>1, <2>2, <3>1, ExecuteControl, RearmedStays DEF Dirs
    <3>3. pc' = "B2A read" \/ (pc' = "check" /\ (Rearmed(d)' \/ result' = "abort"))
      BY <1>1, <2>2, ExecuteControl, ReadRearms DEF ReadLabel, AfterRead
    <3> QED BY <2>2, <3>2, <3>3 DEF Watched
  <2> QED BY <2>1, <2>2 DEF Dirs
<1>2. CASE Select \/ Timeout \/ SelectFails \/ Leave
  BY <1>2 DEF Select, Timeout, SelectFails, Leave, Run, Watched
<1>3. CASE Continue
  BY <1>3 DEF Continue, Run, Watched, Rearmed, WriteAvailable, buffers, Dirs
<1>4. CASE PeerStep \/ UNCHANGED vars
  BY <1>4 DEF PeerStep, PeerSend, PeerTake, PeerClose, PeerReset, vars, control, buffers,
     Watched, Rearmed, WriteAvailable
<1> QED BY <1>1, <1>2, <1>3, <1>4 DEF Next, TwcStep

(* A write that leaves something behind filled the socket.                 *)
LEMMA WriteFills ==
  ASSUME TwcAssumption, IInv, NEW d \in Dirs, WriteSome(d)
  PROVE  WriteAvailable(d)' > 0 => Filled(d)'
<1> DEFINE n == Lesser(WriteAvailable(d), Space(Dst(d)))
           f == [i \in 1..n |-> buf[d][wr[d] + i - 1]]
<1>1. Dst(d) \in Ends /\ Into(Dst(d)) = d
  BY Directions
<1>2. /\ N \in Nat /\ wr[d] \in Nat /\ rd[d] \in Nat /\ rd[d] <= N - 2
  BY TypedDirection DEF IInv
<1>2b. /\ out[d] \in Seq(Nat) /\ Len(out[d]) \in Nat /\ buf[d] \in [0..(N - 1) -> Nat]
  BY TypedDirection DEF IInv
<1>3. /\ taken[Dst(d)] \in Nat /\ Room \in Nat /\ Space(Dst(d)) \in Int
      /\ Space(Dst(d)) = Room - (Len(out[d]) - taken[Dst(d)])
  BY <1>1, TypedEnd DEF IInv
<1>4. WriteAvailable(d) = rd[d] - wr[d] /\ WriteAvailable(d) > 0 /\ Space(Dst(d)) > 0
  BY DEF WriteSome, Writes, WriteAvailable
<1>5. /\ n = rd[d] - wr[d] \/ n = Space(Dst(d))
      /\ n <= rd[d] - wr[d] /\ n \in Nat
  <2>1. WriteAvailable(d) \in Int
    BY <1>2, <1>4
  <2>2. n \in {WriteAvailable(d), Space(Dst(d))} /\ n <= WriteAvailable(d)
    BY <2>1, <1>3, LesserIsOne
  <2> HIDE DEF n
  <2> QED BY <2>1, <2>2, <1>3, <1>4
<1>6. /\ out'[d] = out[d] \o f
      /\ wr'[d] = Advanced(wr[d], n)
      /\ rd' = rd
  BY DEF WriteSome, IInv, TypeOK
<1> HIDE DEF n
<1>7. Advanced(wr[d], n) = wr[d] + n
  BY <1>2, <1>4, <1>5 DEF Advanced
<1>8. f \in [1..n -> Nat]
  <2>1. \A i \in 1..n : wr[d] + i - 1 \in 0..(N - 1)
    BY ONLY <1>2, <1>5
  <2> QED BY <1>2b, <2>1
<1> HIDE DEF f
<1>9. Len(out'[d]) = Len(out[d]) + n
  <2>1. Len(out[d] \o f) = Len(out[d]) + n
    BY <1>2b, <1>5, <1>8, Appended, Zenon
  <2> QED BY <2>1, <1>6, Zenon
<1>10. SUFFICES ASSUME rd'[d] - wr'[d] > 0 PROVE Len(out'[d]) >= Room
  BY DEF WriteAvailable, Filled
<1>11. n # rd[d] - wr[d]
  BY <1>2, <1>5, <1>6, <1>7, <1>10
<1>12. n = Space(Dst(d))
  BY <1>5, <1>11
<1> QED BY <1>2b, <1>3, <1>9, <1>12

(* select leaves out a watched destination only when its socket is full.   *)
LEMMA SelectRests ==
  ASSUME TwcAssumption, IInv, Watched, Rests, Select, NEW d \in Dirs PROVE Rest(d)'
<1>1. /\ pc = "select" /\ pc' = "A2B write" /\ wfds' = ReadyW
      /\ UNCHANGED <<rd, wr, out, nread, sent, peer, status, failed>>
  BY DEF Select, Run, buffers, peers
<1>2. status[d] = "OK" /\ (WriteAvailable(d) > 0 => Dst(d) \in wfds)
  BY <1>1 DEF Watched, Rearmed
<1>3. ASSUME WriteAvailable(d) > 0, Dst(d) \notin ReadyW PROVE Len(out[d]) >= Room
  <2>1. ~Writable(Dst(d)) /\ Into(Dst(d)) = d /\ Dst(d) \in Ends
    BY <1>2, <1>3, Directions DEF ReadyW
  <2>2. ~(Space(Dst(d)) > 0)
    BY <2>1 DEF Writable
  <2>3. /\ taken[Dst(d)] \in Nat /\ Room \in Nat /\ Len(out[d]) \in Nat
        /\ Space(Dst(d)) = Room - (Len(out[d]) - taken[Dst(d)])
    BY <2>1, TypedEnd DEF IInv
  <2> QED BY <2>2, <2>3
<1> QED BY <1>1, <1>2, <1>3 DEF Rest, Filled, WriteAvailable, ReadLabel

(* What sm_execute does to its own direction.                              *)
LEMMA OwnRest ==
  ASSUME TwcAssumption, IInv, NEW d \in Dirs, Rest(d), Execute(d) PROVE Rest(d)'
<1>0. /\ pc' # WriteLabel(d) /\ WriteLabel(d) \in Before(d) /\ AfterRead(d) # ReadLabel(d)
      /\ ReadLabel(d) \notin Before(d) /\ AfterRead(d) \notin Before(d)
  BY ExecuteControl DEF WriteLabel, ReadLabel, AfterRead, Before, Dirs
<1>1. CASE SkipWrite(d)
  <2>1. /\ pc = WriteLabel(d) /\ pc' = ReadLabel(d) /\ ~Writes(d)
        /\ UNCHANGED <<rd, wr, out, nread, sent, peer, status, failed, wfds>>
    BY <1>1 DEF SkipWrite, Run, buffers, peers
  <2> QED BY <1>0, <2>1 DEF Rest, Writes, Filled, Excused, WriteAvailable
<1>2. CASE WriteSome(d)
  <2>1. pc' = ReadLabel(d) /\ status'[d] = "OK"
    BY <1>2 DEF WriteSome, Run, IInv, TypeOK
  <2> QED BY <1>0, <1>2, <2>1, WriteFills DEF Rest, Excused
<1>3. CASE WriteFails(d)
  <2>1. pc' = ReadLabel(d) /\ status'[d] = "IOERR" /\ d \in failed'
    BY <1>3 DEF WriteFails, Run, IInv, TypeOK
  <2> QED BY <1>0, <2>1 DEF Rest, Excused
<1>4. CASE SkipRead(d) \/ ReadAborts(d)
  <2>1. /\ pc' = AfterRead(d)
        /\ UNCHANGED <<rd, wr, out, nread, sent, peer, status, failed>>
    BY <1>4 DEF SkipRead, ReadAborts, Run, buffers, peers
  <2> QED BY <1>0, <2>1 DEF Rest, Filled, Excused
<1>5. CASE ReadSome(d) \/ ReadFails(d)
  <2>1. pc' = AfterRead(d) /\ status'[d] # "EOF"
    BY <1>5 DEF ReadSome, ReadFails, Run, IInv, TypeOK
  <2> QED BY <1>0, <2>1 DEF Rest
<1>6. CASE ReadEof(d)
  <2>1. /\ pc = ReadLabel(d) /\ pc' = AfterRead(d) /\ peer[Src(d)] = "fin" /\ Arrived(d) = 0
        /\ UNCHANGED <<rd, wr, out, nread, sent, peer, failed>>
    BY <1>6 DEF ReadEof, Run, buffers, peers
  <2>2. ASSUME nread[d] < N - 1, ~Excused(d) PROVE Len(out[d]) = sent[d]
    <3>1. ~(WriteAvailable(d) > 0)
      BY <2>1, <2>2 DEF Rest
    <3>2. rd[d] = nread[d] /\ wr[d] = Len(out[d]) /\ wr[d] <= rd[d]
      BY <2>2 DEF IInv, FirstLap
    <3>3. sent[d] \in Nat /\ nread[d] \in Nat /\ Len(out[d]) \in Nat
      BY TypedDirection DEF IInv
    <3> QED BY <2>1, <3>1, <3>2, <3>3 DEF WriteAvailable, Arrived
  <2> QED BY <1>0, <2>1, <2>2 DEF Rest, Filled, Excused
<1> QED BY <1>1, <1>2, <1>3, <1>4, <1>5, <1>6 DEF Execute

(* What it leaves of the other one.                                        *)
LEMMA OtherRest ==
  ASSUME IInv, NEW d \in Dirs, NEW x \in Dirs, x # d, Rest(x), Execute(d) PROVE Rest(x)'
<1>1. /\ status'[x] = status[x] /\ rd'[x] = rd[x] /\ wr'[x] = wr[x]
      /\ nread'[x] = nread[x] /\ out'[x] = out[x]
      /\ sent' = sent /\ peer' = peer /\ failed \subseteq failed' /\ wfds \subseteq wfds'
  BY ExecuteControl DEF peers
<1>2. (pc' \in Before(x) => pc \in Before(x)) /\ pc' # ReadLabel(x)
  BY ExecuteControl DEF WriteLabel, ReadLabel, AfterRead, Before, Dirs
<1> QED BY <1>1, <1>2 DEF Rest, Filled, Excused, WriteAvailable

(* No step of twc_run or of a peer breaks Rests.  A peer that closed sends *)
(* no more.                                                                *)
LEMMA StepRests == ASSUME TwcAssumption, IInv, Watched, Rests, [Next]_vars PROVE Rests'
<1>1. ASSUME NEW d \in Dirs, Execute(d) PROVE Rests'
  BY <1>1, OwnRest, OtherRest DEF Rests
<1>2. CASE Select
  BY <1>2, SelectRests DEF Rests
<1>3. CASE Timeout \/ SelectFails \/ Continue \/ Leave
  <2>1. /\ pc' \in {"done", "select"}
        /\ UNCHANGED <<rd, wr, out, nread, sent, peer, status, failed>>
    BY <1>3 DEF Timeout, SelectFails, Continue, Leave, Run, buffers, peers
  <2> QED BY <2>1 DEF Rests, Rest, Before, ReadLabel, Filled, Excused
<1>4. CASE PeerStep
  <2>1. UNCHANGED <<rd, wr, out, nread, status, wfds, pc, failed>>
    BY <1>4 DEF PeerStep, PeerSend, PeerTake, PeerClose, PeerReset, buffers, control
  <2>2. ASSUME NEW d \in Dirs, peer[Src(d)] # "open"
        PROVE  peer'[Src(d)] # "open" /\ sent'[d] = sent[d]
    BY <1>4, <2>2, Directions DEF PeerStep, PeerSend, PeerTake, PeerClose, PeerReset, IInv,
       TypeOK
  <2> QED BY <2>1, <2>2 DEF Rests, Rest, WriteAvailable, Filled, Excused
<1>5. CASE UNCHANGED vars
  BY <1>5 DEF vars, buffers, peers, control, Rests, Rest, WriteAvailable, Filled, Excused
<1> QED BY <1>1, <1>2, <1>3, <1>4, <1>5 DEF Next, TwcStep

(* The loop of twc_run keeps all of it.                                    *)
LEMMA LoopInvariance == Spec => []LInv
<1>1. Init => Watched /\ Rests
  BY DEF Init, Watched, Rests, Rest, Rearmed, WriteAvailable, Dirs, Ends, Src, Before, ReadLabel
<1>2. Init => LInv
  BY <1>1, InitInv, TwcAssumption DEF LInv
<1>3. LInv /\ [Next]_vars => LInv'
  BY StepInv, StepWatched, StepRests, TwcAssumption DEF LInv
<1> QED BY <1>2, <1>3, PTL DEF Spec

(* Nothing is forgotten across select: when twc_run goes to sleep it       *)
(* watches both ends for reading and, for writing, each end for which      *)
(* bytes wait.                                                             *)
THEOREM PendingWatched == Spec => []PendingIsWatched
<1>1. LInv => PendingIsWatched
  <2>1. SUFFICES ASSUME LInv, pc = "select" PROVE PendingIsWatched
    BY DEF PendingIsWatched
  <2>2. \A d \in Dirs : Src(d) \in rfds /\ (WriteAvailable(d) > 0 => Dst(d) \in wfds)
    BY <2>1 DEF LInv, Watched, Rearmed
  <2>3. rfds \subseteq Ends
    BY <2>1 DEF LInv, IInv, TypeOK
  <2> QED BY <2>2, <2>3 DEF PendingIsWatched, Dirs, Ends, Src
<1> QED BY <1>1, LoopInvariance, PTL

(* When end of file is reported, all that the closed peer sent was written *)
(* to the other end, unless its socket was full or a write failed.         *)
THEOREM EofEndsDelivery == Spec => []EofAfterDelivery
<1>1. LInv => EofAfterDelivery
  BY DEF LInv, Rests, Rest, Excused, Filled, EofAfterDelivery
<1> QED BY <1>1, LoopInvariance, PTL
=============================================================================
