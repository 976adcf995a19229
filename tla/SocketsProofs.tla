---------------------------- MODULE SocketsProofs ----------------------------
(***************************************************************************)
(* Lemmas about Sockets.tla that the proofs about its users share: which   *)
(* number the kernel hands out, and the types of what its operations leave.*)
(***************************************************************************)
EXTENDS Sockets, WellFoundedInduction, TLAPS

(* A set of descriptors that is not empty has a lowest one.                *)
LEMMA LowestFree ==
  ASSUME FreeFds # {} PROVE Lowest \in Fds /\ fdt[Lowest] = Free
<1>1. FreeFds \subseteq Nat
  BY DEF FreeFds, Fds
<1>2. PICK f \in FreeFds : \A g \in FreeFds : ~(<<g, f>> \in OpToRel(<, Nat))
  BY <1>1, NatLessThanWellFounded, WFMin
<1>3. \A g \in FreeFds : f <= g
  <2>1. OpToRel(<, Nat) = {ss \in Nat \X Nat : ss[1] < ss[2]}
    BY DEF OpToRel
  <2>2. SUFFICES ASSUME NEW g \in FreeFds, g < f PROVE FALSE
    BY <1>1
  <2>3. <<g, f>> \in {ss \in Nat \X Nat : ss[1] < ss[2]}
    BY <1>1, <2>2
  <2> QED
    BY <1>2, <2>1, <2>3, Zenon
<1>4. Lowest \in FreeFds
  BY <1>2, <1>3 DEF Lowest
<1> QED
  BY <1>4 DEF FreeFds

-----------------------------------------------------------------------------
(* The types of what the operations leave.                                 *)

(* What is open is a descriptor.                                           *)
LEMMA BehindOpen ==
  ASSUME NEW f, Behind(f) # Free PROVE f \in Fds /\ Behind(f) = fdt[f]
BY DEF Behind

(* What a read returns is a message.                                       *)
LEMMA FirstTyped ==
  ASSUME NetTypeOK, NEW f, ReadsMessage(f)
  PROVE  f \in Fds /\ fdt[f] \in Socks /\ FirstOf(f) \in Messages
<1>1. f \in Fds /\ fdt[f] \in Socks /\ rx[fdt[f]] # <<>>
  BY SocketsAssumption, BehindOpen DEF ReadsMessage, SocketsAssumption, Socks
<1>2. rx[fdt[f]] \in Seq(Messages)
  BY <1>1 DEF NetTypeOK
<1> QED
  BY <1>1, <1>2 DEF FirstOf

(* A read takes everything that waits.                                     *)
LEMMA ConsumeTyped ==
  ASSUME NetTypeOK, NEW f, Consume(f), UNCHANGED <<fdt, peer, tx, asked, proc>>
  PROVE  NetTypeOK'
<1>1. <<>> \in Seq(Messages)
  OBVIOUS
<1>2. rx' \in [Socks -> Seq(Messages)]
  BY <1>1 DEF NetTypeOK, Consume
<1> QED
  BY <1>2 DEF NetTypeOK

(* A write of a message appends one.                                       *)
LEMMA WriteTyped ==
  ASSUME NetTypeOK, NEW f, NEW m \in Messages, Write(f, m),
         UNCHANGED <<fdt, peer, rx, asked>>
  PROVE  NetTypeOK'
<1>1. CASE Delivers(f)
  <2> PICK s : s = fdt[f]
    OBVIOUS
  <2>1. s \in Socks
    BY <1>1, SocketsAssumption, BehindOpen DEF Delivers, SocketsAssumption, Socks
  <2>2. tx[s] \in Seq(Messages)
    BY <2>1 DEF NetTypeOK
  <2>3. Append(tx[s], m) \in Seq(Messages)
    BY <2>2
  <2>4. tx' = [tx EXCEPT ![s] = Append(tx[s], m)]
    BY <1>1, <2>1 DEF Write, NetTypeOK
  <2>5. tx' \in [Socks -> Seq(Messages)]
    BY <2>3, <2>4 DEF NetTypeOK
  <2> QED
    BY <2>5 DEF NetTypeOK, Write
<1>2. CASE ~Delivers(f)
  BY <1>2 DEF NetTypeOK, Write
<1> QED
  BY <1>1, <1>2

(* A close, of an open number or not.                                      *)
LEMMA CloseTyped ==
  ASSUME NetTypeOK, NEW f, Close(f), UNCHANGED <<asked, proc>> PROVE NetTypeOK'
<1>1. <<>> \in Seq(Messages)
  OBVIOUS
<1>2. CASE Behind(f) # Free
  <2>1. fdt' \in [Fds -> Socks \cup {Free, Dead}]
    BY <1>2 DEF Close, NetTypeOK
  <2>2. peer' \in [Socks -> {"none", "open", "fin", "rst", "closed"}]
    BY <1>2 DEF Close, NetTypeOK
  <2>3. rx' \in [Socks -> Seq(Messages)] /\ tx' \in [Socks -> Seq(Messages)]
    BY <1>1, <1>2 DEF Close, NetTypeOK
  <2> QED
    BY <2>1, <2>2, <2>3 DEF NetTypeOK
<1>3. CASE Behind(f) = Free
  BY <1>3 DEF Close, NetTypeOK
<1> QED
  BY <1>2, <1>3

(* A leak of a worker's upstream socket.                                   *)
LEMMA LeakTyped ==
  ASSUME NetTypeOK, NEW w \in Workers, Leak(w), UNCHANGED <<asked, proc>> PROVE NetTypeOK'
<1>1. <<>> \in Seq(Messages)
  OBVIOUS
<1>2. fdt' \in [Fds -> Socks \cup {Free, Dead}]
  BY DEF Leak, NetTypeOK
<1>3. peer' \in [Socks -> {"none", "open", "fin", "rst", "closed"}]
  BY DEF Leak, NetTypeOK
<1>4. rx' \in [Socks -> Seq(Messages)] /\ tx' \in [Socks -> Seq(Messages)]
  BY <1>1 DEF Leak, NetTypeOK
<1> QED
  BY <1>2, <1>3, <1>4 DEF NetTypeOK

(* A connect that succeeds.                                                *)
LEMMA ConnectTyped ==
  ASSUME NetTypeOK, NEW w \in Workers, ConnectOk(w), UNCHANGED <<asked, proc>>
  PROVE  NetTypeOK'
<1>1. <<>> \in Seq(Messages) /\ w \in Socks
  BY DEF Socks
<1>2. fdt' \in [Fds -> Socks \cup {Free, Dead}]
  BY <1>1 DEF ConnectOk, NetTypeOK
<1>3. peer' \in [Socks -> {"none", "open", "fin", "rst", "closed"}]
  BY DEF ConnectOk, NetTypeOK
<1>4. rx' \in [Socks -> Seq(Messages)] /\ tx' \in [Socks -> Seq(Messages)]
  BY <1>1 DEF ConnectOk, NetTypeOK
<1> QED
  BY <1>2, <1>3, <1>4 DEF NetTypeOK

(* A connect that fails, and what may become of the process by it.         *)
LEMMA RefusedTyped ==
  ASSUME NetTypeOK, ConnectFail, asked' = asked,
         proc' \in {"up", "stopped", "exit1", "sigpipe", "abort"}
  PROVE  NetTypeOK'
BY DEF ConnectFail, NetTypeOK

(* What the peers do.                                                      *)
LEMMA PeerTyped ==
  ASSUME NetTypeOK, NEW s \in Socks, PeerCloses(s) \/ PeerResets(s) PROVE NetTypeOK'
<1>1. <<>> \in Seq(Messages)
  OBVIOUS
<1>2. rx' \in [Socks -> Seq(Messages)]
  BY <1>1 DEF PeerCloses, PeerResets, NetTypeOK
<1>3. peer' \in [Socks -> {"none", "open", "fin", "rst", "closed"}]
  BY DEF PeerCloses, PeerResets, NetTypeOK
<1> QED
  BY <1>2, <1>3 DEF PeerCloses, PeerResets, NetTypeOK

(* The request that a client sends, and its number.                        *)
LEMMA SendTyped ==
  ASSUME NetTypeOK, NEW c \in Conns, NEW v \in Verbs, NEW p \in Ports, ClientSend(c, v, p)
  PROVE  /\ NetTypeOK'
         /\ [conn |-> c, seq |-> asked[c] + 1, port |-> p, verb |-> v] \in Messages
         /\ asked[c] \in Nat /\ asked'[c] = asked[c] + 1
<1> PICK m : m = [conn |-> c, seq |-> asked[c] + 1, port |-> p, verb |-> v]
  OBVIOUS
<1>1. MaxMsgs \in Nat \ {0} /\ v \in {"NORMAL", "TUNNEL", "BAD", "ACK"}
  BY SocketsAssumption DEF SocketsAssumption
<1>2. asked[c] \in 0..MaxMsgs /\ asked[c] < MaxMsgs
  BY <1>1 DEF NetTypeOK, ClientSend
<1>3. asked[c] + 1 \in 1..MaxMsgs
  BY <1>1, <1>2
<1>4. m \in Messages
  BY <1>1, <1>3 DEF Messages
<1>5. c \in Socks /\ rx[c] \in Seq(Messages)
  BY DEF Socks, NetTypeOK
<1>6. Append(rx[c], m) \in Seq(Messages)
  BY <1>4, <1>5
<1>7. rx' = [rx EXCEPT ![c] = Append(rx[c], m)]
  BY <1>5 DEF ClientSend, NetTypeOK
<1>8. rx' \in [Socks -> Seq(Messages)]
  BY <1>6, <1>7 DEF NetTypeOK
<1>9. asked' \in [Conns -> 0..MaxMsgs] /\ asked'[c] = asked[c] + 1
  BY <1>1, <1>2 DEF NetTypeOK, ClientSend
<1> QED
  BY <1>2, <1>4, <1>8, <1>9 DEF NetTypeOK, ClientSend

(* What a client does on its own.                                          *)
LEMMA ClientTyped ==
  ASSUME NetTypeOK, NEW c \in Conns, ClientNext(c) PROVE NetTypeOK'
<1>1. CASE ClientConnect(c)
  BY <1>1 DEF ClientConnect, NetTypeOK
<1> QED
  BY <1>1, SendTyped DEF ClientNext

(* The answer of an upstream server.                                       *)
LEMMA ReplyTyped ==
  ASSUME NetTypeOK, NEW w \in Workers, ServerReply(w) PROVE NetTypeOK'
<1>1. w \in Socks /\ rx[w] \in Seq(Messages) /\ tx[w] \in Seq(Messages) /\ tx[w] # <<>>
  BY DEF Socks, NetTypeOK, ServerReply
<1>2. Head(tx[w]) \in Messages /\ Tail(tx[w]) \in Seq(Messages)
  BY <1>1
<1>3. PICK v \in {Head(tx[w]).verb, "BAD"} :
        rx' = [rx EXCEPT ![w] = Append(@, [Head(tx[w]) EXCEPT !.verb = v])]
  BY DEF ServerReply
<1>4. [Head(tx[w]) EXCEPT !.verb = v] \in Messages
  BY <1>2 DEF Messages
<1>5. Append(rx[w], [Head(tx[w]) EXCEPT !.verb = v]) \in Seq(Messages)
  BY <1>1, <1>4
<1>6. rx' \in [Socks -> Seq(Messages)]
  BY <1>1, <1>3, <1>5 DEF NetTypeOK
<1>7. tx' \in [Socks -> Seq(Messages)]
  BY <1>1, <1>2 DEF NetTypeOK, ServerReply
<1> QED
  BY <1>6, <1>7 DEF NetTypeOK, ServerReply
=============================================================================
