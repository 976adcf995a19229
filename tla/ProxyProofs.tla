----------------------------- MODULE ProxyProofs -----------------------------
(***************************************************************************)
(* Theorems about Proxy.tla, for any number of clients, workers, messages, *)
(* descriptors and refused connects.                                       *)
(***************************************************************************)
EXTENDS Proxy, SocketsProofs, FiniteSetTheorems

-----------------------------------------------------------------------------
(* Types.                                                                  *)

WorkerTypeOK == /\ queue \in Seq(Fds)
                /\ pc \in [Workers -> {"remove"} \cup HandlerLabels]
                /\ hfd \in [Workers -> Fds \cup {NoFd}]
                /\ cfd \in [Workers -> Fds \cup {NoFd}]
                /\ msg \in [Workers -> Messages \cup {Unset}]
                /\ port \in [Workers -> Ports \cup {Unset}]
                /\ tries \in [Workers -> 0..MaxTries]
                /\ status \in [Workers -> {"GOOD", "ERRNO", "EOF", "PARSE"}]
                /\ refused \in 0..MaxRefused
                /\ forwarded \in [Conns -> Seq(1..MaxMsgs)]
                /\ thrown \subseteq Conns
                /\ stray \in BOOLEAN

(* A worker that is to write a message has one, and the retry count is     *)
(* below its limit whenever a connect is tried.                            *)
HasMsg(w)    == pc[w] \in {"connect", "send", "await", "reply", "tunnel_connect", "tunnel_ok"}
MsgHere      == \A w \in Workers : HasMsg(w) => msg[w] \in Messages
TriesLeft    == \A w \in Workers : pc[w] = "connect" => tries[w] < MaxTries

Typed == NetTypeOK /\ WorkerTypeOK /\ MsgHere /\ TriesLeft

LocalOK == WorkerTypeOK /\ MsgHere /\ TriesLeft

(* What Finish leaves of a handler.                                        *)
LEMMA ReturnTyped ==
  ASSUME Typed, NEW w \in Workers, NEW from, Return(w, from), thrown' \subseteq Conns
  PROVE  LocalOK'
BY DEF Typed, LocalOK, WorkerTypeOK, MsgHere, TriesLeft, HasMsg, Return, Finish, MaxTries

(* A statement that reads from a client.                                   *)
LEMMA ReadsTyped ==
  ASSUME Typed, NEW w \in Workers,
         \/ StartNormal(w) \/ StartTunnel(w) \/ RejectFirst(w)
         \/ ReadNext(w) \/ RejectNext(w) \/ NextEof(w) \/ FirstEof(w)
  PROVE  Typed'
<1> USE DEF Typed, LocalOK, WorkerTypeOK, MsgHere, TriesLeft, HasMsg, HandlerLabels,
            history, locals, SetMsg, NewClient, Step
<1> MaxTries \in Nat /\ 0 < MaxTries
  BY DEF MaxTries
<1> HIDE DEF MaxTries
<1>1. CASE StartNormal(w)
  <2>1. NetTypeOK' /\ FirstOf(hfd[w]) \in Messages
    BY <1>1, FirstTyped, ConsumeTyped DEF StartNormal, ReadFirst
  <2>2. FirstOf(hfd[w]).port \in Ports
    BY <2>1 DEF Messages
  <2> QED
    BY <1>1, <2>1, <2>2 DEF StartNormal, ReadFirst
<1>2. CASE StartTunnel(w) \/ RejectFirst(w)
  <2>1. NetTypeOK' /\ FirstOf(hfd[w]) \in Messages
    BY <1>2, FirstTyped, ConsumeTyped DEF StartTunnel, RejectFirst, ReadFirst
  <2>2. CASE StartTunnel(w)
    BY <2>1, <2>2 DEF StartTunnel, ReadFirst
  <2>3. CASE RejectFirst(w)
    BY <2>1, <2>3 DEF RejectFirst, ReadFirst
  <2> QED
    BY <1>2, <2>2, <2>3
<1>3. CASE ReadNext(w)
  <2>1. NetTypeOK' /\ FirstOf(hfd[w]) \in Messages
    BY <1>3, FirstTyped, ConsumeTyped DEF ReadNext, NextRequest
  <2> QED
    BY <1>3, <2>1 DEF ReadNext, NextRequest
<1>4. CASE RejectNext(w)
  <2>1. NetTypeOK'
    BY <1>4, ConsumeTyped DEF RejectNext, NextRequest
  <2> QED
    BY <1>4, <2>1 DEF RejectNext, NextRequest
<1>5. CASE NextEof(w) \/ FirstEof(w)
  <2>1. NetTypeOK'
    BY <1>5 DEF NextEof, FirstEof, NextRequest, NetTypeOK
  <2> QED
    BY <1>5, <2>1 DEF NextEof, FirstEof, NextRequest, upVars
<1> QED
  BY <1>1, <1>2, <1>3, <1>4, <1>5

(* A connect, the write and the read of a request upstream, and its reply. *)
LEMMA ForwardTyped ==
  ASSUME Typed, NEW w \in Workers,
         \/ Connect(w) \/ ConnectFails(w) \/ Send(w)
         \/ GetResponse(w) \/ RejectResponse(w) \/ ResponseEof(w)
         \/ Reply(w) \/ CloseUp(w)
  PROVE  Typed'
<1> USE DEF Typed, LocalOK, WorkerTypeOK, MsgHere, TriesLeft, HasMsg, HandlerLabels,
            history, locals, upVars, SetMsg, SetStatus, Step
<1> MaxTries \in Nat /\ 0 < MaxTries
  BY DEF MaxTries
<1> HIDE DEF MaxTries
<1>1. CASE Connect(w)
  <2>1. NetTypeOK' /\ Lowest \in Fds
    BY <1>1, LowestFree, ConnectTyped DEF Connect, ConnectOk
  <2> QED
    BY <1>1, <2>1 DEF Connect
<1>2. CASE ConnectFails(w)
  <2>1. NetTypeOK'
    BY <1>2, RefusedTyped DEF ConnectFails, NetTypeOK
  <2>2. refused' \in 0..MaxRefused
    BY <1>2, ProxyAssumption DEF ConnectFails, Refused, ProxyAssumption
  <2> QED
    BY <1>2, <2>1, <2>2 DEF ConnectFails
<1>3. CASE Send(w)
  <2> PICK m : m = msg[w]
    OBVIOUS
  <2>1. m \in Messages
    BY <1>3 DEF Send
  <2>2. NetTypeOK'
    BY <1>3, <2>1, WriteTyped DEF Send
  <2>3. m.conn \in Conns /\ m.seq \in 1..MaxMsgs /\ forwarded[m.conn] \in Seq(1..MaxMsgs)
    BY <2>1 DEF Messages
  <2>4. Append(forwarded[m.conn], m.seq) \in Seq(1..MaxMsgs)
    BY <2>3
  <2>5. forwarded' \in [Conns -> Seq(1..MaxMsgs)]
    BY <1>3, <2>3, <2>4 DEF Send
  <2> QED
    BY <1>3, <2>2, <2>5 DEF Send
<1>4. CASE GetResponse(w)
  <2>1. NetTypeOK' /\ FirstOf(cfd[w]) \in Messages
    BY <1>4, FirstTyped, ConsumeTyped DEF GetResponse, Response
  <2> QED
    BY <1>4, <2>1 DEF GetResponse, Response
<1>5. CASE RejectResponse(w) \/ ResponseEof(w)
  <2>1. NetTypeOK'
    <3>1. CASE RejectResponse(w)
      BY <3>1, ConsumeTyped DEF RejectResponse, Response
    <3>2. CASE ResponseEof(w)
      BY <3>2 DEF ResponseEof, Response, NetTypeOK
    <3> QED
      BY <1>5, <3>1, <3>2
  <2> QED
    BY <1>5, <2>1 DEF RejectResponse, ResponseEof, Response
<1>6. CASE Reply(w)
  <2>1. NetTypeOK'
    BY <1>6, WriteTyped DEF Reply
  <2> QED
    BY <1>6, <2>1 DEF Reply
<1>7. CASE CloseUp(w)
  <2>1. NetTypeOK'
    BY <1>7, CloseTyped DEF CloseUp
  <2> QED
    BY <1>7, <2>1 DEF CloseUp
<1> QED
  BY <1>1, <1>2, <1>3, <1>4, <1>5, <1>6, <1>7

(* The statements of a tunnel.                                             *)
LEMMA TunnelTyped ==
  ASSUME Typed, NEW w \in Workers,
         \/ TunnelConnect(w) \/ TunnelConnectFails(w) \/ TunnelOk(w)
         \/ TunnelEof(w) \/ TunnelTimeout(w) \/ TunnelDies(w) \/ TunnelCloseClient(w)
  PROVE  Typed'
<1> USE DEF Typed, LocalOK, WorkerTypeOK, MsgHere, TriesLeft, HasMsg, HandlerLabels,
            history, locals, upVars, Step
<1>1. CASE TunnelConnect(w)
  <2>1. NetTypeOK' /\ Lowest \in Fds
    BY <1>1, LowestFree, ConnectTyped DEF TunnelConnect, ConnectOk
  <2> QED
    BY <1>1, <2>1 DEF TunnelConnect
<1>2. CASE TunnelConnectFails(w)
  <2>1. NetTypeOK'
    BY <1>2, RefusedTyped DEF TunnelConnectFails
  <2>2. refused' \in 0..MaxRefused
    BY <1>2, ProxyAssumption DEF TunnelConnectFails, Refused, ProxyAssumption
  <2> QED
    BY <1>2, <2>1, <2>2 DEF TunnelConnectFails
<1>3. CASE TunnelOk(w)
  <2>1. [msg[w] EXCEPT !.verb = "ACK"] \in Messages
    BY <1>3 DEF TunnelOk, Messages
  <2>2. NetTypeOK'
    BY <1>3, <2>1, WriteTyped DEF TunnelOk
  <2> QED
    BY <1>3, <2>2 DEF TunnelOk
<1>4. CASE TunnelEof(w) \/ TunnelTimeout(w) \/ TunnelDies(w)
  <2>1. NetTypeOK'
    BY <1>4 DEF TunnelEof, TunnelTimeout, TunnelDies, NetTypeOK
  <2> QED
    BY <1>4, <2>1 DEF TunnelEof, TunnelTimeout, TunnelDies
<1>5. CASE TunnelCloseClient(w)
  <2>1. NetTypeOK'
    BY <1>5, CloseTyped DEF TunnelCloseClient
  <2> QED
    BY <1>5, <2>1 DEF TunnelCloseClient
<1> QED
  BY <1>1, <1>2, <1>3, <1>4, <1>5

(* The ways out of a handler.                                              *)
LEMMA LeavesTyped ==
  ASSUME Typed, NEW w \in Workers,
         \/ CloseClient(w) \/ TunnelCloseUp(w) \/ ResponseThrows(w)
         \/ ReadThrows(w, "read") \/ ReadThrows(w, "next")
  PROVE  Typed'
<1>1. CASE CloseClient(w)
  <2>1. NetTypeOK' /\ LocalOK'
    BY <1>1, CloseTyped, ReturnTyped
    DEF CloseClient, Return, Finish, Typed, WorkerTypeOK
  <2> QED
    BY <2>1 DEF Typed, LocalOK
<1>2. CASE TunnelCloseUp(w)
  <2>1. NetTypeOK' /\ LocalOK'
    BY <1>2, CloseTyped, ReturnTyped
    DEF TunnelCloseUp, Return, Finish, Typed, WorkerTypeOK
  <2> QED
    BY <2>1 DEF Typed, LocalOK
<1>3. CASE ResponseThrows(w)
  <2>1. NetTypeOK' /\ LocalOK'
    BY <1>3, LeakTyped, ReturnTyped
    DEF ResponseThrows, Throws, Return, Finish, Typed, WorkerTypeOK
  <2> QED
    BY <2>1 DEF Typed, LocalOK
<1>4. CASE ReadThrows(w, "read") \/ ReadThrows(w, "next")
  <2>1. NetTypeOK' /\ LocalOK'
    BY <1>4, ReturnTyped
    DEF ReadThrows, Throws, Return, Finish, Typed, WorkerTypeOK, NetTypeOK
  <2> QED
    BY <2>1 DEF Typed, LocalOK
<1> QED
  BY <1>1, <1>2, <1>3, <1>4

(* The listener, the queue and the peers.                                  *)
LEMMA OthersTyped ==
  ASSUME Typed,
         \/ ListenerStep \/ ListenerFails \/ Environment
         \/ \E w \in Workers : TakeNext(w) \/ ServerStep(w)
  PROVE  Typed'
<1>1. CASE ListenerStep \/ ListenerFails
  <2>1. CASE AcceptRunsOut \/ AcceptFails
    BY <1>1, <2>1
    DEF ListenerStep, ListenerFails, AcceptRunsOut, AcceptFails, Typed, WorkerTypeOK,
        NetTypeOK, MsgHere, HasMsg, TriesLeft, upVars, locals, history
  <2>2. ASSUME NEW c \in Conns, Accept(c) PROVE Typed'
    <3>1. Lowest \in Fds /\ c \in Socks
      BY <2>2, LowestFree DEF Accept, Socks
    <3>2. NetTypeOK'
      BY <2>2, <3>1 DEF Accept, Typed, NetTypeOK
    <3>3. queue' \in Seq(Fds)
      BY <2>2, <3>1 DEF Accept, Typed, WorkerTypeOK
    <3> QED
      BY <1>1, <2>2, <3>2, <3>3
      DEF ListenerStep, ListenerFails, Accept, Typed, WorkerTypeOK, MsgHere, HasMsg,
          TriesLeft, upVars, locals, history
  <2> QED
    BY <1>1, <2>1, <2>2 DEF ListenerStep, ListenerFails, ListenerNext
<1>2. CASE Environment
  <2>1. UNCHANGED <<dispatchVars, upVars>>
    BY <1>2 DEF Environment, PeerNext, Forget, dispatchVars
  <2>2. NetTypeOK'
    <3>1. ASSUME NEW s \in Socks, PeerNext(s) PROVE NetTypeOK'
      BY <3>1, PeerTyped DEF PeerNext, Typed
    <3>2. ASSUME NEW c \in Conns, Forget(c) PROVE NetTypeOK'
      BY <3>2 DEF Forget, Typed, NetTypeOK
    <3>3. ASSUME NEW c \in Conns, ClientNext(c) PROVE NetTypeOK'
      BY <3>3, ClientTyped DEF Typed
    <3> QED
      BY <1>2, <3>1, <3>2, <3>3 DEF Environment
  <2> QED
    BY <2>1, <2>2 DEF Typed, WorkerTypeOK, MsgHere, HasMsg, TriesLeft, dispatchVars, upVars,
                      locals, history
<1>3. ASSUME NEW w \in Workers, TakeNext(w) PROVE Typed'
  <2>1. Head(queue) \in Fds /\ Tail(queue) \in Seq(Fds)
    BY <1>3 DEF TakeNext, Take, Typed, WorkerTypeOK
  <2> QED
    BY <1>3, <2>1
    DEF TakeNext, Take, Typed, WorkerTypeOK, NetTypeOK, netVars, MsgHere, HasMsg, TriesLeft,
        HandlerLabels, upVars, locals, history
<1>4. ASSUME NEW w \in Workers, ServerStep(w) PROVE Typed'
  <2>1. NetTypeOK'
    BY <1>4, ReplyTyped DEF ServerStep, Typed
  <2> QED
    BY <1>4, <2>1 DEF ServerStep, Typed, WorkerTypeOK, MsgHere, HasMsg, TriesLeft,
                      dispatchVars, upVars, locals, history
<1> QED
  BY <1>1, <1>2, <1>3, <1>4

(* No step of the proxy leaves the types.                                   *)
LEMMA TypedStep == Typed /\ [Next]_vars => Typed'
<1> SUFFICES ASSUME Typed, [Next]_vars PROVE Typed'
  OBVIOUS
<1>1. CASE UNCHANGED vars
  BY <1>1 DEF vars, Typed, WorkerTypeOK, NetTypeOK, MsgHere, HasMsg, TriesLeft, netVars,
              dispatchVars, upVars, locals, history
<1>2. ASSUME NEW w \in Workers, WorkerStep(w) \/ TunnelTimeout(w) \/ TunnelDies(w)
      PROVE  Typed'
  BY <1>2, ReadsTyped, ForwardTyped, TunnelTyped, LeavesTyped, OthersTyped
  DEF WorkerStep, NormalStep, TunnelStep
<1> QED
  BY <1>1, <1>2, OthersTyped DEF Next

(* They hold at the start.                                                 *)
LEMMA TypedInit == Init => Typed
<1> SUFFICES ASSUME Init PROVE Typed
  OBVIOUS
<1> USE SocketsAssumption, ProxyAssumption DEF SocketsAssumption, ProxyAssumption
<1>1. <<>> \in Seq(Messages) /\ <<>> \in Seq(1..MaxMsgs) /\ <<>> \in Seq(Fds)
  OBVIOUS
<1>2. NetTypeOK
  BY <1>1 DEF Init, NetInit, NetTypeOK
<1>3. MsgHere /\ TriesLeft
  BY DEF Init, DispatchInit, MsgHere, HasMsg, TriesLeft
<1>4. forwarded \in [Conns -> Seq(1..MaxMsgs)] /\ queue \in Seq(Fds)
  BY <1>1 DEF Init, DispatchInit
<1>5. /\ pc \in [Workers -> {"remove"} \cup HandlerLabels]
      /\ hfd \in [Workers -> Fds \cup {NoFd}]
      /\ cfd \in [Workers -> Fds \cup {NoFd}]
  BY DEF Init, DispatchInit
<1>6. /\ msg \in [Workers -> Messages \cup {Unset}]
      /\ port \in [Workers -> Ports \cup {Unset}]
      /\ status \in [Workers -> {"GOOD", "ERRNO", "EOF", "PARSE"}]
  BY DEF Init
<1>7. tries \in [Workers -> 0..MaxTries] /\ refused \in 0..MaxRefused
  BY DEF Init, MaxTries
<1>8. thrown \subseteq Conns /\ stray \in BOOLEAN
  BY DEF Init
<1> QED
  BY <1>2, <1>3, <1>4, <1>5, <1>6, <1>7, <1>8 DEF Typed, WorkerTypeOK

(***************************************************************************)
(* The variables of the proxy have their types, whatever closes go astray: *)
(* the retry count stays within its limit, and what a worker writes is a   *)
(* message.                                                                *)
(***************************************************************************)
THEOREM TypeCorrect == Spec => []TypeOK
<1>1. Typed => TypeOK
  BY DEF Typed, WorkerTypeOK, TypeOK
<1> QED
  BY <1>1, TypedInit, TypedStep, PTL DEF Spec

-----------------------------------------------------------------------------
(* Descriptors and who holds them.                                         *)

Live == {"open", "fin", "rst"}

(* What holds whatever closes go astray: no socket has two numbers, what   *)
(* is open has not been closed, an upstream socket is its worker's, and an *)
(* open connection is queued, handled or was thrown past its close.        *)
StatusOK == \A w \in Workers : pc[w] \in {"send", "await", "reply"} => status[w] # "ERRNO"
OneFd    == \A f, g \in Fds : fdt[f] = fdt[g] /\ fdt[f] \in Socks => f = g
OpenLive == \A f \in Fds : fdt[f] \in Socks => peer[fdt[f]] \in Live
UpHeld   == \A f \in Fds, w \in Workers : fdt[f] = w => HoldsUp(w) /\ cfd[w] = f
ConnHeld == \A f \in Fds : fdt[f] \in Conns =>
              \/ f \in Range(queue)
              \/ \E w \in Workers : HoldsClient(w) /\ hfd[w] = f
              \/ fdt[f] \in thrown

Kept  == Typed /\ StatusOK /\ OneFd /\ OpenLive /\ UpHeld /\ ConnHeld

(* The workers of a set hold after a step what they held before it.        *)
Keep(S) == \A v \in S : /\ HoldsClient(v) <=> HoldsClient(v)'
                        /\ HoldsUp(v) <=> HoldsUp(v)'
                        /\ HoldsClient(v) => hfd'[v] = hfd[v]
                        /\ HoldsUp(v) => cfd'[v] = cfd[v]

(* No peer closes an open socket, or revives a closed connection.          *)
PeersMove == /\ \A s \in Socks : Open(s) /\ peer[s] \in Live => peer'[s] \in Live
             /\ \A c \in Conns : peer[c] = "closed" => peer'[c] = "closed"

(* What the steps of the proxy do with descriptors.                        *)
Still       == /\ UNCHANGED <<fdt, queue, refused, thrown, stray>>
               /\ Keep(Workers) /\ PeersMove
IsRefused   == /\ ConnectFail /\ Refused
               /\ UNCHANGED <<queue, thrown, stray>> /\ Keep(Workers)
Accepts(c)  == /\ Accept(c) /\ UNCHANGED <<refused, thrown, stray>>
               /\ Keep(Workers)
Takes(w)    == /\ Take(w) /\ UNCHANGED <<refused, thrown, stray>>
               /\ Keep(Workers \ {w})
               /\ ~HoldsClient(w) /\ HoldsClient(w)' /\ ~HoldsUp(w) /\ ~HoldsUp(w)'
Connects(w) == /\ ConnectOk(w) /\ UNCHANGED <<queue, refused, thrown, stray>>
               /\ Keep(Workers \ {w})
               /\ HoldsClient(w) /\ HoldsClient(w)' /\ hfd'[w] = hfd[w]
               /\ ~HoldsUp(w) /\ HoldsUp(w)' /\ cfd'[w] = Lowest
LetsGo(w)   == /\ Close(hfd[w]) /\ UNCHANGED <<queue, refused, thrown, stray>>
               /\ Keep(Workers \ {w})
               /\ HoldsClient(w) /\ ~HoldsClient(w)'
               /\ HoldsUp(w) <=> HoldsUp(w)'
               /\ cfd'[w] = cfd[w]
HangsUp(w)  == /\ Close(cfd[w]) /\ UNCHANGED <<queue, refused, thrown>>
               /\ Keep(Workers \ {w})
               /\ HoldsClient(w) <=> HoldsClient(w)'
               /\ HoldsClient(w) => hfd'[w] = hfd[w]
               /\ ~HoldsUp(w)'
               /\ stray => stray'
               /\ stray' \/ HoldsUp(w) \/ Behind(cfd[w]) \notin Socks \ {w}
LeavesIt(w) == /\ (UNCHANGED <<fdt, peer>> /\ ~HoldsUp(w)) \/ Leak(w)
               /\ thrown' = thrown \cup {c \in Conns : c = Behind(hfd[w])}
               /\ UNCHANGED <<queue, refused, stray>>
               /\ Keep(Workers \ {w})
               /\ HoldsClient(w) /\ ~HoldsClient(w)' /\ ~HoldsUp(w)'

(* What keeps pc, hfd and cfd leaves everybody what they held.             *)
LEMMA KeepFrame ==
  ASSUME Typed, NEW S \in SUBSET Workers,
         \A v \in S : /\ pc'[v] = pc[v] /\ hfd'[v] = hfd[v]
                      /\ cfd'[v] = cfd[v] /\ status'[v] = status[v]
  PROVE  Keep(S)
BY DEF Keep, HoldsClient, HoldsUp

(* A statement of w's handler touches nobody else's variables.             *)
LEMMA StepFrame ==
  ASSUME Typed, NEW w \in Workers, NEW from, NEW to,
         Step(w, from, to) \/ Return(w, from),
         \/ cfd' = cfd
         \/ \E f \in Fds \cup {NoFd} : cfd' = [cfd EXCEPT ![w] = f],
         \/ status' = status
         \/ \E s \in {"GOOD", "ERRNO", "EOF", "PARSE"} : status' = [status EXCEPT ![w] = s]
  PROVE  Keep(Workers \ {w})
<1>1. \A v \in Workers \ {w} : /\ pc'[v] = pc[v] /\ hfd'[v] = hfd[v]
                               /\ cfd'[v] = cfd[v] /\ status'[v] = status[v]
  BY DEF Typed, WorkerTypeOK, Step, Return, Finish
<1> QED
  BY <1>1, KeepFrame, Workers \ {w} \in SUBSET Workers

(* Most statements of a handler open and close nothing.                    *)
LEMMA StillSteps ==
  ASSUME Typed, StatusOK, NEW w \in Workers,
         \/ StartNormal(w) \/ StartTunnel(w) \/ RejectFirst(w) \/ FirstEof(w)
         \/ Send(w) \/ GetResponse(w) \/ RejectResponse(w) \/ ResponseEof(w)
         \/ Reply(w) \/ ReadNext(w) \/ RejectNext(w) \/ NextEof(w) \/ TunnelOk(w)
         \/ TunnelEof(w) \/ TunnelTimeout(w) \/ TunnelDies(w)
  PROVE  UNCHANGED <<fdt, peer>> /\ Still /\ StatusOK'
<1>1. UNCHANGED <<fdt, peer, queue, hfd, refused, thrown, stray>>
  BY DEF StartNormal, StartTunnel, RejectFirst, ReadFirst, FirstEof, Send, GetResponse,
         RejectResponse, ResponseEof, Response, Reply, ReadNext, RejectNext, NextEof,
         NextRequest, TunnelOk, TunnelEof, TunnelTimeout, TunnelDies, Step, upVars, history
<1> USE DEF Typed, WorkerTypeOK, SetStatus, SetMsg, NewClient, locals, upVars
<1>2. /\ HoldsClient(w) /\ HoldsClient(w)'
      /\ HoldsUp(w) <=> HoldsUp(w)'
      /\ HoldsUp(w) => cfd'[w] = cfd[w]
      /\ Keep(Workers \ {w})
      /\ StatusOK'
  <2> USE DEF HoldsClient, HoldsUp, HandlerLabels, StatusOK
  <2>1. CASE StartNormal(w)
    <3>1. /\ Step(w, "read", "connect") /\ status' = status
          /\ \E f \in Fds \cup {NoFd} : cfd' = [cfd EXCEPT ![w] = f]
      BY <2>1 DEF StartNormal, ReadFirst
    <3>2. Keep(Workers \ {w})
      BY ONLY Typed, w \in Workers, <3>1, StepFrame
    <3>3. /\ HoldsClient(w) /\ HoldsClient(w)' /\ ~HoldsUp(w) /\ ~HoldsUp(w)'
      BY <3>1 DEF Step
    <3>4. StatusOK'
      BY <3>1 DEF Step
    <3> QED
      BY ONLY <3>2, <3>3, <3>4
  <2>2. CASE StartTunnel(w) \/ RejectFirst(w)
    <3>1. CASE StartTunnel(w)
      BY <3>1, StepFrame DEF StartTunnel, ReadFirst, Step
    <3>2. CASE RejectFirst(w)
      BY <3>2, StepFrame DEF RejectFirst, ReadFirst, Step
    <3> QED
      BY ONLY <2>2, <3>1, <3>2
  <2>3. CASE FirstEof(w)
    BY <2>3, StepFrame DEF FirstEof, Step
  <2>4. CASE Send(w)
    BY <2>4, StepFrame DEF Send, Step
  <2>5. CASE GetResponse(w)
    BY <2>5, StepFrame DEF GetResponse, Response, Step
  <2>6. CASE RejectResponse(w) \/ ResponseEof(w)
    BY <2>6, StepFrame DEF RejectResponse, ResponseEof, Response, Step
  <2>7. CASE Reply(w)
    BY <2>7, StepFrame DEF Reply, Step
  <2>8. CASE ReadNext(w)
    BY <2>8, StepFrame DEF ReadNext, NextRequest, Step
  <2>9. CASE RejectNext(w) \/ NextEof(w)
    BY <2>9, StepFrame DEF RejectNext, NextEof, NextRequest, Step
  <2>10. CASE TunnelOk(w) \/ TunnelEof(w)
    BY <2>10, StepFrame DEF TunnelOk, TunnelEof, Step
  <2>11. CASE TunnelTimeout(w) \/ TunnelDies(w)
    BY <2>11, StepFrame DEF TunnelTimeout, TunnelDies, Step
  <2> QED
    BY <2>1, <2>2, <2>3, <2>4, <2>5, <2>6, <2>7, <2>8, <2>9, <2>10, <2>11
<1>3. Keep(Workers)
  BY <1>1, <1>2 DEF Keep
<1> QED
  BY <1>1, <1>2, <1>3 DEF Still, PeersMove

(* A connect gets the worker its upstream socket, or leaves a dead number. *)
LEMMA OpeningSteps ==
  ASSUME Typed, StatusOK, NEW w \in Workers,
         Connect(w) \/ ConnectFails(w) \/ TunnelConnect(w) \/ TunnelConnectFails(w)
  PROVE  (Connects(w) \/ IsRefused) /\ StatusOK'
<1> USE DEF Typed, WorkerTypeOK, SetStatus, locals, history, HoldsClient, HoldsUp,
            HandlerLabels, StatusOK
<1>1. CASE Connect(w) \/ TunnelConnect(w)
  <2>1. Lowest \in Fds
    BY <1>1, LowestFree DEF Connect, TunnelConnect, ConnectOk
  <2>2. Keep(Workers \ {w})
    BY <1>1, <2>1, StepFrame DEF Connect, TunnelConnect
  <2>3. Connects(w)
    BY <1>1, <2>1, <2>2 DEF Connect, TunnelConnect, Step, Connects
  <2> QED
    BY <1>1, <2>3 DEF Connect, TunnelConnect, Step
<1>2. CASE ConnectFails(w) \/ TunnelConnectFails(w)
  <2>1. Keep(Workers \ {w})
    BY <1>2, StepFrame DEF ConnectFails, TunnelConnectFails
  <2>2. /\ HoldsClient(w) /\ HoldsClient(w)' /\ hfd'[w] = hfd[w]
        /\ ~HoldsUp(w) /\ ~HoldsUp(w)'
        /\ StatusOK'
    BY <1>2 DEF ConnectFails, TunnelConnectFails, Step
  <2>3. Keep(Workers)
    BY <2>1, <2>2 DEF Keep
  <2> QED
    BY <1>2, <2>2, <2>3 DEF ConnectFails, TunnelConnectFails, Step, IsRefused
<1> QED
  BY <1>1, <1>2

(* A close takes from the worker what it closes.                           *)
LEMMA ClosingSteps ==
  ASSUME Typed, StatusOK, NEW w \in Workers,
         CloseClient(w) \/ TunnelCloseClient(w) \/ CloseUp(w) \/ TunnelCloseUp(w)
  PROVE  (LetsGo(w) \/ HangsUp(w)) /\ StatusOK'
<1> USE DEF Typed, WorkerTypeOK, locals, upVars, HoldsClient, HoldsUp, HandlerLabels,
            StatusOK
<1>1. CASE CloseClient(w)
  <2>1. Keep(Workers \ {w})
    BY <1>1, StepFrame DEF CloseClient, Return
  <2> QED
    BY <1>1, <2>1 DEF CloseClient, Return, Finish, LetsGo
<1>2. CASE TunnelCloseClient(w)
  <2>1. Keep(Workers \ {w})
    BY <1>2, StepFrame DEF TunnelCloseClient
  <2> QED
    BY <1>2, <2>1 DEF TunnelCloseClient, Step, LetsGo, history
<1>3. CASE CloseUp(w)
  <2>1. Keep(Workers \ {w})
    BY <1>3, StepFrame DEF CloseUp
  <2> QED
    BY <1>3, <2>1 DEF CloseUp, Step, HangsUp
<1>4. CASE TunnelCloseUp(w)
  <2>1. Keep(Workers \ {w})
    BY <1>4, StepFrame DEF TunnelCloseUp, Return
  <2> QED
    BY <1>4, <2>1 DEF TunnelCloseUp, Return, Finish, HangsUp
<1> QED
  BY <1>1, <1>2, <1>3, <1>4

(* An exception takes everything from the worker and closes nothing.       *)
LEMMA ThrowingSteps ==
  ASSUME Typed, StatusOK, NEW w \in Workers,
         ResponseThrows(w) \/ ReadThrows(w, "read") \/ ReadThrows(w, "next")
  PROVE  LeavesIt(w) /\ StatusOK'
<1> USE DEF Typed, WorkerTypeOK, HoldsClient, HoldsUp, HandlerLabels, StatusOK, Throws
<1>1. Keep(Workers \ {w})
  BY StepFrame DEF ResponseThrows, ReadThrows, Return
<1> QED
  BY <1>1 DEF ResponseThrows, ReadThrows, Return, Finish, LeavesIt

(* The listener, the queue and the peers.                                  *)
LEMMA OtherSteps ==
  ASSUME Typed, StatusOK,
         \/ ListenerStep \/ ListenerFails \/ Environment
         \/ \E w \in Workers : TakeNext(w) \/ ServerStep(w)
  PROVE  /\ Still \/ (\E c \in Conns : Accepts(c)) \/ \E w \in Workers : Takes(w)
         /\ StatusOK'
<1> USE DEF upVars, locals, history
<1>1. Workers \in SUBSET Workers
  OBVIOUS
<1>2. CASE ListenerStep \/ ListenerFails
  <2>1. UNCHANGED <<pc, hfd, cfd, status, refused, thrown, stray>>
    BY <1>2 DEF ListenerStep, ListenerFails, ListenerNext, AcceptRunsOut, AcceptFails, Accept
  <2>2. Keep(Workers) /\ StatusOK'
    BY <1>1, <2>1, KeepFrame DEF StatusOK
  <2>3. CASE AcceptRunsOut \/ AcceptFails
    BY <2>1, <2>2, <2>3 DEF AcceptRunsOut, AcceptFails, Still, PeersMove
  <2> QED
    BY <1>2, <2>1, <2>2, <2>3 DEF ListenerStep, ListenerFails, ListenerNext, Accepts
<1>3. CASE Environment \/ \E w \in Workers : ServerStep(w)
  <2>1. UNCHANGED <<pc, hfd, cfd, status, queue, fdt, refused, thrown, stray>>
    BY <1>3 DEF Environment, PeerNext, PeerCloses, PeerResets, Forget, ClientNext,
                ClientConnect, ClientSend, ServerStep, ServerReply, dispatchVars
  <2>2. Keep(Workers) /\ StatusOK'
    BY <1>1, <2>1, KeepFrame DEF StatusOK
  <2>3. PeersMove
    <3> USE DEF PeersMove, Live, Typed, NetTypeOK, Socks
    <3>1. ASSUME NEW s \in Socks, PeerNext(s) PROVE PeersMove
      BY <3>1 DEF PeerNext, PeerCloses, PeerResets
    <3>2. ASSUME NEW c \in Conns, Forget(c) PROVE PeersMove
      BY <3>2 DEF Forget, Backlog
    <3>3. ASSUME NEW c \in Conns, ClientNext(c) PROVE PeersMove
      BY <3>3 DEF ClientNext, ClientConnect, ClientSend
    <3>4. ASSUME NEW w \in Workers, ServerStep(w) PROVE PeersMove
      BY <3>4 DEF ServerStep, ServerReply
    <3> QED
      BY <1>3, <3>1, <3>2, <3>3, <3>4 DEF Environment
  <2> QED
    BY <2>1, <2>2, <2>3 DEF Still
<1>4. ASSUME NEW w \in Workers, TakeNext(w) PROVE Takes(w) /\ StatusOK'
  <2>1. Keep(Workers \ {w})
    BY <1>4, KeepFrame DEF TakeNext, Take, Typed, WorkerTypeOK
  <2> QED
    BY <1>4, <2>1 DEF TakeNext, Take, Takes, HoldsClient, HoldsUp, HandlerLabels, Typed,
                      WorkerTypeOK, StatusOK
<1> QED
  BY <1>2, <1>3, <1>4

(* What a step of the proxy does with descriptors.                         *)
LEMMA FdSteps ==
  ASSUME Typed, StatusOK, [Next]_vars
  PROVE  /\ \/ Still \/ IsRefused \/ (\E c \in Conns : Accepts(c))
            \/ \E w \in Workers : Takes(w) \/ Connects(w) \/ LetsGo(w) \/ HangsUp(w) \/ LeavesIt(w)
         /\ StatusOK'
<1>1. CASE UNCHANGED vars
  <2>1. UNCHANGED <<pc, hfd, cfd, status, queue, fdt, refused, thrown, stray, peer>>
    BY <1>1 DEF vars, netVars, dispatchVars, upVars, locals, history
  <2>2. Keep(Workers)
    BY <2>1, KeepFrame, Workers \in SUBSET Workers
  <2> QED
    BY <2>1, <2>2 DEF Still, PeersMove, StatusOK
<1>2. ASSUME NEW w \in Workers, NormalStep(w) \/ TunnelStep(w) \/ TunnelTimeout(w) \/ TunnelDies(w)
      PROVE  /\ Still \/ IsRefused \/ Connects(w) \/ LetsGo(w) \/ HangsUp(w) \/ LeavesIt(w)
             /\ StatusOK'
  BY <1>2, StillSteps, OpeningSteps, ClosingSteps, ThrowingSteps DEF NormalStep, TunnelStep
<1> QED
  BY <1>1, <1>2, OtherSteps DEF Next, WorkerStep

-----------------------------------------------------------------------------
(* Nothing is lost but by an exception.                                    *)

(* The part of Kept that is about descriptors.                             *)
KeptFds == OneFd /\ OpenLive /\ UpHeld /\ ConnHeld

(* Client connections are no workers, and neither is free or dead.         *)
LEMMA Kinds ==
  /\ Free # Dead
  /\ \A c \in Conns : c \in Socks /\ c # Free /\ c # Dead /\ c \notin Workers
  /\ \A w \in Workers : w \in Socks /\ w # Free /\ w # Dead /\ w \notin Conns
  /\ \A s \in Socks : s \in Conns \/ s \in Workers
BY SocketsAssumption DEF SocketsAssumption, Socks

(* A table with one entry changed.                                         *)
LEMMA FdtExcept ==
  ASSUME NetTypeOK, NEW g \in Fds, NEW x, fdt' = [fdt EXCEPT ![g] = x]
  PROVE  \A f \in Fds : fdt'[f] = IF f = g THEN x ELSE fdt[f]
BY DEF NetTypeOK

(* What a close leaves: the entry is free, the connection that was behind  *)
(* it is closed, and nothing else changed.                                 *)
LEMMA CloseFds ==
  ASSUME NetTypeOK, NEW f, Close(f)
  PROVE  /\ \A g \in Fds : fdt'[g] = IF g = f THEN Free ELSE fdt[g]
         /\ \A s \in Socks : peer'[s] = IF s = Behind(f) THEN "closed" ELSE peer[s]
<1>1. CASE Behind(f) = Free
  <2>1. \A s \in Socks : s # Free
    BY Kinds
  <2> QED
    BY <1>1, <2>1 DEF Close, Behind
<1>2. CASE Behind(f) # Free
  BY <1>2, BehindOpen DEF Close, NetTypeOK
<1> QED
  BY <1>1, <1>2

(* Steps that move no descriptor.                                          *)
LEMMA KeptStill == ASSUME Kept, Still PROVE KeptFds'
<1> USE DEF Kept, Still, Keep, KeptFds
<1>1. OneFd' /\ UpHeld'
  BY DEF OneFd, UpHeld
<1>2. OpenLive'
  BY DEF OpenLive, PeersMove, Open
<1>3. ConnHeld'
  BY DEF ConnHeld
<1> QED
  BY <1>1, <1>2, <1>3

(* A refused connect: the lowest free number is dead.                      *)
LEMMA KeptRefused == ASSUME Kept, IsRefused PROVE KeptFds'
<1> USE DEF Kept, IsRefused, Keep, KeptFds
<1>1. \A f \in Fds : fdt'[f] = fdt[f] \/ fdt'[f] = Dead
  BY FdtExcept, LowestFree DEF ConnectFail, Typed
<1>2. OneFd' /\ UpHeld'
  BY <1>1, Kinds DEF OneFd, UpHeld
<1>3. OpenLive'
  BY <1>1, Kinds DEF OpenLive, ConnectFail
<1>4. ConnHeld'
  BY <1>1, Kinds DEF ConnHeld
<1> QED
  BY <1>2, <1>3, <1>4

(* An accepted connection is queued under the lowest free number.          *)
LEMMA KeptAccepts == ASSUME Kept, NEW c \in Conns, Accepts(c) PROVE KeptFds'
<1> USE DEF Kept, Accepts, Keep, KeptFds
<1> PICK low : low = Lowest
  OBVIOUS
<1>1. low \in Fds /\ fdt[low] = Free
  BY LowestFree DEF Accept
<1>2. \A f \in Fds : fdt'[f] = IF f = low THEN c ELSE fdt[f]
  <2>1. fdt' = [fdt EXCEPT ![low] = c]
    BY DEF Accept
  <2>2. fdt \in [Fds -> Socks \cup {Free, Dead}]
    BY DEF Typed, NetTypeOK
  <2> HIDE DEF Kept, KeptFds, Accepts, Connects
  <2> QED
    BY <1>1, <2>1, <2>2
<1>3. (\A f \in Fds : fdt[f] # c) /\ peer[c] \in Live /\ peer' = peer
  BY DEF Accept, Backlog, Open, Live
<1>4. queue \in Seq(Fds) /\ queue' = Append(queue, low)
  BY DEF Accept, Typed, WorkerTypeOK
<1>5. Range(queue') = Range(queue) \cup {low}
  BY <1>1, <1>4 DEF Range
<1>6. OneFd' /\ UpHeld'
  BY <1>2, <1>3, Kinds DEF OneFd, UpHeld
<1>7. OpenLive'
  BY <1>2, <1>3 DEF OpenLive
<1>8. ConnHeld'
  BY <1>2, <1>5 DEF ConnHeld
<1> QED
  BY <1>6, <1>7, <1>8

(* What leaves the queue is handled by the worker that took it.            *)
LEMMA KeptTakes == ASSUME Kept, NEW w \in Workers, Takes(w) PROVE KeptFds'
<1> USE DEF Kept, Takes, KeptFds
<1>1. fdt' = fdt /\ peer' = peer
  BY DEF Take, netVars
<1>2. /\ queue \in Seq(Fds) /\ queue # <<>> /\ queue' = Tail(queue)
      /\ hfd'[w] = Head(queue)
  BY DEF Take, Typed, WorkerTypeOK
<1>3. \A f \in Range(queue) : f = Head(queue) \/ f \in Range(queue')
  <2> DOMAIN queue = 1..Len(queue) /\ DOMAIN queue' = 1..Len(queue')
    BY <1>2
  <2> SUFFICES ASSUME NEW i \in 1..Len(queue)
               PROVE  queue[i] = Head(queue) \/ \E j \in 1..Len(queue') : queue'[j] = queue[i]
    BY DEF Range
  <2>1. CASE i = 1
    BY <1>2, <2>1
  <2>2. CASE i # 1
    BY <1>2, <2>2, i - 1 \in 1..Len(queue')
  <2> QED
    BY <2>1, <2>2
<1>4. OneFd' /\ OpenLive' /\ UpHeld'
  BY <1>1 DEF OneFd, OpenLive, UpHeld, Keep
<1>5. ConnHeld'
  <2> SUFFICES ASSUME NEW f \in Fds, fdt[f] \in Conns, f \notin Range(queue'), fdt[f] \notin thrown
               PROVE  \E v \in Workers : HoldsClient(v)' /\ hfd'[v] = f
    BY <1>1 DEF ConnHeld
  <2>1. CASE f = Head(queue)
    BY <1>2, <2>1
  <2>2. CASE f # Head(queue)
    <3>1. PICK v \in Workers : HoldsClient(v) /\ hfd[v] = f
      BY <1>3, <2>2 DEF ConnHeld
    <3>2. v # w
      BY <3>1
    <3> QED
      BY <3>1, <3>2 DEF Keep
  <2> QED
    BY <2>1, <2>2
<1> QED
  BY <1>4, <1>5

(* A worker that connected holds the lowest free number.                   *)
LEMMA KeptConnects == ASSUME Kept, NEW w \in Workers, Connects(w) PROVE KeptFds'
<1> USE DEF Kept, Connects, KeptFds
<1> PICK low : low = Lowest
  OBVIOUS
<1>1. low \in Fds /\ fdt[low] = Free
  BY LowestFree DEF ConnectOk
<1>2. \A f \in Fds : fdt'[f] = IF f = low THEN w ELSE fdt[f]
  <2>1. fdt' = [fdt EXCEPT ![low] = w]
    BY DEF ConnectOk
  <2>2. fdt \in [Fds -> Socks \cup {Free, Dead}]
    BY DEF Typed, NetTypeOK
  <2> HIDE DEF Kept, KeptFds, Accepts, Connects
  <2> QED
    BY <1>1, <2>1, <2>2
<1>3. \A f \in Fds : fdt[f] # w
  BY DEF UpHeld
<1>4. /\ \A v \in Workers : HoldsClient(v) => HoldsClient(v)' /\ hfd'[v] = hfd[v]
      /\ \A v \in Workers \ {w} : HoldsUp(v) => HoldsUp(v)' /\ cfd'[v] = cfd[v]
  BY DEF Keep
<1>5. OneFd' /\ UpHeld'
  BY <1>2, <1>3, <1>4, Kinds DEF OneFd, UpHeld
<1>6. OpenLive'
  BY <1>2, <1>3, Kinds DEF OpenLive, ConnectOk, Live, Typed, NetTypeOK
<1>7. ConnHeld'
  BY <1>2, <1>4, Kinds DEF ConnHeld
<1> QED
  BY <1>5, <1>6, <1>7

(* The connection a worker closed is no longer open.                       *)
LEMMA KeptLetsGo == ASSUME Kept, NEW w \in Workers, LetsGo(w) PROVE KeptFds'
<1> USE DEF Kept, LetsGo, KeptFds
<1>1. /\ \A g \in Fds : fdt'[g] = IF g = hfd[w] THEN Free ELSE fdt[g]
      /\ \A s \in Socks : peer'[s] = IF s = Behind(hfd[w]) THEN "closed" ELSE peer[s]
  BY CloseFds DEF Typed
<1>2. /\ \A v \in Workers \ {w} : HoldsClient(v) => HoldsClient(v)' /\ hfd'[v] = hfd[v]
      /\ \A v \in Workers : HoldsUp(v) => HoldsUp(v)' /\ cfd'[v] = cfd[v]
  BY DEF Keep
<1>3. OneFd' /\ UpHeld'
  BY <1>1, <1>2, Kinds DEF OneFd, UpHeld
<1>4. OpenLive'
  BY <1>1, Kinds DEF OpenLive, OneFd, Behind
<1>5. ConnHeld'
  BY <1>1, <1>2, Kinds DEF ConnHeld
<1> QED
  BY <1>3, <1>4, <1>5

(* The upstream socket a worker closed is no longer open.                  *)
LEMMA KeptHangsUp == ASSUME Kept, NEW w \in Workers, HangsUp(w) PROVE KeptFds'
<1> USE DEF Kept, HangsUp, KeptFds
<1>1. /\ \A g \in Fds : fdt'[g] = IF g = cfd[w] THEN Free ELSE fdt[g]
      /\ \A s \in Socks : peer'[s] = IF s = Behind(cfd[w]) THEN "closed" ELSE peer[s]
  BY CloseFds DEF Typed
<1>2. /\ \A v \in Workers : HoldsClient(v) => HoldsClient(v)' /\ hfd'[v] = hfd[v]
      /\ \A v \in Workers \ {w} : HoldsUp(v) => HoldsUp(v)' /\ cfd'[v] = cfd[v]
  BY DEF Keep
<1>3. OneFd' /\ UpHeld'
  BY <1>1, <1>2, Kinds DEF OneFd, UpHeld
<1>4. OpenLive'
  BY <1>1, Kinds DEF OpenLive, OneFd, Behind
<1>5. ConnHeld'
  BY <1>1, <1>2, Kinds DEF ConnHeld
<1> QED
  BY <1>3, <1>4, <1>5

(* An exception: the connection is noted, the upstream socket is dead.     *)
LEMMA KeptLeavesIt == ASSUME Kept, NEW w \in Workers, LeavesIt(w) PROVE KeptFds'
<1> USE DEF Kept, LeavesIt, KeptFds
<1>1. /\ \A g \in Fds : fdt'[g] = IF fdt[g] = w THEN Dead ELSE fdt[g]
      /\ \A s \in Socks : s # w => peer'[s] = peer[s]
  BY Kinds DEF Leak, UpHeld, Typed, NetTypeOK
<1>2. /\ \A v \in Workers \ {w} : HoldsClient(v) => HoldsClient(v)' /\ hfd'[v] = hfd[v]
      /\ \A v \in Workers \ {w} : HoldsUp(v) => HoldsUp(v)' /\ cfd'[v] = cfd[v]
  BY DEF Keep
<1>3. OneFd' /\ UpHeld'
  BY <1>1, <1>2, Kinds DEF OneFd, UpHeld
<1>4. OpenLive'
  BY <1>1, Kinds DEF OpenLive
<1>5. ConnHeld'
  <2> SUFFICES ASSUME NEW f \in Fds, fdt[f] \in Conns, f \notin Range(queue), fdt[f] \notin thrown'
               PROVE  \E v \in Workers : HoldsClient(v)' /\ hfd'[v] = f
    BY <1>1, Kinds DEF ConnHeld
  <2>1. PICK v \in Workers : HoldsClient(v) /\ hfd[v] = f
    BY DEF ConnHeld
  <2>2. v # w
    BY <2>1 DEF Behind
  <2> QED
    BY <1>2, <2>1, <2>2
<1> QED
  BY <1>3, <1>4, <1>5

(* No step loses a descriptor otherwise.                                   *)
LEMMA KeptStep == Kept /\ [Next]_vars => Kept'
BY TypedStep, FdSteps, KeptStill, KeptRefused, KeptAccepts, KeptTakes, KeptConnects,
   KeptLetsGo, KeptHangsUp, KeptLeavesIt
DEF Kept, KeptFds

(* Nothing is open at the start.                                           *)
LEMMA KeptInit == Init => Kept
BY TypedInit, Kinds
DEF Kept, Init, NetInit, DispatchInit, StatusOK, OneFd, OpenLive, UpHeld, ConnHeld

(* An open socket is held, or its handler threw, even after a close went   *)
(* astray.                                                                 *)
LEMMA OpenIsHeld ==
  ASSUME Kept PROVE \A f \in Fds : fdt[f] \in Socks => Held(f) \/ fdt[f] \in thrown
BY Kinds DEF Kept, ConnHeld, UpHeld, Held

-----------------------------------------------------------------------------
(* A descriptor has one owner.                                             *)

(* The parts of ExclusiveDescriptors: a number is in the queue once, what  *)
(* is queued or handled is a client connection, a number is not queued and *)
(* handled, nor handled twice, and what is used upstream is one's own.     *)
QueuedOnce  == \A i, j \in 1..Len(queue) : queue[i] = queue[j] => i = j
QueuedConns == \A i \in 1..Len(queue) : fdt[queue[i]] \in Conns
HandlesConn == \A w \in Workers : HoldsClient(w) => hfd[w] \in Fds /\ fdt[hfd[w]] \in Conns
HandlesTook == \A w \in Workers : HoldsClient(w) => \A i \in 1..Len(queue) : queue[i] # hfd[w]
HandlesOne  == \A v, w \in Workers : HoldsClient(v) /\ HoldsClient(w) /\ hfd[v] = hfd[w] => v = w
UpOwn       == \A w \in Workers : HoldsUp(w) => cfd[w] \in Fds /\ fdt[cfd[w]] = w

Exclusive == /\ QueuedOnce /\ QueuedConns
             /\ HandlesConn /\ HandlesTook /\ HandlesOne
             /\ UpOwn

(* They are what the property says.                                        *)
LEMMA ExclusiveSays ==
  ASSUME Typed PROVE ExclusiveDescriptors <=> (~stray => Exclusive)
<1>1. queue \in Seq(Fds) /\ DOMAIN queue = 1..Len(queue)
  BY DEF Typed, WorkerTypeOK
<1>2. Range(queue) = {queue[i] : i \in 1..Len(queue)}
  BY <1>1 DEF Range
<1>3. IsInjective(queue) <=> QueuedOnce
  BY <1>1 DEF IsInjective, QueuedOnce
<1> QED
  BY <1>1, <1>2, <1>3 DEF ExclusiveDescriptors, Exclusive, QueuedConns, HandlesConn,
                          HandlesTook, HandlesOne, UpOwn

(* What is queued or handled has a number that is in use.                  *)
LEMMA InUse ==
  ASSUME Kept, Exclusive
  PROVE  /\ \A i \in 1..Len(queue) : queue[i] \in Fds /\ fdt[queue[i]] # Free
         /\ \A w \in Workers : HoldsClient(w) => fdt[hfd[w]] # Free
         /\ \A w \in Workers : HoldsUp(w) => fdt[cfd[w]] # Free
BY Kinds DEF Kept, Typed, WorkerTypeOK, Exclusive, QueuedConns, HandlesConn, UpOwn

(* A number that is freed, or given to a socket while it was free, changes *)
(* nothing for those who hold others.                                      *)
LEMMA OwnersStay ==
  ASSUME Kept, Exclusive, queue' = queue,
         \A w \in Workers : HoldsClient(w)' => HoldsClient(w) /\ hfd'[w] = hfd[w],
         \A w \in Workers : HoldsUp(w)' => \/ HoldsUp(w) /\ cfd'[w] = cfd[w]
                                           \/ cfd'[w] \in Fds /\ fdt'[cfd'[w]] = w,
         \A i \in 1..Len(queue) : fdt'[queue[i]] = fdt[queue[i]],
         \A w \in Workers : HoldsClient(w)' => fdt'[hfd[w]] = fdt[hfd[w]],
         \A w \in Workers : HoldsUp(w)' /\ HoldsUp(w) /\ cfd'[w] = cfd[w] => fdt'[cfd[w]] = fdt[cfd[w]]
  PROVE  Exclusive'
<1>1. QueuedOnce' /\ QueuedConns'
  BY DEF Exclusive, QueuedOnce, QueuedConns
<1>2. HandlesConn' /\ HandlesTook' /\ HandlesOne'
  BY DEF Exclusive, HandlesConn, HandlesTook, HandlesOne
<1>3. UpOwn'
  BY DEF Exclusive, UpOwn
<1> QED
  BY <1>1, <1>2, <1>3 DEF Exclusive

(* An accepted connection gets a number nobody has.                        *)
LEMMA ExclusiveAccepts ==
  ASSUME Kept, Exclusive, NEW c \in Conns, Accepts(c) PROVE Exclusive'
<1> PICK low : low = Lowest
  OBVIOUS
<1>1. low \in Fds /\ fdt[low] = Free
  BY LowestFree DEF Accepts, Accept
<1>2. \A f \in Fds : fdt'[f] = IF f = low THEN c ELSE fdt[f]
  <2>1. fdt' = [fdt EXCEPT ![low] = c]
    BY DEF Accepts, Accept
  <2> QED
    BY <1>1, <2>1 DEF Kept, Typed, NetTypeOK
<1>3. queue \in Seq(Fds) /\ queue' = Append(queue, low) /\ Keep(Workers)
  BY DEF Accepts, Accept, Kept, Typed, WorkerTypeOK
<1>4. /\ Len(queue') = Len(queue) + 1 /\ Len(queue) \in Nat
      /\ queue'[Len(queue) + 1] = low
      /\ \A i \in 1..Len(queue) : queue'[i] = queue[i]
      /\ \A i \in 1..Len(queue') : i \in 1..Len(queue) \/ i = Len(queue) + 1
  BY <1>1, <1>3
<1>5. \A i \in 1..Len(queue) : queue[i] # low /\ queue[i] \in Fds
  BY <1>1, InUse
<1>6. \A w \in Workers : HoldsClient(w) => hfd[w] # low
  BY <1>1, InUse
<1>7. \A w \in Workers : HoldsUp(w) => cfd[w] # low
  BY <1>1, InUse
<1>8. QueuedOnce'
  BY <1>4, <1>5 DEF Exclusive, QueuedOnce
<1>9. QueuedConns'
  BY <1>1, <1>2, <1>4, <1>5 DEF Exclusive, QueuedConns
<1>10. HandlesConn' /\ HandlesOne'
  BY <1>2, <1>3, <1>6 DEF Exclusive, HandlesConn, HandlesOne, Keep
<1>11. HandlesTook'
  BY <1>3, <1>4, <1>6 DEF Exclusive, HandlesTook, Keep
<1>12. UpOwn'
  BY <1>2, <1>3, <1>7 DEF Exclusive, UpOwn, Keep
<1> QED
  BY <1>8, <1>9, <1>10, <1>11, <1>12 DEF Exclusive

(* What a worker takes leaves the queue.                                   *)
LEMMA ExclusiveTakes ==
  ASSUME Kept, Exclusive, NEW w \in Workers, Takes(w) PROVE Exclusive'
<1>1. /\ queue \in Seq(Fds) /\ queue # <<>> /\ queue' = Tail(queue)
      /\ hfd'[w] = Head(queue) /\ fdt' = fdt
  BY DEF Takes, Take, Kept, Typed, WorkerTypeOK, netVars
<1>2. /\ 1 \in 1..Len(queue) /\ Head(queue) = queue[1] /\ queue[1] \in Fds
      /\ \A i \in 1..Len(queue') : /\ i + 1 \in 1..Len(queue) /\ queue'[i] = queue[i + 1]
                                   /\ i + 1 # 1
      /\ \A i, j \in 1..Len(queue') : i + 1 = j + 1 => i = j
  BY <1>1
<1>3. /\ \A v \in Workers \ {w} : HoldsClient(v)' => HoldsClient(v) /\ hfd'[v] = hfd[v]
      /\ \A v \in Workers : HoldsUp(v)' => v # w /\ HoldsUp(v) /\ cfd'[v] = cfd[v]
  BY DEF Takes, Keep
<1>4. QueuedOnce' /\ QueuedConns'
  BY <1>1, <1>2 DEF Exclusive, QueuedOnce, QueuedConns
<1>5. HandlesConn'
  BY <1>1, <1>2, <1>3 DEF Exclusive, HandlesConn, QueuedConns
<1>6. HandlesTook'
  BY <1>1, <1>2, <1>3 DEF Exclusive, HandlesTook, QueuedOnce
<1>7. HandlesOne'
  BY <1>1, <1>2, <1>3 DEF Exclusive, HandlesOne, HandlesTook
<1>8. UpOwn'
  BY <1>1, <1>3 DEF Exclusive, UpOwn
<1> QED
  BY <1>4, <1>5, <1>6, <1>7, <1>8 DEF Exclusive

(* The other steps; a close that goes astray is excluded.                  *)
LEMMA ExclusiveOthers ==
  ASSUME Kept, Exclusive, ~stray',
         \/ Still \/ IsRefused
         \/ \E w \in Workers : Connects(w) \/ LetsGo(w) \/ HangsUp(w) \/ LeavesIt(w)
  PROVE  Exclusive'
<1> USE DEF Keep
<1>1. CASE Still
  BY <1>1, OwnersStay DEF Still
<1>2. CASE IsRefused
  <2>1. \A f \in Fds : fdt[f] # Free => fdt'[f] = fdt[f]
    BY <1>2, LowestFree DEF IsRefused, ConnectFail, Kept, Typed, NetTypeOK
  <2> QED
    BY <1>2, <2>1, InUse, OwnersStay DEF IsRefused, Exclusive, HandlesConn, UpOwn
<1>3. ASSUME NEW w \in Workers, Connects(w) PROVE Exclusive'
  <2>1. /\ \A f \in Fds : fdt[f] # Free => fdt'[f] = fdt[f]
        /\ cfd'[w] \in Fds /\ fdt'[cfd'[w]] = w
    BY <1>3, LowestFree DEF Connects, ConnectOk, Kept, Typed, NetTypeOK
  <2> QED
    BY <1>3, <2>1, InUse, OwnersStay DEF Connects, Exclusive, HandlesConn, UpOwn
<1>4. ASSUME NEW w \in Workers, LetsGo(w) PROVE Exclusive'
  <2>1. \A g \in Fds : fdt'[g] = IF g = hfd[w] THEN Free ELSE fdt[g]
    BY <1>4, CloseFds DEF LetsGo, Kept, Typed
  <2>2. /\ \A i \in 1..Len(queue) : queue[i] \in Fds /\ queue[i] # hfd[w]
        /\ \A v \in Workers : HoldsClient(v)' => hfd[v] \in Fds /\ hfd[v] # hfd[w]
        /\ \A v \in Workers : HoldsUp(v) => cfd[v] \in Fds /\ cfd[v] # hfd[w]
    BY <1>4, InUse, Kinds DEF LetsGo, Exclusive, HandlesConn, HandlesTook, HandlesOne, UpOwn
  <2> QED
    BY <1>4, <2>1, <2>2, OwnersStay DEF LetsGo
<1>5. ASSUME NEW w \in Workers, HangsUp(w) PROVE Exclusive'
  <2>1. \A g \in Fds : fdt'[g] = IF g = cfd[w] THEN Free ELSE fdt[g]
    BY <1>5, CloseFds DEF HangsUp, Kept, Typed
  <2>2. cfd[w] \in Fds => fdt[cfd[w]] = w \/ fdt[cfd[w]] \notin Socks
    BY <1>5, Kinds DEF HangsUp, Exclusive, UpOwn, Behind
  <2>3. /\ \A i \in 1..Len(queue) : queue[i] \in Fds /\ queue[i] # cfd[w]
        /\ \A v \in Workers : HoldsClient(v) => hfd[v] \in Fds /\ hfd[v] # cfd[w]
        /\ \A v \in Workers : HoldsUp(v)' => v # w /\ cfd[v] \in Fds /\ cfd[v] # cfd[w]
    BY <1>5, <2>2, InUse, Kinds DEF HangsUp, Exclusive, QueuedConns, HandlesConn, UpOwn
  <2> QED
    BY <1>5, <2>1, <2>3, OwnersStay DEF HangsUp
<1>6. ASSUME NEW w \in Workers, LeavesIt(w) PROVE Exclusive'
  <2>1. \A g \in Fds : fdt[g] # w => fdt'[g] = fdt[g]
    BY <1>6 DEF LeavesIt, Leak
  <2>2. /\ \A i \in 1..Len(queue) : queue[i] \in Fds /\ fdt[queue[i]] # w
        /\ \A v \in Workers : HoldsClient(v) => hfd[v] \in Fds /\ fdt[hfd[v]] # w
        /\ \A v \in Workers : HoldsUp(v)' => v # w /\ HoldsUp(v) /\ cfd[v] \in Fds /\ fdt[cfd[v]] # w
    BY <1>6, InUse, Kinds DEF LeavesIt, Exclusive, QueuedConns, HandlesConn, UpOwn
  <2> QED
    BY <1>6, <2>1, <2>2, OwnersStay DEF LeavesIt
<1> QED
  BY <1>1, <1>2, <1>3, <1>4, <1>5, <1>6

(* What holds as long as no close went astray.                             *)
Owned == Kept /\ (~stray => Exclusive)

(* No step gives a number two owners.                                      *)
LEMMA OwnedStep == Owned /\ [Next]_vars => Owned'
<1> SUFFICES ASSUME Owned, [Next]_vars PROVE Owned'
  OBVIOUS
<1>1. Kept /\ Kept'
  BY KeptStep DEF Owned
<1>2. stray => stray'
  BY <1>1, FdSteps
  DEF Kept, Still, IsRefused, Accepts, Takes, Connects, LetsGo, HangsUp, LeavesIt
<1> QED
  BY <1>1, <1>2, FdSteps, ExclusiveAccepts, ExclusiveTakes, ExclusiveOthers DEF Kept, Owned

(* Nobody holds anything at the start.                                     *)
LEMMA OwnedInit == Init => Owned
<1> SUFFICES ASSUME Init PROVE Owned
  OBVIOUS
<1>1. queue = <<>> /\ \A w \in Workers : ~HoldsClient(w) /\ ~HoldsUp(w)
  BY DEF Init, DispatchInit, HoldsClient, HoldsUp, HandlerLabels
<1> QED
  BY <1>1, KeptInit DEF Owned, Exclusive, QueuedOnce, QueuedConns, HandlesConn, HandlesTook,
                        HandlesOne, UpOwn

(***************************************************************************)
(* For any number of connections and workers: what is queued or handled is *)
(* an open client connection with one owner, and what a worker talks       *)
(* upstream on is its own socket, until a close of a number left over from *)
(* an earlier request goes astray.                                         *)
(***************************************************************************)
THEOREM DescriptorsExclusive == Spec => []ExclusiveDescriptors
<1>1. Owned => ExclusiveDescriptors
  BY ExclusiveSays DEF Owned, Kept
<1> QED
  BY <1>1, OwnedInit, OwnedStep, PTL DEF Spec

-----------------------------------------------------------------------------
(* What is lost is counted, and the listener runs out only after a leak.   *)

Holders  == {w \in Workers : HoldsClient(w)}
Accepted == {c \in Conns : Open(c) \/ peer[c] = "closed"}

(* Queued and handled descriptors are counted, whatever they refer to by   *)
(* now: there are no more of them than connections were ever accepted.     *)
CountOK   == Len(queue) + Cardinality(Holders) <= Cardinality(Accepted)
StoppedOK == proc = "full" => OutOfFds

Finite == IsFiniteSet(Conns) /\ IsFiniteSet(Workers)

(* A finite set has no more images than elements.                          *)
LEMMA ImageBound ==
  ASSUME NEW S, IsFiniteSet(S), NEW f
  PROVE  /\ IsFiniteSet({f[x] : x \in S})
         /\ Cardinality({f[x] : x \in S}) \in Nat
         /\ Cardinality(S) \in Nat
         /\ Cardinality({f[x] : x \in S}) <= Cardinality(S)
<1> DEFINE T == {f[x] : x \in S}
           g == [x \in S |-> f[x]]
<1>1. g \in Surjection(S, T)
  BY DEF Surjection
<1>2. IsFiniteSet(T) /\ Cardinality(T) <= Cardinality(S)
  BY <1>1, FS_Surjection
<1> QED
  BY <1>2, FS_CardinalityType

(* What was accepted stays so: it is open until it is closed.              *)
LEMMA AcceptedStays ==
  ASSUME Kept, [Next]_vars PROVE Accepted \subseteq Accepted'
<1> SUFFICES ASSUME NEW c \in Conns, Open(c) \/ peer[c] = "closed"
             PROVE  Open(c)' \/ peer'[c] = "closed"
  BY DEF Accepted
<1> DEFINE Stays == /\ \A f \in Fds : fdt[f] = c => fdt'[f] = c \/ peer'[c] = "closed"
                    /\ peer[c] = "closed" => peer'[c] = "closed"
<1>1. Stays
  <2> USE DEF Kept
  <2>1. CASE Still
    BY <2>1 DEF Still, PeersMove
  <2>2. ASSUME FreeFds # {}, NEW x, fdt' = [fdt EXCEPT ![Lowest] = x]
        PROVE  \A f \in Fds : fdt[f] = c => fdt'[f] = c
    BY <2>2, LowestFree, Kinds DEF Typed, NetTypeOK
  <2>3. CASE IsRefused
    BY <2>2, <2>3 DEF IsRefused, ConnectFail
  <2>4. ASSUME NEW d \in Conns, Accepts(d) PROVE Stays
    BY <2>2, <2>4 DEF Accepts, Accept
  <2>5. ASSUME NEW w \in Workers, Takes(w) PROVE Stays
    BY <2>5 DEF Takes, Take, netVars
  <2>6. ASSUME NEW w \in Workers, Connects(w) PROVE Stays
    BY <2>2, <2>6, Kinds DEF Connects, ConnectOk, Typed, NetTypeOK
  <2>7. ASSUME NEW w \in Workers, LetsGo(w) PROVE Stays
    BY <2>7, CloseFds, Kinds DEF LetsGo, Behind, Typed
  <2>8. ASSUME NEW w \in Workers, HangsUp(w) PROVE Stays
    BY <2>8, CloseFds, Kinds DEF HangsUp, Behind, Typed
  <2>9. ASSUME NEW w \in Workers, LeavesIt(w) PROVE Stays
    BY <2>9, Kinds DEF LeavesIt, Leak, Typed, NetTypeOK
  <2> QED
    BY <2>1, <2>3, <2>4, <2>5, <2>6, <2>7, <2>8, <2>9, FdSteps
<1> QED
  BY <1>1 DEF Open

(* As long as no close went astray, a connection that was thrown past its  *)
(* close stays open and nobody comes back to it, and each dead number is   *)
(* accounted for.                                                          *)
ThrownGone == /\ thrown \subseteq Accepted
              /\ \A i \in 1..Len(queue) : fdt[queue[i]] \notin thrown
              /\ \A w \in Workers : HoldsClient(w) => fdt[hfd[w]] \notin thrown
DeadOK     == Cardinality(Unreferenced) <= refused + Cardinality(thrown)

Losses == Owned /\ (~stray => ThrownGone /\ DeadOK)

(* What is counted is finite.                                              *)
LEMMA LossTypes ==
  ASSUME Finite, Typed, Typed'
  PROVE  /\ IsFiniteSet(Unreferenced) /\ Cardinality(Unreferenced) \in Nat
         /\ IsFiniteSet(thrown) /\ Cardinality(thrown) \in Nat
         /\ refused \in Nat
         /\ Cardinality(Unreferenced') \in Nat /\ Cardinality(thrown') \in Nat
<1>1. IsFiniteSet(Fds)
  BY FS_Interval, SocketsAssumption DEF SocketsAssumption, Fds
<1>2. /\ Unreferenced \subseteq Fds /\ Unreferenced' \subseteq Fds
      /\ thrown \subseteq Conns /\ thrown' \subseteq Conns
      /\ refused \in Nat
  BY ProxyAssumption DEF Unreferenced, Typed, WorkerTypeOK, ProxyAssumption
<1> QED
  BY <1>1, <1>2, FS_Subset, FS_CardinalityType DEF Finite

(* A step that throws nothing, gives nobody a connection and leaves no     *)
(* number more dead.                                                       *)
LEMMA LossesStay ==
  ASSUME Finite, Typed, Typed', ThrownGone, DeadOK, Accepted \subseteq Accepted',
         thrown' = thrown, refused' = refused, queue' = queue,
         \A f \in Fds : fdt'[f] = Dead => fdt[f] = Dead,
         \A f \in Fds : fdt'[f] \in thrown => fdt'[f] = fdt[f],
         \A i \in 1..Len(queue) : queue[i] \in Fds,
         \A w \in Workers : HoldsClient(w)' => HoldsClient(w) /\ hfd'[w] = hfd[w] /\ hfd[w] \in Fds
  PROVE  (ThrownGone /\ DeadOK)'
<1>1. ThrownGone'
  BY DEF ThrownGone
<1>2. Unreferenced' \subseteq Unreferenced
  BY DEF Unreferenced
<1>3. Cardinality(Unreferenced') <= Cardinality(Unreferenced)
  BY <1>2, LossTypes, FS_Subset
<1> QED
  BY <1>1, <1>3, LossTypes DEF DeadOK

(* A refused connect leaves one number more dead, and is counted.          *)
LEMMA RefusedCounted ==
  ASSUME Finite, Typed, Typed', ThrownGone, DeadOK, Accepted \subseteq Accepted',
         Exclusive, IsRefused
  PROVE  (ThrownGone /\ DeadOK)'
<1>1. thrown' = thrown /\ queue' = queue /\ Keep(Workers)
  BY DEF IsRefused
<1>2. CASE FreeFds = {}
  BY <1>1, <1>2, LossesStay
  DEF IsRefused, Refused, ConnectFail, Keep, Exclusive, HandlesConn, Typed, WorkerTypeOK
<1>3. CASE FreeFds # {}
  <2> PICK low : low = Lowest
    OBVIOUS
  <2>1. low \in Fds /\ fdt[low] = Free /\ refused' = refused + 1
    BY <1>3, LowestFree DEF IsRefused, Refused
  <2>2. \A f \in Fds : fdt'[f] = IF f = low THEN Dead ELSE fdt[f]
    BY <1>3, <2>1, FdtExcept DEF IsRefused, ConnectFail, Typed
  <2>3. Unreferenced' = Unreferenced \cup {low} /\ low \notin Unreferenced
    BY <2>1, <2>2, Kinds DEF Unreferenced
  <2>4. Cardinality(Unreferenced') = Cardinality(Unreferenced) + 1
    BY <2>3, LossTypes, FS_AddElement
  <2>5. DeadOK'
    BY <1>1, <2>1, <2>4, LossTypes DEF DeadOK
  <2>6. ThrownGone'
    <3>1. thrown \subseteq Conns /\ \A i \in 1..Len(queue) : queue[i] \in Fds
      BY DEF Typed, WorkerTypeOK
    <3>2. \A f \in Fds : fdt[f] \notin thrown => fdt'[f] \notin thrown
      BY <2>2, <3>1, Kinds
    <3> QED
      BY <1>1, <3>1, <3>2 DEF ThrownGone, Keep, Exclusive, HandlesConn
  <2> QED
    BY <2>5, <2>6
<1> QED
  BY <1>2, <1>3

(* A handler that throws leaves one number dead at most, and is counted:   *)
(* it did not throw before, as its connection is handled.                  *)
LEMMA ThrowCounted ==
  ASSUME Finite, Kept, Typed', ThrownGone, DeadOK, Accepted \subseteq Accepted',
         Exclusive, NEW w \in Workers, LeavesIt(w)
  PROVE  (ThrownGone /\ DeadOK)'
<1> USE DEF LeavesIt
<1> PICK c : c = fdt[hfd[w]]
  OBVIOUS
<1>1. hfd[w] \in Fds /\ c \in Conns /\ HoldsClient(w)
  BY DEF Exclusive, HandlesConn
<1>2. thrown' = thrown \cup {c} /\ c \notin thrown
  BY <1>1 DEF Behind, ThrownGone
<1>3. Typed /\ OneFd /\ UpHeld
  BY DEF Kept
<1>4. \A g \in Fds : fdt'[g] = IF fdt[g] = w THEN Dead ELSE fdt[g]
  BY <1>3, Kinds DEF Leak, UpHeld, Typed, NetTypeOK
<1>5. Cardinality(thrown') = Cardinality(thrown) + 1
  BY <1>2, <1>3, LossTypes, FS_AddElement
<1>6. Cardinality(Unreferenced') <= Cardinality(Unreferenced) + 1
  <2>1. CASE \E g \in Fds : fdt[g] = w
    <3>1. PICK g \in Fds : fdt[g] = w
      BY <2>1
    <3>2. \A f \in Fds : fdt[f] = w => f = g
      BY <1>3, <3>1, Kinds DEF OneFd
    <3>3. Unreferenced' = Unreferenced \cup {g} /\ g \notin Unreferenced
      BY <1>4, <3>1, <3>2, Kinds DEF Unreferenced
    <3>4. Cardinality(Unreferenced') = Cardinality(Unreferenced) + 1
      BY <1>3, <3>3, LossTypes, FS_AddElement
    <3>5. Cardinality(Unreferenced) \in Nat
      BY <1>3, LossTypes
    <3> QED
      BY ONLY <3>4, <3>5
  <2>2. CASE ~\E g \in Fds : fdt[g] = w
    <3>1. Unreferenced' = Unreferenced
      BY <1>4, <2>2 DEF Unreferenced
    <3> QED
      BY <1>3, <3>1, LossTypes
  <2> QED
    BY <2>1, <2>2
<1>7. DeadOK'
  <2>1. refused' = refused
    OBVIOUS
  <2> HIDE DEF LeavesIt
  <2> QED
    BY <1>3, <1>5, <1>6, <2>1, LossTypes DEF DeadOK
<1>8. ThrownGone'
  <2>1. c \in Accepted
    BY <1>1 DEF Accepted, Open
  <2>2. thrown \subseteq Conns /\ queue' = queue /\ \A i \in 1..Len(queue) : queue[i] \in Fds
    BY <1>3 DEF Typed, WorkerTypeOK
  <2>3. \A f \in Fds : fdt[f] \notin thrown /\ f # hfd[w] => fdt'[f] \notin thrown'
    BY <1>1, <1>2, <1>3, <1>4, <2>2, Kinds DEF OneFd
  <2>4. \A i \in 1..Len(queue) : queue[i] # hfd[w]
    BY <1>1 DEF Exclusive, HandlesTook
  <2>5. \A v \in Workers : HoldsClient(v)' => /\ HoldsClient(v) /\ hfd'[v] = hfd[v]
                                              /\ hfd[v] \in Fds /\ hfd[v] # hfd[w]
    BY <1>1 DEF Keep, Exclusive, HandlesConn, HandlesOne
  <2> QED
    BY <1>2, <2>1, <2>2, <2>3, <2>4, <2>5 DEF ThrownGone
<1> QED
  BY <1>7, <1>8

(* An accepted connection was never thrown: that one stays open.           *)
LEMMA AcceptsNew ==
  ASSUME Finite, Kept, Typed', ThrownGone, DeadOK, Accepted \subseteq Accepted',
         Exclusive, NEW c \in Conns, Accepts(c)
  PROVE  (ThrownGone /\ DeadOK)'
<1> USE DEF Accepts
<1> PICK low : low = Lowest
  OBVIOUS
<1>1. low \in Fds /\ fdt[low] = Free
  BY LowestFree DEF Accept
<1>2. \A f \in Fds : fdt'[f] = IF f = low THEN c ELSE fdt[f]
  BY <1>1, FdtExcept DEF Accept, Kept, Typed
<1>3. c \notin thrown
  BY DEF Accept, Backlog, Accepted, ThrownGone
<1>4. Unreferenced' = Unreferenced
  BY <1>1, <1>2, Kinds DEF Unreferenced
<1>5. queue \in Seq(Fds) /\ queue' = Append(queue, low)
  BY DEF Accept, Kept, Typed, WorkerTypeOK
<1>6. \A i \in 1..Len(queue') : queue'[i] = low \/ (i \in 1..Len(queue) /\ queue'[i] = queue[i])
  BY <1>1, <1>5
<1>7. \A f \in Fds : fdt[f] \notin thrown => fdt'[f] \notin thrown
  BY <1>2, <1>3
<1>8. \A i \in 1..Len(queue') : fdt'[queue'[i]] \notin thrown
  BY <1>1, <1>2, <1>3, <1>5, <1>6, <1>7 DEF ThrownGone
<1>9. ThrownGone'
  BY <1>7, <1>8 DEF ThrownGone, Keep, Exclusive, HandlesConn
<1> QED
  BY <1>4, <1>9 DEF DeadOK

(* No step loses more than it counts.                                      *)
LEMMA LossesStep ==
  ASSUME Finite, Losses, [Next]_vars PROVE Losses'
<1>1. Owned /\ Owned' /\ Kept /\ Typed /\ Typed'
  BY OwnedStep DEF Losses, Owned, Kept
<1>2. stray => stray'
  BY <1>1, FdSteps
  DEF Kept, Still, IsRefused, Accepts, Takes, Connects, LetsGo, HangsUp, LeavesIt
<1> SUFFICES ASSUME ~stray' PROVE (ThrownGone /\ DeadOK)'
  BY <1>1 DEF Losses
<1>3. ThrownGone /\ DeadOK /\ Exclusive /\ Accepted \subseteq Accepted'
  BY <1>1, <1>2, AcceptedStays DEF Losses, Owned
<1>4. thrown \subseteq Conns /\ \A i \in 1..Len(queue) : queue[i] \in Fds
  BY <1>1 DEF Typed, WorkerTypeOK
<1>5. \A w \in Workers : HoldsClient(w) => hfd[w] \in Fds
  BY <1>3 DEF Exclusive, HandlesConn
<1>6. CASE Still
  BY <1>1, <1>3, <1>4, <1>5, <1>6, LossesStay DEF Still, Keep
<1>7. ASSUME NEW w \in Workers, Takes(w) PROVE (ThrownGone /\ DeadOK)'
  <2>1. /\ queue \in Seq(Fds) /\ queue # <<>> /\ queue' = Tail(queue)
        /\ hfd'[w] = Head(queue) /\ fdt' = fdt /\ UNCHANGED <<thrown, refused>>
    BY <1>1, <1>7 DEF Takes, Take, Typed, WorkerTypeOK, netVars
  <2>2. /\ 1 \in 1..Len(queue) /\ hfd'[w] = queue[1]
        /\ \A i \in 1..Len(queue') : i + 1 \in 1..Len(queue) /\ queue'[i] = queue[i + 1]
    BY <2>1
  <2>3. \A v \in Workers \ {w} : HoldsClient(v)' => HoldsClient(v) /\ hfd'[v] = hfd[v]
    BY <1>7 DEF Takes, Keep
  <2>4. ThrownGone'
    BY <1>3, <2>1, <2>2, <2>3 DEF ThrownGone
  <2> QED
    BY <1>3, <2>1, <2>4 DEF DeadOK, Unreferenced
<1>8. ASSUME NEW w \in Workers, Connects(w) PROVE (ThrownGone /\ DeadOK)'
  <2> PICK low : low = Lowest
    OBVIOUS
  <2>1. low \in Fds /\ fdt[low] = Free
    BY <1>8, LowestFree DEF Connects, ConnectOk
  <2>2. \A f \in Fds : fdt'[f] = IF f = low THEN w ELSE fdt[f]
    <3>1. NetTypeOK /\ fdt' = [fdt EXCEPT ![low] = w]
      BY <1>1, <1>8 DEF Connects, ConnectOk, Typed
    <3> QED
      BY <2>1, <3>1, FdtExcept
  <2>3. /\ \A f \in Fds : fdt'[f] = Dead => fdt[f] = Dead
        /\ \A f \in Fds : fdt'[f] \in thrown => fdt'[f] = fdt[f]
    BY <1>4, <2>2, Kinds
  <2> QED
    BY <1>1, <1>3, <1>4, <1>5, <1>8, <2>3, LossesStay DEF Connects, Keep
<1>9. ASSUME NEW w \in Workers, LetsGo(w) \/ HangsUp(w) PROVE (ThrownGone /\ DeadOK)'
  <2>1. PICK g : \A f \in Fds : fdt'[f] = IF f = g THEN Free ELSE fdt[f]
    BY <1>1, <1>9, CloseFds DEF LetsGo, HangsUp, Typed
  <2>2. /\ \A f \in Fds : fdt'[f] = Dead => fdt[f] = Dead
        /\ \A f \in Fds : fdt'[f] \in thrown => fdt'[f] = fdt[f]
    BY <1>4, <2>1, Kinds
  <2>3. \A v \in Workers : HoldsClient(v)' => HoldsClient(v) /\ hfd'[v] = hfd[v]
    BY <1>9 DEF LetsGo, HangsUp, Keep
  <2> QED
    BY <1>1, <1>3, <1>4, <1>5, <1>9, <2>2, <2>3, LossesStay DEF LetsGo, HangsUp
<1> QED
  BY <1>1, <1>3, <1>6, <1>7, <1>8, <1>9, FdSteps, RefusedCounted, ThrowCounted, AcceptsNew
  DEF Kept

(***************************************************************************)
(* For any finite numbers of connections and workers, however many come    *)
(* and go: an open socket is queued, handled or in use upstream unless its *)
(* handler threw, even after a close went astray; and until one does, the  *)
(* sockets nobody refers to any more are no more than the connects that    *)
(* were refused and the handlers that threw.                               *)
(***************************************************************************)
THEOREM LossesCounted ==
  ASSUME Finite PROVE Spec => []LosesAsCounted
<1>1. Init => Losses
  <2> SUFFICES ASSUME Init PROVE ThrownGone /\ DeadOK
    BY OwnedInit DEF Losses
  <2>1. /\ Unreferenced = {} /\ thrown = {} /\ refused = 0 /\ queue = <<>>
        /\ \A w \in Workers : ~HoldsClient(w)
    BY Kinds DEF Init, NetInit, DispatchInit, Unreferenced, HoldsClient, HandlerLabels
  <2> QED
    BY <2>1, FS_EmptySet DEF ThrownGone, DeadOK
<1>2. Losses => LosesAsCounted
  BY OpenIsHeld DEF Losses, Owned, DeadOK, LosesAsCounted
<1> QED
  BY <1>1, <1>2, LossesStep, PTL DEF Spec

(* No step makes more held numbers than accepted connections.              *)
LEMMA CountStep ==
  ASSUME Finite, Kept, CountOK, [Next]_vars PROVE CountOK'
<1>1. /\ Cardinality(Accepted) \in Nat /\ Cardinality(Accepted') \in Nat
      /\ Cardinality(Accepted) <= Cardinality(Accepted')
      /\ IsFiniteSet(Accepted) /\ IsFiniteSet(Accepted')
  <2>1. Accepted \subseteq Conns /\ Accepted' \subseteq Conns /\ Accepted \subseteq Accepted'
    BY AcceptedStays DEF Accepted
  <2> QED
    BY <2>1, FS_Subset, FS_CardinalityType DEF Finite
<1>2. /\ Cardinality(Holders) \in Nat /\ Cardinality(Holders') \in Nat
      /\ IsFiniteSet(Holders) /\ IsFiniteSet(Holders')
      /\ Holders' \subseteq Holders => Cardinality(Holders') <= Cardinality(Holders)
  <2>1. Holders \subseteq Workers /\ Holders' \subseteq Workers
    BY DEF Holders
  <2> QED
    BY <2>1, FS_Subset, FS_CardinalityType DEF Finite
<1>3. Len(queue) \in Nat /\ queue \in Seq(Fds)
  BY DEF Kept, Typed, WorkerTypeOK
<1>4. CASE queue' = queue /\ Holders' \subseteq Holders
  BY <1>1, <1>2, <1>3, <1>4 DEF CountOK
<1>5. ASSUME NEW c \in Conns, Accepts(c) PROVE CountOK'
  <2>1. Holders' \subseteq Holders /\ Len(queue') = Len(queue) + 1
    BY <1>3, <1>5 DEF Accepts, Accept, Keep, Holders
  <2>2. c \notin Accepted
    BY <1>5 DEF Accepts, Accept, Backlog, Accepted
  <2>3. c \in Accepted'
    <3>1. Lowest \in Fds /\ fdt' = [fdt EXCEPT ![Lowest] = c]
      BY <1>5, LowestFree DEF Accepts, Accept
    <3>2. fdt'[Lowest] = c
      BY <3>1 DEF Kept, Typed, NetTypeOK
    <3> QED
      BY <3>1, <3>2 DEF Accepted, Open, Fds
  <2>4. Accepted \cup {c} \subseteq Accepted'
    BY <2>3, AcceptedStays
  <2>5. Cardinality(Accepted \cup {c}) = Cardinality(Accepted) + 1
    BY <1>1, <2>2, FS_AddElement
  <2>6. Cardinality(Accepted \cup {c}) <= Cardinality(Accepted')
    BY <1>1, <2>4, FS_Subset
  <2> QED
    BY <1>1, <1>2, <1>3, <2>1, <2>5, <2>6 DEF CountOK
<1>6. ASSUME NEW w \in Workers, Takes(w) PROVE CountOK'
  <2>1. Len(queue') = Len(queue) - 1
    BY <1>3, <1>6 DEF Takes, Take
  <2>2. Holders' = Holders \cup {w} /\ w \notin Holders
    BY <1>6 DEF Takes, Keep, Holders
  <2>3. Cardinality(Holders') = Cardinality(Holders) + 1
    BY <1>2, <2>2, FS_AddElement
  <2> QED
    BY <1>1, <1>2, <1>3, <2>1, <2>3 DEF CountOK
<1>7. \/ queue' = queue /\ Holders' \subseteq Holders
      \/ \E c \in Conns : Accepts(c)
      \/ \E w \in Workers : Takes(w)
  BY FdSteps DEF Kept, Holders, Keep, Still, IsRefused, Connects, LetsGo, HangsUp, LeavesIt
<1> QED
  BY <1>4, <1>5, <1>6, <1>7

(* Nothing happens once the listener ran out, and nothing else is that.    *)
LEMMA StoppedStep == StoppedOK /\ [Next]_vars => StoppedOK'
<1> SUFFICES ASSUME StoppedOK, [Next]_vars, proc' = "full"
             PROVE  OutOfFds'
  BY DEF StoppedOK
<1>1. AcceptRunsOut \/ UNCHANGED vars
  <2>1. ASSUME NEW w \in Workers, NormalStep(w) \/ TunnelStep(w) \/ TunnelTimeout(w) \/ TunnelDies(w)
        PROVE  FALSE
    <3>1. proc = "up"
      BY <2>1 DEF NormalStep, TunnelStep, StartNormal, RejectFirst, ReadFirst, FirstEof,
         CloseClient, Connect, ConnectFails, Send, GetResponse, RejectResponse, ResponseEof,
         Response, ResponseThrows, Throws, Reply, CloseUp, ReadNext, RejectNext, NextEof,
         NextRequest, ReadThrows, StartTunnel, TunnelConnect, TunnelConnectFails, TunnelOk,
         TunnelEof, TunnelTimeout, TunnelDies, TunnelCloseClient, TunnelCloseUp, Return,
         Step, Finish
    <3>2. proc' \in {proc, "sigpipe", "exit1", "abort"}
      BY <2>1 DEF NormalStep, TunnelStep, StartNormal, RejectFirst, ReadFirst, FirstEof,
         CloseClient, Connect, ConnectFails, Send, GetResponse, RejectResponse, ResponseEof,
         Response, ResponseThrows, Throws, Reply, CloseUp, ReadNext, RejectNext, NextEof,
         NextRequest, ReadThrows, StartTunnel, TunnelConnect, TunnelConnectFails, TunnelOk,
         TunnelEof, TunnelTimeout, TunnelDies, TunnelCloseClient, TunnelCloseUp, Write, upVars
    <3> QED
      BY <3>1, <3>2
  <2>2. ASSUME NEW w \in Workers, TakeNext(w) \/ ServerStep(w) PROVE FALSE
    BY <2>2 DEF TakeNext, Take, ServerStep, ServerReply, netVars
  <2>3. CASE Environment
    BY <2>3 DEF Environment, PeerNext, PeerCloses, PeerResets, Forget, ClientNext,
                ClientConnect, ClientSend
  <2>4. CASE ListenerStep \/ ListenerFails
    BY <2>4 DEF ListenerStep, ListenerFails, AcceptFails, ListenerNext, Accept
  <2> QED
    BY <2>1, <2>2, <2>3, <2>4 DEF Next, WorkerStep
<1>2. UNCHANGED <<fdt, peer>>
  BY <1>1 DEF AcceptRunsOut, vars, netVars
<1>3. OutOfFds
  BY <1>1 DEF AcceptRunsOut, StoppedOK, vars, netVars
<1> QED
  BY <1>2, <1>3 DEF OutOfFds, Backlog, FreeFds, Open

(* A full table of numbers that are all in use, and a connection in the    *)
(* backlog, take more numbers than one for each connection and worker.     *)
LEMMA HeldBound ==
  ASSUME Finite, Typed, CountOK, Backlog # {}, \A f \in Fds : Held(f)
  PROVE  MaxFd < Cardinality(Conns) + Cardinality(Workers)
<1> DEFINE Q == {queue[i] : i \in 1..Len(queue)}
           H == {hfd[w] : w \in Holders}
           U == {cfd[w] : w \in Workers}
<1>1. /\ IsFiniteSet(Q) /\ Cardinality(Q) \in Nat
      /\ Len(queue) \in Nat /\ Cardinality(Q) <= Len(queue)
  <2>1. Len(queue) \in Nat
    BY DEF Typed, WorkerTypeOK
  <2>2. IsFiniteSet(1..Len(queue)) /\ Cardinality(1..Len(queue)) = Len(queue)
    <3>1. 1 \in Int /\ Len(queue) \in Int
      BY ONLY <2>1
    <3>2. /\ IsFiniteSet(1..Len(queue))
          /\ Cardinality(1..Len(queue)) = IF 1 > Len(queue) THEN 0 ELSE Len(queue) - 1 + 1
      BY ONLY <3>1, FS_Interval
    <3> QED
      BY ONLY <2>1, <3>2
  <2> QED
    BY <2>1, <2>2, ImageBound
<1>2. /\ IsFiniteSet(H) /\ Cardinality(H) \in Nat
      /\ Cardinality(Holders) \in Nat /\ Cardinality(H) <= Cardinality(Holders)
  <2>1. Holders \in SUBSET Workers
    BY DEF Holders
  <2>2. IsFiniteSet(Holders)
    BY <2>1, FS_Subset DEF Finite
  <2> QED
    BY <2>2, ImageBound
<1>3. /\ IsFiniteSet(U) /\ Cardinality(U) \in Nat
      /\ Cardinality(Workers) \in Nat /\ Cardinality(U) <= Cardinality(Workers)
  BY ImageBound DEF Finite
<1>4. Fds \subseteq (Q \cup H) \cup U
  <2>1. Range(queue) = Q
    BY DEF Range, Typed, WorkerTypeOK
  <2> QED
    BY <2>1 DEF Held, Holders
<1>5. /\ Cardinality(Accepted) \in Nat /\ Cardinality(Conns) \in Nat
      /\ Cardinality(Accepted) + 1 <= Cardinality(Conns)
  <2>1. PICK c \in Conns : c \notin Accepted
    BY DEF Backlog, Accepted
  <2>2. Accepted \cup {c} \subseteq Conns /\ Accepted \subseteq Conns
    BY DEF Accepted
  <2>3. IsFiniteSet(Accepted) /\ Cardinality(Accepted) \in Nat /\ Cardinality(Conns) \in Nat
    BY <2>2, FS_Subset, FS_CardinalityType DEF Finite
  <2>4. Cardinality(Accepted \cup {c}) = Cardinality(Accepted) + 1
    BY <2>1, <2>3, FS_AddElement
  <2>5. Cardinality(Accepted \cup {c}) <= Cardinality(Conns)
    BY <2>2, FS_Subset DEF Finite
  <2> QED
    BY <2>3, <2>4, <2>5
<1>6. MaxFd \in Nat /\ Cardinality(Fds) = MaxFd
  <2>1. MaxFd \in Nat
    BY SocketsAssumption DEF SocketsAssumption
  <2> QED
    BY <2>1, FS_Interval DEF Fds
<1> HIDE DEF Q, H, U
<1>7. /\ IsFiniteSet(Q \cup H) /\ Cardinality(Q \cup H) \in Nat
      /\ Cardinality(Q \cup H) <= Cardinality(Q) + Cardinality(H)
  <2>1. IsFiniteSet(Q \cap H) /\ IsFiniteSet(Q \cup H)
    BY <1>1, <1>2, FS_Union, FS_Intersection
  <2>2. Cardinality(Q \cap H) \in Nat /\ Cardinality(Q \cup H) \in Nat
    BY <2>1, FS_CardinalityType
  <2>3. Cardinality(Q \cup H) = Cardinality(Q) + Cardinality(H) - Cardinality(Q \cap H)
    BY <1>1, <1>2, FS_Union
  <2> QED
    BY <1>1, <1>2, <2>1, <2>2, <2>3
<1>8. /\ IsFiniteSet((Q \cup H) \cup U) /\ Cardinality((Q \cup H) \cup U) \in Nat
      /\ Cardinality((Q \cup H) \cup U) <= Cardinality(Q \cup H) + Cardinality(U)
  <2>1. IsFiniteSet((Q \cup H) \cap U) /\ IsFiniteSet((Q \cup H) \cup U)
    BY <1>3, <1>7, FS_Union, FS_Intersection
  <2>2. Cardinality((Q \cup H) \cap U) \in Nat /\ Cardinality((Q \cup H) \cup U) \in Nat
    BY <2>1, FS_CardinalityType
  <2>3. Cardinality((Q \cup H) \cup U) = Cardinality(Q \cup H) + Cardinality(U) - Cardinality((Q \cup H) \cap U)
    BY <1>3, <1>7, FS_Union
  <2> QED
    BY <1>3, <1>7, <2>1, <2>2, <2>3
<1>9. Cardinality(Fds) <= Cardinality((Q \cup H) \cup U)
  BY <1>4, <1>8, FS_Subset
<1>10. Len(queue) + Cardinality(Holders) <= Cardinality(Accepted)
  BY DEF CountOK
<1> QED
  BY ONLY <1>1, <1>2, <1>3, <1>5, <1>6, <1>7, <1>8, <1>9, <1>10

(***************************************************************************)
(* For any finite numbers of connections and workers: when the listener    *)
(* gives up for want of descriptors although the table has room for one    *)
(* client and one upstream socket each, some number leaked.  Not even      *)
(* closes that go astray make the queue and the workers hold more numbers  *)
(* than that.                                                              *)
(***************************************************************************)
THEOREM StopsForCause ==
  ASSUME Finite PROVE Spec => []StopsOnlyAfterLeak
<1> DEFINE Inv == Kept /\ CountOK /\ StoppedOK
<1>1. Init => Inv
  <2> SUFFICES ASSUME Init PROVE CountOK /\ StoppedOK
    BY KeptInit
  <2>1. Len(queue) = 0 /\ Holders = {} /\ Accepted = {} /\ proc = "up"
    <3>1. \A f \in Fds : fdt[f] = Free
      BY DEF Init, NetInit
    <3> QED
      BY <3>1, Kinds DEF Init, NetInit, DispatchInit, Holders, HoldsClient, HandlerLabels,
                         Accepted, Open
  <2> QED
    BY <2>1, FS_EmptySet DEF CountOK, StoppedOK
<1>2. Inv /\ [Next]_vars => Inv'
  BY KeptStep, CountStep, StoppedStep
<1>3. Inv => StopsOnlyAfterLeak
  <2> SUFFICES ASSUME Inv, proc = "full", \A f \in Fds : fdt[f] = Free \/ Held(f),
                      MaxFd >= Cardinality(Conns) + Cardinality(Workers)
               PROVE  FALSE
    BY DEF StopsOnlyAfterLeak
  <2>1. Backlog # {} /\ \A f \in Fds : Held(f)
    BY DEF StoppedOK, OutOfFds, FreeFds
  <2>2. MaxFd < Cardinality(Conns) + Cardinality(Workers)
    BY <2>1, HeldBound DEF Kept
  <2>3. /\ MaxFd \in Nat
        /\ Cardinality(Conns) \in Nat /\ Cardinality(Workers) \in Nat
    BY FS_CardinalityType, SocketsAssumption DEF Finite, SocketsAssumption
  <2> QED
    BY <2>2, <2>3
<1> HIDE DEF Inv
<1> QED
  BY <1>1, <1>2, <1>3, PTL DEF Spec

-----------------------------------------------------------------------------
(***************************************************************************)
(* The messages: the proxy implements Relay, and a worker answers the      *)
(* connection that asked.                                                  *)
(***************************************************************************)

(* All numbers of a sequence are below n.                                  *)
Below(s, n) == \A i \in 1..Len(s) : s[i] < n

(* A connection that nothing was done for yet, and one whose forwarded     *)
(* requests were all answered.                                             *)
Fresh(c)    == forwarded[c] = <<>> /\ tx[c] = <<>>
Balanced(c) == forwarded[c] = absAnswered[c] /\ ~Acked(c)

(* What waits in a client's socket are later requests of that client than  *)
(* any that was forwarded.                                                 *)
RxOK(c) == /\ Below(forwarded[c], asked[c] + 1)
           /\ \A i \in 1..Len(rx[c]) :
                /\ rx[c][i].conn = c /\ rx[c][i].verb # "ACK"
                /\ rx[c][i].seq <= asked[c]
                /\ Below(forwarded[c], rx[c][i].seq)

(* A request of c that may be forwarded now, or later.                     *)
Fits(c, m) == /\ m.verb # "ACK"
              /\ m.seq <= asked[c]
              /\ Below(forwarded[c], m.seq)
              /\ \A i \in 1..Len(rx[c]) : m.seq < rx[c][i].seq

(* Where a worker is with the connection it handles.                       *)
AtStart(w)   == pc[w] = "read" => Fresh(fdt[hfd[w]])
AtTunnel(w)  == pc[w] \in {"tunnel_connect", "tunnel_ok"} =>
                  msg[w].conn = fdt[hfd[w]] /\ Fresh(fdt[hfd[w]])
AtRequest(w) == pc[w] \in {"connect", "send"} =>
                  /\ msg[w].conn = fdt[hfd[w]]
                  /\ Fits(fdt[hfd[w]], msg[w])
                  /\ Balanced(fdt[hfd[w]])
AtReply(w)   == pc[w] \in {"await", "reply"} =>
                  /\ msg[w].conn = fdt[hfd[w]] /\ msg[w].verb # "ACK"
                  /\ forwarded[fdt[hfd[w]]] = Append(absAnswered[fdt[hfd[w]]], msg[w].seq)
                  /\ ~Acked(fdt[hfd[w]])
AtNext(w)    == pc[w] = "next" \/ (pc[w] = "close_up" /\ status[w] = "GOOD" /\ proc = "up") =>
                  Balanced(fdt[hfd[w]])
ServingOK(w) == AtStart(w) /\ AtTunnel(w) /\ AtRequest(w) /\ AtReply(w) /\ AtNext(w)

(* Upstream there is only the request that waits for its response.         *)
Echoes(s, m) == \A i \in 1..Len(s) : s[i].conn = m.conn /\ s[i].seq = m.seq /\ s[i].verb # "ACK"
UpOK(w) == /\ pc[w] = "send" => rx[w] = <<>> /\ tx[w] = <<>>
           /\ pc[w] = "await" => Echoes(rx[w], msg[w]) /\ Echoes(tx[w], msg[w])

(* Nothing was done for a connection that no worker took yet.              *)
FreshOK == /\ \A c \in Conns \ Accepted : Fresh(c)
           /\ \A i \in 1..Len(queue) : Fresh(fdt[queue[i]])

Rel == /\ \A c \in Conns : RxOK(c)
       /\ FreshOK
       /\ \A w \in Workers : ServingOK(w) /\ UpOK(w)

RelInv == Owned /\ (~stray => Rel)
-----------------------------------------------------------------------------
(* What steps do with messages.                                            *)

(* A client's socket keeps what arrived, loses all of it, or gets the next *)
(* request.                                                                *)
RxMoves(c) ==
  \/ rx'[c] \in {rx[c], <<>>} /\ asked'[c] = asked[c]
  \/ \E m \in Messages : /\ rx'[c] = Append(rx[c], m)
                         /\ m.conn = c /\ m.verb # "ACK" /\ m.seq = asked[c] + 1
                         /\ asked'[c] = asked[c] + 1

(* The operations on descriptors empty a socket or leave it alone.         *)
LEMMA RxOps ==
  ASSUME Typed, NEW s \in Socks
  PROVE  /\ \A f : Consume(f) => rx'[s] \in {rx[s], <<>>}
         /\ \A f : Close(f) => rx'[s] \in {rx[s], <<>>} /\ tx'[s] \in {tx[s], <<>>}
         /\ \A w \in Workers : ConnectOk(w) \/ Leak(w) =>
                                rx'[s] \in {rx[s], <<>>} /\ tx'[s] \in {tx[s], <<>>}
BY DEF Consume, Close, ConnectOk, Leak, Typed, NetTypeOK

(* Every step moves a client's requests so.                                *)
LEMMA RxSteps ==
  ASSUME Typed, [Next]_vars, NEW c \in Conns PROVE RxMoves(c)
<1> USE DEF RxMoves
<1> c \in Socks
  BY DEF Socks
<1>1. CASE UNCHANGED vars
  BY <1>1 DEF vars, netVars
<1>2. ASSUME NEW w \in Workers, NormalStep(w) \/ TunnelStep(w) \/ TunnelTimeout(w) \/ TunnelDies(w)
      PROVE  RxMoves(c)
  <2>1. asked' = asked
    BY <1>2 DEF NormalStep, TunnelStep, StartNormal, RejectFirst, ReadFirst, FirstEof,
       CloseClient, Connect, ConnectFails, Send, GetResponse, RejectResponse, ResponseEof,
       Response, ResponseThrows, Throws, Reply, CloseUp, ReadNext, RejectNext, NextEof,
       NextRequest, ReadThrows, StartTunnel, TunnelConnect, TunnelConnectFails, TunnelOk,
       TunnelEof, TunnelTimeout, TunnelDies, TunnelCloseClient, TunnelCloseUp, Return,
       Step, Finish
  <2>2. \/ rx' = rx \/ (\E f \in {hfd[w], cfd[w]} : Consume(f) \/ Close(f))
        \/ ConnectOk(w) \/ Leak(w)
    BY <1>2 DEF NormalStep, TunnelStep, StartNormal, RejectFirst, ReadFirst, FirstEof,
       CloseClient, Connect, ConnectFails, ConnectFail, Send, GetResponse, RejectResponse,
       ResponseEof, Response, ResponseThrows, Reply, CloseUp, ReadNext, RejectNext, NextEof,
       ReadThrows, StartTunnel, TunnelConnect, TunnelConnectFails, TunnelOk,
       TunnelEof, TunnelTimeout, TunnelDies, TunnelCloseClient, TunnelCloseUp
  <2> QED
    BY <2>1, <2>2, RxOps
<1>3. ASSUME NEW w \in Workers, TakeNext(w) \/ ServerStep(w) PROVE RxMoves(c)
  BY <1>3, Kinds DEF TakeNext, Take, netVars, ServerStep, ServerReply, Typed, NetTypeOK
<1>4. CASE ListenerStep \/ ListenerFails
  BY <1>4 DEF ListenerStep, ListenerFails, ListenerNext, AcceptRunsOut, AcceptFails, Accept
<1>5. CASE Environment
  <2>1. ASSUME NEW s \in Socks, PeerNext(s) PROVE RxMoves(c)
    BY <2>1 DEF PeerNext, PeerCloses, PeerResets, Typed, NetTypeOK
  <2>2. ASSUME NEW d \in Conns, Forget(d) \/ ClientConnect(d) PROVE RxMoves(c)
    BY <2>2 DEF Forget, ClientConnect
  <2>3. ASSUME NEW d \in Conns, NEW v \in Verbs, NEW p \in Ports, ClientSend(d, v, p)
        PROVE  RxMoves(c)
    <3> PICK m : m = [conn |-> d, seq |-> asked[d] + 1, port |-> p, verb |-> v]
      OBVIOUS
    <3>1. m \in Messages /\ asked'[d] = asked[d] + 1
      BY <2>3, SendTyped DEF Typed
    <3>2. m.conn = d /\ m.seq = asked[d] + 1 /\ m.verb = v /\ v # "ACK"
      BY SocketsAssumption DEF SocketsAssumption
    <3>3. rx' = [rx EXCEPT ![d] = Append(@, m)]
      BY <2>3 DEF ClientSend
    <3>4. asked' = [asked EXCEPT ![d] = @ + 1]
      BY <2>3 DEF ClientSend
    <3>5. CASE c = d
      <4>1. rx'[c] = Append(rx[c], m)
        BY <3>3, <3>5 DEF Typed, NetTypeOK
      <4> QED
        BY <3>1, <3>2, <3>5, <4>1
    <3>6. CASE c # d
      BY <3>3, <3>4, <3>6 DEF Typed, NetTypeOK
    <3> QED
      BY <3>5, <3>6
  <2> QED
    BY <1>5, <2>1, <2>2, <2>3 DEF Environment, ClientNext
<1> QED
  BY <1>1, <1>2, <1>3, <1>4, <1>5 DEF Next, WorkerStep

(* What a step leaves of a worker that does not take it.                   *)
Rests(v) == /\ pc'[v] = pc[v] /\ hfd'[v] = hfd[v] /\ cfd'[v] = cfd[v]
            /\ msg'[v] = msg[v] /\ status'[v] = status[v]

Moves(w) == TakeNext(w) \/ NormalStep(w) \/ TunnelStep(w) \/ TunnelTimeout(w) \/ TunnelDies(w)
Writes(w) == Send(w) \/ Reply(w) \/ TunnelOk(w)

(* One worker moves at a time.                                             *)
LEMMA OthersRest ==
  ASSUME Typed, NEW w \in Workers, Moves(w), NEW v \in Workers, v # w PROVE Rests(v)
<1> USE DEF Rests, Typed, WorkerTypeOK, Step, Return, Finish, SetMsg, SetStatus, NewClient,
            upVars, locals, history
<1>1. CASE TakeNext(w) \/ TunnelTimeout(w) \/ TunnelDies(w)
  BY <1>1 DEF TakeNext, Take, TunnelTimeout, TunnelDies
<1>2. CASE StartNormal(w) \/ StartTunnel(w) \/ RejectFirst(w)
  BY <1>2 DEF StartNormal, StartTunnel, RejectFirst, ReadFirst
<1>3. CASE ReadNext(w) \/ RejectNext(w) \/ NextEof(w) \/ FirstEof(w)
  BY <1>3 DEF ReadNext, RejectNext, NextEof, NextRequest, FirstEof
<1>4. CASE Connect(w) \/ ConnectFails(w) \/ Send(w) \/ Reply(w)
  BY <1>4 DEF Connect, ConnectFails, Send, Reply
<1>5. CASE GetResponse(w) \/ RejectResponse(w) \/ ResponseEof(w)
  BY <1>5 DEF GetResponse, RejectResponse, ResponseEof, Response
<1>6. CASE CloseClient(w) \/ CloseUp(w) \/ TunnelCloseUp(w) \/ TunnelCloseClient(w)
  BY <1>6 DEF CloseClient, CloseUp, TunnelCloseUp, TunnelCloseClient
<1>7. CASE ResponseThrows(w) \/ ReadThrows(w, "read") \/ ReadThrows(w, "next")
  BY <1>7 DEF ResponseThrows, ReadThrows, Throws
<1>8. CASE TunnelConnect(w) \/ TunnelConnectFails(w) \/ TunnelOk(w) \/ TunnelEof(w)
  BY <1>8 DEF TunnelConnect, TunnelConnectFails, TunnelOk, TunnelEof
<1> QED
  BY <1>1, <1>2, <1>3, <1>4, <1>5, <1>6, <1>7, <1>8 DEF Moves, NormalStep, TunnelStep

(* All other steps leave all workers where they are.                       *)
LEMMA WhoMoves ==
  ASSUME [Next]_vars
  PROVE  \/ \E w \in Workers : Moves(w)
         \/ /\ \A v \in Workers : Rests(v)
            /\ UNCHANGED forwarded
            /\ \/ ListenerStep \/ ListenerFails \/ Environment
               \/ (\E w \in Workers : ServerStep(w)) \/ UNCHANGED vars
<1> USE DEF Rests, vars, netVars, dispatchVars, upVars, locals, history
<1>1. CASE ListenerStep \/ ListenerFails
  BY <1>1 DEF ListenerStep, ListenerFails, ListenerNext, AcceptRunsOut, AcceptFails, Accept
<1>2. CASE Environment
  BY <1>2 DEF Environment, PeerNext, Forget
<1>3. ASSUME NEW w \in Workers, ServerStep(w) PROVE \A v \in Workers : Rests(v) /\ UNCHANGED forwarded
  BY <1>3 DEF ServerStep
<1>4. CASE UNCHANGED vars
  BY <1>4
<1> QED
  BY <1>1, <1>2, <1>3, <1>4 DEF Next, WorkerStep, Moves

(* What was written to clients and forwarded changes only by writes.       *)
DataStill == UNCHANGED forwarded /\ \A c \in Conns : tx'[c] = tx[c]

(* An upstream socket keeps what it has or loses it, but for the server's  *)
(* answer.                                                                 *)
UpMoves(v) == \/ rx'[v] \in {rx[v], <<>>} /\ tx'[v] \in {tx[v], <<>>}
              \/ ServerReply(v)

(* Sockets to clients are written only by Reply and TunnelOk.              *)
LEMMA CloseKeepsTx ==
  ASSUME Typed, NEW c \in Conns
  PROVE  /\ \A f : Close(f) => tx'[c] = tx[c]
         /\ \A w \in Workers : ConnectOk(w) \/ Leak(w) => tx'[c] = tx[c]
BY Kinds DEF Close, ConnectOk, Leak, Typed, NetTypeOK

(* All steps but the three writes.                                         *)
LEMMA StillData ==
  ASSUME Typed, [Next]_vars, \A w \in Workers : ~Writes(w)
  PROVE  DataStill /\ \A v \in Workers : UpMoves(v)
<1>1. ASSUME NEW w \in Workers, NormalStep(w) \/ TunnelStep(w) \/ TunnelTimeout(w) \/ TunnelDies(w)
      PROVE  DataStill /\ \A v \in Workers : UpMoves(v)
  <2>1. forwarded' = forwarded
    BY <1>1 DEF Writes, NormalStep, TunnelStep, StartNormal, RejectFirst, ReadFirst, FirstEof,
       CloseClient, Connect, ConnectFails, GetResponse, RejectResponse, ResponseEof,
       Response, ResponseThrows, Throws, CloseUp, ReadNext, RejectNext, NextEof,
       NextRequest, ReadThrows, StartTunnel, TunnelConnect, TunnelConnectFails,
       TunnelEof, TunnelTimeout, TunnelDies, TunnelCloseClient, TunnelCloseUp, Return,
       upVars, history
  <2>2. \/ UNCHANGED <<rx, tx>>
        \/ (\E f \in {hfd[w], cfd[w]} : (Consume(f) /\ UNCHANGED tx) \/ Close(f))
        \/ ConnectOk(w) \/ Leak(w)
    BY <1>1 DEF Writes, NormalStep, TunnelStep, StartNormal, RejectFirst, ReadFirst, FirstEof,
       CloseClient, Connect, ConnectFails, ConnectFail, GetResponse, RejectResponse,
       ResponseEof, Response, ResponseThrows, CloseUp, ReadNext, RejectNext, NextEof,
       NextRequest, ReadThrows, StartTunnel, TunnelConnect, TunnelConnectFails,
       TunnelEof, TunnelTimeout, TunnelDies, TunnelCloseClient, TunnelCloseUp
  <2>3. \A c \in Conns : tx'[c] = tx[c]
    BY <2>2, CloseKeepsTx
  <2>4. \A v \in Workers : UpMoves(v)
    BY <2>2, RxOps, Kinds DEF UpMoves
  <2> QED
    BY <2>1, <2>3, <2>4 DEF DataStill
<1>2. CASE (\E w \in Workers : TakeNext(w)) \/ ListenerStep \/ ListenerFails \/ UNCHANGED vars
  <2>1. UNCHANGED <<forwarded, rx, tx>>
    BY <1>2 DEF TakeNext, Take, ListenerStep, ListenerFails, ListenerNext, AcceptRunsOut,
        AcceptFails, Accept, vars, netVars,
                upVars, history
  <2> QED
    BY <2>1 DEF DataStill, UpMoves
<1>3. ASSUME NEW w \in Workers, ServerStep(w)
      PROVE  DataStill /\ \A v \in Workers : UpMoves(v)
  <2>1. forwarded' = forwarded /\ \A c \in Conns : tx'[c] = tx[c]
    BY <1>3, Kinds DEF ServerStep, ServerReply, upVars, history, Typed, NetTypeOK
  <2>2. \A v \in Workers : UpMoves(v)
    BY <1>3, Kinds DEF ServerStep, UpMoves, ServerReply, Typed, NetTypeOK
  <2> QED
    BY <2>1, <2>2 DEF DataStill
<1>4. CASE Environment
  <2>1. UNCHANGED <<forwarded, tx>>
    BY <1>4 DEF Environment, PeerNext, PeerCloses, PeerResets, Forget, ClientNext,
                ClientConnect, ClientSend, upVars, history
  <2>2. \A v \in Workers : rx'[v] \in {rx[v], <<>>}
    <3>1. ASSUME NEW s \in Socks, PeerNext(s) PROVE \A v \in Workers : rx'[v] \in {rx[v], <<>>}
      BY <3>1, Kinds DEF PeerNext, PeerCloses, PeerResets, Typed, NetTypeOK
    <3>2. ASSUME NEW c \in Conns, Forget(c) PROVE rx' = rx
      BY <3>2 DEF Forget
    <3>3. ASSUME NEW c \in Conns, ClientNext(c) PROVE \A v \in Workers : rx'[v] = rx[v]
      <4>1. ASSUME ClientConnect(c) PROVE rx' = rx
        BY <4>1 DEF ClientConnect
      <4>2. ASSUME NEW v \in Verbs, NEW p \in Ports, ClientSend(c, v, p)
            PROVE  \A u \in Workers : rx'[u] = rx[u]
        BY <4>2, Kinds DEF ClientSend, Typed, NetTypeOK
      <4> QED
        BY <3>3, <4>1, <4>2 DEF ClientNext
    <3> QED
      BY <1>4, <3>1, <3>2, <3>3 DEF Environment
  <2> QED
    BY <2>1, <2>2 DEF DataStill, UpMoves
<1> QED
  BY <1>1, <1>2, <1>3, <1>4 DEF Next, WorkerStep

-----------------------------------------------------------------------------
(* What a step that is not about a connection leaves true of it.           *)

(* After the process ended nothing happens.                                *)
LEMMA EndsForGood == ASSUME [Next]_vars PROVE proc = "up" \/ UNCHANGED vars
<1>1. ASSUME NEW w \in Workers, Moves(w) PROVE proc = "up"
  BY <1>1 DEF Moves, NormalStep, TunnelStep, StartNormal, RejectFirst, ReadFirst, FirstEof,
     CloseClient, Connect, ConnectFails, Send, GetResponse, RejectResponse, ResponseEof,
     Response, ResponseThrows, Throws, Reply, CloseUp, ReadNext, RejectNext, NextEof,
     NextRequest, ReadThrows, StartTunnel, TunnelConnect, TunnelConnectFails, TunnelOk,
     TunnelEof, TunnelTimeout, TunnelDies, TunnelCloseClient, TunnelCloseUp, Return,
     Step, Finish, TakeNext, Take
<1>2. CASE ListenerStep \/ ListenerFails \/ Environment \/ \E w \in Workers : ServerStep(w)
  BY <1>2 DEF ListenerStep, ListenerFails, ListenerNext, AcceptRunsOut,
        AcceptFails, Accept, Environment,
              ServerStep
<1> QED
  BY <1>1, <1>2, WhoMoves

(* A number that stays a client's stays the same client's.                 *)
LEMMA ConnStays ==
  ASSUME Kept, [Next]_vars, NEW f \in Fds, fdt[f] \in Conns
  PROVE  fdt'[f] = fdt[f] \/ fdt'[f] \notin Conns
<1> USE DEF Kept
<1> DEFINE Stays == fdt'[f] = fdt[f] \/ fdt'[f] \notin Conns
<1>1. ASSUME FreeFds # {}, NEW x, fdt' = [fdt EXCEPT ![Lowest] = x] PROVE Stays
  BY <1>1, LowestFree, Kinds DEF Typed, NetTypeOK
<1>2. CASE Still
  BY <1>2 DEF Still
<1>3. CASE IsRefused
  BY <1>1, <1>3 DEF IsRefused, ConnectFail
<1>4. ASSUME NEW d \in Conns, Accepts(d) PROVE Stays
  BY <1>1, <1>4 DEF Accepts, Accept
<1>5. ASSUME NEW w \in Workers, Takes(w) PROVE Stays
  BY <1>5 DEF Takes, Take, netVars
<1>6. ASSUME NEW w \in Workers, Connects(w) PROVE Stays
  BY <1>1, <1>6 DEF Connects, ConnectOk
<1>7. ASSUME NEW w \in Workers, LetsGo(w) \/ HangsUp(w) PROVE Stays
  BY <1>7, CloseFds, Kinds DEF LetsGo, HangsUp, Typed
<1>8. ASSUME NEW w \in Workers, LeavesIt(w) PROVE Stays
  BY <1>8, Kinds DEF LeavesIt, Leak
<1> QED
  BY <1>2, <1>3, <1>4, <1>5, <1>6, <1>7, <1>8, FdSteps

(* What was answered depends on what was written.                          *)
LEMMA AnsweredFrame ==
  ASSUME NEW c \in Conns, tx'[c] = tx[c]
  PROVE  absAnswered'[c] = absAnswered[c] /\ (Acked(c)' <=> Acked(c))
BY DEF absAnswered, Acked

(* The answers are a table by connection.                                  *)
LEMMA AnsweredTable ==
  /\ absAnswered = [c \in Conns |-> absAnswered[c]]
  /\ absAnswered' = [c \in Conns |-> absAnswered'[c]]
BY DEF absAnswered

(* So do a fresh connection and one that is balanced.                      *)
LEMMA BalancedFrame ==
  ASSUME NEW c \in Conns, tx'[c] = tx[c], forwarded'[c] = forwarded[c]
  PROVE  Fresh(c) = Fresh(c)' /\ Balanced(c) = Balanced(c)'
BY AnsweredFrame DEF Fresh, Balanced

(* Later requests have higher numbers.                                     *)
LEMMA RxFrame ==
  ASSUME Typed, NEW c \in Conns, RxMoves(c), forwarded'[c] = forwarded[c]
  PROVE  /\ RxOK(c) => RxOK(c)'
         /\ \A m \in Messages : Fits(c, m) => Fits(c, m)'
<1>1. /\ forwarded[c] \in Seq(1..MaxMsgs) /\ asked[c] \in Nat /\ rx[c] \in Seq(Messages)
      /\ MaxMsgs \in Nat
  BY SocketsAssumption DEF SocketsAssumption, Typed, WorkerTypeOK, NetTypeOK, Socks
<1>2. /\ \A i \in 1..Len(forwarded[c]) : forwarded[c][i] \in Nat
      /\ \A i \in 1..Len(rx[c]) : rx[c][i].seq \in Nat
      /\ \A m \in Messages : m.seq \in Nat
  <2>1. \A m \in Messages : m.seq \in Nat
    BY <1>1 DEF Messages
  <2> QED
    BY <1>1, <2>1
<1>3. CASE rx'[c] \in {rx[c], <<>>} /\ asked'[c] = asked[c]
  <2>1. RxOK(c) => RxOK(c)'
    BY <1>1, <1>3 DEF RxOK, Below
  <2>2. \A m \in Messages : Fits(c, m) => Fits(c, m)'
    BY <1>1, <1>3 DEF Fits, Below
  <2> QED
    BY <2>1, <2>2
<1>4. ASSUME NEW n \in Messages, rx'[c] = Append(rx[c], n), n.conn = c, n.verb # "ACK",
             n.seq = asked[c] + 1, asked'[c] = asked[c] + 1
      PROVE  /\ RxOK(c) => RxOK(c)'
             /\ \A m \in Messages : Fits(c, m) => Fits(c, m)'
  <2>1. /\ Len(rx'[c]) = Len(rx[c]) + 1 /\ Len(rx[c]) \in Nat
        /\ rx'[c][Len(rx[c]) + 1] = n
        /\ \A i \in 1..Len(rx[c]) : rx'[c][i] = rx[c][i]
        /\ \A i \in 1..Len(rx'[c]) : i \in 1..Len(rx[c]) \/ i = Len(rx[c]) + 1
    BY ONLY <1>1, <1>4
  <2>2. RxOK(c) => RxOK(c)'
    <3> SUFFICES ASSUME RxOK(c) PROVE RxOK(c)'
      OBVIOUS
    <3>1. Below(forwarded'[c], asked'[c] + 1)
      <4>1. Below(forwarded[c], asked[c] + 1)
        BY DEF RxOK
      <4> QED
        BY ONLY <1>1, <1>2, <1>4, <4>1, forwarded'[c] = forwarded[c] DEF Below
    <3>2. \A i \in 1..Len(rx'[c]) : /\ rx'[c][i].conn = c /\ rx'[c][i].verb # "ACK"
                                    /\ rx'[c][i].seq <= asked'[c]
      BY <1>1, <1>2, <1>4, <2>1 DEF RxOK
    <3>3. \A i \in 1..Len(rx'[c]) : Below(forwarded'[c], rx'[c][i].seq)
      BY <1>1, <1>2, <1>4, <2>1 DEF RxOK
    <3> QED
      BY <3>1, <3>2, <3>3 DEF RxOK
  <2>3. ASSUME NEW m \in Messages, Fits(c, m) PROVE Fits(c, m)'
    BY <1>1, <1>2, <1>4, <2>1, <2>3 DEF Fits
  <2> QED
    BY <2>2, <2>3
<1> QED
  BY <1>3, <1>4 DEF RxMoves

(* A worker at rest, when its connection is left alone.                    *)
LEMMA ServingFrame ==
  ASSUME Typed, NEW v \in Workers, NEW c \in Conns, ServingOK(v), Rests(v),
         fdt[hfd[v]] = c, fdt'[hfd[v]] = c,
         RxMoves(c), forwarded'[c] = forwarded[c], tx'[c] = tx[c],
         proc' = "up" => proc = "up"
  PROVE  ServingOK(v)'
<1>1. /\ pc'[v] = pc[v] /\ msg'[v] = msg[v] /\ status'[v] = status[v]
      /\ fdt'[hfd'[v]] = c
  BY DEF Rests
<1>2. Fresh(c) = Fresh(c)' /\ Balanced(c) = Balanced(c)'
  BY BalancedFrame
<1>3. absAnswered'[c] = absAnswered[c] /\ (Acked(c)' <=> Acked(c))
  BY AnsweredFrame
<1>4. AtStart(v)' /\ AtTunnel(v)' /\ AtNext(v)'
  BY <1>1, <1>2 DEF ServingOK, AtStart, AtTunnel, AtNext
<1>5. AtReply(v)'
  BY <1>1, <1>3 DEF ServingOK, AtReply
<1>6. AtRequest(v)'
  <2> SUFFICES ASSUME pc[v] \in {"connect", "send"} PROVE AtRequest(v)'
    BY <1>1 DEF AtRequest
  <2> PICK m : m = msg[v]
    OBVIOUS
  <2>1. m \in Messages
    BY DEF Typed, MsgHere, HasMsg
  <2>2. m.conn = c /\ Fits(c, m) /\ Balanced(c)
    BY DEF ServingOK, AtRequest
  <2>3. Fits(c, m)'
    BY <2>1, <2>2, RxFrame
  <2> QED
    BY <1>1, <1>2, <2>2, <2>3 DEF AtRequest
<1> QED
  BY <1>4, <1>5, <1>6 DEF ServingOK

(* Nothing was done for a connection by the end of a step.                 *)
StaysFresh(c) == forwarded'[c] = <<>> /\ tx'[c] = <<>>

(* What nobody took stays fresh as long as only what workers handle is     *)
(* written to.                                                             *)
LEMMA FreshStep ==
  ASSUME Owned, Owned', ~stray, ~stray', [Next]_vars, FreshOK,
         \A c \in Conns : \/ forwarded'[c] = forwarded[c] /\ tx'[c] = tx[c]
                          \/ \E w \in Workers : HoldsClient(w) /\ fdt[hfd[w]] = c
  PROVE  FreshOK'
<1>1. Kept /\ Exclusive /\ Exclusive'
  BY DEF Owned
<1>2. ASSUME NEW c \in Conns, Fresh(c),
             \A w \in Workers : HoldsClient(w) => fdt[hfd[w]] # c
      PROVE  Fresh(c)'
  BY <1>2, BalancedFrame
<1>3. ASSUME NEW c \in Conns \ Accepted PROVE Fresh(c)'
  <2>1. \A f \in Fds : fdt[f] # c
    BY <1>3 DEF Accepted, Open
  <2> QED
    BY <1>1, <1>2, <1>3, <2>1 DEF FreshOK, Exclusive, HandlesConn
<1>4. \A c \in Conns \ Accepted' : Fresh(c)'
  BY <1>1, <1>3, AcceptedStays
<1>5. ASSUME NEW i \in 1..Len(queue), fdt'[queue[i]] \in Conns PROVE StaysFresh(fdt'[queue[i]])
  <2> PICK c : c = fdt[queue[i]]
    OBVIOUS
  <2>1. queue[i] \in Fds /\ c \in Conns /\ Fresh(c)
    BY <1>1 DEF Kept, Typed, WorkerTypeOK, Exclusive, QueuedConns, FreshOK
  <2>2. fdt'[queue[i]] = c
    BY <1>1, <1>5, <2>1, ConnStays
  <2>3. \A w \in Workers : HoldsClient(w) => fdt[hfd[w]] # c
    BY <1>1, <2>1, Kinds DEF Kept, OneFd, Exclusive, HandlesConn, HandlesTook
  <2>4. Fresh(c)'
    BY <1>2, <2>1, <2>3
  <2> QED
    BY <2>2, <2>4 DEF Fresh, StaysFresh
<1>6. \A i \in 1..Len(queue') : fdt'[queue'[i]] \in Conns
  BY <1>1 DEF Exclusive, QueuedConns
<1>7. ASSUME NEW i \in 1..Len(queue') PROVE StaysFresh(fdt'[queue'[i]])
  <2>1. queue \in Seq(Fds) /\ Len(queue) \in Nat
    BY <1>1 DEF Kept, Typed, WorkerTypeOK
  <2>2. CASE queue' = queue
    BY <1>5, <1>6, <2>2 DEF Fresh, StaysFresh
  <2>3. ASSUME NEW w \in Workers, Takes(w) PROVE StaysFresh(fdt'[queue'[i]])
    <3>1. i + 1 \in 1..Len(queue) /\ queue'[i] = queue[i + 1]
      BY <2>1, <2>3 DEF Takes, Take
    <3> QED
      BY <1>5, <1>6, <3>1 DEF Fresh, StaysFresh
  <2>4. ASSUME NEW c \in Conns, Accepts(c) PROVE StaysFresh(fdt'[queue'[i]])
    <3> PICK low : low = Lowest
      OBVIOUS
    <3>1. low \in Fds /\ queue' = Append(queue, low) /\ fdt' = [fdt EXCEPT ![low] = c]
      BY <2>4, LowestFree DEF Accepts, Accept
    <3>2. CASE i \in 1..Len(queue)
      <4>1. queue'[i] = queue[i]
        BY <2>1, <3>1, <3>2
      <4> QED
        BY <1>5, <1>6, <3>2, <4>1 DEF Fresh, StaysFresh
    <3>3. CASE i = Len(queue) + 1
      <4>1. queue'[i] = low
        BY <2>1, <3>1, <3>3
      <4>2. fdt'[queue'[i]] = c
        BY <1>1, <3>1, <4>1 DEF Kept, Typed, NetTypeOK
      <4>3. c \notin Accepted
        BY <2>4 DEF Accepts, Accept, Backlog, Accepted
      <4> QED
        BY <1>3, <4>2, <4>3 DEF Fresh, StaysFresh
    <3>4. Len(queue') = Len(queue) + 1
      BY <2>1, <3>1
    <3> QED
      BY <2>1, <3>2, <3>3, <3>4
  <2> QED
    BY <1>1, <2>2, <2>3, <2>4, FdSteps
       DEF Kept, Still, IsRefused, Connects, LetsGo, HangsUp, LeavesIt
<1> QED
  BY <1>4, <1>7 DEF FreshOK, Fresh, StaysFresh

-----------------------------------------------------------------------------
(* The worker that moves.                                                  *)

(* It handles a connection, and the same one afterwards unless it closed   *)
(* it.                                                                     *)
LEMMA SameConn ==
  ASSUME Owned, Owned', ~stray, ~stray', [Next]_vars,
         NEW v \in Workers, HoldsClient(v)
  PROVE  /\ hfd[v] \in Fds /\ fdt[hfd[v]] \in Conns
         /\ HoldsClient(v)' /\ hfd'[v] = hfd[v] => fdt'[hfd[v]] = fdt[hfd[v]]
<1>1. Kept /\ Exclusive /\ Exclusive'
  BY DEF Owned
<1>2. hfd[v] \in Fds /\ fdt[hfd[v]] \in Conns
  BY <1>1 DEF Exclusive, HandlesConn
<1>3. HoldsClient(v)' => fdt'[hfd'[v]] \in Conns
  BY <1>1 DEF Exclusive, HandlesConn
<1> QED
  BY <1>1, <1>2, <1>3, ConnStays

(* The places of a handler at which it promises nothing.                   *)
LEMMA NoPromise ==
  ASSUME NEW w \in Workers,
         \/ pc'[w] \in {"remove", "close", "tunnel", "tunnel_close", "tunnel_close_up"}
         \/ pc'[w] = "close_up" /\ (status'[w] # "GOOD" \/ proc' # "up")
  PROVE  ServingOK(w)'
BY DEF ServingOK, AtStart, AtTunnel, AtRequest, AtReply, AtNext

(* It read a request.                                                      *)
LEMMA ReadingStep ==
  ASSUME Owned, Owned', ~stray, ~stray', Rel, [Next]_vars, DataStill, NEW w \in Workers,
         StartNormal(w) \/ StartTunnel(w) \/ ReadNext(w)
  PROVE  ServingOK(w)'
<1> PICK c : c = fdt[hfd[w]]
  OBVIOUS
<1> PICK m : m = Head(rx[c])
  OBVIOUS
<1>1. Typed
  BY DEF Owned, Kept
<1>2. HoldsClient(w) /\ HoldsClient(w)' /\ hfd'[w] = hfd[w]
  BY <1>1 DEF StartNormal, StartTunnel, ReadFirst, ReadNext, NextRequest, Step, HoldsClient,
              HandlerLabels, Typed, WorkerTypeOK
<1>3. c \in Conns /\ fdt'[hfd'[w]] = c
  BY <1>2, SameConn
<1>4. rx[c] # <<>> /\ rx'[c] = <<>> /\ asked'[c] = asked[c] /\ msg'[w] = m
  BY <1>1, <1>3, Kinds DEF StartNormal, StartTunnel, ReadFirst, ReadNext, NextRequest, Step,
              ReadsMessage, Consume, FirstOf, SetMsg, Typed, NetTypeOK, WorkerTypeOK
<1>5. m.conn = c /\ m.verb # "ACK" /\ m.seq <= asked[c] /\ Below(forwarded[c], m.seq)
  <2>1. rx[c] \in Seq(Messages)
    BY <1>1, <1>3, Kinds DEF Typed, NetTypeOK
  <2>2. 1 \in 1..Len(rx[c]) /\ m = rx[c][1]
    BY <1>4, <2>1
  <2> QED
    BY <1>3, <2>2 DEF Rel, RxOK
<1>6. Fits(c, m)'
  <2>1. forwarded'[c] = forwarded[c]
    BY DEF DataStill
  <2> QED
    BY <1>4, <1>5, <2>1 DEF Fits, Below
<1>7. Fresh(c) = Fresh(c)' /\ Balanced(c) = Balanced(c)'
  BY <1>3, BalancedFrame DEF DataStill
<1>8. Fresh(c) => Balanced(c)
  <2> SUFFICES ASSUME tx[c] = <<>> PROVE absAnswered[c] = <<>> /\ ~Acked(c)
    BY DEF Fresh, Balanced
  <2> QED
    BY <1>3 DEF absAnswered, Acked
<1>9. CASE StartNormal(w)
  <2>1. pc[w] = "read" /\ pc'[w] = "connect"
    BY <1>1, <1>9 DEF StartNormal, ReadFirst, Step, Typed, WorkerTypeOK
  <2>2. Balanced(c)'
    BY <1>7, <1>8, <2>1 DEF Rel, ServingOK, AtStart
  <2> QED
    BY <1>3, <1>4, <1>5, <1>6, <2>1, <2>2
    DEF ServingOK, AtStart, AtTunnel, AtRequest, AtReply, AtNext
<1>10. CASE StartTunnel(w)
  <2>1. pc[w] = "read" /\ pc'[w] = "tunnel_connect"
    BY <1>1, <1>10 DEF StartTunnel, ReadFirst, Step, Typed, WorkerTypeOK
  <2>2. Fresh(c)'
    BY <1>7, <2>1 DEF Rel, ServingOK, AtStart
  <2> QED
    BY <1>3, <1>4, <1>5, <2>1, <2>2
    DEF ServingOK, AtStart, AtTunnel, AtRequest, AtReply, AtNext
<1>11. CASE ReadNext(w)
  <2>1. pc[w] = "next" /\ pc'[w] = "connect"
    BY <1>1, <1>11 DEF ReadNext, NextRequest, Step, Typed, WorkerTypeOK
  <2>2. Balanced(c)'
    BY <1>7, <2>1 DEF Rel, ServingOK, AtNext
  <2> QED
    BY <1>3, <1>4, <1>5, <1>6, <2>1, <2>2
    DEF ServingOK, AtStart, AtTunnel, AtRequest, AtReply, AtNext
<1> QED
  BY <1>9, <1>10, <1>11

(* It connected or failed to, got the response, or closed upstream.        *)
LEMMA WorkingStep ==
  ASSUME Owned, Owned', ~stray, ~stray', Rel, [Next]_vars, DataStill, NEW w \in Workers,
         \/ Connect(w) \/ ConnectFails(w) \/ TunnelConnect(w) \/ TunnelConnectFails(w)
         \/ GetResponse(w) \/ CloseUp(w)
  PROVE  ServingOK(w)'
<1> PICK c : c = fdt[hfd[w]]
  OBVIOUS
<1>1. Typed /\ ServingOK(w) /\ UpOK(w)
  BY DEF Owned, Kept, Rel
<1>2. HoldsClient(w) /\ HoldsClient(w)' /\ hfd'[w] = hfd[w]
  BY <1>1 DEF Connect, ConnectFails, TunnelConnect, TunnelConnectFails, GetResponse, Response,
              CloseUp, Step, HoldsClient, HandlerLabels, Typed, WorkerTypeOK
<1>3. c \in Conns /\ fdt'[hfd'[w]] = c
  BY <1>2, SameConn
<1>4. /\ Fresh(c) = Fresh(c)' /\ Balanced(c) = Balanced(c)'
      /\ absAnswered'[c] = absAnswered[c] /\ (Acked(c)' <=> Acked(c))
      /\ forwarded'[c] = forwarded[c]
  BY <1>3, BalancedFrame, AnsweredFrame DEF DataStill
<1>5. \A m \in Messages : Fits(c, m) => Fits(c, m)'
  BY <1>1, <1>3, <1>4, RxSteps, RxFrame
<1>6. CASE Connect(w) \/ ConnectFails(w)
  <2>1. pc[w] = "connect" /\ msg'[w] = msg[w]
    BY <1>6 DEF Connect, ConnectFails, Step
  <2>2. \/ pc'[w] \in {"connect", "send"}
        \/ pc'[w] = "close_up" /\ status'[w] = "ERRNO"
    BY <1>1, <1>6 DEF Connect, ConnectFails, Step, SetStatus, Typed, WorkerTypeOK
  <2> PICK m : m = msg[w]
    OBVIOUS
  <2>3. m \in Messages /\ m.conn = c /\ Fits(c, m) /\ Balanced(c)
    BY <1>1, <2>1 DEF ServingOK, AtRequest, Typed, MsgHere, HasMsg
  <2>4. Fits(c, m)' /\ Balanced(c)'
    BY <1>4, <1>5, <2>3
  <2> QED
    BY <1>3, <2>1, <2>2, <2>3, <2>4
    DEF ServingOK, AtStart, AtTunnel, AtRequest, AtReply, AtNext
<1>7. CASE TunnelConnect(w) \/ TunnelConnectFails(w)
  <2>1. /\ pc[w] = "tunnel_connect" /\ msg'[w] = msg[w]
        /\ pc'[w] \in {"tunnel_connect", "tunnel_ok"}
    BY <1>1, <1>7 DEF TunnelConnect, TunnelConnectFails, Step, locals, Typed, WorkerTypeOK
  <2>2. msg[w].conn = c /\ Fresh(c)'
    BY <1>1, <1>4, <2>1 DEF ServingOK, AtTunnel
  <2> QED
    BY <1>3, <2>1, <2>2 DEF ServingOK, AtStart, AtTunnel, AtRequest, AtReply, AtNext
<1>8. CASE GetResponse(w)
  <2>1. pc[w] = "await" /\ pc'[w] = "reply"
    BY <1>1, <1>8 DEF GetResponse, Response, Step, Typed, WorkerTypeOK
  <2>2. fdt[cfd[w]] = w
    BY <2>1 DEF Owned, Exclusive, UpOwn, HoldsUp
  <2>3. msg'[w] = rx[w][1] /\ 1 \in 1..Len(rx[w])
    <3>1. msg'[w] = Head(rx[w]) /\ rx[w] # <<>>
      BY <1>1, <1>8, <2>2
      DEF GetResponse, ReadsMessage, FirstOf, SetMsg, Typed, WorkerTypeOK
    <3>2. rx[w] \in Seq(Messages)
      BY <1>1, Kinds DEF Typed, NetTypeOK
    <3> QED
      BY <3>1, <3>2
  <2>4. msg'[w].conn = msg[w].conn /\ msg'[w].seq = msg[w].seq /\ msg'[w].verb # "ACK"
    BY <1>1, <2>1, <2>3 DEF UpOK, Echoes
  <2>5. /\ msg[w].conn = c /\ ~Acked(c)
        /\ forwarded[c] = Append(absAnswered[c], msg[w].seq)
    BY <1>1, <2>1 DEF ServingOK, AtReply
  <2> QED
    BY <1>3, <1>4, <2>1, <2>4, <2>5
    DEF ServingOK, AtStart, AtTunnel, AtRequest, AtReply, AtNext
<1>9. CASE CloseUp(w)
  <2>1. pc[w] = "close_up" /\ proc = "up"
    BY <1>9 DEF CloseUp, Step
  <2>2. \/ status[w] = "GOOD" /\ pc'[w] = "next"
        \/ pc'[w] = "close"
    BY <1>1, <1>9 DEF CloseUp, Step, Typed, WorkerTypeOK
  <2> QED
    BY <1>1, <1>3, <1>4, <2>1, <2>2, NoPromise
    DEF ServingOK, AtStart, AtTunnel, AtRequest, AtReply, AtNext
<1> QED
  BY <1>6, <1>7, <1>8, <1>9

(* It took a connection from the queue.                                    *)
LEMMA TakingStep ==
  ASSUME Owned, ~stray, Rel, DataStill, NEW w \in Workers, TakeNext(w) PROVE ServingOK(w)'
<1>1. /\ queue \in Seq(Fds) /\ queue # <<>> /\ hfd'[w] = Head(queue) /\ fdt' = fdt
      /\ pc'[w] = "read"
  BY DEF TakeNext, Take, netVars, Owned, Kept, Typed, WorkerTypeOK
<1>2. 1 \in 1..Len(queue) /\ hfd'[w] = queue[1]
  BY <1>1
<1>3. StaysFresh(fdt[queue[1]])
  <2>1. fdt[queue[1]] \in Conns
    BY <1>2 DEF Owned, Exclusive, QueuedConns
  <2> QED
    BY <1>2, <2>1 DEF Rel, FreshOK, Fresh, StaysFresh, DataStill
<1>4. AtStart(w)'
  BY <1>1, <1>2, <1>3 DEF AtStart, Fresh, StaysFresh
<1> QED
  BY <1>1, <1>4 DEF ServingOK, AtStart, AtTunnel, AtRequest, AtReply, AtNext

(* Every move but a write.                                                 *)
LEMMA MovingStep ==
  ASSUME Owned, Owned', ~stray, ~stray', Rel, [Next]_vars, DataStill, NEW w \in Workers,
         Moves(w), ~Writes(w)
  PROVE  ServingOK(w)'
<1>1. Typed
  BY DEF Owned, Kept
<1> USE <1>1, NoPromise DEF Typed, WorkerTypeOK, Step, Return, Finish
<1>2. CASE RejectFirst(w) \/ RejectNext(w) \/ NextEof(w) \/ FirstEof(w)
  BY <1>2 DEF RejectFirst, ReadFirst, RejectNext, NextEof, NextRequest, FirstEof
<1>3. CASE RejectResponse(w) \/ ResponseEof(w)
  BY <1>3 DEF RejectResponse, ResponseEof, Response, SetStatus
<1>4. CASE CloseClient(w) \/ TunnelCloseUp(w) \/ TunnelCloseClient(w)
  BY <1>4 DEF CloseClient, TunnelCloseUp, TunnelCloseClient
<1>5. CASE ResponseThrows(w) \/ ReadThrows(w, "read") \/ ReadThrows(w, "next")
  BY <1>5 DEF ResponseThrows, ReadThrows, Throws
<1>6. CASE TunnelEof(w) \/ TunnelTimeout(w) \/ TunnelDies(w)
  BY <1>6 DEF TunnelEof, TunnelTimeout, TunnelDies
<1> QED
  BY <1>2, <1>3, <1>4, <1>5, <1>6, ReadingStep, WorkingStep, TakingStep
  DEF Moves, Writes, NormalStep, TunnelStep

(* What is upstream of a worker at rest.                                   *)
LEMMA UpFrame ==
  ASSUME Typed, NEW v \in Workers, UpOK(v), UpMoves(v), pc'[v] = pc[v], msg'[v] = msg[v]
  PROVE  UpOK(v)'
<1>1. rx[v] \in Seq(Messages) /\ tx[v] \in Seq(Messages)
  BY Kinds DEF Typed, NetTypeOK
<1>2. CASE rx'[v] \in {rx[v], <<>>} /\ tx'[v] \in {tx[v], <<>>}
  BY <1>2 DEF UpOK, Echoes
<1>3. CASE ServerReply(v)
  <2> PICK m : m = msg[v]
    OBVIOUS
  <2>1. tx[v] # <<>> /\ tx'[v] = Tail(tx[v])
    BY <1>3, Kinds DEF ServerReply, Typed, NetTypeOK
  <2>2. PICK n \in Messages : /\ rx'[v] = Append(rx[v], n)
                              /\ n.conn = tx[v][1].conn /\ n.seq = tx[v][1].seq
                              /\ n.verb \in {tx[v][1].verb, "BAD"}
    <3>1. Head(tx[v]) \in Messages /\ Head(tx[v]) = tx[v][1]
      BY <1>1, <2>1
    <3>2. PICK u \in {tx[v][1].verb, "BAD"} :
            rx' = [rx EXCEPT ![v] = Append(@, [tx[v][1] EXCEPT !.verb = u])]
      BY <1>3, <3>1 DEF ServerReply
    <3> PICK n : n = [tx[v][1] EXCEPT !.verb = u]
      OBVIOUS
    <3>3. /\ n \in Messages /\ n.conn = tx[v][1].conn /\ n.seq = tx[v][1].seq
          /\ n.verb = u
      BY <3>1 DEF Messages
    <3>4. rx'[v] = Append(rx[v], n)
      BY <3>2, Kinds DEF Typed, NetTypeOK
    <3> QED
      BY <3>3, <3>4
  <2>3. Echoes(tx[v], m) => Echoes(tx'[v], m)
    BY <1>1, <2>1 DEF Echoes
  <2>4. Echoes(tx[v], m) /\ Echoes(rx[v], m) => Echoes(rx'[v], m)
    <3> SUFFICES ASSUME Echoes(tx[v], m), Echoes(rx[v], m) PROVE Echoes(rx'[v], m)
      OBVIOUS
    <3>1. n.conn = m.conn /\ n.seq = m.seq /\ n.verb # "ACK"
      BY <1>1, <2>1, <2>2 DEF Echoes
    <3>2. /\ \A i \in 1..Len(rx[v]) : rx'[v][i] = rx[v][i]
          /\ \A i \in 1..Len(rx'[v]) : i \in 1..Len(rx[v]) \/ rx'[v][i] = n
      BY <1>1, <2>2
    <3> QED
      BY <3>1, <3>2 DEF Echoes
  <2> QED
    BY <2>1, <2>3, <2>4 DEF UpOK
<1> QED
  BY <1>2, <1>3 DEF UpMoves

(* What is upstream of the worker that moves.                              *)
LEMMA UpMoved ==
  ASSUME Typed, NEW w \in Workers, Moves(w), ~Writes(w) PROVE UpOK(w)'
<1> USE DEF Typed, WorkerTypeOK, Step, Return, Finish
<1>1. CASE Connect(w)
  <2>1. rx'[w] = <<>> /\ tx'[w] = <<>> /\ pc'[w] = "send"
    BY <1>1, Kinds DEF Connect, ConnectOk, NetTypeOK
  <2> QED
    BY <2>1 DEF UpOK
<1>2. CASE ~Connect(w)
  <2>1. pc'[w] \notin {"send", "await"}
    <3>1. CASE StartNormal(w) \/ StartTunnel(w) \/ RejectFirst(w)
      BY <3>1 DEF StartNormal, StartTunnel, RejectFirst, ReadFirst
    <3>2. CASE ReadNext(w) \/ RejectNext(w) \/ NextEof(w) \/ FirstEof(w)
      BY <3>2 DEF ReadNext, RejectNext, NextEof, NextRequest, FirstEof
    <3>3. CASE ConnectFails(w) \/ GetResponse(w) \/ RejectResponse(w) \/ ResponseEof(w)
      BY <3>3 DEF ConnectFails, GetResponse, RejectResponse, ResponseEof, Response
    <3>4. CASE CloseClient(w) \/ CloseUp(w) \/ TunnelCloseUp(w) \/ TunnelCloseClient(w)
      BY <3>4 DEF CloseClient, CloseUp, TunnelCloseUp, TunnelCloseClient
    <3>5. CASE ResponseThrows(w) \/ ReadThrows(w, "read") \/ ReadThrows(w, "next")
      BY <3>5 DEF ResponseThrows, ReadThrows, Throws
    <3>6. CASE TunnelConnect(w) \/ TunnelConnectFails(w) \/ TunnelEof(w)
      BY <3>6 DEF TunnelConnect, TunnelConnectFails, TunnelEof
    <3>7. CASE TakeNext(w) \/ TunnelTimeout(w) \/ TunnelDies(w)
      BY <3>7 DEF TakeNext, Take, TunnelTimeout, TunnelDies
    <3> QED
      BY <1>2, <3>1, <3>2, <3>3, <3>4, <3>5, <3>6, <3>7
      DEF Moves, Writes, NormalStep, TunnelStep
  <2> QED
    BY <2>1 DEF UpOK
<1> QED
  BY <1>1, <1>2

-----------------------------------------------------------------------------
(* The writes.                                                             *)

(* A request goes to the worker's own upstream socket and is noted.        *)
LEMMA SendDoes ==
  ASSUME Owned, ~stray, Rel, NEW w \in Workers, Send(w)
  PROVE  /\ msg[w] \in Messages /\ msg[w].conn = fdt[hfd[w]]
         /\ fdt[hfd[w]] \in Conns /\ hfd[w] \in Fds
         /\ forwarded' = [forwarded EXCEPT ![fdt[hfd[w]]] = Append(@, msg[w].seq)]
         /\ UNCHANGED <<fdt, peer, rx, asked, hfd, proc, msg>>
         /\ pc[w] = "send" /\ pc'[w] = "await"
         /\ \A s \in Socks : s # w => tx'[s] = tx[s]
         /\ tx'[w] \in {<<>>, <<msg[w]>>} /\ rx'[w] = <<>>
<1>1. Typed /\ pc[w] = "send" /\ pc'[w] = "await"
  BY DEF Owned, Kept, Send, Step, Typed, WorkerTypeOK
<1>2. cfd[w] \in Fds /\ fdt[cfd[w]] = w
  BY <1>1 DEF Owned, Exclusive, UpOwn, HoldsUp
<1>3. hfd[w] \in Fds /\ fdt[hfd[w]] \in Conns
  BY <1>1 DEF Owned, Exclusive, HandlesConn, HoldsClient, HandlerLabels
<1>4. msg[w] \in Messages /\ msg[w].conn = fdt[hfd[w]]
  BY <1>1 DEF Rel, ServingOK, AtRequest, Typed, MsgHere, HasMsg
<1>5. rx[w] = <<>> /\ tx[w] = <<>>
  BY <1>1 DEF Rel, UpOK
<1>6. ~Kills(cfd[w])
  BY <1>2, Kinds DEF Kills, Behind
<1>7. tx' \in {tx, [tx EXCEPT ![w] = Append(@, msg[w])]} /\ proc' = proc
  BY <1>2, <1>6 DEF Send, Write
<1>8. /\ \A s \in Socks : s # w => tx'[s] = tx[s]
      /\ tx'[w] \in {<<>>, Append(<<>>, msg[w])}
  BY <1>1, <1>5, <1>7, Kinds DEF Typed, NetTypeOK
<1>9. Append(<<>>, msg[w]) = <<msg[w]>>
  OBVIOUS
<1> QED
  BY <1>1, <1>3, <1>4, <1>5, <1>7, <1>8, <1>9 DEF Send, Step, locals

(* A reply, or the acknowledgement of a tunnel, goes to the connection     *)
(* that is being handled, or the process ends.                             *)
LEMMA WriteDoes ==
  ASSUME Owned, ~stray, NEW w \in Workers, Reply(w) \/ TunnelOk(w)
  PROVE  /\ fdt[hfd[w]] \in Conns /\ hfd[w] \in Fds
         /\ UNCHANGED <<fdt, peer, rx, asked, hfd, msg, forwarded, status>>
         /\ peer[fdt[hfd[w]]] # "closed"
         /\ \/ proc' # "up" /\ tx' = tx
            \/ \E m \in Messages :
                 /\ m.seq = msg[w].seq /\ m.conn = msg[w].conn
                 /\ m.verb = IF Reply(w) THEN msg[w].verb ELSE "ACK"
                 /\ tx' = [tx EXCEPT ![fdt[hfd[w]]] = Append(@, m)]
<1>1. Typed /\ OpenLive /\ pc[w] \in {"reply", "tunnel_ok"}
  BY DEF Owned, Kept, Reply, TunnelOk, Step
<1>2. hfd[w] \in Fds /\ fdt[hfd[w]] \in Conns /\ peer[fdt[hfd[w]]] # "closed"
  BY <1>1, Kinds DEF Owned, Exclusive, HandlesConn, HoldsClient, HandlerLabels, OpenLive, Live
<1>3. UNCHANGED <<fdt, peer, rx, asked, hfd, msg, forwarded, status>>
  BY DEF Reply, TunnelOk, Step, upVars, locals, history
<1>4. msg[w] \in Messages
  BY <1>1 DEF Typed, MsgHere, HasMsg
<1> PICK m : m = IF Reply(w) THEN msg[w] ELSE [msg[w] EXCEPT !.verb = "ACK"]
  OBVIOUS
<1>5. /\ m \in Messages /\ m.seq = msg[w].seq /\ m.conn = msg[w].conn
      /\ m.verb = IF Reply(w) THEN msg[w].verb ELSE "ACK"
  BY <1>4 DEF Messages
<1>6. Write(hfd[w], m)
  BY DEF Reply, TunnelOk
<1>7. CASE peer[fdt[hfd[w]]] = "rst"
  BY <1>2, <1>3, <1>6, <1>7 DEF Write, Delivers, Kills, Behind
<1>8. CASE peer[fdt[hfd[w]]] # "rst"
  BY <1>2, <1>3, <1>5, <1>6, <1>8, Kinds DEF Write, Delivers, Behind
<1> QED
  BY <1>2, <1>3, <1>7, <1>8

(* A reply is one answer more.                                             *)
LEMMA AnsweredAppend ==
  ASSUME Typed, NEW c \in Conns, NEW m \in Messages, m.verb # "ACK", ~Acked(c),
         tx' = [tx EXCEPT ![c] = Append(@, m)]
  PROVE  /\ absAnswered'[c] = Append(absAnswered[c], m.seq) /\ ~Acked(c)'
         /\ absAnswered'[c] # absAnswered[c]
<1>1. tx[c] \in Seq(Messages) /\ tx'[c] = Append(tx[c], m)
  BY Kinds DEF Typed, NetTypeOK
<1>2. /\ Len(tx'[c]) = Len(tx[c]) + 1 /\ Len(tx[c]) \in Nat
      /\ tx'[c][Len(tx[c]) + 1] = m
      /\ \A i \in 1..Len(tx[c]) : tx'[c][i] = tx[c][i]
      /\ \A i \in 1..Len(tx'[c]) : i \in 1..Len(tx[c]) \/ i = Len(tx[c]) + 1
  BY <1>1
<1>3. ~Acked(c)'
  BY <1>2 DEF Acked
<1> DEFINE a == [i \in 1..Len(tx[c]) |-> tx[c][i].seq]
           b == [i \in 1..Len(tx'[c]) |-> tx'[c][i].seq]
<1>4. absAnswered[c] = a /\ absAnswered'[c] = b
  BY <1>3 DEF absAnswered
<1>5. m.seq \in Nat /\ \A i \in 1..Len(tx[c]) : tx[c][i].seq \in Nat
  <2>1. \A n \in Messages : n.seq \in Nat
    BY SocketsAssumption DEF SocketsAssumption, Messages
  <2> QED
    BY <1>1, <2>1
<1>6. a \in Seq(Nat) /\ Len(a) = Len(tx[c])
  BY <1>2, <1>5
<1>7. b = Append(a, m.seq)
  BY <1>2, <1>5, <1>6
<1>8. b # a
  <2>1. Len(b) = Len(a) + 1 /\ Len(a) \in Nat
    BY <1>2, <1>6
  <2> QED
    BY <2>1
<1> QED
  BY <1>3, <1>4, <1>7, <1>8

(* A write of worker w, to its connection or upstream, is nobody else's    *)
(* business.                                                               *)
LEMMA OthersFrame ==
  ASSUME Owned, Owned', ~stray, ~stray', Rel, [Next]_vars,
         NEW w \in Workers, Writes(w), HoldsClient(w),
         \A s \in Socks : s # w /\ s # fdt[hfd[w]] => tx'[s] = tx[s],
         \A c \in Conns : c # fdt[hfd[w]] => forwarded'[c] = forwarded[c],
         UNCHANGED rx,
         NEW v \in Workers, v # w
  PROVE  ServingOK(v)' /\ UpOK(v)'
<1>1. Typed /\ Rests(v) /\ ServingOK(v) /\ UpOK(v) /\ Exclusive /\ OneFd
  <2>1. Moves(w)
    BY DEF Writes, Moves, NormalStep, TunnelStep
  <2> QED
    BY <2>1, OthersRest DEF Owned, Kept, Rel
<1>2. UpOK(v)'
  <2>1. tx'[v] = tx[v] /\ rx'[v] = rx[v]
    <3>1. fdt[hfd[w]] \in Conns
      BY SameConn
    <3> QED
      BY <3>1, Kinds
  <2> QED
    BY <1>1, <2>1, UpFrame DEF UpMoves, Rests
<1>3. CASE HoldsClient(v)
  <2> PICK c : c = fdt[hfd[v]]
    OBVIOUS
  <2>1. HoldsClient(v)' /\ hfd'[v] = hfd[v]
    BY <1>1, <1>3 DEF Rests, HoldsClient
  <2>2. c \in Conns /\ fdt'[hfd[v]] = c
    BY <1>3, <2>1, SameConn
  <2>3. c # fdt[hfd[w]]
    BY <1>1, <1>3, <2>2, Kinds DEF Exclusive, HandlesConn, HandlesOne, OneFd
  <2>4. tx'[c] = tx[c] /\ forwarded'[c] = forwarded[c]
    BY <2>2, <2>3, Kinds
  <2>5. RxMoves(c)
    BY <1>1, <2>2, RxSteps
  <2>6. proc' = "up" => proc = "up"
    BY EndsForGood DEF vars, netVars
  <2> QED
    BY <1>1, <1>2, <2>2, <2>4, <2>5, <2>6, ServingFrame
<1>4. CASE ~HoldsClient(v)
  BY <1>1, <1>2, <1>4
  DEF Rests, HoldsClient, HandlerLabels, ServingOK, AtStart, AtTunnel, AtRequest, AtReply, AtNext
<1> QED
  BY <1>3, <1>4

(* Forwarding a request.                                                   *)
LEMMA RelSend ==
  ASSUME Owned, Owned', ~stray, ~stray', Rel, [Next]_vars, NEW w \in Workers, Send(w)
  PROVE  Rel'
<1> PICK c : c = fdt[hfd[w]]
  OBVIOUS
<1> PICK m : m = msg[w]
  OBVIOUS
<1>1. /\ m \in Messages /\ m.conn = c /\ c \in Conns /\ hfd[w] \in Fds
      /\ forwarded' = [forwarded EXCEPT ![c] = Append(@, m.seq)]
      /\ UNCHANGED <<fdt, peer, rx, asked, hfd, proc, msg>>
      /\ pc[w] = "send" /\ pc'[w] = "await"
      /\ \A s \in Socks : s # w => tx'[s] = tx[s]
      /\ tx'[w] \in {<<>>, <<m>>} /\ rx'[w] = <<>>
  BY SendDoes
<1>2. HoldsClient(w) /\ Writes(w) /\ Typed
  BY <1>1 DEF HoldsClient, HandlerLabels, Writes, Owned, Kept
<1>3. /\ \A d \in Conns : d # c => forwarded'[d] = forwarded[d]
      /\ forwarded'[c] = Append(forwarded[c], m.seq)
      /\ forwarded[c] \in Seq(1..MaxMsgs) /\ m.seq \in Nat
      /\ MaxMsgs \in Nat /\ asked[c] \in Nat
      /\ \A i \in 1..Len(forwarded[c]) : forwarded[c][i] \in Nat
  <2>1. forwarded[c] \in Seq(1..MaxMsgs) /\ m.seq \in 1..MaxMsgs /\ MaxMsgs \in Nat /\ asked[c] \in Nat
    BY <1>1, <1>2, SocketsAssumption
    DEF SocketsAssumption, Typed, WorkerTypeOK, NetTypeOK, Messages
  <2>2. /\ \A d \in Conns : d # c => forwarded'[d] = forwarded[d]
        /\ forwarded'[c] = Append(forwarded[c], m.seq)
    BY <1>1, <1>2 DEF Typed, WorkerTypeOK
  <2>3. \A i \in 1..Len(forwarded[c]) : forwarded[c][i] \in Nat
    BY <2>1
  <2> QED
    BY <2>1, <2>2, <2>3
<1>4. Fits(c, m) /\ Balanced(c) /\ m.verb # "ACK"
  BY <1>1 DEF Rel, ServingOK, AtRequest, Fits
<1>5. ASSUME NEW n \in Nat, Below(forwarded[c], n), m.seq < n PROVE Below(forwarded'[c], n)
  BY <1>3, <1>5 DEF Below
<1>6. RxOK(c)'
  <2>1. Below(forwarded'[c], asked[c] + 1)
    <3>1. Below(forwarded[c], asked[c] + 1) /\ m.seq < asked[c] + 1 /\ asked[c] + 1 \in Nat
      BY <1>1, <1>3, <1>4 DEF Rel, RxOK, Fits
    <3> QED
      BY <1>5, <3>1
  <2>2. \A i \in 1..Len(rx[c]) : rx[c][i].seq \in Nat
    <3>1. rx[c] \in Seq(Messages)
      BY <1>1, <1>2, Kinds DEF Typed, NetTypeOK
    <3>2. \A n \in Messages : n.seq \in Nat
      BY SocketsAssumption DEF SocketsAssumption, Messages
    <3> QED
      BY <3>1, <3>2
  <2>3. \A i \in 1..Len(rx[c]) : Below(forwarded'[c], rx[c][i].seq)
    BY <1>1, <1>4, <1>5, <2>2 DEF Rel, RxOK, Fits
  <2> QED
    BY <1>1, <2>1, <2>3 DEF Rel, RxOK
<1>7. \A d \in Conns : RxOK(d)'
  <2> SUFFICES ASSUME NEW d \in Conns, d # c PROVE RxOK(d)'
    BY <1>6
  <2> QED
    BY <1>2, <1>3, RxFrame, RxSteps DEF Rel
<1>8. FreshOK'
  <2>1. \A d \in Conns : d # c => forwarded'[d] = forwarded[d] /\ tx'[d] = tx[d]
    BY <1>1, <1>3, Kinds
  <2> QED
    BY <1>2, <2>1, FreshStep DEF Rel
<1>9. \A v \in Workers : v # w => ServingOK(v)' /\ UpOK(v)'
  BY <1>1, <1>2, <1>3, OthersFrame
<1>10. ServingOK(w)'
  <2>1. absAnswered'[c] = absAnswered[c] /\ ~Acked(c)'
    BY <1>1, <1>4, AnsweredFrame, Kinds DEF Balanced
  <2>2. forwarded'[c] = Append(absAnswered'[c], m.seq)
    BY <1>3, <1>4, <2>1 DEF Balanced
  <2> QED
    BY <1>1, <1>4, <2>1, <2>2 DEF ServingOK, AtStart, AtTunnel, AtRequest, AtReply, AtNext
<1>11. UpOK(w)'
  BY <1>1, <1>4 DEF UpOK, Echoes
<1> QED
  BY <1>7, <1>8, <1>9, <1>10, <1>11 DEF Rel

(* Writing to the client.                                                  *)
LEMMA RelWrite ==
  ASSUME Owned, Owned', ~stray, ~stray', Rel, [Next]_vars, NEW w \in Workers,
         Reply(w) \/ TunnelOk(w)
  PROVE  Rel'
<1> PICK c : c = fdt[hfd[w]]
  OBVIOUS
<1>1. /\ c \in Conns /\ hfd[w] \in Fds
      /\ UNCHANGED <<fdt, peer, rx, asked, hfd, msg, forwarded, status>>
      /\ \/ proc' # "up" /\ tx' = tx
         \/ \E m \in Messages : /\ m.seq = msg[w].seq /\ m.conn = msg[w].conn
                                /\ m.verb = IF Reply(w) THEN msg[w].verb ELSE "ACK"
                                /\ tx' = [tx EXCEPT ![c] = Append(@, m)]
  BY WriteDoes
<1>2. HoldsClient(w) /\ Writes(w) /\ Typed
  BY DEF HoldsClient, HandlerLabels, Writes, Owned, Kept, Reply, TunnelOk, Step
<1>3. \A s \in Socks : s # c => tx'[s] = tx[s]
  BY <1>1, <1>2 DEF Typed, NetTypeOK
<1>4. \A d \in Conns : RxOK(d)'
  BY <1>1 DEF Rel, RxOK
<1>5. FreshOK'
  <2>1. \A d \in Conns : d # c => forwarded'[d] = forwarded[d] /\ tx'[d] = tx[d]
    BY <1>1, <1>3, Kinds
  <2> QED
    BY <1>2, <2>1, FreshStep DEF Rel
<1>6. \A v \in Workers : v # w => ServingOK(v)' /\ UpOK(v)'
  BY <1>1, <1>2, <1>3, OthersFrame
<1>7. UpOK(w)'
  BY <1>2 DEF UpOK, Reply, TunnelOk, Step, Typed, WorkerTypeOK
<1>8. CASE Reply(w)
  <2>1. pc[w] = "reply" /\ pc'[w] = "close_up"
    BY <1>2, <1>8 DEF Reply, Step, Typed, WorkerTypeOK
  <2>2. /\ msg[w].conn = c /\ msg[w].verb # "ACK" /\ ~Acked(c)
        /\ forwarded[c] = Append(absAnswered[c], msg[w].seq)
    BY <2>1 DEF Rel, ServingOK, AtReply
  <2>3. CASE proc' # "up"
    BY <1>4, <1>5, <1>6, <1>7, <2>1, <2>3, NoPromise DEF Rel
  <2>4. CASE proc' = "up"
    <3>1. PICK m \in Messages : /\ m.seq = msg[w].seq /\ m.verb = msg[w].verb
                                /\ tx' = [tx EXCEPT ![c] = Append(@, m)]
      BY <1>1, <1>8, <2>4
    <3>2. absAnswered'[c] = Append(absAnswered[c], m.seq) /\ ~Acked(c)'
      BY <1>1, <1>2, <2>2, <3>1, AnsweredAppend
    <3>3. Balanced(c)'
      BY <1>1, <2>2, <3>1, <3>2 DEF Balanced
    <3>4. ServingOK(w)'
      BY <1>1, <2>1, <3>3 DEF ServingOK, AtStart, AtTunnel, AtRequest, AtReply, AtNext
    <3> QED
      BY <1>4, <1>5, <1>6, <1>7, <3>4 DEF Rel
  <2> QED
    BY <2>3, <2>4
<1>9. CASE TunnelOk(w)
  <2>1. pc'[w] = "tunnel"
    BY <1>2, <1>9 DEF TunnelOk, Step, Typed, WorkerTypeOK
  <2> QED
    BY <1>4, <1>5, <1>6, <1>7, <2>1, NoPromise DEF Rel
<1> QED
  BY <1>8, <1>9

(* Every other step.                                                       *)
LEMMA RelStill ==
  ASSUME Owned, Owned', ~stray, ~stray', Rel, [Next]_vars, \A w \in Workers : ~Writes(w)
  PROVE  Rel'
<1>1. Typed /\ DataStill /\ \A v \in Workers : UpMoves(v)
  BY StillData DEF Owned, Kept
<1>2. \A c \in Conns : RxOK(c)'
  BY <1>1, RxFrame, RxSteps DEF Rel, DataStill
<1>3. FreshOK'
  BY <1>1, FreshStep DEF Rel, DataStill
<1>4. ASSUME NEW v \in Workers, Rests(v) PROVE ServingOK(v)' /\ UpOK(v)'
  <2>1. UpOK(v)'
    BY <1>1, <1>4, UpFrame DEF Rel, Rests
  <2>2. CASE HoldsClient(v)
    <3> PICK c : c = fdt[hfd[v]]
      OBVIOUS
    <3>1. HoldsClient(v)' /\ hfd'[v] = hfd[v]
      BY <1>4, <2>2 DEF Rests, HoldsClient
    <3>2. c \in Conns /\ fdt'[hfd[v]] = c
      BY <2>2, <3>1, SameConn
    <3>3. RxMoves(c) /\ tx'[c] = tx[c] /\ forwarded'[c] = forwarded[c]
      BY <1>1, <3>2, RxSteps DEF DataStill
    <3>4. proc' = "up" => proc = "up"
      BY EndsForGood DEF vars, netVars
    <3> QED
      BY <1>1, <1>4, <2>1, <3>2, <3>3, <3>4, ServingFrame DEF Rel
  <2>3. CASE ~HoldsClient(v)
    BY <1>4, <2>1, <2>3
    DEF Rests, HoldsClient, HandlerLabels, ServingOK, AtStart, AtTunnel, AtRequest, AtReply,
        AtNext
  <2> QED
    BY <2>2, <2>3
<1>5. ASSUME NEW w \in Workers, Moves(w) PROVE Rel'
  <2>1. ServingOK(w)' /\ UpOK(w)'
    BY <1>1, <1>5, MovingStep, UpMoved
  <2>2. \A v \in Workers : v # w => ServingOK(v)' /\ UpOK(v)'
    BY <1>1, <1>4, <1>5, OthersRest
  <2> QED
    BY <1>2, <1>3, <2>1, <2>2 DEF Rel
<1> QED
  BY <1>2, <1>3, <1>4, <1>5, WhoMoves DEF Rel

(* All of it holds of every step.                                          *)
LEMMA RelStep == RelInv /\ [Next]_vars => RelInv'
<1> SUFFICES ASSUME RelInv, [Next]_vars PROVE RelInv'
  OBVIOUS
<1>1. Owned /\ Owned'
  BY OwnedStep DEF RelInv
<1>2. stray => stray'
  BY <1>1, FdSteps
  DEF Owned, Kept, Still, IsRefused, Accepts, Takes, Connects, LetsGo, HangsUp, LeavesIt
<1>3. CASE ~stray'
  <2>1. ~stray /\ Rel
    BY <1>2, <1>3 DEF RelInv
  <2> QED
    BY <1>1, <1>3, <2>1, RelSend, RelWrite, RelStill DEF RelInv, Writes
<1> QED
  BY <1>1, <1>3 DEF RelInv

(* At the start nothing was sent or forwarded.                             *)
LEMMA RelInit == Init => RelInv
<1> SUFFICES ASSUME Init PROVE RelInv
  OBVIOUS
<1>1. /\ \A s \in Socks : rx[s] = <<>> /\ tx[s] = <<>>
      /\ \A c \in Conns : forwarded[c] = <<>>
      /\ \A w \in Workers : pc[w] = "remove"
      /\ queue = <<>>
  BY DEF Init, NetInit, DispatchInit
<1>2. \A c \in Conns : RxOK(c)
  BY <1>1, Kinds DEF RxOK, Below
<1>3. FreshOK
  BY <1>1, Kinds DEF FreshOK, Fresh
<1>4. \A w \in Workers : ServingOK(w) /\ UpOK(w)
  BY <1>1 DEF ServingOK, AtStart, AtTunnel, AtRequest, AtReply, AtNext, UpOK
<1> QED
  BY <1>2, <1>3, <1>4, OwnedInit DEF RelInv, Rel

(***************************************************************************)
(* For any number of connections and workers, and whatever the kernel      *)
(* reuses: a request, its response and its reply belong to the connection  *)
(* the worker still handles, until a close goes astray.                    *)
(***************************************************************************)
THEOREM AnswersItsAsker == Spec => []AnswersTheAsker
<1>1. RelInv => AnswersTheAsker
  BY DEF RelInv, Rel, ServingOK, AtTunnel, AtRequest, AtReply, AnswersTheAsker
<1> QED
  BY <1>1, RelInit, RelStep, PTL DEF Spec

-----------------------------------------------------------------------------
(* The refinement.                                                         *)

(* A step closes at most one connection, and none is reopened.             *)
LEMMA ClosesOne ==
  ASSUME Typed, [Next]_vars
  PROVE  \/ \A d \in Conns : peer'[d] = peer[d]
         \/ \E c \in Conns : /\ \A d \in Conns : d # c => peer'[d] = peer[d]
                             /\ peer[c] = "closed" => peer'[c] = "closed"
<1> DEFINE One == \/ \A d \in Conns : peer'[d] = peer[d]
                  \/ \E c \in Conns : /\ \A d \in Conns : d # c => peer'[d] = peer[d]
                                      /\ peer[c] = "closed" => peer'[c] = "closed"
<1>1. ASSUME NEW f, Close(f) PROVE One
  <2>1. \A s \in Socks : peer'[s] = IF s = Behind(f) THEN "closed" ELSE peer[s]
    BY <1>1, CloseFds DEF Typed
  <2> QED
    BY <2>1, Kinds
<1>2. ASSUME NEW w \in Workers, ConnectOk(w) \/ Leak(w) PROVE One
  BY <1>2, Kinds DEF ConnectOk, Leak, Typed, NetTypeOK
<1>3. ASSUME NEW w \in Workers, Moves(w) PROVE One
  <2>1. \/ peer' = peer \/ (\E f \in {hfd[w], cfd[w]} : Close(f))
        \/ ConnectOk(w) \/ Leak(w)
    BY <1>3 DEF Moves, NormalStep, TunnelStep, StartNormal, RejectFirst, ReadFirst, FirstEof,
       CloseClient, Connect, ConnectFails, ConnectFail, Send, GetResponse, RejectResponse,
       ResponseEof, Response, ResponseThrows, Reply, CloseUp, ReadNext, RejectNext, NextEof,
       NextRequest, ReadThrows, StartTunnel, TunnelConnect, TunnelConnectFails, TunnelOk,
       TunnelEof, TunnelTimeout, TunnelDies, TunnelCloseClient, TunnelCloseUp,
       TakeNext, Take, netVars
  <2> QED
    BY <1>1, <1>2, <2>1
<1>4. CASE ListenerStep \/ ListenerFails \/ (\E w \in Workers : ServerStep(w)) \/ UNCHANGED vars
  BY <1>4 DEF ListenerStep, ListenerFails, ListenerNext, AcceptRunsOut,
        AcceptFails, Accept, ServerStep, ServerReply, vars,
              netVars
<1>5. CASE Environment
  <2>1. ASSUME NEW s \in Socks, PeerNext(s) PROVE One
    <3>1. peer[s] # "closed" /\ \A d \in Socks : d # s => peer'[d] = peer[d]
      BY <2>1 DEF PeerNext, PeerCloses, PeerResets, Typed, NetTypeOK
    <3> QED
      BY <3>1, Kinds
  <2>2. ASSUME NEW c \in Conns, Forget(c) PROVE One
    BY <2>2 DEF Forget, Backlog, Typed, NetTypeOK
  <2>3. ASSUME NEW c \in Conns, ClientNext(c) PROVE One
    <3>1. peer[c] # "closed" /\ \A d \in Socks : d # c => peer'[d] = peer[d]
      BY <2>3 DEF ClientNext, ClientConnect, ClientSend, Typed, NetTypeOK
    <3> QED
      BY <3>1, Kinds
  <2> QED
    BY <1>5, <2>1, <2>2, <2>3 DEF Environment
<1> QED
  BY <1>3, <1>4, <1>5, WhoMoves

(* A step that writes to no client and forwards nothing closes a           *)
(* connection or does nothing that Relay speaks of.                        *)
LEMMA RefStill ==
  ASSUME Typed, [Next]_vars, DataStill PROVE R!Next \/ UNCHANGED R!vars
<1>1. UNCHANGED <<forwarded, absAnswered>> /\ \A c \in Conns : Acked(c)' <=> Acked(c)
  <2>1. \A c \in Conns : absAnswered'[c] = absAnswered[c] /\ (Acked(c)' <=> Acked(c))
    BY AnsweredFrame DEF DataStill
  <2>2. absAnswered' = absAnswered
    BY <2>1 DEF absAnswered
  <2> QED
    BY <2>1, <2>2 DEF DataStill
<1>2. CASE \A d \in Conns : peer'[d] = peer[d]
  <2>1. absMode' = absMode
    BY <1>1, <1>2 DEF absMode
  <2> QED
    BY <1>1, <2>1 DEF R!vars
<1>3. ASSUME NEW c \in Conns, \A d \in Conns : d # c => peer'[d] = peer[d],
             peer[c] = "closed" => peer'[c] = "closed"
      PROVE  R!Next \/ UNCHANGED R!vars
  <2>1. CASE peer'[c] # "closed" \/ peer[c] = "closed"
    <3>1. absMode' = absMode
      BY <1>1, <1>3, <2>1 DEF absMode
    <3> QED
      BY <1>1, <3>1 DEF R!vars
  <2>2. CASE peer'[c] = "closed" /\ peer[c] # "closed"
    <3>1. absMode[c] # "closed" /\ absMode' = [absMode EXCEPT ![c] = "closed"]
      BY <1>1, <1>3, <2>2 DEF absMode
    <3>2. R!Close(c)
      BY <1>1, <3>1 DEF R!Close
    <3> QED
      BY <3>2 DEF R!Next
  <2> QED
    BY <2>1, <2>2
<1> QED
  BY <1>2, <1>3, ClosesOne

(* Sending a request upstream forwards it.                                 *)
LEMMA RefSend ==
  ASSUME Owned, ~stray, Rel, NEW w \in Workers, Send(w) PROVE R!Next
<1> PICK c : c = fdt[hfd[w]]
  OBVIOUS
<1> PICK m : m = msg[w]
  OBVIOUS
<1>1. /\ m \in Messages /\ c \in Conns /\ hfd[w] \in Fds
      /\ forwarded' = [forwarded EXCEPT ![c] = Append(@, m.seq)]
      /\ UNCHANGED <<fdt, peer>> /\ pc[w] = "send"
      /\ \A d \in Conns : tx'[d] = tx[d]
  BY SendDoes, Kinds
<1>2. Balanced(c) /\ Fits(c, m)
  BY <1>1 DEF Rel, ServingOK, AtRequest
<1>3. peer[c] # "closed"
  BY <1>1, Kinds DEF Owned, Kept, OpenLive, Live
<1>4. \A d \in Conns : absAnswered'[d] = absAnswered[d] /\ (Acked(d)' <=> Acked(d))
  BY <1>1, AnsweredFrame
<1>5. absAnswered' = absAnswered /\ absMode' = absMode
  BY <1>1, <1>4 DEF absAnswered, absMode
<1>6. absMode[c] = "messages" /\ forwarded[c] = absAnswered[c]
  BY <1>1, <1>2, <1>3 DEF absMode, Balanced
<1>7. m.seq \in 1..MaxMsgs /\ R!Later(forwarded[c], m.seq)
  BY <1>1, <1>2 DEF Messages, Fits, Below, R!Later
<1>8. R!Forward(c, m.seq)
  BY <1>1, <1>5, <1>6, <1>7 DEF R!Forward
<1> QED
  BY <1>1, <1>7, <1>8 DEF R!Next

(* Writing to the client answers the request, or opens the tunnel, unless  *)
(* it ends the process.                                                    *)
LEMMA RefWrite ==
  ASSUME Owned, ~stray, Rel, NEW w \in Workers, Reply(w) \/ TunnelOk(w)
  PROVE  R!Next \/ UNCHANGED R!vars
<1> PICK c : c = fdt[hfd[w]]
  OBVIOUS
<1>1. /\ c \in Conns /\ peer[c] # "closed"
      /\ UNCHANGED <<peer, forwarded>>
      /\ \/ tx' = tx
         \/ \E m \in Messages : /\ m.seq = msg[w].seq
                                /\ m.verb = IF Reply(w) THEN msg[w].verb ELSE "ACK"
                                /\ tx' = [tx EXCEPT ![c] = Append(@, m)]
  BY WriteDoes
<1>2. Typed
  BY DEF Owned, Kept
<1>3. CASE tx' = tx
  <2>1. \A d \in Conns : absAnswered'[d] = absAnswered[d] /\ (Acked(d)' <=> Acked(d))
    BY <1>3, AnsweredFrame
  <2>2. absAnswered' = absAnswered /\ absMode' = absMode
    BY <1>1, <2>1 DEF absAnswered, absMode
  <2> QED
    BY <1>1, <2>2 DEF R!vars
<1>4. ASSUME NEW m \in Messages, m.seq = msg[w].seq,
             m.verb = IF Reply(w) THEN msg[w].verb ELSE "ACK",
             tx' = [tx EXCEPT ![c] = Append(@, m)]
      PROVE  R!Next
  <2>1. \A d \in Conns : d # c => tx'[d] = tx[d]
    BY <1>2, <1>4, Kinds DEF Typed, NetTypeOK
  <2>2. \A d \in Conns : d # c => absAnswered'[d] = absAnswered[d] /\ (Acked(d)' <=> Acked(d))
    BY <2>1, AnsweredFrame
  <2>3. CASE Reply(w)
    <3>1. /\ m.verb # "ACK" /\ ~Acked(c)
          /\ forwarded[c] = Append(absAnswered[c], m.seq)
      BY <1>4, <2>3 DEF Reply, Step, Rel, ServingOK, AtReply
    <3>2. absAnswered'[c] = Append(absAnswered[c], m.seq) /\ ~Acked(c)'
      BY <1>1, <1>2, <1>4, <3>1, AnsweredAppend
    <3>3. absAnswered' = [absAnswered EXCEPT ![c] = forwarded[c]]
      BY <1>1, <2>2, <3>1, <3>2, AnsweredTable
    <3>4. absMode' = absMode /\ absMode[c] = "messages"
      BY <1>1, <2>2, <3>1, <3>2 DEF absMode
    <3>5. absAnswered[c] # forwarded[c]
      BY <1>1, <1>2, <1>4, <3>1, AnsweredAppend
    <3>6. R!Answer(c)
      BY <1>1, <3>3, <3>4, <3>5 DEF R!Answer
    <3> QED
      BY <1>1, <3>6 DEF R!Next
  <2>4. CASE ~Reply(w)
    <3>1. TunnelOk(w) /\ m.verb = "ACK" /\ Fresh(c)
      BY <1>4, <2>4 DEF TunnelOk, Step, Rel, ServingOK, AtTunnel
    <3>2. tx[c] = <<>> /\ tx'[c] = <<m>>
      BY <1>1, <1>2, <1>4, <3>1, Kinds DEF Fresh, Typed, NetTypeOK
    <3>3. Acked(c)' /\ ~Acked(c) /\ Tail(tx'[c]) = <<>>
      BY <3>1, <3>2 DEF Acked
    <3>4. absAnswered'[c] = absAnswered[c]
      BY <1>1, <3>2, <3>3 DEF absAnswered
    <3>5. absAnswered' = absAnswered
      BY <2>2, <3>4, AnsweredTable
    <3>6. absMode[c] = "messages" /\ absMode' = [absMode EXCEPT ![c] = "tunnel"]
      BY <1>1, <2>2, <3>3 DEF absMode
    <3>7. R!OpenTunnel(c)
      BY <1>1, <3>5, <3>6 DEF R!OpenTunnel
    <3> QED
      BY <1>1, <3>7 DEF R!Next
  <2> QED
    BY <2>3, <2>4
<1> QED
  BY <1>1, <1>3, <1>4

(* Every step of the proxy is a step of Relay or none, until a close goes  *)
(* astray.                                                                 *)
LEMMA RefStep ==
  RelInv /\ RelInv' /\ [Next]_vars => [R!Next \/ stray']_(R!vars)
<1> SUFFICES ASSUME RelInv, [Next]_vars, ~stray' PROVE R!Next \/ UNCHANGED R!vars
  OBVIOUS
<1>0. Owned /\ Kept /\ Typed /\ StatusOK
  BY DEF RelInv, Owned, Kept
<1>1. ~stray
  BY <1>0, FdSteps
  DEF Still, IsRefused, Accepts, Takes, Connects, LetsGo, HangsUp, LeavesIt
<1>2. Rel
  BY <1>1 DEF RelInv
<1> QED
  BY <1>0, <1>1, <1>2, RefSend, RefWrite, RefStill, StillData DEF Writes

(* The initial state is one of Relay's.                                    *)
LEMMA RefInit == Init => R!Init
<1> SUFFICES ASSUME Init PROVE R!Init
  OBVIOUS
<1>1. \A c \in Conns : tx[c] = <<>> /\ peer[c] = "none" /\ ~Acked(c)
  BY Kinds DEF Init, NetInit, Acked
<1>2. absAnswered = [c \in Conns |-> <<>>]
  BY <1>1 DEF absAnswered
<1>3. absMode = [c \in Conns |-> "messages"]
  BY <1>1 DEF absMode
<1> QED
  BY <1>2, <1>3 DEF Init, R!Init

(***************************************************************************)
(* The proxy implements Relay for any number of connections, workers and   *)
(* requests: no request goes upstream twice, none overtakes another of its *)
(* connection, and a client gets its own replies, in order, until a close  *)
(* goes astray.                                                            *)
(***************************************************************************)
THEOREM RelayImplemented == Spec => ImplementsRelay
<1>1. RelInv /\ RelInv' /\ [Next]_vars => [R!Next \/ stray']_(R!vars)
  BY RefStep
<1> QED
  BY <1>1, RefInit, RelInit, RelStep, PTL DEF Spec, ImplementsRelay
=============================================================================
