---------------------------- MODULE ServerProofs ----------------------------
(***************************************************************************)
(* Theorems about Server.tla, for any number of clients, workers, messages *)
(* and descriptors.                                                        *)
(***************************************************************************)
EXTENDS Server, SocketsProofs, TLAPS

Assumptions == /\ SocketsAssumption
               /\ LoopbackAssumption
               /\ ServerAssumption

-----------------------------------------------------------------------------
(* Nothing shared is destroyed while the listener runs.                    *)

(* Server::listen goes on to its return only when the listener ended.      *)
ReturnsLate == /\ main = "unwind" => lst \in {"ended", "failed"}
               /\ main # "start" => lst # "none"
               /\ gone # {} => main = "unwind"
               /\ proc = "abort" => lst \in {"ended", "failed"}

(* A statement of a handler never aborts the process.                      *)
LEMMA HandlerAborts ==
  ASSUME NEW w \in Workers, LoopbackStep(w) PROVE proc' \in {proc, "sigpipe"}
BY DEF LoopbackStep, ReadMessage, Echo, Write, ReadEofOrBad, Flush, Recv, ReadThrows,
       Step, Finish

(* Neither does anything that the clients do.                              *)
LEMMA ClientsAbort == ASSUME Environment PROVE proc' = proc
BY DEF Environment, PeerNext, PeerCloses, PeerResets, Forget, ClientNext,
       ClientConnect, ClientSend

(* Every step keeps it: only the join leads to the return, and only a use  *)
(* of what the return destroyed aborts the process.                        *)
LEMMA ReturnsLateStep == ReturnsLate /\ [Next]_vars => ReturnsLate'
<1> SUFFICES ASSUME ReturnsLate, [Next]_vars PROVE ReturnsLate'
  OBVIOUS
<1> USE DEF ReturnsLate
<1>1. CASE StartListener
  BY <1>1 DEF StartListener, Main
<1>2. CASE StartWorker \/ StartWorkerFails
  BY <1>2 DEF StartWorker, StartWorkerFails, Main
<1>3. CASE StartMonitor
  BY <1>3 DEF StartMonitor, Main
<1>4. CASE Join
  BY <1>4 DEF Join, Main
<1>5. CASE Destroy \/ Exit
  BY <1>5 DEF Destroy, Exit, Main
<1>6. CASE Crash
  <2>1. gone # {}
    BY <1>6 DEF Crash, UsesGone, WorkerGone
  <2> QED
    BY <1>6, <2>1 DEF Crash, serverVars
<1>7. CASE ListenerStep
  BY <1>7 DEF ListenerStep, AcceptOne, Accept, ListenerEnds, serverVars, netVars
<1>8. ASSUME NEW w \in Workers, WorkerStep(w) PROVE ReturnsLate'
  <2>1. UNCHANGED serverVars
    BY <1>8 DEF WorkerStep, TakeNext, NoteSocket, Activate, Noted, Handle, Around
  <2>2. proc' \in {proc, "sigpipe"}
    BY <1>8, HandlerAborts
    DEF WorkerStep, TakeNext, Take, NoteSocket, Activate, Handle, netVars
  <2> QED
    BY <2>1, <2>2 DEF serverVars
<1>9. CASE MonitorStep
  BY <1>9 DEF MonitorStep, TestActive, PrintSocket, Monitor, netVars
<1>10. CASE Environment
  BY <1>10, ClientsAbort DEF Environment, serverVars
<1>11. CASE UNCHANGED vars
  BY <1>11 DEF vars, serverVars, netVars
<1> QED
  BY <1>1, <1>2, <1>3, <1>4, <1>5, <1>6, <1>7, <1>8, <1>9, <1>10, <1>11
  DEF Next, MainStep

(***************************************************************************)
(* However many workers there are: the objects the threads share exist as  *)
(* long as the listener runs, and no thread crashes on one of them.        *)
(***************************************************************************)
THEOREM SharedObjectsExist == Spec => []NothingGoneWhileListening
<1>1. Init => ReturnsLate
  BY DEF Init, NetInit, ReturnsLate
<1>2. ReturnsLate => NothingGoneWhileListening
  BY DEF ReturnsLate, NothingGoneWhileListening
<1> QED
  BY <1>1, <1>2, ReturnsLateStep, PTL DEF Spec

-----------------------------------------------------------------------------
(* A connection is served once.                                            *)

Busy(w) == pc[w] # "remove"

TypesOK == /\ fdt \in [Fds -> Conns \cup {Free}]
           /\ queue \in Seq(Fds)
           /\ pc \in [Workers -> {"remove", "read", "echo", "flush", "recv"}]
           /\ hfd \in [Workers -> Fds \cup {NoFd}]
           /\ shut \subseteq Conns

(* A descriptor is in one place: free, in the queue once, or with one busy *)
(* worker; what is in the queue was not served yet.                        *)
OneFd       == \A f, g \in Fds : fdt[f] = fdt[g] /\ fdt[f] # Free => f = g
QueuedOnce  == \A i, j \in DOMAIN queue : queue[i] = queue[j] => i = j
QueuedFresh == \A i \in DOMAIN queue : fdt[queue[i]] \in Conns \ shut
BusyHolds   == \A w \in Workers : Busy(w) => hfd[w] \in Fds /\ fdt[hfd[w]] \in Conns
BusyAlone   == \A v, w \in Workers : Busy(v) /\ Busy(w) /\ hfd[v] = hfd[w] => v = w
BusyTook    == \A w \in Workers : Busy(w) => \A i \in DOMAIN queue : queue[i] # hfd[w]
ShutOpen    == \A c \in shut : \E f \in Fds : fdt[f] = c

Owned == /\ TypesOK /\ OneFd
         /\ QueuedOnce /\ QueuedFresh
         /\ BusyHolds /\ BusyAlone /\ BusyTook
         /\ ShutOpen

fdVars == <<fdt, queue, pc, hfd, shut>>

(* Most steps move no descriptor.                                          *)
LEMMA OwnedFrame == ASSUME Owned, UNCHANGED fdVars PROVE Owned'
BY DEF fdVars, Owned, TypesOK, OneFd, QueuedOnce, QueuedFresh, BusyHolds, BusyAlone,
       BusyTook, ShutOpen, Busy

(* accept takes a number that nobody has, for a connection nobody had.     *)
LEMMA OwnedAccept ==
  ASSUME Assumptions, Owned, NEW c \in Conns, Accept(c), UNCHANGED shut PROVE Owned'
<1> DEFINE low == Lowest
<1>1. low \in Fds /\ fdt[low] = Free
  BY LowestFree DEF Accept
<1>2. \A f \in Fds : fdt[f] # c
  BY DEF Accept, Backlog, Open
<1>3. Free \notin Conns
  BY DEF Assumptions, SocketsAssumption
<1>4. /\ fdt' = [fdt EXCEPT ![low] = c]
      /\ queue' = Append(queue, low)
      /\ pc' = pc /\ hfd' = hfd /\ shut' = shut
  BY DEF Accept
<1> HIDE DEF low
<1>5. /\ fdt \in [Fds -> Conns \cup {Free}]
      /\ \A f \in Fds : fdt'[f] = IF f = low THEN c ELSE fdt[f]
  BY <1>4 DEF Owned, TypesOK
<1>6. TypesOK'
  BY <1>1, <1>4 DEF Owned, TypesOK
<1>7. /\ queue \in Seq(Fds)
      /\ DOMAIN queue' = 1..(Len(queue) + 1) /\ DOMAIN queue = 1..Len(queue)
      /\ \A i \in DOMAIN queue : queue'[i] = queue[i] /\ queue[i] \in Fds
      /\ queue'[Len(queue) + 1] = low
  BY <1>1, <1>4 DEF Owned, TypesOK
<1>8. \A i \in DOMAIN queue : queue[i] # low
  BY <1>1, <1>3 DEF Owned, QueuedFresh
<1>9. OneFd'
  BY <1>2, <1>5, <1>3 DEF Owned, OneFd
<1>10. QueuedOnce'
  BY <1>7, <1>8 DEF Owned, QueuedOnce
<1>11. c \notin shut
  BY <1>2 DEF Owned, ShutOpen
<1>12. QueuedFresh'
  BY <1>1, <1>4, <1>5, <1>7, <1>11 DEF Owned, QueuedFresh
<1>13. \A w \in Workers : Busy(w) => hfd[w] # low
  BY <1>1, <1>3 DEF Owned, BusyHolds
<1>14. BusyHolds'
  BY <1>4, <1>5 DEF Owned, BusyHolds, Busy
<1>15. BusyAlone'
  BY <1>4 DEF Owned, BusyAlone, Busy
<1>16. BusyTook'
  BY <1>4, <1>7, <1>13 DEF Owned, BusyTook, Busy
<1>17. ShutOpen'
  BY <1>1, <1>3, <1>4, <1>5 DEF Owned, ShutOpen, TypesOK
<1> QED
  BY <1>6, <1>9, <1>10, <1>12, <1>14, <1>15, <1>16, <1>17 DEF Owned

(* A worker takes the head of the queue, which leaves it.                  *)
LEMMA OwnedTake ==
  ASSUME Owned, NEW w \in Workers, Take(w), UNCHANGED shut PROVE Owned'
<1>1. /\ queue \in Seq(Fds) /\ queue # <<>>
      /\ queue' = Tail(queue) /\ hfd' = [hfd EXCEPT ![w] = queue[1]]
      /\ pc' = [pc EXCEPT ![w] = "read"] /\ fdt' = fdt /\ shut' = shut
      /\ ~Busy(w)
  BY DEF Take, Owned, TypesOK, netVars, Busy
<1>2. /\ 1 \in DOMAIN queue /\ queue[1] \in Fds
      /\ \A i \in DOMAIN queue' : i + 1 \in DOMAIN queue /\ queue'[i] = queue[i + 1]
      /\ \A i, j \in DOMAIN queue' : i + 1 = j + 1 => i = j
      /\ \A i \in DOMAIN queue' : i + 1 # 1
  BY <1>1
<1>3. /\ \A v \in Workers \ {w} : hfd'[v] = hfd[v] /\ (Busy(v)' <=> Busy(v))
      /\ hfd'[w] = queue[1]
  BY <1>1 DEF Owned, TypesOK, Busy
<1>4. TypesOK'
  BY <1>1, <1>2 DEF Owned, TypesOK
<1>5. OneFd' /\ ShutOpen'
  BY <1>1 DEF Owned, OneFd, ShutOpen
<1>6. QueuedOnce'
  BY <1>2 DEF Owned, QueuedOnce
<1>7. QueuedFresh'
  BY <1>1, <1>2 DEF Owned, QueuedFresh
<1>8. BusyHolds'
  BY <1>1, <1>2, <1>3 DEF Owned, BusyHolds, QueuedFresh
<1>9. BusyAlone'
  BY <1>1, <1>2, <1>3 DEF Owned, BusyAlone, BusyTook
<1>10. BusyTook'
  BY <1>1, <1>2, <1>3 DEF Owned, BusyTook, QueuedOnce
<1> QED
  BY <1>4, <1>5, <1>6, <1>7, <1>8, <1>9, <1>10 DEF Owned

(* A statement of a handler keeps its worker busy with the same number, or *)
(* sets it free; only flush changes what was shut down.                    *)
LEMMA HandlerFds ==
  ASSUME Owned, NEW w \in Workers, LoopbackStep(w)
  PROVE  /\ fdt' = fdt /\ queue' = queue
         /\ \A v \in Workers : Busy(v)' => Busy(v) /\ hfd'[v] = hfd[v]
         /\ \A c \in shut' : c \in shut \/ (Busy(w) /\ fdt[hfd[w]] = c)
         /\ TypesOK' /\ shut \subseteq shut'
<1>1. /\ fdt \in [Fds -> Conns \cup {Free}] /\ queue \in Seq(Fds)
      /\ pc \in [Workers -> {"remove", "read", "echo", "flush", "recv"}]
      /\ hfd \in [Workers -> Fds \cup {NoFd}] /\ shut \subseteq Conns
  BY DEF Owned, TypesOK
<1>2. CASE Recv(w) \/ ReadThrows(w)
  <2>1. /\ fdt' = fdt /\ queue' = queue /\ shut' = shut
        /\ pc' = [pc EXCEPT ![w] = "remove"] /\ hfd' = [hfd EXCEPT ![w] = NoFd]
    BY <1>2 DEF Recv, ReadThrows, Finish, loopVars
  <2>2. TypesOK'
    BY <1>1, <2>1 DEF TypesOK
  <2>3. \A v \in Workers : Busy(v)' => Busy(v) /\ hfd'[v] = hfd[v]
    BY <1>1, <2>1 DEF Busy
  <2> QED
    BY <2>1, <2>2, <2>3
<1>3. CASE ReadMessage(w) \/ Echo(w) \/ ReadEofOrBad(w)
  <2>1. /\ fdt' = fdt /\ queue' = queue /\ shut' = shut /\ hfd' = hfd
        /\ Busy(w)
        /\ \E to \in {"read", "echo", "flush"} : pc' = [pc EXCEPT ![w] = to]
    BY <1>3 DEF ReadMessage, Echo, ReadEofOrBad, Step, loopVars, Busy
  <2>2. TypesOK'
    BY <1>1, <2>1 DEF TypesOK
  <2>3. \A v \in Workers : Busy(v)' => Busy(v)
    BY <1>1, <2>1 DEF Busy
  <2> QED
    BY <2>1, <2>2, <2>3
<1>4. CASE Flush(w)
  <2>1. /\ fdt' = fdt /\ queue' = queue /\ hfd' = hfd
        /\ shut' = shut \cup {c \in Conns : c = Behind(hfd[w])}
        /\ Busy(w) /\ pc' = [pc EXCEPT ![w] = "recv"]
    BY <1>4 DEF Flush, Step, Busy
  <2>2. Behind(hfd[w]) = fdt[hfd[w]]
    BY <2>1 DEF Owned, BusyHolds, Behind
  <2>3. TypesOK'
    BY <1>1, <2>1 DEF TypesOK
  <2>4. \A v \in Workers : Busy(v)' => Busy(v)
    BY <1>1, <2>1 DEF Busy
  <2> QED
    BY <2>1, <2>2, <2>3, <2>4
<1> QED
  BY <1>2, <1>3, <1>4 DEF LoopbackStep

(* A handler keeps its descriptor to itself, and what flush shuts down     *)
(* does not wait in the queue.                                             *)
LEMMA OwnedHandle ==
  ASSUME Assumptions, Owned, NEW w \in Workers, LoopbackStep(w) PROVE Owned'
<1>1. OneFd' /\ QueuedOnce'
  BY HandlerFds DEF Owned, OneFd, QueuedOnce
<1>2. QueuedFresh'
  <2> SUFFICES ASSUME NEW i \in DOMAIN queue PROVE fdt[queue[i]] \in Conns \ shut'
    BY HandlerFds DEF QueuedFresh
  <2>1. queue[i] \in Fds /\ fdt[queue[i]] \in Conns \ shut
    BY DEF Owned, TypesOK, QueuedFresh
  <2>2. CASE Busy(w) /\ fdt[hfd[w]] = fdt[queue[i]]
    <3>1. hfd[w] = queue[i]
      BY <2>1, <2>2 DEF Owned, OneFd, BusyHolds, Assumptions, SocketsAssumption
    <3> QED
      BY <2>2, <3>1 DEF Owned, BusyTook
  <2> QED
    BY <2>1, <2>2, HandlerFds
<1>3. BusyHolds' /\ BusyAlone' /\ BusyTook'
  BY HandlerFds DEF Owned, BusyHolds, BusyAlone, BusyTook
<1>4. ShutOpen'
  BY HandlerFds DEF Owned, ShutOpen, BusyHolds
<1> QED
  BY <1>1, <1>2, <1>3, <1>4, HandlerFds DEF Owned

(* What a step of the server does with descriptors.                        *)
LEMMA FdSteps ==
  ASSUME [Next]_vars
  PROVE  \/ UNCHANGED fdVars
         \/ (\E c \in Conns : Accept(c)) /\ UNCHANGED shut
         \/ (\E w \in Workers : Take(w)) /\ UNCHANGED shut
         \/ \E w \in Workers : LoopbackStep(w)
<1> USE DEF fdVars, netVars, dispatchVars, loopVars
<1>1. CASE MainStep \/ StartWorkerFails
  BY <1>1 DEF MainStep, StartWorkerFails, StartListener, StartWorker, StartMonitor, Join,
              Destroy, Exit, Main
<1>2. CASE Crash \/ UNCHANGED vars
  BY <1>2 DEF Crash, vars
<1>3. CASE ListenerStep
  BY <1>3 DEF ListenerStep, AcceptOne, ListenerEnds
<1>4. ASSUME NEW w \in Workers, WorkerStep(w)
      PROVE  UNCHANGED fdVars \/ (Take(w) /\ UNCHANGED shut) \/ LoopbackStep(w)
  BY <1>4 DEF WorkerStep, TakeNext, NoteSocket, Activate, Handle
<1>5. CASE MonitorStep
  BY <1>5 DEF MonitorStep, TestActive, PrintSocket, Monitor
<1>6. CASE Environment
  BY <1>6 DEF Environment, PeerNext, PeerCloses, PeerResets, Forget, ClientNext,
              ClientConnect, ClientSend
<1> QED
  BY <1>1, <1>2, <1>3, <1>4, <1>5, <1>6 DEF Next

(* Nothing is open, queued or served at the start.                         *)
LEMMA OwnedInit == ASSUME Assumptions PROVE Init => Owned
BY DEF Init, NetInit, LoopbackInit, DispatchInit, Owned, TypesOK, OneFd, QueuedOnce,
       QueuedFresh, BusyHolds, BusyAlone, BusyTook, ShutOpen, Busy

(* No step of the server puts a descriptor in two places.                  *)
LEMMA OwnedStep == ASSUME Assumptions, Owned, [Next]_vars PROVE Owned'
BY FdSteps, OwnedFrame, OwnedAccept, OwnedTake, OwnedHandle

-----------------------------------------------------------------------------
(* What ServedOnce says of one step.                                       *)
ServesOnce == \A v, w \in Workers, c \in Conns :
                (~Serving(w, c) /\ Serving(w, c)') => ~Serving(v, c) /\ c \notin shut

(* A worker that kept its descriptor was serving the same connection       *)
(* before.                                                                 *)
LEMMA StaysServing ==
  ASSUME Owned, NEW w \in Workers, NEW c \in Conns,
         Busy(w)' => Busy(w) /\ hfd'[w] = hfd[w] /\ fdt'[hfd[w]] = fdt[hfd[w]],
         Serving(w, c)'
  PROVE  Serving(w, c)
BY DEF Serving, Busy, Behind, Owned, BusyHolds

(* A service begins with a take, and what is taken from the queue is       *)
(* neither served by anybody nor shut down.                                *)
LEMMA ServesOnceStep ==
  ASSUME Assumptions, Owned, [Next]_vars PROVE ServesOnce
<1> SUFFICES ASSUME NEW v \in Workers, NEW w \in Workers, NEW c \in Conns,
                    ~Serving(w, c), Serving(w, c)'
             PROVE  ~Serving(v, c) /\ c \notin shut
  BY DEF ServesOnce
<1>1. CASE UNCHANGED fdVars
  BY <1>1, StaysServing DEF fdVars, Busy
<1>2. CASE \E d \in Conns : Accept(d)
  <2>1. fdt' = [fdt EXCEPT ![Lowest] = fdt'[Lowest]] /\ pc' = pc /\ hfd' = hfd
    BY <1>2, LowestFree DEF Accept, Owned, TypesOK
  <2>2. FreeFds # {}
    BY <1>2 DEF Accept
  <2>3. Busy(w) => hfd[w] # Lowest
    BY <2>2, LowestFree DEF Owned, BusyHolds, Assumptions, SocketsAssumption
  <2> QED
    BY <2>1, <2>3, StaysServing DEF Busy, Owned, TypesOK, BusyHolds
<1>3. CASE \E u \in Workers : LoopbackStep(u)
  BY <1>3, HandlerFds, StaysServing
<1>4. ASSUME NEW u \in Workers, Take(u), UNCHANGED shut
      PROVE  ~Serving(v, c) /\ c \notin shut
  <2>1. /\ queue \in Seq(Fds) /\ queue # <<>>
        /\ hfd' = [hfd EXCEPT ![u] = queue[1]]
        /\ pc' = [pc EXCEPT ![u] = "read"] /\ fdt' = fdt
    BY <1>4 DEF Take, Owned, TypesOK, netVars
  <2>2. u = w
    BY <2>1, StaysServing DEF Owned, TypesOK, Busy
  <2>3. 1 \in DOMAIN queue /\ queue[1] \in Fds
    BY <2>1
  <2>4. fdt[queue[1]] = c
    BY <2>1, <2>2, <2>3 DEF Serving, Behind, Owned, TypesOK
  <2>5. c \notin shut
    BY <2>3, <2>4 DEF Owned, QueuedFresh
  <2>6. ASSUME Serving(v, c) PROVE FALSE
    <3>1. Busy(v) /\ hfd[v] \in Fds /\ fdt[hfd[v]] = c
      BY <2>6 DEF Serving, Busy, Behind, Owned, BusyHolds
    <3>2. hfd[v] = queue[1]
      BY <2>3, <2>4, <3>1 DEF Owned, OneFd, Assumptions, SocketsAssumption
    <3> QED
      BY <2>3, <3>1, <3>2 DEF Owned, BusyTook
  <2> QED
    BY <2>5, <2>6
<1> QED
  BY <1>1, <1>2, <1>3, <1>4, FdSteps

(***************************************************************************)
(* However many clients, workers and descriptors there are: a connection   *)
(* is served by one worker and once.                                       *)
(***************************************************************************)
THEOREM EachServedOnce == Spec => ServedOnce
<1>1. Assumptions
  BY SocketsAssumption, LoopbackAssumption, ServerAssumption DEF Assumptions
<1>2. Init => Owned
  BY <1>1, OwnedInit
<1>3. Owned /\ [Next]_vars => Owned'
  BY <1>1, OwnedStep
<1>4. Owned /\ [Next]_vars => [ServesOnce]_vars
  BY <1>1, ServesOnceStep
<1> QED
  BY <1>2, <1>3, <1>4, PTL DEF Spec, ServedOnce, ServesOnce

-----------------------------------------------------------------------------
(* Messages are echoed in order.                                           *)

DataOK == /\ rx \in [Socks -> Seq(Messages)] /\ tx \in [Socks -> Seq(Messages)]
          /\ msg \in [Workers -> Messages \cup {Unset}]
          /\ asked \in [Conns -> 0..MaxMsgs]

(* For each client: the messages written, the one a worker holds and the   *)
(* ones that wait have growing numbers, up to the number it sent.          *)
RxInOrder == \A c \in Conns : \A i, j \in DOMAIN rx[c] :
               /\ rx[c][i].conn = c /\ rx[c][i].seq <= asked[c]
               /\ i < j => rx[c][i].seq < rx[c][j].seq
TxBefore  == \A c \in Conns : \A i \in DOMAIN tx[c] :
               /\ tx[c][i].seq <= asked[c]
               /\ \A j \in DOMAIN rx[c] : tx[c][i].seq < rx[c][j].seq
Between(m, c) == /\ m \in Messages /\ m.conn = c /\ m.seq <= asked[c]
                 /\ \A i \in DOMAIN tx[c] : tx[c][i].seq < m.seq
                 /\ \A j \in DOMAIN rx[c] : m.seq < rx[c][j].seq
MsgBetween == \A w \in Workers : pc[w] = "echo" => Between(msg[w], fdt[hfd[w]])

InSequence == DataOK /\ RxInOrder /\ TxBefore /\ MsgBetween /\ OwnInOrder

(* Most steps write nothing and send nothing; some drop what waits.        *)
Quiet == /\ DataOK' /\ tx' = tx /\ asked' = asked
         /\ \A c \in Conns : rx'[c] \in {rx[c], <<>>}
         /\ \A w \in Workers : pc'[w] = "echo" =>
              /\ pc[w] = "echo" /\ msg'[w] = msg[w]
              /\ hfd'[w] = hfd[w] /\ fdt'[hfd[w]] = fdt[hfd[w]]

(* A quiet step keeps the order.                                           *)
LEMMA QuietStep == ASSUME Owned, InSequence, Quiet PROVE InSequence'
<1>1. RxInOrder'
  BY DEF InSequence, Quiet, RxInOrder
<1>2. TxBefore'
  BY DEF InSequence, Quiet, TxBefore
<1>3. MsgBetween'
  <2> SUFFICES ASSUME NEW w \in Workers, pc'[w] = "echo"
               PROVE  Between(msg[w], fdt[hfd[w]])'
    BY DEF MsgBetween
  <2>1. fdt[hfd[w]] \in Conns /\ Between(msg[w], fdt[hfd[w]])
    BY DEF Quiet, InSequence, MsgBetween, Owned, BusyHolds, Busy
  <2>2. msg'[w] = msg[w] /\ fdt'[hfd'[w]] = fdt[hfd[w]]
    BY DEF Quiet
  <2> QED
    BY <2>1, <2>2 DEF Quiet, Between
<1>4. OwnInOrder'
  BY DEF InSequence, Quiet, OwnInOrder
<1> QED
  BY <1>1, <1>2, <1>3, <1>4 DEF InSequence, Quiet

(* readMessage moves the first message that waits to the worker's hands.   *)
LEMMA ReadInSequence ==
  ASSUME Assumptions, Owned, InSequence, NEW w \in Workers, ReadMessage(w)
  PROVE  InSequence'
<1> PICK c : c = fdt[hfd[w]]
  OBVIOUS
<1> PICK m : m = rx[c][1]
  OBVIOUS
<1>1. /\ pc[w] = "read" /\ pc' = [pc EXCEPT ![w] = "echo"]
      /\ hfd' = hfd /\ asked' = asked /\ fdt' = fdt /\ tx' = tx
      /\ rx' = [rx EXCEPT ![c] = <<>>] /\ msg' = [msg EXCEPT ![w] = m]
      /\ rx[c] # <<>>
  BY DEF ReadMessage, Step, Consume, FirstOf, ReadsMessage
<1>2. c \in Conns /\ c \in Socks
  BY <1>1 DEF Owned, BusyHolds, Busy, Socks
<1>3. /\ rx[c] \in Seq(Messages) /\ 1 \in DOMAIN rx[c] /\ m \in Messages
      /\ rx' \in [Socks -> Seq(Messages)]
  BY <1>1, <1>2 DEF InSequence, DataOK
<1>4. /\ rx'[c] = <<>> /\ \A d \in Conns \ {c} : rx'[d] = rx[d]
      /\ \A d \in Conns : rx'[d] \in {rx[d], <<>>}
  BY <1>1, <1>2 DEF InSequence, DataOK, Socks
<1>5. DataOK'
  BY <1>1, <1>3 DEF InSequence, DataOK
<1>6. RxInOrder' /\ TxBefore'
  BY <1>1, <1>4 DEF InSequence, RxInOrder, TxBefore
<1>7. Between(m, c)'
  <2>1. m.conn = c /\ m.seq <= asked[c]
    BY <1>2, <1>3 DEF InSequence, RxInOrder
  <2>2. \A i \in DOMAIN tx[c] : tx[c][i].seq < m.seq
    BY <1>2, <1>3 DEF InSequence, TxBefore
  <2>3. asked'[c] = asked[c] /\ tx'[c] = tx[c] /\ DOMAIN rx'[c] = {}
    BY <1>1, <1>4
  <2> QED
    BY ONLY <1>3, <2>1, <2>2, <2>3 DEF Between
<1>8. MsgBetween'
  <2> SUFFICES ASSUME NEW v \in Workers, pc'[v] = "echo"
               PROVE  Between(msg[v], fdt[hfd[v]])'
    BY DEF MsgBetween
  <2>1. CASE v = w
    BY <2>1, <1>1, <1>7 DEF InSequence, DataOK
  <2>2. CASE v # w
    <3>1. pc[v] = "echo" /\ msg'[v] = msg[v]
      BY <2>2, <1>1 DEF Owned, TypesOK, InSequence, DataOK
    <3>2. fdt[hfd[v]] \in Conns /\ Between(msg[v], fdt[hfd[v]])
      BY <3>1 DEF InSequence, MsgBetween, Owned, BusyHolds, Busy
    <3> QED
      BY <3>1, <3>2, <1>1, <1>4 DEF Between
  <2> QED
    BY <2>1, <2>2
<1>9. OwnInOrder'
  BY <1>1 DEF InSequence, OwnInOrder
<1> QED
  BY <1>5, <1>6, <1>8, <1>9 DEF InSequence

(* What Append does to the messages of one client.                         *)
LEMMA AppendOne ==
  ASSUME NEW S, NEW s \in Seq(S), NEW m \in S
  PROVE  /\ Append(s, m) \in Seq(S) /\ DOMAIN s = 1..Len(s)
         /\ DOMAIN Append(s, m) = 1..(Len(s) + 1)
         /\ \A i \in DOMAIN Append(s, m) :
              \/ i \in DOMAIN s /\ Append(s, m)[i] = s[i]
              \/ i = Len(s) + 1 /\ Append(s, m)[i] = m
OBVIOUS

(* The write is the only one on this connection: no other worker holds it. *)
LEMMA EchoInSequence ==
  ASSUME Assumptions, Owned, InSequence, NEW w \in Workers, Echo(w)
  PROVE  InSequence'
<1> PICK c : c = fdt[hfd[w]]
  OBVIOUS
<1> PICK m : m = msg[w]
  OBVIOUS
<1>1. /\ pc[w] = "echo" /\ pc' = [pc EXCEPT ![w] = "read"]
      /\ hfd' = hfd /\ asked' = asked /\ fdt' = fdt /\ rx' = rx
      /\ tx' = tx \/ tx' = [tx EXCEPT ![c] = Append(@, m)]
      /\ msg' = [msg EXCEPT ![w] = Unset]
  BY DEF Echo, Step, Write
<1>2. c \in Conns /\ c \in Socks /\ Between(m, c)
  BY <1>1 DEF Owned, BusyHolds, Busy, Socks, InSequence, MsgBetween
<1>3. /\ tx \in [Socks -> Seq(Messages)] /\ tx[c] \in Seq(Messages) /\ m \in Messages
      /\ Append(tx[c], m) \in Seq(Messages)
  <2>1. tx \in [Socks -> Seq(Messages)] /\ m \in Messages
    BY <1>2 DEF InSequence, DataOK, Between
  <2>2. tx[c] \in Seq(Messages)
    BY <1>2, <2>1
  <2> QED
    BY <2>1, <2>2, AppendOne
<1>4. /\ tx' \in [Socks -> Seq(Messages)]
      /\ \A d \in Conns \ {c} : tx'[d] = tx[d]
      /\ tx'[c] = tx[c] \/ tx'[c] = Append(tx[c], m)
  <2>1. Conns \subseteq Socks
    BY DEF Socks
  <2>2. CASE tx' = tx
    BY <1>3, <2>2
  <2>3. CASE tx' = [tx EXCEPT ![c] = Append(@, m)]
    BY ONLY <1>2, <1>3, <2>1, <2>3
  <2> QED
    BY <1>1, <2>2, <2>3
<1>5. DataOK'
  BY <1>1, <1>4 DEF InSequence, DataOK
<1>6. RxInOrder'
  BY <1>1 DEF InSequence, RxInOrder
<1>7. \A i \in DOMAIN tx'[c] :
        \/ i \in DOMAIN tx[c] /\ tx'[c][i] = tx[c][i]
        \/ i = Len(tx[c]) + 1 /\ tx'[c][i] = m
  <2>1. \A i \in DOMAIN Append(tx[c], m) :
          \/ i \in DOMAIN tx[c] /\ Append(tx[c], m)[i] = tx[c][i]
          \/ i = Len(tx[c]) + 1 /\ Append(tx[c], m)[i] = m
    <3> PICK s : s = tx[c]
      OBVIOUS
    <3>1. \A i \in DOMAIN Append(s, m) :
            \/ i \in DOMAIN s /\ Append(s, m)[i] = s[i]
            \/ i = Len(s) + 1 /\ Append(s, m)[i] = m
      BY ONLY <1>3, s = tx[c], AppendOne
    <3> QED
      BY <3>1
  <2>2. CASE tx'[c] = Append(tx[c], m)
    BY ONLY <2>1, <2>2, Zenon
  <2>3. CASE tx'[c] = tx[c]
    BY ONLY <2>3, Zenon
  <2> QED
    BY <1>4, <2>2, <2>3
<1>8. TxBefore'
  <2> SUFFICES ASSUME NEW d \in Conns, NEW i \in DOMAIN tx'[d]
               PROVE  /\ tx'[d][i].seq <= asked[d]
                      /\ \A j \in DOMAIN rx[d] : tx'[d][i].seq < rx[d][j].seq
    BY <1>1 DEF TxBefore
  <2>1. CASE d = c /\ i = Len(tx[c]) + 1 /\ tx'[c][i] = m
    BY <1>2, <2>1 DEF Between
  <2>2. CASE i \in DOMAIN tx[d] /\ tx'[d][i] = tx[d][i]
    BY <2>2 DEF InSequence, TxBefore
  <2> QED
    BY <1>4, <1>7, <2>1, <2>2
<1>9. MsgBetween'
  <2> SUFFICES ASSUME NEW v \in Workers, pc'[v] = "echo"
               PROVE  Between(msg[v], fdt[hfd[v]])'
    BY DEF MsgBetween
  <2>1. v # w /\ pc[v] = "echo" /\ msg'[v] = msg[v]
    BY <1>1 DEF Owned, TypesOK, InSequence, DataOK
  <2>2. /\ fdt[hfd[v]] \in Conns /\ Between(msg[v], fdt[hfd[v]])
        /\ fdt[hfd[v]] # c
    BY <1>1, <2>1
    DEF InSequence, MsgBetween, Owned, BusyHolds, BusyAlone, OneFd, Busy,
        Assumptions, SocketsAssumption
  <2> PICK d \in Conns : d = fdt[hfd[v]]
    BY <2>2
  <2>3. asked'[d] = asked[d] /\ rx'[d] = rx[d] /\ tx'[d] = tx[d]
    BY <1>1, <1>4, <2>2
  <2>4. msg'[v] = msg[v] /\ fdt'[hfd'[v]] = d
    BY <1>1, <2>1
  <2>5. Between(msg[v], d)
    BY <2>2
  <2> QED
    BY ONLY <2>3, <2>4, <2>5 DEF Between
<1>10. OwnInOrder'
  <2> SUFFICES ASSUME NEW d \in Conns, NEW i \in 1..Len(tx'[d]), NEW j \in 1..Len(tx'[d])
               PROVE  /\ tx'[d][i].conn = d
                      /\ i < j => tx'[d][i].seq < tx'[d][j].seq
    BY DEF OwnInOrder
  <2>1. CASE tx'[d] = tx[d]
    BY <2>1 DEF InSequence, OwnInOrder
  <2>2. CASE d = c /\ tx'[d] = Append(tx[c], m)
    <3>1. DOMAIN tx'[c] = 1..Len(tx'[c]) /\ DOMAIN tx[c] = 1..Len(tx[c]) /\ Len(tx[c]) \in Nat
      BY <1>2, <1>3, <1>4, AppendOne
    <3>2. i \in DOMAIN tx'[c] /\ j \in DOMAIN tx'[c]
      BY <2>2, <3>1
    <3>3. \A k \in DOMAIN tx[c] : tx[c][k].conn = c /\ tx[c][k].seq < m.seq
      BY <1>2, <3>1 DEF InSequence, OwnInOrder, Between
    <3>4. CASE j \in DOMAIN tx[c] /\ tx'[c][j] = tx[c][j]
      <4>1. CASE i \in DOMAIN tx[c] /\ tx'[c][i] = tx[c][i]
        <5>1. i < j => tx[c][i].seq < tx[c][j].seq
          BY <1>2, <3>1, <3>4, <4>1 DEF InSequence, OwnInOrder
        <5> QED
          BY <2>2, <3>3, <3>4, <4>1, <5>1
      <4>2. CASE i = Len(tx[c]) + 1 /\ tx'[c][i] = m
        BY <1>2, <2>2, <3>1, <3>4, <4>2 DEF Between
      <4> QED
        BY <1>7, <3>2, <2>2, <4>1, <4>2
    <3>5. CASE j = Len(tx[c]) + 1 /\ tx'[c][j] = m
      <4>1. CASE i \in DOMAIN tx[c] /\ tx'[c][i] = tx[c][i]
        BY <2>2, <3>3, <3>5, <4>1
      <4>2. CASE i = Len(tx[c]) + 1 /\ tx'[c][i] = m
        BY <1>2, <2>2, <3>1, <3>5, <4>2 DEF Between
      <4> QED
        BY <1>7, <3>2, <2>2, <4>1, <4>2
    <3> QED
      BY <1>7, <3>2, <3>4, <3>5
  <2> QED
    BY <1>4, <2>1, <2>2
<1> QED
  BY <1>5, <1>6, <1>8, <1>9, <1>10 DEF InSequence

(* The numbers of messages are naturals.                                   *)
LEMMA SeqNat ==
  ASSUME Assumptions, NEW s \in Seq(Messages), NEW k \in DOMAIN s
  PROVE  s[k].seq \in Nat
<1>1. s[k] \in Messages
  OBVIOUS
<1> QED
  BY <1>1 DEF Messages, Assumptions, SocketsAssumption

(* A client's next message has a number above all of its others.           *)
LEMMA SendInSequence ==
  ASSUME Assumptions, Owned, InSequence, NEW c \in Conns, ClientNext(c),
         UNCHANGED <<dispatchVars, loopVars>>
  PROVE  InSequence'
<1>1. UNCHANGED <<fdt, tx, pc, hfd, msg>>
  BY DEF ClientNext, ClientConnect, ClientSend, dispatchVars, loopVars
<1>2. c \in Socks /\ Conns \subseteq Socks
  BY DEF Socks
<1>3. CASE ClientConnect(c)
  <2>1. Quiet
    BY <1>1, <1>3 DEF Quiet, ClientConnect, InSequence, DataOK
  <2> QED
    BY <2>1, QuietStep
<1>4. ASSUME NEW v \in Verbs, NEW p \in Ports, ClientSend(c, v, p) PROVE InSequence'
  <2> PICK m : m = [conn |-> c, seq |-> asked[c] + 1, port |-> p, verb |-> v]
    OBVIOUS
  <2>1. /\ asked \in [Conns -> 0..MaxMsgs] /\ asked[c] < MaxMsgs
        /\ asked' = [asked EXCEPT ![c] = @ + 1]
        /\ rx' = [rx EXCEPT ![c] = Append(@, m)]
    BY <1>4 DEF ClientSend, InSequence, DataOK, Assumptions, SocketsAssumption
  <2>2. /\ asked[c] + 1 \in 1..MaxMsgs /\ asked' \in [Conns -> 0..MaxMsgs]
        /\ asked'[c] = asked[c] + 1
        /\ \A d \in Conns \ {c} : asked'[d] = asked[d]
        /\ \A d \in Conns : asked[d] \in Nat
    BY <2>1 DEF Assumptions, SocketsAssumption
  <2>3. m \in Messages /\ m.conn = c /\ m.seq = asked[c] + 1
    BY <2>2 DEF Messages, Assumptions, SocketsAssumption
  <2>4. /\ rx \in [Socks -> Seq(Messages)] /\ rx[c] \in Seq(Messages)
        /\ Append(rx[c], m) \in Seq(Messages)
    <3>1. rx \in [Socks -> Seq(Messages)]
      BY DEF InSequence, DataOK
    <3>2. rx[c] \in Seq(Messages)
      BY <1>2, <3>1
    <3> QED
      BY <2>3, <3>1, <3>2, AppendOne
  <2>5. /\ rx' \in [Socks -> Seq(Messages)] /\ rx'[c] = Append(rx[c], m)
        /\ \A d \in Conns \ {c} : rx'[d] = rx[d]
    BY ONLY <1>2, <2>1, <2>4
  <2>6. /\ DOMAIN rx[c] = 1..Len(rx[c]) /\ Len(rx[c]) \in Nat
        /\ \A i \in DOMAIN rx'[c] : \/ i \in DOMAIN rx[c] /\ rx'[c][i] = rx[c][i]
                                    \/ i = Len(rx[c]) + 1 /\ rx'[c][i] = m
    <3> PICK s : s = rx[c]
      OBVIOUS
    <3>1. /\ DOMAIN s = 1..Len(s) /\ Len(s) \in Nat
          /\ \A i \in DOMAIN Append(s, m) :
               \/ i \in DOMAIN s /\ Append(s, m)[i] = s[i]
               \/ i = Len(s) + 1 /\ Append(s, m)[i] = m
      BY ONLY <2>3, <2>4, s = rx[c], AppendOne
    <3> QED
      BY <2>5, <3>1
  <2>7. DataOK'
    BY <1>1, <2>2, <2>5 DEF InSequence, DataOK
  <2>8. RxInOrder'
    <3> SUFFICES ASSUME NEW d \in Conns, NEW i \in DOMAIN rx'[d], NEW j \in DOMAIN rx'[d]
                 PROVE  /\ rx'[d][i].conn = d /\ rx'[d][i].seq <= asked'[d]
                        /\ i < j => rx'[d][i].seq < rx'[d][j].seq
      BY DEF RxInOrder
    <3>1. CASE d # c
      BY <3>1, <2>2, <2>5 DEF InSequence, RxInOrder
    <3>2. CASE d = c
      <4>1. \A k \in DOMAIN rx[c] : /\ rx[c][k].conn = c /\ rx[c][k].seq \in Nat
                                    /\ rx[c][k].seq <= asked[c]
        BY <2>4, SeqNat DEF InSequence, RxInOrder
      <4>2. CASE j \in DOMAIN rx[c] /\ rx'[c][j] = rx[c][j]
        <5>1. CASE i \in DOMAIN rx[c] /\ rx'[c][i] = rx[c][i]
          <6>1. i < j => rx[c][i].seq < rx[c][j].seq
            BY <4>2, <5>1 DEF InSequence, RxInOrder
          <6>2. rx[c][i].seq <= asked'[c]
            BY <2>2, <4>1, <5>1
          <6> QED
            BY <3>2, <4>1, <4>2, <5>1, <6>1, <6>2
        <5>2. CASE i = Len(rx[c]) + 1 /\ rx'[c][i] = m
          <6>1. ~(i < j)
            BY <2>6, <4>2, <5>2
          <6> QED
            BY <2>2, <2>3, <3>2, <5>2, <6>1
        <5> QED
          BY <2>6, <3>2, <5>1, <5>2
      <4>3. CASE j = Len(rx[c]) + 1 /\ rx'[c][j] = m
        <5>1. CASE i \in DOMAIN rx[c] /\ rx'[c][i] = rx[c][i]
          BY <2>2, <2>3, <3>2, <4>1, <4>3, <5>1
        <5>2. CASE i = Len(rx[c]) + 1 /\ rx'[c][i] = m
          BY <2>2, <2>3, <2>6, <3>2, <4>3, <5>2
        <5> QED
          BY <2>6, <3>2, <5>1, <5>2
      <4> QED
        BY <2>6, <3>2, <4>2, <4>3
    <3> QED
      BY <3>1, <3>2
  <2>9. TxBefore'
    <3> SUFFICES ASSUME NEW d \in Conns, NEW i \in DOMAIN tx[d]
                 PROVE  /\ tx[d][i].seq <= asked'[d]
                        /\ \A j \in DOMAIN rx'[d] : tx[d][i].seq < rx'[d][j].seq
      BY <1>1 DEF TxBefore
    <3>1. tx[d][i].seq \in Nat /\ tx[d][i].seq <= asked[d]
      <4>1. tx[d] \in Seq(Messages)
        BY <1>2 DEF InSequence, DataOK
      <4> QED
        BY <4>1, SeqNat DEF InSequence, TxBefore
    <3>2. \A j \in DOMAIN rx[d] : tx[d][i].seq < rx[d][j].seq
      BY DEF InSequence, TxBefore
    <3>3. CASE d # c
      BY <2>2, <2>5, <3>1, <3>2, <3>3
    <3>4. CASE d = c
      <4>1. tx[d][i].seq < m.seq /\ tx[d][i].seq <= asked'[d]
        BY <2>2, <2>3, <3>1, <3>4
      <4> QED
        BY <2>6, <3>2, <3>4, <4>1
    <3> QED
      BY <3>3, <3>4
  <2>10. MsgBetween'
    <3> SUFFICES ASSUME NEW w \in Workers, pc[w] = "echo"
                 PROVE  Between(msg[w], fdt[hfd[w]])'
      BY <1>1 DEF MsgBetween
    <3> PICK d \in Conns : d = fdt[hfd[w]] /\ Between(msg[w], d)
      BY DEF InSequence, MsgBetween, Owned, BusyHolds, Busy
    <3>1. msg[w].seq \in Nat /\ msg[w].seq <= asked[d]
      BY DEF Between, Messages, Assumptions, SocketsAssumption
    <3>2. CASE d # c
      <4>1. asked'[d] = asked[d] /\ rx'[d] = rx[d] /\ tx'[d] = tx[d]
        BY <1>1, <2>2, <2>5, <3>2
      <4>2. msg'[w] = msg[w] /\ fdt'[hfd'[w]] = d
        BY <1>1
      <4> QED
        BY ONLY <4>1, <4>2, Between(msg[w], d) DEF Between
    <3>3. CASE d = c
      <4>1. msg[w].seq <= asked'[d] /\ msg[w].seq < m.seq
        BY <2>2, <2>3, <3>1, <3>3
      <4>2. \A j \in DOMAIN rx'[d] : msg[w].seq < rx'[d][j].seq
        BY <2>6, <3>3, <4>1 DEF Between
      <4> QED
        BY <1>1, <4>1, <4>2 DEF Between
    <3> QED
      BY <3>2, <3>3
  <2>11. OwnInOrder'
    BY <1>1 DEF InSequence, OwnInOrder
  <2> QED
    BY <2>7, <2>8, <2>9, <2>10, <2>11 DEF InSequence
<1> QED
  BY <1>3, <1>4 DEF ClientNext

(* A read takes everything that waits for one connection, or nothing.      *)
LEMMA Emptied ==
  ASSUME NEW s, Conns \subseteq Socks, rx \in [Socks -> Seq(Messages)],
         rx' = rx \/ rx' = [rx EXCEPT ![s] = <<>>]
  PROVE  /\ rx' \in [Socks -> Seq(Messages)]
         /\ \A d \in Conns : rx'[d] \in {rx[d], <<>>}
<1>1. <<>> \in Seq(Messages)
  OBVIOUS
<1>2. CASE rx' = rx
  BY <1>2
<1>3. CASE rx' = [rx EXCEPT ![s] = <<>>]
  BY <1>1, <1>3
<1> QED
  BY <1>2, <1>3

(* What the peers do besides sending is quiet.                             *)
LEMMA EnvironmentInSequence ==
  ASSUME Assumptions, Owned, InSequence, Environment PROVE InSequence'
<1>1. UNCHANGED loopVars
  BY DEF Environment
<1>2. ASSUME NEW c \in Conns, PeerNext(c) \/ Forget(c) PROVE InSequence'
  <2>1. /\ UNCHANGED <<fdt, tx, asked, pc, hfd, msg>>
        /\ rx' = rx \/ rx' = [rx EXCEPT ![c] = <<>>]
    BY <1>1, <1>2 DEF PeerNext, PeerCloses, PeerResets, Forget, dispatchVars, loopVars
  <2>2. rx \in [Socks -> Seq(Messages)] /\ Conns \subseteq Socks
    BY DEF InSequence, DataOK, Socks
  <2>3. rx' \in [Socks -> Seq(Messages)] /\ \A d \in Conns : rx'[d] \in {rx[d], <<>>}
    BY <2>1, <2>2, Emptied
  <2>4. Quiet
    BY <2>1, <2>3 DEF Quiet, InSequence, DataOK
  <2> QED
    BY <2>4, QuietStep
<1>3. ASSUME NEW c \in Conns, ClientNext(c), UNCHANGED dispatchVars PROVE InSequence'
  BY <1>1, <1>3, SendInSequence
<1> QED
  BY <1>2, <1>3 DEF Environment

(* So is what the other threads do, and the rest of a handler.             *)
LEMMA AcceptQuiet ==
  ASSUME Assumptions, Owned, InSequence, NEW c \in Conns, Accept(c), UNCHANGED loopVars
  PROVE  Quiet
<1>1. fdt' = [fdt EXCEPT ![Lowest] = c] /\ UNCHANGED <<rx, tx, asked, pc, hfd, msg>>
  BY DEF Accept, loopVars
<1>2. fdt[Lowest] = Free
  BY LowestFree DEF Accept
<1>3. \A w \in Workers : pc[w] = "echo" => hfd[w] # Lowest /\ hfd[w] \in Fds
  BY <1>2 DEF Owned, BusyHolds, Busy, Assumptions, SocketsAssumption
<1> QED
  BY <1>1, <1>3 DEF Quiet, InSequence, DataOK, Owned, TypesOK

(* Every statement of a handler keeps the order.                           *)
LEMMA HandleInSequence ==
  ASSUME Assumptions, Owned, InSequence, NEW w \in Workers, LoopbackStep(w)
  PROVE  InSequence'
<1>1. CASE ReadMessage(w)
  BY <1>1, ReadInSequence
<1>2. CASE Echo(w)
  BY <1>2, EchoInSequence
<1>3. CASE Flush(w) \/ Recv(w) \/ ReadThrows(w) \/ ReadEofOrBad(w)
  <2>1. /\ UNCHANGED <<fdt, tx, asked, msg>>
        /\ rx' = rx \/ rx' = [rx EXCEPT ![fdt[hfd[w]]] = <<>>]
        /\ \E to \in {"flush", "recv", "remove"} : pc' = [pc EXCEPT ![w] = to]
        /\ hfd' = hfd \/ hfd' = [hfd EXCEPT ![w] = NoFd]
    BY <1>3 DEF Flush, Recv, ReadThrows, ReadEofOrBad, Step, Finish, Consume, loopVars
  <2>2. rx \in [Socks -> Seq(Messages)] /\ Conns \subseteq Socks
    BY DEF InSequence, DataOK, Socks
  <2>3. rx' \in [Socks -> Seq(Messages)] /\ \A d \in Conns : rx'[d] \in {rx[d], <<>>}
    BY <2>1, <2>2, Emptied
  <2>4. \A v \in Workers : pc'[v] = "echo" => pc[v] = "echo" /\ hfd'[v] = hfd[v]
    BY <2>1 DEF Owned, TypesOK
  <2>5. Quiet
    BY <2>1, <2>3, <2>4 DEF Quiet, InSequence, DataOK
  <2> QED
    BY <2>5, QuietStep
<1> QED
  BY <1>1, <1>2, <1>3 DEF LoopbackStep

(* Every step of the server and of its clients keeps the order.            *)
LEMMA InSequenceStep ==
  ASSUME Assumptions, Owned, InSequence, [Next]_vars PROVE InSequence'
<1>1. ASSUME UNCHANGED <<netVars, pc, hfd, loopVars>> \/ UNCHANGED <<fdt, rx, tx, asked, pc, hfd, msg>>
      PROVE  InSequence'
  <2>1. UNCHANGED <<fdt, rx, tx, asked, pc, hfd, msg>>
    BY <1>1 DEF netVars, loopVars
  <2>2. Quiet
    BY <2>1 DEF Quiet, InSequence, DataOK
  <2> QED
    BY <2>2, QuietStep
<1>2. CASE MainStep \/ StartWorkerFails
  <2>1. UNCHANGED <<fdt, rx, tx, asked, pc, hfd, msg>>
    BY <1>2 DEF MainStep, StartWorkerFails, StartListener, StartWorker, StartMonitor, Join,
                Destroy, Exit, Main, dispatchVars, loopVars
  <2> QED
    BY <1>1, <2>1
<1>3. CASE Crash \/ UNCHANGED vars \/ MonitorStep \/ ListenerEnds
  <2>1. UNCHANGED <<fdt, rx, tx, asked, pc, hfd, msg>>
    BY <1>3 DEF Crash, vars, MonitorStep, TestActive, PrintSocket, Monitor, ListenerEnds,
                netVars, dispatchVars, loopVars
  <2> QED
    BY <1>1, <2>1
<1>4. CASE AcceptOne
  BY <1>4, AcceptQuiet, QuietStep DEF AcceptOne
<1>5. ASSUME NEW w \in Workers, WorkerStep(w) PROVE InSequence'
  <2>1. CASE NoteSocket(w) \/ Activate(w)
    BY <2>1, <1>1 DEF NoteSocket, Activate, dispatchVars
  <2>2. CASE TakeNext(w)
    <3>1. /\ UNCHANGED <<fdt, rx, tx, asked, msg>>
          /\ pc[w] = "remove" /\ pc' = [pc EXCEPT ![w] = "read"]
          /\ \E f : hfd' = [hfd EXCEPT ![w] = f]
      BY <2>2 DEF TakeNext, Take, netVars, loopVars
    <3>2. \A v \in Workers : pc'[v] = "echo" => pc[v] = "echo" /\ hfd'[v] = hfd[v]
      BY <3>1 DEF Owned, TypesOK
    <3>3. Quiet
      BY <3>1, <3>2 DEF Quiet, InSequence, DataOK
    <3> QED
      BY <3>3, QuietStep
  <2>3. CASE Handle(w)
    BY <2>3, HandleInSequence DEF Handle
  <2> QED
    BY <1>5, <2>1, <2>2, <2>3 DEF WorkerStep
<1>6. CASE Environment
  BY <1>6, EnvironmentInSequence
<1> QED
  BY <1>2, <1>3, <1>4, <1>5, <1>6 DEF Next, ListenerStep

(* What a handler still writes to was not shut down.                       *)
NotShut == \A w \in Workers : pc[w] \in {"read", "echo", "flush"} => fdt[hfd[w]] \notin shut

(* A connection is shut down by the one worker that holds it, and what is  *)
(* queued never was.                                                       *)
LEMMA NotShutStep ==
  ASSUME Assumptions, Owned, NotShut, [Next]_vars PROVE NotShut'
<1> USE DEF NotShut
<1>1. CASE UNCHANGED fdVars
  BY <1>1 DEF fdVars
<1>2. ASSUME NEW c \in Conns, Accept(c), UNCHANGED shut PROVE NotShut'
  <2>1. fdt' = [fdt EXCEPT ![Lowest] = c] /\ UNCHANGED <<pc, hfd>> /\ fdt[Lowest] = Free
    BY <1>2, LowestFree DEF Accept
  <2>2. \A w \in Workers : Busy(w) => hfd[w] # Lowest
    BY <2>1 DEF Owned, BusyHolds, Assumptions, SocketsAssumption
  <2> QED
    BY <1>2, <2>1, <2>2 DEF Owned, TypesOK, Busy
<1>3. ASSUME NEW w \in Workers, Take(w), UNCHANGED shut PROVE NotShut'
  <2>1. /\ queue # <<>> /\ hfd' = [hfd EXCEPT ![w] = Head(queue)] /\ fdt' = fdt
        /\ pc' = [pc EXCEPT ![w] = "read"]
    BY <1>3 DEF Take, netVars
  <2>2. fdt[Head(queue)] \notin shut
    BY <2>1, 1 \in DOMAIN queue DEF Owned, TypesOK, QueuedFresh
  <2> QED
    BY <1>3, <2>1, <2>2 DEF Owned, TypesOK
<1>4. ASSUME NEW w \in Workers, LoopbackStep(w) PROVE NotShut'
  <2>1. CASE Flush(w)
    <3>1. /\ Busy(w) /\ pc' = [pc EXCEPT ![w] = "recv"] /\ UNCHANGED <<fdt, hfd>>
          /\ shut' = shut \cup {c \in Conns : c = Behind(hfd[w])}
      BY <2>1 DEF Flush, Step, Busy
    <3>2. ASSUME NEW v \in Workers, pc'[v] \in {"read", "echo", "flush"}
          PROVE  fdt[hfd[v]] \notin shut'
      <4>1. v # w /\ Busy(v) /\ fdt[hfd[v]] \notin shut
        BY <3>1, <3>2 DEF Owned, TypesOK, Busy
      <4>2. fdt[hfd[v]] # fdt[hfd[w]]
        BY <3>1, <4>1
        DEF Owned, BusyHolds, BusyAlone, OneFd, Assumptions, SocketsAssumption
      <4> QED
        BY <3>1, <4>1, <4>2 DEF Behind, Owned, BusyHolds
    <3> QED
      BY <3>1, <3>2
  <2>2. CASE Recv(w) \/ ReadThrows(w)
    BY <2>2 DEF Recv, ReadThrows, Finish, loopVars, Owned, TypesOK
  <2>3. CASE ReadMessage(w) \/ Echo(w) \/ ReadEofOrBad(w)
    BY <2>3 DEF ReadMessage, Echo, ReadEofOrBad, Step, loopVars, Owned, TypesOK
  <2> QED
    BY <1>4, <2>1, <2>2, <2>3 DEF LoopbackStep
<1> QED
  BY <1>1, <1>2, <1>3, <1>4, FdSteps

(***************************************************************************)
(* However many clients and messages there are, and whatever the workers   *)
(* do at the same time: a client reads its own messages back, in the order *)
(* it sent them and none twice, and nothing is written to it after flush   *)
(* has shut its connection down.                                           *)
(***************************************************************************)
THEOREM EchoedInOrder == Spec => []EchoesInOrder
<1>1. Assumptions
  BY SocketsAssumption, LoopbackAssumption, ServerAssumption DEF Assumptions
<1>2. Init => Owned
  BY <1>1, OwnedInit
<1>3. Init => InSequence
  BY <1>1
  DEF Init, NetInit, LoopbackInit, DispatchInit, InSequence, DataOK, RxInOrder, TxBefore,
      MsgBetween, OwnInOrder, Socks, Assumptions, SocketsAssumption
<1>4. Init => NotShut
  BY DEF Init, LoopbackInit, DispatchInit, NotShut
<1>5. /\ Owned /\ InSequence /\ [Next]_vars => Owned' /\ InSequence'
      /\ Owned /\ NotShut /\ [Next]_vars => NotShut'
  BY <1>1, OwnedStep, InSequenceStep, NotShutStep
<1>6. Owned /\ InSequence /\ NotShut => EchoesInOrder
  <2>1. Owned /\ NotShut => NoneAfterFlush
    BY DEF Owned, BusyHolds, Busy, NotShut, NoneAfterFlush, Behind
  <2> QED
    BY <2>1 DEF InSequence, EchoesInOrder
<1> QED
  BY <1>2, <1>3, <1>4, <1>5, <1>6, PTL DEF Spec
=============================================================================
