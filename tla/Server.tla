------------------------------- MODULE Server -------------------------------
(***************************************************************************)
(* Server::listen and the threads it starts, with the loopback handler:    *)
(* the listener first, then the workers, then the monitor that reads the   *)
(* workers' fields without a lock.  When the listener ends, listen returns *)
(* and destroys what the other threads still use, until the process exits. *)
(***************************************************************************)
EXTENDS Loopback

CONSTANT Table \* worker_v: the workers in the order of their creation

ASSUME ServerAssumption == /\ Table \in Seq(Workers)
                           /\ Range(Table) = Workers /\ IsInjective(Table)

VARIABLES main,   \* where Server::listen is: start, join or unwind
          lst,    \* the listener thread: none, up, failed or ended
          place,  \* where each Worker::main is around its handler
          active, \* Worker::active
          asock,  \* Worker::active_socket
          mon,    \* the monitor thread: where it is and the index it scans
          gone    \* the locals of Server::listen that were destroyed

workVars   == <<place, active, asock>>
serverVars == <<main, lst, mon, gone>>
vars       == <<netVars, dispatchVars, loopVars, workVars, serverVars>>

Init == /\ NetInit
        /\ LoopbackInit
        /\ main = "start"
        /\ lst = "none"
        /\ place = [w \in Workers |-> "none"]
        /\ active = [w \in Workers |-> FALSE]
        /\ asock = [w \in Workers |-> NoFd]
        /\ mon = [at |-> "none", i |-> 0]
        /\ gone = {}

-----------------------------------------------------------------------------
(* Server::listen.  Of the three calls of start only the one for a worker  *)
(* has its result looked at.                                               *)

NotStarted == {i \in DOMAIN Table : place[Table[i]] = "none"}

Main(from, to) == /\ proc = "up"
                  /\ main = from
                  /\ main' = to
                  /\ UNCHANGED <<fdt, peer, rx, tx, asked, dispatchVars,
                                 loopVars, active, asock>>

StartListener == /\ Main("start", "start")
                 /\ lst = "none"
                 /\ lst' \in {"up", "failed"}
                 /\ UNCHANGED <<proc, place, mon, gone>>

(* Mutant: the first worker is created and not started.                    *)
StartAllButOne == /\ Main("start", "start")
                  /\ lst # "none" /\ NotStarted # {}
                  /\ \E i \in NotStarted :
                       /\ \A j \in NotStarted : i <= j
                       /\ place' = [place EXCEPT ![Table[i]] = IF i = 1 THEN "lost" ELSE "remove"]
                  /\ UNCHANGED <<proc, lst, mon, gone>>

StartWorker == /\ Main("start", "start")
               /\ lst # "none" /\ NotStarted # {}
               /\ \E i \in NotStarted :
                    /\ \A j \in NotStarted : i <= j
                    /\ place' = [place EXCEPT ![Table[i]] = "remove"]
               /\ UNCHANGED <<proc, lst, mon, gone>>

(* exit(-1)                                                                *)
StartWorkerFails == /\ Main("start", "start")
                    /\ lst # "none" /\ NotStarted # {}
                    /\ proc' = "exit1"
                    /\ UNCHANGED <<lst, place, mon, gone>>

StartMonitor == /\ Main("start", "join")
                /\ lst # "none" /\ NotStarted = {}
                /\ mon' \in {[at |-> "test", i |-> 1], mon}
                /\ UNCHANGED <<proc, lst, place, gone>>

(* Mutant: nobody waits for the listener.                                  *)
JoinNothing == /\ Main("join", "unwind")
               /\ UNCHANGED <<proc, lst, place, mon, gone>>

(* Mutant: the workers, which never end, are joined as well.               *)
JoinWorkersToo == /\ Main("join", "unwind")
                  /\ lst \in {"ended", "failed"}
                  /\ \A w \in Workers : place[w] = "ended"
                  /\ UNCHANGED <<proc, lst, place, mon, gone>>

(* pthread_join.  When the listener could not be started its pthread_t was *)
(* never written: the join fails or the process crashes in it.             *)
Join == /\ \/ Main("join", "unwind") /\ lst \in {"ended", "failed"} /\ UNCHANGED proc
           \/ Main("join", "join") /\ lst = "failed" /\ proc' = "abort"
        /\ UNCHANGED <<lst, place, mon, gone>>

(* The return destroys the locals, the last first; then main returns.  The *)
(* Listener, which its ended thread was the last to use, is left out.  On  *)
(* macOS the destructor of the queue does not wait for threads that sleep  *)
(* on its condition variable.                                              *)
Locals == <<"monitor", "workers", "queue">>

Destroy == /\ Main("unwind", "unwind")
           /\ \E k \in DOMAIN Locals :
                /\ gone = {Locals[j] : j \in 1..(k - 1)}
                /\ gone' = gone \cup {Locals[k]}
           /\ UNCHANGED <<proc, lst, place, mon>>

Exit == /\ Main("unwind", "unwind")
        /\ gone = Range(Locals)
        /\ proc' = "stopped"
        /\ UNCHANGED <<lst, place, mon, gone>>

MainStep == \/ StartListener \/ StartWorker \/ StartMonitor
            \/ Join \/ Destroy \/ Exit

-----------------------------------------------------------------------------
(* The listener thread.                                                    *)

AcceptOne == /\ lst = "up"
             /\ \E c \in Conns : Accept(c)
             /\ UNCHANGED <<loopVars, workVars, serverVars>>

(* accept fails, for whatever reason.                                      *)
ListenerEnds == /\ proc = "up"
                /\ lst = "up"
                /\ lst' = "ended"
                /\ UNCHANGED <<netVars, dispatchVars, loopVars, workVars, main, mon, gone>>

ListenerStep == AcceptOne \/ ListenerEnds

-----------------------------------------------------------------------------
(* Worker::main                                                            *)

Around(w, from, to) == /\ proc = "up"
                       /\ place[w] = from
                       /\ place' = [place EXCEPT ![w] = to]
                       /\ UNCHANGED serverVars

TakeNext(w) == /\ Around(w, "remove", "took")
               /\ Take(w)
               /\ UNCHANGED <<loopVars, active, asock>>

(* Nothing orders the writes of active_socket and of active for a thread   *)
(* that reads them without a lock: they may become visible either way.     *)
(* Between the two, place names the write that is still to come.           *)
Noted(w, this, other) == \/ Around(w, "took", other)
                         \/ Around(w, this, "handle")

NoteSocket(w) == /\ Noted(w, "socket", "active")
                 /\ asock' = [asock EXCEPT ![w] = hfd[w]]
                 /\ UNCHANGED <<netVars, dispatchVars, loopVars, active>>

Activate(w) == /\ Noted(w, "active", "socket")
               /\ active' = [active EXCEPT ![w] = TRUE]
               /\ UNCHANGED <<netVars, dispatchVars, loopVars, asock>>

(* active = false when the handler returned, or at the top of the loop     *)
(* when it threw.                                                          *)
Handle(w) == /\ LoopbackStep(w)
             /\ \/ /\ pc'[w] # "remove"
                   /\ Around(w, "handle", "handle")
                   /\ UNCHANGED active
                \/ /\ pc'[w] = "remove"
                   /\ Around(w, "handle", "remove")
                   /\ active' = [active EXCEPT ![w] = FALSE]
             /\ UNCHANGED asock

WorkerStep(w) == \/ TakeNext(w) \/ NoteSocket(w) \/ Activate(w)
                 \/ Handle(w)

-----------------------------------------------------------------------------
(* Monitor::main and Monitor::scanWorkerTable.  The ten seconds between    *)
(* scans pass before the test of the first worker.                         *)

Scanned == Table[mon.i]

(* Mutant: the last worker is left out.                                    *)
NextScanShort == [at |-> "test", i |-> (mon.i % (Len(Table) - 1)) + 1]

NextScan == [at |-> "test", i |-> (mon.i % Len(Table)) + 1]

Monitor(from) == /\ proc = "up"
                 /\ mon.at = from
                 /\ UNCHANGED <<netVars, dispatchVars, loopVars, workVars, main, lst, gone>>

(* The read of active, and then that of active_socket.                     *)
TestActive == /\ Monitor("test")
              /\ mon' = IF active[Scanned] THEN [mon EXCEPT !.at = "print"] ELSE NextScan

PrintSocket == /\ Monitor("print")
               /\ mon' = NextScan

MonitorStep == TestActive \/ PrintSocket

-----------------------------------------------------------------------------
(* A thread that uses an object after its destruction goes on as if it     *)
(* were there, or crashes.  A Worker that the monitor holds a shared_ptr   *)
(* to outlives the table.                                                  *)
WorkerGone(w) == "workers" \in gone /\ ~(mon.at = "print" /\ Scanned = w)

UsesGone == \/ \E w \in Workers : \/ place[w] \notin {"none", "remove"} /\ WorkerGone(w)
                                  \/ place[w] = "remove" /\ "queue" \in gone
            \/ mon.at \in {"test", "print"} /\ gone # {}

Crash == /\ proc = "up"
         /\ UsesGone
         /\ proc' = "abort"
         /\ UNCHANGED <<fdt, peer, rx, tx, asked, dispatchVars, loopVars, workVars, serverVars>>

Environment == /\ proc = "up"
               /\ \/ \E c \in Conns : PeerNext(c)
                  \/ \E c \in Conns : Forget(c)
                  \/ \E c \in Conns : ClientNext(c) /\ UNCHANGED dispatchVars
               /\ UNCHANGED <<loopVars, workVars, serverVars>>

Next == \/ MainStep \/ StartWorkerFails \/ Crash
        \/ ListenerStep
        \/ \E w \in Workers : WorkerStep(w)
        \/ MonitorStep
        \/ Environment

(***************************************************************************)
(* The threads of the server run, the monitor's sleep ends; threads need   *)
(* not fail to start, accept need not fail, and the clients need not do    *)
(* anything.                                                               *)
(***************************************************************************)
Spec == /\ Init /\ [][Next]_vars
        /\ WF_vars(MainStep) /\ WF_vars(AcceptOne) /\ WF_vars(MonitorStep)
        /\ \A w \in Workers : WF_vars(WorkerStep(w))

-----------------------------------------------------------------------------
(***************************************************************************)
(* A worker is not lost with its client: when the client of an accepted    *)
(* connection hung up or reset, no worker stays with it for ever, flush    *)
(* included, although the descriptor itself is never given back.           *)
(***************************************************************************)
Serving(w, c) == pc[w] # "remove" /\ Behind(hfd[w]) = c

HangupFreesWorker ==
  \A w \in Workers :
    (\E c \in Conns : Serving(w, c) /\ peer[c] \in {"fin", "rst"})
      ~> (pc[w] = "remove" \/ proc # "up")

(***************************************************************************)
(* A connection is served by one worker at most once in its life: nothing  *)
(* is closed, so no number comes back through the queue.                   *)
(***************************************************************************)
ServedOnce ==
  [][\A v, w \in Workers, c \in Conns :
       (~Serving(w, c) /\ Serving(w, c)') => ~Serving(v, c) /\ c \notin shut]_vars

(***************************************************************************)
(* Connections accepted before there are workers, and all later ones, are  *)
(* not left in the queue beside a worker that has nothing to do: listen    *)
(* starts every worker, and each comes back to the queue.                  *)
(***************************************************************************)
Idle(w) == pc[w] = "remove"

NoIdlenessBesideWork ==
  [](queue # <<>> /\ (\E w \in Workers : Idle(w))
       => <>(queue = <<>> \/ (\A w \in Workers : ~Idle(w)) \/ proc # "up"))

(***************************************************************************)
(* What the monitor is for (Server.cpp:85): a worker that never comes back *)
(* from its handler is reported again and again, with its own socket,      *)
(* whatever the monitor's unlocked reads met before.                       *)
(***************************************************************************)
Stuck(w) == place[w] = "handle" /\ proc = "up" /\ mon.at # "none"

StuckIsReported ==
  \A w \in Workers :
    <>[]Stuck(w)
      => []<>(mon.at = "print" /\ Scanned = w /\ asock[w] = hfd[w])

(***************************************************************************)
(* While the listener runs, the objects the threads share exist: nothing   *)
(* is destroyed, and no thread crashes on a destroyed queue, table or      *)
(* monitor.                                                                *)
(***************************************************************************)
NothingGoneWhileListening == gone # {} \/ proc = "abort" => lst # "up"

(***************************************************************************)
(* "wait for the listener - if it ends kill everything" (Server.cpp:90):   *)
(* the process ends, whatever the workers and the monitor are blocked in.  *)
(***************************************************************************)
ListenerEndKillsAll == lst \in {"ended", "failed"} ~> proc # "up"
=============================================================================
