------------------------------ MODULE Dispatch ------------------------------
(***************************************************************************)
(* The listener thread and the part of a worker thread that is the same    *)
(* for every protocol: descriptors travel from accept through the queue    *)
(* (atomic here, see Queue and FifoQueue) to Worker::main, which runs one  *)
(* handler at a time and swallows the exceptions it throws.                *)
(***************************************************************************)
EXTENDS Sockets

VARIABLES queue, \* accepted descriptors nobody took yet
          pc,    \* what each worker does next
          hfd    \* the descriptor of the connection each worker handles

dispatchVars == <<queue, pc, hfd>>

DispatchInit == /\ queue = <<>>
                /\ pc = [w \in Workers |-> "remove"]
                /\ hfd = [w \in Workers |-> NoFd]

(* accept and Queue::add.  A connection waits in the backlog from the      *)
(* client's connect until it has a descriptor.  When a call that sets up   *)
(* the listening socket fails this is only logged: no client gets in, and  *)
(* accept fails.                                                           *)
Backlog == {c \in Conns : peer[c] \in {"open", "fin", "rst"} /\ ~Open(c)}

(* Mutant: the descriptor is queued twice.                                 *)
AcceptTwice(c) == /\ proc = "up"
                  /\ c \in Backlog /\ peer[c] # "rst"
                  /\ FreeFds # {}
                  /\ fdt' = [fdt EXCEPT ![Lowest] = c]
                  /\ queue' = queue \o <<Lowest, Lowest>>
                  /\ UNCHANGED <<peer, rx, tx, asked, proc, pc, hfd>>

Accept(c) == /\ proc = "up"
             /\ c \in Backlog /\ peer[c] # "rst"
             /\ FreeFds # {}
             /\ fdt' = [fdt EXCEPT ![Lowest] = c]
             /\ queue' = Append(queue, Lowest)
             /\ UNCHANGED <<peer, rx, tx, asked, proc, pc, hfd>>

(* accept fails for want of a descriptor.                                  *)
OutOfFds == Backlog # {} /\ FreeFds = {}

(* Mutant: the last free descriptor is kept in reserve.                    *)
AcceptReserve == /\ proc = "up"
                 /\ Backlog # {} /\ Cardinality(FreeFds) <= 1
                 /\ proc' = "full"
                 /\ UNCHANGED <<fdt, peer, rx, tx, asked, queue, pc, hfd>>

(* Listener::main then throws and returns, Server::listen returns from its *)
(* join and main returns: one step here, Server.tla has the steps.         *)
AcceptRunsOut == /\ proc = "up"
                 /\ OutOfFds
                 /\ proc' = "full"
                 /\ UNCHANGED <<fdt, peer, rx, tx, asked, queue, pc, hfd>>

(* The same for any other reason and at any time: a connection reset in    *)
(* the backlog, a signal, a socket that was never bound or does not listen.*)
AcceptFails == /\ proc = "up"
               /\ proc' = "stopped"
               /\ UNCHANGED <<fdt, peer, rx, tx, asked, queue, pc, hfd>>

(* The kernel may instead drop a reset connection from the backlog.        *)
Forget(c) == /\ c \in Backlog /\ peer[c] = "rst"
             /\ peer' = [peer EXCEPT ![c] = "closed"]
             /\ UNCHANGED <<fdt, rx, tx, asked, proc, queue, pc, hfd>>

(* Mutant: remove reads the head of the queue and leaves it there.         *)
TakeNoPop(w) == /\ proc = "up"
                /\ pc[w] = "remove"
                /\ queue # <<>>
                /\ hfd' = [hfd EXCEPT ![w] = Head(queue)]
                /\ pc' = [pc EXCEPT ![w] = "read"]
                /\ UNCHANGED <<netVars, queue>>

(* Worker::main: queue.remove, then Handler::handle, whose first act is to *)
(* read a message.                                                         *)
Take(w) == /\ proc = "up"
           /\ pc[w] = "remove"
           /\ queue # <<>>
           /\ hfd' = [hfd EXCEPT ![w] = Head(queue)]
           /\ queue' = Tail(queue)
           /\ pc' = [pc EXCEPT ![w] = "read"]
           /\ UNCHANGED netVars

(* A statement of worker w's handler, from one place to another.           *)
Step(w, from, to) == /\ proc = "up"
                     /\ pc[w] = from
                     /\ pc' = [pc EXCEPT ![w] = to]
                     /\ UNCHANGED <<asked, queue, hfd>>

(* The handler returns, or throws: back to queue.remove.                   *)
Finish(w, from) == /\ proc = "up"
                   /\ pc[w] = from
                   /\ pc' = [pc EXCEPT ![w] = "remove"]
                   /\ hfd' = [hfd EXCEPT ![w] = NoFd]
                   /\ UNCHANGED <<asked, queue>>

ListenerNext == AcceptRunsOut \/ \E c \in Conns : Accept(c)

(* The peers' moves, which no statement of the process makes.              *)
PeerNext(s) == /\ s \in Hasty
               /\ \/ PeerCloses(s)
                  \/ PeerResets(s)
               /\ UNCHANGED dispatchVars
=============================================================================
