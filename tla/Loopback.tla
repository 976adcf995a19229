------------------------------ MODULE Loopback ------------------------------
(***************************************************************************)
(* The loopback protocol, HandlerBlk::handleBlkLoopBack: a worker echoes   *)
(* each message it reads until the client hangs up or sends something it   *)
(* cannot parse.  No path of this handler closes the client's descriptor.  *)
(***************************************************************************)
EXTENDS Dispatch

CONSTANT Unset \* a local variable without a value

ASSUME LoopbackAssumption == Unset \notin Messages

VARIABLES msg,  \* the message a worker read and is about to echo
          shut  \* connections whose write side flush has shut down

loopVars == <<msg, shut>>

LoopbackInit == /\ DispatchInit
                /\ msg = [w \in Workers |-> Unset]
                /\ shut = {}

ReadMessage(w) == /\ Step(w, "read", "echo")
                  /\ ReadsMessage(hfd[w])
                  /\ FirstOf(hfd[w]).verb # "BAD"
                  /\ Consume(hfd[w])
                  /\ msg' = [msg EXCEPT ![w] = FirstOf(hfd[w])]
                  /\ UNCHANGED <<fdt, peer, tx, proc, shut>>

Echo(w) == /\ Step(w, "echo", "read")
           /\ Write(hfd[w], msg[w])
           /\ msg' = [msg EXCEPT ![w] = Unset]
           /\ UNCHANGED <<fdt, peer, rx, shut>>

(* End of file and a parse error both end in a flush.                      *)
ReadEofOrBad(w) == /\ Step(w, "read", "flush")
                   /\ \/ ReadsEof(hfd[w]) /\ UNCHANGED rx
                      \/ /\ ReadsMessage(hfd[w])
                         /\ FirstOf(hfd[w]).verb = "BAD"
                         /\ Consume(hfd[w])
                   /\ UNCHANGED <<fdt, peer, tx, proc, loopVars>>

(* socket_wait_for_write_flush: shutdown of the write side, then a recv    *)
(* that returns when the client sends or hangs up.                         *)
Flush(w) == /\ Step(w, "flush", "recv")
            /\ shut' = shut \cup {c \in Conns : c = Behind(hfd[w])}
            /\ UNCHANGED <<fdt, peer, rx, tx, proc, msg>>

(* Mutant: the recv waits for data and sleeps through an end of file.      *)
RecvData(w) == /\ Finish(w, "recv")
               /\ ReadsMessage(hfd[w]) \/ ReadsError(hfd[w])
               /\ UNCHANGED <<fdt, peer, rx, tx, proc, loopVars>>

Recv(w) == /\ Finish(w, "recv")
           /\ ReadsMessage(hfd[w]) \/ ReadsEof(hfd[w]) \/ ReadsError(hfd[w])
           /\ UNCHANGED <<fdt, peer, rx, tx, proc, loopVars>>

(* The exception of a failed read.                                         *)
ReadThrows(w) == /\ Finish(w, "read")
                 /\ ReadsError(hfd[w])
                 /\ UNCHANGED <<fdt, peer, rx, tx, proc, loopVars>>

(* HandlerBlk::handleBlkLoopBack, one statement that can block or fail.    *)
LoopbackStep(w) == \/ ReadMessage(w) \/ Echo(w) \/ ReadEofOrBad(w)
                   \/ Flush(w) \/ Recv(w) \/ ReadThrows(w)

-----------------------------------------------------------------------------
(***************************************************************************)
(* A client reads its own messages back, in the order it sent them and     *)
(* none twice, and nothing is written to it after flush has shut the       *)
(* connection down.                                                        *)
(***************************************************************************)
OwnInOrder ==
  \A c \in Conns :
    /\ \A i \in 1..Len(tx[c]) : tx[c][i].conn = c
    /\ \A i, j \in 1..Len(tx[c]) : i < j => tx[c][i].seq < tx[c][j].seq

NoneAfterFlush == \A w \in Workers : pc[w] = "echo" => Behind(hfd[w]) \notin shut

EchoesInOrder == OwnInOrder /\ NoneAfterFlush
=============================================================================
