-------------------------------- MODULE Twc --------------------------------
(***************************************************************************)
(* external_src/twc.c, the two way channel of a tunnel: one thread copies  *)
(* bytes between a client (A) and a server (B) with select, non-blocking   *)
(* reads and writes and one buffer per direction.  Bytes are numbered in   *)
(* the order their sender sends them.                                      *)
(***************************************************************************)
EXTENDS Integers, Sequences

CONSTANTS N,         \* buffer_size: 10000 in Channel.cpp
          MaxBytes,  \* bound, per direction: what its sender sends
          Room       \* bound: bytes a socket holds that its peer did not take

Ends == {"A", "B"}
Dirs == {"A2B", "B2A"}

ASSUME TwcAssumption == /\ N \in Nat /\ N >= 2
                        /\ MaxBytes \in [Dirs -> Nat]
                        /\ Room \in Nat /\ Room > 0

(* sm_init: read_fd and write_fd of the two state machines.                *)
Src(d) == IF d = "A2B" THEN "A" ELSE "B"
Dst(d) == IF d = "A2B" THEN "B" ELSE "A"

VARIABLES sent,   \* per direction: how many bytes the source sent
          nread,  \* how many of them twc read
          buf,    \* the buffer
          rd,     \* read_ptr: where the next read puts its bytes
          wr,     \* write_ptr: from where the next write takes them
          out,    \* the bytes written to the destination
          status, \* statusA2B and statusB2A
          peer,   \* per end: open, fin or rst
          taken,  \* how many bytes of out each end took off its socket
          rfds,   \* read_fds
          wfds,   \* write_fds
          pc,     \* the next statement of twc_run
          result, \* *status of twc_run, or how the process died
          failed  \* history: the directions in which a write failed

buffers == <<nread, buf, rd, wr, out>>
peers   == <<sent, peer, taken>>
control == <<status, rfds, wfds, pc, result, failed>>
vars    == <<buffers, peers, control>>

(* The sm_executes before the loop leave both descriptors watched for      *)
(* reading.                                                                *)
Init == /\ sent = [d \in Dirs |-> 0]
        /\ nread = [d \in Dirs |-> 0]
        /\ buf = [d \in Dirs |-> [i \in 0..(N - 1) |-> 0]]
        /\ rd = [d \in Dirs |-> 0]
        /\ wr = [d \in Dirs |-> 0]
        /\ out = [d \in Dirs |-> <<>>]
        /\ status = [d \in Dirs |-> "OK"]
        /\ peer = [e \in Ends |-> "open"]
        /\ taken = [e \in Ends |-> 0]
        /\ rfds = Ends
        /\ wfds = {}
        /\ pc = "select"
        /\ result = "running"
        /\ failed = {}

ReadAvailable(d)  == N - rd[d]
WriteAvailable(d) == rd[d] - wr[d]

Into(e)  == IF e = "B" THEN "A2B" ELSE "B2A"
Space(e) == Room - (Len(out[Into(e)]) - taken[e])

Lesser(a, b) == IF a < b THEN a ELSE b

-----------------------------------------------------------------------------
(* The two peers.                                                          *)

PeerSend(d) == /\ peer[Src(d)] = "open"
               /\ \E n \in 1..(MaxBytes[d] - sent[d]) :
                    sent' = [sent EXCEPT ![d] = @ + n]
               /\ UNCHANGED <<buffers, peer, taken, control>>

PeerTake(e) == /\ peer[e] # "rst"
               /\ taken[e] < Len(out[Into(e)])
               /\ taken' = [taken EXCEPT ![e] = Len(out[Into(e)])]
               /\ UNCHANGED <<buffers, sent, peer, control>>

PeerClose(e) == /\ peer[e] = "open"
                /\ peer' = [peer EXCEPT ![e] = "fin"]
                /\ UNCHANGED <<buffers, sent, taken, control>>

PeerReset(e) == /\ peer[e] # "rst"
                /\ peer' = [peer EXCEPT ![e] = "rst"]
                /\ UNCHANGED <<buffers, sent, taken, control>>

-----------------------------------------------------------------------------
(* select leaves in the sets the descriptors that are ready, and blocks    *)
(* while there is none, for three seconds at most.                         *)

Readable(e) == peer[e] # "open" \/ \E d \in Dirs : Src(d) = e /\ nread[d] < sent[d]
Writable(e) == peer[e] = "rst" \/ Space(e) > 0

ReadyR == {e \in rfds : Readable(e)}
ReadyW == {e \in wfds : Writable(e)}

Run(from, to) == /\ result = "running"
                 /\ pc = from
                 /\ pc' = to

Select == /\ Run("select", "A2B write")
          /\ ReadyR \cup ReadyW # {}
          /\ rfds' = ReadyR
          /\ wfds' = ReadyW
          /\ UNCHANGED <<buffers, peers, status, result, failed>>

Timeout == /\ Run("select", "done")
           /\ ReadyR \cup ReadyW = {}
           /\ result' = "TO"
           /\ UNCHANGED <<buffers, peers, status, rfds, wfds, failed>>

(* An error of select other than EINTR, on which it is called again.       *)
SelectFails == /\ Run("select", "done")
               /\ result' = "IOERR"
               /\ UNCHANGED <<buffers, peers, status, rfds, wfds, failed>>

-----------------------------------------------------------------------------
(* sm_execute, first half: write what is pending.                          *)

WriteLabel(d) == IF d = "A2B" THEN "A2B write" ELSE "B2A write"
ReadLabel(d)  == IF d = "A2B" THEN "A2B read" ELSE "B2A read"
AfterRead(d)  == IF d = "A2B" THEN "B2A write" ELSE "check"

(* Mutant: a single pending byte is not worth a write.                     *)
WritesMany(d) == Dst(d) \in wfds /\ WriteAvailable(d) > 1

Writes(d) == Dst(d) \in wfds /\ WriteAvailable(d) > 0

SkipWrite(d) == /\ Run(WriteLabel(d), ReadLabel(d))
                /\ ~Writes(d)
                /\ UNCHANGED <<buffers, peers, status, rfds, wfds, result, failed>>

(* Mutant: the pointer wraps one byte later.                               *)
AdvancedToEnd(p, n) == IF p + n = N THEN 0 ELSE p + n

(* cb_advance_write, and cb_advance_read_ptr where it does not abort.      *)
Advanced(p, n) == IF p + n = N - 1 THEN 0 ELSE p + n

(* Mutant: a partial write counts as a whole one.                          *)
WriteAll(d) ==
  /\ Run(WriteLabel(d), ReadLabel(d))
  /\ Writes(d) /\ peer[Dst(d)] # "rst" /\ Space(Dst(d)) > 0
  /\ LET n == Lesser(WriteAvailable(d), Space(Dst(d)))
     IN  out' = [out EXCEPT ![d] = @ \o [i \in 1..n |-> buf[d][wr[d] + i - 1]]]
  /\ wr' = [wr EXCEPT ![d] = rd[d]]
  /\ status' = [status EXCEPT ![d] = "OK"]
  /\ UNCHANGED <<nread, buf, rd, peers, rfds, wfds, result, failed>>

WriteSome(d) ==
  /\ Run(WriteLabel(d), ReadLabel(d))
  /\ Writes(d) /\ peer[Dst(d)] # "rst" /\ Space(Dst(d)) > 0
  /\ LET n == Lesser(WriteAvailable(d), Space(Dst(d)))
     IN  /\ out' = [out EXCEPT ![d] = @ \o [i \in 1..n |-> buf[d][wr[d] + i - 1]]]
         /\ wr' = [wr EXCEPT ![d] = Advanced(@, n)]
  /\ status' = [status EXCEPT ![d] = "OK"]
  /\ UNCHANGED <<nread, buf, rd, peers, rfds, wfds, result, failed>>

(* Whatever the reason, EINTR and EAGAIN included, a write that returns    *)
(* nothing is an I/O error, which a read of the same turn may overwrite.   *)
(* SO_NOSIGPIPE is set on the server's socket only.                        *)
WriteFails(d) ==
  /\ Run(WriteLabel(d), ReadLabel(d))
  /\ Writes(d)
  /\ status' = [status EXCEPT ![d] = "IOERR"]
  /\ failed' = failed \cup {d}
  /\ result' \in {"running"} \cup IF Dst(d) = "A" /\ peer["A"] = "rst" THEN {"sigpipe"} ELSE {}
  /\ UNCHANGED <<buffers, peers, rfds, wfds>>

-----------------------------------------------------------------------------
(* sm_execute, second half: read once, then put the descriptors back into  *)
(* the sets unless the status is bad.  A read takes what has arrived, up   *)
(* to the end of the buffer.                                               *)

(* Mutant: the destination is watched only if select found it ready.       *)
RearmSource(d, ok, pending) ==
  /\ rfds' = IF ok THEN rfds \cup {Src(d)} ELSE rfds
  /\ UNCHANGED wfds

Rearm(d, ok, pending) ==
  /\ rfds' = IF ok THEN rfds \cup {Src(d)} ELSE rfds
  /\ wfds' = IF ok /\ pending THEN wfds \cup {Dst(d)} ELSE wfds

SkipRead(d) == /\ Run(ReadLabel(d), AfterRead(d))
               /\ Src(d) \notin rfds
               /\ Rearm(d, status[d] = "OK", WriteAvailable(d) > 0)
               /\ UNCHANGED <<buffers, peers, status, result, failed>>

Arrived(d) == sent[d] - nread[d]
Reads(d)   == Lesser(Arrived(d), ReadAvailable(d))

(* cb_advance_read_ptr: a read that fills the buffer to its last byte runs *)
(* into assert(false); one that leaves a single byte free starts again at  *)
(* the front, whatever is pending.                                         *)
Overruns(d) == rd[d] + Reads(d) > N - 1

ReadSome(d) ==
  /\ Run(ReadLabel(d), AfterRead(d))
  /\ Src(d) \in rfds
  /\ peer[Src(d)] # "rst" /\ Arrived(d) > 0
  /\ ~Overruns(d)
  /\ nread' = [nread EXCEPT ![d] = @ + Reads(d)]
  /\ buf' = [buf EXCEPT ![d] = [i \in 0..(N - 1) |->
               IF i \in rd[d]..(rd[d] + Reads(d) - 1) THEN nread[d] + 1 + i - rd[d] ELSE @[i]]]
  /\ rd' = [rd EXCEPT ![d] = Advanced(@, Reads(d))]
  /\ status' = [status EXCEPT ![d] = "OK"]
  /\ Rearm(d, TRUE, Advanced(rd[d], Reads(d)) > wr[d])
  /\ UNCHANGED <<wr, out, peers, result, failed>>

ReadAborts(d) == /\ Run(ReadLabel(d), AfterRead(d))
                 /\ Src(d) \in rfds
                 /\ peer[Src(d)] # "rst" /\ Arrived(d) > 0
                 /\ Overruns(d)
                 /\ result' = "abort"
                 /\ UNCHANGED <<buffers, peers, status, rfds, wfds, failed>>

ReadEof(d) == /\ Run(ReadLabel(d), AfterRead(d))
              /\ Src(d) \in rfds
              /\ peer[Src(d)] = "fin" /\ Arrived(d) = 0
              /\ status' = [status EXCEPT ![d] = "EOF"]
              /\ UNCHANGED <<buffers, peers, rfds, wfds, result, failed>>

(* Every negative result of read is an error, of whatever kind.            *)
ReadFails(d) == /\ Run(ReadLabel(d), AfterRead(d))
                /\ Src(d) \in rfds
                /\ status' = [status EXCEPT ![d] = "IOERR"]
                /\ UNCHANGED <<buffers, peers, rfds, wfds, result, failed>>

Execute(d) == \/ SkipWrite(d) \/ WriteSome(d) \/ WriteFails(d)
              \/ SkipRead(d) \/ ReadSome(d) \/ ReadAborts(d)
              \/ ReadEof(d) \/ ReadFails(d)

-----------------------------------------------------------------------------
(* The statuses are looked at after both machines ran, A2B first; leaving  *)
(* the loop ends the tunnel in both directions.                            *)
Continue == /\ Run("check", "select")
            /\ \A d \in Dirs : status[d] = "OK"
            /\ UNCHANGED <<buffers, peers, status, rfds, wfds, result, failed>>

Leave == /\ Run("check", "done")
         /\ \E d \in Dirs : status[d] # "OK"
         /\ result' = IF status["A2B"] # "OK" THEN status["A2B"] ELSE status["B2A"]
         /\ UNCHANGED <<buffers, peers, status, rfds, wfds, failed>>

TwcStep == Select \/ Continue \/ Leave \/ \E d \in Dirs : Execute(d)

PeerStep == \/ \E d \in Dirs : PeerSend(d)
            \/ \E e \in Ends : PeerTake(e) \/ PeerClose(e) \/ PeerReset(e)

Next == TwcStep \/ Timeout \/ SelectFails \/ (result = "running" /\ PeerStep)

(***************************************************************************)
(* The worker runs, and a peer takes what was written to it.  Peers need   *)
(* not send or close, and the timeout of an idle select is not counted on. *)
(***************************************************************************)
Fairness == WF_vars(TwcStep) /\ \A e \in Ends : WF_vars(result = "running" /\ PeerTake(e))

Spec == Init /\ [][Next]_vars /\ Fairness

-----------------------------------------------------------------------------
Labels == {"select", "A2B write", "A2B read", "B2A write", "B2A read", "check", "done"}

(***************************************************************************)
(* The variables have their types; in particular neither pointer ever      *)
(* reaches the last byte of the buffer, so that there is always room to    *)
(* read into and read_suspended stays false, and no socket is written more *)
(* than it holds.                                                          *)
(***************************************************************************)
TypeOK == /\ sent \in [Dirs -> Nat] /\ nread \in [Dirs -> Nat]
          /\ \A d \in Dirs : nread[d] <= sent[d] /\ sent[d] <= MaxBytes[d]
          /\ buf \in [Dirs -> [0..(N - 1) -> Nat]]
          /\ rd \in [Dirs -> 0..(N - 2)]
          /\ wr \in [Dirs -> 0..(N - 2)]
          /\ out \in [Dirs -> Seq(Nat)]
          /\ status \in [Dirs -> {"OK", "EOF", "IOERR"}]
          /\ peer \in [Ends -> {"open", "fin", "rst"}]
          /\ taken \in [Ends -> Nat]
          /\ \A e \in Ends : Space(e) \in 0..Room
          /\ rfds \subseteq Ends /\ wfds \subseteq Ends
          /\ pc \in Labels
          /\ result \in {"running", "TO", "EOF", "IOERR", "sigpipe", "abort"}
          /\ failed \subseteq Dirs

(***************************************************************************)
(* What the tunnel is for: each end receives a prefix of what the other    *)
(* one sent, without loss, duplication or disorder.                        *)
(***************************************************************************)
InOrder(d) == \A i \in 1..Len(out[d]) : out[d][i] = i

InOrderDelivery == \A d \in Dirs : InOrder(d)

(***************************************************************************)
(* Until a direction carried N - 1 bytes, delivery is in order: what was   *)
(* read and not yet written lies between the pointers, byte by byte.       *)
(***************************************************************************)
FirstLap ==
  \A d \in Dirs : nread[d] < N - 1 =>
    /\ InOrder(d)
    /\ rd[d] = nread[d] /\ wr[d] = Len(out[d]) /\ wr[d] <= rd[d]
    /\ \A i \in wr[d]..(rd[d] - 1) : buf[d][i] = i + 1

(***************************************************************************)
(* Nothing is forgotten across select, which overwrites the sets: when     *)
(* twc_run goes to sleep both ends are watched for reading, and each end   *)
(* for which bytes wait is watched for writing.                            *)
(***************************************************************************)
PendingIsWatched ==
  pc = "select" => /\ rfds = Ends
                   /\ \A d \in Dirs : WriteAvailable(d) > 0 => Dst(d) \in wfds

(***************************************************************************)
(* End of file of one direction ends the tunnel, but not before the last   *)
(* bytes of that direction had their chance: when it is reported, all that *)
(* the closed peer sent was read and written to the other end, unless that *)
(* end's socket has been full or a write to it failed (an error the read   *)
(* of the same turn hides), for as long as the buffer does not wrap.       *)
(***************************************************************************)
EofAfterDelivery ==
  \A d \in Dirs : status[d] = "EOF" /\ nread[d] < N - 1 =>
    \/ Len(out[d]) = sent[d]
    \/ Len(out[d]) >= Room
    \/ d \in failed

(***************************************************************************)
(* While a tunnel stays up, what is sent is delivered, for as long as the  *)
(* buffer does not wrap.                                                   *)
(***************************************************************************)
Delivers ==
  \A d \in Dirs : \A k \in 1..MaxBytes[d] :
    sent[d] >= k ~> Len(out[d]) >= k \/ result # "running" \/ nread[d] >= N - 1

(***************************************************************************)
(* What the assertions of cb_advance_read_ptr say: a read never runs off   *)
(* the end of the buffer.                                                  *)
(***************************************************************************)
NoAssertFails == result # "abort"
=============================================================================
