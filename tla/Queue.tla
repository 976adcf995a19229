------------------------------- MODULE Queue -------------------------------
(***************************************************************************)
(* Pixie-XC/Queue.cpp: the deque through which the listener thread hands   *)
(* accepted descriptors to the worker threads, guarded by one pthread      *)
(* mutex and one condition variable.  One action per statement of add and  *)
(* of remove.                                                              *)
(***************************************************************************)
EXTENDS Naturals, Sequences

CONSTANTS Producers, \* threads that call add (the listener)
          Consumers, \* threads that call remove (the workers)
          Items,     \* what is queued: connection descriptors
          NoItem,    \* a local variable or an argument without a value yet
          NoThread,  \* the owner of an unlocked mutex
          MaxLen     \* bound: add is not called on a queue of this length

ASSUME QueueAssumption ==
  /\ Producers \cap Consumers = {}
  /\ NoThread \notin Producers \cup Consumers
  /\ NoItem \notin Items
  /\ MaxLen \in Nat

Threads == Producers \cup Consumers

VARIABLES q,     \* the deque
          mutex, \* the thread that holds count_mutex
          pc,    \* the statement each thread executes next
          item   \* argument a of add, local r of remove

vars == <<q, mutex, pc, item>>

Init == /\ q = <<>>
        /\ mutex = NoThread
        /\ pc = [t \in Threads |-> "idle"]
        /\ item = [t \in Threads |-> NoItem]

Goto(t, from, to) == /\ pc[t] = from
                     /\ pc' = [pc EXCEPT ![t] = to]

(* pthread_mutex_lock returns. *)
Acquire(t) == /\ mutex = NoThread
              /\ mutex' = t

(* q[0] and pop_front; on an empty deque, whose behaviour is undefined,    *)
(* the first reads no item and the second leaves it empty.                 *)
First(s) == IF s = <<>> THEN NoItem ELSE s[1]
(* Mutant: pop_back for pop_front.                                         *)
RestPopBack(s) == SubSeq(s, 1, Len(s) - 1)

Rest(s)  == SubSeq(s, 2, Len(s))

-----------------------------------------------------------------------------
(* Queue::add                                                              *)

AddCall(p, i) == /\ Len(q) < MaxLen
                 /\ Goto(p, "idle", "add_lock")
                 /\ item' = [item EXCEPT ![p] = i]
                 /\ UNCHANGED <<q, mutex>>

(* Mutant: add forgets the lock.                                           *)
AddLockMissing(p) == /\ Goto(p, "add_lock", "add_push")
                     /\ UNCHANGED <<q, mutex, item>>

AddLock(p) == /\ Goto(p, "add_lock", "add_push")
              /\ Acquire(p)
              /\ UNCHANGED <<q, item>>

AddPush(p) == /\ Goto(p, "add_push", "add_notify")
              /\ q' = Append(q, item[p])
              /\ UNCHANGED <<mutex, item>>

(* pthread_cond_broadcast: every waiter leaves the wait and goes for the   *)
(* mutex.                                                                  *)
Woken(t) == pc[t] = "rem_wait"

(* Mutant: pthread_cond_signal for pthread_cond_broadcast.                 *)
AddSignal(p) ==
  /\ pc[p] = "add_notify"
  /\ IF Len(q) = 1 /\ \E c \in Consumers : Woken(c)
     THEN \E c \in Consumers :
            Woken(c) /\ pc' = [pc EXCEPT ![p] = "add_unlock", ![c] = "rem_relock"]
     ELSE pc' = [pc EXCEPT ![p] = "add_unlock"]
  /\ UNCHANGED <<q, mutex, item>>

AddNotify(p) ==
  /\ pc[p] = "add_notify"
  /\ pc' = [t \in Threads |-> IF t = p THEN "add_unlock"
                              ELSE IF Len(q) = 1 /\ Woken(t) THEN "rem_relock"
                              ELSE pc[t]]
  /\ UNCHANGED <<q, mutex, item>>

AddUnlock(p) == /\ Goto(p, "add_unlock", "idle")
                /\ mutex' = NoThread
                /\ UNCHANGED <<q, item>>

-----------------------------------------------------------------------------
(* Queue::remove                                                           *)

RemoveCall(c) == /\ Goto(c, "idle", "rem_lock")
                 /\ item' = [item EXCEPT ![c] = NoItem]
                 /\ UNCHANGED <<q, mutex>>

(* Mutant: remove forgets the lock.                                        *)
RemoveLockMissing(c) == /\ Goto(c, "rem_lock", "rem_test")
                        /\ UNCHANGED <<q, mutex, item>>

RemoveLock(c) == /\ Goto(c, "rem_lock", "rem_test")
                 /\ Acquire(c)
                 /\ UNCHANGED <<q, item>>

(* The test of the while loop when an item is there.                       *)
RemoveFound(c) == /\ Goto(c, "rem_test", "rem_read")
                  /\ q # <<>>
                  /\ UNCHANGED <<q, mutex, item>>

(* pthread_cond_wait blocks and releases the mutex in one step.            *)
RemoveWait(c) == /\ Goto(c, "rem_test", "rem_wait")
                 /\ q = <<>>
                 /\ mutex' = NoThread
                 /\ UNCHANGED <<q, item>>

(* POSIX lets pthread_cond_wait return although nobody notified.           *)
SpuriousWakeup(c) == /\ Goto(c, "rem_wait", "rem_relock")
                     /\ UNCHANGED <<q, mutex, item>>

(* Mutant: if for while, a woken waiter does not test again.               *)
RelockNoTest(c) == /\ Goto(c, "rem_relock", "rem_read")
                   /\ Acquire(c)
                   /\ UNCHANGED <<q, item>>

(* A woken waiter takes the mutex again and goes back to the test.         *)
Relock(c) == /\ Goto(c, "rem_relock", "rem_test")
             /\ Acquire(c)
             /\ UNCHANGED <<q, item>>

RemoveRead(c) == /\ Goto(c, "rem_read", "rem_pop")
                 /\ item' = [item EXCEPT ![c] = First(q)]
                 /\ UNCHANGED <<q, mutex>>

RemovePop(c) == /\ Goto(c, "rem_pop", "rem_unlock")
                /\ q' = Rest(q)
                /\ UNCHANGED <<mutex, item>>

RemoveUnlock(c) == /\ Goto(c, "rem_unlock", "idle")
                   /\ mutex' = NoThread
                   /\ UNCHANGED <<q, item>>

-----------------------------------------------------------------------------
AddStep(p) == AddLock(p) \/ AddPush(p) \/ AddNotify(p) \/ AddUnlock(p)

RemoveStep(c) == \/ RemoveCall(c) \/ RemoveLock(c) \/ RemoveFound(c)
                 \/ RemoveWait(c) \/ Relock(c) \/ RemoveRead(c)
                 \/ RemovePop(c)  \/ RemoveUnlock(c)

Next == \/ \E p \in Producers : AddStep(p) \/ \E i \in Items : AddCall(p, i)
        \/ \E c \in Consumers : RemoveStep(c) \/ SpuriousWakeup(c)

(***************************************************************************)
(* A thread inside a call keeps running, and a worker always comes back to *)
(* remove (Worker::main is an endless loop).  Nobody is obliged to add,    *)
(* and no wakeup is spurious by necessity.  A thread that adds gets a      *)
(* mutex that is free again and again (Darwin's default mutex policy is    *)
(* fair share): without that, endless spurious wakeups could keep it out.  *)
(***************************************************************************)
Fairness == /\ \A p \in Producers : WF_vars(AddStep(p)) /\ SF_vars(AddLock(p))
            /\ \A c \in Consumers : WF_vars(RemoveStep(c))

SafeSpec == Init /\ [][Next]_vars
Spec == SafeSpec /\ Fairness

-----------------------------------------------------------------------------
AddLabels    == {"add_lock", "add_push", "add_notify", "add_unlock"}
RemoveLabels == {"rem_lock", "rem_test", "rem_wait", "rem_relock",
                 "rem_read", "rem_pop", "rem_unlock"}

(* The statements between lock and unlock.                                 *)
Critical == {"add_push", "add_notify", "add_unlock",
             "rem_test", "rem_read", "rem_pop", "rem_unlock"}

(***************************************************************************)
(* The variables have their types; in particular an add always carries an  *)
(* item and a remove never returns without one.                            *)
(***************************************************************************)
TypeOK ==
  /\ q \in Seq(Items)
  /\ mutex \in Threads \cup {NoThread}
  /\ pc \in [Threads -> {"idle"} \cup AddLabels \cup RemoveLabels]
  /\ item \in [Threads -> Items \cup {NoItem}]
  /\ \A p \in Producers : pc[p] \in {"idle"} \cup AddLabels
  /\ \A p \in Producers : pc[p] \in AddLabels => item[p] \in Items
  /\ \A c \in Consumers : pc[c] \in {"idle"} \cup RemoveLabels
  /\ \A c \in Consumers : pc[c] \in {"rem_pop", "rem_unlock"} => item[c] \in Items

(***************************************************************************)
(* The deque is touched only by the thread that holds count_mutex, and     *)
(* nobody else is between lock and unlock.                                 *)
(***************************************************************************)
LockProtectsQueue == \A t \in Threads : pc[t] \in Critical <=> mutex = t

(***************************************************************************)
(* add broadcasts only on the transition from an empty deque.  That is     *)
(* enough: a worker is blocked in pthread_cond_wait beside a non-empty     *)
(* deque only while the add that filled it is about to broadcast.          *)
(***************************************************************************)
NoLostWakeup ==
  (\E c \in Consumers : pc[c] = "rem_wait") =>
     \/ q = <<>>
     \/ Len(q) = 1 /\ \E p \in Producers : pc[p] = "add_notify"

(***************************************************************************)
(* What remove popped is what it read: from the test of the while loop to  *)
(* q[0] and on to pop_front the deque stays non-empty, and its head is the *)
(* descriptor the worker goes away with.                                   *)
(***************************************************************************)
ReadIsPopped ==
  /\ \A c \in Consumers : pc[c] \in {"rem_read", "rem_pop"} => q # <<>>
  /\ \A c \in Consumers : pc[c] = "rem_pop" => item[c] = Head(q)

-----------------------------------------------------------------------------
(* The refinement of FifoQueue: a call takes effect at push_back or at     *)
(* pop_front.                                                              *)

TookEffect == {"add_notify", "add_unlock", "rem_unlock"}

absPhase == [t \in Threads |-> IF pc[t] = "idle" THEN "idle"
                               ELSE IF pc[t] \in TookEffect THEN "done"
                               ELSE "called"]

absValue == [t \in Threads |->
               IF pc[t] \in RemoveLabels \ {"rem_unlock"} THEN NoItem ELSE item[t]]

Fifo == INSTANCE FifoQueue WITH queue <- q, phase <- absPhase, value <- absValue

(***************************************************************************)
(* Queue.cpp implements the FIFO queue, liveness included: add and remove  *)
(* are atomic, remove returns items in the order of the adds, each once,   *)
(* and while items and idle workers exist some worker is served.           *)
(***************************************************************************)
ImplementsFifo == Fifo!Spec
=============================================================================
