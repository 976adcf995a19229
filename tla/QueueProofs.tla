---------------------------- MODULE QueueProofs ----------------------------
(***************************************************************************)
(* Theorems about Queue.tla, for any number of adding and removing threads *)
(* and any length of the deque.                                            *)
(***************************************************************************)
EXTENDS Queue, TLAPS

(* The invariants of Queue need one another: a read finds an item because  *)
(* of the lock, the type of a removed item depends on what is read.        *)
IInv == TypeOK /\ LockProtectsQueue /\ NoLostWakeup /\ ReadIsPopped

(* What the mutex excludes: two threads between lock and unlock.           *)
LEMMA Exclusion ==
  ASSUME LockProtectsQueue, NEW s \in Threads, NEW t \in Threads,
         pc[s] \in Critical, pc[t] \in Critical
  PROVE  s = t
BY DEF LockProtectsQueue

(* The head and the rest of a non-empty deque.                             *)
LEMMA FirstRest ==
  ASSUME NEW S, NEW s \in Seq(S), s # <<>>
  PROVE  /\ First(s) = Head(s) /\ First(s) \in S
         /\ Rest(s) = Tail(s) /\ Rest(s) \in Seq(S)
BY DEF First, Rest

(* Nothing is queued, locked or awaited to begin with.                     *)
LEMMA InitInv == ASSUME QueueAssumption PROVE Init => IInv
BY DEF Init, IInv, TypeOK, LockProtectsQueue, NoLostWakeup, ReadIsPopped,
       Threads, QueueAssumption, AddLabels, RemoveLabels, Critical

(* Every step of add keeps the invariant.                                  *)
LEMMA AddInv ==
  ASSUME QueueAssumption, IInv, NEW p \in Producers,
         AddStep(p) \/ \E i \in Items : AddCall(p, i)
  PROVE  IInv'
<1> p \in Threads /\ p \notin Consumers /\ p # NoThread
  BY DEF Threads, QueueAssumption
<1> USE DEF IInv, Goto
<1>1. ASSUME NEW i \in Items, AddCall(p, i) PROVE IInv'
  BY <1>1 DEF AddCall, TypeOK, LockProtectsQueue, NoLostWakeup, ReadIsPopped,
     Threads, AddLabels, RemoveLabels, Critical
<1>2. CASE AddLock(p)
  BY <1>2, QueueAssumption DEF AddLock, Acquire, TypeOK, LockProtectsQueue,
     NoLostWakeup, ReadIsPopped, Threads, AddLabels, RemoveLabels, Critical,
     QueueAssumption
<1>3. CASE AddPush(p)
  <2>1. TypeOK'
    BY <1>3 DEF AddPush, TypeOK, Threads, AddLabels, RemoveLabels
  <2>2. LockProtectsQueue'
    BY <1>3 DEF AddPush, TypeOK, LockProtectsQueue, Critical, Threads
  <2>3. \A t \in Threads \ {p} : pc[t] \notin Critical
    BY <1>3 DEF AddPush, LockProtectsQueue, Critical
  <2>4. NoLostWakeup'
    <3>1. SUFFICES ASSUME NEW c \in Consumers, pc'[c] = "rem_wait"
                   PROVE  Len(q') = 1 /\ pc'[p] = "add_notify"
      BY DEF NoLostWakeup
    <3>2. pc[c] = "rem_wait"
      BY <3>1, <1>3 DEF AddPush, TypeOK, Threads
    <3>3. q = <<>>
      BY <3>2, <2>3, <1>3 DEF NoLostWakeup, Threads, Critical, AddPush
    <3> QED BY <3>3, <1>3 DEF AddPush, TypeOK, AddLabels
  <2>5. ReadIsPopped'
    BY <1>3, <2>3 DEF AddPush, ReadIsPopped, TypeOK, Threads, Critical
  <2> QED BY <2>1, <2>2, <2>4, <2>5
<1>4. CASE AddNotify(p)
  <2>1. TypeOK'
    BY <1>4 DEF AddNotify, Woken, TypeOK, Threads, AddLabels, RemoveLabels
  <2>2. LockProtectsQueue'
    BY <1>4 DEF AddNotify, Woken, TypeOK, LockProtectsQueue, Critical, Threads
  <2>3. NoLostWakeup'
    <3>1. SUFFICES ASSUME NEW c \in Consumers, pc'[c] = "rem_wait"
                   PROVE  q' = <<>>
      BY DEF NoLostWakeup
    <3>2. pc[c] = "rem_wait" /\ Len(q) # 1
      BY <3>1, <1>4 DEF AddNotify, Woken, TypeOK, Threads
    <3> QED BY <3>2, <1>4 DEF NoLostWakeup, AddNotify
  <2>4. ReadIsPopped'
    BY <1>4 DEF AddNotify, Woken, ReadIsPopped, TypeOK, Threads
  <2> QED BY <2>1, <2>2, <2>3, <2>4
<1>5. CASE AddUnlock(p)
  BY <1>5, QueueAssumption DEF AddUnlock, TypeOK, LockProtectsQueue,
     NoLostWakeup, ReadIsPopped, Threads, AddLabels, RemoveLabels, Critical,
     QueueAssumption
<1> QED BY <1>1, <1>2, <1>3, <1>4, <1>5 DEF AddStep

(* Every step of remove keeps the invariant.                               *)
LEMMA RemoveInv ==
  ASSUME QueueAssumption, IInv, NEW c \in Consumers,
         RemoveStep(c) \/ SpuriousWakeup(c)
  PROVE  IInv'
<1> c \in Threads /\ c \notin Producers /\ c # NoThread
  BY DEF Threads, QueueAssumption
<1> USE DEF IInv, Goto
<1>1. CASE RemoveCall(c)
  BY <1>1 DEF RemoveCall, TypeOK, LockProtectsQueue, NoLostWakeup,
     ReadIsPopped, Threads, AddLabels, RemoveLabels, Critical
<1>2. CASE RemoveLock(c) \/ Relock(c)
  BY <1>2, QueueAssumption DEF RemoveLock, Relock, Acquire, TypeOK,
     LockProtectsQueue, NoLostWakeup, ReadIsPopped, Threads, AddLabels,
     RemoveLabels, Critical, QueueAssumption
<1>3. CASE RemoveFound(c)
  BY <1>3 DEF RemoveFound, TypeOK, LockProtectsQueue, NoLostWakeup,
     ReadIsPopped, Threads, AddLabels, RemoveLabels, Critical
<1>4. CASE RemoveWait(c)
  BY <1>4, QueueAssumption DEF RemoveWait, TypeOK, LockProtectsQueue,
     NoLostWakeup, ReadIsPopped, Threads, AddLabels, RemoveLabels, Critical,
     QueueAssumption
<1>5. CASE SpuriousWakeup(c)
  BY <1>5 DEF SpuriousWakeup, TypeOK, LockProtectsQueue, NoLostWakeup,
     ReadIsPopped, Threads, AddLabels, RemoveLabels, Critical
<1>6. CASE RemoveRead(c)
  <2>1. q # <<>> /\ First(q) = Head(q) /\ First(q) \in Items
    BY <1>6, FirstRest DEF RemoveRead, ReadIsPopped, TypeOK
  <2>2. TypeOK'
    BY <1>6, <2>1 DEF RemoveRead, TypeOK, Threads, AddLabels, RemoveLabels
  <2> QED
    BY <1>6, <2>1, <2>2 DEF RemoveRead, TypeOK, LockProtectsQueue,
       NoLostWakeup, ReadIsPopped, Threads, Critical
<1>7. CASE RemovePop(c)
  <2>1. q # <<>> /\ Rest(q) = Tail(q) /\ Rest(q) \in Seq(Items)
    BY <1>7, FirstRest DEF RemovePop, ReadIsPopped, TypeOK
  <2>2. TypeOK'
    BY <1>7, <2>1 DEF RemovePop, TypeOK, Threads, AddLabels, RemoveLabels
  <2>3. LockProtectsQueue'
    BY <1>7 DEF RemovePop, TypeOK, LockProtectsQueue, Critical
  <2>4. \A t \in Threads \ {c} : pc[t] \notin Critical
    BY <1>7 DEF RemovePop, LockProtectsQueue, Critical
  <2>5. NoLostWakeup'
    <3>1. SUFFICES ASSUME NEW d \in Consumers, pc'[d] = "rem_wait"
                   PROVE  q' = <<>>
      BY DEF NoLostWakeup
    <3>2. pc[d] = "rem_wait"
      BY <3>1, <1>7 DEF RemovePop, TypeOK, Threads
    <3>3. Len(q) = 1
      BY <3>2, <2>1, <1>7 DEF NoLostWakeup
    <3> QED BY <3>3, <2>1, <1>7 DEF RemovePop, TypeOK
  <2>6. ReadIsPopped'
    BY <1>7, <2>4 DEF RemovePop, ReadIsPopped, TypeOK, Threads, Critical
  <2> QED BY <2>2, <2>3, <2>5, <2>6
<1>8. CASE RemoveUnlock(c)
  BY <1>8, QueueAssumption DEF RemoveUnlock, TypeOK, LockProtectsQueue,
     NoLostWakeup, ReadIsPopped, Threads, AddLabels, RemoveLabels, Critical,
     QueueAssumption
<1> QED BY <1>1, <1>2, <1>3, <1>4, <1>5, <1>6, <1>7, <1>8 DEF RemoveStep

(* No step of any thread breaks the invariant.                             *)
LEMMA StepInv == ASSUME QueueAssumption, IInv, [Next]_vars PROVE IInv'
<1>1. CASE Next
  BY <1>1, AddInv, RemoveInv DEF Next
<1>2. CASE UNCHANGED vars
  BY <1>2 DEF vars, IInv, TypeOK, LockProtectsQueue, NoLostWakeup,
     ReadIsPopped, Woken
<1> QED BY <1>1, <1>2

(* The inductive invariant holds whatever the threads do.                  *)
THEOREM Invariance == SafeSpec => []IInv
BY InitInv, StepInv, QueueAssumption, PTL DEF SafeSpec

(* The state of the queue and of its callers is always well typed.         *)
THEOREM TypeCorrect == Spec => []TypeOK
BY Invariance, PTL DEF Spec, IInv

(* Only the owner of count_mutex is between lock and unlock.               *)
THEOREM MutexCorrect == Spec => []LockProtectsQueue
BY Invariance, PTL DEF Spec, IInv

(* No worker sleeps beside a non-empty deque nobody will announce.         *)
THEOREM NoWakeupIsLost == Spec => []NoLostWakeup
BY Invariance, PTL DEF Spec, IInv

(* remove returns the item it takes off the deque.                         *)
THEOREM ReadThenPop == Spec => []ReadIsPopped
BY Invariance, PTL DEF Spec, IInv

-----------------------------------------------------------------------------
(* The refinement, step by step: push_back is the add and pop_front the    *)
(* remove of the abstract queue, unlock is the return of either, and every *)
(* other step leaves the abstract queue alone.                             *)

(* The first state of the deque is the first state of FifoQueue.           *)
LEMMA RefineInit == Init => Fifo!Init
BY DEF Init, Fifo!Init, Threads, Fifo!Threads, absPhase, absValue

(* A step of add is a step of FifoQueue, push_back its effect, or none.    *)
LEMMA RefineAdd ==
  ASSUME QueueAssumption, IInv, NEW p \in Producers,
         AddStep(p) \/ \E i \in Items : AddCall(p, i)
  PROVE  [Fifo!Next]_(Fifo!vars)
<1> p \in Threads /\ p \notin Consumers
  BY DEF Threads, QueueAssumption
<1> USE DEF Goto, TookEffect
<1>0. TypeOK
  BY DEF IInv
<1>1. ASSUME NEW i \in Items, AddCall(p, i) PROVE Fifo!CallAdd(p, i)
  BY <1>1, <1>0 DEF AddCall, TypeOK, Fifo!CallAdd, absPhase, absValue, Threads, AddLabels,
     RemoveLabels
<1>2. CASE AddLock(p)
  <2>1. absPhase' = absPhase /\ absValue' = absValue
    BY <1>2, <1>0 DEF AddLock, TypeOK, absPhase, absValue, AddLabels, RemoveLabels
  <2> QED BY <2>1, <1>2 DEF AddLock, Fifo!vars
<1>3. CASE AddPush(p)
  <2>1. absPhase[p] = "called" /\ absPhase' = [absPhase EXCEPT ![p] = "done"]
    BY <1>3, <1>0 DEF AddPush, TypeOK, absPhase
  <2>2. absValue[p] = item[p] /\ absValue' = absValue
    BY <1>3, <1>0 DEF AddPush, TypeOK, absValue, AddLabels, RemoveLabels
  <2>3. Fifo!DoAdd(p)
    BY <2>1, <2>2, <1>3 DEF AddPush, Fifo!DoAdd
  <2> QED BY <2>3 DEF Fifo!Next, Fifo!AddSome
<1>4. CASE AddNotify(p)
  <2>1. \A t \in Threads : absPhase'[t] = absPhase[t] /\ absValue'[t] = absValue[t]
    BY <1>4, <1>0 DEF AddNotify, Woken, TypeOK, absPhase, absValue, AddLabels,
       RemoveLabels
  <2>2. absPhase' = absPhase /\ absValue' = absValue
    BY <2>1 DEF absPhase, absValue
  <2> QED BY <2>2, <1>4 DEF AddNotify, Fifo!vars
<1>5. CASE AddUnlock(p)
  <2>1. absPhase[p] = "done" /\ absPhase' = [absPhase EXCEPT ![p] = "idle"]
    BY <1>5, <1>0 DEF AddUnlock, TypeOK, absPhase
  <2>2. absValue' = absValue
    BY <1>5, <1>0 DEF AddUnlock, TypeOK, absValue, AddLabels, RemoveLabels
  <2>3. Fifo!Return(p)
    BY <2>1, <2>2, <1>5 DEF AddUnlock, Fifo!Return
  <2> QED BY <2>3 DEF Fifo!Next
<1>6. ASSUME NEW i \in Items, AddCall(p, i) PROVE Fifo!Next
  BY <1>1, <1>6 DEF Fifo!Next
<1> QED BY <1>6, <1>2, <1>3, <1>4, <1>5 DEF AddStep

(* The same of remove, with pop_front.                                     *)
LEMMA RefineRemove ==
  ASSUME QueueAssumption, IInv, NEW c \in Consumers,
         RemoveStep(c) \/ SpuriousWakeup(c)
  PROVE  [Fifo!Next]_(Fifo!vars)
<1> c \in Threads /\ c \notin Producers
  BY DEF Threads, QueueAssumption
<1> USE DEF Goto, TookEffect
<1>0. TypeOK /\ ReadIsPopped
  BY DEF IInv
<1>1. CASE RemoveCall(c)
  <2>1. absPhase[c] = "idle" /\ absPhase' = [absPhase EXCEPT ![c] = "called"]
    BY <1>1, <1>0 DEF RemoveCall, TypeOK, absPhase
  <2>2. absValue' = [absValue EXCEPT ![c] = NoItem]
    BY <1>1, <1>0 DEF RemoveCall, TypeOK, absValue, AddLabels, RemoveLabels
  <2>3. Fifo!CallRemove(c)
    BY <2>1, <2>2, <1>1 DEF RemoveCall, Fifo!CallRemove
  <2> QED BY <2>3 DEF Fifo!Next
<1>2. CASE RemoveLock(c) \/ Relock(c) \/ SpuriousWakeup(c) \/ RemoveFound(c) \/ RemoveWait(c)
  <2>1. UNCHANGED <<q, item>>
    BY <1>2 DEF RemoveLock, Relock, SpuriousWakeup, RemoveFound, RemoveWait
  <2>2. absPhase' = absPhase
    BY <1>2, <1>0 DEF RemoveLock, Relock, SpuriousWakeup, RemoveFound,
       RemoveWait, TypeOK, absPhase
  <2>3. absValue' = absValue
    BY <1>2, <1>0, <2>1 DEF RemoveLock, Relock, SpuriousWakeup, RemoveFound,
       RemoveWait, TypeOK, absValue, AddLabels, RemoveLabels
  <2> QED BY <2>1, <2>2, <2>3 DEF Fifo!vars
<1>3. CASE RemoveRead(c)
  <2>1. absPhase' = absPhase
    BY <1>3, <1>0 DEF RemoveRead, TypeOK, absPhase
  <2>2. \A t \in Threads : absValue'[t] = absValue[t]
    BY <1>3, <1>0 DEF RemoveRead, TypeOK, absValue, AddLabels, RemoveLabels
  <2>3. absValue' = absValue
    BY <2>2 DEF absValue
  <2> QED BY <2>1, <2>3, <1>3 DEF RemoveRead, Fifo!vars
<1>4. CASE RemovePop(c)
  <2>1. absPhase[c] = "called" /\ absPhase' = [absPhase EXCEPT ![c] = "done"]
    BY <1>4, <1>0 DEF RemovePop, TypeOK, absPhase
  <2>2. q # <<>> /\ item[c] = Head(q) /\ Rest(q) = Tail(q)
    BY <1>4, <1>0, FirstRest DEF RemovePop, ReadIsPopped, TypeOK
  <2>3. absValue' = [absValue EXCEPT ![c] = item[c]]
    BY <1>4, <1>0 DEF RemovePop, TypeOK, absValue, AddLabels, RemoveLabels
  <2>4. Fifo!DoRemove(c)
    BY <2>1, <2>2, <2>3, <1>4 DEF RemovePop, Fifo!DoRemove
  <2> QED BY <2>4 DEF Fifo!Next, Fifo!RemoveSome
<1>5. CASE RemoveUnlock(c)
  <2>1. absPhase[c] = "done" /\ absPhase' = [absPhase EXCEPT ![c] = "idle"]
    BY <1>5, <1>0 DEF RemoveUnlock, TypeOK, absPhase
  <2>2. absValue' = absValue
    BY <1>5, <1>0 DEF RemoveUnlock, TypeOK, absValue, AddLabels, RemoveLabels
  <2>3. Fifo!Return(c)
    BY <2>1, <2>2, <1>5 DEF RemoveUnlock, Fifo!Return
  <2> QED BY <2>3 DEF Fifo!Next
<1> QED BY <1>1, <1>2, <1>3, <1>4, <1>5 DEF RemoveStep

(* Queue.cpp implements the atomic first-in first-out queue (its safety    *)
(* part): every history of the locked deque is a history of FifoQueue.     *)
THEOREM Refinement == Spec => Fifo!SafeSpec
<1>1. ASSUME QueueAssumption, IInv, [Next]_vars PROVE [Fifo!Next]_(Fifo!vars)
  <2>1. CASE Next
    BY <1>1, <2>1, RefineAdd, RefineRemove DEF Next
  <2>2. CASE UNCHANGED vars
    BY <2>2 DEF vars, Fifo!vars, absPhase, absValue
  <2> QED BY <1>1, <2>1, <2>2
<1> QED BY <1>1, RefineInit, Invariance, QueueAssumption, PTL DEF Spec, SafeSpec, Fifo!SafeSpec
=============================================================================
