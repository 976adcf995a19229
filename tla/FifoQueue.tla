----------------------------- MODULE FifoQueue -----------------------------
(***************************************************************************)
(* What the class Queue (Pixie-XC/Queue.h) promises the listener and the   *)
(* workers: a first-in first-out queue of descriptors on which add and     *)
(* remove take effect atomically, at some moment between the call and the  *)
(* return, and on which remove waits while there is nothing to take.       *)
(***************************************************************************)
EXTENDS Naturals, Sequences

CONSTANTS Producers, \* threads that call add
          Consumers, \* threads that call remove
          Items,     \* what is queued: connection descriptors
          NoItem     \* not an item: no argument and no result

VARIABLES queue,     \* the queued items, oldest first
          phase,     \* where each thread is in its call
          value      \* the argument of a pending add, the result of a remove

vars == <<queue, phase, value>>

Threads == Producers \cup Consumers

Init == /\ queue = <<>>
        /\ phase = [t \in Threads |-> "idle"]
        /\ value = [t \in Threads |-> NoItem]

CallAdd(p, i) == /\ phase[p] = "idle"
                 /\ phase' = [phase EXCEPT ![p] = "called"]
                 /\ value' = [value EXCEPT ![p] = i]
                 /\ UNCHANGED queue

DoAdd(p) == /\ phase[p] = "called"
            /\ queue' = Append(queue, value[p])
            /\ phase' = [phase EXCEPT ![p] = "done"]
            /\ UNCHANGED value

CallRemove(c) == /\ phase[c] = "idle"
                 /\ phase' = [phase EXCEPT ![c] = "called"]
                 /\ value' = [value EXCEPT ![c] = NoItem]
                 /\ UNCHANGED queue

DoRemove(c) == /\ phase[c] = "called"
               /\ queue # <<>>
               /\ value' = [value EXCEPT ![c] = Head(queue)]
               /\ queue' = Tail(queue)
               /\ phase' = [phase EXCEPT ![c] = "done"]

Return(t) == /\ phase[t] = "done"
             /\ phase' = [phase EXCEPT ![t] = "idle"]
             /\ UNCHANGED <<queue, value>>

AddSome    == \E p \in Producers : DoAdd(p)
RemoveSome == \E c \in Consumers : DoRemove(c)

Next == \/ \E p \in Producers : Return(p) \/ \E i \in Items : CallAdd(p, i)
        \/ \E c \in Consumers : Return(c) \/ CallRemove(c)
        \/ AddSome
        \/ RemoveSome

(***************************************************************************)
(* Some pending add takes effect, and so does some pending remove when     *)
(* there is an item to take.  Which thread gets ahead is not promised:     *)
(* pthread mutexes are not fair.                                           *)
(***************************************************************************)
Spec == Init /\ [][Next]_vars /\ WF_vars(AddSome) /\ WF_vars(RemoveSome)

SafeSpec == Init /\ [][Next]_vars
=============================================================================
