------------------------------- MODULE Relay -------------------------------
(***************************************************************************)
(* What the BLK proxy promises its clients, whatever the number of worker  *)
(* threads: the requests of a connection go upstream one at a time, in the *)
(* order they were sent, each at most once, and each is answered before    *)
(* the next one is forwarded, until the connection becomes a tunnel or is  *)
(* closed.  A request may be passed over: the promise is about order and   *)
(* duplication, not about delivery.                                        *)
(***************************************************************************)
EXTENDS Naturals, Sequences

CONSTANTS Conns,   \* client connections
          MaxMsgs  \* requests a client sends, numbered from 1

VARIABLES forwarded, \* per connection, the requests sent upstream
          answered,  \* per connection, the requests answered
          mode       \* per connection, "messages", "tunnel" or "closed"

vars == <<forwarded, answered, mode>>

Init == /\ forwarded = [c \in Conns |-> <<>>]
        /\ answered = [c \in Conns |-> <<>>]
        /\ mode = [c \in Conns |-> "messages"]

Later(s, n) == \A i \in 1..Len(s) : s[i] < n

Forward(c, n) == /\ mode[c] = "messages"
                 /\ forwarded[c] = answered[c]
                 /\ Later(forwarded[c], n)
                 /\ forwarded' = [forwarded EXCEPT ![c] = Append(@, n)]
                 /\ UNCHANGED <<answered, mode>>

Answer(c) == /\ mode[c] = "messages"
             /\ answered[c] # forwarded[c]
             /\ answered' = [answered EXCEPT ![c] = forwarded[c]]
             /\ UNCHANGED <<forwarded, mode>>

OpenTunnel(c) == /\ mode[c] = "messages"
                 /\ mode' = [mode EXCEPT ![c] = "tunnel"]
                 /\ UNCHANGED <<forwarded, answered>>

Close(c) == /\ mode[c] # "closed"
            /\ mode' = [mode EXCEPT ![c] = "closed"]
            /\ UNCHANGED <<forwarded, answered>>

Next == \E c \in Conns : \/ \E n \in 1..MaxMsgs : Forward(c, n)
                         \/ Answer(c)
                         \/ OpenTunnel(c)
                         \/ Close(c)

Spec == Init /\ [][Next]_vars
=============================================================================
