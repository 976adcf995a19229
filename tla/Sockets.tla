------------------------------ MODULE Sockets ------------------------------
(***************************************************************************)
(* The descriptors of the process and the TCP connections behind them, as  *)
(* socket_functions.cpp and BlkSocket.cpp use them, and the peers at their *)
(* other ends.  Data is modelled by the message: a request or a reply      *)
(* arrives whole, but several may wait in a socket, and one read takes     *)
(* everything that waits.                                                  *)
(***************************************************************************)
EXTENDS Naturals, Sequences, FiniteSets, SequencesExt

CONSTANTS Conns,    \* client connections
          Workers,  \* worker threads; a worker's name also names the
                    \* upstream socket it has open, it has one at a time
          Ports,    \* destination ports of requests
          Verbs,    \* what clients send: subset of {"NORMAL", "TUNNEL", "BAD"}
          Hasty,    \* sockets whose peer may close or reset the connection
          Free,     \* a descriptor number that is not in use
          Dead,     \* an open descriptor that no thread refers to any more
          MaxFd,    \* bound: the descriptors the process may open
          MaxMsgs,  \* bound: the requests of one client
          Chatty    \* bound: the clients that send requests; others only connect

ASSUME SocketsAssumption ==
  /\ Conns \cap Workers = {}
  /\ Free # Dead
  /\ {Free, Dead} \cap (Conns \cup Workers) = {}
  /\ Verbs \subseteq {"NORMAL", "TUNNEL", "BAD"}
  /\ Hasty \subseteq Conns \cup Workers
  /\ Chatty \subseteq Conns
  /\ MaxFd \in Nat /\ MaxMsgs \in Nat \ {0}

Socks == Conns \cup Workers
Fds   == 1..MaxFd
NoFd  == 0    \* a number that is no descriptor of the model

(* "BAD" stands for bytes the parser rejects, "ACK" for OK TO TUNNEL.      *)
Messages == [conn : Conns, seq : 1..MaxMsgs, port : Ports,
             verb : {"NORMAL", "TUNNEL", "BAD", "ACK"}]

VARIABLES fdt,   \* what each descriptor refers to
          peer,  \* the far end of each socket: none, open, fin, rst, closed
          rx,    \* messages that arrived and were not read
          tx,    \* messages written; an upstream server consumes them
          asked, \* how many requests each client sent
          proc   \* "up", or how the process ended

netVars == <<fdt, peer, rx, tx, asked, proc>>

NetInit == /\ fdt = [f \in Fds |-> Free]
           /\ peer = [s \in Socks |-> "none"]
           /\ rx = [s \in Socks |-> <<>>]
           /\ tx = [s \in Socks |-> <<>>]
           /\ asked = [c \in Conns |-> 0]
           /\ proc = "up"

NetTypeOK == /\ fdt \in [Fds -> Socks \cup {Free, Dead}]
             /\ peer \in [Socks -> {"none", "open", "fin", "rst", "closed"}]
             /\ rx \in [Socks -> Seq(Messages)]
             /\ tx \in [Socks -> Seq(Messages)]
             /\ asked \in [Conns -> 0..MaxMsgs]
             /\ proc \in {"up", "full", "stopped", "exit1", "sigpipe", "abort"}

Open(s) == \E f \in Fds : fdt[f] = s

(* The kernel hands out the lowest free number.                            *)
FreeFds == {f \in Fds : fdt[f] = Free}
Lowest == CHOOSE f \in FreeFds : \A g \in FreeFds : f <= g

-----------------------------------------------------------------------------
(* What a blocking read of a descriptor returns: messages, end of file, or *)
(* an error (the descriptor is closed or not connected, or the peer reset  *)
(* the connection).  With none of these it blocks: there are no timeouts.  *)

Behind(f) == IF f \in Fds THEN fdt[f] ELSE Free

ReadsMessage(f) == /\ Behind(f) \in Socks
                   /\ peer[fdt[f]] # "rst"
                   /\ rx[fdt[f]] # <<>>

ReadsEof(f) == /\ Behind(f) \in Socks
               /\ peer[fdt[f]] = "fin"
               /\ rx[fdt[f]] = <<>>

ReadsError(f) == Behind(f) \in Socks => peer[fdt[f]] = "rst"

(* BlkSocket::readMessage parses one message out of what the read took and *)
(* discards the rest.                                                      *)
FirstOf(f) == Head(rx[fdt[f]])

(* Mutant: what was parsed stays in the buffer.                            *)
ConsumeNothing(f) == UNCHANGED rx

Consume(f) == rx' = [rx EXCEPT ![fdt[f]] = <<>>]

(* BlkSocket::writeMessage never reports a failure.  Upstream sockets have *)
(* SO_NOSIGPIPE set; on a client socket the peer reset the write raises    *)
(* SIGPIPE, which ends the process.                                        *)
Delivers(f) == Behind(f) \in Socks /\ peer[fdt[f]] # "rst"
Kills(f)    == Behind(f) \in Conns /\ peer[fdt[f]] = "rst"

Write(f, m) ==
  /\ tx' = IF Delivers(f) THEN [tx EXCEPT ![fdt[f]] = Append(@, m)] ELSE tx
  /\ proc' = IF Kills(f) THEN "sigpipe" ELSE proc

(* socket_close.  Closing a number that is not open changes nothing.  What *)
(* a client received stays on record; an upstream socket is forgotten.     *)
Close(f) ==
  IF Behind(f) # Free
  THEN /\ fdt' = [fdt EXCEPT ![f] = Free]
       /\ peer' = [s \in Socks |-> IF s = fdt[f] THEN "closed" ELSE peer[s]]
       /\ rx' = [s \in Socks |-> IF s = fdt[f] THEN <<>> ELSE rx[s]]
       /\ tx' = [s \in Socks |-> IF s = fdt[f] /\ s \in Workers THEN <<>> ELSE tx[s]]
  ELSE UNCHANGED <<fdt, peer, rx, tx>>

(* The descriptor of worker w's upstream socket stays open, nobody will    *)
(* use it again.                                                           *)
Leak(w) == /\ fdt' = [f \in Fds |-> IF fdt[f] = w THEN Dead ELSE fdt[f]]
           /\ peer' = [peer EXCEPT ![w] = "closed"]
           /\ rx' = [rx EXCEPT ![w] = <<>>]
           /\ tx' = [tx EXCEPT ![w] = <<>>]

(* socket_connect_host_port: on success a connected socket of the worker;  *)
(* when the server refuses, the socket it created stays open.              *)
ConnectOk(w) == /\ FreeFds # {}
                /\ fdt' = [fdt EXCEPT ![Lowest] = w]
                /\ peer' = [peer EXCEPT ![w] = "open"]
                /\ rx' = [rx EXCEPT ![w] = <<>>]
                /\ tx' = [tx EXCEPT ![w] = <<>>]

ConnectFail == /\ fdt' = IF FreeFds # {} THEN [fdt EXCEPT ![Lowest] = Dead] ELSE fdt
               /\ UNCHANGED <<peer, rx, tx>>

-----------------------------------------------------------------------------
(* The peers.  Clients connect, send requests without waiting for replies, *)
(* close and reset when they like; servers answer what they receive, with  *)
(* a well-formed reply or not, or hang up.                                 *)

ClientConnect(c) == /\ peer[c] = "none"
                    /\ peer' = [peer EXCEPT ![c] = "open"]
                    /\ UNCHANGED <<fdt, rx, tx, asked, proc>>

ClientSend(c, v, p) ==
  /\ peer[c] = "open"
  /\ c \in Chatty /\ asked[c] < MaxMsgs
  /\ asked' = [asked EXCEPT ![c] = @ + 1]
  /\ rx' = [rx EXCEPT ![c] =
              Append(@, [conn |-> c, seq |-> asked[c] + 1, port |-> p, verb |-> v])]
  /\ UNCHANGED <<fdt, peer, tx, proc>>

PeerCloses(s) == /\ peer[s] = "open"
                 /\ peer' = [peer EXCEPT ![s] = "fin"]
                 /\ UNCHANGED <<fdt, rx, tx, asked, proc>>

(* What was not read is lost with the connection.                          *)
PeerResets(s) == /\ peer[s] \in {"open", "fin"}
                 /\ peer' = [peer EXCEPT ![s] = "rst"]
                 /\ rx' = [rx EXCEPT ![s] = <<>>]
                 /\ UNCHANGED <<fdt, tx, asked, proc>>

ServerReply(w) ==
  /\ peer[w] = "open" /\ tx[w] # <<>>
  /\ \E v \in {Head(tx[w]).verb, "BAD"} :
       rx' = [rx EXCEPT ![w] = Append(@, [Head(tx[w]) EXCEPT !.verb = v])]
  /\ tx' = [tx EXCEPT ![w] = Tail(@)]
  /\ UNCHANGED <<fdt, peer, asked, proc>>

ClientNext(c) == \/ ClientConnect(c)
                 \/ \E v \in Verbs, p \in Ports : ClientSend(c, v, p)
=============================================================================
