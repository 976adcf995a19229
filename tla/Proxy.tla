------------------------------- MODULE Proxy -------------------------------
(***************************************************************************)
(* The BLK proxy: workers that run HandlerBlk::handleBlkNormal, that is    *)
(* normalBlkProxy (a request goes upstream over a fresh BlkClient, its     *)
(* reply back to the client, and again) or tunnelBlkProxy.  One action per *)
(* call that can block, fail or change a descriptor.                       *)
(***************************************************************************)
EXTENDS Dispatch

CONSTANTS Unset,      \* a local variable without a value
          MaxRefused  \* bound: upstream connects the servers refuse

ASSUME ProxyAssumption == /\ MaxRefused \in Nat
                          /\ Unset \notin Messages \cup Ports

VARIABLES cfd,     \* BlkClient::socket, or upstreamRawSocket of a tunnel
          msg,     \* the request, then the response, a worker works on
          port,    \* local port of normalBlkProxy, read from the first request
          tries,   \* retry_count
          status,  \* local status: GOOD, ERRNO, EOF or PARSE
          refused, \* refused connects so far (bounded by MaxRefused)
          forwarded, \* history: per connection, the requests sent upstream
          thrown,  \* history: connections whose handler threw
          stray    \* history: client.close() closed somebody else's socket

locals  == <<msg, port, tries, status>>
history == <<refused, forwarded, thrown, stray>>
upVars  == <<cfd, locals, history>>
vars    == <<netVars, dispatchVars, upVars>>

MaxTries == 4

Init == /\ NetInit
        /\ DispatchInit
        /\ cfd = [w \in Workers |-> NoFd]
        /\ msg = [w \in Workers |-> Unset]
        /\ port = [w \in Workers |-> Unset]
        /\ tries = [w \in Workers |-> 0]
        /\ status = [w \in Workers |-> "GOOD"]
        /\ refused = 0
        /\ forwarded = [c \in Conns |-> <<>>]
        /\ thrown = {}
        /\ stray = FALSE

SetMsg(w, m)    == msg' = [msg EXCEPT ![w] = m]
SetStatus(w, s) == status' = [status EXCEPT ![w] = s]

(* A new BlkClient does not initialise its socket member: it holds what    *)
(* the worker's previous BlkClient left in the same stack slot, or a       *)
(* number that is no descriptor.                                           *)
NewClient(w) == /\ \E f \in {cfd[w], NoFd} : cfd' = [cfd EXCEPT ![w] = f]
                /\ tries' = [tries EXCEPT ![w] = 0]

(* A handler ends and its locals are gone; the slot of BlkClient stays.    *)
Return(w, from) == /\ Finish(w, from)
                   /\ msg' = [msg EXCEPT ![w] = Unset]
                   /\ port' = [port EXCEPT ![w] = Unset]
                   /\ tries' = [tries EXCEPT ![w] = 0]
                   /\ status' = [status EXCEPT ![w] = "GOOD"]
                   /\ UNCHANGED <<cfd, refused, forwarded, stray>>

(* A read returns -1: constructing a string of that length throws, and     *)
(* Worker::main catches the exception and takes the next connection.  The  *)
(* closes are skipped.                                                     *)
Throws(w, at) == /\ Return(w, at)
                 /\ thrown' = thrown \cup {c \in Conns : c = Behind(hfd[w])}
                 /\ UNCHANGED proc

ReadThrows(w, at) == /\ ReadsError(hfd[w])
                     /\ Throws(w, at)
                     /\ UNCHANGED <<fdt, peer, rx, tx>>

-----------------------------------------------------------------------------
(* HandlerBlk::handleBlkNormal                                             *)

ReadFirst(w, to) == /\ Step(w, "read", to)
                    /\ ReadsMessage(hfd[w])
                    /\ Consume(hfd[w])
                    /\ SetMsg(w, FirstOf(hfd[w]))
                    /\ UNCHANGED <<fdt, peer, tx, proc, status, history>>

StartNormal(w) == /\ ReadFirst(w, "connect")
                  /\ FirstOf(hfd[w]).verb = "NORMAL"
                  /\ port' = [port EXCEPT ![w] = FirstOf(hfd[w]).port]
                  /\ NewClient(w)

StartTunnel(w) == /\ ReadFirst(w, "tunnel_connect")
                  /\ FirstOf(hfd[w]).verb = "TUNNEL"
                  /\ UNCHANGED <<cfd, port, tries>>

RejectFirst(w) == /\ ReadFirst(w, "close")
                  /\ FirstOf(hfd[w]).verb = "BAD"
                  /\ UNCHANGED <<cfd, port, tries>>

(* Mutant: end of file before a request does not close.                    *)
FirstEofNoClose(w) == /\ Return(w, "read")
                      /\ ReadsEof(hfd[w])
                      /\ UNCHANGED <<fdt, peer, rx, tx, proc, thrown>>

FirstEof(w) == /\ Step(w, "read", "close")
               /\ ReadsEof(hfd[w])
               /\ UNCHANGED <<fdt, peer, rx, tx, proc, upVars>>

(* BlkSocket::close on the client's socket ends the handler.               *)
CloseClient(w) == /\ Return(w, "close")
                  /\ Close(hfd[w])
                  /\ UNCHANGED <<proc, thrown>>

-----------------------------------------------------------------------------
(* HandlerBlk::normalBlkProxy                                              *)

Connect(w) == /\ Step(w, "connect", "send")
              /\ ConnectOk(w)
              /\ cfd' = [cfd EXCEPT ![w] = Lowest]
              /\ SetStatus(w, "GOOD")
              /\ UNCHANGED <<proc, msg, port, tries, history>>

(* The server refuses, or no descriptor is left for a socket.              *)
Refused == IF FreeFds = {} THEN UNCHANGED refused
           ELSE refused < MaxRefused /\ refused' = refused + 1

(* Mutant: the fourth failure is retried too.                              *)
ConnectFailsTooOften(w) ==
  /\ Step(w, "connect", IF tries[w] < MaxTries THEN "connect" ELSE "close_up")
  /\ Refused
  /\ ConnectFail
  /\ tries' = [tries EXCEPT ![w] = @ + 1]
  /\ SetStatus(w, "ERRNO")
  /\ UNCHANGED <<proc, cfd, msg, port, forwarded, thrown, stray>>

(* Up to three failures are retried after a sleep; the fourth gives up.    *)
ConnectFails(w) ==
  /\ Step(w, "connect", IF tries[w] + 1 < MaxTries THEN "connect" ELSE "close_up")
  /\ Refused
  /\ ConnectFail
  /\ tries' = [tries EXCEPT ![w] = @ + 1]
  /\ SetStatus(w, "ERRNO")
  /\ UNCHANGED <<proc, cfd, msg, port, forwarded, thrown, stray>>

(* BlkClient::executeRequest: the write, then the read of the response.    *)
Send(w) == /\ Step(w, "send", "await")
           /\ Write(cfd[w], msg[w])
           /\ forwarded' = [forwarded EXCEPT ![msg[w].conn] = Append(@, msg[w].seq)]
           /\ UNCHANGED <<fdt, peer, rx, cfd, locals, refused, thrown, stray>>

Response(w, to, s) == /\ Step(w, "await", to)
                      /\ SetStatus(w, s)
                      /\ UNCHANGED <<fdt, peer, tx, proc, cfd, port, tries, history>>

GetResponse(w) == /\ Response(w, "reply", "GOOD")
                  /\ ReadsMessage(cfd[w])
                  /\ FirstOf(cfd[w]).verb # "BAD"
                  /\ Consume(cfd[w])
                  /\ SetMsg(w, FirstOf(cfd[w]))

RejectResponse(w) == /\ Response(w, "close_up", "PARSE")
                     /\ ReadsMessage(cfd[w])
                     /\ FirstOf(cfd[w]).verb = "BAD"
                     /\ Consume(cfd[w])
                     /\ UNCHANGED msg

(* Mutant: a request without a response is sent again.                     *)
ResponseEofRetries(w) == /\ Response(w, "connect", "EOF")
                         /\ ReadsEof(cfd[w])
                         /\ UNCHANGED <<rx, msg>>

ResponseEof(w) == /\ Response(w, "close_up", "EOF")
                  /\ ReadsEof(cfd[w])
                  /\ UNCHANGED <<rx, msg>>

(* The exception skips both closes: two descriptors leak.                  *)
ResponseThrows(w) == /\ ReadsError(cfd[w])
                     /\ Throws(w, "await")
                     /\ Leak(w)

Reply(w) == /\ Step(w, "reply", "close_up")
            /\ Write(hfd[w], msg[w])
            /\ UNCHANGED <<fdt, peer, rx, upVars>>

(* client.close() runs whether or not the client ever connected.           *)
CloseUp(w) == /\ Step(w, "close_up", IF status[w] = "GOOD" THEN "next" ELSE "close")
              /\ Close(cfd[w])
              /\ stray' = (stray \/ Behind(cfd[w]) \in Socks \ {w})
              /\ UNCHANGED <<proc, cfd, locals, refused, forwarded, thrown>>

NextRequest(w, to) == /\ Step(w, "next", to)
                      /\ UNCHANGED <<fdt, peer, tx, proc, port, status, history>>

(* The next request, whatever its verb, goes the way of the first.         *)
ReadNext(w) == /\ NextRequest(w, "connect")
               /\ ReadsMessage(hfd[w])
               /\ FirstOf(hfd[w]).verb # "BAD"
               /\ Consume(hfd[w])
               /\ SetMsg(w, FirstOf(hfd[w]))
               /\ NewClient(w)

RejectNext(w) == /\ NextRequest(w, "close")
                 /\ ReadsMessage(hfd[w])
                 /\ FirstOf(hfd[w]).verb = "BAD"
                 /\ Consume(hfd[w])
                 /\ UNCHANGED <<msg, cfd, tries>>

(* Mutant: end of file is taken for nothing read yet.                      *)
NextEofIgnored(w) == /\ NextRequest(w, "next")
                     /\ ReadsEof(hfd[w])
                     /\ UNCHANGED <<rx, msg, cfd, tries>>

NextEof(w) == /\ NextRequest(w, "close")
              /\ ReadsEof(hfd[w])
              /\ UNCHANGED <<rx, msg, cfd, tries>>

-----------------------------------------------------------------------------
(* HandlerBlk::tunnelBlkProxy                                              *)

TunnelConnect(w) == /\ Step(w, "tunnel_connect", "tunnel_ok")
                    /\ ConnectOk(w)
                    /\ cfd' = [cfd EXCEPT ![w] = Lowest]
                    /\ UNCHANGED <<proc, locals, history>>

(* exit(1) in the handler ends every connection.                           *)
TunnelConnectFails(w) == /\ Step(w, "tunnel_connect", "tunnel_connect")
                         /\ Refused
                         /\ ConnectFail
                         /\ proc' = "exit1"
                         /\ UNCHANGED <<cfd, locals, forwarded, thrown, stray>>

TunnelOk(w) == /\ Step(w, "tunnel_ok", "tunnel")
               /\ Write(hfd[w], [msg[w] EXCEPT !.verb = "ACK"])
               /\ UNCHANGED <<fdt, peer, rx, upVars>>

(* RawTwoWayChannel::start, by its ends only (the module Twc has the copy  *)
(* loop): end of file or an error on either side, or the timeout of its    *)
(* select.                                                                 *)
Quiet(w) == \A f \in {hfd[w], cfd[w]} :
              Behind(f) \in Socks /\ peer[fdt[f]] = "open"

TunnelEof(w) == /\ Step(w, "tunnel", "tunnel_close")
                /\ ~Quiet(w)
                /\ UNCHANGED <<fdt, peer, rx, tx, proc, upVars>>

TunnelTimeout(w) == /\ Step(w, "tunnel", "tunnel_close")
                    /\ Quiet(w)
                    /\ UNCHANGED <<fdt, peer, rx, tx, proc, upVars>>

(* assert(false) in the copy loop, or SIGPIPE on a write to the client.    *)
TunnelDies(w) == /\ Step(w, "tunnel", "tunnel")
                 /\ proc' \in {"abort"} \cup IF Kills(hfd[w]) THEN {"sigpipe"} ELSE {}
                 /\ UNCHANGED <<fdt, peer, rx, tx, upVars>>

TunnelCloseClient(w) == /\ Step(w, "tunnel_close", "tunnel_close_up")
                        /\ Close(hfd[w])
                        /\ UNCHANGED <<proc, upVars>>

TunnelCloseUp(w) == /\ Return(w, "tunnel_close_up")
                    /\ Close(cfd[w])
                    /\ UNCHANGED <<proc, thrown>>

-----------------------------------------------------------------------------
NormalStep(w) == \/ StartNormal(w) \/ RejectFirst(w) \/ FirstEof(w)
                 \/ CloseClient(w) \/ Connect(w) \/ ConnectFails(w) \/ Send(w)
                 \/ GetResponse(w) \/ RejectResponse(w) \/ ResponseEof(w)
                 \/ ResponseThrows(w) \/ Reply(w) \/ CloseUp(w)
                 \/ ReadNext(w) \/ RejectNext(w) \/ NextEof(w)
                 \/ ReadThrows(w, "read") \/ ReadThrows(w, "next")

TunnelStep(w) == \/ StartTunnel(w) \/ TunnelConnect(w) \/ TunnelConnectFails(w)
                 \/ TunnelOk(w) \/ TunnelEof(w)
                 \/ TunnelCloseClient(w) \/ TunnelCloseUp(w)

TakeNext(w) == Take(w) /\ UNCHANGED upVars

WorkerStep(w) == TakeNext(w) \/ NormalStep(w) \/ TunnelStep(w)

ListenerStep == ListenerNext /\ UNCHANGED upVars

ListenerFails == AcceptFails /\ UNCHANGED upVars

(* The peers move while the process lives; what they do later does not     *)
(* concern it.                                                             *)
ServerStep(w) == /\ proc = "up"
                 /\ ServerReply(w)
                 /\ UNCHANGED <<dispatchVars, upVars>>

Environment == /\ proc = "up"
               /\ \/ \E s \in Socks : PeerNext(s)
                  \/ \E c \in Conns : Forget(c)
                  \/ \E c \in Conns : ClientNext(c) /\ UNCHANGED dispatchVars
               /\ UNCHANGED upVars

Next == \/ ListenerStep \/ ListenerFails
        \/ \E w \in Workers : \/ WorkerStep(w) \/ ServerStep(w)
                              \/ TunnelTimeout(w) \/ TunnelDies(w)
        \/ Environment

(***************************************************************************)
(* The threads keep running, and a server that was sent a request answers  *)
(* it, or hangs up.  No client is obliged to do anything, accept need not  *)
(* fail, and the timeout of a tunnel is not counted on.                    *)
(***************************************************************************)
Fairness == /\ WF_vars(ListenerStep)
            /\ \A w \in Workers : WF_vars(WorkerStep(w)) /\ WF_vars(ServerStep(w))

Spec == Init /\ [][Next]_vars /\ Fairness

-----------------------------------------------------------------------------
HandlerLabels == {"read", "close", "connect", "send", "await", "reply",
                  "close_up", "next", "tunnel_connect", "tunnel_ok", "tunnel",
                  "tunnel_close", "tunnel_close_up"}

(* The descriptors a worker is entitled to use: its client's until it      *)
(* closed it, and its upstream socket from connect to close.               *)
HoldsClient(w) == pc[w] \in HandlerLabels \ {"tunnel_close_up"}

HoldsUp(w) == \/ pc[w] \in {"send", "await", "reply", "tunnel_ok", "tunnel",
                            "tunnel_close", "tunnel_close_up"}
              \/ (pc[w] = "close_up" /\ status[w] # "ERRNO")

Held(f) == \/ f \in Range(queue)
           \/ \E w \in Workers : HoldsClient(w) /\ hfd[w] = f
           \/ \E w \in Workers : HoldsUp(w) /\ cfd[w] = f

(***************************************************************************)
(* The variables have their types.                                         *)
(***************************************************************************)
TypeOK == /\ NetTypeOK
          /\ queue \in Seq(Fds)
          /\ pc \in [Workers -> {"remove"} \cup HandlerLabels]
          /\ hfd \in [Workers -> Fds \cup {NoFd}]
          /\ cfd \in [Workers -> Fds \cup {NoFd}]
          /\ msg \in [Workers -> Messages \cup {Unset}]
          /\ port \in [Workers -> Ports \cup {Unset}]
          /\ tries \in [Workers -> 0..MaxTries]
          /\ status \in [Workers -> {"GOOD", "ERRNO", "EOF", "PARSE"}]
          /\ refused \in 0..MaxRefused
          /\ forwarded \in [Conns -> Seq(1..MaxMsgs)]
          /\ thrown \subseteq Conns
          /\ stray \in BOOLEAN

(***************************************************************************)
(* A descriptor has one owner: while the listener, the queue and the       *)
(* workers hand numbers around and the kernel reuses them, what is queued  *)
(* or handled is an open client connection, what a worker talks upstream   *)
(* on is its own upstream socket, and no two of them are the same, as long *)
(* as no worker that gave up connecting closed a number left over from an  *)
(* earlier request.                                                        *)
(***************************************************************************)
ExclusiveDescriptors == ~stray =>
  /\ IsInjective(queue)
  /\ \A i \in 1..Len(queue) : fdt[queue[i]] \in Conns
  /\ \A w \in Workers : HoldsClient(w) =>
       /\ hfd[w] \in Fds \ Range(queue) /\ fdt[hfd[w]] \in Conns
       /\ \A v \in Workers \ {w} : HoldsClient(v) => hfd[v] # hfd[w]
  /\ \A w \in Workers : HoldsUp(w) => (cfd[w] \in Fds /\ fdt[cfd[w]] = w)

(***************************************************************************)
(* A worker that sends a request, waits for its response or writes the     *)
(* reply still handles the connection that request came from, as long as   *)
(* no close went astray.                                                   *)
(***************************************************************************)
AnswersTheAsker ==
  \A w \in Workers :
    ~stray /\ pc[w] \in {"connect", "send", "await", "reply", "tunnel_connect", "tunnel_ok"}
      => fdt[hfd[w]] = msg[w].conn

(***************************************************************************)
(* What is lost is known.  Every open socket of a client is queued or      *)
(* being handled, and every open upstream socket is in use, unless a       *)
(* failed read threw past the closes; and as long as no close went astray, *)
(* the sockets nobody refers to are no more than the refused connects,     *)
(* which do not close what they created, and the handlers that threw,      *)
(* which forget an upstream socket each.                                   *)
(***************************************************************************)
Unreferenced == {f \in Fds : fdt[f] = Dead}

LosesAsCounted ==
  /\ \A f \in Fds : fdt[f] \in Socks => Held(f) \/ fdt[f] \in thrown
  /\ ~stray => Cardinality(Unreferenced) <= refused + Cardinality(thrown)

(***************************************************************************)
(* What README.md says of a tunnel: all activity on its connection's       *)
(* sockets is single threaded.  No other worker is about to close one.     *)
(***************************************************************************)
TunnelIsSingleThreaded ==
  \A v, w \in Workers : (pc[v] = "tunnel" /\ pc[w] = "close_up" /\ v # w)
                          => cfd[w] \notin {hfd[v], cfd[v]}

(***************************************************************************)
(* The listener gives up for want of descriptors, and the server with it,  *)
(* only after descriptors leaked: the connections being served cannot by   *)
(* themselves exhaust a table with room for one client and one upstream    *)
(* socket each.  It may always fail for another reason (AcceptFails).      *)
(***************************************************************************)
StopsOnlyAfterLeak ==
  (proc = "full" /\ MaxFd >= Cardinality(Conns) + Cardinality(Workers))
    => \E f \in Fds : fdt[f] # Free /\ ~Held(f)

(***************************************************************************)
(* Clients that hang up are let go.  A silent client occupies its worker   *)
(* for ever, so the promise is made for a moment at which no client is     *)
(* open: the queue then gets to each accepted one that hung up, ahead of   *)
(* all that are accepted later, and its descriptor is closed, unless it    *)
(* also resets the connection, its handler threw, or the process ends.     *)
(***************************************************************************)
Released(c) == peer[c] = "closed" /\ ~Open(c)

HangupReleases ==
  \A c \in Conns :
    (peer[c] = "fin" /\ Open(c) /\ \A d \in Conns : peer[d] # "open")
      ~> (Released(c) \/ peer[c] = "rst" \/ c \in thrown \/ proc # "up")

-----------------------------------------------------------------------------
(* The refinement of Relay: an answer is what was written to the client.   *)

Acked(c) == \E i \in 1..Len(tx[c]) : tx[c][i].verb = "ACK"

absAnswered == [c \in Conns |->
  LET replies == IF Acked(c) THEN Tail(tx[c]) ELSE tx[c]
  IN  [i \in 1..Len(replies) |-> replies[i].seq]]

absMode == [c \in Conns |-> IF peer[c] = "closed" THEN "closed"
                            ELSE IF Acked(c) THEN "tunnel" ELSE "messages"]

R == INSTANCE Relay WITH answered <- absAnswered, mode <- absMode

(***************************************************************************)
(* The proxy implements Relay: whatever is retried, reset or reused, no    *)
(* request is sent upstream twice, none overtakes another, and a client    *)
(* reads its own replies in order.  After a close went astray nothing of   *)
(* this can be relied on.                                                  *)
(***************************************************************************)
ImplementsRelay == R!Init /\ [][R!Next \/ stray']_(R!vars)
=============================================================================
