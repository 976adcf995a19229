# A TLA+ specification of pixiecpp

pixiecpp is a man-in-the-middle proxy for a small message protocol, "BLK",
written with blocking sockets and threads. This directory holds TLA+ modules
that model its threads, its descriptors, its handlers, its tunnels and its
parsers, TLC
configurations that check them on small instances, and proofs that TLAPS
checks for every instance.

    cd tla
    tlc -workers 2 -config MCQueue.cfg MCQueue      # and so on for each MC*.cfg
    tlapm QueueProofs.tla                           # and so on for each *Proofs.tla

`PROJECT.json` lists, in a form a program can read, the components, the runs,
the lines of `src/` each definition stands for, the hazards and the theorems.

## Inventory

Paths are below `src/`. The process is built for macOS (it needs `sin_len`,
`SO_NOSIGPIPE` and `SO_NWRITE`), with assertions.

| component | state | operations | interacts with |
|---|---|---|---|
| Listener (`Pixie-XC/Listener.cpp`) | the listening descriptor | `main`: accept, `queue.add`, or end for good when accept fails | Queue |
| Queue (`Pixie-XC/Queue.cpp`) | a deque of descriptors, `count_mutex`, `count_cv` | `add`, `remove` | called by the listener and all workers |
| Worker, Handler (`Pixie-XC/Worker.cpp`, `Handler.cpp`) | `active`, `active_socket`; one handler at a time | `main`: remove, handle, catch every exception | Queue, the protocol handlers, read by Monitor |
| BLK proxy (`Protocols/BLK/HandlerBlk.cpp`) | locals of a handler: message, port, status, retry count, the `BlkClient` | `handleBlkNormal`, `normalBlkProxy`, `tunnelBlkProxy`, `handleBlkLoopBack` | BlkSocket, BlkClient, the tunnel |
| BlkClient, BlkSocket | a descriptor; `BlkClient::socket` is not initialised | `connect`, `executeRequest`, `close`; `readMessage`, `writeMessage`, `flush` | socket functions, parser |
| BlkParser, BlkMessage | the lines and body seen so far | `append`, `parseCharacter`, `toRawString` | one parser per `readMessage` |
| Socket functions (`socket_functions.cpp`) | the process's descriptor table | connect, read, write, close, listen, write flush | the kernel, the peers |
| Tunnel (`Channel.cpp`, `external_src/twc.c`) | two buffers with two pointers each, the select sets, two statuses | `twc_run`, `sm_execute`, `cb_advance_*` | both peers |
| Server, Thread (`Server.cpp`, `Thread.cpp`) | locals of `Server::listen`: the queue, the worker table, the monitor | start the listener, the workers, the monitor; join the listener; return and destroy what is left | all threads |
| Monitor (`Monitor.cpp`) | the index it scans | every 10 s read `active` and `active_socket` of each worker, without a lock | Worker |
| ConnectionPool, WorkerLoop, Statistics | - | - | not used in this version |
| HTTP handler (`Protocols/HTTP`) | - | - | unfinished, never called: `Handler::handleHttpProxy` is empty |
| HTTPParser (`external_src/HTTPParser.cpp`, `ParserContext.cpp`, `HTTPMessage.cpp`, `simple_buffer.c`; again in `test_src/`) | a message under construction, four growing buffers, `header_state`, `messageCompleteFlag` | the callbacks of http_parser, `appendBytes`, `appendEOF`, `setUpNextMessage` | http_parser, the callbacks of its user |
| http_parser (`test_src/http_parser.c`) | `struct http_parser`: state, flags, `content_length`, kind, version, status | `http_parser_execute` | the callbacks of HTTPParser |

What is hard here: the locked deque with its single broadcast; descriptor
numbers that travel between threads and are reused by the kernel while some
paths keep, close or lose them; retries beside upstream hangups; exceptions
that skip closes; the absence of any timeout outside tunnels; a process that
ends from inside a handler (`exit(1)`, SIGPIPE, failed assertions) or because
its listener gave up, and then destroys objects under running threads; fields
of the workers that the monitor reads without a lock; in a tunnel, partial reads
and writes around a buffer that wraps; and, for HTTP, where one message ends and
the next begins. `PROJECT.json` lists these hazards line by line.

What makes each component correct:

- Queue: an atomic FIFO queue; nobody touches the deque without the mutex; no
  wakeup is lost.
- Listener, workers, descriptors: a descriptor has one owner at a time and is
  not lost; the server does not stop serving without cause.
- Server, monitor: no connection waits beside an idle worker, from the first
  moment; what the threads share exists while the listener runs, and the process
  ends when it ends; a worker that is stuck is reported.
- BLK proxy: a client reads the replies to its own requests, in order, and no
  request is sent upstream twice; clients that hang up are let go.
- Tunnel: each end receives what the other sent, in order, up to the last byte
  before the end of file.
- BLK parser: it takes the texts of the format and no others, wherever the reads
  cut them; each message is read as it was sent and can be read again when forwarded.
- HTTPParser: wherever the buffers cut the texts, each message is handed over as
  it was sent and holds nothing of the one before.
- http_parser: every message is reported with the calls due for its lines,
  none is missed, nothing begins after the last one, and errors have a cause.

## Modules

| module | models | correspondence |
|---|---|---|
| `FifoQueue` | the promise of Queue | atomic add and remove between call and return |
| `Queue` | `Queue.cpp` | one action per statement: `AddLock`, `AddPush`, `AddNotify`, ... `RemoveFound`/`RemoveWait` are the two outcomes of the `while` test, `Relock` the return of `pthread_cond_wait` |
| `Sockets` | descriptor table, kernel, peers, `socket_*`, message reads and writes | `fdt` maps each number to a connection, `Free`, or `Dead` (open, forgotten); `rx`/`tx` are what waits and what was written |
| `Dispatch` | `Listener::main`, `Worker::main`, `Handler::handle` | `Accept`; `AcceptRunsOut` and `AcceptFails`, which end the listener (for want of a descriptor, and for any other reason at any time, a listening socket that was never set up included); `Take`, `Step` and `Finish` of a handler |
| `Relay` | the promise of the proxy to its clients | per connection: requests forwarded and answered, messages, tunnel or closed |
| `Proxy` | `HandlerBlk` for BLK_PROXY | extends `Dispatch`; one action per blocking or failing call, `pc` is the place in the handler, `cfd` is `BlkClient::socket` or the tunnel's upstream descriptor |
| `Loopback` | `HandlerBlk::handleBlkLoopBack` | extends `Dispatch`; the handler only, one action per call that blocks or fails |
| `Server` | `Server::listen`, `Monitor`, `Thread`, `Worker::main` around the handler | extends `Loopback`; `main`, `lst`, `place`, `mon` are where the threads are, `gone` is what `listen` has destroyed; `NoteSocket` and `Activate` are the two writes of a worker, `TestActive` and `PrintSocket` the two reads of the monitor; `Crash` is a use of what is gone |
| `Twc` | `twc.c` | the two halves of `sm_execute` per direction, `Select`, `SelectFails`, `Timeout`, `Continue`, `Leave`; bytes are numbered as sent; a read or a write may fail at any time (the code takes EINTR and EAGAIN for errors too) |
| `BlkParser` | `BlkMessage.cpp`, `BlkSocket::readMessage` and `writeMessage` | `FirstLineChar` ... `BodyChar` are the branches of `parseCharacter` as functions of a parser state; `Read`, `ParseOn`, `ParseDone`, `Return` the loop of `readMessage`; `Complete`, `Invalid` and `MessageOf` define the format of `BlkMessage.h` (numbers are strings of digits) without the machine, `Lax` the texts on which the two differ |
| `HttpParser` | `HTTPParser.cpp`, `ParserContext.cpp`, `simple_buffer.c` | one action per callback; `todo` is what http_parser has still to report of the message it is in, piece by piece; no callback follows one that would read a buffer that is not there (`Missing`) |
| `HttpFraming` | `http_parser.c`, `appendBytes`, `appendEOF` | extends `HttpParser`; one action per kind of line in each state, `parser` is `struct http_parser`; `Inputs` are the lines of a connection, with a stray one perhaps; refines `HttpParser` with `todo <- owed` |
| `MC*` | instances for TLC | |
| `SocketsProofs` | lemmas on the operations of `Sockets` | used by `ProxyProofs` and `ServerProofs` |
| `QueueProofs`, `ProxyProofs`, `ServerProofs`, `TwcProofs`, `BlkParserProofs`, `HttpProofs`, `FramingProofs` | theorems | each extends the module it is about; `ProxyProofs` has the refinement of `Relay` too |

`Proxy` and `Server` use the queue as the atomic FIFO queue that `Queue` is
shown to implement. `Proxy` uses a tunnel by its ends only (end of file or error,
timeout, death of the process); `Twc` has the copy loop. `Proxy` and `Loopback`
take messages whole, as sent or rejected; `BlkParser` has the characters and the
reads, for one connection. `Server` composes the loopback handler with the
threads; `Proxy`, whose state space is large, is checked with the listener and the
workers of `Dispatch`. `HttpParser` and `HttpFraming` stand apart from the rest, as
their code does. `HttpParser` by itself takes the calls the messages of a stream are due;
`HttpFraming!ImplementsCalls` says that http_parser makes these calls and no
others, until it fails or the program ends in one of them. It is a theorem, and so what is proved of `HttpParser` is proved with
http_parser under it.

Abstractions, all of them on data:

- A message arrives whole. Several may wait; one read takes all of them, and
  `readMessage` parses the first and drops the rest, as the code does with the
  rest of its buffer. "BAD" stands for bytes the parser rejects. The body is its
  origin (`conn`, `seq`); `blk_proxy_rules` only prefixes it.
- A blocking write takes the whole message (`socket_write_data` asserts it).
- The backlog is a set: connections are accepted in any order.
- `BlkClient::socket` is not initialised. A new client's value is what the
  worker's previous client left in the same stack slot, or `NoFd`.
- What is behind a closed descriptor number, and what the kernel does with it, is
  decided when it is used: a stale number reads or closes what it now stands for.
- The `HTTP_PROXY` handler is empty and not modelled.
- In `Twc`, `Room` bounds what a socket holds that its peer has not taken,
  and the three seconds of `select` may pass whenever nothing is ready.
- `sleep(2)` between connects, logging and statistics are left out.
- In `BlkParser` characters are ASCII codes and an int has few digits. `Forward`
  writes a message as `normalBlkProxy` does, whatever its verb.
- In `HttpParser` a message is what http_parser reports of it: the grammar of HTTP
  belongs to http_parser. A header line without a colon is a name alone (`colon`),
  as http_parser reports it (`http_parser.c:1388-1398`). HTTPParser takes the name
  after it for another piece of it, and a pair of both is saved; when no other
  follows, `headers_complete_cb` reads the value through a null pointer, and when it
  was the last trailer, the first name of a later message finds no buffer. The
  model stops there, as the program does. `messageData`, versions, methods and the
  formatting of messages are left out.
- `HttpFraming` reads its input by the line, and reports of a line are cut by
  `HttpParser`. Senders frame their messages correctly but for colons, and a message
  that ends with the connection, leaves HTTP, or announces a body it does not have
  is their last (`FramingAssumption`). The last of these is an answer to HEAD, or one
  that never has a body, with a Content-Length or a chunked header:
  `headers_complete_cb` never returns 1, so http_parser is not told and waits
  for the body (`Announces`; for 1xx, 204 and 304 it knows the status itself,
  and only the header makes it wait). What may go wrong is a line that fits
  nowhere, a message after the last one, the wrong kind of message, and the end of
  the connection. `says` and `n` of a header are what http_parser recognises in its first
  line, and those of a fold what it makes of that: behind a Content-Length the
  number is started again (`http_parser.c:1443-1450`), so the fold has a length of its
  own. A fold that is no number there is a line no rule accepts, like any other stray
  line (`Junk`). `owed` is a function of the other variables and
  is there for the refinement. Not modelled: characters of first lines and names,
  the URL parser, bare LF, a folded line behind a header without a colon,
  junk inside a text, the
  80 KB limit of headers, a Content-Length that overflows, pausing,
  HTTP messages after an upgrade, and a second `appendEOF` (in a body
  that ends with the connection http_parser stays in its state and would complete an
  empty message each time). A connection that breaks inside a body without an end is
  one whose body is shorter.
- `HTTPParser.cpp` is there twice. The copy in `test_src/` goes with the
  `http_parser.c` beside it; the one in `external_src/` also sets two chunk
  callbacks, which do nothing, for a newer http_parser the repository does not hold.
- In `Server` the ten seconds between scans pass at once, the monitor's count of
  active workers is left out, and the two writes of a worker may become visible in
  either order, as nothing orders them for a reader without the lock. A thread
  that uses a destroyed object goes on or crashes. On macOS the destructor of the
  queue does not wait for the threads that sleep on its condition variable.

## Runs

| run | instance | what it shows |
|---|---|---|
| `MCQueue` | 2 adders, 2 removers, 2 items, at most 2 queued; deadlock checked | the deque refines `FifoQueue`, liveness included; no lost wakeup |
| `MCProxy` | 2 clients with a request each, 2 workers, 4 descriptors, one refused connect, every peer may close or reset | one owner per descriptor and replies to the asker until a close goes astray; only a thrown read loses a client's descriptor, and what else is lost is counted by refused connects and thrown handlers; refinement of `Relay` |
| `MCProxyGiveUp` | 2 clients with two requests each, 1 worker, 3 descriptors, 4 refused connects | the retry bound; requests stay in order with pipelining; descriptors run out only after a leak; clients that hung up are let go |
| `MCServer` | 2 clients, one that sends 2 messages and may close or reset and one that only connects, 2 workers, 2 descriptors; any thread may fail to start | echoes in order, and none behind a flush; one service per connection; a hangup frees the worker; no worker idle beside a queued connection; a stuck worker is reported; nothing shared is gone while the listener runs; the process ends when it ends |
| `MCTwc` | buffers of 5, 5 bytes one way and 1 the other, sockets that hold two; reads, writes and select may fail | in-order delivery up to the first wrap; nothing pending is forgotten; end of file is reported when the last bytes were passed on where they fit; what is sent is delivered |
| `MCBlkParser` | the right text, every text with one or two parts wrong, and rows of three messages; reads of at most 3 characters | the machine agrees with the format at every cut, but for numbers that only `std::stoi` takes for one and for empty bodies; messages are read as sent, written ones can be read again, and every read is answered once its text is there |
| `MCHttpFraming` | one to three messages with every framing, folded headers and lengths, headers without a colon in every place, trailers, keep-alive and close, upgrades, replies, a stray line anywhere, the end of the connection anywhere; blocks of 2 characters | http_parser makes the calls that are due, misses no message, begins none after the last and fails only for a cause; what is delivered is what was sent (but for the last trailer), headers are announced in full, a buffer is missing only behind a line without a colon, buffers suffice |
| `MCBlkParserPipelining` | violation | text of the next request that came with the same read is lost |
| `MCProxyStaleClose` | violation | a worker that never connected closes a descriptor of another worker's tunnel |
| `MCBlkFormat` | violation | a port or a length that is no string of digits is accepted |
| `MCTwcOrder` | violation | bytes are lost where the read pointer wraps over pending ones |
| `MCTwcAssert` | violation | a read that fills the buffer aborts |

Why the bounds are enough. Two adders and two removers are the least at which a
signal instead of a broadcast, or an `if` instead of the `while`, goes wrong, and
a length of two distinguishes "became non-empty" from "is longer". Two clients
and two workers are the least at which a descriptor number passes from one
worker to another. Four descriptors let both workers serve at once, and run out
as soon as one leaks, so that connects fail for want of a descriptor and the
give-up path of the retry loop is reached without a long row of refusals;
`stray` records that `client.close()` hit a foreign descriptor there. Clients
send one request in that run; two requests each, pipelined, are checked with one
worker in `MCProxyGiveUp`, where four refusals let the retry loop run out. In
`MCTwc` five bytes through a buffer of five with sockets that hold two make reads and
writes partial, fill the buffer to its last byte and wrap it; the two violations need
no more than a buffer of four and sockets that hold one.
Reads of three characters cut a BLK text anywhere, newlines and numbers included;
ints of two digits (`MaxInt`) have a port that is too large; a NUL byte, an empty
body and a body with a newline are among the bodies. Header texts of up to five
characters over blocks of two make a buffer grow twice, and three messages show
what one leaves to the next. The connections of `MCHttpFraming` hold every pair of
the plain kinds of message, so that each framing follows each other one, and each
kind that ends a connection followed by one more message. In `MCServer` two
descriptors are what two connections need, both workers can be busy at once, and
accept may fail with a worker at any place of its handler. That descriptors run out is
the business of `MCProxyGiveUp`, and for any number of them of the
proofs.

The bounds by name: `MaxLen` (adds wait while the deque has that length),
`MaxFd` (descriptors of the process), `MaxMsgs` (requests per client),
`Chatty` (the clients that send requests; the others only connect),
`MaxRefused` (refused connects), `MaxBytes` (bytes a peer sends), `Room`, `BufferLength` (what a read returns), `BufferSize`
(a block of `simple_buffer.c`), `Scripts`, `Streams` and `Wires` (what is sent). `Hasty`
selects the peers that may close or reset. Symmetry (clients, workers) is used
only in runs without liveness properties.

Deadlock is not checked where the system really may stop: the process can end,
a tunnel does end, a proxy of silent clients is idle, and what a client sends to a
parser ends.

### Fairness

- `Queue`: every thread inside a call keeps running (weak fairness), workers call
  `remove` for ever (`Worker::main`), and a thread in `add` gets a mutex that is
  free again and again (strong fairness on `AddLock`): Darwin's default mutex policy is fair
  share. Without it an endless sequence of spurious wakeups could keep the
  listener out. Nobody is obliged to add; nothing is assumed of removers.
- `Proxy`: the listener and the workers run; a server that was sent a
  request answers or hangs up. Clients need do nothing, and no tunnel is
  relied upon to time out. `HangupReleases` therefore speaks of a moment at
  which no client is open: a silent client holds its worker for ever, by design
  of the code (`Server.cpp:37`).
- `Server`: `Server::listen`, the listener, each worker and the monitor run, and the
  monitor's sleep ends. No thread needs to fail to start, accept need not
  fail, and clients need not do anything. That the process ends with the listener (`ListenerEndKillsAll`) needs
  only the main thread.
- `Twc`: the worker runs and a peer takes what was written to it. Peers need not
  send or close; the timeout is not relied upon.
- `BlkParser`: the reader runs; the client need not send anything. `HttpParser`
  and `HttpFraming` state no liveness: they run when bytes are given to them.

## Proofs

`QueueProofs` proves, for any sets of threads and items, `TypeOK`,
`LockProtectsQueue`, `NoLostWakeup` and `ReadIsPopped`, and that the queue
implements `FifoQueue!SafeSpec`. The inductive invariant is their conjunction:
mutual exclusion gives that no other thread changes the deque between the test
of the `while` loop and `pop_front`; for `NoLostWakeup` the important step is
`AddPush`, which makes the deque longer than zero under the mutex and is
followed, before anybody can unlock, by the broadcast. The refinement proof
maps each statement to the effect of its call or to a stutter. The assumption is
`QueueAssumption`: adders and removers differ, and the two markers are
neither thread nor item.

`ProxyProofs` proves, for any number of connections, workers, requests,
descriptors and refused connects, `TypeOK`, `LosesAsCounted`,
`ExclusiveDescriptors` and `StopsOnlyAfterLeak`. A worker holds a client's number
and an upstream number at some places of the handler and not at others
(`HoldsClient`, `HoldsUp`); no property of the code says so, and the inductive
invariants are built on it.

- `Kept` needs no hypothesis, and holds also after a `client.close()` hit a
  foreign number: no socket has two numbers, an open socket has not been closed,
  an upstream socket is the one its worker has in `cfd`, and a client's open socket
  is in the queue, with a worker, or among those whose handler threw. That is
  the first half of `LosesAsCounted`; the second (`LossesCounted`) counts
  descriptors that stand for nothing any worker knows: each step adds at most as
  many as it adds refused connects and thrown handlers.
- `Owned` adds, while no close went astray (`~stray`), that a number is queued
  once, not queued and handled, and not handled twice. It follows that
  a number the kernel gives out anew, the lowest that is free, belongs to nobody.
  Each step is first put into one of a few classes by what it does to descriptors
  (`FdSteps`: accepts, takes, connects, lets go, ...), and the invariants are proved
  of the classes.
- `CountOK` says that the numbers queued and handled are not more than the
  connections accepted so far. It is about numbers and not about what they stand for,
  so it survives a stray close, and gives `StopsOnlyAfterLeak`. Its hypothesis
  `Finite`, that connections and workers are finite sets, is what counting needs.

Its second half proves on top of this `AnswersTheAsker` and that `Proxy` implements
`Relay`. The invariant `RelInv` is `Owned` and, while `~stray`, `Rel`: what waits in
a client's socket is a row of that client's requests with growing numbers, above
all it forwarded; the request in a worker's hands is its connection's next, what is
in its upstream socket echoes that request, and for a connection no worker took yet
nothing was done. `Relay`'s steps are those of one connection,
so the refinement has to show that a step of `Proxy` touches no other
(`ClosesOne`, `AnsweredAppend`); that a worker's socket numbers are its own
is where `Owned` is used. A step that sets `stray` is one the abstract
specification allows anything after. The assumptions are `SocketsAssumption` and
`ProxyAssumption`: names are disjoint, the markers are none of them, and a bound is
a number.

`TwcProofs` proves, for every buffer size of at least 2, any amount of data and
any room in the sockets, `TypeOK` (the pointers stay below the last byte, no
socket is overfilled), `FirstLap`, `PendingIsWatched` and `EofAfterDelivery`. For
`FirstLap`, until a direction has carried `N - 1` bytes
the bytes between the pointers are exactly those read and not written, hence
delivery is in order: a write advances
`write_ptr` by at most what is pending, so it does not wrap before `read_ptr`
does, and a read that does not abort wraps only at the end of the lap. The other
two rest on `LInv`, which follows one turn of the loop: `Watched` says which
directions have been rearmed at each place between two calls of `select` (the
select sets are cleared once and filled by both directions in turn, so the first
must survive the second), and `Rests` what is left to pass on in a direction whose
peer has closed and was read to its end: between the read and the end of file
that follows it the loop has offered the other end every byte, and what remains is
excused by a socket that is full or a write that failed. A failed write is recorded in
the history variable `failed`, because the status it leaves may be overwritten by the
read of the same turn (`twc.c:169-171`).

`BlkParserProofs` proves, for every first line, prefix and size of an int, any verbs,
any texts a client may send and any cut of them, `TypeOK`, `ParserAgrees`,
`ParsedAsSent` and `RoundTrip`. The format has digits for numbers and the machine
has `stoi`; `ParserAgrees` speaks of texts that are not `Lax`, on which the two
agree (a line of digits is read as its value, one without digits where `stoi` looks
for them is rejected). `Complete`, `Invalid` and `MessageOf` speak of a whole text by its
newlines; the parser sees one character. Between them stands `Reading`,
what a parser in the middle of a message knows: which line it is in, that the lines
before are right and their fields are those of the text, and what of its own line
came so far. The lemmas about texts say how newlines, lines and the
body change when one character is appended (`OneMore`, `LineGrows`, `LineEnds`,
`BodyGrows`, `LinesStay`), one lemma per line of the format that `parseCharacter`
does what these say (`FirstLineParsed` ... `BodyParsed`), and `CharParsed` puts them
together. `ParserAgrees` then follows by induction over the steps of `readMessage`.
`ParsedAsSent` is proved under the hypothesis `~Pipelining`, without which it is
false (`MCBlkParserPipelining`): its invariant `InTurn` says that what is pending,
in the parser, in the read buffer and in the socket together, is the one text that
was not answered. That nothing of it is left when the message is complete is
`CompleteOnce`: a text is a whole message at one place only. For `TypeOK` it must
be shown that `Decimal`, a recursive function, has a value at all (`Solutions`,
`DecimalIs`). The assumption is `ParserAssumption`; that there is a verb at all is part of
it, since without one the text would be wrong a line before the parser notices.

`RoundTrip` (`ReadsWhatItWrote`) is proved from three things. The fold with which
it reads the text back is a run of `ParseChar` (`ParserRuns`), and `BackRead` says
what such a run does with the beginning of a whole message: with all of it, it is done
and has its fields, with less it waits. So it need not be followed
through the lines again: it is enough that the text written is a whole
message with the right fields. That is `RawStringComplete`, which
rests on `NumeralParsed`, that `stoi` gives back the int `to_string` wrote (by
least counterexample over `Decimal`), and on `LineWritten`. And `Passing`, the
invariant, says that the last result is a message as only `finishedParsing` makes
them: its verb is in capitals and has no newline, its body is not empty. A NUL
in the body makes `Written` a shorter beginning of the text, which is the case in
which the reader waits. The theorem has two hypotheses. The words of the code have no NUL,
which its literals do not. And `LengthFits`: the length of the body with the prefix is
an int; without it the reader of the text would find a length that `stoi`
rejects, a body of two gigabytes that no test here reaches.

`HttpProofs` proves, for every set of streams, every cut of their texts and every
block size, all four invariants of `HttpParser`: `TypeOK` (no buffer holds more than
its block), `BuffersThere` (a callback reads a buffer that is not there only behind a
line without a colon), `DeliveredAsSent` and `AnnouncedAsSent`. Two inductive
invariants do it.

- Types: `SbAppendOK` is the step of the growing buffer.
- `Whole` says where in its message the parser is: for a place `p` among the
  message's calls and a text `g` reported so far of the call at `p`, what is still
  to come is exactly the rest (`Ahead`), and the buffers and the message hold exactly
  what was reported (`Stage`). That is the pairs saved (`SavedPairs`), which lag the
  pair read last by one (`Waiting`: only the next field or the end of the headers
  saves it), and the texts of the first line and the body. A header without a colon is
  one call where others are two, so the places of the calls are found by flattening
  (`PairCallsAt`, `CallsAt`), and what name a field ends with depends on the
  row of such headers before it (`Names`, `NamesStep`). `MapGrows` says
  that saving pairs one by one, the later of two with one name replacing the earlier,
  gives the map of the whole list. There is one lemma `...Whole` per callback. Between
  messages (`Between`) the buffers are empty and the message is new: nothing of a
  message reaches the one after it but `header_state`, which is "field" only
  behind a last trailer without a colon (`Stale`).

`BuffersThere` follows from both (`WholeBuffers`): at a value the stage has its
name, at a field or the end of the headers it has the value of the pair that waits,
unless that one had no colon.

The last trailer is where the lag shows: nothing follows that would save it, and it
is thrown away with the buffers; the theorem says so for every message. The
assumption is `HttpAssumption`: blocks are not empty and `Null` is no buffer.

`FramingProofs` proves, for any connection whose messages are framed as they say and
for a stray line anywhere in it, the three invariants of `HttpFraming`: `NothingMissed`,
`NothingAfterClose` and `FailsForCause`. http_parser has no notion of the message it
is in; it has a state, a few flags and a number. That these are always enough is
the inductive invariant `Reading`, the conjunction of three:

- `Framing` ties the parser to a place in the lines of the connection. There is a
  row of lines, what the senders have still to send, of which the input is a copy
  with at most one stray line in it (`Strayed`), and that row is the rest of
  the message the parser is in and of all messages behind it (`Placed`). `Inside`
  says for each state what is left of the message and what the parser has heard:
  in the headers the flags and the length of those that came (`AtHeaders`), between
  two chunks all flags (`AtSize`), in a body of known length exactly the bytes still to
  come (`AtBody`). `Outside` says that between two messages the parser is in the
  state start just when the message before keeps its connection.
- `Delivery` counts: what was delivered is what was begun, but for one message that
  is still to end.
- `Causes` has the last two properties, and that http_parser fails without an
  error of its own only behind a message that leaves HTTP.

Rows of lines are flattened sequences of sequences. What is needed of them (one row
more, an empty row, where the first line of the rest stands) is proved first,
by least counterexample (`LeastOf`, `Flattened`), since the library's induction is
out of reach. `BetweenLine` and `InsideLine` say which line a state
can find next, and then there is one lemma per action for each part of the invariant
(`...Framing`, `Reads...`, `...Causes`). The assumption is `FramingAssumption`. It excludes what
http_parser itself cannot tell from a well framed message: a Content-Length, in a first line or a
fold, that is wrong, a body that no header announces, and anything behind an answer
that announces a body it does not have.

Its second half proves that `HttpFraming` implements `HttpParser` (`CallsAsPromised`).
`HttpParser` begins a message with all its calls in `todo`; `HttpFraming` has them
in the lines to come. The mapping is `todo <- owed`, and the argument has three steps.

- What lines are due. `Merged` joins the calls of folded header lines and of body
  pieces, as `HttpParser` counts a text as one call however it is cut. It is
  defined from the back, by `FoldLeft`; the steps of the parser are at the front. So
  `Join` adds a call at the front, and the two are shown to agree. With it there is
  one lemma for what is due of each kind of line.
- What a message is due (`MessageDue`, a lemma on what senders write). For every
  message framed as it says, by length, in chunks or by the end of the connection, with
  headers folded or without a colon and with or without trailers, the calls of its lines
  together are exactly `Calls(MessageOf(s))`, those `HttpParser` is promised.
- What is owed in a state: `Accounting`. Until http_parser gives up, `owed` is what
  is half reported and what the lines still to come are due. So `owed` is a
  function of the other variables and adds nothing to the model, which is what makes the
  refinement say something about http_parser: a wrong flag would leave calls owed that
  no line brings, or bring one nobody owes. The first line of a message is
  `HttpParser`'s step that begins it; a line that is only read is a stutter; a callback
  is the step of the same name; and after an error or a close nothing is called any
  more.

`Callbacks`, an instance of `HttpProofs` with that mapping, then carries the
four theorems of `HttpProofs` over to `HttpSpec`: `FramedDelivered`,
`FramedAnnounced`, `FramedBuffers` and `FramedTypes`. They say of the two files
together, for every framing, cut and order of messages, that the program is given
what was sent. `FramedBuffers` uses that the callback that comes next is the one owed
next (`SameCallback`), so a buffer is missing in both modules or in neither.

`ServerProofs` proves, for any number of clients, workers, messages and
descriptors, `NothingGoneWhileListening`, `ServedOnce` and `EchoesInOrder`, in
that order of difficulty. `ReturnsLate`, the invariant of the first, says that
`Server::listen` goes on to its return only when the listener thread has ended. The
second rests on `Owned`: a number is free, or in the queue once, or with one
busy worker, two numbers never stand for one connection, and what waits in the
queue was not shut down yet; the step that needs thought is `Accept`, which takes
the lowest free number and so none that a worker holds. The third adds `InSequence`:
for each connection the numbers of the messages already written, of the one
in a worker's hands and of those that wait grow from the one to the next, and a worker
with a message in its hands has a connection that was not shut down; that a
write goes behind the earlier ones of its connection needs `Owned`, because no
other worker holds that descriptor. The assumptions are `SocketsAssumption`,
`LoopbackAssumption` and `ServerAssumption`: the sets of names are disjoint, the
markers are none of them, and the table lists each worker once.

Every invariant and every safety part of a refinement that a passing run checks is
proved, `RoundTrip` under the two hypotheses above. Only model-checked are the
liveness properties, since fairness and ENABLED are outside the prover's reach:
`HangupReleases`, `HangupFreesWorker`, `NoIdlenessBesideWork`, `StuckIsReported`,
`ListenerEndKillsAll`, `Delivers`, `Answered`, and of `ImplementsFifo` that calls
return. `Relay` and `HttpParser`, which the other two refinements implement, have no
liveness to lose.

## Findings

1. `HandlerBlk.cpp:158` closes an uninitialised or stale descriptor when no
   connect succeeded (`MCProxyStaleClose`).
2. `BlkSocket.cpp:56` returns a message and drops the text behind it, although
   pipelining is said to be supported (`MCBlkParserPipelining`).
3. `BlkMessage.cpp:98` takes a port or a length for right that is not the string of
   digits `BlkMessage.h:20,26` asks for: blanks, a sign, anything behind the digits
   (`MCBlkFormat`).
4. `twc.c:67-69` wraps the read pointer over pending bytes (`MCTwcOrder`).
5. `twc.c:48-66` offers `read` one byte more than the pointer may advance
   (`MCTwcAssert`).

Seen in passing runs, where the property states the exception:

- `BlkSocket.cpp:40` throws for a failed read before the status is set, so the
  status its comment documents is never returned and the closes are skipped; a refused
  connect returns without closing its socket (`socket_functions.cpp:221`).
  `LosesAsCounted` counts both.
- `BlkMessage.cpp:171` completes a message only with a character of its body: one
  with a length of zero is never complete, and is rejected with the next character
  (`Lax`, in `ParserAgrees` and `Answered`).
- `HTTPParser.cpp:300-302` saves a last header without a colon, whose value is not there,
  and `HTTPParser.cpp:249-274` continues a name that `setUpNextMessage` freed when the last
  trailer of a message before had none (`BuffersThere`).
- The last trailer of a chunked message is never saved (`DeliveredAsSent`).

## Not modelled

Modelled without a property, since nothing says what should hold: the port and
the verb of a connection are those of its first request (`HandlerBlk.cpp:126`,
`:164`), and a tunnel whose connect fails ends the process (`HandlerBlk.cpp:115`).

Left out for good:

- code that never runs: the connection pool (its only call is commented out,
  `Server.cpp:52`), `WorkerLoop` (never instantiated), the HTTP handler, client and
  socket (unfinished; `HandlerHttp.cpp` defines the class `Handler` a second time
  and its call is commented out);
- code without influence on the control: statistics, exceptions' texts, logging,
  the options of sockets;
- the test client, whose behaviour is among that of the clients in `Sockets`;
- third-party logging: two copies of easylogging++ and plog, some 14,600 of the
  22,850 lines of code here. The models stand for what the program does itself, and so
  for a modest share of all lines.
