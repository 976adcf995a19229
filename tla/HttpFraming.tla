---------------------------- MODULE HttpFraming ----------------------------
(***************************************************************************)
(* http_parser under the callbacks of HTTPParser: how it finds the ends of *)
(* messages in the bytes of a connection, and when it gives up.            *)
(*                                                                         *)
(* Input is read by the line: a first line, a header, a folded header      *)
(* line, an empty line, the size line of a chunk, the bytes of a body or   *)
(* of one chunk, or bytes that fit nowhere.  What a line makes the parser  *)
(* report is in todo, and the callbacks of HttpParser take it from there,  *)
(* cut wherever a buffer may end.  Senders frame what they send correctly, *)
(* but for a colon that a header may lack.                                 *)
(***************************************************************************)
EXTENDS HttpParser, FiniteSetsExt

CONSTANT Wires \* what connections carry, each a sequence of messages

(* A header.  says and n are what http_parser recognises in its first      *)
(* line; folded lines follow.  A fold of a Content-Length is a length in   *)
(* its own right: the parser starts the number again.  Without a colon     *)
(* there is a name alone, and a fold would be taken for its value.         *)
Flags == {"keep-alive", "close", "chunked", "upgrade"}
Folds == [text : Text, says : {"nothing", "length"}, n : Nat]

Headers == {h \in [name : Text, value : Text, fold : Seq(Folds), colon : BOOLEAN,
                   says : Flags \cup {"nothing", "length"}, n : Nat] :
              /\ ~h.colon => h.says = "nothing" /\ h.fold = <<>>
              /\ h.says # "length" => \A i \in DOMAIN h.fold : h.fold[i].says = "nothing"}

(* A message with its framing: without a body, with its length, in chunks  *)
(* or up to the end of the connection.                                     *)
Sendings == [kind : {"url", "status"}, first : Text, headers : Seq(Headers),
             frame : {"none", "length", "chunked", "eof"}, chunks : Seq(Text),
             trailers : Seq(Headers), v11 : BOOLEAN, connect : BOOLEAN,
             bodyless : BOOLEAN]

Said(hs)      == {hs[i].says : i \in DOMAIN hs}
LeavesHttp(s) == s.connect \/ "upgrade" \in Said(s.headers)

(* The lengths a message states, in a first line or a fold.                *)
Lengths(hs) == {h.n : h \in {g \in Range(hs) : g.says = "length"}}
               \cup {f.n : f \in {g \in UNION {Range(h.fold) : h \in Range(hs)} :
                                   g.says = "length"}}

(* An answer to HEAD, or one that never has a body, may tell of the body   *)
(* it stands for.                                                          *)
Announces(s) == /\ s.kind = "status" /\ s.frame = "none" /\ ~LeavesHttp(s)
                /\ Said(s.headers) \cap {"length", "chunked"} # {}

(* What the headers say of the body is so.                                 *)
Framed(s) ==
  LET said == Said(s.headers)
  IN  /\ \A i \in DOMAIN s.chunks : s.chunks[i] # <<>>
      /\ s.frame = "none" => s.chunks = <<>>
      /\ s.frame # "chunked" => s.trailers = <<>>
      /\ CASE LeavesHttp(s) -> s.frame = "none"
           [] Announces(s)  -> 0 \notin Lengths(s.headers)
           [] OTHER ->
                /\ "chunked" \in said <=> s.frame = "chunked"
                /\ s.frame = "length" => /\ "length" \in said
                                         /\ Lengths(s.headers) = {Len(FlattenSeq(s.chunks))}
                /\ s.frame \in {"none", "eof"} => "length" \notin said
                /\ s.frame = "eof" => s.kind = "status" /\ ~s.bodyless
                /\ s.frame = "none" => s.kind = "url" \/ s.bodyless

(* A message that ends with the connection, or the use of HTTP on it, is   *)
(* the last; and so is one that announces a body, because what follows it  *)
(* would be taken for the body.                                            *)
ASSUME FramingAssumption ==
  /\ Wires \subseteq Seq(Sendings)
  /\ \A w \in Wires :
       /\ w # <<>>
       /\ \A i \in DOMAIN w :
            /\ Framed(w[i])
            /\ w[i].frame = "eof" \/ LeavesHttp(w[i]) \/ Announces(w[i]) => i = Len(w)

PairOf(h)    == [name  |-> h.name, colon |-> h.colon,
                 value |-> h.value \o FlattenSeq([i \in DOMAIN h.fold |-> h.fold[i].text])]
MessageOf(s) == [kind     |-> s.kind,
                 first    |-> s.first,
                 headers  |-> [i \in DOMAIN s.headers |-> PairOf(s.headers[i])],
                 body     |-> FlattenSeq(s.chunks),
                 trailers |-> [i \in DOMAIN s.trailers |-> PairOf(s.trailers[i])],
                 untilEof |-> s.frame = "eof"]

-----------------------------------------------------------------------------
(* The lines of a message.  What an empty line is meant to end is kept     *)
(* beside it for the properties; the parser does not look at it.           *)
Line(t, text) == [t |-> t, text |-> text]
Empty(ends)   == [t |-> "empty", ends |-> ends]
Junk          == [t |-> "junk"]

HeaderLines(h) == <<[t |-> "header", h |-> h]>>
                  \o [i \in DOMAIN h.fold |-> [t |-> "fold", f |-> h.fold[i]]]

Section(hs, ends) == FlattenSeq([i \in DOMAIN hs |-> HeaderLines(hs[i])])
                     \o <<Empty(ends)>>

BodyLines(s) ==
  LET chunk(i) == << [t |-> "size", n |-> Len(s.chunks[i])],
                     Line("data", s.chunks[i]) >>
  IN  CASE s.frame = "chunked" -> FlattenSeq([i \in DOMAIN s.chunks |-> chunk(i)])
                                  \o << [t |-> "size", n |-> 0] >>
                                  \o Section(s.trailers, "trailers")
        [] s.frame = "none"    -> <<>>
        [] OTHER               -> [i \in DOMAIN s.chunks |-> Line("data", s.chunks[i])]

Lines(s) == << [t |-> s.kind, s |-> s] >> \o Section(s.headers, "headers") \o BodyLines(s)

(* The bytes of a connection: the messages, and perhaps, before a line,    *)
(* something that is none or, before a message, an empty line more.        *)
IsFirst(l) == l.t \in {"url", "status"}

Inputs(wire) ==
  LET lines == FlattenSeq([i \in DOMAIN wire |-> Lines(wire[i])])
      final == wire[Len(wire)]
      last  == IF final.frame = "eof" \/ Announces(final) THEN {} ELSE {Len(lines) + 1}
      spots == {k \in DOMAIN lines : lines[k].t # "data"} \cup last
      gaps  == {k \in DOMAIN lines : IsFirst(lines[k])} \cup last
  IN  {lines} \cup {InsertAt(lines, k, Junk) : k \in spots}
              \cup {InsertAt(lines, k, Empty("nothing")) : k \in gaps}

-----------------------------------------------------------------------------
VARIABLES wire,   \* the messages that are sent
          input,  \* the lines the parser has not read
          parser, \* the fields of struct http_parser
          failed, \* the error callback was called
          ended,  \* appendEOF was called
          owed    \* auxiliary: the calls the message in todo and input is due

framingVars == <<wire, input, parser, failed, ended>>
httpVars    == <<vars, framingVars, owed>>

Unknown == -1 \* ULLONG_MAX: no Content-Length was seen

HttpInit == /\ wire \in Wires
            /\ stream = [i \in DOMAIN wire |-> MessageOf(wire[i])]
            /\ Init
            /\ input \in Inputs(wire)
            /\ parser = [state |-> "start", type |-> "both", flags |-> {}, length |-> Unknown,
                         v11 |-> FALSE, connect |-> FALSE, bodyless |-> FALSE, ok |-> TRUE]
            /\ failed = FALSE
            /\ ended = FALSE
            /\ owed = <<>>

-----------------------------------------------------------------------------
(* http_message_needs_eof and http_should_keep_alive                       *)
NeedsEof(p) == /\ p.type = "status"
               /\ ~p.bodyless
               /\ "chunked" \notin p.flags /\ p.length = Unknown

(* Mutant: NEW_MESSAGE as it is without HTTP_PARSER_STRICT.                *)
KeepAliveLax(p) == TRUE

KeepAlive(p) == /\ IF p.v11 THEN "close" \notin p.flags ELSE "keep-alive" \in p.flags
                /\ ~NeedsEof(p)

(* NEW_MESSAGE: the state after a message.                                 *)
Finished(p) == [p EXCEPT !.state = IF KeepAlive(p) THEN "start" ELSE "dead"]

Complete == Call("complete", <<>>)

-----------------------------------------------------------------------------
(* What the parser has still to report of the message it is in: its lines  *)
(* up to the next first line, the values of folded headers and the chunks  *)
(* of a body each taken together.                                          *)
RestOfMessage ==
  LET next == {i \in DOMAIN input : IsFirst(input[i])}
  IN  IF next = {} THEN input ELSE SubSeq(input, 1, Min(next) - 1)

CallsOf(l) == CASE l.t = "header" -> PairCall(l.h)
                [] l.t = "fold"   -> <<Call("value", l.f.text)>>
                [] l.t = "data"   -> <<Call("body", l.text)>>
                [] l.t = "empty" /\ l.ends = "headers" -> <<Call("headers", <<>>)>>
                [] OTHER          -> <<>>

Owed ==
  LET rest == RestOfMessage
  IN  IF parser.state \in {"start", "dead"} \/ (parser.state = "eof" /\ ended) THEN <<>>
      ELSE FlattenSeq([i \in DOMAIN rest |-> CallsOf(rest[i])])
           \o <<Call(IF stream[begun].untilEof THEN "eof" ELSE "complete", <<>>)>>

Merge(calls, call) ==
  IF calls # <<>> /\ Last(calls).cb = call.cb /\ call.cb \in {"value", "body"}
  THEN Front(calls) \o <<Call(call.cb, Last(calls).text \o call.text)>>
  ELSE Append(calls, call)

(* owed is a function of the other variables, and a variable only for TLC  *)
(* to evaluate it once a step.                                             *)
Accounted == \E calls \in {todo' \o Owed'} : owed' = FoldLeft(Merge, <<>>, calls)

-----------------------------------------------------------------------------
(* http_parser_execute at its next line, of kind t, in a given state.      *)
Execute(state, t) == /\ ~ended /\ parser.ok
                     /\ todo = <<>> /\ input # <<>>
                     /\ parser.state = state
                     /\ Head(input).t = t
                     /\ input' = Tail(input)
                     /\ UNCHANGED <<wire, ended, stream, streaming, ctxVars, announced, delivered>>

Reports(calls) == todo' = calls /\ UNCHANGED <<begun, failed>> /\ Accounted

(* Mutant: the flags of the message before stay set.                       *)
BeginKeepsFlags(t) ==
  /\ Execute("start", t)
  /\ parser.type \in {"both", t}
  /\ LET s == Head(input).s
     IN  /\ parser' = [parser EXCEPT !.state = "header", !.type = t, !.length = Unknown,
                                     !.v11 = s.v11, !.connect = s.connect, !.bodyless = s.bodyless]
         /\ todo' = <<Call(t, s.first)>>
  /\ begun' = begun + 1
  /\ UNCHANGED failed
  /\ Accounted

(* A parser made for both kinds stays with the kind of its first message.  *)
Begin(t) ==
  /\ Execute("start", t)
  /\ parser.type \in {"both", t}
  /\ LET s == Head(input).s
     IN  /\ parser' = [parser EXCEPT !.state = "header", !.type = t, !.flags = {}, !.length = Unknown,
                                     !.v11 = s.v11, !.connect = s.connect, !.bodyless = s.bodyless]
         /\ todo' = <<Call(t, s.first)>>
  /\ begun' = begun + 1
  /\ UNCHANGED failed
  /\ Accounted

RequestLine == Begin("url")
StatusLine  == Begin("status")

Heed(h) == [parser EXCEPT !.flags = @ \cup (Flags \cap {h.says}),
                          !.length = IF h.says = "length" THEN h.n ELSE @]

HeaderLine == /\ Execute("header", "header")
              /\ LET h == Head(input).h
                 IN  parser' = Heed(h) /\ Reports(PairCall(h))

FoldedLine == /\ Execute("header", "fold")
              /\ LET f == Head(input).f
                 IN  parser' = Heed(f) /\ Reports(<<Call("value", f.text)>>)

(* The empty line after the headers decides where the message ends.        *)
HeadersEnd == Execute("header", "empty") /\ "trailing" \notin parser.flags

Upgraded == "upgrade" \in parser.flags \/ parser.connect

(* Mutant: a response without a length has no body.                        *)
HasNoBodyLax == /\ "chunked" \notin parser.flags
                /\ parser.length \in {0, Unknown}

(* Mutant: a length of zero is not looked at.                              *)
HasNoBodyNeverEmpty == /\ "chunked" \notin parser.flags
                       /\ parser.length = Unknown /\ ~NeedsEof(parser)

HasNoBody == /\ "chunked" \notin parser.flags
             /\ \/ parser.length = 0
                \/ parser.length = Unknown /\ ~NeedsEof(parser)

WithoutBody == /\ HeadersEnd
               /\ ~Upgraded /\ HasNoBody
               /\ parser' = Finished(parser)
               /\ Reports(<<Call("headers", <<>>), Complete>>)

WithBody == /\ HeadersEnd
            /\ ~Upgraded /\ ~HasNoBody
            /\ parser' = [parser EXCEPT !.state = IF "chunked" \in parser.flags THEN "size"
                                                  ELSE IF parser.length # Unknown THEN "body"
                                                  ELSE "eof"]
            /\ Reports(<<Call("headers", <<>>)>>)

(* execute returns and leaves the rest of the buffer to another protocol,  *)
(* which appendBytes takes for an error; the next buffer is parsed again.  *)
Upgrade == /\ ~ended /\ parser.ok /\ todo = <<>>
           /\ input # <<>> /\ Head(input).t = "empty"
           /\ parser.state = "header" /\ "trailing" \notin parser.flags
           /\ Upgraded
           /\ \E k \in 2..(Len(input) + 1) :
                /\ input' = SubSeq(input, k, Len(input))
                /\ failed' = (k > 2)
           /\ parser' = Finished(parser)
           /\ todo' = <<Call("headers", <<>>), Complete>>
           /\ UNCHANGED <<begun, wire, ended, stream, streaming, ctxVars, announced, delivered>>
           /\ Accounted

TrailersEnd == /\ Execute("header", "empty")
               /\ "trailing" \in parser.flags
               /\ parser' = Finished(parser)
               /\ Reports(<<Complete>>)

ChunkSize == /\ Execute("size", "size")
             /\ LET n == Head(input).n
                IN  parser' = IF n = 0 THEN [parser EXCEPT !.state = "header", !.length = 0,
                                                           !.flags = @ \cup {"trailing"}]
                              ELSE [parser EXCEPT !.state = "chunk", !.length = n]
             /\ Reports(<<>>)

(* What is left of a body or a chunk after these bytes of it.              *)
Left(text) == [parser EXCEPT !.length = @ - Len(text)]

BodyBytes == /\ Execute("body", "data")
             /\ LET p == Left(Head(input).text)
                    bytes == Call("body", Head(input).text)
                IN  IF p.length = 0 THEN parser' = Finished(p) /\ Reports(<<bytes, Complete>>)
                    ELSE parser' = p /\ Reports(<<bytes>>)

ChunkBytes == /\ Execute("chunk", "data")
              /\ LET p == Left(Head(input).text)
                 IN  parser' = [p EXCEPT !.state = IF p.length = 0 THEN "size" ELSE "chunk"]
              /\ Reports(<<Call("body", Head(input).text)>>)

BytesUntilEof == /\ Execute("eof", "data")
                 /\ UNCHANGED parser
                 /\ Reports(<<Call("body", Head(input).text)>>)

(* CR and LF between messages are skipped.                                 *)
StrayEmpty == \E state \in {"start", "dead"} :
                /\ Execute(state, "empty")
                /\ UNCHANGED parser
                /\ Reports(<<>>)

(* A line that does not belong where it is, and any line after a message   *)
(* that was the last.  Junk among headers is a line that does not begin    *)
(* with a token; a name without a colon is taken for a header there.  The  *)
(* error stays: later buffers are not looked at, and each of them calls    *)
(* the error callback again.                                               *)
Misplaced(l) == \/ parser.state \notin {"start", "dead"} /\ l.t = "junk"
                \/ parser.state = "dead" /\ l.t # "empty"
                \/ /\ parser.state = "start" /\ l.t # "empty"
                   /\ ~IsFirst(l) \/ parser.type \notin {"both", l.t}

Reject == /\ ~ended /\ parser.ok /\ todo = <<>>
          /\ input # <<>> /\ Misplaced(Head(input))
          /\ parser' = [parser EXCEPT !.ok = FALSE]
          /\ failed' = TRUE
          /\ UNCHANGED <<vars, wire, input, ended, owed>>

-----------------------------------------------------------------------------
(* appendEOF, at the end of the connection.  It completes a body that has  *)
(* no other end; in the middle of a message http_parser notes an error of  *)
(* which the callbacks are told nothing.  (A connection that breaks inside *)
(* a body without an end is one whose body is shorter.)                    *)
EndOfInput == /\ ~ended /\ todo = <<>>
              /\ ended' = TRUE
              /\ UNCHANGED <<wire, input, failed, stream, streaming, begun, ctxVars,
                             announced, delivered, owed>>

BetweenMessages == done \/ ~parser.ok \/ parser.state \in {"start", "dead"}

EofIgnored == /\ EndOfInput
              /\ BetweenMessages
              /\ UNCHANGED <<parser, todo>>

EofCompletes == /\ EndOfInput
                /\ ~BetweenMessages
                /\ parser.state = "eof" /\ input = <<>>
                /\ todo' = <<Call("eof", <<>>)>>
                /\ UNCHANGED parser

EofTruncates == /\ EndOfInput
                /\ ~BetweenMessages
                /\ parser.state # "eof"
                /\ parser' = [parser EXCEPT !.ok = FALSE]
                /\ UNCHANGED todo

Callback == /\ \/ UrlData \/ StatusData \/ HeaderField \/ HeaderValue
               \/ HeadersComplete \/ BodyData \/ MessageComplete \/ AppendEof
            /\ UNCHANGED framingVars
            /\ Accounted

HttpNext == \/ RequestLine \/ StatusLine \/ HeaderLine \/ FoldedLine
            \/ WithoutBody \/ WithBody \/ Upgrade \/ TrailersEnd
            \/ ChunkSize \/ BodyBytes \/ ChunkBytes \/ BytesUntilEof
            \/ StrayEmpty \/ Reject
            \/ EofIgnored \/ EofCompletes \/ EofTruncates
            \/ Callback

HttpSpec == HttpInit /\ [][HttpNext]_httpVars

-----------------------------------------------------------------------------
Promised == INSTANCE HttpParser WITH todo <- owed

(***************************************************************************)
(* Whatever mix of lengths, chunks, folded lines, trailers and keep-alive  *)
(* a connection carries, http_parser reports each message with exactly the *)
(* calls, in exactly the order, that HTTPParser's callbacks are written    *)
(* for, up to where it gives up.                                           *)
(***************************************************************************)
ImplementsCalls == Promised!Spec

(***************************************************************************)
(* No message is skipped or left unfinished: when all of the input was     *)
(* read without an error, and appendEOF was called where the end of the    *)
(* connection ends a message, every message was delivered.  One is not: an *)
(* answer that announces a body and has none keeps the parser waiting.     *)
(***************************************************************************)
NothingMissed ==
  input = <<>> /\ todo = <<>> /\ parser.ok /\ ~failed
    /\ (ended \/ wire[Len(wire)].frame # "eof") /\ ~Announces(wire[Len(wire)])
  => Len(delivered) = Len(wire)

(***************************************************************************)
(* After a message that closes the connection http_parser begins no other, *)
(* although HTTPParser is never told that the connection is to be closed.  *)
(***************************************************************************)
Persistent(s) == LET said == Said(s.headers \o s.trailers)
                 IN  /\ IF s.v11 THEN "close" \notin said ELSE "keep-alive" \in said
                     /\ s.frame # "eof"

NothingAfterClose == \A i \in 1..(begun - 1) : Persistent(wire[i])

(***************************************************************************)
(* The error callback comes only for a cause: bytes that fit nowhere,      *)
(* something after a message that closed the connection or left HTTP, or   *)
(* a response among requests.                                              *)
(***************************************************************************)
FailsForCause ==
  failed => \/ begun > 0 /\ LeavesHttp(wire[begun])
            \/ input # <<>> /\ Head(input) = Junk
            \/ /\ input # <<>> /\ IsFirst(Head(input))
               /\ (begun > 0 /\ ~Persistent(wire[begun])) \/ Head(input).t # wire[1].kind
=============================================================================
