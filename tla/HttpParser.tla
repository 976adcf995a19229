----------------------------- MODULE HttpParser -----------------------------
(***************************************************************************)
(* HTTPParser: the callbacks that put HTTP messages together from what     *)
(* http_parser reports, with the growing buffers of simple_buffer.c.       *)
(*                                                                         *)
(* What http_parser promises is stated here and shown of its code in       *)
(* HttpFraming: it reports the first line, the fields and values of the    *)
(* headers, their end, the body, the trailers of a chunked body and the    *)
(* end of the message; where a buffer given to appendBytes ends inside a   *)
(* text, the text comes in several pieces.                                 *)
(***************************************************************************)
EXTENDS Integers, Sequences, SequencesExt

CONSTANTS Streams,    \* what is parsed, each a sequence of messages
          Char,       \* the characters of their texts
          BufferSize, \* kSIMPLE_BUFFER_SIZE, 100000 in the code
          Null        \* no buffer

(* A header without a colon is a line with a name alone; its value is not  *)
(* there, and value does not count.                                        *)
Text     == Seq(Char)
Pairs    == Seq([name : Text, value : Text, colon : BOOLEAN])
Messages == [kind : {"url", "status"}, first : Text, headers : Pairs, body : Text,
             trailers : Pairs, untilEof : BOOLEAN]
Buffers  == [text : Text, cap : Nat]

CallNames == {"url", "status", "field", "value", "headers", "body", "complete", "eof"}
CallSet   == [cb : CallNames, text : Text]

ASSUME HttpAssumption == /\ Streams \subseteq Seq(Messages)
                         /\ BufferSize \in Nat \ {0}
                         /\ Null \notin Buffers

-----------------------------------------------------------------------------
(***************************************************************************)
(* The calls http_parser makes for a message.  The end of a message whose  *)
(* body is as long as its connection is reported by appendEOF only.        *)
(***************************************************************************)
Call(cb, text) == [cb |-> cb, text |-> text]

PairCall(p) == IF p.colon THEN <<Call("field", p.name), Call("value", p.value)>>
               ELSE <<Call("field", p.name)>>

PairCalls(pairs) == FlattenSeq([i \in DOMAIN pairs |-> PairCall(pairs[i])])

BodyCalls(m) == IF m.body = <<>> THEN <<>> ELSE <<Call("body", m.body)>>

Calls(m) == <<Call(m.kind, m.first)>> \o PairCalls(m.headers)
            \o <<Call("headers", <<>>)>> \o BodyCalls(m) \o PairCalls(m.trailers)
            \o <<Call(IF m.untilEof THEN "eof" ELSE "complete", <<>>)>>

-----------------------------------------------------------------------------
(* simple_buffer.c: the text of a buffer and the size of its block.        *)
SbCreate == [text |-> <<>>, cap |-> BufferSize]

(* Mutant: a block of what is added, or of the usual size.                 *)
SbAppendSmall(sb, piece) ==
  LET used == Len(sb.text)
      more == Len(piece)
  IN  [text |-> sb.text \o piece,
       cap  |-> IF used + more <= BufferSize THEN sb.cap
                ELSE IF BufferSize >= more THEN BufferSize ELSE more]

(* length stays what it was when the buffer was made, so a buffer that has *)
(* grown is moved again by each append.                                    *)
SbAppend(sb, piece) ==
  LET need == Len(sb.text) + Len(piece)
  IN  [text |-> sb.text \o piece,
       cap  |-> IF need <= BufferSize THEN sb.cap
                ELSE BufferSize + (IF BufferSize >= need THEN BufferSize ELSE need)]

TextOf(sb) == IF sb = Null THEN <<>> ELSE sb.text

-----------------------------------------------------------------------------
VARIABLES stream,    \* what is parsed
          streaming, \* streamMessagesOption
          begun,     \* how many messages of it have begun
          todo,      \* the calls http_parser has still to make for the last
          sbs,       \* the buffers of ParserContext: url_buf, status_buf, name, value
          hstate,    \* header_state
          message,   \* the message under construction
          done,      \* messageCompleteFlag
          announced, \* what the headers callback was given
          delivered  \* what the message callback was given

ctxVars == <<sbs, hstate, message, done>>
vars    == <<stream, streaming, begun, todo, ctxVars, announced, delivered>>

SbNames    == {"url", "status", "name", "value"}
NoBuffers  == [b \in SbNames |-> Null]
NewMessage == [url |-> <<>>, status |-> <<>>, headers |-> {}, body |-> <<>>]

Init == /\ stream \in Streams
        /\ streaming \in BOOLEAN
        /\ Len(stream) > 1 => streaming
        /\ begun = 0
        /\ todo = <<>>
        /\ sbs = NoBuffers
        /\ hstate = "nothing"
        /\ message = NewMessage
        /\ done = FALSE
        /\ announced = <<>>
        /\ delivered = <<>>

-----------------------------------------------------------------------------
(* The callback that is next reads a buffer that is not there: a name that *)
(* continues none, or the value of a pair that is to be saved.  The        *)
(* program ends there, and no action follows.                              *)
Unsaved == sbs.name # Null /\ sbs.value = Null

Missing == /\ todo # <<>>
           /\ CASE todo[1].cb = "field"   -> IF hstate = "field" THEN sbs.name = Null
                                             ELSE Unsaved
                [] todo[1].cb = "value"   -> hstate = "value" /\ sbs.value = Null
                [] todo[1].cb = "headers" -> Unsaved
                [] OTHER                  -> FALSE

(* What a data callback may be given: the rest of a text, or a piece of it *)
(* when a buffer ends there.  The last piece may be empty, and the first   *)
(* of a value that begins on a folded line.                                *)
Pieces == IF todo = <<>> THEN {}
          ELSE {SubSeq(todo[1].text, 1, k) : k \in 0..Len(todo[1].text)}

Data(cb, piece) ==
  /\ todo # <<>> /\ todo[1].cb = cb /\ ~Missing
  /\ \/ piece = todo[1].text /\ todo' = Tail(todo)
     \/ todo' = [todo EXCEPT ![1].text = SubSeq(@, Len(piece) + 1, Len(@))]
  /\ UNCHANGED <<stream, streaming, begun, done, announced, delivered>>

Notify(cb) == /\ todo # <<>> /\ todo[1].cb = cb /\ ~Missing
              /\ todo' = Tail(todo)
              /\ UNCHANGED <<stream, streaming, begun, hstate>>

MessageBegin == /\ todo = <<>>
                /\ begun < Len(stream)
                /\ begun' = begun + 1
                /\ todo' = Calls(stream[begun'])
                /\ UNCHANGED <<stream, streaming, ctxVars, announced, delivered>>

(* saveNameValuePair reads both buffers.                                   *)
Saved(m) == [m EXCEPT !.headers =
               {p \in @ : p.name # sbs.name.text}
               \cup {[name |-> sbs.name.text, value |-> sbs.value.text]}]
SavedIfNamed == IF sbs.name = Null THEN message ELSE Saved(message)

FirstLine(cb) == \E piece \in Pieces :
  /\ Data(cb, piece)
  /\ sbs' = [sbs EXCEPT ![cb] = SbAppend(IF @ = Null THEN SbCreate ELSE @, piece)]
  /\ UNCHANGED <<hstate, message>>

UrlData    == FirstLine("url")
StatusData == FirstLine("status")

(* Mutant: a piece of a name is taken for a new name.                      *)
HeaderFieldAlwaysNew == \E piece \in Pieces :
  /\ Data("field", piece)
  /\ hstate' = "field"
  /\ message' = IF sbs.value = Null THEN message ELSE SavedIfNamed
  /\ sbs' = [sbs EXCEPT !.name = SbAppend(SbCreate, piece), !.value = Null]

(* A field that follows a value begins a new pair and ends the last one.   *)
HeaderField == \E piece \in Pieces :
  /\ Data("field", piece)
  /\ hstate' = "field"
  /\ IF hstate = "field"
     THEN /\ sbs' = [sbs EXCEPT !.name = SbAppend(@, piece)]
          /\ UNCHANGED message
     ELSE /\ message' = SavedIfNamed
          /\ sbs' = [sbs EXCEPT !.name = SbAppend(SbCreate, piece), !.value = Null]

HeaderValue == \E piece \in Pieces :
  /\ Data("value", piece)
  /\ hstate' = "value"
  /\ sbs' = [sbs EXCEPT !.value = CASE hstate = "field"   -> SbAppend(SbCreate, piece)
                                    [] hstate = "value"   -> SbAppend(@, piece)
                                    [] hstate = "nothing" -> @]
  /\ UNCHANGED message

(* Mutant: the last pair waits for a field that does not come.             *)
HeadersCompleteNoSave ==
  /\ Notify("headers")
  /\ message' = [message EXCEPT !.url = TextOf(sbs.url), !.status = TextOf(sbs.status)]
  /\ announced' = Append(announced, message')
  /\ UNCHANGED <<sbs, done, delivered>>

HeadersComplete ==
  /\ Notify("headers")
  /\ message' = [SavedIfNamed EXCEPT !.url = TextOf(sbs.url),
                                     !.status = TextOf(sbs.status)]
  /\ announced' = Append(announced, message')
  /\ UNCHANGED <<sbs, done, delivered>>

BodyData == \E piece \in Pieces :
  /\ Data("body", piece)
  /\ message' = [message EXCEPT !.body = @ \o piece]
  /\ UNCHANGED <<sbs, hstate>>

(* Mutant: the name of the last pair is not freed.                         *)
SetUpNextMessageKeepsName ==
  IF streaming THEN /\ message' = NewMessage /\ done' = FALSE
                    /\ sbs' = [NoBuffers EXCEPT !.name = sbs.name]
  ELSE done' = TRUE /\ UNCHANGED <<message, sbs>>

(* The message callback and then setUpNextMessage, which leaves            *)
(* header_state alone.                                                     *)
SetUpNextMessage ==
  IF streaming THEN message' = NewMessage /\ done' = FALSE /\ sbs' = NoBuffers
  ELSE done' = TRUE /\ UNCHANGED <<message, sbs>>

MessageComplete == /\ Notify("complete")
                   /\ delivered' = Append(delivered, message)
                   /\ SetUpNextMessage
                   /\ UNCHANGED announced

(* appendEOF asks the parser only while no message is complete.            *)
AppendEof == /\ ~done
             /\ Notify("eof")
             /\ delivered' = Append(delivered, message)
             /\ SetUpNextMessage
             /\ UNCHANGED announced

Next == \/ MessageBegin \/ UrlData \/ StatusData \/ HeaderField \/ HeaderValue
        \/ HeadersComplete \/ BodyData \/ MessageComplete \/ AppendEof

Spec == Init /\ [][Next]_vars

-----------------------------------------------------------------------------
(* A name without a colon is taken for the beginning of the next one.      *)
Names(pairs) ==
  LET upTo[i \in 0..Len(pairs)] ==
        IF i = 0 THEN <<>>
        ELSE IF i = 1 \/ pairs[i - 1].colon THEN pairs[i].name
        ELSE upTo[i - 1] \o pairs[i].name
  IN  [i \in DOMAIN pairs |-> upTo[i]]

(* The pairs as a map: of two with one name the later counts.              *)
MapOf(pairs) ==
  LET names == Names(pairs)
      valued == {i \in DOMAIN pairs : pairs[i].colon}
  IN  {[name |-> names[i], value |-> pairs[i].value] :
         i \in {j \in valued : \A k \in valued : k > j => names[k] # names[j]}}

SentMessage(m, pairs, body) ==
  [url     |-> IF m.kind = "url" THEN m.first ELSE <<>>,
   status  |-> IF m.kind = "status" THEN m.first ELSE <<>>,
   headers |-> MapOf(pairs),
   body    |-> body]

AllButLast(s) == SubSeq(s, 1, Len(s) - 1)

(***************************************************************************)
(* Types; a buffer never holds more than its block, however its text was   *)
(* cut and however often it grew.                                          *)
(***************************************************************************)
BufferOK(sb) == sb \in Buffers /\ Len(sb.text) <= sb.cap /\ BufferSize <= sb.cap
BuffersOK(b) == /\ b \in [SbNames -> Buffers \cup {Null}]
                /\ \A n \in SbNames : b[n] = Null \/ BufferOK(b[n])

TypeOK == /\ stream \in Streams
          /\ begun \in 0..Len(stream)
          /\ todo \in Seq(CallSet)
          /\ hstate \in {"nothing", "field", "value"}
          /\ done \in BOOLEAN /\ streaming \in BOOLEAN
          /\ BuffersOK(sbs)

(***************************************************************************)
(* header_state is not put back between messages and the buffers are; a    *)
(* callback that reads a buffer which is not there has its cause in a line *)
(* without a colon: the last header of a message, whose value              *)
(* saveNameValuePair reads, or the last trailer of one before, after which *)
(* a name is taken for a piece of a name that was freed.                   *)
(***************************************************************************)
LastBare(pairs) == pairs # <<>> /\ ~Last(pairs).colon

BuffersThere ==
  Missing => IF todo[1].cb = "headers" THEN LastBare(stream[begun].headers)
             ELSE /\ todo[1].cb = "field"
                  /\ \E i \in 1..(begun - 1) : LastBare(stream[i].trailers)

(***************************************************************************)
(* Piece by piece and message after message, the message callback is given *)
(* what was sent, with nothing of the messages before it.  Of the trailers *)
(* the last is never saved: only a next field would save it.               *)
(***************************************************************************)
DeliveredAsSent ==
  /\ begun - Len(delivered) \in {0, 1}
  /\ \A i \in DOMAIN delivered :
       LET m == stream[i]
       IN  delivered[i] = SentMessage(m, m.headers \o AllButLast(m.trailers), m.body)

(***************************************************************************)
(* The headers callback is given all headers, the last included, and comes *)
(* once for each message, before the message callback.                     *)
(***************************************************************************)
AnnouncedAsSent ==
  /\ Len(announced) - Len(delivered) \in {0, 1}
  /\ \A i \in DOMAIN announced :
       announced[i] = SentMessage(stream[i], stream[i].headers, <<>>)
=============================================================================
