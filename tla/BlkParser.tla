----------------------------- MODULE BlkParser -----------------------------
(***************************************************************************)
(* The text of a BLK message (BlkMessage.cpp) and BlkSocket::readMessage,  *)
(* which the handlers call once per message.  A message is                 *)
(*                                                                         *)
(*       START\n<port>\n<verb>\n<body length>\n<body>                      *)
(*                                                                         *)
(* and the parser sees it one character at a time, over as many reads as   *)
(* the kernel cuts it into.  A character is its ASCII code.                *)
(***************************************************************************)
EXTENDS Integers, Sequences, SequencesExt

CONSTANTS Start,        \* the text of the first line, "START" in the code
          Verbs,        \* the verbs, "NORMAL" and "TUNNEL" in the code
          Prefix,       \* what blk_proxy_rules puts before the body
          MaxInt,       \* the largest int
          BufferLength, \* the most a read returns, 10000 in the code
          Scripts,      \* what the client may send, each a sequence of texts
          Pipelining    \* whether it sends a text before the last is answered

Char == 0..127
Text == Seq(Char)

ASSUME ParserAssumption ==
  /\ Start \in Text /\ Prefix \in Text
  /\ Verbs \subseteq Text /\ Verbs # {}
  /\ MaxInt \in Nat
  /\ BufferLength \in Nat \ {0}
  /\ Scripts \subseteq Seq(Text)
  /\ Pipelining \in BOOLEAN

NUL    == 0
NL     == 10
Blanks == {9, 11, 12, 13, 32}
Signs  == {43, 45}
Digits == 48..57

-----------------------------------------------------------------------------
(* std::stoi and std::to_string.                                           *)

(* The last index of the run of characters of C that starts at s[i].       *)
RunEnd(s, i, C) == CHOOSE k \in (i - 1)..Len(s) :
                     /\ \A j \in i..k : s[j] \in C
                     /\ k = Len(s) \/ s[k + 1] \notin C

ValueOf(digits) == FoldLeft(LAMBDA n, d : 10 * n + (d - 48), 0, digits)

(* strtol: leading blanks, a sign, then as many digits as follow; what is  *)
(* left of the line is ignored.                                            *)
Strtol(s) ==
  LET blanks == RunEnd(s, 1, Blanks)
      signed == blanks < Len(s) /\ s[blanks + 1] \in Signs
      first  == IF signed THEN blanks + 2 ELSE blanks + 1
      digits == SubSeq(s, first, RunEnd(s, first, Digits))
      size   == ValueOf(digits)
  IN  [found |-> digits # <<>>,
       value |-> IF signed /\ s[blanks + 1] = 45 THEN -size ELSE size]

Int32 == -(MaxInt + 1)..MaxInt

(* Mutant: a value that no int holds is let through.                       *)
ParseIntWide(s) == [ok |-> Strtol(s).found, value |-> Strtol(s).value]

(* stoi throws without a digit, and beyond an int.                         *)
ParseInt(s) == [ok    |-> Strtol(s).found /\ Strtol(s).value \in Int32,
                value |-> Strtol(s).value]

Decimal[n \in Nat] == IF n < 10 THEN <<48 + n>>
                      ELSE Decimal[n \div 10] \o <<48 + (n % 10)>>

Numeral(n) == IF n < 0 THEN <<45>> \o Decimal[-n] ELSE Decimal[n]

(* toupper of the C locale.                                                *)
Upper(ch) == IF ch \in 97..122 THEN ch - 32 ELSE ch

-----------------------------------------------------------------------------
(***************************************************************************)
(* The parser.  seen is currentBuffer, cur the current line, len the       *)
(* msgLength that is compared with the length of the body.                 *)
(***************************************************************************)
NewParser == [line |-> 0, cur |-> <<>>, port |-> -1, verb |-> <<>>, len |-> 0,
              body |-> <<>>, seen |-> <<>>, done |-> FALSE, bad |-> FALSE]

(* Neither error() nor nextLine() ends parseCharacter.                     *)
NextLine(p, ok) == [p EXCEPT !.line = @ + 1, !.cur = <<>>, !.bad = ~ok]

Grow(p, ch, ok) == [p EXCEPT !.cur = Append(@, ch), !.bad = ~ok]

(* A line that must be one of a set of words is checked character by       *)
(* character and once more at its end.                                     *)
WordChar(p, ch, Words) ==
  IF ch = NL THEN NextLine(p, p.cur \in Words)
  ELSE LET line == Append(p.cur, Upper(ch))
       IN  Grow(p, Upper(ch), \E w \in Words : IsPrefix(line, w))

FirstLineChar(p, ch) == WordChar(p, ch, {Start})

PortChar(p, ch) ==
  IF ch # NL THEN Grow(p, ch, TRUE)
  ELSE LET port == ParseInt(p.cur)
       IN  NextLine([p EXCEPT !.port = IF port.ok THEN port.value ELSE @], port.ok)

(* Mutant: the verb is not checked again at the end of its line.           *)
VerbCharPrefixOnly(p, ch) ==
  IF ch = NL THEN NextLine([p EXCEPT !.verb = p.cur], TRUE)
  ELSE WordChar(p, ch, Verbs)

VerbChar(p, ch) ==
  IF ch = NL THEN [WordChar(p, ch, Verbs) EXCEPT !.verb = p.cur]
  ELSE WordChar(p, ch, Verbs)

LengthChar(p, ch) ==
  IF ch # NL THEN Grow(p, ch, TRUE)
  ELSE LET len == ParseInt(p.cur)
       IN  NextLine([p EXCEPT !.len = IF len.ok THEN len.value ELSE @], len.ok)

(* Mutant: the message is complete when a further character arrives.       *)
BodyCharLate(p, ch) ==
  [p EXCEPT !.body = Append(@, ch), !.done = p.len >= 0 /\ Len(p.body) >= p.len]

(* body.length() is unsigned, so no body is as long as a negative length.  *)
(* finishedParsing makes the fields those of the message.                  *)
BodyChar(p, ch) ==
  [p EXCEPT !.body = Append(@, ch),
            !.bad  = p.len >= 0 /\ Len(p.body) >= p.len,
            !.done = Len(p.body) + 1 = p.len]

ParseChar(p, ch) ==
  LET q == [p EXCEPT !.seen = Append(@, ch)]
  IN  CASE p.line = 0 -> FirstLineChar(q, ch)
        [] p.line = 1 -> PortChar(q, ch)
        [] p.line = 2 -> VerbChar(q, ch)
        [] p.line = 3 -> LengthChar(q, ch)
        [] OTHER      -> BodyChar(q, ch)

Message(p) == [port |-> p.port, verb |-> p.verb, len |-> p.len, body |-> p.body]

-----------------------------------------------------------------------------
(***************************************************************************)
(* Writing a message: toRawString, of which writeMessage sends what is     *)
(* before the first NUL, and blk_proxy_rules.                              *)
(***************************************************************************)
RawString(m) == Start \o <<NL>> \o Numeral(m.port) \o <<NL>> \o m.verb \o <<NL>>
                \o Numeral(m.len) \o <<NL>> \o m.body

Written(m) == SubSeq(RawString(m), 1, RunEnd(RawString(m), 1, Char \ {NUL}))

(* Mutant: the length of the message is left as it was.                    *)
RulesOldLength(m) == [m EXCEPT !.body = Prefix \o @]

Rules(m) == [m EXCEPT !.body = Prefix \o @, !.len = Len(Prefix) + Len(m.body)]

-----------------------------------------------------------------------------
VARIABLES script,  \* what the client sends
          sent,    \* how many texts of it were sent
          peer,    \* "open", "fin" or "rst"
          wire,    \* what arrived and was not read
          pc,      \* of the thread in readMessage, or in its handler
          buf,     \* what append has not looked at of the last read
          parser,  \* the parser of this call of readMessage
          results, \* what the calls of readMessage returned
          out      \* the last request written upstream

vars == <<script, sent, peer, wire, pc, buf, parser, results, out>>

Init == /\ script \in Scripts
        /\ sent = 0
        /\ peer = "open"
        /\ wire = <<>>
        /\ pc = "read"
        /\ buf = <<>>
        /\ parser = NewParser
        /\ results = <<>>
        /\ out = <<>>

Send == /\ peer = "open"
        /\ pc # "over"
        /\ sent < Len(script)
        /\ Pipelining \/ sent = Len(results)
        /\ sent' = sent + 1
        /\ wire' = wire \o script[sent']
        /\ UNCHANGED <<script, peer, pc, buf, parser, results, out>>

HangUp == /\ peer = "open"
          /\ peer' \in {"fin", "rst"}
          /\ UNCHANGED <<script, sent, wire, pc, buf, parser, results, out>>

(* The message is filled in by finishedParsing only.                       *)
Return(status) == /\ pc' = IF status = "OK" THEN "handle" ELSE "over"
                  /\ results' = Append(results, [status |-> status, msg |->
                       IF status = "OK" THEN Message(parser') ELSE Message(NewParser)])
                  /\ UNCHANGED <<script, sent, peer, wire, out>>

(* A read returns some of what arrived.                                    *)
Read == /\ pc = "read"
        /\ wire # <<>>
        /\ \E n \in 1..Len(wire) :
             /\ n <= BufferLength
             /\ buf' = SubSeq(wire, 1, n)
             /\ wire' = SubSeq(wire, n + 1, Len(wire))
        /\ pc' = "append"
        /\ UNCHANGED <<script, sent, peer, parser, results, out>>

ReadEof == /\ pc = "read" /\ wire = <<>> /\ peer = "fin"
           /\ Return("EOF")
           /\ UNCHANGED <<buf, parser>>

(* A reset may discard what was not read.                                  *)
ReadThrows == /\ pc = "read" /\ peer = "rst"
              /\ Return("THROWN")
              /\ UNCHANGED <<buf, parser>>

(* One turn of the loop of append; when it returns early, the rest of what *)
(* was read is gone with the buffer of readMessage.                        *)
Parse == /\ pc = "append"
         /\ buf # <<>>
         /\ parser' = ParseChar(parser, Head(buf))

ParseOn == /\ Parse
           /\ ~parser'.done /\ ~parser'.bad
           /\ buf' = Tail(buf)
           /\ pc' = IF buf' = <<>> THEN "read" ELSE "append"
           /\ UNCHANGED <<script, sent, peer, wire, results, out>>

ParseDone == /\ Parse
             /\ parser'.done
             /\ Return("OK")
             /\ buf' = <<>>

ParseError == /\ Parse
              /\ ~parser'.done /\ parser'.bad
              /\ Return("PARSE_ERROR")
              /\ buf' = <<>>

(* Mutant: the parser of the last call is used again.                      *)
ForwardSameParser == /\ pc = "handle"
                     /\ out' = Written(Rules(results[Len(results)].msg))
                     /\ parser' = [parser EXCEPT !.body = <<>>, !.done = FALSE]
                     /\ pc' = "read"
                     /\ UNCHANGED <<script, sent, peer, wire, buf, results>>

(* The handler forwards the message and reads the next one.                *)
Forward == /\ pc = "handle"
           /\ out' = Written(Rules(results[Len(results)].msg))
           /\ parser' = NewParser
           /\ pc' = "read"
           /\ UNCHANGED <<script, sent, peer, wire, buf, results>>

ReaderStep == Read \/ ReadEof \/ ReadThrows \/ ParseOn \/ ParseDone \/ ParseError
              \/ Forward

Next == ReaderStep \/ Send \/ HangUp

(***************************************************************************)
(* The worker runs; the client need not send or hang up.                   *)
(***************************************************************************)
Spec == Init /\ [][Next]_vars /\ WF_vars(ReaderStep)

-----------------------------------------------------------------------------
(***************************************************************************)
(* The format as BlkMessage.h describes it, and not as a machine: when a   *)
(* text is a whole message, and when nothing that follows can make it one. *)
(***************************************************************************)
Newlines(s) == {i \in 1..Len(s) : s[i] = NL}
Ended(s, n) == Cardinality(Newlines(s)) > n \* line n of s ended; the first is line 0

Before(s, n) == \* the index before line n
  IF n = 0 THEN 0 ELSE CHOOSE i \in Newlines(s) :
                         Cardinality({j \in Newlines(s) : j <= i}) = n

LineOf(s, n) == SubSeq(s, Before(s, n) + 1,
                       IF Ended(s, n) THEN Before(s, n + 1) - 1 ELSE Len(s))
WordOf(s, n) == LET l == LineOf(s, n) IN [i \in DOMAIN l |-> Upper(l[i])]
BodyOf(s)    == SubSeq(s, Before(s, 4) + 1, Len(s))

(* Both numbers are strings of ascii digits, kept in an int.               *)
Numeric(l)  == l # <<>> /\ \A i \in DOMAIN l : l[i] \in Digits
IsNumber(l) == Numeric(l) /\ ValueOf(l) \in Int32

MessageOf(s) == [port |-> ValueOf(LineOf(s, 1)),
                 verb |-> WordOf(s, 2),
                 len  |-> ValueOf(LineOf(s, 3)),
                 body |-> BodyOf(s)]

(* The body is as long as its length says.                                 *)
Complete(s) == /\ Ended(s, 3)
               /\ WordOf(s, 0) = Start /\ WordOf(s, 2) \in Verbs
               /\ IsNumber(LineOf(s, 1)) /\ IsNumber(LineOf(s, 3))
               /\ ValueOf(LineOf(s, 3)) = Len(BodyOf(s))

WrongWord(s, n, Words) == IF Ended(s, n) THEN WordOf(s, n) \notin Words
                          ELSE \A w \in Words : ~IsPrefix(WordOf(s, n), w)
WrongNumber(s, n)      == Ended(s, n) /\ ~IsNumber(LineOf(s, n))

Invalid(s) == \/ WrongWord(s, 0, {Start})
              \/ WrongNumber(s, 1)
              \/ Ended(s, 1) /\ WrongWord(s, 2, Verbs)
              \/ WrongNumber(s, 3)
              \/ Ended(s, 3) /\ ValueOf(LineOf(s, 3)) \in 0..(Len(BodyOf(s)) - 1)

(* A text of which a first part is a message or is not one for sure.       *)
Decided(s) == \E k \in 1..Len(s) : LET t == SubSeq(s, 1, k)
                                   IN  Complete(t) \/ Invalid(t)

(* Where the parser is known to differ: a line that is no number, but has  *)
(* digits where std::stoi looks for them, and an empty body.               *)
Loose(l) == /\ ~Numeric(l)
            /\ \E i \in DOMAIN l :
                 /\ l[i] \in Digits
                 /\ \A j \in 1..(i - 1) : l[j] \in Blanks \/ (j = i - 1 /\ l[j] \in Signs)

Lax(s) == \/ \E n \in {1, 3} : Ended(s, n) /\ Loose(LineOf(s, n))
          \/ Ended(s, 3) /\ Numeric(LineOf(s, 3)) /\ ValueOf(LineOf(s, 3)) = 0

(* The first n texts of the client are one message each.                   *)
MessagesUpTo(n) == \A i \in 1..n : Complete(script[i]) /\ ~Lax(script[i])

-----------------------------------------------------------------------------
(***************************************************************************)
(* Types: a number that was accepted fits an int, a parser stops before    *)
(* its fifth line ends, and a parser at work has neither finished nor      *)
(* failed.                                                                 *)
(***************************************************************************)
ParserOK(p) == /\ p.line \in 0..4
               /\ p.port \in Int32 /\ p.len \in Int32
               /\ p.cur \in Text /\ p.verb \in Text /\ p.body \in Text /\ p.seen \in Text
               /\ p.done \in BOOLEAN /\ p.bad \in BOOLEAN

TypeOK == /\ sent \in 0..Len(script)
          /\ peer \in {"open", "fin", "rst"}
          /\ pc \in {"read", "append", "handle", "over"}
          /\ wire \in Text /\ buf \in Text /\ out \in Text
          /\ ParserOK(parser)
          /\ pc \in {"read", "append"} => ~parser.done /\ ~parser.bad
          /\ pc = "append" <=> buf # <<>>

(***************************************************************************)
(* The character machine recognises the format: it is done when what it    *)
(* saw is a whole message, with the fields of that message, and it fails   *)
(* as soon as that cannot happen any more.  Where the reads cut the text   *)
(* makes no difference.  It differs for the numbers that only std::stoi    *)
(* takes for one, and for an empty body, and for no other text.            *)
(***************************************************************************)
ParserAgrees == ~Lax(parser.seen) =>
  /\ parser.done <=> Complete(parser.seen)
  /\ parser.bad <=> Invalid(parser.seen)
  /\ parser.done => Message(parser) = MessageOf(parser.seen)

(***************************************************************************)
(* What BlkMessage.h says of a message, port and length are strings of     *)
(* ascii digits, is so of every text the parser takes for one.             *)
(***************************************************************************)
TakesOnlyMessages == parser.done => Complete(parser.seen)

(***************************************************************************)
(* Each call of readMessage returns the next message the client sent, and  *)
(* none that it did not send, as long as no body is empty.  It is what     *)
(* HandlerBlk relies on when it answers one message after the other        *)
(* (pipelining_supported).                                                 *)
(***************************************************************************)
ParsedAsSent ==
  \A n \in 1..Len(results) : MessagesUpTo(IF n <= sent THEN n ELSE sent) =>
    IF n > sent THEN results[n].status # "OK"
    ELSE \/ results[n] = [status |-> "OK", msg |-> MessageOf(script[n])]
         \/ results[n].status = "THROWN"

(***************************************************************************)
(* What the proxy writes upstream is read there, by the same parser, as    *)
(* the request with the prefix before its body; only a NUL in the body,    *)
(* at which writeMessage stops, leaves the reader waiting.                 *)
(***************************************************************************)
RoundTrip ==
  pc \in {"read", "append"} /\ out # <<>> =>
    LET m    == results[Len(results)].msg
        back == FoldLeft(ParseChar, NewParser, out)
    IN  IF NUL \in {m.body[i] : i \in DOMAIN m.body}
        THEN ~back.done /\ ~back.bad
        ELSE /\ back.done /\ ~back.bad
             /\ back.port = m.port /\ back.verb = m.verb
             /\ back.body = Prefix \o m.body

(***************************************************************************)
(* A message, and a text that is not one, is noticed without more input:   *)
(* readMessage returns although the client sends nothing and stays, but    *)
(* for the texts on which the parser differs from the format.              *)
(***************************************************************************)
Answered == \A n \in UNION {DOMAIN s : s \in Scripts} :
              (sent >= n /\ MessagesUpTo(n - 1) /\ Decided(script[n]) /\ ~Lax(script[n]))
                ~> Len(results) >= n
=============================================================================
