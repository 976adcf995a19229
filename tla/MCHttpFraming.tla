--------------------------- MODULE MCHttpFraming ---------------------------
(* HttpFraming.tla with blocks of two characters and connections of one to *)
(* three messages with names, values and bodies of up to five.             *)
EXTENDS HttpFraming

CONSTANTS a, b, c

MCChar == {a, b, c}

Header(n, v) == [name |-> n, value |-> v, fold |-> <<>>, colon |-> TRUE,
                 says |-> "nothing", n |-> 0]
NameOnly(n)  == [Header(n, <<>>) EXCEPT !.colon = FALSE]
Saying(what) == [Header(<<c, c>>, <<a>>) EXCEPT !.says = what]
Length(n)    == [Saying("length") EXCEPT !.n = n]
Fold(v)      == [text |-> v, says |-> "nothing", n |-> 0]
Folded       == [Header(<<b>>, <<c, b>>) EXCEPT !.fold = << Fold(<<a>>), Fold(<<b>>) >>]
LengthFolded(n) == [Length(n) EXCEPT !.fold = << [Fold(<<a>>) EXCEPT !.says = "length", !.n = n] >>]
FoldedEmpty  == [Folded EXCEPT !.value = <<>>]

(* Of two headers with one name the second counts; a value may be empty.   *)
Request == [kind |-> "url", first |-> <<a, b>>, frame |-> "none", chunks |-> <<>>,
            headers |-> << Header(<<a, b>>, <<c>>), Header(<<a, b>>, <<b, c>>) >>,
            trailers |-> <<>>, v11 |-> TRUE, connect |-> FALSE, bodyless |-> FALSE]
Bare    == [Request EXCEPT !.headers = <<>>, !.first = <<c>>]
Post    == [Request EXCEPT !.headers = << Header(<<a, a, b, c, a>>, <<>>), Folded, Length(3) >>,
                           !.frame = "length", !.chunks = << <<a, b>>, <<c>> >>]
Nothing == [Bare EXCEPT !.headers = << FoldedEmpty, Length(0) >>, !.frame = "length"]
Chunked == [Request EXCEPT !.headers = << Saying("chunked"), Length(1) >>,
                           !.frame = "chunked", !.chunks = << <<a, b>>, <<c>> >>,
                           !.trailers = << Header(<<c>>, <<c>>), Header(<<c, a>>, <<b>>) >>]
Old     == [Bare EXCEPT !.v11 = FALSE]
Kept    == [Old EXCEPT !.headers = << Saying("keep-alive") >>]
Closes  == [Bare EXCEPT !.headers = << Saying("close") >>]
LateClose == [Chunked EXCEPT !.chunks = <<>>, !.trailers = << Saying("close") >>]
Connect == [Bare EXCEPT !.connect = TRUE]
ToUpgrade == [Post EXCEPT !.headers = << Saying("upgrade") >>, !.frame = "none", !.chunks = <<>>]

Response  == [Post EXCEPT !.kind = "status"]
NoContent == [Bare EXCEPT !.kind = "status", !.bodyless = TRUE]
Endless   == [Response EXCEPT !.headers = << Header(<<b>>, <<c>>) >>, !.frame = "eof",
                              !.chunks = << <<a>>, <<b, c>> >>]
Switched  == [NoContent EXCEPT !.headers = << Saying("upgrade") >>]

Told      == [NoContent EXCEPT !.headers = << Length(2) >>]
ToldParts == [NoContent EXCEPT !.headers = << Saying("chunked") >>, !.bodyless = FALSE]

(* Lines without a colon: between headers, as the last one, as the last    *)
(* trailer.                                                                *)
Joined    == [Request EXCEPT !.headers = << NameOnly(<<a>>), Header(<<b>>, <<c>>), NameOnly(<<a>>),
                                            NameOnly(<<b>>), Header(<<c>>, <<a>>) >>]
NoValue   == [Request EXCEPT !.headers = << Header(<<a, b>>, <<c>>), NameOnly(<<b>>) >>]
NoTrailer == [Chunked EXCEPT !.chunks = <<>>, !.trailers = << Header(<<c>>, <<c>>), NameOnly(<<a>>) >>]
Twice     == [Post EXCEPT !.headers = << LengthFolded(3) >>]

Plain     == {Request, Bare, Post, Nothing, Chunked, Kept}
Ending    == {Old, Closes, LateClose}
Answers   == {Response, NoContent}

MCWires == UNION {[1..n -> Plain] : n \in 1..2}
           \cup {<<Chunked, Post, Request>>, <<Post, Chunked, Bare>>}
           \cup {<<m, Bare>> : m \in Ending}
           \cup {<<Bare, m>> : m \in {Connect, ToUpgrade}}
           \cup {<<m, n>> : m \in Answers, n \in Answers \cup {Endless, Switched}}
           \cup {<<Endless>>, <<Bare, Response>>, <<NoContent, Bare>>}
           \cup {<<Response, m>> : m \in {Told, ToldParts}}
           \cup {<<Joined, Twice>>, <<Request, NoValue>>, <<NoValue>>,
                 <<NoTrailer, Request>>, <<NoTrailer, Bare, Request>>}

MCStreams == {[i \in DOMAIN w |-> MessageOf(w[i])] : w \in MCWires}
=============================================================================
