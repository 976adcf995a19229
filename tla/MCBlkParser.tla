---------------------------- MODULE MCBlkParser ----------------------------
(* BlkParser.tla with the first line "ST", the verbs "NO" and "TU", ints   *)
(* of two digits.                                                          *)
EXTENDS BlkParser

MCStart  == <<83, 84>>
MCVerbs  == {<<78, 79>>, <<84, 85>>}
MCPrefix == <<77>>

FirstLines  == {<<83, 84>>, <<115, 116>>, <<83>>, <<83, 84, 84>>, <<>>}
PortLines   == {<<56>>, <<32, 56>>, <<45, 49>>, <<49, 120>>, <<120>>, <<45>>, <<>>,
                <<57, 57>>, <<49, 48, 48>>}
VerbLines   == {<<78, 79>>, <<116, 117>>, <<78>>, <<78, 85>>, <<78, 79, 79>>}
LengthLines == {<<48>>, <<49>>, <<50>>, <<45, 49>>, <<120>>}
Bodies      == {<<>>, <<65>>, <<0>>, <<65, 10>>}

Lines(q) == q[1] \o <<NL>> \o q[2] \o <<NL>> \o q[3] \o <<NL>> \o q[4] \o <<NL>> \o q[5]

(* A good message in which at most two parts are something else.           *)
Usual == <<MCStart, <<56>>, <<78, 79>>, <<49>>, <<65>>>>
Texts == {Lines(q) : q \in
            {q \in FirstLines \X PortLines \X VerbLines \X LengthLines \X Bodies :
               Cardinality({i \in 1..5 : q[i] # Usual[i]}) <= 2}}

M(b) == Lines(<<MCStart, <<56>>, <<78, 79>>, Numeral(Len(b)), b>>)

MCScripts == {<<t>> : t \in Texts}
             \cup {<<M(a), M(b), M(c)>> : a \in {<<65>>}, b \in {<<66, 66>>, <<0>>},
                                          c \in {<<67>>, <<>>}}

(* Three messages, for the client that does not wait.                      *)
MCPipelined == {<<M(<<65>>), M(<<66, 66>>), M(<<67>>)>>}
=============================================================================
