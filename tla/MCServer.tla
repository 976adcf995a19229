------------------------------ MODULE MCServer ------------------------------
(* Server.tla with two clients and two workers.                            *)
EXTENDS Server

CONSTANTS c1, c2, w1, w2, p1

MCConns   == {c1, c2}
MCWorkers == {w1, w2}
MCTable   == <<w1, w2>>
MCPorts   == {p1}
MCVerbs   == {"NORMAL", "BAD"}
OneConn   == {c1}
=============================================================================
