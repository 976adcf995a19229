------------------------------ MODULE MCProxy ------------------------------
(* Proxy.tla on small sets of connections, workers and ports.              *)
EXTENDS Proxy

CONSTANTS c1, c2, w1, w2, p1

TwoConns   == {c1, c2}
TwoWorkers == {w1, w2}
OneWorker  == {w1}
AllSocks   == Socks
NoSocks    == {}
OnePort    == {p1}
AllVerbs   == {"NORMAL", "TUNNEL", "BAD"}
Symmetry   == Permutations(TwoConns) \cup Permutations(TwoWorkers)
NormalBad  == {"NORMAL", "BAD"}
NormalTunnel == {"NORMAL", "TUNNEL"}
=============================================================================
