------------------------------ MODULE MCQueue ------------------------------
(* Queue.tla with two adding and two removing threads.                     *)
EXTENDS Queue

CONSTANTS l1, l2, w1, w2, fd1, fd2

MCProducers == {l1, l2}
MCConsumers == {w1, w2}
MCItems == {fd1, fd2}
=============================================================================
