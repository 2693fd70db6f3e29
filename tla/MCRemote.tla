------------------------------ MODULE MCRemote ------------------------------
(* Small instance of RemotePage: two pages, two connections, queues of      *)
(* one event.                                                               *)
EXTENDS RemotePage, TLC

CONSTANTS p1, p2

MCPages == {p1, p2}
Pages2 == Permutations(MCPages)
=============================================================================
