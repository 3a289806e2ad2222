--------------------------- MODULE MCRddSocketPool ---------------------------
(***************************************************************************)
(* RddSocketPool with two or three sockets and interchangeable threads.    *)
(***************************************************************************)
EXTENDS RddSocketPool, TLC

Symmetry == Permutations(Threads)
=============================================================================
