--------------------------- MODULE MCDecodeRuntime ---------------------------
(***************************************************************************)
(* A small instance of DecodeRuntime: two contexts that decode into the    *)
(* same two surfaces, and a thread that may wait.                          *)
(***************************************************************************)
EXTENDS DecodeRuntime, TLC

CONSTANTS c1, c2, t1

Interchangeable == Permutations({c1, c2})
=============================================================================
