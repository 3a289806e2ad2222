--------------------------- MODULE MCSessionEngine ---------------------------
(* Small instances of the session engine.  Descriptors and images are      *)
(* interchangeable, so their permutations are symmetries of safety checks. *)
EXTENDS SessionEngine, TLC

Interchangeable == Permutations(Fds) \cup Permutations(Tokens)
=============================================================================
