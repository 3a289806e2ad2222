--------------------------- MODULE MCEncodeRuntime ---------------------------
(* Instances of EncodeRuntime for TLC.                                      *)
EXTENDS EncodeRuntime, TLC

\* Surfaces and buffers are interchangeable slots.
Symmetry == Permutations(Surfaces) \cup Permutations(Buffers)

=============================================================================
