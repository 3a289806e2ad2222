--------------------------- MODULE MCCodecBackend ---------------------------
(* Instances of CodecBackend for TLC.                                       *)
EXTENDS CodecBackend

\* Buffer ids are interchangeable names.
Symmetry == Permutations(Ids)

=============================================================================
