--------------------------- MODULE MCRepackGateway ---------------------------
(***************************************************************************)
(* RepackGateway with two table entries and two pool slots: one session in *)
(* which tokens and reservation ids wrap, or two that share the table.     *)
(***************************************************************************)
EXTENDS RepackGateway, TLC

Symmetry == Permutations(Sessions)
=============================================================================
