--------------------------- MODULE MCDecodeStaging ---------------------------
(***************************************************************************)
(* A small instance of DecodeStaging: one context with two surfaces, and   *)
(* streams whose PPS, or SPS, changes.                                     *)
(***************************************************************************)
EXTENDS DecodeStaging

CONSTANTS c1, t1

Streams == {<<1, 1>>, <<1, 2>>, <<2, 1>>}
=============================================================================
