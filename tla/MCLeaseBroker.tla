--------------------------- MODULE MCLeaseBroker ---------------------------
(* Small instances of the launchers and the lease broker.                  *)
EXTENDS LeaseBroker
=============================================================================
