--------------------------- MODULE MCEventSources ---------------------------
(* Two rows that are told apart by nothing, so a batch cap of one drops.   *)
EXTENDS EventSources

CONSTANTS r1, r2
=============================================================================
