--------------------------- MODULE MCEventCounter ---------------------------
(* TLC instances of EventCounter. *)
EXTENDS EventCounter, TLC
=============================================================================
