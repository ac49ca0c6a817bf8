---------------------------- MODULE MCEventReady ----------------------------
(* Instances of EventReady for TLC. *)
EXTENDS EventReady

CONSTANTS p1, p2, p3
=============================================================================
