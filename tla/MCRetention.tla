---------------------------- MODULE MCRetention ----------------------------
(* Instances of Retention for TLC. *)
EXTENDS Retention

CONSTANTS p1, c1
=============================================================================
