---------------------------- MODULE MCAutoscaler ----------------------------
(* Small instances of Autoscaler for TLC. *)
EXTENDS Autoscaler
=============================================================================
