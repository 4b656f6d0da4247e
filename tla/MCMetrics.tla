----------------------------- MODULE MCMetrics -----------------------------
(* Small instances of Metrics for TLC. *)
EXTENDS Metrics

MCSymmetry == Permutations(Handlers) \cup Permutations(Writers)
=============================================================================
