----------------------------- MODULE MCConsole -----------------------------
(* Small instances of Console for TLC. *)
EXTENDS Console

\* Of the pairs up to 5, the one whose float64 average is below the exact integer:
\* 3 * 0.7 + 3 * 0.3 < 3.
MCFloatBelow == {<<3, 3>>}
=============================================================================
