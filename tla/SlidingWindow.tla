---------------------------- MODULE SlidingWindow ----------------------------
(* What a rolling window promises: the last Size samples, oldest first. *)
EXTENDS Naturals, Sequences

CONSTANTS Size, Samples

VARIABLE window

Last(s) == IF Len(s) <= Size THEN s ELSE SubSeq(s, Len(s) - Size + 1, Len(s))

Init == window = <<>>
Add == \E v \in Samples : window' = Last(Append(window, v))

Spec == Init /\ [][Add]_window
=============================================================================
