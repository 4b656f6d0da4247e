----------------------------- MODULE MCRouting -----------------------------
(* Small instances of Routing for TLC: the instances w1, w2, ... *)
EXTENDS Routing, TLC

CONSTANTS w1, w2, a, b

TwoIds == w1 :> a @@ w2 :> b
SameId == w1 :> a @@ w2 :> a

\* The requests are alike, and so are the workers, each with its id.
Swap == {[x \in Instances \cup Ids |-> x], w1 :> w2 @@ w2 :> w1 @@ a :> b @@ b :> a}
RoutingSymmetry == {p @@ s : p \in Permutations(Requests), s \in Swap}

\* The workers of one id are alike: let w1 be the one that registers first.  (A
\* symmetry set is unsound with liveness; no fairness asks for a registration.)
InOrder == life[w1] = "new" => life[w2] = "new"
=============================================================================
