----------------------------- MODULE MCRouting ------------------------------
(***************************************************************************)
(* A small instance of Routing for TLC.                                    *)
(***************************************************************************)
EXTENDS Routing, TLC

CONSTANTS r1, r2, s1, p1, p2

SameSession == [r \in Requests |-> s1]
MCConfigs == {[chain |-> <<p1, p2>>, strategy |-> "random", scope |-> {p1, p2}],
              [chain |-> <<p2, p1>>, strategy |-> "price_priority", scope |-> {p1, p2}],
              [chain |-> <<p2>>, strategy |-> "random", scope |-> {p2}]}
MCFirst == {g \in MCConfigs : g.chain = <<p1, p2>>}
MCPrice == (p1 :> 1) @@ (p2 :> 2)
Symmetry == Permutations({r1, r2})
=============================================================================
