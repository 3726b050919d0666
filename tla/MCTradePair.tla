----------------------------- MODULE MCTradePair -----------------------------
(* Instances of TradePair for TLC. *)
EXTENDS TradePair, TLC

CONSTANTS r1, r2, o1, o2, o3

TwoReqs == {r1, r2}
ThreeOrders == {o1, o2, o3}

AllTrouble == {"lost", "no_id", "refused", "unavailable"}
NoTrouble == {}

\* Two orders filled in parts, or three with whole fills; up to two messages wait.
PartsOrWhole == {[qty |-> 2, orders |-> 2, waiting |-> 1],
                 [qty |-> 1, orders |-> 3, waiting |-> 2]}
WholePolled  == {[qty |-> 1, orders |-> 3, waiting |-> 0]}

Interchangeable == Permutations(TwoReqs) \cup Permutations(ThreeOrders)
==============================================================================
