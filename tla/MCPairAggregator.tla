--------------------------- MODULE MCPairAggregator ---------------------------
(* Instances of PairAggregator for TLC. *)
EXTENDS PairAggregator

CONSTANT p1

OnePair == {p1}
==============================================================================
