--------------------------- MODULE MCPolymarketFeed ---------------------------
(* Small instances of PolymarketFeed. *)
EXTENDS PolymarketFeed

CONSTANT t1

OneToken == {t1}
OneBidOneAsk == {[s \in Sides |-> IF s = "bid" THEN {0} ELSE {MaxLevel}]}
=============================================================================
