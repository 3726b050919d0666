----------------------------- MODULE MCTradeRisk -----------------------------
(* Instances of TradeRisk for TLC. *)
EXTENDS TradeRisk

CONSTANTS e1, e2, p1, p2, p3

TwoEngines == {e1, e2}
ThreePairs == {p1, p2, p3}

\* Two live engines with a pair each, entries scaled up and filled in part.
LiveBoth == [live |-> TRUE, partFills |-> TRUE, alphaC |-> TRUE,
             engineOf |-> [p \in {p1, p2} |-> IF p = p1 THEN e1 ELSE e2]]

\* A dry run of one engine with three pairs.
DryAlone == [live |-> FALSE, partFills |-> FALSE, alphaC |-> FALSE,
             engineOf |-> [p \in ThreePairs |-> e1]]

LiveOrDry == {LiveBoth, DryAlone}
==============================================================================
