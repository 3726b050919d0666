--------------------------- MODULE MCShockResponses ---------------------------
(* Instances of ShockResponses for TLC. *)
EXTENDS ShockResponses

TwoShocks == {1, 2}
TwoHorizons == {2, 3}
==============================================================================
