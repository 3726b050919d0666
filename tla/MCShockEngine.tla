---------------------------- MODULE MCShockEngine ----------------------------
(* Instances of ShockEngine for TLC. *)
EXTENDS ShockEngine

TwoTypes == {1, 2}
FirstType == {1}
TwoPairs == {1, 2}
==============================================================================
