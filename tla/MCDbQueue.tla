------------------------------ MODULE MCDbQueue ------------------------------
(***************************************************************************)
(* Instances of DbQueue for TLC.  The kinds are chosen per question:       *)
(* shocks among rows that are never stored, and rows whose replay meets a  *)
(* primary key.                                                            *)
(***************************************************************************)
EXTENDS DbQueue

MixedKinds == {"shock", "update", "skip", "garbled"}
BarKinds   == {"bar"}
==============================================================================
