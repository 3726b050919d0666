---------------------------- MODULE MCOpinionFeed ----------------------------
(* A small instance of OpinionFeed. *)
EXTENDS OpinionFeed

CONSTANT t1

OneToken == {t1}
OneBid == {[s \in Sides |-> IF s = "bid" THEN {0} ELSE {}]}

(* The defaults of config.rs and the values of config.example.yaml. *)
DefaultAndExample ==
  {[activeOnly |-> on, wsPrimary |-> on, staleFilter |-> on, cooldown |-> on] : on \in BOOLEAN}
=============================================================================
