---------------------------- MODULE PairExposure ----------------------------
(***************************************************************************)
(* What the trades of one pair may do to the exposure counted for it: the  *)
(* promise that TradePair and TradeRisk have in common.                    *)
(*                                                                         *)
(* A trade is counted once, when its entry stands, with the size that was  *)
(* entered.  Fills rewrite what the pair holds by its own figure, and not  *)
(* what is counted.  When the trade ends that figure is taken off again,   *)
(* and never more than is counted: release_exposure subtracts and then     *)
(* takes the greater of the rest and zero, but the rest is not negative.   *)
(***************************************************************************)
EXTENDS Integers

VARIABLES
  stage,    \* of the pair's trade
  size,     \* what the trade entered
  notional, \* what the pair holds of it by its own figure
  counted   \* exposure counted for the pair

trade == <<stage, size, notional, counted>>

Init == stage = "Idle" /\ size = 0 /\ notional = 0 /\ counted = 0

(* An entry is on its way to the venue, or refused before it left. *)
Enter ==
  /\ stage = "Idle" /\ stage' = "Placing"
  /\ size' \in Nat \ {0} /\ notional' = size'
  /\ UNCHANGED counted

Refuse ==
  /\ stage = "Idle" /\ stage' = "Cooldown"
  /\ UNCHANGED <<size, notional, counted>>

(* The entry stands and is counted, in a dry run as soon as it is made. *)
Book ==
  /\ stage = "Placing" /\ stage' = "Working"
  /\ counted' = counted + size
  /\ UNCHANGED <<size, notional>>

EnterBooked ==
  /\ stage = "Idle" /\ stage' = "Working"
  /\ size' \in Nat \ {0} /\ notional' = size'
  /\ counted' = counted + size'

Over == stage' = "Cooldown" /\ size' = 0 /\ notional' = 0

(* The entry does not stand: it was never counted. *)
Fail == stage = "Placing" /\ Over /\ UNCHANGED counted

(* A fill settles the figure, upwards too when it is told of an earlier one first. *)
Fill ==
  /\ stage = "Working"
  /\ notional' \in 1..size
  /\ UNCHANGED <<stage, size, counted>>

(* The trade ends: what it held by its own figure is no longer counted. *)
End ==
  /\ stage = "Working" /\ Over
  /\ notional <= counted /\ counted' = counted - notional

Rest == stage = "Cooldown" /\ stage' = "Idle" /\ UNCHANGED <<size, notional, counted>>

Next == Enter \/ Refuse \/ Book \/ EnterBooked \/ Fail \/ Fill \/ End \/ Rest

Spec == Init /\ [][Next]_trade
=============================================================================
