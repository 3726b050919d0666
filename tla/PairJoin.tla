------------------------------- MODULE PairJoin -------------------------------
(***************************************************************************)
(* What the pair aggregator promises, without saying how: every half bar   *)
(* it received is published in exactly one pair bar of its pair and        *)
(* second.  A pair bar may hold one half or both, and a second may have    *)
(* more than one pair bar.  PairAggregator implements this specification.  *)
(***************************************************************************)
EXTENDS Sequences

CONSTANTS
  Keys,    \* a pair, a token side and a second
  Venues

VARIABLES
  arrived,  \* the half bars received: a key and a venue
  bars      \* the pair bars published for a key, each the set of its halves

jvars == <<arrived, bars>>

Halves == Keys \X Venues

(* The halves of a key that some bar holds. *)
Published(bs, k) == UNION {bs[k][i] : i \in DOMAIN bs[k]}

Init ==
  /\ arrived = {}
  /\ bars = [k \in Keys |-> <<>>]

Arrive(h) ==
  /\ h \notin arrived
  /\ arrived' = arrived \cup {h}
  /\ UNCHANGED bars

Publish(k, S) ==
  /\ S # {}
  /\ \A v \in S : <<k, v>> \in arrived /\ v \notin Published(bars, k)
  /\ bars' = [bars EXCEPT ![k] = Append(@, S)]
  /\ UNCHANGED arrived

Next ==
  \/ \E h \in Halves : Arrive(h)
  \/ \E k \in Keys, S \in SUBSET Venues : Publish(k, S)

(* The half h is published. *)
Publishes(h) == \E S \in SUBSET Venues : h[2] \in S /\ Publish(h[1], S)

Spec == Init /\ [][Next]_jvars /\ \A h \in Halves : WF_jvars(Publishes(h))
==============================================================================
