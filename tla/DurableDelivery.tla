--------------------------- MODULE DurableDelivery ---------------------------
(***************************************************************************)
(* What the database pipeline promises its producers, without saying how:  *)
(* a message that has been accepted is retained until it has been          *)
(* delivered to Postgres, so it is delivered at least once, and nothing    *)
(* that was let go is delivered again.  A message that can never be        *)
(* delivered (its payload no longer decodes, or storing it is switched     *)
(* off) may be let go undelivered.  DbQueue implements this specification. *)
(***************************************************************************)
EXTENDS Naturals, Sequences

CONSTANT Discardable  \* the messages that may be let go without being delivered

VARIABLES
  accepted,   \* every message accepted so far, in order; its index is its id
  retained,   \* ids the pipeline still holds
  delivered   \* delivered[id] counts the transactions that delivered id

dvars == <<accepted, retained, delivered>>

Init ==
  /\ accepted = <<>>
  /\ retained = {}
  /\ delivered = <<>>

(* Some messages become durable together, after those already accepted. *)
Accept ==
  /\ Len(accepted') > Len(accepted)
  /\ \A i \in 1..Len(accepted) : accepted'[i] = accepted[i]
  /\ delivered' = [i \in 1..Len(accepted') |->
                     IF i \in 1..Len(accepted) THEN delivered[i] ELSE 0]
  /\ retained' = retained \cup (Len(accepted) + 1)..Len(accepted')

(* One transaction delivers a set of retained messages, all or nothing. *)
Deliver(ids) ==
  /\ delivered' = [i \in 1..Len(accepted) |->
                     IF i \in ids THEN delivered[i] + 1 ELSE delivered[i]]
  /\ UNCHANGED <<accepted, retained>>

(* Only what was delivered, or can never be, is let go. *)
Release(ids) ==
  /\ \A i \in ids : delivered[i] > 0 \/ accepted[i] \in Discardable
  /\ retained' = retained \ ids
  /\ UNCHANGED <<accepted, delivered>>

Next ==
  \/ Accept
  \/ \E ids \in SUBSET retained : Deliver(ids) \/ Release(ids)

Spec == Init /\ [][Next]_dvars
==============================================================================
