---------------------------- MODULE PairAggregator ----------------------------
(***************************************************************************)
(* The pair aggregator (pair_aggregator.rs): joins the one-second bars of  *)
(* the two venues of a pair.                                               *)
(*                                                                         *)
(* A bucket collects the halves of a pair and second.  The aggregator's    *)
(* task publishes a bucket as soon as both halves are there; a tick hands  *)
(* the buckets that waited long enough to a flush worker, which publishes  *)
(* them with what they have.  The two tasks share the buckets under one    *)
(* lock and give it up between looking at a bucket and building its bar    *)
(* (load_build_context is awaited in between).                             *)
(*                                                                         *)
(* The half bars come from the shards (TokenBars): those of one token in   *)
(* the order of their seconds and once each, but any of them may be        *)
(* missing, because a shard drops what finds the queue full.  The two      *)
(* venues and the ticks keep no common order.  The contents of the bars    *)
(* are left out.                                                           *)
(***************************************************************************)
EXTENDS Integers, Sequences, FiniteSets

CONSTANTS
  Pairs,       \* the pairs of one aggregator, with their token side
  LateBuffer,  \* pair_flush_late_arrival_s
  ExtraCap,    \* REORDER_EXTRA_CAP_S
  FlushMax,    \* FLUSH_STALE_MAX_KEYS
  BuildMax,    \* FLUSH_BUILD_MAX_KEYS
  MaxSecond,   \* bound: bars are of the seconds 1..MaxSecond
  MaxTick,     \* bound: the last second the clock shows
  None

ASSUME PairAggregatorAssumption ==
  /\ {LateBuffer, ExtraCap, MaxSecond, MaxTick} \subseteq Nat
  /\ {FlushMax, BuildMax} \subseteq Nat \ {0}
  /\ IsFiniteSet(Pairs)
  /\ None \notin Pairs \X (1..MaxSecond)

VARIABLES
  arrival,      \* how a half bar arrived: arrival_stats, kept for every half
  lastSeen,     \* last_seen_pm and last_seen_opi of a pair's tokens
  buckets,      \* the halves in a bucket; {} is no bucket
  index,        \* the keys of bucket_index
  flushQueue,   \* flush_queue
  flushPending, \* flush_pending_keys
  tick,         \* current_tick; 0 before the first
  opiReady,     \* opi_bootstrap_done
  building,     \* the full bucket the aggregator has taken out and not yet built
  permit,       \* flush_notify holds a notification
  worker,       \* where the flush worker is
  bars          \* the pair bars published, each the set of its halves

vars == <<arrival, lastSeen, buckets, index, flushQueue, flushPending, tick,
          opiReady, building, permit, worker, bars>>

Venues == {"pm", "opi"}
Keys == Pairs \X (1..MaxSecond)
Second(k) == k[2]

Waiting == [at |-> "wait", keys |-> {}, key |-> None]

Init ==
  /\ arrival = [k \in Keys |-> [v \in Venues |-> "none"]]
  /\ lastSeen = [p \in Pairs |-> [v \in Venues |-> 0]]
  /\ buckets = [k \in Keys |-> {}]
  /\ index = {}
  /\ flushQueue = {}
  /\ flushPending = {}
  /\ tick = 0
  /\ opiReady = FALSE
  /\ building = None
  /\ permit = FALSE
  /\ worker = Waiting
  /\ bars = [k \in Keys |-> <<>>]
-----------------------------------------------------------------------------
(* The aggregator's task. *)

(* is_late of record_arrival. *)
Late(k) == tick > 0 /\ Second(k) < tick - LateBuffer

(* The buckets once the half v of k is in: a full one is taken out. *)
BucketsWith(k, v) ==
  [buckets EXCEPT ![k] = IF @ \cup {v} = Venues THEN {} ELSE @ \cup {v}]

(* A new bucket is listed under its second. *)
Indexed(k) == IF buckets[k] = {} THEN index \cup {k} ELSE index

(* TokenBar: the half v of k arrives.  A half later than lastSeen + 1 means *)
(* that those in between were dropped.                                      *)
Receive(k, v) ==
  /\ building = None
  /\ Second(k) > lastSeen[k[1]][v]
  /\ arrival' = [arrival EXCEPT ![k][v] = IF Late(k) THEN "late" ELSE "onTime"]
  /\ lastSeen' = [lastSeen EXCEPT ![k[1]][v] = Second(k)]
  /\ index' = Indexed(k)
  /\ buckets' = BucketsWith(k, v)
  /\ IF buckets[k] \cup {v} = Venues
       THEN flushPending' = flushPending \ {k} /\ building' = k
       ELSE UNCHANGED <<flushPending, building>>
  /\ UNCHANGED <<flushQueue, tick, opiReady, permit, worker, bars>>

(* The bar of a full bucket is built and sent, after its context was loaded. *)
BuildReady ==
  /\ building # None
  /\ bars' = [bars EXCEPT ![building] = Append(@, Venues)]
  /\ building' = None
  /\ UNCHANGED <<arrival, lastSeen, buckets, index, flushQueue, flushPending,
                 tick, opiReady, permit, worker>>

(* How far a token whose half is missing is ahead of the bucket's second, up *)
(* to the cap.  Opinion's counts once its bootstrap is done.                 *)
AheadOf(k, v) ==
  LET ahead == lastSeen[k[1]][v] - Second(k)
  IN IF v \in buckets[k] \/ (v = "opi" /\ ~opiReady) \/ ahead <= 0 THEN 0
     ELSE IF ahead > ExtraCap THEN ExtraCap ELSE ahead

ExtraBuffer(k) ==
  IF AheadOf(k, "pm") >= AheadOf(k, "opi") THEN AheadOf(k, "pm") ELSE AheadOf(k, "opi")

(* Faulty: the late-arrival buffer is forgotten. *)
CutoffNow(t, extra) == t - extra

(* The second before which a bucket has waited long enough at the tick t. *)
Cutoff(t, extra) == t - (LateBuffer + extra)

(* should_flush_bucket, at the tick t. *)
ShouldFlush(k, t) == t > 0 /\ Second(k) < Cutoff(t, ExtraBuffer(k))

(* The keys whose second is past the late-arrival buffer. *)
Due(t) == {k \in index : t > 0 /\ Second(k) < Cutoff(t, 0)}

Live(k) == buckets[k] # {} /\ k \notin flushPending

(* The sets of keys that flush_stale may have looked at when it stops: it    *)
(* takes the seconds in order and does not get past one that keeps a key; it *)
(* stops after FlushMax keys, or when its time is up, which is assumed not   *)
(* to be before the first key.                                               *)
Scans(t) ==
  {S \in SUBSET Due(t) :
     /\ S = {} => Due(t) = {}
     /\ \A k \in S, j \in Due(t) :
          Second(j) < Second(k) => j \in S /\ (Live(j) => ShouldFlush(j, t))
     /\ Cardinality({k \in S : Live(k) /\ ShouldFlush(k, t)}) <= FlushMax}

(* notify_one keeps one notification for a worker that is not waiting. *)
Notified(Q) == Q # {} \/ permit

(* Faulty: a key that may not be flushed yet leaves the index. *)
ScannedAway(S, Q) == index \ S

(* What stays in the index of the keys S that were looked at, Q of which are *)
(* flushed: those that have to wait.                                         *)
Scanned(S, Q) == index \ {k \in S : k \in Q \/ ~Live(k)}

(* Tick: flush_stale hands the keys that waited long enough to the worker.   *)
Tick(t) ==
  /\ building = None
  /\ t >= tick /\ t > 0
  /\ tick' = t
  /\ \E S \in Scans(t) :
       LET Q == {k \in S : Live(k) /\ ShouldFlush(k, t)}
       IN /\ index' = Scanned(S, Q)
          /\ flushPending' = flushPending \cup Q
          /\ flushQueue' = flushQueue \cup Q
          /\ permit' = Notified(Q)
  /\ UNCHANGED <<arrival, lastSeen, buckets, opiReady, building, worker, bars>>

(* The Opinion snapshotter has finished its bootstrap. *)
BootstrapDone ==
  /\ ~opiReady
  /\ opiReady' = TRUE
  /\ UNCHANGED <<arrival, lastSeen, buckets, index, flushQueue, flushPending,
                 tick, building, permit, worker, bars>>
-----------------------------------------------------------------------------
(* The flush worker.  Every step is one hold of the lock. *)

Wake ==
  /\ worker.at = "wait" /\ permit
  /\ permit' = FALSE
  /\ worker' = [worker EXCEPT !.at = "drain"]
  /\ UNCHANGED <<arrival, lastSeen, buckets, index, flushQueue, flushPending,
                 tick, opiReady, building, bars>>

(* Faulty: a key that was drained keeps its mark. *)
StillMarked(ks) == flushPending

Unmarked(ks) == flushPending \ ks

(* drain_flush_queue takes keys until BuildMax of them are still pending or  *)
(* its time is up; a drain that finds none pending is assumed to get to the  *)
(* end of the queue.  The order of the queue is left open.                   *)
Drain ==
  /\ worker.at = "drain"
  /\ \E S \in SUBSET flushQueue :
       LET ks == S \cap flushPending
       IN /\ Cardinality(ks) <= BuildMax
          /\ ks = {} => S = flushQueue
          /\ flushQueue' = flushQueue \ S
          /\ flushPending' = Unmarked(ks)
          /\ worker' = IF ks = {} THEN Waiting
                       ELSE [at |-> "check", keys |-> ks, key |-> None]
  /\ UNCHANGED <<arrival, lastSeen, buckets, index, tick, opiReady, building,
                 permit, bars>>

(* has_bucket: a key whose bucket is gone is skipped; for the others the     *)
(* context is loaded without the lock.                                       *)
Check(k) ==
  /\ worker.at = "check" /\ k \in worker.keys
  /\ worker' = IF buckets[k] = {} THEN [worker EXCEPT !.keys = @ \ {k}]
               ELSE [worker EXCEPT !.at = "build", !.key = k]
  /\ UNCHANGED <<arrival, lastSeen, buckets, index, flushQueue, flushPending,
                 tick, opiReady, building, permit, bars>>

(* The bucket is read again under the lock, built, taken out and sent. *)
BuildFlushed ==
  LET k == worker.key
  IN /\ worker.at = "build"
     /\ worker' = [at |-> "check", keys |-> worker.keys \ {k}, key |-> None]
     /\ IF buckets[k] = {} THEN UNCHANGED <<bars, buckets>>
        ELSE /\ bars' = [bars EXCEPT ![k] = Append(@, buckets[k])]
             /\ buckets' = [buckets EXCEPT ![k] = {}]
     /\ UNCHANGED <<arrival, lastSeen, index, flushQueue, flushPending, tick,
                    opiReady, building, permit>>

(* Faulty: what one drain leaves in the queue waits for the next tick. *)
HasMoreNever == FALSE

HasMore == flushQueue # {}

(* Another drain if the queue is not empty. *)
Rest ==
  /\ worker.at = "check" /\ worker.keys = {}
  /\ worker' = [worker EXCEPT !.at = IF HasMore THEN "drain" ELSE "wait"]
  /\ UNCHANGED <<arrival, lastSeen, buckets, index, flushQueue, flushPending,
                 tick, opiReady, building, permit, bars>>

Work == Wake \/ Drain \/ (\E k \in Keys : Check(k)) \/ BuildFlushed \/ Rest

Next ==
  \/ \E k \in Keys, v \in Venues : Receive(k, v)
  \/ BuildReady
  \/ \E t \in 1..MaxTick : Tick(t)
  \/ BootstrapDone
  \/ Work

Spec == Init /\ [][Next]_vars

(* Both tasks are scheduled, and the clock goes on: it reaches MaxTick.      *)
FairSpec == Spec /\ WF_vars(BuildReady) /\ WF_vars(Work) /\ WF_vars(Tick(MaxTick))
-----------------------------------------------------------------------------
TypeOK ==
  /\ arrival \in [Keys -> [Venues -> {"none", "onTime", "late"}]]
  /\ lastSeen \in [Pairs -> [Venues -> 0..MaxSecond]]
  /\ buckets \in [Keys -> SUBSET Venues]
  /\ index \subseteq Keys /\ flushQueue \subseteq Keys /\ flushPending \subseteq flushQueue
  /\ tick \in 0..MaxTick
  /\ opiReady \in BOOLEAN
  /\ building \in Keys \cup {None}
  /\ permit \in BOOLEAN
  /\ worker \in [at : {"wait", "drain", "check", "build"}, keys : SUBSET Keys,
                 key : Keys \cup {None}]
  /\ bars \in [Keys -> Seq(SUBSET Venues)]

(* A bucket is always on some list that leads to its publication: the index  *)
(* of a later tick, the flush queue with its mark, or the worker's keys.     *)
(* The lists are updated by two tasks between locks (flush_stale,            *)
(* drain_flush_queue, the TokenBar arm); a bucket on none of them would stay *)
(* in memory for ever and its second would never be stored.                  *)
Tracked ==
  \A k \in Keys : buckets[k] # {} =>
    k \in index \/ k \in flushQueue \cap flushPending \/ k \in worker.keys

(* Halves that arrive before the buffer of their second has run out end up   *)
(* in one bar: the second may have two bars only if the half that came last  *)
(* was late.  This is what pair_flush_late_arrival_s is for.                 *)
SplitOnlyIfLate ==
  \A k \in Keys : Len(bars[k]) > 1 => \E v \in Venues : arrival[k][v] = "late"

(* The halves received, published and kept: see PairJoin.                    *)
Join == INSTANCE PairJoin WITH
  arrived <- {h \in Keys \X Venues : arrival[h[1]][h[2]] # "none"}

(* Every half received is published in exactly one bar, whatever the two     *)
(* tasks do between their locks, and in the end it is published.             *)
JoinsHalves == Join!Spec

==============================================================================
