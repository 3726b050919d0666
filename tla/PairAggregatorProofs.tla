------------------------- MODULE PairAggregatorProofs -------------------------
(***************************************************************************)
(* Safety of PairAggregator, for every set of pairs, buffer, limit and     *)
(* bound: no bucket is forgotten, halves are kept apart only when one was  *)
(* late, and every step is one of PairJoin or a stutter.                   *)
(***************************************************************************)
EXTENDS PairAggregator, TLAPS, SequenceTheorems

(* The halves of k that are in some pair bar. *)
Out(k) == Join!Published(bars, k)

(* The inductive invariant, in parts.  Where the worker is, ... *)
WorkerInv ==
  /\ worker.at \in {"wait", "drain"} => worker.keys = {}
  /\ worker.at = "build" => worker.key \in worker.keys

(* ... the keys on the worker's way have waited for the late buffer, ... *)
FlushedLate == \A k \in flushQueue \cup worker.keys : Late(k)

(* ... a half that came is at or before the newest second of its token, ... *)
SeenInv ==
  \A k \in Keys, v \in Venues : arrival[k][v] # "none" => Second(k) <= lastSeen[k[1]][v]

(* ... the halves of a key that came are in its bucket, in the bar that is being
   built or in bars, each in one place, ... *)
OnePlace(k) ==
  /\ \A v \in Venues :
       arrival[k][v] # "none" <=> (v \in buckets[k] \/ building = k \/ v \in Out(k))
  /\ building = k => buckets[k] = {} /\ Out(k) = {}
  /\ buckets[k] \cap Out(k) = {}
  /\ bars[k] # <<>> => Out(k) # {}

(* ... and what is left of a key once it has a bar comes late. *)
SplitLate(k) ==
  /\ bars[k] # <<>> /\ Out(k) # Venues => Late(k)
  /\ bars[k] # <<>> /\ buckets[k] # {} => \E v \in Venues : arrival[k][v] = "late"
  /\ Len(bars[k]) > 1 => \E v \in Venues : arrival[k][v] = "late"

IInv ==
  /\ TypeOK /\ WorkerInv /\ Tracked /\ FlushedLate /\ SeenInv
  /\ \A k \in Keys : OnePlace(k) /\ SplitLate(k)
-----------------------------------------------------------------------------
(* A key is a pair and a second. *)
LEMMA KeyParts ==
  ASSUME NEW k \in Keys
  PROVE  k[1] \in Pairs /\ Second(k) \in 1..MaxSecond /\ Second(k) \in Int
BY PairAggregatorAssumption DEF Keys, Second

(* The clock does not go back: what is late stays late. *)
LEMMA LateStays ==
  ASSUME NEW k \in Keys, tick \in Nat, tick' \in Nat, tick' >= tick, Late(k)
  PROVE  Late(k)'
<1>1. Second(k) \in Int /\ LateBuffer \in Int
  BY KeyParts, PairAggregatorAssumption
<1>2. Second(k)' = Second(k)
  BY DEF Second
<1> QED
  BY <1>1, <1>2 DEF Late

(* A bar more: its halves are out. *)
LEMMA BarAdded ==
  ASSUME NEW k \in Keys, NEW S \in SUBSET Venues,
         bars \in [Keys -> Seq(SUBSET Venues)],
         bars' = [bars EXCEPT ![k] = Append(@, S)]
  PROVE  /\ bars' \in [Keys -> Seq(SUBSET Venues)]
         /\ \A j \in Keys \ {k} : bars'[j] = bars[j]
         /\ Out(k)' = Out(k) \cup S
         /\ Len(bars'[k]) = Len(bars[k]) + 1
         /\ bars'[k] # <<>>
<1> DEFINE b == bars[k]
           c == Append(b, S)
<1>1. b \in Seq(SUBSET Venues) /\ Len(b) \in Nat /\ DOMAIN b = 1..Len(b)
  BY LenProperties
<1>2. bars'[k] = c
  OBVIOUS
<1>3. /\ c \in Seq(SUBSET Venues) /\ Len(c) = Len(b) + 1
      /\ \A i \in 1..Len(b) : c[i] = b[i]
      /\ c[Len(b) + 1] = S
  BY <1>1, AppendProperties
<1>4. DOMAIN c = DOMAIN b \cup {Len(b) + 1} /\ c # <<>>
  BY <1>1, <1>3, LenProperties
<1>5. UNION {c[i] : i \in DOMAIN c} = (UNION {b[i] : i \in DOMAIN b}) \cup S
  <2> HIDE DEF b, c
  <2> QED
    BY <1>1, <1>3, <1>4
<1> QED
  BY <1>2, <1>3, <1>4, <1>5 DEF Out, Join!Published

(* A key that a step does not touch keeps its place. *)
LEMMA Untouched ==
  ASSUME NEW k \in Keys, OnePlace(k), SplitLate(k),
         arrival'[k] = arrival[k], buckets'[k] = buckets[k], bars'[k] = bars[k],
         (building' = k) <=> (building = k), Late(k) => Late(k)'
  PROVE  OnePlace(k)' /\ SplitLate(k)'
<1>1. Out(k)' = Out(k)
  BY DEF Out, Join!Published
<1>2. OnePlace(k)'
  BY <1>1 DEF OnePlace
<1>3. SplitLate(k)'
  BY <1>1 DEF SplitLate
<1> QED
  BY <1>2, <1>3

(* The aggregator starts with nothing received and nothing waiting. *)
LEMMA InitInv == Init => IInv
<1> SUFFICES ASSUME Init PROVE IInv
  OBVIOUS
<1>1. TypeOK
  <2>1. 0 \in 0..MaxSecond /\ 0 \in 0..MaxTick
    BY PairAggregatorAssumption
  <2>2. bars \in [Keys -> Seq(SUBSET Venues)]
    BY DEF Init
  <2> QED
    BY <2>1, <2>2 DEF Init, TypeOK, Waiting
<1>2. WorkerInv /\ Tracked /\ FlushedLate /\ SeenInv
  BY DEF Init, WorkerInv, Tracked, FlushedLate, SeenInv, Waiting
<1>3. ASSUME NEW k \in Keys PROVE OnePlace(k) /\ SplitLate(k)
  <2>1. /\ bars[k] = <<>> /\ buckets[k] = {} /\ building # k
        /\ \A v \in Venues : arrival[k][v] = "none"
    BY PairAggregatorAssumption DEF Init, Keys
  <2>2. Out(k) = {}
    BY <2>1 DEF Out, Join!Published
  <2> QED
    BY <2>1, <2>2 DEF OnePlace, SplitLate
<1> QED
  BY <1>1, <1>2, <1>3 DEF IInv
-----------------------------------------------------------------------------
(* The aggregator's task. *)

(* A half arrives: in its bucket, or, when the bucket is full, in the bar that is
   being built.  If the key has a bar already, the half is late. *)
LEMMA ReceiveInv ==
  ASSUME IInv, NEW k \in Keys, NEW v \in Venues, Receive(k, v)
  PROVE  IInv'
<1> DEFINE full == buckets[k] \cup {v} = Venues
<1>1. /\ TypeOK /\ WorkerInv /\ Tracked /\ FlushedLate /\ SeenInv
      /\ \A j \in Keys : OnePlace(j) /\ SplitLate(j)
  BY DEF IInv
<1>2. k[1] \in Pairs /\ Second(k) \in 1..MaxSecond /\ Second(k) \in Int
  BY KeyParts
<1>3. /\ building = None /\ None \notin Keys
      /\ arrival[k][v] = "none"
      /\ UNCHANGED <<flushQueue, tick, opiReady, permit, worker, bars>>
  <2>1. lastSeen[k[1]][v] \in Int
    BY <1>1, <1>2, PairAggregatorAssumption DEF TypeOK
  <2> QED
    BY <1>1, <1>2, <2>1, PairAggregatorAssumption DEF Receive, SeenInv, Keys
<1>4. /\ buckets' \in [Keys -> SUBSET Venues]
      /\ buckets'[k] = IF full THEN {} ELSE buckets[k] \cup {v}
      /\ \A j \in Keys \ {k} : buckets'[j] = buckets[j]
  BY <1>1 DEF TypeOK, Receive, BucketsWith
<1>5. /\ full => building' = k /\ flushPending' = flushPending \ {k}
      /\ ~full => building' = None /\ flushPending' = flushPending
  BY <1>3 DEF Receive
<1>6. /\ arrival' \in [Keys -> [Venues -> {"none", "onTime", "late"}]]
      /\ arrival'[k][v] = IF Late(k) THEN "late" ELSE "onTime"
      /\ \A u \in Venues \ {v} : arrival'[k][u] = arrival[k][u]
      /\ \A j \in Keys \ {k} : arrival'[j] = arrival[j]
  BY <1>1 DEF TypeOK, Receive
<1>7. /\ lastSeen' \in [Pairs -> [Venues -> 0..MaxSecond]]
      /\ lastSeen'[k[1]][v] = Second(k)
      /\ \A p \in Pairs, u \in Venues : p # k[1] \/ u # v => lastSeen'[p][u] = lastSeen[p][u]
  <2>1. Second(k) \in 0..MaxSecond
    BY <1>2, PairAggregatorAssumption
  <2> QED
    BY <1>1, <1>2, <2>1 DEF TypeOK, Receive
<1>8. /\ index \subseteq index' /\ index' \subseteq Keys
      /\ buckets[k] = {} => k \in index'
  BY <1>1 DEF TypeOK, Receive, Indexed
<1>9. \A j \in Keys : Late(j)' <=> Late(j)
  BY <1>3 DEF Late, Second
<1> HIDE DEF full
<1>10. TypeOK'
  BY <1>1, <1>3, <1>4, <1>5, <1>6, <1>7, <1>8 DEF TypeOK
<1>11. WorkerInv'
  BY <1>1, <1>3 DEF WorkerInv
<1>12. Tracked'
  <2> SUFFICES ASSUME NEW j \in Keys, buckets'[j] # {}
               PROVE  j \in index' \/ j \in (flushQueue \cap flushPending)' \/ j \in worker'.keys
    BY DEF Tracked
  <2>1. CASE j = k
    BY <1>1, <1>3, <1>4, <1>5, <1>8, <2>1 DEF Tracked
  <2>2. CASE j # k
    BY <1>1, <1>3, <1>4, <1>5, <1>8, <2>2 DEF Tracked
  <2> QED
    BY <2>1, <2>2
<1>13. FlushedLate'
  <2>1. flushQueue \subseteq Keys /\ worker.keys \subseteq Keys
    BY <1>1 DEF TypeOK
  <2> QED
    BY <1>1, <1>3, <1>9, <2>1 DEF FlushedLate
<1>14. SeenInv'
  <2> SUFFICES ASSUME NEW j \in Keys, NEW u \in Venues, arrival'[j][u] # "none"
               PROVE  Second(j) <= lastSeen'[j[1]][u]
    BY DEF SeenInv, Second
  <2>1. /\ j[1] \in Pairs /\ Second(j) \in Int
        /\ lastSeen[j[1]][u] \in Int /\ lastSeen[k[1]][v] \in Int
    BY <1>1, <1>2, KeyParts DEF TypeOK
  <2>2. CASE j = k /\ u = v
    BY <1>2, <1>7, <2>2
  <2>3. CASE j # k \/ u # v
    <3>1. Second(j) <= lastSeen[j[1]][u]
      BY <1>1, <1>6, <2>3 DEF SeenInv
    <3>2. Second(k) > lastSeen[k[1]][v]
      BY DEF Receive
    <3> QED
      BY <1>2, <1>7, <2>1, <3>1, <3>2
  <2> QED
    BY <2>2, <2>3
<1>15. OnePlace(k)' /\ SplitLate(k)'
  <2>1. Out(k)' = Out(k) /\ bars'[k] = bars[k]
    BY <1>3 DEF Out, Join!Published
  <2>2. v \notin buckets[k] /\ v \notin Out(k) /\ building # k
    BY <1>1, <1>3 DEF OnePlace
  <2>3. full => Out(k) = {} /\ bars[k] = <<>>
    <3>1. full => \A u \in Venues \ {v} : u \in buckets[k]
      BY DEF full
    <3>2. Out(k) \subseteq Venues
      BY <1>1 DEF TypeOK, Out, Join!Published
    <3> QED
      BY <1>1, <2>2, <3>1, <3>2 DEF OnePlace
  <2>4. bars[k] # <<>> => Late(k)
    <3>1. bars[k] # <<>> => Out(k) # Venues
      BY <2>2
    <3> QED
      BY <1>1, <3>1 DEF SplitLate
  <2>5. OnePlace(k)'
    BY <1>1, <1>3, <1>4, <1>5, <1>6, <2>1, <2>2, <2>3 DEF OnePlace, full
  <2>6. SplitLate(k)'
    <3>1. Len(bars[k]) > 1 => bars[k] # <<>>
      OBVIOUS
    <3> QED
      BY <1>1, <1>6, <1>9, <2>1, <2>4, <3>1 DEF SplitLate
  <2> QED
    BY <2>5, <2>6
<1>16. ASSUME NEW j \in Keys, j # k PROVE OnePlace(j)' /\ SplitLate(j)'
  BY <1>1, <1>3, <1>4, <1>5, <1>6, <1>9, <1>16, Untouched
<1> QED
  BY <1>10, <1>11, <1>12, <1>13, <1>14, <1>15, <1>16 DEF IInv

(* The full bucket becomes the first bar of its key, with both halves. *)
LEMMA BuildReadyInv == IInv /\ BuildReady => IInv'
<1> SUFFICES ASSUME IInv, BuildReady PROVE IInv'
  OBVIOUS
<1>1. /\ TypeOK /\ WorkerInv /\ Tracked /\ FlushedLate /\ SeenInv
      /\ \A j \in Keys : OnePlace(j) /\ SplitLate(j)
  BY DEF IInv
<1>a. PICK k \in Keys : building = k
  BY <1>1 DEF BuildReady, TypeOK
<1>2. /\ building' = None /\ None \notin Keys
      /\ bars' = [bars EXCEPT ![k] = Append(@, Venues)]
      /\ UNCHANGED <<arrival, lastSeen, buckets, index, flushQueue, flushPending,
                     tick, opiReady, permit, worker>>
  BY <1>a, PairAggregatorAssumption DEF BuildReady, Keys
<1>3. /\ bars' \in [Keys -> Seq(SUBSET Venues)]
      /\ \A j \in Keys \ {k} : bars'[j] = bars[j]
      /\ Out(k)' = Out(k) \cup Venues
      /\ Len(bars'[k]) = Len(bars[k]) + 1
      /\ bars'[k] # <<>>
  BY <1>1, <1>2, BarAdded DEF TypeOK
<1>4. \A j \in Keys : Late(j)' <=> Late(j)
  BY <1>2 DEF Late, Second
<1>5. TypeOK'
  BY <1>1, <1>2, <1>3 DEF TypeOK
<1>6. WorkerInv' /\ Tracked' /\ SeenInv'
  BY <1>1, <1>2 DEF WorkerInv, Tracked, SeenInv, Second
<1>7. FlushedLate'
  <2>1. flushQueue \subseteq Keys /\ worker.keys \subseteq Keys
    BY <1>1 DEF TypeOK
  <2> QED
    BY <1>1, <1>2, <1>4, <2>1 DEF FlushedLate
<1>8. OnePlace(k)' /\ SplitLate(k)'
  <2>1. buckets[k] = {} /\ Out(k) = {} /\ bars[k] = <<>>
    BY <1>1, <1>a DEF OnePlace
  <2>2. Out(k)' = Venues /\ Len(bars'[k]) = 1
    BY <1>3, <2>1
  <2>3. buckets'[k] = {} /\ building' # k /\ \A v \in Venues : arrival'[k][v] # "none"
    BY <1>1, <1>a, <1>2, <2>1 DEF OnePlace
  <2>4. OnePlace(k)'
    BY <1>3, <2>2, <2>3 DEF OnePlace, Venues
  <2>5. SplitLate(k)'
    BY <2>2, <2>3 DEF SplitLate
  <2> QED
    BY <2>4, <2>5
<1>9. ASSUME NEW j \in Keys, j # k PROVE OnePlace(j)' /\ SplitLate(j)'
  BY <1>1, <1>a, <1>2, <1>3, <1>4, <1>9, Untouched
<1> QED
  BY <1>5, <1>6, <1>7, <1>8, <1>9 DEF IInv

(* The extra buffer only makes a bucket wait longer. *)
LEMMA FlushedIsLate ==
  ASSUME TypeOK, NEW k \in Keys, NEW t \in Nat, ShouldFlush(k, t)
  PROVE  t > 0 /\ Second(k) < t - LateBuffer
<1>1. k[1] \in Pairs /\ Second(k) \in Int
  BY KeyParts
<1>2. LateBuffer \in Nat /\ ExtraCap \in Nat
  BY PairAggregatorAssumption
<1>3. ASSUME NEW v \in Venues PROVE AheadOf(k, v) \in Nat
  <2>1. lastSeen[k[1]][v] \in Int
    BY <1>1, PairAggregatorAssumption DEF TypeOK
  <2> QED
    BY <1>1, <1>2, <2>1 DEF AheadOf
<1>4. ExtraBuffer(k) \in Nat
  <2>1. AheadOf(k, "pm") \in Nat /\ AheadOf(k, "opi") \in Nat
    BY <1>3 DEF Venues
  <2> QED
    BY <2>1 DEF ExtraBuffer
<1> QED
  BY <1>1, <1>2, <1>4 DEF ShouldFlush, Cutoff

(* A key leaves the index for the flush queue, or because it is tracked there
   already or has no bucket. *)
LEMMA TickInv ==
  ASSUME IInv, NEW t \in 1..MaxTick, Tick(t)
  PROVE  IInv'
<1>1. /\ TypeOK /\ WorkerInv /\ Tracked /\ FlushedLate /\ SeenInv
      /\ \A j \in Keys : OnePlace(j) /\ SplitLate(j)
  BY DEF IInv
<1>2. /\ t \in Nat /\ t \in 0..MaxTick /\ tick' = t /\ t >= tick /\ tick \in Nat
      /\ UNCHANGED <<arrival, lastSeen, buckets, opiReady, building, worker, bars>>
  BY <1>1, PairAggregatorAssumption DEF Tick, TypeOK
<1>3. PICK S \in Scans(t) :
        LET Q == {k \in S : Live(k) /\ ShouldFlush(k, t)}
        IN /\ index' = Scanned(S, Q)
           /\ flushPending' = flushPending \cup Q
           /\ flushQueue' = flushQueue \cup Q
           /\ permit' = Notified(Q)
  BY DEF Tick
<1> DEFINE Q == {k \in S : Live(k) /\ ShouldFlush(k, t)}
<1>4. S \subseteq index /\ S \subseteq Keys
  BY <1>1 DEF Scans, Due, TypeOK
<1>5. \A j \in Keys : Late(j) => Late(j)'
  BY <1>2, LateStays
<1>6. \A j \in Q : Late(j)'
  BY <1>1, <1>2, <1>4, FlushedIsLate DEF Late, Second
<1>7. /\ Q \subseteq S
      /\ index' = index \ {k \in S : k \in Q \/ ~Live(k)}
      /\ flushPending' = flushPending \cup Q /\ flushQueue' = flushQueue \cup Q
      /\ permit' \in BOOLEAN
  BY <1>1, <1>3 DEF Scanned, Notified, TypeOK
<1> HIDE DEF Q
<1>8. TypeOK'
  BY <1>1, <1>2, <1>4, <1>7 DEF TypeOK
<1>9. WorkerInv' /\ SeenInv'
  BY <1>1, <1>2 DEF WorkerInv, SeenInv, Second
<1>10. Tracked'
  <2> SUFFICES ASSUME NEW j \in Keys, buckets[j] # {}
               PROVE  j \in index' \/ j \in (flushQueue \cap flushPending)' \/ j \in worker.keys
    BY <1>2 DEF Tracked
  <2>1. flushPending \subseteq flushQueue
    BY <1>1 DEF TypeOK
  <2>2. ~Live(j) => j \in flushPending
    BY DEF Live
  <2> QED
    BY <1>1, <1>7, <2>1, <2>2 DEF Tracked
<1>11. FlushedLate'
  <2>1. flushQueue \subseteq Keys /\ worker.keys \subseteq Keys
    BY <1>1 DEF TypeOK
  <2> QED
    BY <1>1, <1>2, <1>5, <1>6, <1>7, <2>1 DEF FlushedLate
<1>12. ASSUME NEW j \in Keys PROVE OnePlace(j)' /\ SplitLate(j)'
  BY <1>1, <1>2, <1>5, <1>12, Untouched
<1> QED
  BY <1>8, <1>9, <1>10, <1>11, <1>12 DEF IInv

(* The end of the Opinion bootstrap preserves the invariant. *)
LEMMA BootstrapInv == IInv /\ BootstrapDone => IInv'
<1> SUFFICES ASSUME IInv, BootstrapDone PROVE IInv'
  OBVIOUS
<1>1. /\ opiReady' = TRUE
      /\ UNCHANGED <<arrival, lastSeen, buckets, index, flushQueue, flushPending,
                     tick, building, permit, worker, bars>>
  BY DEF BootstrapDone
<1>2. TypeOK' /\ WorkerInv' /\ Tracked' /\ SeenInv' /\ FlushedLate'
  BY <1>1 DEF IInv, TypeOK, WorkerInv, Tracked, SeenInv, Second, FlushedLate, Late
<1>3. ASSUME NEW j \in Keys PROVE OnePlace(j)' /\ SplitLate(j)'
  <2>1. Late(j) => Late(j)'
    BY <1>1 DEF Late, Second
  <2> QED
    BY <1>1, <1>3, <2>1, Untouched DEF IInv
<1> QED
  BY <1>2, <1>3 DEF IInv
-----------------------------------------------------------------------------
(* The flush worker. *)

(* A key that is drained goes from the flush queue to the worker. *)
LEMMA DrainInv == IInv /\ Drain => IInv'
<1> SUFFICES ASSUME IInv, Drain PROVE IInv'
  OBVIOUS
<1>1. PICK S \in SUBSET flushQueue :
        LET ks == S \cap flushPending
        IN /\ ks = {} => S = flushQueue
           /\ flushQueue' = flushQueue \ S
           /\ flushPending' = Unmarked(ks)
           /\ worker' = IF ks = {} THEN Waiting
                        ELSE [at |-> "check", keys |-> ks, key |-> None]
  BY DEF Drain
<1> DEFINE ks == S \cap flushPending
<1>2. /\ flushQueue' = flushQueue \ S
      /\ flushPending' = flushPending \ ks
      /\ worker'.keys = ks /\ worker'.at \in {"wait", "check"}
      /\ worker'.at = "wait" => ks = {}
      /\ worker' \in [at : {"wait", "drain", "check", "build"}, keys : SUBSET ks,
                      key : Keys \cup {None}]
  BY <1>1 DEF Unmarked, Waiting
<1>3. /\ TypeOK /\ WorkerInv /\ Tracked /\ FlushedLate /\ SeenInv
      /\ UNCHANGED <<arrival, lastSeen, buckets, index, tick, opiReady, building,
                     permit, bars>>
  BY DEF IInv, Drain
<1>4. worker.keys = {}
  BY <1>3 DEF Drain, WorkerInv
<1>5. TypeOK'
  BY <1>2, <1>3 DEF TypeOK
<1>6. WorkerInv'
  BY <1>2 DEF WorkerInv
<1>7. Tracked'
  BY <1>2, <1>3, <1>4 DEF Tracked
<1>8. FlushedLate' /\ SeenInv'
  BY <1>2, <1>3 DEF FlushedLate, SeenInv, Late, Second
<1>9. ASSUME NEW j \in Keys PROVE OnePlace(j)' /\ SplitLate(j)'
  <2>1. Late(j) => Late(j)'
    BY <1>3 DEF Late, Second
  <2> QED
    BY <1>3, <1>9, <2>1, Untouched DEF IInv
<1> QED
  BY <1>5, <1>6, <1>7, <1>8, <1>9 DEF IInv

(* The steps of the worker that only concern its own place. *)
LEMMA WorkerMoves ==
  ASSUME IInv, Wake \/ (\E k \in Keys : Check(k)) \/ Rest
  PROVE  IInv'
<1>1. /\ TypeOK /\ WorkerInv /\ Tracked /\ FlushedLate /\ SeenInv
      /\ UNCHANGED <<arrival, lastSeen, buckets, index, flushQueue, flushPending,
                     tick, opiReady, building, bars>>
  BY DEF IInv, Wake, Check, Rest
<1>2. /\ worker' \in [at : {"wait", "drain", "check", "build"}, keys : SUBSET Keys,
                      key : Keys \cup {None}]
      /\ permit' \in BOOLEAN
      /\ worker'.keys \subseteq worker.keys
      /\ \A k \in worker.keys \ worker'.keys : buckets[k] = {}
      /\ WorkerInv'
  <2>1. CASE Wake
    BY <1>1, <2>1 DEF Wake, TypeOK, WorkerInv
  <2>2. ASSUME NEW k \in Keys, Check(k)
        PROVE  <1>2!1 /\ <1>2!2 /\ <1>2!3 /\ <1>2!4 /\ <1>2!5
    <3>1. /\ worker.at = "check" /\ k \in worker.keys /\ permit' = permit
          /\ worker' = IF buckets[k] = {} THEN [worker EXCEPT !.keys = @ \ {k}]
                       ELSE [worker EXCEPT !.at = "build", !.key = k]
      BY <2>2 DEF Check
    <3> QED
      BY <1>1, <3>1 DEF TypeOK, WorkerInv
  <2>3. CASE Rest
    BY <1>1, <2>3 DEF Rest, TypeOK, WorkerInv
  <2> QED
    BY <2>1, <2>2, <2>3
<1>3. TypeOK'
  BY <1>1, <1>2 DEF TypeOK
<1>4. Tracked'
  BY <1>1, <1>2 DEF Tracked
<1>5. FlushedLate' /\ SeenInv'
  BY <1>1, <1>2 DEF FlushedLate, SeenInv, Late, Second
<1>6. ASSUME NEW j \in Keys PROVE OnePlace(j)' /\ SplitLate(j)'
  <2>1. Late(j) => Late(j)'
    BY <1>1 DEF Late, Second
  <2> QED
    BY <1>1, <1>6, <2>1, Untouched DEF IInv
<1> QED
  BY <1>2, <1>3, <1>4, <1>5, <1>6 DEF IInv

(* The bucket becomes a bar, whatever became of it since the worker looked: it may
   hold halves that came in between, and then it is one that was late already. *)
LEMMA BuildFlushedInv == IInv /\ BuildFlushed => IInv'
<1> SUFFICES ASSUME IInv, BuildFlushed PROVE IInv'
  OBVIOUS
<1>1. /\ TypeOK /\ WorkerInv /\ Tracked /\ FlushedLate /\ SeenInv
      /\ \A j \in Keys : OnePlace(j) /\ SplitLate(j)
  BY DEF IInv
<1>2. PICK k \in Keys : worker.key = k /\ k \in worker.keys
  BY <1>1 DEF BuildFlushed, WorkerInv, TypeOK
<1>3. /\ worker' = [at |-> "check", keys |-> worker.keys \ {k}, key |-> None]
      /\ IF buckets[k] = {} THEN UNCHANGED <<bars, buckets>>
         ELSE /\ bars' = [bars EXCEPT ![k] = Append(@, buckets[k])]
              /\ buckets' = [buckets EXCEPT ![k] = {}]
      /\ UNCHANGED <<arrival, lastSeen, index, flushQueue, flushPending, tick,
                     opiReady, building, permit>>
  BY <1>2 DEF BuildFlushed
<1>4. /\ worker' \in [at : {"wait", "drain", "check", "build"}, keys : SUBSET Keys,
                      key : Keys \cup {None}]
      /\ worker'.keys = worker.keys \ {k} /\ WorkerInv'
  BY <1>1, <1>3 DEF TypeOK, WorkerInv
<1>5. \A j \in Keys : Late(j)' <=> Late(j)
  BY <1>3 DEF Late, Second
<1>6. FlushedLate' /\ SeenInv'
  <2>1. flushQueue \subseteq Keys /\ worker.keys \subseteq Keys
    BY <1>1 DEF TypeOK
  <2> QED
    BY <1>1, <1>3, <1>4, <1>5, <2>1 DEF FlushedLate, SeenInv, Second
<1>7. CASE buckets[k] = {}
  <2>1. UNCHANGED <<bars, buckets>>
    BY <1>3, <1>7
  <2>2. TypeOK' /\ Tracked'
    BY <1>1, <1>3, <1>4, <1>7, <2>1 DEF TypeOK, Tracked
  <2>3. ASSUME NEW j \in Keys PROVE OnePlace(j)' /\ SplitLate(j)'
    BY <1>1, <1>3, <1>5, <2>1, <2>3, Untouched
  <2> QED
    BY <1>4, <1>6, <2>2, <2>3 DEF IInv
<1>8. CASE buckets[k] # {}
  <2>1. /\ bars' = [bars EXCEPT ![k] = Append(@, buckets[k])]
        /\ buckets' \in [Keys -> SUBSET Venues]
        /\ buckets'[k] = {} /\ \A j \in Keys \ {k} : buckets'[j] = buckets[j]
    BY <1>1, <1>3, <1>8 DEF TypeOK
  <2>2. /\ bars' \in [Keys -> Seq(SUBSET Venues)]
        /\ \A j \in Keys \ {k} : bars'[j] = bars[j]
        /\ Out(k)' = Out(k) \cup buckets[k]
        /\ Len(bars'[k]) = Len(bars[k]) + 1
        /\ bars'[k] # <<>>
    BY <1>1, <2>1, BarAdded DEF TypeOK
  <2>3. TypeOK' /\ Tracked'
    BY <1>1, <1>3, <1>4, <2>1, <2>2 DEF TypeOK, Tracked
  <2>4. OnePlace(k)'
    BY <1>1, <1>3, <1>8, <2>1, <2>2 DEF OnePlace
  <2>5. SplitLate(k)'
    <3>1. Late(k)'
      BY <1>1, <1>2, <1>5 DEF FlushedLate
    <3>2. Len(bars'[k]) > 1 => bars[k] # <<>>
      BY <2>2
    <3> QED
      BY <1>1, <1>3, <1>8, <2>1, <3>1, <3>2 DEF SplitLate
  <2>6. ASSUME NEW j \in Keys, j # k PROVE OnePlace(j)' /\ SplitLate(j)'
    BY <1>1, <1>3, <1>5, <2>1, <2>2, <2>6, Untouched
  <2> QED
    BY <1>4, <1>6, <2>3, <2>4, <2>5, <2>6 DEF IInv
<1> QED
  BY <1>7, <1>8

(* Every step of the aggregator, its queue and its workers preserves the invariant. *)
LEMMA NextInv == IInv /\ [Next]_vars => IInv'
<1> SUFFICES ASSUME IInv, [Next]_vars PROVE IInv'
  OBVIOUS
<1>1. ASSUME NEW k \in Keys, NEW v \in Venues, Receive(k, v) PROVE IInv'
  BY <1>1, ReceiveInv
<1>2. CASE BuildReady
  BY <1>2, BuildReadyInv
<1>3. ASSUME NEW t \in 1..MaxTick, Tick(t) PROVE IInv'
  BY <1>3, TickInv
<1>4. CASE BootstrapDone
  BY <1>4, BootstrapInv
<1>5. CASE Work
  BY <1>5, DrainInv, WorkerMoves, BuildFlushedInv DEF Work
<1>6. CASE UNCHANGED vars
  <2>1. TypeOK' /\ WorkerInv' /\ Tracked' /\ SeenInv' /\ FlushedLate'
    BY <1>6 DEF vars, IInv, TypeOK, WorkerInv, Tracked, SeenInv, Second, FlushedLate, Late
  <2>2. ASSUME NEW j \in Keys PROVE OnePlace(j)' /\ SplitLate(j)'
    <3>1. Late(j) => Late(j)'
      BY <1>6 DEF vars, Late, Second
    <3> QED
      BY <1>6, <2>2, <3>1, Untouched DEF vars, IInv
  <2> QED
    BY <2>1, <2>2 DEF IInv
<1> QED
  BY <1>1, <1>2, <1>3, <1>4, <1>5, <1>6 DEF Next

(* The invariant holds of every behaviour: of what the aggregator's task and the
   flush worker do to the buckets between their locks. *)
THEOREM JoinInvariance == Spec => []IInv
<1>1. Init => IInv
  BY InitInv
<1>2. IInv /\ [Next]_vars => IInv'
  BY NextInv
<1> QED
  BY <1>1, <1>2, PTL DEF Spec

(* Types; a key marked as pending is in the flush queue. *)
THEOREM JoinTypes == Spec => []TypeOK
<1>1. IInv => TypeOK
  BY DEF IInv
<1> QED
  BY <1>1, JoinInvariance, PTL

(* flush_stale, drain_flush_queue and the TokenBar arm never leave a bucket that
   no list leads to. *)
THEOREM BucketsTracked == Spec => []Tracked
<1>1. IInv => Tracked
  BY DEF IInv
<1> QED
  BY <1>1, JoinInvariance, PTL

(* A second has two pair bars only if one of its halves came after the late buffer. *)
THEOREM OnTimeTogether == Spec => []SplitOnlyIfLate
<1>1. IInv => SplitOnlyIfLate
  BY DEF IInv, SplitLate, SplitOnlyIfLate
<1> QED
  BY <1>1, JoinInvariance, PTL
-----------------------------------------------------------------------------
(* The safety part of JoinsHalves. *)

LEMMA JoinInit == Init => Join!Init
<1> SUFFICES ASSUME Init PROVE Join!Init
  OBVIOUS
<1>1. \A h \in Keys \X Venues : arrival[h[1]][h[2]] = "none"
  BY DEF Init
<1> QED
  BY <1>1 DEF Init, Join!Init

(* A step that neither receives nor publishes. *)
LEMMA JoinStutter ==
  ASSUME arrival' = arrival, bars' = bars
  PROVE  UNCHANGED Join!jvars
BY DEF Join!jvars

(* What is published is published for the first time. *)
LEMMA JoinPublish ==
  ASSUME IInv, NEW k \in Keys, NEW S \in SUBSET Venues, S # {},
         arrival' = arrival, bars' = [bars EXCEPT ![k] = Append(@, S)],
         \A v \in S : arrival[k][v] # "none" /\ v \notin Out(k)
  PROVE  Join!Next
<1>1. \A v \in S : /\ <<k, v>> \in {h \in Keys \X Venues : arrival[h[1]][h[2]] # "none"}
                  /\ v \notin Join!Published(bars, k)
  BY DEF Out
<1>2. Join!Publish(k, S)
  BY <1>1 DEF Join!Publish
<1> QED
  BY <1>2 DEF Join!Next

(* Every step of the aggregator is a step of the join it promises, or leaves the
   join as it was. *)
LEMMA JoinStep == IInv /\ [Next]_vars => [Join!Next]_(Join!jvars)
<1> SUFFICES ASSUME IInv, [Next]_vars PROVE Join!Next \/ UNCHANGED Join!jvars
  OBVIOUS
<1>1. ASSUME NEW k \in Keys, NEW v \in Venues, Receive(k, v)
      PROVE  Join!Next
  <2> DEFINE came == {h \in Keys \X Venues : arrival[h[1]][h[2]] # "none"}
  <2>1. /\ arrival \in [Keys -> [Venues -> {"none", "onTime", "late"}]]
        /\ arrival[k][v] = "none" /\ bars' = bars
    <3>1. lastSeen[k[1]][v] \in Int /\ Second(k) \in Int
      BY KeyParts DEF IInv, TypeOK
    <3> QED
      BY <1>1, <3>1 DEF IInv, TypeOK, SeenInv, Receive
  <2>2. came' = came \cup {<<k, v>>}
    <3>1. \A j \in Keys, u \in Venues :
            arrival'[j][u] # "none" <=> (arrival[j][u] # "none" \/ (j = k /\ u = v))
      BY <1>1, <2>1 DEF Receive
    <3> QED
      BY <3>1
  <2>3. Join!Arrive(<<k, v>>) /\ <<k, v>> \in Join!Halves
    BY <2>1, <2>2 DEF Join!Arrive, Join!Halves
  <2> QED
    BY <2>3 DEF Join!Next
<1>2. CASE BuildReady
  <2>1. PICK k \in Keys : building = k
    BY <1>2 DEF IInv, TypeOK, BuildReady
  <2>2. \A v \in Venues : arrival[k][v] # "none" /\ v \notin Out(k)
    BY <2>1 DEF IInv, OnePlace
  <2>3. arrival' = arrival /\ bars' = [bars EXCEPT ![k] = Append(@, Venues)]
    BY <1>2, <2>1 DEF BuildReady
  <2>4. Venues # {} /\ Venues \in SUBSET Venues
    BY DEF Venues
  <2> QED
    BY <2>2, <2>3, <2>4, JoinPublish
<1>3. CASE BuildFlushed
  <2>1. PICK k \in Keys : worker.key = k
    BY <1>3 DEF IInv, TypeOK, WorkerInv, BuildFlushed
  <2>2. CASE buckets[k] = {}
    BY <1>3, <2>1, <2>2, JoinStutter DEF BuildFlushed
  <2>3. CASE buckets[k] # {}
    <3>1. buckets[k] \in SUBSET Venues
      BY DEF IInv, TypeOK
    <3>2. \A v \in buckets[k] : arrival[k][v] # "none" /\ v \notin Out(k)
      BY <3>1 DEF IInv, OnePlace
    <3>3. arrival' = arrival /\ bars' = [bars EXCEPT ![k] = Append(@, buckets[k])]
      BY <1>3, <2>1, <2>3 DEF BuildFlushed
    <3> QED
      BY <2>3, <3>1, <3>2, <3>3, JoinPublish
  <2> QED
    BY <2>2, <2>3
<1>4. ASSUME \/ \E t \in 1..MaxTick : Tick(t)
             \/ BootstrapDone \/ Wake \/ Drain \/ (\E k \in Keys : Check(k)) \/ Rest
             \/ UNCHANGED vars
      PROVE  UNCHANGED Join!jvars
  BY <1>4, JoinStutter DEF Tick, BootstrapDone, Wake, Drain, Check, Rest, vars
<1> QED
  BY <1>1, <1>2, <1>3, <1>4 DEF Next, Work

(* Every half is published in exactly one pair bar: every step of the aggregator's
   task and of the flush worker is a step of PairJoin or changes nothing there. *)
THEOREM ImplementsJoin == Spec => Join!Init /\ [][Join!Next]_(Join!jvars)
<1>1. Init => Join!Init
  BY JoinInit
<1>2. IInv /\ [Next]_vars => [Join!Next]_(Join!jvars)
  BY JoinStep
<1> QED
  BY <1>1, <1>2, JoinInvariance, PTL DEF Spec
==============================================================================
