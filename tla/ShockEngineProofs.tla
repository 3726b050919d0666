-------------------------- MODULE ShockEngineProofs --------------------------
(***************************************************************************)
(* Safety of ShockEngine, for every set of types and pairs, cool-down,     *)
(* window, length of the history and course of the metrics.                *)
(***************************************************************************)
EXTENDS ShockEngine, TLAPS, FiniteSetTheorems, FunctionTheorems, WellFoundedInduction

(* A start and a trigger on the metrics m, as in StartTraced ... *)
Point(m, u) == u \in Seconds /\ m[u] # None
Traced(m, start, trigger) ==
  start < trigger =>
    /\ Point(m, start)
    /\ \A u \in Seconds :
         (/\ Point(m, u) /\ u < start
          /\ \A v \in Seconds : u < v /\ v < start => ~Point(m, v)
          /\ Cardinality({v \in Seconds : Point(m, v) /\ u < v /\ v <= trigger}) < HistoryMax)
         => \A v \in Seconds : Point(m, v) /\ start <= v /\ v <= trigger => m[u] < m[v]

(* ... and a peak, as in PeakOfWindow. *)
Shown(m, trigger) ==
  {u \in Seconds : trigger <= u /\ u <= trigger + PeakWindow /\ m[u] # None}
PeakOf(m, trigger, peak, magnitude) ==
  /\ peak \in Shown(m, trigger) /\ m[peak] = magnitude
  /\ \A u \in Shown(m, trigger) :
       m[u] <= magnitude /\ (m[u] = magnitude => peak <= u)

(* A shock of type ty that tells of its episode. *)
Told(m, ty, k) ==
  /\ Traced(m, k.start, k.trigger)
  /\ ty \in Measured => PeakOf(m, k.trigger, k.peak, k.magnitude)

(* Nothing is dated ahead of the last bar, a final row has its window behind it, and
   the ids are counted from 1. *)
Dated ==
  /\ nextId > 0
  /\ \A ty \in Types, u \in Seconds : u > second => metrics[ty][u] = None
  /\ \A i \in DOMAIN rows :
       LET r == rows[i]
       IN /\ r.trigger <= second
          /\ last[r.type] # None /\ r.trigger <= last[r.type]
          /\ r.final => r.trigger + PeakWindow <= second
  /\ \A ty \in Types : pending[ty] # None => pending[ty].trigger <= second

(* The shocks that were written, and those that are watched. *)
Episodes ==
  /\ \A i \in DOMAIN rows :
       LET r == rows[i]
       IN /\ Traced(metrics[r.type], r.start, r.trigger)
          /\ r.final => Told(metrics[r.type], r.type, r)
  /\ \A ty \in Types : pending[ty] # None => Told(metrics[ty], ty, pending[ty])

IInv == TypeOK /\ Dated /\ IdsOfOpenRows /\ OpenOrSuperseded /\ Episodes
-----------------------------------------------------------------------------
(* Least numbers, ranks, and the numbering of pairs and types. *)

LEMMA LeastNat ==
  ASSUME NEW B \in SUBSET Nat, B # {}
  PROVE  \E m \in B : \A k \in B : m <= k
<1>1. PICK m \in B : \A k \in B : ~(<<k, m>> \in OpToRel(<, Nat))
  BY NatLessThanWellFounded, WFMin
<1>2. ASSUME NEW k \in B PROVE m <= k
  <2>1. ~(k < m)
    BY <1>1 DEF OpToRel
  <2> QED
    BY <2>1
<1> QED
  BY <1>2

Rank(S, x) == Cardinality({y \in S : y < x})

(* There are fewer members below one of them than members in all. *)
LEMMA RankBelow ==
  ASSUME NEW S \in SUBSET Nat, IsFiniteSet(S), NEW x \in S
  PROVE  Rank(S, x) \in Nat /\ Rank(S, x) < Cardinality(S)
<1> DEFINE T == {y \in S : y < x}
<1>1. IsFiniteSet(S \ {x}) /\ Cardinality(S \ {x}) = Cardinality(S) - 1
  BY FS_RemoveElement
<1>2. T \in SUBSET (S \ {x})
  OBVIOUS
<1>3. IsFiniteSet(T) /\ Cardinality(T) <= Cardinality(S \ {x})
  BY <1>1, <1>2, FS_Subset
<1>4. Cardinality(T) \in Nat /\ Cardinality(S) \in Nat
  BY <1>3, FS_CardinalityType
<1> QED
  BY <1>1, <1>3, <1>4 DEF Rank

(* The rank follows the order of the members. *)
LEMMA RankGrows ==
  ASSUME NEW S \in SUBSET Nat, IsFiniteSet(S), NEW x \in S, NEW y \in S, x < y
  PROVE  Rank(S, x) < Rank(S, y)
<1> DEFINE T == {z \in S : z < x}
           U == {z \in S : z < y}
<1>1. IsFiniteSet(T) /\ IsFiniteSet(U)
  BY FS_Subset
<1>2. x \notin T /\ (T \cup {x}) \in SUBSET U
  <2>1. x \in Nat /\ y \in Nat /\ \A z \in S : z \in Nat
    OBVIOUS
  <2>2. \A z \in S : z < x => z < y
    BY <2>1
  <2>3. ~(x < x)
    BY <2>1
  <2> QED
    BY <2>2, <2>3
<1>3. Cardinality(T \cup {x}) = Cardinality(T) + 1
  BY <1>1, <1>2, FS_AddElement
<1>4. Cardinality(T \cup {x}) <= Cardinality(U)
  BY <1>1, <1>2, FS_Subset
<1>5. Cardinality(T) \in Nat /\ Cardinality(U) \in Nat
  BY <1>1, FS_CardinalityType
<1> QED
  BY <1>3, <1>4, <1>5 DEF Rank

(* Two members do not share a rank. *)
LEMMA RankInjective ==
  ASSUME NEW S \in SUBSET Nat, IsFiniteSet(S), NEW x \in S, NEW y \in S,
         Rank(S, x) = Rank(S, y)
  PROVE  x = y
<1>1. Rank(S, x) \in Nat /\ Rank(S, y) \in Nat
  BY RankBelow
<1>2. ~(x < y) /\ ~(y < x)
  BY <1>1, RankGrows
<1> QED
  BY <1>2

(* A group that comes before another ends before that one begins. *)
LEMMA MoreGroups ==
  ASSUME NEW a \in Nat, NEW c \in Nat, NEW k \in Nat, a < c
  PROVE  a * k + k <= c * k
<1>1. PICK d \in Nat : c = a + 1 + d
  <2>1. c - a - 1 \in Nat /\ c = a + 1 + (c - a - 1)
    OBVIOUS
  <2> QED
    BY <2>1
<1>2. c * k = a * k + k + d * k
  BY <1>1
<1>3. d * k \in Nat /\ a * k \in Nat
  OBVIOUS
<1> QED
  BY <1>2, <1>3

(* A quotient and a remainder below k determine each other's number. *)
LEMMA Digits ==
  ASSUME NEW a \in Nat, NEW c \in Nat, NEW k \in Nat, NEW b \in Nat, NEW d \in Nat,
         b < k, d < k, a * k + b = c * k + d
  PROVE  a = c /\ b = d
<1>1. a * k \in Nat /\ c * k \in Nat
  OBVIOUS
<1>2. ~(a < c)
  BY <1>1, MoreGroups
<1>3. ~(c < a)
  BY <1>1, MoreGroups
<1> QED
  BY <1>1, <1>2, <1>3

(* The ids of the pairs' new shocks are the next ones, each used once. *)
Numbered(F) ==
  [x \in PairIds \X F |-> NewId(x[1], x[2], F)]

(* The ids handed out by a bar are those from nextId up, as many as it inserts
   rows. *)
LEMMA NewIdRange ==
  ASSUME nextId \in Nat, NEW F \in SUBSET Types, NEW p \in PairIds, NEW ty \in F
  PROVE  /\ NewId(p, ty, F) \in Nat /\ nextId <= NewId(p, ty, F)
         /\ NewId(p, ty, F) < nextId + Cardinality(PairIds) * Cardinality(F)
<1>1. PairIds \in SUBSET Nat /\ IsFiniteSet(PairIds) /\ F \in SUBSET Nat /\ IsFiniteSet(F)
  BY ShockEngineAssumption, FS_Subset
<1>2. PICK a \in Nat : a = Rank(PairIds, p)
  BY <1>1, RankBelow
<1>3. PICK b \in Nat : b = Rank(F, ty)
  BY <1>1, RankBelow
<1>4. PICK n \in Nat : n = Cardinality(PairIds)
  BY <1>1, FS_CardinalityType
<1>5. PICK k \in Nat : k = Cardinality(F)
  BY <1>1, FS_CardinalityType
<1>6. a < n /\ b < k
  BY <1>1, <1>2, <1>3, <1>4, <1>5, RankBelow
<1>7. NewId(p, ty, F) = nextId + a * k + b
  BY <1>2, <1>3, <1>5 DEF NewId, Rank
<1>8. a * k + k <= n * k /\ a * k \in Nat
  BY <1>6, MoreGroups
<1> QED
  BY <1>4, <1>5, <1>6, <1>7, <1>8

(* A bar gives no id to two rows. *)
LEMMA NewIdUnique ==
  ASSUME nextId \in Nat, NEW F \in SUBSET Types,
         NEW p \in PairIds, NEW ty \in F, NEW q \in PairIds, NEW tz \in F,
         NewId(p, ty, F) = NewId(q, tz, F)
  PROVE  p = q /\ ty = tz
<1>1. PairIds \in SUBSET Nat /\ IsFiniteSet(PairIds) /\ F \in SUBSET Nat /\ IsFiniteSet(F)
  BY ShockEngineAssumption, FS_Subset
<1>2. PICK a \in Nat, c \in Nat : a = Rank(PairIds, p) /\ c = Rank(PairIds, q)
  BY <1>1, RankBelow
<1>3. PICK b \in Nat, d \in Nat : b = Rank(F, ty) /\ d = Rank(F, tz)
  BY <1>1, RankBelow
<1>4. PICK k \in Nat : k = Cardinality(F)
  BY <1>1, FS_CardinalityType
<1>5. b < k /\ d < k
  BY <1>1, <1>3, <1>4, RankBelow
<1>6. NewId(p, ty, F) = nextId + a * k + b /\ NewId(q, tz, F) = nextId + c * k + d
  BY <1>2, <1>3, <1>4 DEF NewId, Rank
<1>7. PICK m \in Nat, n \in Nat : m = a * k /\ n = c * k
  <2>1. a * k \in Nat /\ c * k \in Nat
    OBVIOUS
  <2> QED
    BY <2>1
<1>8. a * k + b = c * k + d
  <2>1. nextId + m + b = nextId + n + d
    BY <1>6, <1>7
  <2>2. m + b = n + d
    BY <2>1
  <2> QED
    BY <1>7, <2>2
<1>9. a = c /\ b = d
  BY <1>5, <1>8, Digits
<1> QED
  BY <1>1, <1>2, <1>3, <1>9, RankInjective

(* A bar leaves no id unused between those it hands out. *)
LEMMA NewIdOnto ==
  ASSUME nextId \in Nat, NEW F \in SUBSET Types,
         NEW next, next = nextId + Cardinality(PairIds) * Cardinality(F),
         NEW i \in nextId .. (next - 1)
  PROVE  \E p \in PairIds, ty \in F : NewId(p, ty, F) = i
<1> DEFINE S == PairIds \X F
<1>1. IsFiniteSet(PairIds) /\ IsFiniteSet(F)
  BY ShockEngineAssumption, FS_Subset
<1>2. PICK n \in Nat : n = Cardinality(PairIds) * Cardinality(F) /\ n = Cardinality(S)
  BY <1>1, FS_Product, FS_CardinalityType
<1> DEFINE T == nextId .. (nextId + n - 1)
<1>3. IsFiniteSet(S) /\ IsFiniteSet(T) /\ Cardinality(T) = n
  <2>1. PICK m \in Int : m = nextId + n - 1
    OBVIOUS
  <2>2. IsFiniteSet(nextId..m) /\ Cardinality(nextId..m) = IF nextId > m THEN 0 ELSE m - nextId + 1
    BY ONLY nextId \in Nat, m \in Int, FS_Interval
  <2> QED
    BY <1>1, <2>1, <2>2, FS_Product
<1>4. Numbered(F) \in [S -> T]
  <2>1. ASSUME NEW x \in S PROVE NewId(x[1], x[2], F) \in T
    BY <1>2, NewIdRange
  <2> QED
    BY <2>1 DEF Numbered
<1>5. ASSUME NEW x \in S, NEW y \in S, Numbered(F)[x] = Numbered(F)[y]
      PROVE  x = y
  <2>1. NewId(x[1], x[2], F) = NewId(y[1], y[2], F)
    BY <1>5 DEF Numbered
  <2>2. x[1] = y[1] /\ x[2] = y[2]
    BY <2>1, NewIdUnique
  <2> QED
    BY <2>2
<1>6. Numbered(F) \in Injection(S, T)
  BY <1>4, <1>5 DEF Injection, IsInjective
<1>7. Numbered(F) \in Surjection(S, T)
  BY <1>2, <1>3, <1>6, FS_Injection
<1>8. PICK x \in S : Numbered(F)[x] = i
  BY <1>2, <1>7 DEF Surjection
<1> QED
  BY <1>8 DEF Numbered
-----------------------------------------------------------------------------
(* Where a shock starts and where it peaks. *)

LEMMA MinIs ==
  ASSUME NEW B \in SUBSET Nat, B # {}
  PROVE  Min(B) \in B /\ \A k \in B : Min(B) <= k
BY LeastNat DEF Min

(* The seconds are finitely many numbers. *)
LEMMA SecondsFinite ==
  /\ Seconds \in SUBSET Nat /\ IsFiniteSet(Seconds)
  /\ \A S \in SUBSET Seconds : IsFiniteSet(S) /\ Cardinality(S) \in Nat
<1>1. Seconds \in SUBSET Nat /\ IsFiniteSet(Seconds)
  BY ShockEngineAssumption, FS_Interval DEF Seconds
<1> QED
  BY <1>1, FS_Subset, FS_CardinalityType

(* find_start_ts finds a point that reaches the threshold with all after it, and
   the point before it does not, if the history has it. *)
LEMMA FindStartTraced ==
  ASSUME NEW m \in [Seconds -> Values \cup {None}], NEW weak \in Values, NEW s \in Seconds,
         \A u \in Seconds : u > s => m[u] = None
  PROVE  /\ FindStart(m, weak, s) \in Seconds /\ FindStart(m, weak, s) <= s
         /\ Traced(m, FindStart(m, weak, s), s)
<1> DEFINE H == History(m)
           C == {s} \cup {u \in H : \A v \in H : v >= u => m[v] >= weak}
           Later(u) == {v \in Seconds : v > u /\ m[v] # None}
<1>1. C \in SUBSET Seconds /\ C \in SUBSET Nat /\ H \in SUBSET Seconds /\ s \in C
  BY SecondsFinite DEF History
<1>2. PICK start \in C : start = FindStart(m, weak, s) /\ \A k \in C : start <= k
  <2>1. Min(C) \in C /\ \A k \in C : Min(C) <= k
    BY <1>1, MinIs
  <2>2. Min(C) = FindStart(m, weak, s)
    BY DEF FindStart
  <2> HIDE DEF C
  <2> QED
    BY <2>1, <2>2
<1>3. start \in Seconds /\ start \in Nat /\ start <= s
  BY <1>1, <1>2
<1>4. \A u \in Seconds : u \in Nat /\ (m[u] # None => m[u] \in Nat)
  BY SecondsFinite, ShockEngineAssumption DEF Values
<1>5. weak \in Nat /\ HistoryMax \in Nat
  BY ShockEngineAssumption DEF Values
<1>6. \A u \in Seconds : u \in H <=> m[u] # None /\ Cardinality(Later(u)) < HistoryMax
  BY DEF History
<1>7. ASSUME NEW u \in Seconds, NEW v \in Seconds, u <= v, u \in H, m[v] # None
      PROVE  v \in H
  <2>1. Later(v) \in SUBSET Later(u) /\ IsFiniteSet(Later(u))
    <3>1. \A w \in Seconds : w > v => w > u
      BY <1>4, <1>7
    <3>2. Later(u) \in SUBSET Seconds
      OBVIOUS
    <3> QED
      BY <3>1, <3>2, SecondsFinite
  <2>2. Cardinality(Later(v)) <= Cardinality(Later(u))
    BY <2>1, FS_Subset
  <2>3. Cardinality(Later(v)) \in Nat /\ Cardinality(Later(u)) \in Nat
    BY SecondsFinite
  <2>4. Cardinality(Later(u)) < HistoryMax
    BY <1>6, <1>7
  <2> HIDE DEF Later, H
  <2>5. Cardinality(Later(v)) < HistoryMax
    BY <1>5, <2>2, <2>3, <2>4
  <2> QED
    BY <1>6, <1>7, <2>5
<1>8. ASSUME start < s
      PROVE  start \in H /\ \A v \in H : v >= start => m[v] >= weak
  BY <1>1, <1>2, <1>3, <1>4, <1>8
<1>9. ASSUME start < s, NEW u \in Seconds, Point(m, u), u < start,
             \A v \in Seconds : u < v /\ v < start => ~Point(m, v),
             Cardinality({v \in Seconds : Point(m, v) /\ u < v /\ v <= s}) < HistoryMax,
             NEW v \in Seconds, Point(m, v), start <= v, v <= s
      PROVE  m[u] < m[v]
  <2>1. {w \in Seconds : Point(m, w) /\ u < w /\ w <= s} = Later(u)
    BY <1>4 DEF Point
  <2>2. u \in H
    BY <1>6, <1>9, <2>1 DEF Point
  <2>3. ~(m[u] >= weak)
    <3> SUFFICES ASSUME m[u] >= weak PROVE FALSE
      OBVIOUS
    <3>1. ASSUME NEW w \in H, w >= u PROVE m[w] >= weak
      <4>1. w \in Seconds /\ Point(m, w)
        BY <1>1, <1>6 DEF Point
      <4>2. w = u \/ start <= w
        BY <1>3, <1>4, <1>9, <3>1, <4>1
      <4> QED
        BY <1>8, <1>9, <4>2
    <3>2. u \in C
      BY <2>2, <3>1
    <3> QED
      BY <1>2, <1>3, <1>4, <1>9, <3>2
  <2>4. m[v] >= weak
    BY <1>3, <1>4, <1>7, <1>8, <1>9 DEF Point
  <2> QED
    BY <1>4, <1>5, <1>9, <2>3, <2>4 DEF Point
<1>10. ASSUME start < s PROVE Point(m, start)
  BY <1>3, <1>6, <1>8, <1>10 DEF Point
<1>11. Traced(m, start, s)
  BY <1>9, <1>10 DEF Traced
<1> QED
  BY <1>2, <1>3, <1>11

(* What comes after the trigger does not change where a shock starts, ... *)
LEMMA TracedKept ==
  ASSUME NEW m, NEW n, NEW start \in Seconds, NEW trigger \in Seconds,
         \A u \in Seconds : u <= trigger => n[u] = m[u], Traced(m, start, trigger)
  PROVE  Traced(n, start, trigger)
<1>0. \A u \in Seconds : u \in Nat
  BY SecondsFinite
<1>1. \A u \in Seconds : u <= trigger => (Point(n, u) <=> Point(m, u))
  BY DEF Point
<1>2. ASSUME NEW u \in Seconds
      PROVE  {v \in Seconds : Point(n, v) /\ u < v /\ v <= trigger}
             = {v \in Seconds : Point(m, v) /\ u < v /\ v <= trigger}
  BY <1>1
<1>3. CASE ~(start < trigger)
  BY <1>3 DEF Traced
<1>4. CASE start < trigger
  <2>1. Point(n, start)
    BY <1>0, <1>1, <1>4 DEF Traced
  <2>2. ASSUME NEW u \in Seconds, Point(n, u), u < start,
               \A v \in Seconds : u < v /\ v < start => ~Point(n, v),
               Cardinality({v \in Seconds : Point(n, v) /\ u < v /\ v <= trigger}) < HistoryMax,
               NEW v \in Seconds, Point(n, v), start <= v, v <= trigger
        PROVE  n[u] < n[v]
    <3>1. Point(m, u) /\ Point(m, v) /\ u <= trigger
      BY <1>0, <1>1, <1>4, <2>2
    <3>2. \A w \in Seconds : u < w /\ w < start => ~Point(m, w)
      <4>1. \A w \in Seconds : w < start => w <= trigger
        BY <1>0, <1>4
      <4> QED
        BY <1>1, <2>2, <4>1
    <3>3. Cardinality({w \in Seconds : Point(m, w) /\ u < w /\ w <= trigger}) < HistoryMax
      BY <1>2, <2>2
    <3>4. m[u] < m[v]
      BY <1>4, <2>2, <3>1, <3>2, <3>3 DEF Traced
    <3> QED
      BY <2>2, <3>1, <3>4
  <2> QED
    BY <2>1, <2>2 DEF Traced
<1> QED
  BY <1>3, <1>4

(* ... and what comes after the window does not change its peak. *)
LEMMA PeakKept ==
  ASSUME NEW m, NEW n, NEW trigger \in Seconds, NEW peak, NEW magnitude,
         \A u \in Seconds : u <= trigger + PeakWindow => n[u] = m[u],
         PeakOf(m, trigger, peak, magnitude)
  PROVE  PeakOf(n, trigger, peak, magnitude)
<1>1. Shown(n, trigger) = Shown(m, trigger)
  BY DEF Shown
<1>2. \A u \in Shown(m, trigger) : n[u] = m[u]
  BY DEF Shown
<1> QED
  BY <1>1, <1>2 DEF PeakOf
-----------------------------------------------------------------------------
(* A bar: the metrics, the shocks watched after it, and the types that fire. *)

LEMMA ReadingType ==
  ASSUME NEW readings \in [Types -> Readings], NEW ty \in Types
  PROVE  LET r == readings[ty]
         IN /\ r.value \in Values \cup {None} /\ r.weak \in Values \cup {None}
            /\ r.fires => r.value \in Values
<1> PICK r \in Readings : r = readings[ty]
  OBVIOUS
<1>1. /\ r.value \in Values \cup {None} /\ r.weak \in Values \cup {None}
      /\ r.fires => r.value # None
  BY DEF Readings
<1> QED
  BY <1>1

(* push_history changes nothing but the second it records. *)
LEMMA RecordedType ==
  ASSUME TypeOK, NEW s \in Seconds, NEW readings \in [Types -> Readings],
         NEW n, n = Recorded(readings, s)
  PROVE  /\ n \in [Types -> [Seconds -> Values \cup {None}]]
         /\ \A ty \in Types, u \in Seconds : u # s => n[ty][u] = metrics[ty][u]
         /\ \A ty \in Measured : n[ty][s] = readings[ty].value
<1>1. ASSUME NEW ty \in Types
      PROVE  /\ n[ty] \in [Seconds -> Values \cup {None}]
             /\ \A u \in Seconds : u # s => n[ty][u] = metrics[ty][u]
             /\ ty \in Measured => n[ty][s] = readings[ty].value
  <2>1. metrics[ty] \in [Seconds -> Values \cup {None}]
    BY DEF TypeOK
  <2>2. readings[ty].value \in Values \cup {None}
    BY ReadingType
  <2>3. n[ty] = IF ty \in Measured THEN [metrics[ty] EXCEPT ![s] = readings[ty].value]
                ELSE metrics[ty]
    BY DEF Recorded
  <2> QED
    BY <2>1, <2>2, <2>3
<1>2. n = [ty \in Types |-> n[ty]]
  BY DEF Recorded
<1> QED
  BY <1>1, <1>2, ShockEngineAssumption

(* What the assumptions on the constants say of seconds, values and windows. *)
LEMMA Bounds ==
  /\ \A u \in Seconds : u \in Nat
  /\ \A v \in Values : v \in Nat
  /\ None \notin Int /\ Cooldown \in Nat /\ PeakWindow \in Nat /\ PeakWindow > 0
  /\ Measured \subseteq Types
BY SecondsFinite, ShockEngineAssumption DEF Values

(* finalize_pending keeps the highest metric of the window, up to second s. *)
LEMMA PeakedTold ==
  ASSUME NEW m \in [Seconds -> Values \cup {None}], NEW n \in [Seconds -> Values \cup {None}],
         NEW ty \in Types, NEW k \in PendingShock, NEW r, NEW s \in Seconds,
         r.value \in Values \cup {None},
         \A u \in Seconds : u # s => n[u] = m[u], ty \in Measured => n[s] = r.value,
         \A u \in Seconds : u >= s => m[u] = None,
         k.trigger < s, Told(m, ty, k)
  PROVE  LET w == Peaked(ty, k, r, s)
         IN /\ w \in PendingShock /\ w.trigger = k.trigger /\ w.start = k.start
            /\ Told(n, ty, w)
<1>1. PICK w : w = Peaked(ty, k, r, s)
  OBVIOUS
<1> DEFINE Higher == /\ s <= k.trigger + PeakWindow /\ ty \in Measured /\ r.value # None
                     /\ r.value > k.magnitude
<1>2. Higher => r.value \in Values
  OBVIOUS
<1>3. /\ w \in PendingShock /\ w.trigger = k.trigger /\ w.start = k.start
      /\ Higher => w.peak = s /\ w.magnitude = r.value
      /\ ~Higher => w = k
  BY <1>1, <1>2 DEF Peaked, Expires, PendingShock
<1>4. k.trigger \in Seconds /\ k.start \in Seconds /\ k.peak \in Seconds /\ k.magnitude \in Values
  BY DEF PendingShock
<1>5. Traced(n, w.start, w.trigger)
  <2>1. \A u \in Seconds : u <= k.trigger => n[u] = m[u]
    BY <1>4, Bounds
  <2>2. Traced(m, k.start, k.trigger)
    BY DEF Told
  <2> QED
    BY <1>3, <1>4, <2>1, <2>2, TracedKept
<1>6. ASSUME ty \in Measured PROVE PeakOf(n, w.trigger, w.peak, w.magnitude)
  <2>1. PeakOf(m, k.trigger, k.peak, k.magnitude)
    BY <1>6 DEF Told
  <2>2. CASE ~(s <= k.trigger + PeakWindow)
    <3>1. \A u \in Seconds : u <= k.trigger + PeakWindow => n[u] = m[u]
      BY <2>2, Bounds
    <3> QED
      BY <1>3, <1>4, <2>1, <2>2, <3>1, PeakKept
  <2>3. CASE s <= k.trigger + PeakWindow
    <3>1. \A u \in Seconds : u \in Shown(n, k.trigger) <=>
                               u \in Shown(m, k.trigger) \/ (u = s /\ r.value # None)
      BY <1>4, <1>6, <2>3, Bounds DEF Shown
    <3>2. \A u \in Shown(m, k.trigger) :
             u \in Seconds /\ u # s /\ n[u] = m[u] /\ m[u] \in Values
      <4>1. m[s] = None
        BY Bounds
      <4>2. \A u \in Shown(m, k.trigger) : u \in Seconds /\ m[u] # None
        BY DEF Shown
      <4> QED
        BY <4>1, <4>2
    <3>3. \A u \in Shown(m, k.trigger) : u < s
      BY <3>2, Bounds DEF Shown
    <3>4. /\ k.peak \in Shown(m, k.trigger) /\ m[k.peak] = k.magnitude
          /\ \A u \in Shown(m, k.trigger) :
               m[u] <= k.magnitude /\ (m[u] = k.magnitude => k.peak <= u)
      BY <2>1 DEF PeakOf
    <3>5. Shown(n, k.trigger) \subseteq Seconds
      BY DEF Shown
    <3>6. CASE Higher
      <4>1. w.trigger = k.trigger /\ w.peak = s /\ w.magnitude = r.value /\ n[s] = r.value
        BY <1>3, <1>6, <3>6
      <4>2. r.value > k.magnitude /\ r.value \in Nat /\ k.magnitude \in Nat /\ r.value # None
        BY <1>2, <1>4, <3>6, Bounds
      <4>3. s \in Shown(n, k.trigger)
        BY <3>1, <4>2
      <4>4. ASSUME NEW u \in Shown(n, k.trigger)
            PROVE  n[u] <= r.value /\ (n[u] = r.value => s <= u)
        <5>1. CASE u = s
          BY <4>1, <4>2, <5>1, Bounds
        <5>2. CASE u \in Shown(m, k.trigger)
          <6>1. n[u] \in Nat /\ n[u] <= k.magnitude
            BY <3>2, <3>4, <5>2, Bounds
          <6> QED
            BY <4>2, <6>1
        <5> QED
          BY <3>1, <3>5, <5>1, <5>2
      <4> QED
        BY <4>1, <4>3, <4>4 DEF PeakOf
    <3>7. CASE ~Higher
      <4>1. w = k
        BY <1>3, <3>7
      <4>2. r.value # None => r.value \in Nat /\ r.value <= k.magnitude
        BY <1>4, <1>6, <2>3, <3>7, Bounds
      <4>3. k.peak \in Shown(n, k.trigger) /\ n[k.peak] = k.magnitude
        BY <3>1, <3>2, <3>4
      <4>4. ASSUME NEW u \in Shown(n, k.trigger)
            PROVE  n[u] <= k.magnitude /\ (n[u] = k.magnitude => k.peak <= u)
        <5>1. CASE u \in Shown(m, k.trigger)
          BY <3>2, <3>4, <5>1
        <5>2. CASE u = s /\ r.value # None
          <6>1. n[u] = r.value
            BY <1>6, <5>2
          <6>2. k.peak < s
            BY <3>3, <3>4
          <6>3. k.peak \in Nat /\ s \in Nat
            BY <1>4, Bounds
          <6> QED
            BY <4>2, <5>2, <6>1, <6>2, <6>3
        <5> QED
          BY <3>1, <3>5, <5>1, <5>2
      <4> QED
        BY <4>1, <4>3, <4>4 DEF PeakOf
    <3> QED
      BY <3>6, <3>7
  <2> QED
    BY <2>2, <2>3
<1> QED
  BY <1>1, <1>3, <1>5, <1>6 DEF Told

(* schedule_shock: the episode of a new shock. *)
LEMMA ScheduledTold ==
  ASSUME NEW n \in [Seconds -> Values \cup {None}], NEW ty \in Types, NEW r, NEW s \in Seconds,
         r.value \in Values, r.weak \in Values \cup {None},
         \A u \in Seconds : u > s => n[u] = None, ty \in Measured => n[s] = r.value
  PROVE  LET w == Peaked(ty, Scheduled(n, r, s), r, s)
         IN /\ Scheduled(n, r, s) \in PendingShock
            /\ w \in PendingShock /\ w.trigger = s /\ Told(n, ty, w)
<1>1. PICK k : k = Scheduled(n, r, s)
  OBVIOUS
<1>2. k \in PendingShock /\ k.trigger = s /\ k.peak = s /\ k.magnitude = r.value
  <2>1. r.weak # None => FindStart(n, r.weak, s) \in Seconds
    BY FindStartTraced
  <2> QED
    BY <1>1, <2>1 DEF Scheduled, PendingShock
<1>3. Traced(n, k.start, s)
  <2>1. CASE r.weak = None
    <3>1. k.start = s
      BY <1>1, <2>1 DEF Scheduled
    <3> QED
      BY <3>1, Bounds DEF Traced
  <2>2. CASE r.weak # None
    <3>1. k.start = FindStart(n, r.weak, s)
      BY <1>1, <2>2 DEF Scheduled
    <3> QED
      BY <2>2, <3>1, FindStartTraced
  <2> QED
    BY <2>1, <2>2
<1>4. Peaked(ty, k, r, s) = k
  <2>1. ~(r.value > k.magnitude)
    BY <1>2, Bounds
  <2> QED
    BY <2>1 DEF Peaked
<1>5. ASSUME ty \in Measured PROVE PeakOf(n, s, s, r.value)
  <2>1. n[s] = r.value /\ r.value \in Nat /\ r.value # None /\ s \in Nat
    BY <1>5, Bounds
  <2>2. s \in Shown(n, s)
    BY <2>1, Bounds DEF Shown
  <2>3. \A u \in Shown(n, s) : u = s
    BY <2>1, Bounds DEF Shown
  <2> QED
    BY <2>1, <2>2, <2>3 DEF PeakOf
<1> QED
  BY <1>1, <1>2, <1>3, <1>4, <1>5 DEF Told

(* What is true of the shocks watched after the bar of s, of the types F that fired and
   of those G that are final. *)
Step(s, n, F, w, G) ==
  /\ F \in SUBSET Types /\ F \cap G = {}
  /\ G = {ty \in Types : w[ty] # None /\ s >= w[ty].trigger + PeakWindow}
  /\ \A ty \in Types : w[ty] # None => w[ty] \in PendingShock /\ Told(n[ty], ty, w[ty])
  /\ \A ty \in F : w[ty] # None /\ w[ty].trigger = s
  /\ \A ty \in Types \ F : IF pending[ty] = None THEN w[ty] = None
                           ELSE w[ty] # None /\ w[ty].trigger = pending[ty].trigger

(* A bar fires, watches and finalises shocks as Step says. *)
LEMMA BarStep ==
  ASSUME TypeOK, Dated, Episodes, NEW s \in Seconds, s = second + 1,
         NEW readings \in [Types -> Readings],
         NEW n, n = Recorded(readings, s), NEW F, F = Fires(readings, s),
         NEW w, w = Watched(readings, s), NEW G, G = Final(w, s)
  PROVE  Step(s, n, F, w, G)
<1>1. /\ n \in [Types -> [Seconds -> Values \cup {None}]]
      /\ \A ty \in Types, u \in Seconds : u # s => n[ty][u] = metrics[ty][u]
      /\ \A ty \in Measured : n[ty][s] = readings[ty].value
  BY RecordedType
<1>2. second \in Nat /\ s \in Nat /\ second < s
  BY Bounds, ShockEngineAssumption DEF TypeOK
<1>3. \A ty \in Types, u \in Seconds : u >= s => metrics[ty][u] = None
  BY <1>2, Bounds DEF Dated
<1>4. None \notin PendingShock
  <2>1. Seconds \subseteq Int /\ Values \subseteq Int
    BY Bounds
  <2>2. PendingShock \subseteq [start : Int, trigger : Int, peak : Int, magnitude : Int]
    BY <2>1 DEF PendingShock
  <2> QED
    BY <2>2, ShockEngineAssumption
<1>5. ASSUME NEW ty \in F
      PROVE  /\ ty \in Types /\ w[ty] # None /\ w[ty].trigger = s /\ w[ty] \in PendingShock
             /\ Told(n[ty], ty, w[ty])
  <2>1. ty \in Types /\ readings[ty].fires
    BY DEF Fires
  <2>2. PICK r : r = readings[ty]
    OBVIOUS
  <2>3. r.value \in Values /\ r.weak \in Values \cup {None}
    BY <2>1, <2>2, ReadingType
  <2>4. PICK m \in [Seconds -> Values \cup {None}] : m = n[ty]
    BY <1>1, <2>1
  <2>5. \A u \in Seconds : u > s => m[u] = None
    BY <1>1, <1>2, <1>3, <2>1, <2>4, Bounds
  <2>6. ty \in Measured => m[s] = r.value
    BY <1>1, <2>2, <2>4
  <2>7. PICK v : v = Peaked(ty, Scheduled(m, r, s), r, s)
    OBVIOUS
  <2>8. v \in PendingShock /\ v.trigger = s /\ Told(m, ty, v)
    BY <2>1, <2>3, <2>5, <2>6, <2>7, ScheduledTold
  <2>9. Scheduled(m, r, s) # None
    BY <1>4, <2>1, <2>3, <2>5, <2>6, ScheduledTold
  <2>10. w[ty] = v
    BY <2>1, <2>2, <2>4, <2>7, <2>9 DEF Watched
  <2> QED
    BY <1>4, <2>1, <2>4, <2>8, <2>10
<1>6. ASSUME NEW ty \in Types \ F, pending[ty] # None
      PROVE  /\ w[ty] # None /\ w[ty].trigger = pending[ty].trigger /\ w[ty] \in PendingShock
             /\ Told(n[ty], ty, w[ty])
  <2>1. PICK k \in PendingShock : k = pending[ty]
    BY <1>6 DEF TypeOK
  <2>2. PICK r : r = readings[ty]
    OBVIOUS
  <2>3. r.value \in Values \cup {None}
    BY <2>2, ReadingType
  <2>4. PICK q \in [Seconds -> Values \cup {None}] : q = n[ty]
    BY <1>1
  <2>5. PICK m \in [Seconds -> Values \cup {None}] : m = metrics[ty]
    BY DEF TypeOK
  <2>6. k.trigger < s
    <3>1. k.trigger <= second /\ k.trigger \in Nat
      BY <1>6, <2>1, Bounds DEF Dated, PendingShock
    <3> QED
      BY <1>2, <3>1
  <2>7. Told(m, ty, k)
    BY <1>6, <2>1, <2>5 DEF Episodes
  <2>8. \A u \in Seconds : u # s => q[u] = m[u]
    BY <1>1, <2>4, <2>5
  <2>9. ty \in Measured => q[s] = r.value
    BY <1>1, <2>2, <2>4
  <2>10. \A u \in Seconds : u >= s => m[u] = None
    BY <1>3, <2>5
  <2>11. PICK v : v = Peaked(ty, k, r, s)
    OBVIOUS
  <2>12. v \in PendingShock /\ v.trigger = k.trigger /\ Told(q, ty, v)
    BY <2>3, <2>6, <2>7, <2>8, <2>9, <2>10, <2>11, PeakedTold
  <2>13. w[ty] = v
    BY <1>6, <2>1, <2>2, <2>11 DEF Watched
  <2> QED
    BY <1>4, <2>1, <2>4, <2>12, <2>13
<1>7. ASSUME NEW ty \in Types \ F, pending[ty] = None
      PROVE  w[ty] = None
  BY <1>7 DEF Watched
<1>8. G = {ty \in Types : w[ty] # None /\ s >= w[ty].trigger + PeakWindow}
  BY DEF Final, Expires
<1>9. F \cap G = {}
  <2>1. ~(s >= s + PeakWindow)
    BY <1>2, Bounds
  <2> QED
    BY <1>5, <1>8, <2>1
<1>10. \A ty \in Types : w[ty] # None => w[ty] \in PendingShock /\ Told(n[ty], ty, w[ty])
  BY <1>5, <1>6, <1>7
<1>11. F \in SUBSET Types
  BY DEF Fires
<1> QED
  BY <1>5, <1>6, <1>7, <1>8, <1>9, <1>10, <1>11 DEF Step
-----------------------------------------------------------------------------
(* emit_result: what the rows and the ids are after a bar. *)

(* Row i is completed when the types G are final. *)
Completed(i, w, G) ==
  LET r == rows[i] IN ~r.final /\ r.type \in G /\ w[r.type].trigger = r.trigger

(* The rows R after a bar, and the id that is next. *)
Written(R, next, F, w, G) ==
  /\ next \in Nat /\ nextId <= next /\ DOMAIN R = 1..(next - 1)
  /\ R = [i \in DOMAIN R |-> R[i]]
  /\ \A i \in DOMAIN rows :
       R[i] = IF Completed(i, w, G) THEN FinalRow(rows[i], w[rows[i].type]) ELSE rows[i]
  /\ \A p \in PairIds, ty \in F :
       /\ NewId(p, ty, F) \in DOMAIN R /\ NewId(p, ty, F) \notin DOMAIN rows
       /\ R[NewId(p, ty, F)] = PendingRow(p, ty, w[ty])
  /\ \A i \in DOMAIN R \ DOMAIN rows : \E p \in PairIds, ty \in F : i = NewId(p, ty, F)

(* The rows of the table are numbered from 1 to the id before nextId. *)
LEMMA RowsTypes ==
  ASSUME TypeOK, nextId > 0
  PROVE  /\ nextId \in Nat /\ DOMAIN rows = 1..(nextId - 1)
         /\ \A i \in DOMAIN rows :
              /\ rows[i] \in Row /\ rows[i].pair \in PairIds /\ rows[i].type \in Types
              /\ rows[i].trigger \in Seconds /\ rows[i].start \in Seconds
              /\ rows[i].final \in BOOLEAN
<1>1. nextId \in Nat /\ DOMAIN rows = 1..(nextId - 1)
  BY DEF TypeOK
<1>2. \A i \in DOMAIN rows : rows[i] \in Row
  BY DEF TypeOK
<1> QED
  BY <1>1, <1>2 DEF Row

(* An id the engine remembers is the id of a row. *)
LEMMA IdsTypes ==
  ASSUME TypeOK, nextId > 0, NEW p \in PairIds, NEW ty \in Types, NEW u \in Seconds
  PROVE  ids[p][ty][u] \in (DOMAIN rows) \cup {None}
<1>1. ids[p] \in [Types -> [Seconds -> (1..(nextId - 1)) \cup {None}]]
  BY DEF TypeOK
<1>2. ids[p][ty] \in [Seconds -> (1..(nextId - 1)) \cup {None}]
  BY <1>1
<1> QED
  BY <1>2, RowsTypes

(* A bar inserts the rows of the types that fired, completes those that are final
   and leaves all others. *)
LEMMA RowsChange ==
  ASSUME TypeOK, IdsOfOpenRows, nextId > 0, NEW s \in Seconds,
         NEW F \in SUBSET Types, NEW G \in SUBSET Types, NEW w,
         \A ty \in G : w[ty].trigger \in Seconds,
         NEW R, R = RowsAfter(F, G, w, s),
         NEW next, next = nextId + Cardinality(PairIds) * Cardinality(F)
  PROVE  Written(R, next, F, w, G)
<1> DEFINE newId(x) == NewId(x[1], x[2], F)
           new == {newId(x) : x \in PairIds \X F}
           kept(x) == ids[x[1]][x[2]][w[x[2]].trigger]
           final == {x \in PairIds \X G : kept(x) # None}
           value(i) ==
             IF i \in new
             THEN LET x == CHOOSE x \in PairIds \X F : newId(x) = i
                  IN PendingRow(x[1], x[2], w[x[2]])
             ELSE IF \E x \in final : kept(x) = i
             THEN LET x == CHOOSE x \in final : kept(x) = i
                  IN FinalRow(rows[i], w[x[2]])
             ELSE rows[i]
<1>1. R = [i \in DOMAIN rows \cup new |-> value(i)]
  BY DEF RowsAfter
<1>2. next \in Nat /\ nextId <= next
  <2>1. Cardinality(PairIds) \in Nat /\ Cardinality(F) \in Nat
    BY ShockEngineAssumption, FS_Subset, FS_CardinalityType
  <2>2. Cardinality(PairIds) * Cardinality(F) \in Nat
    BY <2>1
  <2> QED
    BY <2>2, RowsTypes
<1>3. \A i : i \in new <=> \E p \in PairIds, ty \in F : i = NewId(p, ty, F)
  <2>1. ASSUME NEW p \in PairIds, NEW ty \in F PROVE NewId(p, ty, F) \in new
    <3>1. PICK x \in PairIds \X F : x = <<p, ty>>
      OBVIOUS
    <3>2. newId(x) = NewId(p, ty, F)
      BY <3>1
    <3> QED
      BY <3>2
  <2>2. ASSUME NEW i \in new PROVE \E p \in PairIds, ty \in F : i = NewId(p, ty, F)
    OBVIOUS
  <2> HIDE DEF new
  <2> QED
    BY <2>1, <2>2
<1>4. \A i : i \in new <=> i \in nextId..(next - 1)
  <2>1. \A p \in PairIds, ty \in F : NewId(p, ty, F) \in nextId..(next - 1)
    <3>1. \A p \in PairIds, ty \in F :
            NewId(p, ty, F) \in Nat /\ nextId <= NewId(p, ty, F) /\ NewId(p, ty, F) < next
      BY NewIdRange, RowsTypes
    <3>2. \A k \in Nat : nextId <= k /\ k < next => k \in nextId..(next - 1)
      BY <1>2, RowsTypes
    <3> QED
      BY <3>1, <3>2
  <2>2. \A i \in nextId..(next - 1) : \E p \in PairIds, ty \in F : NewId(p, ty, F) = i
    BY NewIdOnto, RowsTypes
  <2> HIDE DEF new
  <2> QED
    BY <1>3, <2>1, <2>2
<1>5. DOMAIN rows = 1..(nextId - 1) /\ nextId \in Nat
  BY RowsTypes
<1>6. DOMAIN R = 1..(next - 1) /\ \A i \in DOMAIN rows : i \notin new
  <2>1. DOMAIN R = DOMAIN rows \cup new
    BY <1>1
  <2> HIDE DEF new
  <2> QED
    BY <1>2, <1>4, <1>5, <2>1
<1>7. ASSUME NEW p \in PairIds, NEW ty \in F
      PROVE  /\ NewId(p, ty, F) \in DOMAIN R /\ NewId(p, ty, F) \notin DOMAIN rows
             /\ R[NewId(p, ty, F)] = PendingRow(p, ty, w[ty])
  <2>1. PICK i : i = NewId(p, ty, F)
    OBVIOUS
  <2>2. i \in new
    BY <1>3, <2>1
  <2>3. i \in DOMAIN R /\ i \notin DOMAIN rows
    BY <1>1, <1>6, <2>2
  <2>4. PICK x : x = CHOOSE y \in PairIds \X F : newId(y) = i
    OBVIOUS
  <2>5. x \in PairIds \X F /\ newId(x) = i
    <3>1. \E y \in PairIds \X F : newId(y) = i
      BY <2>2
    <3> QED
      BY <2>4, <3>1
  <2>6. x[1] = p /\ x[2] = ty
    BY <2>1, <2>5, NewIdUnique, RowsTypes
  <2>7. R[i] = PendingRow(x[1], x[2], w[x[2]])
    BY <1>1, <2>2, <2>3, <2>4
  <2> QED
    BY <2>1, <2>3, <2>6, <2>7
<1>8. ASSUME NEW i \in DOMAIN rows
      PROVE  R[i] = IF Completed(i, w, G) THEN FinalRow(rows[i], w[rows[i].type]) ELSE rows[i]
  <2>1. i \notin new /\ i # None
    BY <1>5, <1>6, ShockEngineAssumption
  <2>2. \A x \in PairIds \X G : kept(x) = i =>
             Completed(i, w, G) /\ rows[i].type = x[2]
    BY <2>1 DEF IdsOfOpenRows, Completed
  <2>3. Completed(i, w, G) => \E x \in final : kept(x) = i
    <3> SUFFICES ASSUME Completed(i, w, G) PROVE \E x \in final : kept(x) = i
      OBVIOUS
    <3>1. ~rows[i].final /\ rows[i].type \in G /\ w[rows[i].type].trigger = rows[i].trigger
      BY DEF Completed
    <3>2. rows[i].pair \in PairIds
      BY RowsTypes
    <3>3. ids[rows[i].pair][rows[i].type][rows[i].trigger] = i
      BY <3>1 DEF IdsOfOpenRows
    <3>4. PICK x \in PairIds \X G : x = <<rows[i].pair, rows[i].type>>
      BY <3>1, <3>2
    <3>5. kept(x) = i
      BY <3>1, <3>3, <3>4
    <3> QED
      BY <2>1, <3>5
  <2>4. R[i] = value(i)
    BY <1>1
  <2>5. CASE ~Completed(i, w, G)
    <3>1. ~\E x \in final : kept(x) = i
      BY <2>2, <2>5
    <3> QED
      BY <2>1, <2>4, <2>5, <3>1
  <2>6. CASE Completed(i, w, G)
    <3>1. PICK x : x = CHOOSE y \in final : kept(y) = i
      OBVIOUS
    <3>2. x \in final /\ kept(x) = i
      BY <2>3, <2>6, <3>1
    <3>3. rows[i].type = x[2]
      BY <2>2, <3>2
    <3>4. value(i) = FinalRow(rows[i], w[x[2]])
      BY <2>1, <2>3, <2>6, <3>1
    <3> QED
      BY <2>4, <2>6, <3>3, <3>4
  <2> QED
    BY <2>5, <2>6
<1>9. \A i \in DOMAIN R \ DOMAIN rows : \E p \in PairIds, ty \in F : i = NewId(p, ty, F)
  <2>1. DOMAIN R = DOMAIN rows \cup new
    BY <1>1
  <2> HIDE DEF new
  <2> QED
    BY <1>3, <2>1
<1> HIDE DEF new, kept, final, value, newId
<1>10. R = [i \in DOMAIN R |-> R[i]]
  BY <1>1
<1> QED
  BY <1>2, <1>6, <1>7, <1>8, <1>9, <1>10 DEF Written
-----------------------------------------------------------------------------
(* The bar of second s in terms of the types F that fire, the shocks w watched after it
   and the types G that are final. *)
RowsKept(w, G) ==
  \A i \in DOMAIN rows :
    /\ i \in DOMAIN rows'
    /\ rows'[i] = IF Completed(i, w, G) THEN FinalRow(rows[i], w[rows[i].type]) ELSE rows[i]
RowsNew(F, w) ==
  /\ \A p \in PairIds, ty \in F :
       /\ NewId(p, ty, F) \in DOMAIN rows' /\ NewId(p, ty, F) \notin DOMAIN rows
       /\ rows'[NewId(p, ty, F)] = PendingRow(p, ty, w[ty])
  /\ \A i \in DOMAIN rows' \ DOMAIN rows : \E p \in PairIds, ty \in F : i = NewId(p, ty, F)
BarDoes(s, F, w, G) ==
  /\ s \in Seconds /\ second \in Nat /\ s = second + 1 /\ second' = s
  /\ metrics' \in [Types -> [Seconds -> Values \cup {None}]]
  /\ \A ty \in Types, u \in Seconds : u # s => metrics'[ty][u] = metrics[ty][u]
  /\ Step(s, metrics', F, w, G)
  /\ \A ty \in F : Ready(ty, s)
  /\ last' = [ty \in Types |-> IF ty \in F THEN s ELSE last[ty]]
  /\ pending' = [ty \in Types |-> IF ty \in G THEN None ELSE w[ty]]
  /\ nextId' \in Nat /\ nextId <= nextId' /\ DOMAIN rows' = 1..(nextId' - 1)
  /\ rows' = [i \in DOMAIN rows' |-> rows'[i]]
  /\ RowsKept(w, G) /\ RowsNew(F, w)
  /\ ids' = IdsAfter(F, G, w, s)

(* Every priced bar does what BarDoes says. *)
LEMMA BarIs ==
  ASSUME IInv, NEW s \in Seconds, NEW readings \in [Types -> Readings], Bar(s, readings)
  PROVE  \E F, w, G : BarDoes(s, F, w, G)
<1>1. PICK F : F = Fires(readings, s)
  OBVIOUS
<1>2. PICK w : w = Watched(readings, s)
  OBVIOUS
<1>3. PICK G : G = Final(w, s)
  OBVIOUS
<1>4. PICK n : n = Recorded(readings, s)
  OBVIOUS
<1>5. /\ s = second + 1 /\ second' = s /\ metrics' = n
      /\ last' = [ty \in Types |-> IF ty \in F THEN s ELSE last[ty]]
      /\ pending' = [ty \in Types |-> IF ty \in G THEN None ELSE w[ty]]
      /\ nextId' = nextId + Cardinality(PairIds) * Cardinality(F)
      /\ ids' = IdsAfter(F, G, w, s)
      /\ rows' = RowsAfter(F, G, w, s)
  BY <1>1, <1>2, <1>3, <1>4 DEF Bar
<1>6. TypeOK /\ Dated /\ Episodes /\ IdsOfOpenRows /\ nextId > 0
  BY DEF IInv, Dated
<1>7. Step(s, n, F, w, G)
  BY <1>1, <1>2, <1>3, <1>4, <1>5, <1>6, BarStep
<1>8. /\ n \in [Types -> [Seconds -> Values \cup {None}]]
      /\ \A ty \in Types, u \in Seconds : u # s => n[ty][u] = metrics[ty][u]
  BY <1>4, <1>6, RecordedType
<1>9. /\ F \in SUBSET Types /\ G \in SUBSET Types
      /\ \A ty \in G : w[ty].trigger \in Seconds
  BY <1>7 DEF Step, PendingShock
<1>10. PICK R : R = RowsAfter(F, G, w, s)
  OBVIOUS
<1>11. PICK next : next = nextId + Cardinality(PairIds) * Cardinality(F)
  OBVIOUS
<1>12. Written(R, next, F, w, G)
  BY <1>6, <1>9, <1>10, <1>11, RowsChange
<1>13. R = [i \in DOMAIN R |-> R[i]] /\ next \in Nat /\ nextId <= next /\ DOMAIN R = 1..(next - 1)
  BY <1>12 DEF Written
<1>14. rows' = R /\ nextId' = next
  BY <1>5, <1>10, <1>11
<1>15. \A i \in DOMAIN rows : i \in DOMAIN R
  <2>1. nextId \in Nat /\ DOMAIN rows = 1..(nextId - 1)
    BY <1>6, RowsTypes
  <2> QED
    BY <1>13, <2>1
<1>16. RowsKept(w, G) /\ RowsNew(F, w)
  BY <1>12, <1>14, <1>15 DEF RowsKept, RowsNew, Written
<1>17. \A ty \in F : Ready(ty, s)
  BY <1>1 DEF Fires
<1>18. second \in Nat
  BY <1>6, ShockEngineAssumption DEF TypeOK
<1>19. BarDoes(s, F, w, G)
  BY <1>5, <1>7, <1>8, <1>13, <1>14, <1>16, <1>17, <1>18 DEF BarDoes
<1> QED
  BY <1>19

(* A row that was there: its pair, type and trigger stay. *)
LEMMA OldRow ==
  ASSUME IInv, NEW s, NEW F, NEW w, NEW G, BarDoes(s, F, w, G), NEW i \in DOMAIN rows
  PROVE  /\ i \in DOMAIN rows' /\ rows[i] \in Row /\ rows'[i] \in Row
         /\ rows'[i].pair = rows[i].pair /\ rows'[i].type = rows[i].type
         /\ rows'[i].trigger = rows[i].trigger
         /\ rows[i].type \in Types /\ rows[i].pair \in PairIds /\ rows[i].trigger \in Seconds
         /\ rows[i].start \in Seconds
         /\ ~Completed(i, w, G) => rows'[i] = rows[i]
         /\ Completed(i, w, G) =>
              LET k == w[rows[i].type]
              IN /\ rows[i].type \in G /\ k # None /\ k.trigger = rows[i].trigger
                 /\ rows'[i].final /\ rows'[i].start = k.start /\ rows'[i].peak = k.peak
                 /\ rows'[i].magnitude = k.magnitude
<1>1. /\ rows[i] \in Row /\ rows[i].type \in Types /\ rows[i].pair \in PairIds
      /\ rows[i].trigger \in Seconds /\ rows[i].start \in Seconds
  BY RowsTypes DEF IInv, Dated
<1>2. i \in DOMAIN rows' /\ ~Completed(i, w, G) => rows'[i] = rows[i]
  BY DEF BarDoes, RowsKept
<1>3. i \in DOMAIN rows'
  BY DEF BarDoes, RowsKept
<1>4. CASE ~Completed(i, w, G)
  BY <1>1, <1>2, <1>3, <1>4
<1>5. CASE Completed(i, w, G)
  <2>1. PICK r \in Row : r = rows[i]
    BY <1>1
  <2>2. r.type \in G /\ r.type \in Types /\ w[r.type].trigger = r.trigger
    BY <1>1, <1>5, <2>1 DEF Completed
  <2>3. w[r.type] # None /\ w[r.type] \in PendingShock
    BY <2>2 DEF BarDoes, Step
  <2>4. PICK k \in PendingShock : k = w[r.type]
    BY <2>3
  <2>5. rows'[i] = FinalRow(r, k)
    BY <1>5, <2>1, <2>4 DEF BarDoes, RowsKept
  <2>6. /\ FinalRow(r, k) \in Row
        /\ FinalRow(r, k).pair = r.pair /\ FinalRow(r, k).type = r.type
        /\ FinalRow(r, k).trigger = r.trigger /\ FinalRow(r, k).final
        /\ FinalRow(r, k).start = k.start /\ FinalRow(r, k).peak = k.peak
        /\ FinalRow(r, k).magnitude = k.magnitude
    BY DEF FinalRow, Row, PendingShock
  <2> HIDE DEF FinalRow
  <2> QED
    BY <1>1, <1>3, <1>5, <2>1, <2>2, <2>3, <2>4, <2>5, <2>6
<1> QED
  BY <1>4, <1>5

(* A row of the bar. *)
LEMMA NewRow ==
  ASSUME IInv, NEW s, NEW F, NEW w, NEW G, BarDoes(s, F, w, G),
         NEW i \in DOMAIN rows', i \notin DOMAIN rows
  PROVE  \E p \in PairIds, ty \in F :
           /\ i = NewId(p, ty, F) /\ ty \in Types /\ ty \notin G /\ w[ty] \in PendingShock
           /\ w[ty] # None /\ w[ty].trigger = s /\ s \in Seconds
           /\ rows'[i] \in Row /\ rows'[i].pair = p /\ rows'[i].type = ty
           /\ rows'[i].trigger = s /\ rows'[i].start = w[ty].start /\ ~rows'[i].final
<1>1. PICK p \in PairIds, ty \in F : i = NewId(p, ty, F)
  BY DEF BarDoes, RowsNew
<1>2. ty \in Types /\ ty \notin G /\ w[ty] # None /\ w[ty].trigger = s /\ s \in Seconds
  BY DEF BarDoes, Step
<1>3. w[ty] \in PendingShock
  BY <1>2 DEF BarDoes, Step
<1>4. PICK k \in PendingShock : k = w[ty]
  BY <1>3
<1>5. rows'[i] = PendingRow(p, ty, k)
  BY <1>1, <1>4 DEF BarDoes, RowsNew
<1>6. /\ PendingRow(p, ty, k) \in Row /\ PendingRow(p, ty, k).pair = p
      /\ PendingRow(p, ty, k).type = ty /\ PendingRow(p, ty, k).trigger = k.trigger
      /\ PendingRow(p, ty, k).start = k.start /\ ~PendingRow(p, ty, k).final
  BY <1>2 DEF PendingRow, Row, PendingShock
<1> HIDE DEF PendingRow
<1> QED
  BY <1>1, <1>2, <1>3, <1>4, <1>5, <1>6
-----------------------------------------------------------------------------
(* The invariant after a bar, part by part. *)

(* Where an id stands after a bar. *)
LEMMA IdsAre ==
  ASSUME IInv, NEW s, NEW F, NEW w, NEW G, BarDoes(s, F, w, G),
         NEW p \in PairIds, NEW ty \in Types, NEW u \in Seconds
  PROVE  ids'[p][ty][u] =
           IF ty \in G /\ u = w[ty].trigger THEN None
           ELSE IF ty \in F /\ u = s THEN NewId(p, ty, F) ELSE ids[p][ty][u]
BY DEF BarDoes, IdsAfter

(* A priced bar preserves the types. *)
LEMMA BarTypes ==
  ASSUME IInv, NEW s, NEW F, NEW w, NEW G, BarDoes(s, F, w, G)
  PROVE  TypeOK'
<1>1. TypeOK /\ nextId > 0
  BY DEF IInv, Dated
<1>2. /\ s \in Seconds /\ second' = s /\ nextId' \in Nat /\ nextId <= nextId'
      /\ DOMAIN rows' = 1..(nextId' - 1) /\ rows' = [i \in DOMAIN rows' |-> rows'[i]]
      /\ metrics' \in [Types -> [Seconds -> Values \cup {None}]]
  BY DEF BarDoes
<1>3. second' \in 0..MaxSecond
  BY <1>2, ShockEngineAssumption DEF Seconds
<1>4. last' \in [Types -> Seconds \cup {None}]
  <2>1. \A ty \in Types : last[ty] \in Seconds \cup {None}
    BY <1>1 DEF TypeOK
  <2> QED
    BY <1>2, <2>1 DEF BarDoes
<1>5. pending' \in [Types -> PendingShock \cup {None}]
  <2>1. \A ty \in Types : w[ty] \in PendingShock \cup {None}
    BY DEF BarDoes, Step
  <2> QED
    BY <2>1 DEF BarDoes
<1>6. \A i \in DOMAIN rows' : rows'[i] \in Row
  BY OldRow, NewRow
<1>7. rows' \in [1..(nextId' - 1) -> Row]
  BY <1>2, <1>6
<1>8. ASSUME NEW p \in PairIds, NEW ty \in Types, NEW u \in Seconds
      PROVE  ids'[p][ty][u] \in (1..(nextId' - 1)) \cup {None}
  <2>1. ty \in F => NewId(p, ty, F) \in DOMAIN rows'
    BY DEF BarDoes, RowsNew
  <2>2. ids[p][ty][u] \in DOMAIN rows \cup {None}
    BY <1>1, IdsTypes
  <2>3. DOMAIN rows \subseteq DOMAIN rows'
    BY DEF BarDoes, RowsKept
  <2> QED
    BY <1>2, <2>1, <2>2, <2>3, IdsAre
<1>9. ids' \in [PairIds -> [Types -> [Seconds -> (1..(nextId' - 1)) \cup {None}]]]
  <2>1. ids' = IdsAfter(F, G, w, s)
    BY DEF BarDoes
  <2>2. ids' = [p \in PairIds |-> [ty \in Types |-> [u \in Seconds |-> ids'[p][ty][u]]]]
    BY <2>1 DEF IdsAfter
  <2> QED
    BY <1>8, <2>2
<1> QED
  BY <1>2, <1>3, <1>4, <1>5, <1>7, <1>9 DEF TypeOK

(* After a priced bar nothing is ahead of it, and the windows of the final rows are
   over. *)
LEMMA BarDated ==
  ASSUME IInv, NEW s, NEW F, NEW w, NEW G, BarDoes(s, F, w, G)
  PROVE  Dated'
<1>1. TypeOK /\ Dated /\ nextId > 0 /\ nextId \in Nat
  BY RowsTypes DEF IInv, Dated
<1>2. /\ s \in Seconds /\ s \in Nat /\ second \in Nat /\ second < s /\ second' = s
      /\ nextId' \in Nat /\ nextId <= nextId'
  BY Bounds DEF BarDoes
<1>3. nextId' > 0
  BY <1>1, <1>2
<1>4. ASSUME NEW ty \in Types, NEW u \in Seconds, u > s
      PROVE  metrics'[ty][u] = None
  <2>1. u # s /\ u > second
    BY <1>2, <1>4, Bounds
  <2> QED
    BY <1>1, <2>1 DEF Dated, BarDoes
<1>5. \A ty \in Types : last'[ty] = IF ty \in F THEN s ELSE last[ty]
  BY DEF BarDoes
<1>6. ASSUME NEW i \in DOMAIN rows'
      PROVE  LET r == rows'[i]
             IN /\ r.trigger <= s
                /\ last'[r.type] # None /\ r.trigger <= last'[r.type]
                /\ r.final => r.trigger + PeakWindow <= s
  <2>1. CASE i \notin DOMAIN rows
    <3>1. PICK ty \in F : ty \in Types /\ rows'[i].type = ty /\ rows'[i].trigger = s /\ ~rows'[i].final
      BY <2>1, NewRow
    <3>2. last'[ty] = s
      BY <1>5, <3>1
    <3> QED
      BY <1>2, <3>1, <3>2, Bounds
  <2>2. CASE i \in DOMAIN rows
    <3>1. /\ rows'[i].type = rows[i].type /\ rows'[i].trigger = rows[i].trigger
          /\ rows[i].type \in Types /\ rows[i].trigger \in Nat
      BY <2>2, OldRow, Bounds
    <3>2. /\ rows[i].trigger <= second /\ last[rows[i].type] # None
          /\ rows[i].trigger <= last[rows[i].type]
          /\ rows[i].final => rows[i].trigger + PeakWindow <= second
      BY <1>1, <2>2 DEF Dated
    <3>3. last'[rows[i].type] # None /\ rows[i].trigger <= last'[rows[i].type]
      BY <1>2, <1>5, <3>1, <3>2, Bounds
    <3>4. ASSUME rows'[i].final PROVE rows[i].trigger + PeakWindow <= s
      <4>1. CASE Completed(i, w, G)
        <5>1. PICK ty \in G : ty = rows[i].type /\ w[ty].trigger = rows[i].trigger
          BY <2>2, <4>1, OldRow
        <5>2. s >= w[ty].trigger + PeakWindow
          BY <5>1 DEF BarDoes, Step
        <5> QED
          BY <1>2, <3>1, <5>1, <5>2, Bounds
      <4>2. CASE ~Completed(i, w, G)
        <5>1. rows[i].final
          BY <2>2, <3>4, <4>2, OldRow
        <5> QED
          BY <1>2, <3>1, <3>2, <5>1, Bounds
      <4> QED
        BY <4>1, <4>2
    <3> QED
      BY <1>2, <3>1, <3>2, <3>3, <3>4
  <2> QED
    BY <2>1, <2>2
<1>7. ASSUME NEW ty \in Types, pending'[ty] # None
      PROVE  pending'[ty].trigger <= s
  <2>1. pending'[ty] = w[ty] /\ w[ty] # None
    BY <1>7 DEF BarDoes
  <2>2. CASE ty \in F
    BY <1>2, <2>1, <2>2 DEF BarDoes, Step
  <2>3. CASE ty \notin F
    <3>1. pending[ty] # None /\ w[ty].trigger = pending[ty].trigger
      BY <2>1, <2>3 DEF BarDoes, Step
    <3>2. pending[ty].trigger <= second
      BY <1>1, <3>1 DEF Dated
    <3>3. pending[ty].trigger \in Nat
      BY <1>1, <3>1, Bounds DEF TypeOK, PendingShock
    <3> QED
      BY <1>2, <2>1, <3>1, <3>2, <3>3
  <2> QED
    BY <2>2, <2>3
<1> QED
  BY <1>2, <1>3, <1>4, <1>6, <1>7 DEF Dated

(* The new ids are of new rows, and an id leaves the map with its shock. *)
LEMMA BarIds ==
  ASSUME IInv, NEW s, NEW F, NEW w, NEW G, BarDoes(s, F, w, G)
  PROVE  IdsOfOpenRows'
<1>1. TypeOK /\ Dated /\ IdsOfOpenRows /\ nextId > 0
  BY DEF IInv, Dated
<1>2. s \in Seconds /\ s \in Nat /\ second \in Nat /\ second < s
  BY Bounds DEF BarDoes
<1>3. ASSUME NEW i \in DOMAIN rows', ~rows'[i].final
      PROVE  ids'[rows'[i].pair][rows'[i].type][rows'[i].trigger] = i
  <2>1. CASE i \notin DOMAIN rows
    <3>1. PICK p \in PairIds, ty \in F :
            /\ i = NewId(p, ty, F) /\ ty \in Types /\ ty \notin G
            /\ rows'[i].pair = p /\ rows'[i].type = ty /\ rows'[i].trigger = s
      BY <2>1, NewRow
    <3>2. ids'[p][ty][s] = NewId(p, ty, F)
      BY <1>2, <3>1, IdsAre
    <3> QED
      BY <3>1, <3>2
  <2>2. CASE i \in DOMAIN rows
    <3>1. ~Completed(i, w, G) /\ rows'[i] = rows[i]
      BY <1>3, <2>2, OldRow
    <3>2. PICK p \in PairIds, ty \in Types, u \in Seconds :
            p = rows[i].pair /\ ty = rows[i].type /\ u = rows[i].trigger
      BY <2>2, OldRow
    <3>3. ~rows[i].final /\ ids[p][ty][u] = i
      BY <1>1, <1>3, <2>2, <3>1, <3>2 DEF IdsOfOpenRows
    <3>4. ~(ty \in G /\ u = w[ty].trigger)
      BY <3>1, <3>2, <3>3 DEF Completed
    <3>5. u # s
      <4>1. u <= second
        BY <1>1, <2>2, <3>2 DEF Dated
      <4> QED
        BY <1>2, <4>1, Bounds
    <3>6. ids'[p][ty][u] = ids[p][ty][u]
      BY <3>4, <3>5, IdsAre
    <3> QED
      BY <3>1, <3>2, <3>3, <3>6
  <2> QED
    BY <2>1, <2>2
<1>4. ASSUME NEW p \in PairIds, NEW ty \in Types, NEW u \in Seconds,
             NEW i, i = ids'[p][ty][u], i # None
      PROVE  /\ ~rows'[i].final
             /\ rows'[i].pair = p /\ rows'[i].type = ty /\ rows'[i].trigger = u
  <2>1. ~(ty \in G /\ u = w[ty].trigger)
    BY <1>4, IdsAre
  <2>2. CASE ty \in F /\ u = s
    <3>1. i = NewId(p, ty, F)
      BY <1>4, <2>1, <2>2, IdsAre
    <3>2. i \in DOMAIN rows' /\ i \notin DOMAIN rows /\ rows'[i] = PendingRow(p, ty, w[ty])
      BY <2>2, <3>1 DEF BarDoes, RowsNew
    <3>3. w[ty].trigger = s
      BY <2>2 DEF BarDoes, Step
    <3> QED
      BY <2>2, <3>2, <3>3 DEF PendingRow
  <2>3. CASE ~(ty \in F /\ u = s)
    <3>1. i = ids[p][ty][u]
      BY <1>4, <2>1, <2>3, IdsAre
    <3>2. i \in DOMAIN rows
      BY <1>1, <1>4, <3>1, IdsTypes
    <3>3. ~rows[i].final /\ rows[i].pair = p /\ rows[i].type = ty /\ rows[i].trigger = u
      BY <1>1, <1>4, <3>1 DEF IdsOfOpenRows
    <3>4. ~Completed(i, w, G)
      BY <2>1, <3>3 DEF Completed
    <3>5. rows'[i] = rows[i]
      BY <3>2, <3>4, OldRow
    <3> QED
      BY <3>3, <3>5
  <2> QED
    BY <2>2, <2>3
<1> QED
  BY <1>3, <1>4 DEF IdsOfOpenRows

(* A type that fires has cooled down since each of its rows. *)
LEMMA BarOpen ==
  ASSUME IInv, NEW s, NEW F, NEW w, NEW G, BarDoes(s, F, w, G)
  PROVE  OpenOrSuperseded'
<1>1. TypeOK /\ Dated /\ OpenOrSuperseded
  BY DEF IInv
<1> DEFINE Given(i, ty, u) ==
             \/ pending'[ty] # None /\ pending'[ty].trigger = u
             \/ \E j \in DOMAIN rows' : /\ rows'[j].pair = rows'[i].pair /\ rows'[j].type = ty
                                        /\ rows'[j].trigger >= u + Cooldown
<1>2. ASSUME NEW i \in DOMAIN rows', ~rows'[i].final
      PROVE  Given(i, rows'[i].type, rows'[i].trigger)
  <2>1. CASE i \notin DOMAIN rows
    <3>1. PICK ty \in F : /\ ty \in Types /\ ty \notin G /\ w[ty] # None /\ w[ty].trigger = s
                          /\ rows'[i].type = ty /\ rows'[i].trigger = s
      BY <2>1, NewRow
    <3>2. pending'[ty] = w[ty]
      BY <3>1 DEF BarDoes
    <3> QED
      BY <3>1, <3>2
  <2>2. CASE i \in DOMAIN rows
    <3>1. ~Completed(i, w, G) /\ rows'[i] = rows[i]
      BY <1>2, <2>2, OldRow
    <3>2. PICK p \in PairIds, ty \in Types, u \in Seconds :
            p = rows[i].pair /\ ty = rows[i].type /\ u = rows[i].trigger
      BY <2>2, OldRow
    <3>3. ~rows[i].final
      BY <1>2, <3>1
    <3>4. CASE pending[ty] # None /\ pending[ty].trigger = u
      <4>1. CASE ty \in F
        <5>1. PICK j : j = NewId(p, ty, F)
          OBVIOUS
        <5>2. j \in DOMAIN rows' /\ rows'[j] = PendingRow(p, ty, w[ty]) /\ w[ty].trigger = s
          BY <4>1, <5>1 DEF BarDoes, RowsNew, Step
        <5>3. last[ty] # None /\ u <= last[ty] /\ last[ty] \in Nat
          BY <1>1, <2>2, <3>2, Bounds DEF Dated, TypeOK
        <5>4. s - last[ty] >= Cooldown
          BY <4>1, <5>3 DEF BarDoes, Ready
        <5>5. s >= u + Cooldown
          <6>1. s \in Nat /\ u \in Nat
            BY <3>2, Bounds DEF BarDoes
          <6> QED
            BY <5>3, <5>4, <6>1, Bounds
        <5>6. rows'[j].pair = p /\ rows'[j].type = ty /\ rows'[j].trigger = s
          BY <5>2 DEF PendingRow
        <5> QED
          BY <3>1, <3>2, <5>2, <5>5, <5>6
      <4>2. CASE ty \notin F
        <5>1. w[ty] # None /\ w[ty].trigger = u
          BY <3>4, <4>2 DEF BarDoes, Step
        <5>2. ty \notin G
          BY <3>1, <3>2, <3>3, <5>1 DEF Completed
        <5>3. pending'[ty] = w[ty]
          BY <5>2 DEF BarDoes
        <5> QED
          BY <3>1, <3>2, <5>1, <5>3
      <4> QED
        BY <4>1, <4>2
    <3>5. CASE \E j \in DOMAIN rows : /\ rows[j].pair = p /\ rows[j].type = ty
                                      /\ rows[j].trigger >= u + Cooldown
      <4>1. PICK j \in DOMAIN rows : /\ rows[j].pair = p /\ rows[j].type = ty
                                     /\ rows[j].trigger >= u + Cooldown
        BY <3>5
      <4>2. /\ j \in DOMAIN rows' /\ rows'[j].pair = p /\ rows'[j].type = ty
            /\ rows'[j].trigger >= u + Cooldown
        BY <4>1, OldRow
      <4> QED
        BY <3>1, <3>2, <4>2
    <3> QED
      BY <1>1, <2>2, <3>2, <3>3, <3>4, <3>5 DEF OpenOrSuperseded
  <2> QED
    BY <2>1, <2>2
<1> QED
  BY <1>2 DEF OpenOrSuperseded

(* After a priced bar the rows and the watched shocks still tell the metric as it
   was. *)
LEMMA BarEpisodes ==
  ASSUME IInv, NEW s, NEW F, NEW w, NEW G, BarDoes(s, F, w, G)
  PROVE  Episodes'
<1>1. TypeOK /\ Dated /\ Episodes
  BY DEF IInv
<1>2. s \in Seconds /\ s \in Nat /\ second \in Nat /\ second < s
  BY Bounds DEF BarDoes
<1>3. ASSUME NEW ty \in Types, w[ty] # None
      PROVE  w[ty] \in PendingShock /\ Told(metrics'[ty], ty, w[ty])
  BY <1>3 DEF BarDoes, Step
<1>4. \A ty \in Types, u \in Seconds : u <= second => metrics'[ty][u] = metrics[ty][u]
  BY <1>2, Bounds DEF BarDoes
<1>5. ASSUME NEW i \in DOMAIN rows'
      PROVE  LET r == rows'[i]
             IN /\ Traced(metrics'[r.type], r.start, r.trigger)
                /\ r.final => Told(metrics'[r.type], r.type, r)
  <2>1. CASE i \notin DOMAIN rows
    <3>1. PICK ty \in F : /\ ty \in Types /\ w[ty] # None /\ w[ty].trigger = s
                          /\ rows'[i].type = ty /\ rows'[i].trigger = s
                          /\ rows'[i].start = w[ty].start /\ ~rows'[i].final
      BY <2>1, NewRow
    <3>2. Traced(metrics'[ty], w[ty].start, w[ty].trigger)
      BY <1>3, <3>1 DEF Told
    <3> QED
      BY <3>1, <3>2
  <2>2. CASE i \in DOMAIN rows /\ Completed(i, w, G)
    <3>1. PICK ty \in Types : /\ ty = rows[i].type /\ rows'[i].type = ty
                              /\ w[ty] # None /\ w[ty].trigger = rows'[i].trigger
                              /\ rows'[i].start = w[ty].start /\ rows'[i].peak = w[ty].peak
                              /\ rows'[i].magnitude = w[ty].magnitude
      BY <2>2, OldRow
    <3>2. Told(metrics'[ty], ty, w[ty])
      BY <1>3, <3>1
    <3> QED
      BY <3>1, <3>2 DEF Told
  <2>3. CASE i \in DOMAIN rows /\ ~Completed(i, w, G)
    <3>1. PICK r \in Row : r = rows[i] /\ rows'[i] = r
      BY <2>3, OldRow
    <3>2. PICK m, n : m = metrics[r.type] /\ n = metrics'[r.type]
      OBVIOUS
    <3>3. r.type \in Types /\ r.trigger \in Seconds /\ r.start \in Seconds
      BY DEF Row
    <3>4. Traced(m, r.start, r.trigger) /\ (r.final => Told(m, r.type, r))
      BY <1>1, <2>3, <3>1, <3>2 DEF Episodes
    <3>5. r.trigger <= second /\ (r.final => r.trigger + PeakWindow <= second)
      BY <1>1, <2>3, <3>1 DEF Dated
    <3>6. \A u \in Seconds : u <= second => n[u] = m[u]
      BY <1>4, <3>2, <3>3
    <3>7. Traced(n, r.start, r.trigger)
      <4>1. \A u \in Seconds : u <= r.trigger => n[u] = m[u]
        <5>1. r.trigger \in Nat
          BY <3>3, Bounds
        <5>2. \A u \in Seconds : u <= r.trigger => u <= second
          BY <1>2, <3>5, <5>1, Bounds
        <5> QED
          BY <3>6, <5>2
      <4> QED
        BY <3>3, <3>4, <4>1, TracedKept
    <3>8. ASSUME r.final, r.type \in Measured
          PROVE  PeakOf(n, r.trigger, r.peak, r.magnitude)
      <4>1. \A u \in Seconds : u <= r.trigger + PeakWindow => n[u] = m[u]
        <5>1. r.trigger \in Nat
          BY <3>3, Bounds
        <5>2. \A u \in Seconds : u <= r.trigger + PeakWindow => u <= second
          BY <1>2, <3>5, <3>8, <5>1, Bounds
        <5> QED
          BY <3>6, <5>2
      <4>2. PeakOf(m, r.trigger, r.peak, r.magnitude)
        BY <3>4, <3>8 DEF Told
      <4> QED
        BY <3>3, <4>1, <4>2, PeakKept
    <3> QED
      BY <3>1, <3>2, <3>7, <3>8 DEF Told
  <2> QED
    BY <2>1, <2>2, <2>3
<1>6. ASSUME NEW ty \in Types, pending'[ty] # None
      PROVE  Told(metrics'[ty], ty, pending'[ty])
  <2>1. pending'[ty] = w[ty] /\ w[ty] # None
    BY <1>6 DEF BarDoes
  <2> QED
    BY <1>3, <2>1
<1> QED
  BY <1>5, <1>6 DEF Episodes
-----------------------------------------------------------------------------
(* The engine starts without history, without rows and with the first id. *)
LEMMA InitInv == Init => IInv
<1> SUFFICES ASSUME Init PROVE IInv
  OBVIOUS
<1>1. DOMAIN rows = {} /\ rows = [i \in 1..(nextId - 1) |-> rows[i]]
  BY DEF Init
<1>2. TypeOK
  <2>1. rows \in [1..(nextId - 1) -> Row]
    BY <1>1 DEF Init
  <2> QED
    BY <2>1, ShockEngineAssumption DEF Init, TypeOK
<1>3. Dated
  BY <1>1 DEF Init, Dated
<1>4. IdsOfOpenRows
  BY <1>1 DEF Init, IdsOfOpenRows
<1>5. OpenOrSuperseded
  BY <1>1 DEF OpenOrSuperseded
<1>6. Episodes
  BY <1>1 DEF Init, Episodes
<1> QED
  BY <1>2, <1>3, <1>4, <1>5, <1>6 DEF IInv

(* A priced bar preserves the invariant. *)
LEMMA BarInv ==
  ASSUME IInv, NEW s \in Seconds, NEW readings \in [Types -> Readings], Bar(s, readings)
  PROVE  IInv'
<1>1. PICK F, w, G : BarDoes(s, F, w, G)
  BY BarIs
<1> QED
  BY <1>1, BarTypes, BarDated, BarIds, BarOpen, BarEpisodes DEF IInv

(* A bar without a price, at which on_bar returns at once, preserves the invariant. *)
LEMMA UnpricedBarInv ==
  ASSUME IInv, UnpricedBar
  PROVE  IInv'
<1>1. /\ second' = second + 1 /\ second < MaxSecond /\ metrics' = metrics /\ last' = last
      /\ pending' = pending /\ nextId' = nextId /\ ids' = ids /\ rows' = rows
  BY DEF UnpricedBar
<1>2. TypeOK /\ Dated /\ nextId > 0 /\ second \in Nat /\ MaxSecond \in Nat
  BY ShockEngineAssumption DEF IInv, Dated, TypeOK
<1>3. TypeOK'
  <2>1. second' \in 0..MaxSecond
    BY <1>1, <1>2
  <2> QED
    BY <1>1, <1>2, <2>1 DEF TypeOK
<1>4. Dated'
  <2>1. \A u \in Seconds : u > second' => u > second
    BY <1>1, <1>2, Bounds
  <2>2. \A k \in Nat : k <= second => k <= second'
    BY <1>1, <1>2
  <2>3. \A i \in DOMAIN rows :
          rows[i].trigger \in Nat /\ rows[i].trigger + PeakWindow \in Nat
    BY <1>2, RowsTypes, Bounds
  <2>4. \A ty \in Types : pending[ty] # None => pending[ty].trigger \in Nat
    BY <1>2, Bounds DEF TypeOK, PendingShock
  <2> QED
    BY <1>1, <1>2, <2>1, <2>2, <2>3, <2>4 DEF Dated
<1>5. IdsOfOpenRows'
  BY <1>1 DEF IInv, IdsOfOpenRows
<1>6. OpenOrSuperseded'
  BY <1>1 DEF IInv, OpenOrSuperseded
<1>7. Episodes'
  BY <1>1 DEF IInv, Episodes
<1> QED
  BY <1>3, <1>4, <1>5, <1>6, <1>7 DEF IInv

(* Every bar, and a stuttering step, preserves the invariant. *)
LEMMA NextInv == IInv /\ [Next]_vars => IInv'
<1> SUFFICES ASSUME IInv, [Next]_vars PROVE IInv'
  OBVIOUS
<1>1. ASSUME NEW s \in Seconds, NEW readings \in [Types -> Readings], Bar(s, readings)
      PROVE  IInv'
  BY <1>1, BarInv
<1>2. CASE UnpricedBar
  BY <1>2, UnpricedBarInv
<1>3. CASE UNCHANGED vars
  BY <1>3 DEF vars, IInv, TypeOK, Dated, IdsOfOpenRows, OpenOrSuperseded, Episodes
<1> QED
  BY <1>1, <1>2, <1>3 DEF Next
-----------------------------------------------------------------------------
(* The inductive invariant: types, dates, the map and the table, and the episodes that
   rows and watched shocks tell of. *)
THEOREM Invariance == Spec => []IInv
BY InitInv, NextInv, PTL DEF Spec

(* The types of the state; the rows are numbered without a gap, and an id in the map is
   the id of a row. *)
THEOREM ShockTypes == Spec => []TypeOK
<1>1. IInv => TypeOK
  BY DEF IInv
<1> QED
  BY <1>1, Invariance, PTL

(* pending_shocks holds exactly the ids of the rows that are not final, each under the
   pair, type and trigger of its row: an update finds its own row or none. *)
THEOREM IdsOfOpenRowsHolds == Spec => []IdsOfOpenRows
<1>1. IInv => IdsOfOpenRows
  BY DEF IInv
<1> QED
  BY <1>1, Invariance, PTL

(* A shock is watched, was finalised, or gave way to a later one of its type that fired
   after the cool-down. *)
THEOREM OpenOrSupersededHolds == Spec => []OpenOrSuperseded
<1>1. IInv => OpenOrSuperseded
  BY DEF IInv
<1> QED
  BY <1>1, Invariance, PTL

(* A row starts where its metric rose to the threshold for good, and a final row names
   the first and highest metric of its window. *)
THEOREM EpisodeTracedHolds == Spec => []EpisodeTraced
<1>1. IInv => EpisodeTraced
  <2> SUFFICES ASSUME IInv PROVE EpisodeTraced
    OBVIOUS
  <2>1. TypeOK /\ Episodes
    BY DEF IInv
  <2>2. StartTraced
    <3> SUFFICES ASSUME NEW i \in DOMAIN rows
                 PROVE  LET r == rows[i] IN Traced(metrics[r.type], r.start, r.trigger)
      BY DEF StartTraced, Traced, Point
    <3> QED
      BY <2>1 DEF Episodes
  <2>3. PeakOfWindow
    <3> SUFFICES ASSUME NEW i \in DOMAIN rows, rows[i].final, rows[i].type \in Measured
                 PROVE  LET r == rows[i] IN PeakOf(metrics[r.type], r.trigger, r.peak, r.magnitude)
      BY DEF PeakOfWindow, PeakOf, Shown
    <3> QED
      BY <2>1 DEF Episodes, Told
  <2> QED
    BY <2>2, <2>3 DEF EpisodeTraced
<1> QED
  BY <1>1, Invariance, PTL
-----------------------------------------------------------------------------
(* Row i stays as it is, or is completed: not before the window of its shock is over,
   and never again. *)
CompletedOnce(i) ==
  /\ i \in DOMAIN rows'
  /\ rows'[i] # rows[i] =>
       /\ ~rows[i].final /\ rows'[i].final
       /\ second' >= rows[i].trigger + PeakWindow
       /\ rows'[i].pair = rows[i].pair /\ rows'[i].type = rows[i].type
       /\ rows'[i].trigger = rows[i].trigger

(* What happens to the rows that emit_result inserted. *)
RowsCompletedOnce == [][\A i \in DOMAIN rows : CompletedOnce(i)]_vars

(* The update of a row comes when the window of its own shock is over, and only once: no
   later shock of the type, nor one of another pair, is written into it. *)
THEOREM RowsCompletedOnceHolds == Spec => RowsCompletedOnce
<1>1. ASSUME IInv, NEW s \in Seconds, NEW readings \in [Types -> Readings], Bar(s, readings),
             NEW i \in DOMAIN rows
      PROVE  CompletedOnce(i)
  <2>1. PICK F, w, G : BarDoes(s, F, w, G)
    BY <1>1, BarIs
  <2>2. CASE ~Completed(i, w, G)
    BY <1>1, <2>1, <2>2, OldRow DEF CompletedOnce
  <2>3. CASE Completed(i, w, G)
    <3>1. ~rows[i].final /\ rows[i].type \in G /\ w[rows[i].type].trigger = rows[i].trigger
      BY <2>3 DEF Completed
    <3>2. second' = s /\ \A ty \in G : s >= w[ty].trigger + PeakWindow
      BY <2>1 DEF BarDoes, Step
    <3>3. second' >= rows[i].trigger + PeakWindow
      BY <3>1, <3>2
    <3> QED
      BY <1>1, <2>1, <2>3, <3>1, <3>3, OldRow DEF CompletedOnce
  <2> QED
    BY <2>2, <2>3
<1>2. rows' = rows => \A i \in DOMAIN rows : CompletedOnce(i)
  BY DEF CompletedOnce
<1>3. IInv /\ Next => \A i \in DOMAIN rows : CompletedOnce(i)
  BY <1>1, <1>2 DEF Next, UnpricedBar
<1>4. IInv /\ [Next]_vars => [\A i \in DOMAIN rows : CompletedOnce(i)]_vars
  BY <1>3
<1> QED
  BY <1>4, Invariance, PTL DEF Spec, RowsCompletedOnce
==============================================================================
