--------------------------- MODULE TradeRiskProofs ---------------------------
(***************************************************************************)
(* Safety of TradeRisk, for every set of engines and pairs, configuration, *)
(* size of the caps and interleaving of the engines.                       *)
(***************************************************************************)
EXTENDS TradeRisk, TLAPS, FiniteSetTheorems, WellFoundedInduction

(* The sum of f over a set. *)
Total(f, S) == MapThenSumSet(LAMBDA x : f[x], S)

(* What a pair holds by its own figure is part of what it entered. *)
Figure(k) ==
  /\ k.st = "Placing" => 0 < k.size /\ k.notional = k.size
  /\ k.st = "Working" => 0 < k.notional /\ k.notional <= k.size
  /\ k.st \in {"Idle", "Cooldown"} => k.size = 0 /\ k.notional = 0
Figures == \A p \in Pairs : Figure(state[p])

(* What the pairs that work have entered for a strategy. *)
Charged(a) ==
  [p \in Pairs |-> IF state[p].st = "Working" /\ state[p].alpha = a THEN state[p].size ELSE 0]

(* The three ledgers agree, and cover what the pairs may give back: all that they
   entered, since a fill may still raise their figures to it. *)
Ledgers ==
  /\ risk.used = risk.strategy["ShockA"] + risk.strategy["GapB"]
  /\ risk.used = Total(pairUsed, Pairs)
  /\ \A a \in Alphas : Total(Charged(a), Pairs) <= risk.strategy[a]
  /\ \A p \in Pairs : state[p].st = "Working" => state[p].size <= pairUsed[p]
  /\ risk.open = Cardinality(Working)

(* An engine holds entries of its own pairs only, and the pair of the entry that it
   is about to make has stayed idle. *)
Own(e, p) == p \in DOMAIN config.engineOf /\ config.engineOf[p] = e
Owner(e) == \E p \in Pairs : Own(e, p)
EntriesOf(e) ==
  /\ pending[e].second # None => Owner(e)
  /\ Flushing(e) => Owner(e)
  /\ \A x \in pending[e].entries \cup flush[e].todo : Own(e, x.pair)
  /\ flush[e].entry # None =>
       Flushing(e) /\ Own(e, flush[e].entry.pair) /\ state[flush[e].entry.pair].st = "Idle"
Entries == \A e \in Engines : EntriesOf(e)

(* What is booked is within the caps ... *)
Booked ==
  /\ \A p \in Pairs : state[p].st # "Placing"
  /\ risk.used <= GlobalCap /\ risk.open <= MaxOpen
  /\ \A p \in Pairs : pairUsed[p] <= PairCap
  /\ \A a \in Alphas : risk.strategy[a] <= StrategyCap

(* ... what an engine has entered is gone from the pool of its second, and what it is
   about to enter still fits. *)
Fits(x, n) ==
  /\ risk.open < MaxOpen /\ n <= risk.left
  /\ risk.used + n <= GlobalCap
  /\ pairUsed[x.pair] + n <= PairCap
  /\ risk.strategy[x.alpha] + n <= StrategyCap
FlushFits(e) ==
  /\ flush[e].entered <= Pool
  /\ Flushing(e) => risk.second = flush[e].second /\ flush[e].entered + risk.left <= Pool
  /\ flush[e].entry # None => Fits(flush[e].entry, flush[e].notional)

(* Alone, an engine finds the caps as it left them when it fixed the budget. *)
Caps == Alone => Booked /\ \A e \in Engines : FlushFits(e)

IInv == TypeOK /\ Figures /\ Ledgers /\ Entries /\ Caps
-----------------------------------------------------------------------------
(* Sums over finite sets. *)

LEMMA LeastNat ==
  ASSUME NEW B \in SUBSET Nat, B # {}
  PROVE  \E m \in B : \A k \in B : m <= k
<1>1. PICK m \in B : \A k \in B : ~(<<k, m>> \in OpToRel(<, Nat))
  BY NatLessThanWellFounded, WFMin
<1>2. ASSUME NEW k \in B PROVE m <= k
  <2>1. ~(k < m)
    BY <1>1 DEF OpToRel
  <2> QED
    BY <2>1
<1> QED
  BY <1>2

(* Of some subsets of a finite set one contains no other. *)
LEMMA LeastSubset ==
  ASSUME NEW S, IsFiniteSet(S), NEW B \in SUBSET (SUBSET S), B # {}
  PROVE  \E s \in B : \A t \in SUBSET s : t # s => t \notin B
<1> DEFINE N == {n \in Nat : \E s \in B : Cardinality(s) = n}
<1>1. \A s \in SUBSET S : IsFiniteSet(s) /\ Cardinality(s) \in Nat
  BY FS_Subset, FS_CardinalityType
<1>2. N # {}
  BY <1>1
<1>3. PICK m \in N : \A k \in N : m <= k
  BY <1>2, LeastNat
<1>4. PICK s \in B : Cardinality(s) = m
  OBVIOUS
<1>5. ASSUME NEW t \in SUBSET s, t # s, t \in B
      PROVE  FALSE
  <2>1. IsFiniteSet(s) /\ Cardinality(s) \in Nat /\ Cardinality(t) \in Nat
    BY <1>1, <1>5
  <2>2. Cardinality(t) <= Cardinality(s) /\ Cardinality(t) # Cardinality(s)
    BY <1>5, <2>1, FS_Subset
  <2>3. Cardinality(t) \in N
    BY <1>5, <2>1
  <2> QED
    BY <1>3, <1>4, <2>1, <2>2, <2>3
<1> QED
  BY <1>5

Pick(s) == CHOOSE x \in s : TRUE

(* One element after the other. *)
Adds(g, f, S) == [s \in SUBSET S |-> IF s = {} THEN 0 ELSE f[Pick(s)] + g[s \ {Pick(s)}]]

(* The element picked from a set is one of it. *)
LEMMA PickIn ==
  ASSUME NEW s, s # {}
  PROVE  Pick(s) \in s
BY DEF Pick

(* The function that adds one element after the other, over the subsets of S,
   exists. *)
LEMMA SumExists ==
  ASSUME NEW S, IsFiniteSet(S), NEW f
  PROVE  \E g : g = Adds(g, f, S)
<1> DEFINE Good(g, n) == \A s \in SUBSET S : Cardinality(s) <= n => g[s] = Adds(g, f, S)[s]
           B == {n \in Nat : ~\E g : g = [s \in SUBSET S |-> g[s]] /\ Good(g, n)}
<1>1. \A s \in SUBSET S : IsFiniteSet(s) /\ Cardinality(s) \in Nat
  BY FS_Subset, FS_CardinalityType
<1>2. ASSUME B # {} PROVE FALSE
  <2>1. PICK m \in B : \A k \in B : m <= k
    BY <1>2, LeastNat
  <2>2. CASE m = 0
    <3> DEFINE g == [s \in SUBSET S |-> 0]
    <3>1. ASSUME NEW s \in SUBSET S, Cardinality(s) <= 0
          PROVE  g[s] = Adds(g, f, S)[s]
      <4>1. s = {}
        BY <1>1, <3>1, FS_EmptySet
      <4> QED
        BY <4>1 DEF Adds
    <3>2. g = [s \in SUBSET S |-> g[s]]
      OBVIOUS
    <3> QED
      BY <2>1, <2>2, <3>1, <3>2
  <2>3. CASE m # 0
    <3>0. B \subseteq Nat
      OBVIOUS
    <3> HIDE DEF B
    <3>1. m - 1 \in Nat /\ m - 1 \notin B
      BY <2>1, <2>3, <3>0
    <3> USE DEF B
    <3>2. PICK g : g = [s \in SUBSET S |-> g[s]] /\ Good(g, m - 1)
      BY <3>1
    <3> DEFINE h == Adds(g, f, S)
    <3>3. ASSUME NEW s \in SUBSET S, Cardinality(s) <= m
          PROVE  h[s] = Adds(h, f, S)[s]
      <4>1. CASE s = {}
        BY <4>1 DEF Adds
      <4>2. CASE s # {}
        <5> DEFINE t == s \ {Pick(s)}
        <5>1. Cardinality(t) <= m - 1 /\ t \in SUBSET S
          BY <1>1, <3>3, <4>2, PickIn, FS_RemoveElement
        <5>2. h[t] = g[t]
          BY <3>2, <5>1
        <5> HIDE DEF t
        <5>3. h[s] = f[Pick(s)] + g[t] /\ Adds(h, f, S)[s] = f[Pick(s)] + h[t]
          BY <4>2 DEF Adds, t
        <5> QED
          BY <5>2, <5>3
      <4> QED
        BY <4>1, <4>2
    <3>4. h = [s \in SUBSET S |-> h[s]]
      BY DEF Adds
    <3> HIDE DEF h
    <3>5. Good(h, m)
      BY <3>3
    <3> QED
      BY <2>1, <3>4, <3>5
  <2> QED
    BY <2>2, <2>3
<1>3. Cardinality(S) \in Nat /\ Cardinality(S) \notin B
  BY <1>1, <1>2
<1>4. PICK g : g = [s \in SUBSET S |-> g[s]] /\ Good(g, Cardinality(S))
  BY <1>3
<1>5. ASSUME NEW s \in SUBSET S
      PROVE  g[s] = Adds(g, f, S)[s]
  <2>1. Cardinality(s) <= Cardinality(S)
    BY FS_Subset
  <2> QED
    BY <1>4, <2>1
<1>6. g = Adds(g, f, S)
  <2>1. Adds(g, f, S) = [s \in SUBSET S |-> Adds(g, f, S)[s]]
    BY DEF Adds
  <2> QED
    BY <1>4, <1>5, <2>1
<1> QED
  BY <1>6

(* g holds the sums over the subsets of S. *)
Sums(g, f, S) ==
  \A s \in SUBSET S : g[s] = IF s = {} THEN 0 ELSE f[Pick(s)] + g[s \ {Pick(s)}]

(* A total is computed one element after the other. *)
LEMMA TotalDef ==
  ASSUME NEW S, IsFiniteSet(S), NEW f
  PROVE  \E g : Total(f, S) = g[S] /\ Sums(g, f, S)
<1> DEFINE g == CHOOSE h : h = Adds(h, f, S)
<1>1. g = Adds(g, f, S)
  BY SumExists
<1>2. Total(f, S) = g[S]
  BY DEF Total, MapThenSumSet, MapThenFoldSet, Adds, Pick
<1> HIDE DEF g
<1>3. Sums(g, f, S)
  BY <1>1 DEF Adds, Sums
<1> QED
  BY <1>2, <1>3

(* What the empty set has, and a set has when it does without the element picked,
   the whole set has. *)
LEMMA SumInduction ==
  ASSUME NEW S, IsFiniteSet(S), NEW F \in SUBSET (SUBSET S), {} \in F,
         \A s \in SUBSET S : s # {} /\ s \ {Pick(s)} \in F => s \in F
  PROVE  S \in F
<1> DEFINE B == (SUBSET S) \ F
<1>1. ASSUME NEW s \in B PROVE \E t \in SUBSET s : t # s /\ t \in B
  <2>1. s # {} /\ s \in SUBSET S /\ s \notin F
    OBVIOUS
  <2>2. Pick(s) \in s
    BY <2>1, PickIn
  <2> DEFINE t == s \ {Pick(s)}
  <2>3. t \notin F
    BY <2>1
  <2>4. t \in SUBSET s /\ t # s /\ t \in SUBSET S
    BY <2>1, <2>2
  <2> HIDE DEF t
  <2> QED
    BY <2>3, <2>4
<1>2. B \in SUBSET (SUBSET S)
  OBVIOUS
<1> HIDE DEF B
<1>3. B = {}
  BY <1>1, <1>2, LeastSubset
<1> QED
  BY <1>3 DEF B

(* A total of numbers is a number, and no part exceeds it. *)
LEMMA TotalNat ==
  ASSUME NEW S, IsFiniteSet(S), NEW f \in [S -> Nat]
  PROVE  /\ Total(f, S) \in Nat
         /\ \A p \in S : f[p] <= Total(f, S)
<1>1. PICK g : Total(f, S) = g[S] /\ Sums(g, f, S)
  BY TotalDef
<1> DEFINE Fine(s) == g[s] \in Nat /\ \A p \in s : f[p] <= g[s]
           F == {s \in SUBSET S : Fine(s)}
<1>2. {} \in F
  <2>1. g[{}] = 0
    BY <1>1 DEF Sums
  <2> QED
    BY <2>1
<1>3. ASSUME NEW s \in SUBSET S, s # {}, s \ {Pick(s)} \in F
      PROVE  s \in F
  <2>1. Pick(s) \in s
    BY <1>3, PickIn
  <2> DEFINE t == s \ {Pick(s)}
  <2>2. Fine(t)
    BY <1>3
  <2>3. g[s] = f[Pick(s)] + g[t] /\ f[Pick(s)] \in Nat
    BY <1>1, <1>3, <2>1 DEF Sums
  <2>4. \A p \in s : p = Pick(s) \/ (p \in t /\ f[p] \in Nat)
    OBVIOUS
  <2> HIDE DEF t
  <2>5. Fine(s)
    BY <2>2, <2>3, <2>4
  <2> QED
    BY <2>5
<1>4. F \in SUBSET (SUBSET S)
  OBVIOUS
<1> HIDE DEF F
<1>5. S \in F
  BY <1>2, <1>3, <1>4, SumInduction
<1>6. Fine(S)
  BY <1>5 DEF F
<1> QED
  BY <1>1, <1>6

(* A total of zeros. *)
LEMMA TotalZero ==
  ASSUME NEW S, IsFiniteSet(S), NEW f, \A p \in S : f[p] = 0
  PROVE  Total(f, S) = 0
<1>1. PICK g : Total(f, S) = g[S] /\ Sums(g, f, S)
  BY TotalDef
<1> DEFINE F == {s \in SUBSET S : g[s] = 0}
<1>2. {} \in F
  BY <1>1 DEF Sums
<1>3. ASSUME NEW s \in SUBSET S, s # {}, s \ {Pick(s)} \in F
      PROVE  s \in F
  <2>1. f[Pick(s)] = 0 /\ g[s \ {Pick(s)}] = 0
    BY <1>3, PickIn
  <2>2. g[s] = f[Pick(s)] + g[s \ {Pick(s)}]
    BY <1>1, <1>3 DEF Sums
  <2> QED
    BY <2>1, <2>2
<1>4. F \in SUBSET (SUBSET S)
  OBVIOUS
<1> HIDE DEF F
<1>5. S \in F
  BY <1>2, <1>3, <1>4, SumInduction
<1> QED
  BY <1>1, <1>5 DEF F

(* A sum follows the change of one member. *)
LEMMA TotalChange ==
  ASSUME NEW S, IsFiniteSet(S), NEW f \in [S -> Nat], NEW h \in [S -> Nat],
         NEW p \in S, \A q \in S : q # p => h[q] = f[q]
  PROVE  Total(h, S) = Total(f, S) - f[p] + h[p]
<1>1. PICK g : Total(f, S) = g[S] /\ Sums(g, f, S)
  BY TotalDef
<1>2. PICK k : Total(h, S) = k[S] /\ Sums(k, h, S)
  BY TotalDef
<1> DEFINE Fine(s) ==
             /\ g[s] \in Int /\ k[s] \in Int
             /\ p \in s => k[s] = g[s] - f[p] + h[p]
             /\ p \notin s => k[s] = g[s]
           F == {s \in SUBSET S : Fine(s)}
<1>3. {} \in F
  <2>1. g[{}] = 0 /\ k[{}] = 0
    BY <1>1, <1>2 DEF Sums
  <2> QED
    BY <2>1
<1>4. ASSUME NEW s \in SUBSET S, s # {}, s \ {Pick(s)} \in F
      PROVE  s \in F
  <2>1. Pick(s) \in s
    BY <1>4, PickIn
  <2> DEFINE t == s \ {Pick(s)}
  <2>2. Fine(t)
    BY <1>4
  <2>3. g[s] = f[Pick(s)] + g[t] /\ k[s] = h[Pick(s)] + k[t]
    BY <1>1, <1>2, <1>4 DEF Sums
  <2>4. /\ f[Pick(s)] \in Nat /\ h[Pick(s)] \in Nat
        /\ f[p] \in Nat /\ h[p] \in Nat
        /\ Pick(s) # p => h[Pick(s)] = f[Pick(s)]
    BY <2>1
  <2>5. (p \in s <=> p = Pick(s) \/ p \in t) /\ Pick(s) \notin t
    BY <2>1
  <2> HIDE DEF t
  <2>6. Fine(s)
    BY <2>2, <2>3, <2>4, <2>5
  <2> QED
    BY <2>6
<1>5. F \in SUBSET (SUBSET S)
  OBVIOUS
<1> HIDE DEF F
<1>6. S \in F
  BY <1>3, <1>4, <1>5, SumInduction
<1>7. Fine(S)
  BY <1>6 DEF F
<1> QED
  BY <1>1, <1>2, <1>7

(* The total over the two strategies. *)
LEMMA TotalAlphas ==
  ASSUME NEW f \in [Alphas -> Nat]
  PROVE  Total(f, Alphas) = f["ShockA"] + f["GapB"]
<1>1. IsFiniteSet(Alphas)
  <2>1. IsFiniteSet({"ShockA"})
    BY FS_Singleton
  <2>2. Alphas = {"ShockA"} \cup {"GapB"}
    BY DEF Alphas
  <2> QED
    BY <2>1, <2>2, FS_AddElement
<1>2. PICK g : Total(f, Alphas) = g[Alphas] /\ Sums(g, f, Alphas)
  BY <1>1, TotalDef
<1>3. f["ShockA"] \in Nat /\ f["GapB"] \in Nat
  BY DEF Alphas
<1>4. ASSUME NEW x \in Alphas
      PROVE  g[{x}] = f[x]
  <2>1. Pick({x}) = x /\ {x} \ {x} = {} /\ {x} \in SUBSET Alphas
    BY PickIn
  <2>2. g[{}] = 0
    BY <1>2 DEF Sums
  <2>3. g[{x}] = f[x] + g[{}]
    BY <1>2, <2>1 DEF Sums
  <2> QED
    BY <2>2, <2>3
<1>5. Pick(Alphas) \in Alphas /\ Alphas # {}
  BY PickIn DEF Alphas
<1>6. g[Alphas] = f[Pick(Alphas)] + g[Alphas \ {Pick(Alphas)}]
  BY <1>2, <1>5 DEF Sums
<1>7. CASE Pick(Alphas) = "ShockA"
  <2>1. Alphas \ {Pick(Alphas)} = {"GapB"} /\ "GapB" \in Alphas
    BY <1>7 DEF Alphas
  <2>2. g[{"GapB"}] = f["GapB"]
    BY <1>4, <2>1
  <2> QED
    BY <1>2, <1>6, <1>7, <2>1, <2>2
<1>8. CASE Pick(Alphas) = "GapB"
  <2>1. Alphas \ {Pick(Alphas)} = {"ShockA"} /\ "ShockA" \in Alphas
    BY <1>8 DEF Alphas
  <2>2. g[{"ShockA"}] = f["ShockA"]
    BY <1>4, <2>1
  <2>3. g[Alphas] = f["GapB"] + f["ShockA"]
    BY <1>6, <1>8, <2>1, <2>2
  <2> QED
    BY <1>2, <1>3, <2>3
<1> QED
  BY <1>5, <1>7, <1>8 DEF Alphas
-----------------------------------------------------------------------------
(* What a budget leaves. *)

LEMMA BudgetFits ==
  ASSUME NEW r \in [used : Nat, open : Nat, strategy : [Alphas -> Nat],
                    second : Seconds \cup {None}, left : 0..Pool],
         NEW p \in Pairs, NEW a \in Alphas, pairUsed \in [Pairs -> Nat],
         Budget(r, p, a) > 0
  PROVE  /\ Budget(r, p, a) \in 1..TradeCap
         /\ r.open < MaxOpen
         /\ Budget(r, p, a) <= r.left
         /\ r.used + Budget(r, p, a) <= GlobalCap
         /\ pairUsed[p] + Budget(r, p, a) <= PairCap
         /\ r.strategy[a] + Budget(r, p, a) <= StrategyCap
<1> DEFINE L == {TradeCap, r.left, GlobalCap - r.used, PairCap - pairUsed[p],
                 StrategyCap - r.strategy[a]}
<1>1. /\ {MaxOpen, GlobalCap, PairCap, StrategyCap, Pool, TradeCap} \subseteq Nat \ {0}
      /\ r.used \in Nat /\ r.open \in Nat /\ r.strategy[a] \in Nat /\ r.left \in Nat
      /\ pairUsed[p] \in Nat
  BY TradeRiskAssumption
<1>2. ASSUME NEW x \in Int, NEW y \in Int
      PROVE  \E m \in {x, y} : m <= x /\ m <= y
  <2>1. x <= y \/ y <= x
    OBVIOUS
  <2> QED
    BY <2>1
<1>3. L \subseteq Int
  BY <1>1
<1>4. \E m \in L : \A y \in L : m <= y
  <2>1. PICK u \in {TradeCap, r.left} : u <= TradeCap /\ u <= r.left
    BY <1>1, <1>2
  <2>2. PICK v \in {GlobalCap - r.used, PairCap - pairUsed[p]} :
          v <= GlobalCap - r.used /\ v <= PairCap - pairUsed[p]
    BY <1>1, <1>2
  <2>3. PICK w \in {u, v} : w <= u /\ w <= v
    BY <1>1, <1>2
  <2>4. PICK m \in {w, StrategyCap - r.strategy[a]} : m <= w /\ m <= StrategyCap - r.strategy[a]
    BY <1>1, <1>2
  <2>5. m \in L
    BY <2>1, <2>2, <2>3, <2>4
  <2>6. m <= TradeCap /\ m <= r.left /\ m <= GlobalCap - r.used /\ m <= PairCap - pairUsed[p]
    BY <1>1, <2>1, <2>2, <2>3, <2>4
  <2> QED
    BY <2>4, <2>5, <2>6
<1> HIDE DEF L
<1>5. Min(L) \in L /\ \A y \in L : Min(L) <= y
  BY <1>4 DEF Min
<1>6. /\ r.open < MaxOpen
      /\ Budget(r, p, a) = Max2(0, Min(L))
  BY <1>1 DEF Budget, L
<1>7. Budget(r, p, a) = Min(L) /\ Min(L) \in Nat
  <2>1. Min(L) \in Int
    BY <1>3, <1>5
  <2> QED
    BY <1>6, <2>1 DEF Max2
<1>8. /\ Min(L) <= TradeCap /\ Min(L) <= r.left /\ Min(L) <= GlobalCap - r.used
      /\ Min(L) <= PairCap - pairUsed[p] /\ Min(L) <= StrategyCap - r.strategy[a]
  BY <1>5 DEF L
<1> QED
  BY <1>1, <1>6, <1>7, <1>8
-----------------------------------------------------------------------------
(* The types of the parts, and what a step of an engine leaves alone. *)

Risks == [used : Nat, open : Nat, strategy : [Alphas -> Nat],
          second : Seconds \cup {None}, left : 0..Pool]
PairStates == [st : {"Idle", "Placing", "Working", "Cooldown"},
               size : 0..(2 * TradeCap), notional : 0..(2 * TradeCap),
               alpha : Alphas, second : Seconds]
Flushes == [second : Seconds \cup {None}, todo : SUBSET Entry,
            entry : Entry \cup {None}, notional : 0..TradeCap, entered : Nat]
Pendings == [second : Seconds \cup {None}, entries : SUBSET Entry]

(* What the assumptions on the constants say of the caps. *)
LEMMA Caps0 ==
  /\ MaxOpen \in Nat /\ GlobalCap \in Nat /\ PairCap \in Nat /\ StrategyCap \in Nat
  /\ Pool \in Nat /\ TradeCap \in Nat /\ MaxSecond \in Nat
  /\ MaxOpen > 0 /\ MaxSecond > 0 /\ TradeCap > 0 /\ None \notin Nat
BY TradeRiskAssumption

(* An idle pair and one that cools down. *)
LEMMA Idles ==
  /\ IdlePair \in PairStates /\ IdlePair.st = "Idle"
  /\ [IdlePair EXCEPT !.st = "Cooldown"] \in PairStates
  /\ [IdlePair EXCEPT !.st = "Cooldown"].st = "Cooldown"
  /\ Figure(IdlePair) /\ Figure([IdlePair EXCEPT !.st = "Cooldown"])
<1>1. 1 \in Seconds /\ 0 \in 0..(2 * TradeCap) /\ "GapB" \in Alphas
  BY Caps0 DEF Alphas, Seconds
<1>2. IdlePair \in PairStates
  BY <1>1 DEF IdlePair, PairStates
<1>3. IdlePair.st = "Idle" /\ IdlePair.size = 0 /\ IdlePair.notional = 0
  BY DEF IdlePair
<1> QED
  BY <1>2, <1>3 DEF PairStates, Figure

(* The pool is refilled in a new second, and nothing but the pool changes. *)
LEMMA PoolResetType ==
  ASSUME NEW r \in Risks, NEW s \in Seconds
  PROVE  /\ PoolReset(r, s) \in Risks
         /\ PoolReset(r, s).used = r.used /\ PoolReset(r, s).open = r.open
         /\ PoolReset(r, s).strategy = r.strategy /\ PoolReset(r, s).second = s
         /\ r.second = s => PoolReset(r, s) = r
         /\ r.second # s => PoolReset(r, s).left = Pool
<1>1. s \in Seconds \cup {None} /\ Pool \in 0..Pool
  BY Caps0
<1>2. CASE r.second = s
  BY <1>2 DEF PoolReset
<1>3. CASE r.second # s
  BY <1>1, <1>3 DEF PoolReset, Risks
<1> QED
  BY <1>2, <1>3

(* A reservation takes from the pool of its second only. *)
LEMMA PoolReservedType ==
  ASSUME NEW r \in Risks, NEW s \in Seconds, NEW n \in Nat
  PROVE  /\ PoolReserved(r, s, n) \in Risks
         /\ PoolReserved(r, s, n).used = r.used /\ PoolReserved(r, s, n).open = r.open
         /\ PoolReserved(r, s, n).strategy = r.strategy
         /\ PoolReserved(r, s, n).second = s
         /\ r.second = s /\ n <= r.left => PoolReserved(r, s, n).left = r.left - n
<1> DEFINE q == PoolReset(r, s)
<1>1. /\ q \in Risks
      /\ q.used = r.used /\ q.open = r.open /\ q.strategy = r.strategy /\ q.second = s
      /\ r.second = s => q = r
  BY PoolResetType
<1>2. PoolReserved(r, s, n) = [q EXCEPT !.left = Max2(q.left - n, 0)]
  BY DEF PoolReserved
<1> HIDE DEF q
<1>3. q.left \in 0..Pool
  BY <1>1 DEF Risks
<1>4. Max2(q.left - n, 0) \in 0..Pool /\ (n <= q.left => Max2(q.left - n, 0) = q.left - n)
  BY <1>3, Caps0 DEF Max2
<1> QED
  BY <1>1, <1>2, <1>4 DEF Risks

(* Giving back a reservation changes the pool only. *)
LEMMA PoolReleasedType ==
  ASSUME NEW r \in Risks, NEW s \in Seconds, NEW n \in Nat
  PROVE  /\ PoolReleased(r, s, n) \in Risks
         /\ PoolReleased(r, s, n).used = r.used /\ PoolReleased(r, s, n).open = r.open
         /\ PoolReleased(r, s, n).strategy = r.strategy
<1> DEFINE q == PoolReset(r, s)
<1>1. /\ q \in Risks
      /\ q.used = r.used /\ q.open = r.open /\ q.strategy = r.strategy
  BY PoolResetType
<1>2. PoolReleased(r, s, n) = [q EXCEPT !.left = Min2(q.left + n, Pool)]
  BY DEF PoolReleased
<1> HIDE DEF q
<1>3. q.left \in 0..Pool
  BY <1>1 DEF Risks
<1>4. Min2(q.left + n, Pool) \in 0..Pool
  BY <1>3, Caps0 DEF Min2
<1> QED
  BY <1>1, <1>2, <1>4 DEF Risks

(* An entry is booked in the used notional, the open count and its strategy. *)
LEMMA AddedType ==
  ASSUME NEW r \in Risks, NEW n \in Nat, NEW a \in Alphas
  PROVE  /\ Added(r, n, a) \in Risks
         /\ Added(r, n, a).used = r.used + n /\ Added(r, n, a).open = r.open + 1
         /\ Added(r, n, a).strategy = [r.strategy EXCEPT ![a] = @ + n]
         /\ Added(r, n, a).second = r.second /\ Added(r, n, a).left = r.left
<1>1. r.strategy[a] + n \in Nat /\ r.used + n \in Nat /\ r.open + 1 \in Nat
  BY DEF Risks
<1> QED
  BY <1>1 DEF Added, Risks

(* A trade that ends takes out what its entry had booked. *)
LEMMA ReleasedType ==
  ASSUME NEW r \in Risks, NEW n \in Nat, NEW a \in Alphas,
         n <= r.used, n <= r.strategy[a], 1 <= r.open
  PROVE  /\ Released(r, n, a) \in Risks
         /\ Released(r, n, a).used = r.used - n /\ Released(r, n, a).open = r.open - 1
         /\ Released(r, n, a).strategy = [r.strategy EXCEPT ![a] = @ - n]
         /\ Released(r, n, a).second = r.second /\ Released(r, n, a).left = r.left
<1>1. r.strategy[a] \in Nat /\ r.used \in Nat /\ r.open \in Nat
  BY DEF Risks
<1>2. /\ Max2(r.used - n, 0) = r.used - n /\ r.used - n \in Nat
      /\ Max2(r.open - 1, 0) = r.open - 1 /\ r.open - 1 \in Nat
      /\ Max2(r.strategy[a] - n, 0) = r.strategy[a] - n /\ r.strategy[a] - n \in Nat
  BY <1>1 DEF Max2
<1>3. Released(r, n, a) =
        [r EXCEPT !.used = r.used - n, !.open = r.open - 1, !.strategy[a] = r.strategy[a] - n]
  BY <1>2 DEF Released
<1> HIDE DEF Released
<1>4. /\ Released(r, n, a).used = r.used - n /\ Released(r, n, a).open = r.open - 1
      /\ Released(r, n, a).strategy = [r.strategy EXCEPT ![a] = r.strategy[a] - n]
      /\ Released(r, n, a).second = r.second /\ Released(r, n, a).left = r.left
  BY <1>3 DEF Risks
<1>5. [r.strategy EXCEPT ![a] = r.strategy[a] - n] \in [Alphas -> Nat]
  BY <1>2 DEF Risks
<1>6. Released(r, n, a) \in Risks
  BY <1>2, <1>3, <1>5 DEF Risks
<1> QED
  BY <1>4, <1>6

(* The parts of the type invariant. *)
LEMMA Types ==
  ASSUME TypeOK
  PROVE  /\ config \in Configs /\ risk \in Risks /\ pairUsed \in [Pairs -> Nat]
         /\ state \in [Pairs -> PairStates] /\ pending \in [Engines -> Pendings]
         /\ flush \in [Engines -> Flushes]
BY DEF TypeOK, Risks, PairStates, Pendings, Flushes

(* Its parts give the type invariant of the next state. *)
LEMMA Typed ==
  ASSUME config' \in Configs, risk' \in Risks, pairUsed' \in [Pairs -> Nat],
         state' \in [Pairs -> PairStates], pending' \in [Engines -> Pendings],
         flush' \in [Engines -> Flushes]
  PROVE  TypeOK'
BY DEF TypeOK, Risks, PairStates, Pendings, Flushes

(* A pair of an engine is a pair, and its engine an engine. *)
LEMMA Owned ==
  ASSUME TypeOK, NEW e, NEW p, Own(e, p)
  PROVE  p \in Pairs /\ e \in Engines /\ Owner(e)
BY TradeRiskAssumption DEF TypeOK, Own, Owner

(* A pair has one engine, and alone there is one engine that has pairs. *)
LEMMA OneOwner ==
  ASSUME NEW e, NEW f, NEW p, Own(e, p), Own(f, p)
  PROVE  e = f
BY DEF Own

(* When one engine owns all the pairs no other owns any. *)
LEMMA OneEngine ==
  ASSUME Alone, NEW e, NEW f, Owner(e), Owner(f)
  PROVE  e = f
BY DEF Alone, Owner, Own

(* The entries of an engine the step does not touch stay its own, of idle pairs. *)
LEMMA EntriesOther ==
  ASSUME config' = config, NEW e \in Engines, EntriesOf(e),
         pending'[e] = pending[e], flush'[e] = flush[e],
         flush[e].entry # None /\ state[flush[e].entry.pair].st = "Idle" =>
           state'[flush[e].entry.pair].st = "Idle"
  PROVE  EntriesOf(e)'
BY DEF EntriesOf, Own, Owner, Flushing

(* What is charged to the pairs of a strategy is a number for each. *)
LEMMA ChargedTypes ==
  ASSUME TypeOK, NEW a \in Alphas
  PROVE  Charged(a) \in [Pairs -> Nat]
<1>1. \A p \in Pairs : state[p].size \in Nat
  BY Caps0 DEF TypeOK
<1> QED
  BY <1>1 DEF Charged

(* Finitely many pairs hold an entry or a position. *)
LEMMA WorkingFinite ==
  /\ IsFiniteSet(Pairs)
  /\ IsFiniteSet(Working) /\ Cardinality(Working) \in Nat
  /\ IsFiniteSet(Working') /\ Cardinality(Working') \in Nat
<1>1. IsFiniteSet(Pairs)
  BY TradeRiskAssumption
<1>2. Working \in SUBSET Pairs /\ Working' \in SUBSET Pairs
  BY DEF Working
<1>3. IsFiniteSet(Working) /\ IsFiniteSet(Working')
  BY <1>1, <1>2, FS_Subset
<1> QED
  BY <1>1, <1>3, FS_CardinalityType

(* The figures stay in order when one pair moves to another that is in order. *)
LEMMA FiguresMoved ==
  ASSUME Figures, NEW p \in Pairs, Figure(state'[p]),
         \A q \in Pairs : q # p => state'[q] = state[q]
  PROVE  Figures'
<1>1. ASSUME NEW q \in Pairs
      PROVE  Figure(state'[q])
  <2>1. CASE q = p
    BY <2>1
  <2>2. CASE q # p
    BY <2>2 DEF Figures
  <2> QED
    BY <2>1, <2>2
<1> QED
  BY <1>1 DEF Figures

(* A step of no pair that works, and of no ledger. *)
LEMMA LedgersKept ==
  ASSUME Ledgers, risk'.used = risk.used, risk'.open = risk.open,
         risk'.strategy = risk.strategy, pairUsed' = pairUsed,
         \A p \in Pairs : state[p].st = "Working" \/ state'[p].st = "Working"
                            => state'[p] = state[p]
  PROVE  Ledgers'
<1>1. Working' = Working
  BY DEF Working
<1>2. ASSUME NEW a \in Alphas
      PROVE  Charged(a)' = Charged(a)
  BY DEF Charged
<1>3. \A a \in Alphas : Total(Charged(a)', Pairs) <= risk'.strategy[a]
  BY <1>2 DEF Ledgers
<1>4. \A p \in Pairs : state'[p].st = "Working" => state'[p].size <= pairUsed'[p]
  BY DEF Ledgers
<1>5. Total(pairUsed, Pairs)' = Total(pairUsed, Pairs)
  OBVIOUS
<1> QED
  BY <1>1, <1>3, <1>4, <1>5 DEF Ledgers

(* The pair p is booked. *)
LEMMA LedgersBooked ==
  ASSUME TypeOK, TypeOK', Ledgers, NEW p \in Pairs, NEW n \in Nat, NEW a \in Alphas,
         state[p].st # "Working",
         state'[p].st = "Working", state'[p].size = n, state'[p].alpha = a,
         \A q \in Pairs : q # p => state'[q] = state[q],
         risk'.used = risk.used + n, risk'.open = risk.open + 1,
         risk'.strategy = [risk.strategy EXCEPT ![a] = @ + n],
         pairUsed' = [pairUsed EXCEPT ![p] = @ + n]
  PROVE  Ledgers'
<1>1. /\ risk \in Risks /\ pairUsed \in [Pairs -> Nat] /\ pairUsed' \in [Pairs -> Nat]
      /\ risk.strategy \in [Alphas -> Nat] /\ risk.strategy["ShockA"] \in Nat
      /\ risk.strategy["GapB"] \in Nat /\ risk.used \in Nat /\ risk.open \in Nat
  BY Types DEF Risks, Alphas, TypeOK
<1>2. risk'.used = risk'.strategy["ShockA"] + risk'.strategy["GapB"]
  <2>1. CASE a = "ShockA"
    BY <1>1, <2>1 DEF Ledgers, Alphas
  <2>2. CASE a = "GapB"
    BY <1>1, <2>2 DEF Ledgers, Alphas
  <2> QED
    BY <2>1, <2>2 DEF Alphas
<1>3. risk'.used = Total(pairUsed', Pairs)
  <2>0. \A q \in Pairs : q # p => pairUsed'[q] = pairUsed[q]
    BY <1>1
  <2>1. Total(pairUsed', Pairs) = Total(pairUsed, Pairs) - pairUsed[p] + pairUsed'[p]
    BY ONLY <1>1, <2>0, WorkingFinite, TotalChange, p \in Pairs
  <2>2. pairUsed'[p] = pairUsed[p] + n /\ pairUsed[p] \in Nat /\ risk.used = Total(pairUsed, Pairs)
    BY <1>1 DEF Ledgers
  <2> QED
    BY <1>1, <2>1, <2>2
<1>4. ASSUME NEW b \in Alphas
      PROVE  Total(Charged(b)', Pairs) <= risk'.strategy[b]
  <2>1. Charged(b) \in [Pairs -> Nat] /\ Charged(b)' \in [Pairs -> Nat]
    <3>1. Charged(b) \in [Pairs -> Nat]
      BY ChargedTypes
    <3>2. \A q \in Pairs : state'[q].size \in Nat
      BY Caps0 DEF TypeOK
    <3>3. Charged(b)' \in [Pairs -> Nat]
      BY <3>2 DEF Charged
    <3> QED
      BY <3>1, <3>3
  <2>2. \A q \in Pairs : q # p => Charged(b)'[q] = Charged(b)[q]
    BY DEF Charged
  <2>3. Total(Charged(b)', Pairs) = Total(Charged(b), Pairs) - Charged(b)[p] + Charged(b)'[p]
    BY <2>1, <2>2, WorkingFinite, TotalChange
  <2>4. Charged(b)[p] = 0 /\ Charged(b)'[p] = IF b = a THEN n ELSE 0
    BY DEF Charged
  <2>5. Total(Charged(b), Pairs) \in Nat /\ Total(Charged(b), Pairs) <= risk.strategy[b]
    BY <2>1, WorkingFinite, TotalNat DEF Ledgers
  <2>6. risk.strategy[b] \in Nat /\ risk'.strategy[b] = risk.strategy[b] + (IF b = a THEN n ELSE 0)
    BY <1>1
  <2> QED
    BY <2>3, <2>4, <2>5, <2>6
<1>5. ASSUME NEW q \in Pairs, state'[q].st = "Working"
      PROVE  state'[q].size <= pairUsed'[q]
  <2>1. CASE q = p
    <3>1. pairUsed'[p] = pairUsed[p] + n /\ pairUsed[p] \in Nat
      BY <1>1
    <3> QED
      BY <2>1, <3>1
  <2>2. CASE q # p
    BY <1>1, <1>5, <2>2 DEF Ledgers
  <2> QED
    BY <2>1, <2>2
<1>6. risk'.open = Cardinality(Working')
  <2>1. Working' = Working \cup {p} /\ p \notin Working
    BY DEF Working
  <2>2. Cardinality(Working') = Cardinality(Working) + 1
    BY <2>1, WorkingFinite, FS_AddElement
  <2> QED
    BY <2>2 DEF Ledgers
<1> QED
  BY <1>2, <1>3, <1>4, <1>5, <1>6 DEF Ledgers

(* What a pair that works gives back is covered by every ledger. *)
LEMMA Covered ==
  ASSUME TypeOK, Figures, Ledgers, NEW p \in Pairs, state[p].st = "Working"
  PROVE  /\ state[p].notional \in Nat /\ state[p].size \in Nat /\ state[p].alpha \in Alphas
         /\ state[p].notional <= state[p].size
         /\ state[p].notional <= pairUsed[p]
         /\ state[p].notional <= risk.strategy[state[p].alpha]
         /\ state[p].notional <= risk.used
         /\ 1 <= risk.open
<1> DEFINE n == state[p].notional
           m == state[p].size
           a == state[p].alpha
<1>1. /\ risk \in Risks /\ n \in Nat /\ m \in Nat /\ a \in Alphas
      /\ pairUsed[p] \in Nat
      /\ risk.strategy[a] \in Nat /\ risk.strategy["ShockA"] \in Nat
      /\ risk.strategy["GapB"] \in Nat /\ risk.used \in Nat
  BY Types, Caps0 DEF Risks, PairStates, Alphas
<1>2. n <= m
  BY DEF Figures, Figure
<1>3. n <= risk.strategy[a]
  <2>1. Charged(a)[p] = m
    BY DEF Charged
  <2>2. Charged(a)[p] <= Total(Charged(a), Pairs) /\ Total(Charged(a), Pairs) \in Nat
    BY <1>1, ChargedTypes, WorkingFinite, TotalNat
  <2>3. Total(Charged(a), Pairs) <= risk.strategy[a]
    BY <1>1 DEF Ledgers
  <2> HIDE DEF n, m, a
  <2> QED
    BY <1>1, <1>2, <2>1, <2>2, <2>3
<1>4. n <= risk.used
  <2>1. risk.used = risk.strategy["ShockA"] + risk.strategy["GapB"]
    BY DEF Ledgers
  <2> HIDE DEF n, m, a
  <2> QED
    BY <1>1, <1>3, <2>1 DEF Alphas
<1>5. 1 <= risk.open
  <2>1. p \in Working
    BY DEF Working
  <2>2. Cardinality(Working) # 0
    BY <2>1, WorkingFinite, FS_EmptySet
  <2> QED
    BY <2>2, WorkingFinite DEF Ledgers
<1>6. n <= pairUsed[p]
  <2>1. m <= pairUsed[p]
    BY DEF Ledgers
  <2> HIDE DEF n, m
  <2> QED
    BY <1>1, <1>2, <2>1
<1> QED
  BY <1>1, <1>2, <1>3, <1>4, <1>5, <1>6

(* A fill rewrites what a pair holds by its own figure: what it entered stays. *)
LEMMA LedgersFilled ==
  ASSUME TypeOK, Ledgers, NEW p \in Pairs, NEW n,
         state' = [state EXCEPT ![p].notional = n],
         risk' = risk, pairUsed' = pairUsed
  PROVE  Ledgers'
<1>1. state \in [Pairs -> PairStates]
  BY Types
<1>2. ASSUME NEW q \in Pairs
      PROVE  /\ state'[q].st = state[q].st /\ state'[q].size = state[q].size
             /\ state'[q].alpha = state[q].alpha
  BY <1>1, <1>2 DEF PairStates
<1>3. Working' = Working
  BY <1>2 DEF Working
<1>4. ASSUME NEW b \in Alphas
      PROVE  Charged(b)' = Charged(b)
  BY <1>2 DEF Charged
<1>5. \A b \in Alphas : Total(Charged(b)', Pairs) <= risk'.strategy[b]
  BY <1>4 DEF Ledgers
<1>6. \A q \in Pairs : state'[q].st = "Working" => state'[q].size <= pairUsed'[q]
  BY <1>2 DEF Ledgers
<1>7. Total(pairUsed, Pairs)' = Total(pairUsed, Pairs)
  OBVIOUS
<1> QED
  BY <1>3, <1>5, <1>6, <1>7 DEF Ledgers

(* The pair gives its exposure back. *)
LEMMA LedgersReleased ==
  ASSUME TypeOK, TypeOK', Ledgers, NEW p \in Pairs, NEW n \in Nat, NEW a \in Alphas,
         state[p].st = "Working", n <= state[p].size, state[p].alpha = a,
         state'[p].st # "Working",
         \A q \in Pairs : q # p => state'[q] = state[q],
         risk'.used = risk.used - n, risk'.open = risk.open - 1,
         risk'.strategy = [risk.strategy EXCEPT ![a] = @ - n],
         pairUsed' = [pairUsed EXCEPT ![p] = @ - n]
  PROVE  Ledgers'
<1>1. /\ risk \in Risks /\ pairUsed \in [Pairs -> Nat] /\ pairUsed' \in [Pairs -> Nat]
      /\ risk.strategy \in [Alphas -> Nat] /\ risk.strategy["ShockA"] \in Nat
      /\ risk.strategy["GapB"] \in Nat /\ risk.used \in Nat /\ risk.open \in Nat
  BY Types DEF Risks, Alphas, TypeOK
<1>2. risk'.used = risk'.strategy["ShockA"] + risk'.strategy["GapB"]
  <2>1. CASE a = "ShockA"
    BY <1>1, <2>1 DEF Ledgers, Alphas
  <2>2. CASE a = "GapB"
    BY <1>1, <2>2 DEF Ledgers, Alphas
  <2> QED
    BY <2>1, <2>2 DEF Alphas
<1>3. risk'.used = Total(pairUsed', Pairs)
  <2>1. \A q \in Pairs : q # p => pairUsed'[q] = pairUsed[q]
    BY <1>1
  <2>2. Total(pairUsed', Pairs) = Total(pairUsed, Pairs) - pairUsed[p] + pairUsed'[p]
    BY ONLY <1>1, <2>1, WorkingFinite, TotalChange, p \in Pairs
  <2>3. pairUsed'[p] = pairUsed[p] - n /\ pairUsed[p] \in Nat /\ risk.used = Total(pairUsed, Pairs)
    BY <1>1 DEF Ledgers
  <2> QED
    BY <1>1, <2>2, <2>3
<1>4. ASSUME NEW b \in Alphas
      PROVE  Total(Charged(b)', Pairs) <= risk'.strategy[b]
  <2>1. Charged(b) \in [Pairs -> Nat] /\ Charged(b)' \in [Pairs -> Nat]
    <3>1. Charged(b) \in [Pairs -> Nat]
      BY ChargedTypes
    <3>2. \A q \in Pairs : state'[q].size \in Nat
      BY Caps0 DEF TypeOK
    <3>3. Charged(b)' \in [Pairs -> Nat]
      BY <3>2 DEF Charged
    <3> QED
      BY <3>1, <3>3
  <2>2. \A q \in Pairs : q # p => Charged(b)'[q] = Charged(b)[q]
    BY DEF Charged
  <2>3. Total(Charged(b)', Pairs) = Total(Charged(b), Pairs) - Charged(b)[p] + Charged(b)'[p]
    BY <2>1, <2>2, WorkingFinite, TotalChange
  <2>4. /\ Charged(b)'[p] = 0 /\ state[p].size \in Nat
        /\ Charged(b)[p] = IF b = a THEN state[p].size ELSE 0
    BY Caps0 DEF Charged, TypeOK
  <2>5. Total(Charged(b), Pairs) \in Nat /\ Total(Charged(b), Pairs) <= risk.strategy[b]
    BY <2>1, WorkingFinite, TotalNat DEF Ledgers
  <2>6. risk.strategy[b] \in Nat /\ risk'.strategy[b] = risk.strategy[b] - (IF b = a THEN n ELSE 0)
    BY <1>1
  <2> QED
    BY <2>3, <2>4, <2>5, <2>6
<1>5. ASSUME NEW q \in Pairs, state'[q].st = "Working"
      PROVE  state'[q].size <= pairUsed'[q]
  BY <1>1, <1>5 DEF Ledgers
<1>6. risk'.open = Cardinality(Working')
  <2>1. Working' = Working \ {p} /\ p \in Working
    BY DEF Working
  <2>2. Cardinality(Working') = Cardinality(Working) - 1
    BY <2>1, WorkingFinite, FS_RemoveElement
  <2> QED
    BY <2>2 DEF Ledgers
<1> QED
  BY <1>2, <1>3, <1>4, <1>5, <1>6 DEF Ledgers
-----------------------------------------------------------------------------
(* Every action keeps the invariant. *)

LEMMA InitInv ==
  ASSUME Init
  PROVE  IInv
<1>1. /\ config \in Configs
      /\ risk = [used |-> 0, open |-> 0, strategy |-> [a \in Alphas |-> 0],
                 second |-> None, left |-> 0]
      /\ pairUsed = [p \in Pairs |-> 0]
      /\ state = [p \in Pairs |-> IdlePair]
      /\ pending = [e \in Engines |-> NoEntries]
      /\ flush = [e \in Engines |-> NoFlush]
  BY DEF Init
<1>2. /\ risk.used = 0 /\ risk.open = 0 /\ risk.strategy = [a \in Alphas |-> 0]
      /\ risk.left = 0
  BY <1>1
<1>3. TypeOK
  <2>1. risk \in Risks
    BY <1>1, Caps0 DEF Risks
  <2>2. state \in [Pairs -> PairStates]
    BY <1>1, Idles
  <2>3. pending \in [Engines -> Pendings]
    BY <1>1 DEF NoEntries, Pendings
  <2>4. flush \in [Engines -> Flushes]
    BY <1>1, Caps0 DEF NoFlush, Flushes
  <2>5. pairUsed \in [Pairs -> Nat]
    BY <1>1
  <2> QED
    BY <1>1, <2>1, <2>2, <2>3, <2>4, <2>5 DEF TypeOK, Risks, PairStates, Pendings, Flushes
<1>4. Ledgers
  <2>1. \A p \in Pairs : state[p].st = "Idle"
    BY <1>1, Idles
  <2>2. Working = {}
    BY <2>1 DEF Working
  <2>3. Cardinality(Working) = 0
    BY <2>2, FS_EmptySet
  <2>4. Total(pairUsed, Pairs) = 0
    BY <1>1, WorkingFinite, TotalZero
  <2>5. ASSUME NEW a \in Alphas
        PROVE  Total(Charged(a), Pairs) = 0
    <3>1. \A p \in Pairs : Charged(a)[p] = 0
      BY <2>1 DEF Charged
    <3> QED
      BY <3>1, WorkingFinite, TotalZero
  <2> QED
    BY <1>2, <2>1, <2>3, <2>4, <2>5 DEF Ledgers, Alphas
<1>5. \A e \in Engines : /\ flush[e].second = None /\ flush[e].entry = None
                         /\ flush[e].todo = {} /\ flush[e].entered = 0
                         /\ pending[e].second = None /\ pending[e].entries = {}
  BY <1>1 DEF NoFlush, NoEntries
<1>6. Entries
  BY <1>5 DEF Entries, EntriesOf, Flushing
<1>7. Caps
  <2>1. Booked
    BY <1>1, <1>2, Idles, Caps0 DEF Booked
  <2>2. \A e \in Engines : FlushFits(e)
    BY <1>5, Caps0 DEF FlushFits, Flushing
  <2> QED
    BY <2>1, <2>2 DEF Caps
<1>8. Figures
  BY <1>1, Idles DEF Figures
<1> QED
  BY <1>3, <1>4, <1>6, <1>7, <1>8 DEF IInv

(* queue_entry preserves the invariant. *)
LEMMA QueueEntryInv ==
  ASSUME IInv, NEW p \in DOMAIN config.engineOf, NEW s \in Seconds, NEW a \in Alphas,
         QueueEntry(p, s, a)
  PROVE  IInv'
<1> DEFINE e == config.engineOf[p]
           x == [pair |-> p, alpha |-> a]
<1>1. TypeOK /\ Figures /\ Ledgers /\ Entries /\ Caps
  BY DEF IInv
<1>2. UNCHANGED <<config, risk, pairUsed, state, flush>>
  BY DEF QueueEntry
<1>3. Own(e, p)
  BY DEF Own
<1>4. p \in Pairs /\ e \in Engines /\ Owner(e)
  BY <1>1, <1>3, Owned
<1>5. x \in Entry /\ x.pair = p
  BY <1>4 DEF Entry
<1>6. pending \in [Engines -> Pendings]
  BY <1>1, Types
<1> HIDE DEF x
<1>7. \/ pending' = [pending EXCEPT ![e] = [second |-> s, entries |-> {x}]]
      \/ /\ pending[e].second = s
         /\ pending' = [pending EXCEPT ![e].entries = @ \cup {x}]
  BY DEF QueueEntry, x
<1> HIDE DEF e
<1>8. /\ pending' \in [Engines -> Pendings]
      /\ pending'[e].second = s
      /\ \A y \in pending'[e].entries : y \in pending[e].entries \/ y = x
      /\ \A f \in Engines : f # e => pending'[f] = pending[f]
  <2>1. CASE pending' = [pending EXCEPT ![e] = [second |-> s, entries |-> {x}]]
    <3>1. [second |-> s, entries |-> {x}] \in Pendings
      BY <1>5 DEF Pendings
    <3> QED
      BY <1>4, <1>6, <2>1, <3>1
  <2>2. CASE /\ pending[e].second = s
             /\ pending' = [pending EXCEPT ![e].entries = @ \cup {x}]
    BY <1>4, <1>5, <1>6, <2>2 DEF Pendings
  <2> QED
    BY <1>7, <2>1, <2>2
<1>9. TypeOK'
  BY <1>1, <1>2, <1>8, Types, Typed
<1>10. Ledgers'
  BY <1>1, <1>2, LedgersKept
<1>11. Entries'
  <2>1. ASSUME NEW f \in Engines
        PROVE  EntriesOf(f)'
    <3>1. EntriesOf(f)
      BY <1>1 DEF Entries
    <3>2. CASE f = e
      <4>1. \A y \in pending'[e].entries : Own(e, y.pair)
        BY <1>3, <1>5, <1>8, <3>1, <3>2 DEF EntriesOf
      <4> QED
        BY <1>2, <1>4, <3>1, <3>2, <4>1 DEF EntriesOf, Own, Owner, Flushing
    <3>3. CASE f # e
      BY <1>2, <1>8, <3>1, <3>3, EntriesOther
    <3> QED
      BY <3>2, <3>3
  <2> QED
    BY <2>1 DEF Entries
<1>12. Caps'
  BY <1>1, <1>2 DEF Caps, Alone, Booked, FlushFits, Fits, Flushing
<1>13. Figures'
  BY <1>1, <1>2 DEF Figures
<1> QED
  BY <1>9, <1>10, <1>11, <1>12, <1>13 DEF IInv

(* The begin of flush_pending_entries preserves the invariant. *)
LEMMA FlushBeginsInv ==
  ASSUME IInv, NEW e \in Engines, FlushBegins(e)
  PROVE  IInv'
<1>1. TypeOK /\ Figures /\ Ledgers /\ Entries /\ Caps
  BY DEF IInv
<1>2. UNCHANGED <<config, pairUsed, state>>
  BY DEF FlushBegins
<1> DEFINE s == pending[e].second
<1>3. /\ config \in Configs /\ risk \in Risks /\ pending \in [Engines -> Pendings]
      /\ flush \in [Engines -> Flushes]
  BY <1>1, Types
<1>4. s \in Seconds /\ ~Flushing(e)
  BY <1>3 DEF FlushBegins, Pendings
<1>5. PICK best \in SUBSET pending[e].entries :
        flush' = [flush EXCEPT ![e] = [NoFlush EXCEPT !.second = s, !.todo = best]]
  BY DEF FlushBegins
<1>6. /\ pending' = [pending EXCEPT ![e] = NoEntries]
      /\ risk' = PoolReset(risk, s)
  BY DEF FlushBegins
<1> HIDE DEF s
<1>7. best \in SUBSET Entry
  BY <1>3 DEF Pendings
<1> DEFINE begun == [NoFlush EXCEPT !.second = s, !.todo = best]
<1>8. /\ begun \in Flushes /\ begun.second = s /\ begun.todo = best /\ begun.entry = None
      /\ begun.notional = 0 /\ begun.entered = 0
  <2>1. NoFlush \in Flushes
    BY Caps0 DEF NoFlush, Flushes
  <2>2. NoFlush.entry = None /\ NoFlush.notional = 0 /\ NoFlush.entered = 0
    BY DEF NoFlush
  <2> QED
    BY <1>4, <1>7, <2>1, <2>2 DEF Flushes
<1> HIDE DEF begun
<1>9. /\ flush' \in [Engines -> Flushes] /\ flush'[e] = begun
      /\ \A f \in Engines : f # e => flush'[f] = flush[f]
  BY <1>3, <1>5, <1>8 DEF begun
<1>10. /\ pending' \in [Engines -> Pendings] /\ pending'[e] = NoEntries
       /\ \A f \in Engines : f # e => pending'[f] = pending[f]
       /\ NoEntries.second = None /\ NoEntries.entries = {}
  <2>1. NoEntries \in Pendings /\ NoEntries.second = None /\ NoEntries.entries = {}
    BY DEF NoEntries, Pendings
  <2> QED
    BY <1>3, <1>6, <2>1
<1>11. /\ risk' \in Risks /\ risk'.used = risk.used /\ risk'.open = risk.open
       /\ risk'.strategy = risk.strategy /\ risk'.second = s
  BY <1>3, <1>4, <1>6, PoolResetType
<1>12. TypeOK'
  BY <1>1, <1>2, <1>9, <1>10, <1>11, Types, Typed
<1>13. Ledgers'
  BY <1>1, <1>2, <1>11, LedgersKept
<1>14. EntriesOf(e) /\ pending[e].second # None
  BY <1>1 DEF Entries, FlushBegins
<1>15. Owner(e) /\ \A x \in best : Own(e, x.pair)
  BY <1>14 DEF EntriesOf
<1>16. Entries'
  <2>1. ASSUME NEW f \in Engines
        PROVE  EntriesOf(f)'
    <3>1. EntriesOf(f)
      BY <1>1 DEF Entries
    <3>2. CASE f = e
      <4>1. Owner(e)' /\ \A x \in best : Own(e, x.pair)'
        BY <1>2, <1>15 DEF Owner, Own
      <4> QED
        BY <1>8, <1>9, <1>10, <3>2, <4>1 DEF EntriesOf
    <3>3. CASE f # e
      BY <1>2, <1>9, <1>10, <3>1, <3>3, EntriesOther
    <3> QED
      BY <3>2, <3>3
  <2> QED
    BY <2>1 DEF Entries
<1>17. ASSUME Alone'
       PROVE  Booked' /\ \A f \in Engines : FlushFits(f)'
  <2>1. Alone
    BY <1>2, <1>17 DEF Alone
  <2>2. Booked /\ \A f \in Engines : FlushFits(f)
    BY <1>1, <2>1 DEF Caps
  <2>3. Booked'
    BY <1>2, <1>11, <2>2 DEF Booked
  <2>4. ASSUME NEW f \in Engines
        PROVE  FlushFits(f)'
    <3>1. CASE f = e
      <4>1. risk'.left <= Pool /\ risk'.left \in Nat /\ Pool \in Nat
        BY <1>11, Caps0 DEF Risks
      <4> QED
        BY <1>8, <1>9, <1>11, <3>1, <4>1 DEF FlushFits, Flushing
    <3>2. CASE f # e
      <4>1. ~Flushing(f) /\ flush[f].entry = None
        BY <1>1, <1>15, <2>1, <3>2, OneEngine DEF Entries, EntriesOf
      <4> QED
        BY <1>9, <2>2, <3>2, <4>1 DEF FlushFits, Flushing
    <3> QED
      BY <3>1, <3>2
  <2> QED
    BY <2>3, <2>4
<1>18. Caps'
  BY <1>17 DEF Caps
<1>19. Figures'
  BY <1>1, <1>2 DEF Figures
<1> QED
  BY <1>12, <1>13, <1>16, <1>18, <1>19 DEF IInv

(* Fixing the budget of the next entry, or skipping it, preserves the invariant. *)
LEMMA FlushBudgetsInv ==
  ASSUME IInv, NEW e \in Engines, NEW x \in flush[e].todo, FlushBudgets(e, x)
  PROVE  IInv'
<1>1. TypeOK /\ Figures /\ Ledgers /\ Entries /\ Caps
  BY DEF IInv
<1>2. UNCHANGED <<config, pairUsed, state, pending>>
  BY DEF FlushBudgets
<1> DEFINE s == flush[e].second
           r == PoolReset(risk, s)
           n == Budget(r, x.pair, x.alpha)
<1>3. /\ config \in Configs /\ risk \in Risks /\ pairUsed \in [Pairs -> Nat]
      /\ state \in [Pairs -> PairStates] /\ flush \in [Engines -> Flushes]
  BY <1>1, Types
<1>4. Flushing(e) /\ s \in Seconds /\ flush[e].entry = None
  BY <1>3 DEF FlushBudgets, Flushing, Flushes
<1>5. x \in Entry /\ x.pair \in Pairs /\ x.alpha \in Alphas
  BY <1>3 DEF Flushes, Entry
<1>6. EntriesOf(e) /\ Owner(e) /\ Own(e, x.pair)
  BY <1>1, <1>4 DEF Entries, EntriesOf
<1>7. /\ r \in Risks /\ r.used = risk.used /\ r.open = risk.open
      /\ r.strategy = risk.strategy /\ r.second = s
      /\ risk.second = s => r = risk
  BY <1>3, <1>4, PoolResetType
<1>8. /\ risk' = r
      /\ \/ flush' = [flush EXCEPT ![e].todo = @ \ {x}]
         \/ /\ state[x.pair].st = "Idle" /\ n > 0
            /\ flush' = [flush EXCEPT ![e].todo = @ \ {x}, ![e].entry = x, ![e].notional = n]
  BY DEF FlushBudgets
<1>9. ASSUME n > 0
      PROVE  /\ n \in 1..TradeCap
             /\ r.open < MaxOpen /\ n <= r.left
             /\ r.used + n <= GlobalCap
             /\ pairUsed[x.pair] + n <= PairCap
             /\ r.strategy[x.alpha] + n <= StrategyCap
  <2> HIDE DEF r
  <2> QED
    BY <1>3, <1>5, <1>7, <1>9, BudgetFits DEF Risks
<1>10. n > 0 => n \in 0..TradeCap
  <2> HIDE DEF n
  <2> QED
    BY <1>9, Caps0
<1> HIDE DEF r, n, s
<1>22. PICK m : m = n
  OBVIOUS
<1>11. /\ flush' \in [Engines -> Flushes]
       /\ flush'[e].second = flush[e].second /\ flush'[e].entered = flush[e].entered
       /\ flush'[e].todo \subseteq flush[e].todo
       /\ \A f \in Engines : f # e => flush'[f] = flush[f]
       /\ \/ flush'[e].entry = None
          \/ /\ flush'[e].entry = x /\ flush'[e].notional = m
             /\ state[x.pair].st = "Idle" /\ n > 0
  <2>1. CASE flush' = [flush EXCEPT ![e].todo = @ \ {x}]
    BY <1>3, <1>4, <2>1 DEF Flushes
  <2>2. CASE /\ state[x.pair].st = "Idle" /\ n > 0
             /\ flush' = [flush EXCEPT ![e].todo = @ \ {x}, ![e].entry = x, ![e].notional = n]
    <3> DEFINE new == [flush[e] EXCEPT !.todo = @ \ {x}, !.entry = x, !.notional = m]
    <3>1. flush[e].todo \ {x} \in SUBSET Entry /\ x \in Entry \cup {None} /\ flush[e] \in Flushes
      BY <1>3, <1>5 DEF Flushes
    <3>2. /\ new \in Flushes /\ new.second = flush[e].second /\ new.entered = flush[e].entered
          /\ new.todo = flush[e].todo \ {x} /\ new.entry = x /\ new.notional = m
      BY <1>10, <1>22, <2>2, <3>1 DEF Flushes
    <3>3. flush' = [flush EXCEPT ![e] = new]
      BY <1>22, <2>2
    <3>4. state[x.pair].st = "Idle" /\ n > 0
      BY <2>2
    <3> HIDE DEF new
    <3>5. flush'[e] = new /\ flush' \in [Engines -> Flushes]
      BY <1>3, <3>2, <3>3
    <3>6. \A f \in Engines : f # e => flush'[f] = flush[f]
      BY <1>3, <3>3
    <3> QED
      BY <3>2, <3>4, <3>5, <3>6
  <2> QED
    BY <1>8, <2>1, <2>2
<1>12. TypeOK'
  BY <1>1, <1>2, <1>7, <1>8, <1>11, Types, Typed
<1>13. Ledgers'
  BY <1>1, <1>2, <1>7, <1>8, LedgersKept
<1>14. Entries'
  <2>1. ASSUME NEW f \in Engines
        PROVE  EntriesOf(f)'
    <3>1. EntriesOf(f)
      BY <1>1 DEF Entries
    <3>2. CASE f = e
      BY <1>2, <1>4, <1>6, <1>11, <3>2 DEF EntriesOf, Own, Owner, Flushing
    <3>3. CASE f # e
      BY <1>2, <1>11, <3>1, <3>3, EntriesOther
    <3> QED
      BY <3>2, <3>3
  <2> QED
    BY <2>1 DEF Entries
<1>15. ASSUME Alone'
       PROVE  Booked' /\ \A f \in Engines : FlushFits(f)'
  <2>1. Alone
    BY <1>2, <1>15 DEF Alone
  <2>2. Booked /\ \A f \in Engines : FlushFits(f)
    BY <1>1, <2>1 DEF Caps
  <2>3. risk' = risk
    BY <1>4, <1>7, <1>8, <2>2 DEF FlushFits, s
  <2>4. Booked'
    BY <1>2, <2>2, <2>3 DEF Booked
  <2>5. ASSUME NEW f \in Engines
        PROVE  FlushFits(f)'
    <3>1. CASE f = e
      <4>1. FlushFits(e)
        BY <2>2
      <4>2. n > 0 => Fits(x, m)'
        BY <1>2, <1>8, <1>9, <1>22 DEF Fits
      <4>3. flush'[e].entry # None => Fits(flush[e].entry, flush[e].notional)'
        BY <1>11, <4>2 DEF Fits
      <4>4. /\ flush'[e].entered <= Pool
            /\ risk'.second = flush'[e].second /\ flush'[e].entered + risk'.left <= Pool
        BY <1>4, <1>11, <2>3, <4>1 DEF FlushFits
      <4> QED
        BY <3>1, <4>3, <4>4 DEF FlushFits
    <3>2. CASE f # e
      <4>1. ~Flushing(f) /\ flush[f].entry = None
        BY <1>1, <1>6, <2>1, <3>2, OneEngine DEF Entries, EntriesOf
      <4> QED
        BY <1>11, <2>2, <3>2, <4>1 DEF FlushFits, Flushing
    <3> QED
      BY <3>1, <3>2
  <2> QED
    BY <2>4, <2>5
<1>16. Caps'
  BY <1>15 DEF Caps
<1>17. Figures'
  BY <1>1, <1>2 DEF Figures
<1> QED
  BY <1>12, <1>13, <1>14, <1>16, <1>17 DEF IInv

(* The engine e is done with its entry, and nobody else has one for that pair. *)
LEMMA EntryDone ==
  ASSUME TypeOK, Entries, NEW e \in Engines, Flushing(e), flush[e].entry # None
  PROVE  /\ flush[e].entry \in Entry /\ flush[e].entry.pair \in Pairs
         /\ flush[e].entry.alpha \in Alphas /\ flush[e].second \in Seconds
         /\ flush[e].notional \in 0..TradeCap /\ flush[e].entered \in Nat
         /\ Owner(e) /\ state[flush[e].entry.pair].st = "Idle"
         /\ \A f \in Engines : f # e /\ flush[f].entry # None =>
              flush[f].entry.pair # flush[e].entry.pair
<1>1. flush \in [Engines -> Flushes] /\ EntriesOf(e)
  BY Types DEF Entries
<1>2. /\ flush[e].entry \in Entry /\ flush[e].second \in Seconds
      /\ flush[e].notional \in 0..TradeCap /\ flush[e].entered \in Nat
  BY <1>1 DEF Flushes, Flushing
<1>3. Owner(e) /\ Own(e, flush[e].entry.pair) /\ state[flush[e].entry.pair].st = "Idle"
  BY <1>1 DEF EntriesOf
<1>4. ASSUME NEW f \in Engines, f # e, flush[f].entry # None
      PROVE  flush[f].entry.pair # flush[e].entry.pair
  <2>1. Own(f, flush[f].entry.pair)
    BY <1>4 DEF Entries, EntriesOf
  <2> QED
    BY <1>3, <1>4, <2>1, OneOwner
<1> QED
  BY <1>2, <1>3, <1>4 DEF Entry

(* The entries stay in order when a flush loses its entry and the pair moves on. *)
LEMMA EntriesDone ==
  ASSUME TypeOK, Entries, NEW e \in Engines, Flushing(e), flush[e].entry # None,
         config' = config, pending' = pending,
         flush'[e].second = flush[e].second, flush'[e].todo = flush[e].todo,
         flush'[e].entry = None,
         \A f \in Engines : f # e => flush'[f] = flush[f],
         \A q \in Pairs : q # flush[e].entry.pair => state'[q] = state[q]
  PROVE  Entries'
<1>1. ASSUME NEW f \in Engines
      PROVE  EntriesOf(f)'
  <2>1. EntriesOf(f)
    BY DEF Entries
  <2>2. CASE f = e
    BY <2>1, <2>2 DEF EntriesOf, Own, Owner, Flushing
  <2>3. CASE f # e
    <3>1. flush[f].entry # None => flush[f].entry.pair # flush[e].entry.pair
      BY <2>3, EntryDone
    <3>2. flush[f].entry # None => flush[f].entry.pair \in Pairs
      BY <2>1, Owned DEF EntriesOf
    <3>3. flush[f].entry # None =>
            state'[flush[f].entry.pair] = state[flush[f].entry.pair]
      BY <3>1, <3>2
    <3> QED
      BY <2>1, <2>3, <3>3, EntriesOther
  <2> QED
    BY <2>2, <2>3
<1> QED
  BY <1>1 DEF Entries

(* An entry sent, or booked in a dry run, preserves the invariant. *)
LEMMA FlushEntersInv ==
  ASSUME IInv, NEW e \in Engines, FlushEnters(e)
  PROVE  IInv'
<1>1. TypeOK /\ Figures /\ Ledgers /\ Entries /\ Caps
  BY DEF IInv
<1>2. config' = config /\ pending' = pending /\ Flushing(e) /\ flush[e].entry # None
  BY DEF FlushEnters
<1>3. PICK x : x = flush[e].entry
  OBVIOUS
<1>4. PICK s : s = flush[e].second
  OBVIOUS
<1>5. /\ x \in Entry /\ x.pair \in Pairs /\ x.alpha \in Alphas /\ s \in Seconds
      /\ flush[e].notional \in 0..TradeCap /\ flush[e].entered \in Nat
      /\ Owner(e) /\ state[x.pair].st = "Idle"
  BY <1>1, <1>2, <1>3, <1>4, EntryDone
<1> DEFINE entered(n) ==
             [st |-> IF config.live THEN "Placing" ELSE "Working", size |-> n,
              notional |-> n, alpha |-> x.alpha, second |-> s]
<1>6. PICK n \in Sizes(flush[e].notional) :
        /\ state' = [state EXCEPT ![x.pair] = entered(n)]
        /\ risk' = IF config.live THEN PoolReserved(risk, s, n)
                   ELSE Added(PoolReserved(risk, s, n), n, x.alpha)
        /\ pairUsed' = IF config.live THEN pairUsed ELSE [pairUsed EXCEPT ![x.pair] = @ + n]
        /\ flush' = [flush EXCEPT ![e].entry = None, ![e].notional = 0, ![e].entered = @ + n]
  BY <1>3, <1>4 DEF FlushEnters
<1>7. /\ n \in Nat /\ 0 < n /\ n <= 2 * TradeCap
      /\ ~config.alphaC => n <= flush[e].notional
  BY <1>5, Caps0 DEF Sizes
<1>8. /\ config \in Configs /\ risk \in Risks /\ pairUsed \in [Pairs -> Nat]
      /\ state \in [Pairs -> PairStates] /\ flush \in [Engines -> Flushes]
      /\ pending \in [Engines -> Pendings] /\ config.live \in BOOLEAN
  BY <1>1, Types, TradeRiskAssumption
<1>9. /\ entered(n) \in PairStates /\ entered(n).size = n /\ entered(n).notional = n
      /\ entered(n).alpha = x.alpha
      /\ config.live => entered(n).st = "Placing"
      /\ ~config.live => entered(n).st = "Working"
  <2>1. (IF config.live THEN "Placing" ELSE "Working") \in {"Placing", "Working"}
    OBVIOUS
  <2>2. n \in 0..(2 * TradeCap)
    BY <1>7, Caps0
  <2> QED
    BY <1>5, <2>1, <2>2 DEF PairStates
<1>10. /\ state' \in [Pairs -> PairStates] /\ state'[x.pair] = entered(n)
       /\ \A q \in Pairs : q # x.pair => state'[q] = state[q]
  <2> HIDE DEF entered
  <2> QED
    BY <1>5, <1>6, <1>8, <1>9
<1> HIDE DEF entered
<1>15. Figures'
  <2>1. Figure(state'[x.pair])
    BY <1>7, <1>9, <1>10 DEF Figure
  <2> QED
    BY <1>1, <1>5, <1>10, <2>1, FiguresMoved
<1>11. /\ flush' \in [Engines -> Flushes]
       /\ flush'[e].second = s /\ flush'[e].todo = flush[e].todo
       /\ flush'[e].entry = None /\ flush'[e].entered = flush[e].entered + n
       /\ \A f \in Engines : f # e => flush'[f] = flush[f]
  <2> DEFINE new == [flush[e] EXCEPT !.entry = None, !.notional = 0,
                                     !.entered = flush[e].entered + n]
  <2>1. flush[e] \in Flushes /\ flush[e].entered + n \in Nat /\ 0 \in 0..TradeCap
    BY <1>5, <1>7, <1>8, Caps0
  <2>2. /\ new \in Flushes /\ new.second = s /\ new.todo = flush[e].todo
        /\ new.entry = None /\ new.entered = flush[e].entered + n
    BY <1>4, <2>1 DEF Flushes
  <2>3. flush' = [flush EXCEPT ![e] = new]
    BY <1>6
  <2> HIDE DEF new
  <2> QED
    BY <1>8, <2>2, <2>3
<1> DEFINE r == PoolReserved(risk, s, n)
<1>12. /\ r \in Risks /\ r.used = risk.used /\ r.open = risk.open
       /\ r.strategy = risk.strategy /\ r.second = s
       /\ risk.second = s /\ n <= risk.left => r.left = risk.left - n
  BY <1>5, <1>7, <1>8, PoolReservedType
<1> HIDE DEF r
<1>13. CASE config.live
  <2>1. risk' = r /\ pairUsed' = pairUsed
    BY <1>6, <1>13 DEF r
  <2>2. TypeOK'
    BY <1>2, <1>8, <1>10, <1>11, <1>12, <2>1, Typed
  <2>3. Ledgers'
    BY <1>1, <1>5, <1>9, <1>10, <1>12, <1>13, <2>1, LedgersKept
  <2>4. Entries'
    BY <1>1, <1>2, <1>3, <1>4, <1>10, <1>11, EntriesDone
  <2>5. Caps'
    BY <1>2, <1>13 DEF Caps, Alone
  <2> QED
    BY <1>15, <2>2, <2>3, <2>4, <2>5 DEF IInv
<1>14. CASE ~config.live
  <2>1. /\ risk' = Added(r, n, x.alpha)
        /\ pairUsed' = [pairUsed EXCEPT ![x.pair] = @ + n]
    BY <1>6, <1>14 DEF r
  <2>2. /\ risk' \in Risks /\ risk'.used = risk.used + n /\ risk'.open = risk.open + 1
        /\ risk'.strategy = [risk.strategy EXCEPT ![x.alpha] = @ + n]
        /\ risk'.second = s /\ risk'.left = r.left
    <3>1. /\ Added(r, n, x.alpha) \in Risks
          /\ Added(r, n, x.alpha).used = r.used + n /\ Added(r, n, x.alpha).open = r.open + 1
          /\ Added(r, n, x.alpha).strategy = [r.strategy EXCEPT ![x.alpha] = @ + n]
          /\ Added(r, n, x.alpha).second = r.second /\ Added(r, n, x.alpha).left = r.left
      BY <1>5, <1>7, <1>12, AddedType
    <3> QED
      BY ONLY <1>12, <2>1, <3>1
  <2>3. pairUsed' \in [Pairs -> Nat]
    BY <1>5, <1>7, <1>8, <2>1
  <2>4. TypeOK'
    BY <1>2, <1>8, <1>10, <1>11, <2>2, <2>3, Typed
  <2>5. Ledgers'
    <3>1. state[x.pair].st # "Working" /\ state'[x.pair].st = "Working"
          /\ state'[x.pair].size = n /\ state'[x.pair].alpha = x.alpha
      BY <1>5, <1>9, <1>10, <1>14
    <3>2. PICK p \in Pairs : p = x.pair
      BY <1>5
    <3>3. PICK a \in Alphas : a = x.alpha
      BY <1>5
    <3>4. risk'.strategy = [risk.strategy EXCEPT ![a] = @ + n]
      BY <2>2, <3>3
    <3>5. risk'.used = risk.used + n /\ risk'.open = risk.open + 1
      BY <2>2
    <3>6. pairUsed' = [pairUsed EXCEPT ![p] = @ + n]
      BY <2>1, <3>2
    <3>7. /\ state[p].st # "Working" /\ state'[p].st = "Working"
          /\ state'[p].size = n /\ state'[p].alpha = a
          /\ \A q \in Pairs : q # p => state'[q] = state[q]
      BY <1>10, <3>1, <3>2, <3>3
    <3> QED
      BY <1>1, <1>7, <2>4, <3>4, <3>5, <3>6, <3>7, LedgersBooked
  <2>6. Entries'
    BY <1>1, <1>2, <1>3, <1>4, <1>10, <1>11, EntriesDone
  <2>7. ASSUME Alone'
        PROVE  Booked' /\ \A f \in Engines : FlushFits(f)'
    <3>1. Alone /\ ~config.alphaC
      BY <1>2, <2>7 DEF Alone
    <3>2. Booked /\ \A f \in Engines : FlushFits(f)
      BY <1>1, <3>1 DEF Caps
    <3>3. n <= flush[e].notional
      BY <1>7, <3>1
    <3>4. /\ risk.second = s /\ flush[e].entered + risk.left <= Pool
          /\ Fits(x, flush[e].notional)
      BY <1>2, <1>3, <1>4, <3>2 DEF FlushFits
    <3>5. /\ risk.open \in Nat /\ risk.left \in Nat /\ risk.used \in Nat
          /\ pairUsed[x.pair] \in Nat /\ risk.strategy \in [Alphas -> Nat]
          /\ risk.strategy[x.alpha] \in Nat /\ flush[e].notional \in Nat
      BY <1>5, <1>8, Caps0 DEF Risks
    <3>6. /\ risk.open + 1 <= MaxOpen /\ n <= risk.left
          /\ risk.used + n <= GlobalCap
          /\ pairUsed[x.pair] + n <= PairCap
          /\ risk.strategy[x.alpha] + n <= StrategyCap
      BY <1>7, <3>3, <3>4, <3>5, Caps0 DEF Fits
    <3>7. Booked'
      <4>1. \A p \in Pairs : state'[p].st # "Placing"
        BY <1>9, <1>10, <1>14, <3>2 DEF Booked
      <4>2. \A p \in Pairs : pairUsed'[p] <= PairCap
        BY <1>8, <2>1, <3>2, <3>6 DEF Booked
      <4>3. \A a \in Alphas : risk'.strategy[a] <= StrategyCap
        BY <2>2, <3>2, <3>5, <3>6 DEF Booked
      <4> QED
        BY <2>2, <3>6, <4>1, <4>2, <4>3 DEF Booked
    <3>8. ASSUME NEW f \in Engines
          PROVE  FlushFits(f)'
      <4>1. CASE f = e
        <5>1. risk'.left = risk.left - n
          BY <1>12, <2>2, <3>4, <3>6
        <5>2. /\ flush'[e].entered + risk'.left <= Pool /\ flush'[e].entered <= Pool
          BY <1>5, <1>7, <1>11, <3>4, <3>5, <3>6, <5>1, Caps0
        <5> QED
          BY <1>11, <2>2, <4>1, <5>2 DEF FlushFits
      <4>2. CASE f # e
        <5>1. ~Flushing(f) /\ flush[f].entry = None
          BY <1>1, <1>5, <3>1, <4>2, OneEngine DEF Entries, EntriesOf
        <5> QED
          BY <1>11, <3>2, <4>2, <5>1 DEF FlushFits, Flushing
      <4> QED
        BY <4>1, <4>2
    <3> QED
      BY <3>7, <3>8
  <2>8. Caps'
    BY <2>7 DEF Caps
  <2> QED
    BY <1>15, <2>4, <2>5, <2>6, <2>8 DEF IInv
<1> QED
  BY <1>13, <1>14

(* The entry was not made: the pair stays idle or goes into its cooldown. *)
LEMMA DroppedInv ==
  ASSUME IInv, NEW e \in Engines, Flushing(e), flush[e].entry # None,
         config' = config, pending' = pending, pairUsed' = pairUsed,
         flush' = [flush EXCEPT ![e].entry = None, ![e].notional = 0],
         \/ state' = state
         \/ state' = [state EXCEPT ![flush[e].entry.pair] = [IdlePair EXCEPT !.st = "Cooldown"]],
         risk' \in Risks, risk'.used = risk.used, risk'.open = risk.open,
         risk'.strategy = risk.strategy, risk' = risk \/ config.live
  PROVE  IInv'
<1>1. TypeOK /\ Figures /\ Ledgers /\ Entries /\ Caps
  BY DEF IInv
<1>2. PICK p : p = flush[e].entry.pair
  OBVIOUS
<1>3. /\ p \in Pairs /\ state[p].st = "Idle" /\ Owner(e) /\ flush[e].second \in Seconds
      /\ flush[e].entered \in Nat
  BY <1>1, <1>2, EntryDone
<1>4. /\ config \in Configs /\ risk \in Risks /\ pairUsed \in [Pairs -> Nat]
      /\ state \in [Pairs -> PairStates] /\ flush \in [Engines -> Flushes]
      /\ pending \in [Engines -> Pendings]
  BY <1>1, Types
<1>5. /\ state' \in [Pairs -> PairStates]
      /\ \A q \in Pairs : q # p => state'[q] = state[q]
      /\ state'[p].st = "Idle" \/ state'[p].st = "Cooldown"
      /\ Figure(state'[p])
  <2>1. Figure(state[p])
    BY <1>1, <1>3 DEF Figures
  <2> QED
    BY <1>2, <1>3, <1>4, <2>1, Idles
<1>6. /\ flush' \in [Engines -> Flushes]
      /\ flush'[e].second = flush[e].second /\ flush'[e].todo = flush[e].todo
      /\ flush'[e].entry = None /\ flush'[e].entered = flush[e].entered
      /\ \A f \in Engines : f # e => flush'[f] = flush[f]
  <2> DEFINE new == [flush[e] EXCEPT !.entry = None, !.notional = 0]
  <2>1. flush[e] \in Flushes /\ 0 \in 0..TradeCap
    BY <1>4, Caps0
  <2>2. /\ new \in Flushes /\ new.second = flush[e].second /\ new.todo = flush[e].todo
        /\ new.entry = None /\ new.entered = flush[e].entered
    BY <2>1 DEF Flushes
  <2>3. flush' = [flush EXCEPT ![e] = new]
    OBVIOUS
  <2> HIDE DEF new
  <2> QED
    BY ONLY <1>4, <2>2, <2>3, e \in Engines
<1>7. TypeOK'
  BY <1>4, <1>5, <1>6, Typed
<1>8. Ledgers'
  <2>1. \A q \in Pairs : state[q].st = "Working" \/ state'[q].st = "Working"
                           => state'[q] = state[q]
    BY <1>3, <1>5
  <2> QED
    BY <1>1, <2>1, LedgersKept
<1>9. Entries'
  BY <1>1, <1>2, <1>5, <1>6, EntriesDone
<1>10. ASSUME Alone'
       PROVE  Booked' /\ \A f \in Engines : FlushFits(f)'
  <2>1. Alone /\ risk' = risk
    BY <1>10 DEF Alone
  <2>2. Booked /\ \A f \in Engines : FlushFits(f)
    BY <1>1, <2>1 DEF Caps
  <2>3. \A q \in Pairs : state'[q].st # "Placing"
    BY <1>5, <2>2 DEF Booked
  <2>4. Booked'
    BY <2>1, <2>2, <2>3 DEF Booked
  <2>5. ASSUME NEW f \in Engines
        PROVE  FlushFits(f)'
    <3>1. CASE f = e
      BY <1>6, <2>1, <2>2, <3>1 DEF FlushFits, Flushing
    <3>2. CASE f # e
      BY <1>6, <2>1, <2>2, <3>2 DEF FlushFits, Flushing, Fits
    <3> QED
      BY <3>1, <3>2
  <2> QED
    BY <2>4, <2>5
<1>11. Caps'
  BY <1>10 DEF Caps
<1>12. Figures'
  BY <1>1, <1>3, <1>5, FiguresMoved
<1> QED
  BY <1>7, <1>8, <1>9, <1>11, <1>12 DEF IInv

(* An entry turned down after its budget was fixed preserves the invariant. *)
LEMMA FlushDeclinesInv ==
  ASSUME IInv, NEW e \in Engines, FlushDeclines(e)
  PROVE  IInv'
<1>1. risk \in Risks
  BY Types DEF IInv
<1>2. /\ Flushing(e) /\ flush[e].entry # None
      /\ flush' = [flush EXCEPT ![e].entry = None, ![e].notional = 0]
      /\ \/ state' = state
         \/ state' = [state EXCEPT ![flush[e].entry.pair] = [IdlePair EXCEPT !.st = "Cooldown"]]
      /\ UNCHANGED <<config, risk, pairUsed, pending>>
  BY DEF FlushDeclines
<1> QED
  BY <1>1, <1>2, DroppedInv

(* An entry without an order target, which gives its reservation back, preserves
   the invariant. *)
LEMMA FlushCannotPlaceInv ==
  ASSUME IInv, NEW e \in Engines, FlushCannotPlace(e)
  PROVE  IInv'
<1>1. risk \in Risks /\ TypeOK /\ Entries
  BY Types DEF IInv
<1>2. /\ config.live /\ Flushing(e) /\ flush[e].entry # None
      /\ flush' = [flush EXCEPT ![e].entry = None, ![e].notional = 0]
      /\ state' = [state EXCEPT ![flush[e].entry.pair] = [IdlePair EXCEPT !.st = "Cooldown"]]
      /\ UNCHANGED <<config, pairUsed, pending>>
  BY DEF FlushCannotPlace
<1>3. PICK n \in Sizes(flush[e].notional) :
        risk' = PoolReleased(PoolReserved(risk, flush[e].second, n), flush[e].second, n)
  BY DEF FlushCannotPlace
<1>4. flush[e].second \in Seconds /\ flush[e].notional \in 0..TradeCap
  BY <1>1, <1>2, EntryDone
<1>5. n \in Nat
  BY DEF Sizes
<1> DEFINE r == PoolReserved(risk, flush[e].second, n)
<1>6. r \in Risks /\ r.used = risk.used /\ r.open = risk.open /\ r.strategy = risk.strategy
  BY <1>1, <1>4, <1>5, PoolReservedType
<1>7. risk' = PoolReleased(r, flush[e].second, n)
  BY <1>3
<1> HIDE DEF r
<1>8. /\ risk' \in Risks /\ risk'.used = risk.used /\ risk'.open = risk.open
      /\ risk'.strategy = risk.strategy
  BY <1>4, <1>5, <1>6, <1>7, PoolReleasedType
<1> QED
  BY <1>2, <1>8, DroppedInv

(* The end of a flush preserves the invariant. *)
LEMMA FlushEndsInv ==
  ASSUME IInv, NEW e \in Engines, FlushEnds(e)
  PROVE  IInv'
<1>1. TypeOK /\ Figures /\ Ledgers /\ Entries /\ Caps
  BY DEF IInv
<1>2. /\ flush' = [flush EXCEPT ![e] = NoFlush]
      /\ UNCHANGED <<config, risk, pairUsed, state, pending>>
  BY DEF FlushEnds
<1>3. /\ config \in Configs /\ risk \in Risks /\ pairUsed \in [Pairs -> Nat]
      /\ state \in [Pairs -> PairStates] /\ flush \in [Engines -> Flushes]
      /\ pending \in [Engines -> Pendings]
  BY <1>1, Types
<1>4. /\ NoFlush \in Flushes /\ NoFlush.second = None /\ NoFlush.todo = {}
      /\ NoFlush.entry = None /\ NoFlush.entered = 0
  BY Caps0 DEF NoFlush, Flushes
<1>5. /\ flush' \in [Engines -> Flushes] /\ flush'[e] = NoFlush
      /\ \A f \in Engines : f # e => flush'[f] = flush[f]
  BY <1>2, <1>3, <1>4
<1>6. TypeOK'
  BY <1>2, <1>3, <1>5, Typed
<1>7. Ledgers'
  BY <1>1, <1>2, LedgersKept
<1>8. Entries'
  <2>1. ASSUME NEW f \in Engines
        PROVE  EntriesOf(f)'
    <3>1. EntriesOf(f)
      BY <1>1 DEF Entries
    <3>2. CASE f = e
      BY <1>2, <1>4, <1>5, <3>1, <3>2 DEF EntriesOf, Own, Owner, Flushing
    <3>3. CASE f # e
      BY <1>2, <1>5, <3>1, <3>3, EntriesOther
    <3> QED
      BY <3>2, <3>3
  <2> QED
    BY <2>1 DEF Entries
<1>9. ASSUME Alone'
      PROVE  Booked' /\ \A f \in Engines : FlushFits(f)'
  <2>1. Alone
    BY <1>2, <1>9 DEF Alone
  <2>2. Booked /\ \A f \in Engines : FlushFits(f)
    BY <1>1, <2>1 DEF Caps
  <2>3. Booked'
    BY <1>2, <2>2 DEF Booked
  <2>4. ASSUME NEW f \in Engines
        PROVE  FlushFits(f)'
    <3>1. CASE f = e
      BY <1>4, <1>5, <3>1, Caps0 DEF FlushFits, Flushing
    <3>2. CASE f # e
      BY <1>2, <1>5, <2>2, <3>2 DEF FlushFits, Flushing, Fits
    <3> QED
      BY <3>1, <3>2
  <2> QED
    BY <2>3, <2>4
<1>10. Caps'
  BY <1>9 DEF Caps
<1>11. Figures'
  BY <1>1, <1>2 DEF Figures
<1> QED
  BY <1>6, <1>7, <1>8, <1>10, <1>11 DEF IInv

(* A pair that is not idle is not about to be entered. *)
LEMMA EntriesMoved ==
  ASSUME TypeOK, Entries, UNCHANGED <<config, pending, flush>>,
         NEW p \in Pairs, state[p].st # "Idle",
         \A q \in Pairs : q # p => state'[q] = state[q]
  PROVE  Entries'
<1>1. ASSUME NEW e \in Engines
      PROVE  EntriesOf(e)'
  <2>1. EntriesOf(e)
    BY DEF Entries
  <2>2. flush[e].entry # None =>
          flush[e].entry.pair # p /\ flush[e].entry.pair \in Pairs
    BY <2>1, Owned DEF EntriesOf
  <2>3. flush[e].entry # None =>
          state'[flush[e].entry.pair] = state[flush[e].entry.pair]
    BY <2>2
  <2> QED
    BY <2>1, <2>3, EntriesOther
<1> QED
  BY <1>1 DEF Entries

(* An order that stands and is booked preserves the invariant. *)
LEMMA PlacedInv ==
  ASSUME IInv, NEW p \in Pairs, Placed(p)
  PROVE  IInv'
<1>1. TypeOK /\ Figures /\ Ledgers /\ Entries /\ Caps
  BY DEF IInv
<1>2. UNCHANGED <<config, pending, flush>> /\ state[p].st = "Placing"
  BY DEF Placed
<1>3. /\ config \in Configs /\ risk \in Risks /\ pairUsed \in [Pairs -> Nat]
      /\ state \in [Pairs -> PairStates] /\ flush \in [Engines -> Flushes]
      /\ pending \in [Engines -> Pendings]
  BY <1>1, Types
<1>4. state[p].notional \in Nat /\ state[p].alpha \in Alphas
  BY <1>3, Caps0 DEF PairStates
<1>5. PICK n \in Nat : n = state[p].notional
  BY <1>4
<1>6. PICK a \in Alphas : a = state[p].alpha
  BY <1>4
<1>7. /\ state' \in [Pairs -> PairStates]
      /\ \A q \in Pairs : q # p => state'[q] = state[q]
      /\ state'[p].st = "Working" /\ state'[p].size = n /\ state'[p].notional = n
      /\ state'[p].alpha = a /\ 0 < n
  <2>1. state' = [state EXCEPT ![p].st = "Working"]
    BY DEF Placed
  <2>2. 0 < state[p].size /\ state[p].notional = state[p].size
    BY <1>1, <1>2 DEF Figures, Figure
  <2> QED
    BY <1>3, <1>5, <1>6, <2>1, <2>2 DEF PairStates
<1>8. /\ risk' \in Risks /\ risk'.used = risk.used + n /\ risk'.open = risk.open + 1
      /\ risk'.strategy = [risk.strategy EXCEPT ![a] = @ + n]
  <2>1. risk' = Added(risk, n, a)
    BY <1>5, <1>6 DEF Placed
  <2>2. risk \in Risks
    BY <1>3
  <2>3. /\ Added(risk, n, a) \in Risks
        /\ Added(risk, n, a).used = risk.used + n /\ Added(risk, n, a).open = risk.open + 1
        /\ Added(risk, n, a).strategy = [risk.strategy EXCEPT ![a] = @ + n]
    BY <2>2, AddedType
  <2> QED
    BY <2>1, <2>3
<1>9. pairUsed' = [pairUsed EXCEPT ![p] = @ + n] /\ pairUsed' \in [Pairs -> Nat]
  <2>1. pairUsed' = [pairUsed EXCEPT ![p] = @ + n]
    BY <1>5 DEF Placed
  <2> QED
    BY <1>3, <2>1
<1>10. TypeOK'
  BY <1>2, <1>3, <1>7, <1>8, <1>9, Typed
<1>11. Ledgers'
  BY <1>1, <1>2, <1>7, <1>8, <1>9, <1>10, LedgersBooked
<1>12. Entries'
  BY <1>1, <1>2, <1>7, EntriesMoved
<1>13. Caps'
  BY <1>1, <1>2 DEF Caps, Booked, Alone
<1>14. Figures'
  <2>1. Figure(state'[p])
    BY <1>7 DEF Figure
  <2> QED
    BY <1>1, <1>7, <2>1, FiguresMoved
<1> QED
  BY <1>10, <1>11, <1>12, <1>13, <1>14 DEF IInv

(* An order that failed preserves the invariant. *)
LEMMA PlaceFailedInv ==
  ASSUME IInv, NEW p \in Pairs, PlaceFailed(p)
  PROVE  IInv'
<1>1. TypeOK /\ Figures /\ Ledgers /\ Entries /\ Caps
  BY DEF IInv
<1>2. /\ UNCHANGED <<config, pairUsed, pending, flush>> /\ state[p].st = "Placing"
      /\ state' = [state EXCEPT ![p] = [IdlePair EXCEPT !.st = "Cooldown"]]
  BY DEF PlaceFailed
<1>3. /\ config \in Configs /\ risk \in Risks /\ pairUsed \in [Pairs -> Nat]
      /\ state \in [Pairs -> PairStates] /\ flush \in [Engines -> Flushes]
      /\ pending \in [Engines -> Pendings]
  BY <1>1, Types
<1>4. state[p].notional \in Nat /\ state[p].second \in Seconds
  BY <1>3, Caps0 DEF PairStates
<1>5. /\ risk' \in Risks /\ risk'.used = risk.used /\ risk'.open = risk.open
      /\ risk'.strategy = risk.strategy
  <2>1. risk' = PoolReleased(risk, state[p].second, state[p].notional)
    BY DEF PlaceFailed
  <2> QED
    BY <1>3, <1>4, <2>1, PoolReleasedType
<1>6. /\ state' \in [Pairs -> PairStates] /\ state'[p].st = "Cooldown"
      /\ \A q \in Pairs : q # p => state'[q] = state[q]
  BY <1>2, <1>3, Idles
<1>7. TypeOK'
  BY <1>2, <1>3, <1>5, <1>6, Typed
<1>8. Ledgers'
  <2>1. \A q \in Pairs : state[q].st = "Working" \/ state'[q].st = "Working"
                           => state'[q] = state[q]
    BY <1>2, <1>6
  <2> QED
    BY <1>1, <1>2, <1>5, <2>1, LedgersKept
<1>9. Entries'
  BY <1>1, <1>2, <1>6, EntriesMoved
<1>10. Caps'
  BY <1>1, <1>2 DEF Caps, Booked, Alone
<1>11. Figures'
  <2>1. Figure(state'[p])
    BY <1>2, <1>3, Idles
  <2> QED
    BY <1>1, <1>6, <2>1, FiguresMoved
<1> QED
  BY <1>7, <1>8, <1>9, <1>10, <1>11 DEF IInv

(* A part fill, which rewrites the notional, preserves the invariant. *)
LEMMA FilledInPartInv ==
  ASSUME IInv, NEW p \in Pairs, FilledInPart(p)
  PROVE  IInv'
<1>1. TypeOK /\ Figures /\ Ledgers /\ Entries /\ Caps
  BY DEF IInv
<1>2. UNCHANGED <<config, risk, pairUsed, pending, flush>> /\ state[p].st = "Working"
  BY DEF FilledInPart
<1>3. PICK n \in 1..state[p].size : state' = [state EXCEPT ![p].notional = n]
  BY DEF FilledInPart
<1>4. /\ config \in Configs /\ risk \in Risks /\ pairUsed \in [Pairs -> Nat]
      /\ state \in [Pairs -> PairStates] /\ flush \in [Engines -> Flushes]
      /\ pending \in [Engines -> Pendings]
  BY <1>1, Types
<1>5. n \in Nat /\ n \in 0..(2 * TradeCap) /\ 0 < n /\ n <= state[p].size
  <2>1. state[p].size \in 0..(2 * TradeCap)
    BY <1>4 DEF PairStates
  <2> QED
    BY <2>1, Caps0
<1>6. /\ state' \in [Pairs -> PairStates] /\ state'[p].st = "Working"
      /\ state'[p].size = state[p].size /\ state'[p].notional = n
      /\ \A q \in Pairs : q # p => state'[q] = state[q]
  BY <1>2, <1>3, <1>4, <1>5 DEF PairStates
<1>7. TypeOK'
  BY <1>2, <1>4, <1>6, Typed
<1>8. Ledgers'
  BY <1>1, <1>2, <1>3, LedgersFilled
<1>9. Entries'
  BY <1>1, <1>2, <1>6, EntriesMoved
<1>10. Caps'
  <2>1. Booked /\ Alone => Booked'
    BY <1>2, <1>6 DEF Booked
  <2> QED
    BY <1>1, <1>2, <2>1 DEF Caps, Alone, FlushFits, Fits, Flushing
<1>11. Figures'
  <2>1. Figure(state'[p])
    BY <1>5, <1>6 DEF Figure
  <2> QED
    BY <1>1, <1>6, <2>1, FiguresMoved
<1> QED
  BY <1>7, <1>8, <1>9, <1>10, <1>11 DEF IInv

(* The end of a trade, which releases what it had booked, preserves the invariant. *)
LEMMA TradeEndsInv ==
  ASSUME IInv, NEW p \in Pairs, TradeEnds(p)
  PROVE  IInv'
<1>1. TypeOK /\ Figures /\ Ledgers /\ Entries /\ Caps
  BY DEF IInv
<1>2. /\ UNCHANGED <<config, pending, flush>> /\ state[p].st = "Working"
      /\ state' = [state EXCEPT ![p] = [IdlePair EXCEPT !.st = "Cooldown"]]
  BY DEF TradeEnds
<1>3. PICK n : n = state[p].notional
  OBVIOUS
<1>4. PICK a : a = state[p].alpha
  OBVIOUS
<1>5. /\ config \in Configs /\ risk \in Risks /\ pairUsed \in [Pairs -> Nat]
      /\ state \in [Pairs -> PairStates] /\ flush \in [Engines -> Flushes]
      /\ pending \in [Engines -> Pendings]
  BY <1>1, Types
<1>6. /\ n \in Nat /\ a \in Alphas /\ n <= state[p].size
      /\ n <= pairUsed[p] /\ n <= risk.strategy[a]
      /\ n <= risk.used /\ 1 <= risk.open
  BY <1>1, <1>2, <1>3, <1>4, Covered
<1>7. /\ risk' \in Risks /\ risk'.used = risk.used - n /\ risk'.open = risk.open - 1
      /\ risk'.strategy = [risk.strategy EXCEPT ![a] = @ - n]
      /\ risk'.second = risk.second /\ risk'.left = risk.left
  <2>1. risk' = Released(risk, n, a)
    BY <1>3, <1>4 DEF TradeEnds
  <2>2. /\ Released(risk, n, a) \in Risks
        /\ Released(risk, n, a).used = risk.used - n
        /\ Released(risk, n, a).open = risk.open - 1
        /\ Released(risk, n, a).strategy = [risk.strategy EXCEPT ![a] = @ - n]
        /\ Released(risk, n, a).second = risk.second /\ Released(risk, n, a).left = risk.left
    BY <1>5, <1>6, ReleasedType
  <2> QED
    BY <2>1, <2>2
<1>8. pairUsed' = [pairUsed EXCEPT ![p] = @ - n] /\ pairUsed' \in [Pairs -> Nat]
  <2>1. pairUsed' = [pairUsed EXCEPT ![p] = Max2(pairUsed[p] - n, 0)]
    BY <1>3 DEF TradeEnds
  <2>2. pairUsed[p] \in Nat
    BY <1>5
  <2>3. Max2(pairUsed[p] - n, 0) = pairUsed[p] - n /\ pairUsed[p] - n \in Nat
    BY <1>6, <2>2 DEF Max2
  <2> QED
    BY <1>5, <2>1, <2>3
<1>9. /\ state' \in [Pairs -> PairStates] /\ state'[p].st = "Cooldown"
      /\ \A q \in Pairs : q # p => state'[q] = state[q]
  BY <1>2, <1>5, Idles
<1>10. TypeOK'
  BY <1>2, <1>5, <1>7, <1>8, <1>9, Typed
<1>11. Ledgers'
  <2>1. state'[p].st # "Working"
    BY <1>9
  <2> QED
    BY <1>1, <1>2, <1>3, <1>4, <1>6, <1>7, <1>8, <1>9, <1>10, <2>1, LedgersReleased
<1>12. Entries'
  BY <1>1, <1>2, <1>9, EntriesMoved
<1>13. /\ risk.used \in Nat /\ risk'.used \in Nat /\ risk'.used <= risk.used
       /\ risk.open \in Nat /\ risk'.open \in Nat /\ risk'.open <= risk.open
       /\ \A q \in Pairs : pairUsed[q] \in Nat /\ pairUsed'[q] \in Nat /\ pairUsed'[q] <= pairUsed[q]
       /\ \A b \in Alphas : /\ risk.strategy[b] \in Nat /\ risk'.strategy[b] \in Nat
                            /\ risk'.strategy[b] <= risk.strategy[b]
  <2>1. /\ risk.used \in Nat /\ risk'.used \in Nat /\ risk'.used <= risk.used
        /\ risk.open \in Nat /\ risk'.open \in Nat /\ risk'.open <= risk.open
        /\ risk.strategy \in [Alphas -> Nat] /\ risk'.strategy \in [Alphas -> Nat]
    BY <1>5, <1>6, <1>7 DEF Risks
  <2>2. ASSUME NEW q \in Pairs
        PROVE  pairUsed[q] \in Nat /\ pairUsed'[q] \in Nat /\ pairUsed'[q] <= pairUsed[q]
    BY <1>5, <1>6, <1>8
  <2>3. ASSUME NEW b \in Alphas
        PROVE  /\ risk.strategy[b] \in Nat /\ risk'.strategy[b] \in Nat
               /\ risk'.strategy[b] <= risk.strategy[b]
    BY <1>6, <1>7, <2>1
  <2> QED
    BY <2>1, <2>2, <2>3
<1>14. ASSUME Alone'
       PROVE  Booked' /\ \A f \in Engines : FlushFits(f)'
  <2>1. Alone
    BY <1>2, <1>14 DEF Alone
  <2>2. Booked /\ \A f \in Engines : FlushFits(f)
    BY <1>1, <2>1 DEF Caps
  <2>3. \A q \in Pairs : state'[q].st # "Placing"
    BY <1>9, <2>2 DEF Booked
  <2>4. Booked'
    BY <1>13, <2>2, <2>3, Caps0 DEF Booked
  <2>5. ASSUME NEW f \in Engines
        PROVE  FlushFits(f)'
    <3>1. FlushFits(f)
      BY <2>2
    <3>2. ASSUME flush[f].entry # None
          PROVE  Fits(flush[f].entry, flush[f].notional)'
      <4>1. Fits(flush[f].entry, flush[f].notional)
        BY <3>1, <3>2 DEF FlushFits
      <4>2. /\ flush[f].entry.pair \in Pairs /\ flush[f].entry.alpha \in Alphas
            /\ flush[f].notional \in Nat
        BY <1>1, <1>5, <3>2, Caps0 DEF Entries, EntriesOf, Flushes, Entry
      <4> QED
        BY <1>2, <1>7, <1>13, <4>1, <4>2, Caps0 DEF Fits
    <3> QED
      BY <1>2, <1>7, <3>1, <3>2 DEF FlushFits, Flushing
  <2> QED
    BY <2>4, <2>5
<1>15. Caps'
  BY <1>14 DEF Caps
<1>16. Figures'
  <2>1. Figure(state'[p])
    BY <1>2, <1>5, Idles
  <2> QED
    BY <1>1, <1>9, <2>1, FiguresMoved
<1> QED
  BY <1>10, <1>11, <1>12, <1>15, <1>16 DEF IInv

(* check_cooldown preserves the invariant. *)
LEMMA CooldownEndsInv ==
  ASSUME IInv, NEW p \in Pairs, CooldownEnds(p)
  PROVE  IInv'
<1>1. TypeOK /\ Figures /\ Ledgers /\ Entries /\ Caps
  BY DEF IInv
<1>2. /\ UNCHANGED <<config, risk, pairUsed, pending, flush>> /\ state[p].st = "Cooldown"
      /\ state' = [state EXCEPT ![p] = IdlePair]
  BY DEF CooldownEnds
<1>3. /\ config \in Configs /\ risk \in Risks /\ pairUsed \in [Pairs -> Nat]
      /\ state \in [Pairs -> PairStates] /\ flush \in [Engines -> Flushes]
      /\ pending \in [Engines -> Pendings]
  BY <1>1, Types
<1>4. /\ state' \in [Pairs -> PairStates] /\ state'[p].st = "Idle"
      /\ \A q \in Pairs : q # p => state'[q] = state[q]
  BY <1>2, <1>3, Idles
<1>5. TypeOK'
  BY <1>2, <1>3, <1>4, Typed
<1>6. Ledgers'
  <2>1. \A q \in Pairs : state[q].st = "Working" \/ state'[q].st = "Working"
                           => state'[q] = state[q]
    BY <1>2, <1>4
  <2> QED
    BY <1>1, <1>2, <2>1, LedgersKept
<1>7. Entries'
  BY <1>1, <1>2, <1>4, EntriesMoved
<1>8. Caps'
  <2>1. Booked => Booked'
    BY <1>2, <1>4 DEF Booked
  <2> QED
    BY <1>1, <1>2, <2>1 DEF Caps, Alone, FlushFits, Fits, Flushing
<1>9. Figures'
  <2>1. Figure(state'[p])
    BY <1>2, <1>3, Idles
  <2> QED
    BY <1>1, <1>4, <2>1, FiguresMoved
<1> QED
  BY <1>5, <1>6, <1>7, <1>8, <1>9 DEF IInv

(* Every step preserves the invariant. *)
LEMMA NextInv ==
  ASSUME IInv, Next
  PROVE  IInv'
<1>1. DOMAIN config.engineOf \subseteq Pairs
  BY TradeRiskAssumption DEF IInv, TypeOK
<1>2. ASSUME NEW p \in DOMAIN config.engineOf, NEW s \in Seconds, NEW a \in Alphas,
             QueueEntry(p, s, a)
      PROVE  IInv'
  BY <1>2, QueueEntryInv
<1>3. ASSUME NEW e \in Engines,
             \/ FlushBegins(e) \/ FlushEnters(e) \/ FlushDeclines(e) \/ FlushCannotPlace(e)
             \/ FlushEnds(e)
             \/ \E x \in flush[e].todo : FlushBudgets(e, x)
      PROVE  IInv'
  <2>1. CASE FlushBegins(e)
    BY <2>1, FlushBeginsInv
  <2>2. CASE FlushEnters(e)
    BY <2>2, FlushEntersInv
  <2>3. CASE FlushDeclines(e)
    BY <2>3, FlushDeclinesInv
  <2>4. CASE FlushCannotPlace(e)
    BY <2>4, FlushCannotPlaceInv
  <2>5. CASE FlushEnds(e)
    BY <2>5, FlushEndsInv
  <2>6. CASE \E x \in flush[e].todo : FlushBudgets(e, x)
    BY <2>6, FlushBudgetsInv
  <2> QED
    BY <1>3, <2>1, <2>2, <2>3, <2>4, <2>5, <2>6
<1>4. ASSUME NEW p \in DOMAIN config.engineOf,
             Placed(p) \/ PlaceFailed(p) \/ FilledInPart(p) \/ TradeEnds(p) \/ CooldownEnds(p)
      PROVE  IInv'
  BY <1>1, <1>4, PlacedInv, PlaceFailedInv, FilledInPartInv, TradeEndsInv, CooldownEndsInv
<1> QED
  BY <1>2, <1>3, <1>4 DEF Next
-----------------------------------------------------------------------------
(* The invariant of every behaviour: the ledgers, the entries that wait and the caps. *)
THEOREM Invariance == Spec => []IInv
<1>1. Init => IInv
  BY InitInv
<1>2. IInv /\ [Next]_vars => IInv'
  <2>1. ASSUME IInv, UNCHANGED vars
        PROVE  IInv'
    <3>1. TypeOK /\ Figures /\ Ledgers /\ Entries /\ Caps /\ UNCHANGED vars
      BY <2>1 DEF IInv
    <3>2. TypeOK'
      BY <3>1 DEF TypeOK, vars
    <3>3. Ledgers'
      BY <3>1, LedgersKept DEF vars
    <3>4. Entries'
      BY <3>1 DEF Entries, EntriesOf, Own, Owner, Flushing, vars
    <3>5. Caps'
      BY <3>1 DEF Caps, Alone, Booked, FlushFits, Fits, Flushing, vars
    <3>6. Figures'
      BY <3>1 DEF Figures, vars
    <3> QED
      BY <3>2, <3>3, <3>4, <3>5, <3>6 DEF IInv
  <2> QED
    BY <2>1, NextInv
<1> QED
  BY <1>1, <1>2, PTL DEF Spec

(* Type correctness: what is left of the pool stays within the pool, whichever second it
   was started for and by whom, and a notional within twice the largest trade. *)
THEOREM RiskTypes == Spec => []TypeOK
<1>1. IInv => TypeOK
  BY DEF IInv
<1> QED
  BY <1>1, Invariance, PTL

(* The exposure in use is the sum over the strategies and the sum over the pairs,
   whatever the engines do at the same time: add_exposure and release_exposure charge
   and take back the same amounts in all three, and each counts or discounts the pair it
   is about. *)
THEOREM LedgersAgreeHolds == Spec => []LedgersAgree
<1>1. ASSUME IInv
      PROVE  LedgersAgree
  <2>1. risk.strategy \in [Alphas -> Nat]
    BY <1>1, Types DEF IInv, Risks
  <2>2. Total(risk.strategy, Alphas) = risk.strategy["ShockA"] + risk.strategy["GapB"]
    BY <2>1, TotalAlphas
  <2>3. /\ risk.used = Total(risk.strategy, Alphas) /\ risk.used = Total(pairUsed, Pairs)
        /\ risk.open = Cardinality(Working)
    BY <1>1, <2>2 DEF IInv, Ledgers
  <2> QED
    BY <2>3 DEF LedgersAgree, Total
<1> QED
  BY <1>1, Invariance, PTL

(* One engine that books at once and scales no entry up keeps every cap, however many
   pairs it has and whatever the caps are. *)
THEOREM WithinCapsHolds == Spec => []WithinCaps
<1>1. IInv => WithinCaps
  BY DEF IInv, Caps, Booked, FlushFits, WithinCaps
<1> QED
  BY <1>1, Invariance, PTL
-----------------------------------------------------------------------------
(* The exposure of every pair: a step is one of PairExposure for at most one pair. *)

(* The amounts of a pair are numbers, and its ledger covers what it entered. *)
LEMMA ExposureTypes ==
  ASSUME IInv, NEW p \in Pairs
  PROVE  /\ state[p].size \in Nat /\ state[p].notional \in Nat /\ pairUsed[p] \in Nat
         /\ state \in [Pairs -> PairStates] /\ pairUsed \in [Pairs -> Nat]
<1>1. state \in [Pairs -> PairStates] /\ pairUsed \in [Pairs -> Nat]
  BY Types DEF IInv
<1>2. state[p].size \in 0..(2 * TradeCap) /\ state[p].notional \in 0..(2 * TradeCap)
  BY <1>1 DEF PairStates
<1> QED
  BY <1>1, <1>2, Caps0

(* The other pairs rest while one takes a step. *)
LEMMA OthersRest ==
  ASSUME NEW p \in Pairs, Exposure(p)!Next,
         \A q \in Pairs : q # p => state'[q] = state[q] /\ pairUsed'[q] = pairUsed[q]
  PROVE  \A q \in Pairs : [Exposure(q)!Next]_(Exposure(q)!trade)
<1>1. ASSUME NEW q \in Pairs
      PROVE  [Exposure(q)!Next]_(Exposure(q)!trade)
  <2>1. CASE q = p
    BY <2>1
  <2>2. CASE q # p
    BY <2>2 DEF Exposure!trade
  <2> QED
    BY <2>1, <2>2
<1> QED
  BY <1>1

(* An entry made while flushing: on its way, or booked at once in a dry run. *)
LEMMA EntersExposure ==
  ASSUME IInv, NEW e \in Engines, FlushEnters(e)
  PROVE  \A q \in Pairs : [Exposure(q)!Next]_(Exposure(q)!trade)
<1>1. TypeOK /\ Figures /\ Entries /\ Flushing(e) /\ flush[e].entry # None
  BY DEF IInv, FlushEnters
<1>2. PICK p : p = flush[e].entry.pair
  OBVIOUS
<1>3. /\ p \in Pairs /\ state[p].st = "Idle" /\ flush[e].notional \in 0..TradeCap
  BY <1>1, <1>2, EntryDone
<1>4. PICK n \in Sizes(flush[e].notional) :
        /\ state' = [state EXCEPT ![p] =
             [st |-> IF config.live THEN "Placing" ELSE "Working", size |-> n, notional |-> n,
              alpha |-> flush[e].entry.alpha, second |-> flush[e].second]]
        /\ pairUsed' = IF config.live THEN pairUsed ELSE [pairUsed EXCEPT ![p] = @ + n]
  BY <1>2 DEF FlushEnters
<1>5. n \in Nat \ {0}
  BY <1>3, Caps0 DEF Sizes
<1>6. /\ state \in [Pairs -> PairStates] /\ pairUsed \in [Pairs -> Nat]
      /\ state[p].size = 0 /\ state[p].notional = 0
  BY <1>1, <1>3, Types DEF Figures, Figure
<1>7. /\ state'[p].st = IF config.live THEN "Placing" ELSE "Working"
      /\ state'[p].size = n /\ state'[p].notional = n
      /\ pairUsed'[p] = IF config.live THEN pairUsed[p] ELSE pairUsed[p] + n
      /\ \A q \in Pairs : q # p => state'[q] = state[q] /\ pairUsed'[q] = pairUsed[q]
  BY <1>3, <1>4, <1>6
<1>8. Exposure(p)!Next
  <2>1. CASE config.live
    <3>1. Exposure(p)!Enter
      BY <1>3, <1>5, <1>7, <2>1 DEF Exposure!Enter
    <3> QED
      BY <3>1 DEF Exposure!Next
  <2>2. CASE ~config.live
    <3>1. Exposure(p)!EnterBooked
      BY <1>3, <1>5, <1>7, <2>2 DEF Exposure!EnterBooked
    <3> QED
      BY <3>1 DEF Exposure!Next
  <2> QED
    BY <2>1, <2>2
<1> QED
  BY <1>3, <1>7, <1>8, OthersRest

(* An entry that is not made refuses its pair or leaves it alone. *)
LEMMA DropsExposure ==
  ASSUME IInv, NEW e \in Engines, FlushDeclines(e) \/ FlushCannotPlace(e)
  PROVE  \A q \in Pairs : [Exposure(q)!Next]_(Exposure(q)!trade)
<1>1. /\ TypeOK /\ Figures /\ Entries /\ Flushing(e) /\ flush[e].entry # None
      /\ pairUsed' = pairUsed
  BY DEF IInv, FlushDeclines, FlushCannotPlace
<1>2. PICK p : p = flush[e].entry.pair
  OBVIOUS
<1>3. p \in Pairs /\ state[p].st = "Idle"
  BY <1>1, <1>2, EntryDone
<1>4. CASE state' = state
  BY <1>1, <1>4 DEF Exposure!trade
<1>5. CASE state' = [state EXCEPT ![p] = [IdlePair EXCEPT !.st = "Cooldown"]]
  <2>1. /\ state[p].size = 0 /\ state[p].notional = 0
        /\ state \in [Pairs -> PairStates]
    BY <1>1, <1>3, Types DEF Figures, Figure
  <2>2. /\ state'[p] = [IdlePair EXCEPT !.st = "Cooldown"]
        /\ \A q \in Pairs : q # p => state'[q] = state[q]
    BY <1>3, <1>5, <2>1
  <2>3. state'[p].st = "Cooldown" /\ state'[p].size = 0 /\ state'[p].notional = 0
    BY <2>2, Idles DEF Figure
  <2>4. Exposure(p)!Refuse
    BY <1>1, <1>3, <2>1, <2>3 DEF Exposure!Refuse
  <2> QED
    BY <1>1, <1>3, <2>2, <2>4, OthersRest DEF Exposure!Next
<1> QED
  BY <1>2, <1>4, <1>5 DEF FlushDeclines, FlushCannotPlace

(* A handler of one pair takes one step of its exposure. *)
LEMMA HandlersExposure ==
  ASSUME IInv, NEW p \in Pairs,
         Placed(p) \/ PlaceFailed(p) \/ FilledInPart(p) \/ TradeEnds(p) \/ CooldownEnds(p)
  PROVE  \A q \in Pairs : [Exposure(q)!Next]_(Exposure(q)!trade)
<1>1. /\ TypeOK /\ Figures /\ Ledgers /\ Figure(state[p])
      /\ state \in [Pairs -> PairStates] /\ pairUsed \in [Pairs -> Nat]
      /\ state[p].size \in Nat /\ state[p].notional \in Nat /\ pairUsed[p] \in Nat
  BY ExposureTypes DEF IInv, Figures
<1> DEFINE rested == [IdlePair EXCEPT !.st = "Cooldown"]
<1>2. /\ rested.st = "Cooldown" /\ rested.size = 0 /\ rested.notional = 0
      /\ IdlePair.st = "Idle" /\ IdlePair.size = 0 /\ IdlePair.notional = 0
  BY Idles DEF Figure
<1> HIDE DEF rested
<1>3. \A q \in Pairs : q # p => state'[q] = state[q] /\ pairUsed'[q] = pairUsed[q]
  BY <1>1 DEF Placed, PlaceFailed, FilledInPart, TradeEnds, CooldownEnds
<1>4. CASE Placed(p)
  <2>1. state[p].st = "Placing" /\ state[p].notional = state[p].size
    BY <1>1, <1>4 DEF Placed, Figure
  <2>2. state' = [state EXCEPT ![p].st = "Working"]
    BY <1>4 DEF Placed
  <2>3. /\ state'[p].st = "Working" /\ state'[p].size = state[p].size
        /\ state'[p].notional = state[p].notional
    BY <1>1, <2>2 DEF PairStates
  <2>4. pairUsed'[p] = pairUsed[p] + state[p].size
    BY <1>1, <1>4, <2>1 DEF Placed
  <2>5. Exposure(p)!Book
    BY <2>1, <2>3, <2>4 DEF Exposure!Book
  <2> QED
    BY <2>5, <1>3, OthersRest DEF Exposure!Next
<1>5. CASE PlaceFailed(p)
  <2>1. state[p].st = "Placing" /\ state'[p] = rested /\ pairUsed' = pairUsed
    BY <1>1, <1>5 DEF PlaceFailed, rested
  <2>2. Exposure(p)!Fail
    BY <1>2, <2>1 DEF Exposure!Fail, Exposure!Over
  <2> QED
    BY <2>2, <1>3, OthersRest DEF Exposure!Next
<1>6. CASE FilledInPart(p)
  <2>1. PICK n \in 1..state[p].size : state' = [state EXCEPT ![p].notional = n]
    BY <1>6 DEF FilledInPart
  <2>2. /\ state'[p].st = state[p].st /\ state'[p].size = state[p].size
        /\ state'[p].notional = n
    BY <1>1, <2>1 DEF PairStates
  <2>3. Exposure(p)!Fill
    BY <1>6, <2>1, <2>2 DEF Exposure!Fill, FilledInPart
  <2> QED
    BY <2>3, <1>3, OthersRest DEF Exposure!Next
<1>7. CASE TradeEnds(p)
  <2>1. state[p].st = "Working" /\ state'[p] = rested
    BY <1>1, <1>7 DEF TradeEnds, rested
  <2>2. state[p].notional <= pairUsed[p]
    BY <1>1, <2>1, Covered
  <2>3. pairUsed'[p] = pairUsed[p] - state[p].notional
    BY <1>1, <1>7, <2>2 DEF TradeEnds, Max2
  <2>4. Exposure(p)!End
    BY <1>2, <2>1, <2>2, <2>3 DEF Exposure!End, Exposure!Over
  <2> QED
    BY <2>4, <1>3, OthersRest DEF Exposure!Next
<1>8. CASE CooldownEnds(p)
  <2>1. state[p].st = "Cooldown" /\ state'[p] = IdlePair /\ pairUsed' = pairUsed
    BY <1>1, <1>8 DEF CooldownEnds
  <2>2. state[p].size = 0 /\ state[p].notional = 0
    BY <1>1, <2>1 DEF Figure
  <2>3. Exposure(p)!Rest
    BY <1>2, <2>1, <2>2 DEF Exposure!Rest
  <2> QED
    BY <2>3, <1>3, OthersRest DEF Exposure!Next
<1> QED
  BY <1>4, <1>5, <1>6, <1>7, <1>8

(* Every pair's exposure goes up with its entry and down with what the pair holds by its
   own figure, once each, for any number of engines and pairs and any order of their
   flushes, answers, part fills and endings: add_exposure and release_exposure are called
   in step with the trade, and the subtraction never stops at zero. *)
THEOREM PairsExposedHolds == Spec => PairsExposed
<1>1. ASSUME Init
      PROVE  \A p \in Pairs : Exposure(p)!Init
  <2>1. state = [p \in Pairs |-> IdlePair] /\ pairUsed = [p \in Pairs |-> 0]
    BY <1>1 DEF Init
  <2> QED
    BY <2>1 DEF Exposure!Init, IdlePair
<1>2. ASSUME IInv, [Next]_vars
      PROVE  [\A p \in Pairs : [Exposure(p)!Next]_(Exposure(p)!trade)]_vars
  <2>1. CASE UNCHANGED vars
    BY <2>1
  <2>2. CASE Next
    <3>1. DOMAIN config.engineOf \subseteq Pairs
      BY <1>2, TradeRiskAssumption DEF IInv, TypeOK
    <3>2. CASE UNCHANGED <<state, pairUsed>>
      BY <3>2 DEF Exposure!trade
    <3>3. CASE \E e \in Engines : FlushEnters(e)
      BY <1>2, <3>3, EntersExposure
    <3>4. CASE \E e \in Engines : FlushDeclines(e) \/ FlushCannotPlace(e)
      BY <1>2, <3>4, DropsExposure
    <3>5. CASE \E p \in DOMAIN config.engineOf :
                 Placed(p) \/ PlaceFailed(p) \/ FilledInPart(p) \/ TradeEnds(p) \/ CooldownEnds(p)
      BY <1>2, <3>1, <3>5, HandlersExposure
    <3> QED
      BY <2>2, <3>2, <3>3, <3>4, <3>5
         DEF Next, QueueEntry, FlushBegins, FlushEnds, FlushBudgets
  <2> QED
    BY <1>2, <2>1, <2>2
<1> QED
  BY <1>1, <1>2, Invariance, PTL DEF Spec, PairsExposed
==============================================================================
