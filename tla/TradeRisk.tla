------------------------------ MODULE TradeRisk ------------------------------
(***************************************************************************)
(* The risk budget that the trade engines share (trade/mod.rs).            *)
(*                                                                         *)
(* Every engine owns some of the pairs.  It collects the entries of one    *)
(* second and flushes them when a bar of a later second arrives: each is   *)
(* given a notional from what the caps leave, under the lock of            *)
(* TradeRiskState, and entered after the lock was given up.  Live, the     *)
(* exposure is booked when the answer to the place request is handled;     *)
(* in a dry run at once.                                                   *)
(*                                                                         *)
(* Amounts are whole units and the price is 1.  A pair trades in one       *)
(* direction, so that the exposure key is the pair.  What else decides     *)
(* about an entry (signals, books, gas, rank) is left open.                *)
(***************************************************************************)
EXTENDS Integers, FiniteSets, FiniteSetsExt

CONSTANTS
  Engines, Pairs,
  Configs,     \* the configurations the program may be started with
  MaxOpen,     \* max_open_positions
  GlobalCap,   \* balance_total_usd * max_global_exposure_frac
  PairCap,     \* balance_total_usd * max_per_pair_exposure_frac
  StrategyCap, \* balance_total_usd * strategy_cap_a and _b
  Pool,        \* balance_total_usd * entry_pool_frac
  TradeCap,    \* the least of per_trade_cap, free balance and entry fractions
  MaxSecond,   \* bound: bars are of the seconds 1..MaxSecond
  None

ASSUME TradeRiskAssumption ==
  /\ IsFiniteSet(Pairs)
  /\ \A c \in Configs :
       /\ DOMAIN c.engineOf \subseteq Pairs
       /\ \A p \in DOMAIN c.engineOf : c.engineOf[p] \in Engines
       /\ {c.live, c.partFills, c.alphaC} \subseteq BOOLEAN
  /\ {MaxOpen, GlobalCap, PairCap, StrategyCap, Pool, TradeCap, MaxSecond} \subseteq Nat \ {0}
  /\ None \notin Nat

VARIABLES
  config,   \* live: is_live; engineOf: the pairs in use and pick_pair_shard's
            \* choice of their engine; alphaC: alpha_c_enabled with a bonus, so that
            \* an entry may be scaled up; partFills: entries may fill in part
  risk,     \* TradeRiskState
  pairUsed, \* pair_exposure of the engine that owns the pair
  state,    \* the part of PairTradeState that the budget depends on
  pending,  \* pending_entries and pending_second of every engine
  flush     \* where an engine is in flush_pending_entries

vars == <<config, risk, pairUsed, state, pending, flush>>

Alphas == {"ShockA", "GapB"}
Seconds == 1..MaxSecond
Entry == [pair : Pairs, alpha : Alphas]

Min2(a, b) == IF a <= b THEN a ELSE b
Max2(a, b) == IF a >= b THEN a ELSE b

NoFlush == [second |-> None, todo |-> {}, entry |-> None, notional |-> 0, entered |-> 0]
NoEntries == [second |-> None, entries |-> {}]
IdlePair == [st |-> "Idle", size |-> 0, notional |-> 0, alpha |-> "GapB", second |-> 1]

Init ==
  /\ config \in Configs
  /\ risk = [used |-> 0, open |-> 0, strategy |-> [a \in Alphas |-> 0],
             second |-> None, left |-> 0]
  /\ pairUsed = [p \in Pairs |-> 0]
  /\ state = [p \in Pairs |-> IdlePair]
  /\ pending = [e \in Engines |-> NoEntries]
  /\ flush = [e \in Engines |-> NoFlush]

Flushing(e) == flush[e].second # None
-----------------------------------------------------------------------------
(* reset_entry_pool: the pool belongs to one second. *)
PoolReset(r, s) == IF r.second = s THEN r ELSE [r EXCEPT !.second = s, !.left = Pool]

(* Faulty: what is reserved is not taken from the pool. *)
PoolReservedNot(r, s, n) == PoolReset(r, s)

(* reserve_entry_pool, for the second of the entry. *)
PoolReserved(r, s, n) ==
  LET q == PoolReset(r, s) IN [q EXCEPT !.left = Max2(q.left - n, 0)]

(* Faulty: what is given back may exceed the pool. *)
PoolReleasedUncapped(r, s, n) ==
  LET q == PoolReset(r, s) IN [q EXCEPT !.left = q.left + n]

(* release_entry_pool; the pool may belong to a later second by now, and starts over. *)
PoolReleased(r, s, n) ==
  LET q == PoolReset(r, s) IN [q EXCEPT !.left = Min2(q.left + n, Pool)]

(* add_exposure: the shared part ... *)
Added(r, n, a) ==
  [r EXCEPT !.used = @ + n, !.open = @ + 1, !.strategy[a] = @ + n]

(* Faulty: the strategy was forgotten and its default is charged. *)
ReleasedDefault(r, n, a) ==
  [r EXCEPT !.used = Max2(@ - n, 0), !.open = Max2(@ - 1, 0),
            !.strategy["GapB"] = Max2(@ - n, 0)]

(* Faulty: the position stays counted. *)
ReleasedUncounted(r, n, a) ==
  [r EXCEPT !.used = Max2(@ - n, 0), !.strategy[a] = Max2(@ - n, 0)]

(* ... and release_exposure. *)
Released(r, n, a) ==
  [r EXCEPT !.used = Max2(@ - n, 0), !.open = Max2(@ - 1, 0),
            !.strategy[a] = Max2(@ - n, 0)]

(* Faulty: the exposure in use is not looked at. *)
BudgetOfEmptyBook(r, p, a) ==
  IF r.open >= MaxOpen THEN 0 ELSE Min({TradeCap, r.left, GlobalCap, PairCap, StrategyCap})

(* Faulty: one position too many. *)
BudgetOneMore(r, p, a) ==
  IF r.open > MaxOpen THEN 0
  ELSE Max2(0, Min({TradeCap, r.left, GlobalCap - r.used, PairCap - pairUsed[p],
                    StrategyCap - r.strategy[a]}))

(* budget_for_entry: the largest notional that every cap leaves, 0 for none. *)
Budget(r, p, a) ==
  IF r.open >= MaxOpen THEN 0
  ELSE Max2(0, Min({TradeCap, r.left, GlobalCap - r.used, PairCap - pairUsed[p],
                    StrategyCap - r.strategy[a]}))
-----------------------------------------------------------------------------
(* queue_entry, of a bar of the second s.  Entries of another second are dropped. *)
QueueEntry(p, s, a) ==
  LET e == config.engineOf[p] IN
  /\ ~Flushing(e) /\ state[p].st = "Idle"
  /\ \/ /\ pending[e].second = None
        /\ pending' = [pending EXCEPT ![e] =
                         [second |-> s, entries |-> {[pair |-> p, alpha |-> a]}]]
     \/ /\ pending[e].second = s
        /\ \A x \in pending[e].entries : x.pair # p
        /\ pending' = [pending EXCEPT ![e].entries = @ \cup {[pair |-> p, alpha |-> a]}]
     \/ /\ pending[e].second # None /\ pending[e].second > s
        /\ pending' = [pending EXCEPT ![e] =
                         [second |-> s, entries |-> {[pair |-> p, alpha |-> a]}]]
  /\ UNCHANGED <<config, risk, pairUsed, state, flush>>

(* flush_pending_entries begins, on a bar of a later second; the best entries of
   either strategy are kept. *)
FlushBegins(e) ==
  /\ ~Flushing(e) /\ pending[e].second # None
  /\ pending[e].second < MaxSecond
  /\ \E best \in SUBSET pending[e].entries :
       flush' = [flush EXCEPT ![e] = [NoFlush EXCEPT !.second = pending[e].second,
                                                     !.todo = best]]
  /\ pending' = [pending EXCEPT ![e] = NoEntries]
  /\ risk' = PoolReset(risk, pending[e].second)
  /\ UNCHANGED <<config, pairUsed, state>>

(* The next entry, ShockA before GapB: it is skipped when its pair is not idle, when
   nothing is left or for reasons left open; else its budget is fixed. *)
FlushBudgets(e, x) ==
  LET r == PoolReset(risk, flush[e].second)
      n == Budget(r, x.pair, x.alpha)
  IN
  /\ Flushing(e) /\ flush[e].entry = None /\ x \in flush[e].todo
  /\ x.alpha = "GapB" => \A y \in flush[e].todo : y.alpha = "GapB"
  /\ risk' = r
  /\ \/ flush' = [flush EXCEPT ![e].todo = @ \ {x}]
     \/ /\ state[x.pair].st = "Idle" /\ n > 0
        /\ flush' = [flush EXCEPT ![e].todo = @ \ {x}, ![e].entry = x, ![e].notional = n]
  /\ UNCHANGED <<config, pairUsed, state, pending>>

(* What maybe_enter may make of a budget: the book, the spread and the age of the
   signal scale it down, the alpha C modifier by 0.2 to 1.5. *)
Sizes(n) == 1..(IF config.alphaC THEN (3 * n) \div 2 ELSE n)

(* maybe_enter goes on without the lock: the size is scaled, the pool charged and the
   entry placed, or booked at once in a dry run. *)
FlushEnters(e) ==
  /\ Flushing(e) /\ flush[e].entry # None
  /\ \E n \in Sizes(flush[e].notional) :
       LET x == flush[e].entry
           r == PoolReserved(risk, flush[e].second, n)
           entered == [st |-> IF config.live THEN "Placing" ELSE "Working", size |-> n,
                       notional |-> n, alpha |-> x.alpha, second |-> flush[e].second]
       IN
       /\ state' = [state EXCEPT ![x.pair] = entered]
       /\ risk' = IF config.live THEN r ELSE Added(r, n, x.alpha)
       /\ pairUsed' = IF config.live THEN pairUsed ELSE [pairUsed EXCEPT ![x.pair] = @ + n]
       /\ flush' = [flush EXCEPT ![e].entry = None, ![e].notional = 0, ![e].entered = @ + n]
  /\ UNCHANGED <<config, pending>>

(* A guard of maybe_enter after the budget turns the entry down; one that finds no
   price to offer also sends the pair into its cooldown. *)
FlushDeclines(e) ==
  /\ Flushing(e) /\ flush[e].entry # None
  /\ flush' = [flush EXCEPT ![e].entry = None, ![e].notional = 0]
  /\ \/ UNCHANGED <<config, state>>
     \/ state' = [state EXCEPT ![flush[e].entry.pair] = [IdlePair EXCEPT !.st = "Cooldown"]]
  /\ UNCHANGED <<config, risk, pairUsed, pending>>

(* The pair has no order target: what was reserved is given back at once. *)
FlushCannotPlace(e) ==
  /\ config.live /\ Flushing(e) /\ flush[e].entry # None
  /\ \E n \in Sizes(flush[e].notional) :
       risk' = PoolReleased(PoolReserved(risk, flush[e].second, n), flush[e].second, n)
  /\ state' = [state EXCEPT ![flush[e].entry.pair] = [IdlePair EXCEPT !.st = "Cooldown"]]
  /\ flush' = [flush EXCEPT ![e].entry = None, ![e].notional = 0]
  /\ UNCHANGED <<config, pairUsed, pending>>

FlushEnds(e) ==
  /\ Flushing(e) /\ flush[e].entry = None /\ flush[e].todo = {}
  /\ flush' = [flush EXCEPT ![e] = NoFlush]
  /\ UNCHANGED <<config, risk, pairUsed, state, pending>>
-----------------------------------------------------------------------------
(* handle_entry_place_result: the order stands and is booked ... *)
Placed(p) ==
  /\ ~Flushing(config.engineOf[p]) /\ state[p].st = "Placing"
  /\ risk' = Added(risk, state[p].notional, state[p].alpha)
  /\ pairUsed' = [pairUsed EXCEPT ![p] = @ + state[p].notional]
  /\ state' = [state EXCEPT ![p].st = "Working"]
  /\ UNCHANGED <<config, pending, flush>>

(* Faulty: an exposure is released that was not counted. *)
PlaceFailedReleases(p) ==
  /\ ~Flushing(config.engineOf[p]) /\ state[p].st = "Placing"
  /\ risk' = Released(risk, state[p].notional, state[p].alpha)
  /\ pairUsed' = [pairUsed EXCEPT ![p] = Max2(@ - state[p].notional, 0)]
  /\ state' = [state EXCEPT ![p] = [IdlePair EXCEPT !.st = "Cooldown"]]
  /\ UNCHANGED <<config, pending, flush>>

(* ... or failed, and gives its share of the pool back. *)
PlaceFailed(p) ==
  /\ ~Flushing(config.engineOf[p]) /\ state[p].st = "Placing"
  /\ risk' = PoolReleased(risk, state[p].second, state[p].notional)
  /\ state' = [state EXCEPT ![p] = [IdlePair EXCEPT !.st = "Cooldown"]]
  /\ UNCHANGED <<config, pairUsed, pending, flush>>

(* apply_entry_fills: a fill rewrites the notional, not the exposure.  A trade and the
   sum of all trades are both told, in any order, so that it may grow again. *)
FilledInPart(p) ==
  /\ config.partFills /\ ~Flushing(config.engineOf[p]) /\ state[p].st = "Working"
  /\ \E n \in 1..state[p].size : state' = [state EXCEPT ![p].notional = n]
  /\ UNCHANGED <<config, risk, pairUsed, pending, flush>>

(* finalize_entry_cancel and apply_exit_fills *)
TradeEnds(p) ==
  /\ ~Flushing(config.engineOf[p]) /\ state[p].st = "Working"
  /\ risk' = Released(risk, state[p].notional, state[p].alpha)
  /\ pairUsed' = [pairUsed EXCEPT ![p] = Max2(@ - state[p].notional, 0)]
  /\ state' = [state EXCEPT ![p] = [IdlePair EXCEPT !.st = "Cooldown"]]
  /\ UNCHANGED <<config, pending, flush>>

(* check_cooldown *)
CooldownEnds(p) ==
  /\ ~Flushing(config.engineOf[p]) /\ state[p].st = "Cooldown"
  /\ state' = [state EXCEPT ![p] = IdlePair]
  /\ UNCHANGED <<config, risk, pairUsed, pending, flush>>

Next ==
  \/ \E p \in DOMAIN config.engineOf, s \in Seconds, a \in Alphas : QueueEntry(p, s, a)
  \/ \E e \in Engines :
       \/ FlushBegins(e) \/ FlushEnters(e) \/ FlushDeclines(e) \/ FlushCannotPlace(e)
       \/ FlushEnds(e)
       \/ \E x \in flush[e].todo : FlushBudgets(e, x)
  \/ \E p \in DOMAIN config.engineOf :
       \/ Placed(p) \/ PlaceFailed(p) \/ FilledInPart(p) \/ TradeEnds(p) \/ CooldownEnds(p)

Spec == Init /\ [][Next]_vars
-----------------------------------------------------------------------------
TypeOK ==
  /\ config \in Configs
  /\ risk \in [used : Nat, open : Nat, strategy : [Alphas -> Nat],
               second : Seconds \cup {None}, left : 0..Pool]
  /\ pairUsed \in [Pairs -> Nat]
  /\ state \in [Pairs -> [st : {"Idle", "Placing", "Working", "Cooldown"},
                          size : 0..(2 * TradeCap), notional : 0..(2 * TradeCap), alpha : Alphas, second : Seconds]]
  /\ pending \in [Engines -> [second : Seconds \cup {None}, entries : SUBSET Entry]]
  /\ flush \in [Engines -> [second : Seconds \cup {None}, todo : SUBSET Entry,
                            entry : Entry \cup {None}, notional : 0..TradeCap, entered : Nat]]

(* The three ledgers of exposure, one shared and two by strategy and by pair, agree
   whatever the engines do at the same time, and though part fills are given back only
   in part; and the count of open positions is that of the pairs that work an order or
   a position. *)
Working == {p \in Pairs : state[p].st = "Working"}
LedgersAgree ==
  /\ risk.used = MapThenSumSet(LAMBDA a : risk.strategy[a], Alphas)
  /\ risk.used = MapThenSumSet(LAMBDA p : pairUsed[p], Pairs)
  /\ risk.open = Cardinality(Working)

(* The exposure of a pair: see PairExposure. *)
Exposure(p) == INSTANCE PairExposure WITH
  stage <- state[p].st, size <- state[p].size, notional <- state[p].notional,
  counted <- pairUsed[p]

(* Every pair's exposure goes up with its entry and down with what it holds by its own
   figure, once each, whatever the engines and the other pairs do; what is subtracted
   is always covered, so that nothing is lost where release_exposure stops at zero. *)
PairsExposed ==
  /\ \A p \in Pairs : Exposure(p)!Init
  /\ [][\A p \in Pairs : [Exposure(p)!Next]_(Exposure(p)!trade)]_vars

(* One engine that books at once, and no entry scaled up: the caps are not made for more. *)
Alone ==
  /\ ~config.live /\ ~config.alphaC
  /\ \A p, q \in DOMAIN config.engineOf : config.engineOf[p] = config.engineOf[q]

(* The caps of exposure hold and max_open_positions does; one flush enters no more
   than the pool of its second. *)
WithinCaps == Alone =>
  /\ risk.used <= GlobalCap
  /\ \A p \in Pairs : pairUsed[p] <= PairCap
  /\ \A a \in Alphas : risk.strategy[a] <= StrategyCap
  /\ risk.open <= MaxOpen
  /\ \A e \in Engines : flush[e].entered <= Pool
==============================================================================
