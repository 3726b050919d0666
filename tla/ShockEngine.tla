----------------------------- MODULE ShockEngine -----------------------------
(***************************************************************************)
(* The price shocks of one Polymarket token (shock.rs), and what the shard *)
(* makes of them (emit_result in shard.rs).                                *)
(*                                                                         *)
(* Every second closed for the token goes through on_bar.  A type of shock *)
(* that fires is reported at once, unless it fired less than COOLDOWN_MS   *)
(* before; for PEAK_WINDOW_MS its metric is watched for a higher value,    *)
(* and then the shock is reported as final.  The shard gives a shock an id *)
(* for every pair of the token, keeps the id until the shock is final, and *)
(* writes a row for it that the final report completes.                    *)
(*                                                                         *)
(* Whether a type fires and with which metric is left open: that is the    *)
(* statistics of on_bar.  The rows are followed to Postgres by DbQueue.    *)
(***************************************************************************)
EXTENDS Integers, FiniteSets, FiniteSetsExt

CONSTANTS
  Types,       \* types of shocks, numbered in the order of on_bar
  Measured,    \* those that record a metric with every bar that has one
  PairIds,     \* the pairs of the token, numbered in their order
  Cooldown,    \* COOLDOWN_MS, in seconds
  PeakWindow,  \* PEAK_WINDOW_MS, in seconds
  HistoryMax,  \* METRIC_HISTORY_MAX
  MaxSecond,   \* bound: the bars are of the seconds 1..MaxSecond
  MaxMetric,   \* bound: metrics are 0..MaxMetric
  None

ASSUME ShockEngineAssumption ==
  /\ Types \subseteq Nat /\ IsFiniteSet(Types)
  /\ Measured \subseteq Types
  /\ PairIds \subseteq Nat /\ IsFiniteSet(PairIds)
  /\ {Cooldown, PeakWindow, HistoryMax} \subseteq Nat \ {0}
  /\ {MaxSecond, MaxMetric} \subseteq Nat
  /\ None \notin Int \cup [start : Int, trigger : Int, peak : Int, magnitude : Int]

VARIABLES
  second,   \* the second of the last bar
  metrics,  \* metric_history, whole: the metric a type recorded with a bar
  last,     \* last_trigger_ms; None before the first
  pending,  \* the shock of a type whose peak is watched; None if there is none
  nextId,   \* SHOCK_COUNTER
  ids,      \* pending_shocks: the ids kept for a pair, type and trigger
  rows      \* the rows of shocks_event written, by id

vars == <<second, metrics, last, pending, nextId, ids, rows>>

Seconds == 1..MaxSecond
Values == 0..MaxMetric
PendingShock == [start : Seconds, trigger : Seconds, peak : Seconds, magnitude : Values]
Row == [pair : PairIds, type : Types, start : Seconds, trigger : Seconds,
        peak : Seconds, magnitude : Values, final : BOOLEAN]

Init ==
  /\ second = 0
  /\ metrics = [ty \in Types |-> [s \in Seconds |-> None]]
  /\ last = [ty \in Types |-> None]
  /\ pending = [ty \in Types |-> None]
  /\ nextId = 1
  /\ ids = [p \in PairIds |-> [ty \in Types |-> [s \in Seconds |-> None]]]
  /\ rows = <<>>
-----------------------------------------------------------------------------
(* What a bar shows of a type: its value, if there is one, whether it fires, *)
(* and the weak threshold that the episode is traced back to; None when the  *)
(* strong threshold is not positive.                                         *)
Readings ==
  {r \in [value : Values \cup {None}, fires : BOOLEAN, weak : Values \cup {None}] :
     IF r.fires THEN r.value # None ELSE r.weak = None}

(* record_metric: what the metrics are after the readings of second s. *)
Recorded(readings, s) ==
  [ty \in Types |-> IF ty \in Measured THEN [metrics[ty] EXCEPT ![s] = readings[ty].value]
                    ELSE metrics[ty]]

(* The seconds of the points in a metric's history, m being all it recorded. *)
History(m) ==
  {u \in Seconds : m[u] # None /\ Cardinality({v \in Seconds : v > u /\ m[v] # None}) < HistoryMax}

(* Faulty: the search goes on past the points below the threshold. *)
FindStartAnywhere(m, weak, s) ==
  Min({s} \cup {u \in History(m) : m[u] >= weak})

(* find_start_ts: the first of the newest points that all reach the weak     *)
(* threshold.                                                                *)
FindStart(m, weak, s) ==
  Min({s} \cup {u \in History(m) : \A v \in History(m) : v >= u => m[v] >= weak})

(* Faulty: the cool-down is forgotten. *)
ReadyAlways(ty, s) == TRUE

(* A type may fire again when its cool-down is over. *)
Ready(ty, s) == last[ty] = None \/ s - last[ty] >= Cooldown

(* schedule_shock: the shock reported when ty fires with the bar of s. *)
Scheduled(m, r, s) ==
  [start |-> IF r.weak = None THEN s ELSE FindStart(m, r.weak, s),
   trigger |-> s, peak |-> s, magnitude |-> r.value]

Expires(shock) == shock.trigger + PeakWindow

(* finalize_pending: the shock with the metric of second s, up to the end of *)
(* the window.                                                               *)
Peaked(ty, shock, r, s) ==
  IF s <= Expires(shock) /\ ty \in Measured /\ r.value # None
     /\ r.value > shock.magnitude
  THEN [shock EXCEPT !.peak = s, !.magnitude = r.value] ELSE shock

(* The types that schedule_shock accepts. *)
Fires(readings, s) == {ty \in Types : readings[ty].fires /\ Ready(ty, s)}

(* The pending shocks after all types were looked at.  A type that fires     *)
(* takes the place of a shock that is still pending: it is never final.      *)
Watched(readings, s) ==
  LET m == Recorded(readings, s)
  IN [ty \in Types |->
        LET shock == IF ty \in Fires(readings, s) THEN Scheduled(m[ty], readings[ty], s)
                     ELSE pending[ty]
        IN IF shock = None THEN None ELSE Peaked(ty, shock, readings[ty], s)]

(* Faulty: the window is over before its last second. *)
FinalEarly(watched, s) ==
  {ty \in Types : watched[ty] # None /\ s >= Expires(watched[ty]) - 1}

Final(watched, s) == {ty \in Types : watched[ty] # None /\ s >= Expires(watched[ty])}
-----------------------------------------------------------------------------
(* emit_result. *)

(* Faulty: the pairs share the ids. *)
NewIdPerType(p, ty, F) == nextId + Cardinality({u \in F : u < ty})

(* The id that pair p's shock of type ty gets when the types F fire: pair     *)
(* after pair, each pair's in the order of on_bar.                            *)
NewId(p, ty, F) ==
  nextId + Cardinality({q \in PairIds : q < p}) * Cardinality(F)
         + Cardinality({u \in F : u < ty})

(* A pending shock's row, under its pair's id. *)
PendingRow(p, ty, shock) ==
  [pair |-> p, type |-> ty, start |-> shock.start, trigger |-> shock.trigger,
   peak |-> shock.trigger, magnitude |-> shock.magnitude, final |-> FALSE]

(* The row after its update (ShockEventUpdate). *)
FinalRow(row, shock) ==
  [row EXCEPT !.start = shock.start, !.peak = shock.peak,
              !.magnitude = shock.magnitude, !.final = TRUE]

(* Faulty: the id of a final shock is looked up and left in the map. *)
IdsKept(F, G, watched, s) ==
  [p \in PairIds |-> [ty \in Types |-> [u \in Seconds |->
     IF ty \in F /\ u = s THEN NewId(p, ty, F) ELSE ids[p][ty][u]]]]

(* pending_shocks: the new ids by pair, type and trigger, without the final.  *)
IdsAfter(F, G, watched, s) ==
  [p \in PairIds |-> [ty \in Types |-> [u \in Seconds |->
     IF ty \in G /\ u = watched[ty].trigger THEN None
     ELSE IF ty \in F /\ u = s THEN NewId(p, ty, F) ELSE ids[p][ty][u]]]]

(* The rows: an update goes to the id kept for the shock, if there is one.    *)
RowsAfter(F, G, watched, s) ==
  LET newId(x) == NewId(x[1], x[2], F)
      new == {newId(x) : x \in PairIds \X F}
      kept(x) == ids[x[1]][x[2]][watched[x[2]].trigger]
      final == {x \in PairIds \X G : kept(x) # None}
  IN [i \in DOMAIN rows \cup new |->
        IF i \in new
        THEN LET x == CHOOSE x \in PairIds \X F : newId(x) = i
             IN PendingRow(x[1], x[2], watched[x[2]])
        ELSE IF \E x \in final : kept(x) = i
        THEN LET x == CHOOSE x \in final : kept(x) = i
             IN FinalRow(rows[i], watched[x[2]])
        ELSE rows[i]]

(* The bar of second s with a price: on_bar, and emit_result of its signals.  *)
Bar(s, readings) ==
  /\ s = second + 1
  /\ second' = s
  /\ metrics' = Recorded(readings, s)
  /\ LET F == Fires(readings, s)
         watched == Watched(readings, s)
         G == Final(watched, s)
     IN /\ last' = [ty \in Types |-> IF ty \in F THEN s ELSE last[ty]]
        /\ pending' = [ty \in Types |-> IF ty \in G THEN None ELSE watched[ty]]
        /\ nextId' = nextId + Cardinality(PairIds) * Cardinality(F)
        /\ ids' = IdsAfter(F, G, watched, s)
        /\ rows' = RowsAfter(F, G, watched, s)

(* A bar without a price: on_bar returns at once. *)
UnpricedBar ==
  /\ second < MaxSecond
  /\ second' = second + 1
  /\ UNCHANGED <<metrics, last, pending, nextId, ids, rows>>

Next ==
  \/ \E s \in Seconds, readings \in [Types -> Readings] : Bar(s, readings)
  \/ UnpricedBar

Spec == Init /\ [][Next]_vars
-----------------------------------------------------------------------------
TypeOK ==
  /\ second \in 0..MaxSecond
  /\ metrics \in [Types -> [Seconds -> Values \cup {None}]]
  /\ last \in [Types -> Seconds \cup {None}]
  /\ pending \in [Types -> PendingShock \cup {None}]
  /\ nextId \in Nat
  /\ ids \in [PairIds -> [Types -> [Seconds -> (1..(nextId - 1)) \cup {None}]]]
  /\ rows \in [1..(nextId - 1) -> Row]

(* The shard's map and the table agree: the ids kept are those of the rows    *)
(* that are not final, each under its own pair, type and trigger.  An update  *)
(* that found another row, or an id that outlived its shock, would show here. *)
IdsOfOpenRows ==
  /\ \A i \in DOMAIN rows :
       LET r == rows[i]
       IN ~r.final => ids[r.pair][r.type][r.trigger] = i
  /\ \A p \in PairIds, ty \in Types, s \in Seconds :
       LET i == ids[p][ty][s]
       IN i # None => /\ ~rows[i].final
                      /\ rows[i].pair = p /\ rows[i].type = ty /\ rows[i].trigger = s

(* A final row names the highest metric of its peak window, and the first     *)
(* second that showed it.                                                     *)
PeakOfWindow ==
  \A i \in DOMAIN rows : rows[i].final =>
    LET r == rows[i]
        shown == {s \in Seconds : /\ r.trigger <= s /\ s <= r.trigger + PeakWindow
                                  /\ metrics[r.type][s] # None}
    IN r.type \in Measured =>
         /\ r.peak \in shown /\ metrics[r.type][r.peak] = r.magnitude
         /\ \A s \in shown : metrics[r.type][s] <= r.magnitude
         /\ \A s \in shown : metrics[r.type][s] = r.magnitude => r.peak <= s

(* Every shock is watched, final, or gave way to a later one of its type, and *)
(* that one came after the cool-down.                                         *)
OpenOrSuperseded ==
  \A i \in DOMAIN rows : ~rows[i].final =>
    LET r == rows[i]
    IN \/ pending[r.type] # None /\ pending[r.type].trigger = r.trigger
       \/ \E j \in DOMAIN rows : /\ rows[j].pair = r.pair /\ rows[j].type = r.type
                                 /\ rows[j].trigger >= r.trigger + Cooldown

(* The start of a shock is where its metric rose: the point before it, if the *)
(* history still had it, was lower than every point up to the trigger.        *)
StartTraced ==
  \A i \in DOMAIN rows :
    LET r == rows[i]
        m == metrics[r.type]
        point(s) == s \in Seconds /\ m[s] # None
    IN r.start < r.trigger =>
         /\ point(r.start)
         /\ \A s \in Seconds :
              (/\ point(s) /\ s < r.start
               /\ \A u \in Seconds : s < u /\ u < r.start => ~point(u)
               /\ Cardinality({u \in Seconds : point(u) /\ s < u /\ u <= r.trigger}) < HistoryMax)
              => \A u \in Seconds : point(u) /\ r.start <= u /\ u <= r.trigger => m[s] < m[u]

(* The rows tell of the right episode, from its start to its peak: over bars  *)
(* without a price, bars on the boundary of the window, a history that is cut *)
(* off, and other shocks of the type before and after.                        *)
EpisodeTraced == StartTraced /\ PeakOfWindow
==============================================================================
