------------------------------ MODULE TokenBook ------------------------------
(***************************************************************************)
(* The book a shard keeps of one token (shard.rs, DenseBook) and the rules *)
(* by which an event changes it, or gives it up until the next snapshot    *)
(* (ShardWorker::handle_event, check_resync).                              *)
(*                                                                         *)
(* A side of the book is the set of its levels together with the two       *)
(* values the code caches: how many levels there are and which is the      *)
(* best.  Sizes are left out: what counts is whether a level is there.     *)
(* Instead of the second of the last report a token remembers whether the  *)
(* last event that was checked belongs to that second ("current"), to      *)
(* another one ("earlier"), or whether nothing was reported yet ("never"); *)
(* whether an event belongs to the reported second is chosen by the        *)
(* modules that use this one.                                              *)
(***************************************************************************)
EXTENDS Integers, FiniteSets

CONSTANT MaxLevel  \* the highest price index (PRICE_MAX_IDX)

ASSUME TokenBookAssumption == MaxLevel \in Nat

Levels == 0..MaxLevel
Sides == {"bid", "ask"}
NoLevel == -1
Tops == [Sides -> Levels \cup {NoLevel}]

BookSide == [levels : SUBSET Levels, count : Nat, best : Levels \cup {NoLevel}]
Book == [Sides -> BookSide]

TokenState ==
  [book : Book, initialized : BOOLEAN, resync : BOOLEAN,
   report : {"never", "earlier", "current"}]

EmptySide == [levels |-> {}, count |-> 0, best |-> NoLevel]

NewToken ==
  [book |-> [s \in Sides |-> EmptySide], initialized |-> FALSE, resync |-> FALSE,
   report |-> "never"]

(* Level x is nearer to the other side of the book than level y. *)
Better(s, x, y) == IF s = "bid" THEN x > y ELSE x < y

(* The best of a set of levels. *)
BestOf(s, levels) ==
  IF levels = {} THEN NoLevel
  ELSE CHOOSE x \in levels : \A y \in levels \ {x} : Better(s, x, y)

TopsOf(b) == [s \in Sides |-> b[s].best]
LevelsOf(b) == [s \in Sides |-> b[s].levels]

(* Both sides have levels and the best bid reaches the best ask. *)
Crossed(tops) ==
  /\ NoLevel \notin {tops["bid"], tops["ask"]}
  /\ tops["bid"] >= tops["ask"]
-----------------------------------------------------------------------------
(* DenseBook.                                                                *)

(* find_next_bid, find_next_ask: the best of the levels behind the old best. *)
FindNext(s, levels, best) == BestOf(s, {x \in levels : Better(s, best, x)})

(* Faulty: an update of a level that is there counts as a new one. *)
CountEveryUpdate(side, x, present) ==
  CASE present -> side.count + 1
    [] ~present /\ x \in side.levels /\ side.count > 0 -> side.count - 1
    [] OTHER -> side.count

(* bid_nonzero, ask_nonzero: they follow the levels that appear and go. *)
CountAfter(side, x, present) ==
  CASE present /\ x \notin side.levels -> side.count + 1
    [] ~present /\ x \in side.levels /\ side.count > 0 -> side.count - 1
    [] OTHER -> side.count

(* set_level: level x of side s is there, or gone. *)
SetLevel(s, side, x, present) ==
  LET levels == IF present THEN side.levels \cup {x} ELSE side.levels \ {x} IN
  [levels |-> levels,
   count |-> CountAfter(side, x, present),
   best |-> CASE present /\ (side.best = NoLevel \/ Better(s, x, side.best)) -> x
              [] ~present /\ x = side.best -> FindNext(s, levels, side.best)
              [] OTHER -> side.best]

(* apply_snapshot: the sides that are given are filled anew. *)
ApplySnapshot(b, given) ==
  [s \in Sides |->
     IF s \in DOMAIN given
     THEN [levels |-> given[s], count |-> Cardinality(given[s]),
           best |-> BestOf(s, given[s])]
     ELSE b[s]]
-----------------------------------------------------------------------------
(* Events are records.  A snapshot has kind "snapshot" and the levels of some *)
(* sides in "given"; a delta is a price_change, a best_bid_ask or a          *)
(* depth_diff, says whether a level of a side is "present", and has in "tops" *)
(* the venue's best levels after it, as far as the message names them.       *)
(* "late" is the flag out_of_order of validate_exchange_ts; only the         *)
(* snapshots of Polymarket's websocket are "hashed".  Others leave the book  *)
(* alone.                                                                    *)
IsSnapshot(e) ==
  /\ e.kind = "snapshot" /\ {e.hashed, e.late} \subseteq BOOLEAN
  /\ \E S \in SUBSET Sides : e.given \in [S -> SUBSET Levels]
IsDelta(e) ==
  /\ e.kind \in {"price_change", "best_bid_ask", "depth_diff"}
  /\ e.side \in Sides /\ e.level \in Levels /\ e.tops \in Tops
  /\ {e.present, e.late} \subseteq BOOLEAN
IsOther(e) == e.kind = "other"
IsEvent(e) == IsSnapshot(e) \/ IsDelta(e) \/ IsOther(e)

(* best_bid_ask_mismatch: a price_change names both tops and the book has    *)
(* others.                                                                   *)
TopsDisagree(b, e) ==
  /\ e.kind = "price_change"
  /\ NoLevel \notin {e.tops["bid"], e.tops["ask"]}
  /\ TopsOf(b) # e.tops

(* hash_mismatch: the shard hashes price indices and integer sizes, the     *)
(* venue its own message; the two are never equal.  An empty book has none. *)
HashDisagrees(b, e) ==
  e.kind = "snapshot" /\ e.hashed /\ \E s \in Sides : b[s].levels # {}

(* check_resync, for an event of another second than the last report. *)
Disagrees(b, e) ==
  e.late \/ Crossed(TopsOf(b)) \/ HashDisagrees(b, e) \/ TopsDisagree(b, e)

(* last_resync_bar_second, seen from the event that was checked last. *)
ReportAfter(report, same, disagrees) ==
  IF same \/ disagrees THEN "current" ELSE IF report = "never" THEN "never" ELSE "earlier"

(* The BookSnapshot arm of handle_event: it clears resync_needed, then checks. *)
AfterSnapshot(t, e, same) ==
  LET b == ApplySnapshot(t.book, e.given)
      disagrees == ~same /\ Disagrees(b, e)
  IN [book |-> b, initialized |-> TRUE, resync |-> disagrees,
      report |-> ReportAfter(t.report, same, disagrees)]

(* Faulty: the book is checked before the delta is applied. *)
AfterDeltaCheckedFirst(t, e, same) ==
  LET allowed == e.kind # "depth_diff" \/ t.initialized
      b == IF allowed /\ ~t.resync
           THEN [t.book EXCEPT ![e.side] = SetLevel(e.side, @, e.level, e.present)]
           ELSE t.book
      disagrees == allowed /\ ~same /\ Disagrees(t.book, e)
  IN [t EXCEPT !.book = b, !.resync = @ \/ disagrees,
               !.report = IF allowed THEN ReportAfter(@, same, disagrees) ELSE @]

(* The BookDelta arm: Opinion's are ignored until a snapshot has come, all   *)
(* are while the book waits for one.                                         *)
AfterDelta(t, e, same) ==
  LET allowed == e.kind # "depth_diff" \/ t.initialized
      b == IF allowed /\ ~t.resync
           THEN [t.book EXCEPT ![e.side] = SetLevel(e.side, @, e.level, e.present)]
           ELSE t.book
      disagrees == allowed /\ ~same /\ Disagrees(b, e)
  IN [t EXCEPT !.book = b, !.resync = @ \/ disagrees,
               !.report = IF allowed THEN ReportAfter(@, same, disagrees) ELSE @]

(* handle_event, as far as the book goes. *)
AfterEvent(t, e, same) ==
  CASE e.kind = "snapshot" -> AfterSnapshot(t, e, same)
    [] e.kind = "other" -> t
    [] OTHER -> AfterDelta(t, e, same)

(* An event can belong to the second of the last report only if there is one. *)
SameSecond(t) == IF t.report = "never" THEN {FALSE} ELSE BOOLEAN
-----------------------------------------------------------------------------
(* What must hold of every token's book.                                     *)

(* The cached count and best of a side are those of its levels. *)
Exact(s, side) ==
  /\ side.count = Cardinality(side.levels)
  /\ side.best = BestOf(s, side.levels)

(* A crossed book is not used as if it were right: it waits for a snapshot,  *)
(* or its token was reported in the very second of the last check.           *)
FlaggedIfCrossed(t) ==
  Crossed(TopsOf(t.book)) => t.resync \/ t.report = "current"
=============================================================================
