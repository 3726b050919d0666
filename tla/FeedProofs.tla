------------------------------ MODULE FeedProofs ------------------------------
(***************************************************************************)
(* First what the operators of TokenBook keep, for every number of levels: *)
(* the cached count and best level of a side stay those of its levels, and *)
(* a crossed book is flagged.  Then the safety of PolymarketFeed, for every *)
(* set of tokens, number of levels, capacity and bound: types, the caches  *)
(* of every book, and that a crossed book is flagged.  Last the same of    *)
(* OpinionFeed, with its options and its rounds.                           *)
(***************************************************************************)
EXTENDS PolymarketFeed, FiniteSetTheorems, SequenceTheorems, WellFoundedInduction, TLAPS

(* A token whose state the code may have. *)
SoundToken(t) ==
  /\ t \in TokenState
  /\ \A s \in Sides : Exact(s, t.book[s])
  /\ FlaggedIfCrossed(t)
-----------------------------------------------------------------------------
(* Levels are integers that are not negative. *)
LEMMA LevelInt ==
  ASSUME NEW x \in Levels
  PROVE  x \in Nat /\ x \in Int /\ x >= 0 /\ x # NoLevel
BY TokenBookAssumption DEF Levels, NoLevel

(* Sets of levels are finite. *)
LEMMA LevelsFinite ==
  ASSUME NEW S \in SUBSET Levels
  PROVE  IsFiniteSet(S) /\ Cardinality(S) \in Nat
<1>1. IsFiniteSet(Levels)
  BY TokenBookAssumption, FS_Interval DEF Levels
<1>2. IsFiniteSet(S)
  BY <1>1, FS_Subset
<1> QED
  BY <1>2, FS_CardinalityType

(* Every set of levels that is not empty has a least one. *)
LEMMA LeastLevel ==
  ASSUME NEW S \in SUBSET Levels, S # {}
  PROVE  \E x \in S : \A y \in S \ {x} : x < y
<1>1. S \subseteq Nat
  BY TokenBookAssumption DEF Levels
<1>2. PICK x \in S : \A y \in S : ~(<<y, x>> \in OpToRel(<, Nat))
  BY <1>1, NatLessThanWellFounded, WFMin
<1>3. ASSUME NEW y \in S \ {x} PROVE x < y
  <2>1. ~(y < x)
    BY <1>1, <1>2, <1>3 DEF OpToRel
  <2> QED
    BY <1>1, <2>1
<1> QED
  BY <1>3

(* And a greatest one: the least of the mirrored set. *)
LEMMA GreatestLevel ==
  ASSUME NEW S \in SUBSET Levels, S # {}
  PROVE  \E x \in S : \A y \in S \ {x} : x > y
<1> DEFINE T == {MaxLevel - x : x \in S}
<1>1. T \in SUBSET Levels /\ T # {}
  <2>1. \A x \in Levels : MaxLevel - x \in Levels
    BY TokenBookAssumption DEF Levels
  <2> QED
    BY <2>1, Zenon
<1>2. PICK z \in T : \A y \in T \ {z} : z < y
  <2> HIDE DEF T
  <2> QED
    BY <1>1, LeastLevel
<1>3. PICK x \in S : z = MaxLevel - x
  OBVIOUS
<1>4. ASSUME NEW y \in S \ {x} PROVE x > y
  <2>1. MaxLevel - y \in T
    OBVIOUS
  <2>2. x \in Int /\ y \in Int /\ MaxLevel \in Int
    BY TokenBookAssumption DEF Levels
  <2>3. MaxLevel - y # z
    BY <1>3, <1>4, <2>2
  <2>4. z < MaxLevel - y
    BY <1>2, <2>1, <2>3
  <2> QED
    BY <1>3, <2>2, <2>4
<1> QED
  BY <1>4

(* BestOf finds the one level that is better than all others. *)
LEMMA BestExists ==
  ASSUME NEW s \in Sides, NEW S \in SUBSET Levels, S # {}
  PROVE  /\ BestOf(s, S) \in S
         /\ \A y \in S \ {BestOf(s, S)} : Better(s, BestOf(s, S), y)
<1>1. \E x \in S : \A y \in S \ {x} : Better(s, x, y)
  <2>1. CASE s = "bid"
    BY <2>1, GreatestLevel DEF Better
  <2>2. CASE s # "bid"
    BY <2>2, LeastLevel DEF Better
  <2> QED
    BY <2>1, <2>2
<1> QED
  BY <1>1 DEF BestOf

(* A level better than all the others is the one the book reports as best. *)
LEMMA BestUnique ==
  ASSUME NEW s \in Sides, NEW S \in SUBSET Levels, NEW x \in S,
         \A y \in S \ {x} : Better(s, x, y)
  PROVE  BestOf(s, S) = x
<1> DEFINE b == BestOf(s, S)
<1>1. b \in S /\ \A y \in S \ {b} : Better(s, b, y)
  BY BestExists
<1>2. SUFFICES ASSUME b # x PROVE FALSE
  OBVIOUS
<1>3. Better(s, x, b) /\ Better(s, b, x)
  <2> HIDE DEF b
  <2> QED
    BY <1>1, <1>2
<1> HIDE DEF b
<1>4. b \in Int /\ x \in Int
  <2>1. b \in Levels /\ x \in Levels
    BY <1>1
  <2> QED
    BY <2>1, LevelInt
<1> QED
  BY <1>3, <1>4 DEF Better

(* The best of a set of levels is a level, or none if there is none. *)
LEMMA BestType ==
  ASSUME NEW s \in Sides, NEW S \in SUBSET Levels
  PROVE  /\ BestOf(s, S) \in Levels \cup {NoLevel}
         /\ (BestOf(s, S) = NoLevel) <=> (S = {})
<1>1. CASE S = {}
  BY <1>1 DEF BestOf
<1>2. CASE S # {}
  <2>1. BestOf(s, S) \in S
    BY <1>2, BestExists
  <2> QED
    BY <1>2, <2>1, LevelInt
<1> QED
  BY <1>1, <1>2
-----------------------------------------------------------------------------
(* DenseBook.                                                                *)

(* Levels are compared like numbers: one of two different ones is better, and *)
(* what is better than the better one is better.                             *)
LEMMA BetterOrder ==
  ASSUME NEW s \in Sides, NEW x \in Levels, NEW y \in Levels, NEW z \in Levels
  PROVE  /\ x # y => Better(s, x, y) \/ Better(s, y, x)
         /\ Better(s, x, y) => ~Better(s, y, x)
         /\ Better(s, x, y) /\ Better(s, y, z) => Better(s, x, z)
BY LevelInt DEF Better

(* set_level keeps the number of levels. *)
LEMMA SetLevelCount ==
  ASSUME NEW s \in Sides, NEW side \in BookSide, Exact(s, side),
         NEW x \in Levels, NEW present \in BOOLEAN
  PROVE  SetLevel(s, side, x, present).count = Cardinality(SetLevel(s, side, x, present).levels)
<1> DEFINE L == side.levels
<1>1. L \in SUBSET Levels /\ side.count = Cardinality(L)
  BY DEF BookSide, Exact
<1>2. IsFiniteSet(L) /\ Cardinality(L) \in Nat
  BY <1>1, LevelsFinite
<1>3. Cardinality(L \cup {x}) = IF x \in L THEN Cardinality(L) ELSE Cardinality(L) + 1
  <2> HIDE DEF L
  <2> QED
    BY <1>2, FS_AddElement
<1>4. Cardinality(L \ {x}) = IF x \in L THEN Cardinality(L) - 1 ELSE Cardinality(L)
  <2> HIDE DEF L
  <2> QED
    BY <1>2, FS_RemoveElement
<1>5. x \in L => side.count > 0
  <2> HIDE DEF L
  <2> QED
    BY <1>1, <1>2, FS_EmptySet
<1> HIDE DEF L
<1>6. CASE present
  <2>1. SetLevel(s, side, x, present).levels = L \cup {x}
    BY <1>6 DEF SetLevel, L
  <2>2. SetLevel(s, side, x, present).count = IF x \in L THEN side.count ELSE side.count + 1
    BY <1>6 DEF SetLevel, CountAfter, L
  <2> QED
    BY <1>1, <1>3, <2>1, <2>2
<1>7. CASE ~present
  <2>1. SetLevel(s, side, x, present).levels = L \ {x}
    BY <1>7 DEF SetLevel, L
  <2>2. SetLevel(s, side, x, present).count = IF x \in L THEN side.count - 1 ELSE side.count
    BY <1>5, <1>7 DEF SetLevel, CountAfter, L
  <2> QED
    BY <1>1, <1>4, <2>1, <2>2
<1> QED
  BY <1>6, <1>7

(* set_level keeps the best level when a level appears: the new level if it   *)
(* is the first or better than the best, the old best otherwise.             *)
LEMMA AddedBest ==
  ASSUME NEW s \in Sides, NEW L \in SUBSET Levels, NEW x \in Levels
  PROVE  BestOf(s, L \cup {x}) =
           IF BestOf(s, L) = NoLevel \/ Better(s, x, BestOf(s, L)) THEN x ELSE BestOf(s, L)
<1>1. L \cup {x} \in SUBSET Levels
  OBVIOUS
<1>2. CASE L = {}
  <2>1. BestOf(s, L) = NoLevel
    BY <1>2, BestType
  <2>2. BestOf(s, L \cup {x}) = x
    BY <1>1, <1>2, BestUnique
  <2> QED
    BY <2>1, <2>2
<1>3. CASE L # {}
  <2> DEFINE b == BestOf(s, L)
  <2>1. b \in L /\ b \in Levels /\ b # NoLevel
    BY <1>3, BestExists, LevelInt
  <2>2. \A y \in L \ {b} : Better(s, b, y)
    BY <1>3, BestExists
  <2> HIDE DEF b
  <2>3. CASE Better(s, x, b)
    <3>1. \A y \in (L \cup {x}) \ {x} : Better(s, x, y)
      BY <2>1, <2>2, <2>3, BetterOrder
    <3>2. BestOf(s, L \cup {x}) = x
      BY <1>1, <3>1, BestUnique
    <3> QED
      BY <2>3, <3>2 DEF b
  <2>4. CASE ~Better(s, x, b)
    <3>1. \A y \in (L \cup {x}) \ {b} : Better(s, b, y)
      BY <2>1, <2>2, <2>4, BetterOrder
    <3>2. BestOf(s, L \cup {x}) = b
      BY <1>1, <2>1, <3>1, BestUnique
    <3> QED
      BY <2>1, <2>4, <3>2 DEF b
  <2> QED
    BY <2>3, <2>4
<1> QED
  BY <1>2, <1>3

(* ... and when one goes: find_next_bid and find_next_ask search only behind  *)
(* the best one that went, and miss nothing.                                 *)
LEMMA RemovedBest ==
  ASSUME NEW s \in Sides, NEW L \in SUBSET Levels, NEW x \in Levels
  PROVE  BestOf(s, L \ {x}) =
           IF x = BestOf(s, L) THEN FindNext(s, L \ {x}, BestOf(s, L)) ELSE BestOf(s, L)
<1>1. L \ {x} \in SUBSET Levels
  OBVIOUS
<1>2. CASE L = {}
  <2>1. BestOf(s, L) = NoLevel /\ x # NoLevel /\ L \ {x} = L
    BY <1>2, BestType, LevelInt
  <2> QED
    BY <2>1
<1>3. CASE L # {}
  <2> DEFINE b == BestOf(s, L)
  <2>1. b \in L
    BY <1>3, BestExists
  <2>2. \A y \in L \ {b} : Better(s, b, y)
    BY <1>3, BestExists
  <2> HIDE DEF b
  <2>3. CASE x = b
    <3>1. {y \in L \ {x} : Better(s, b, y)} = L \ {x}
      BY <2>2, <2>3
    <3> QED
      BY <2>3, <3>1 DEF FindNext, b
  <2>4. CASE x # b
    <3>1. b \in L \ {x} /\ \A y \in (L \ {x}) \ {b} : Better(s, b, y)
      BY <2>1, <2>2, <2>4
    <3>2. BestOf(s, L \ {x}) = b
      BY <1>1, <3>1, BestUnique
    <3> QED
      BY <2>4, <3>2 DEF b
  <2> QED
    BY <2>3, <2>4
<1> QED
  BY <1>2, <1>3

(* set_level keeps a side's type and its caches. *)
LEMMA SetLevelExact ==
  ASSUME NEW s \in Sides, NEW side \in BookSide, Exact(s, side),
         NEW x \in Levels, NEW present \in BOOLEAN
  PROVE  SetLevel(s, side, x, present) \in BookSide /\ Exact(s, SetLevel(s, side, x, present))
<1> DEFINE new == SetLevel(s, side, x, present)
           L == side.levels
<1>1. L \in SUBSET Levels /\ side.best = BestOf(s, L)
  BY DEF BookSide, Exact
<1>2. new.count = Cardinality(new.levels)
  BY SetLevelCount
<1>3. new.levels = (IF present THEN L \cup {x} ELSE L \ {x}) /\ new.levels \in SUBSET Levels
  BY <1>1 DEF SetLevel
<1>4. new.best = BestOf(s, new.levels)
  <2>1. CASE present
    <3>1. new.best = IF BestOf(s, L) = NoLevel \/ Better(s, x, BestOf(s, L)) THEN x ELSE BestOf(s, L)
      BY <1>1, <2>1 DEF SetLevel
    <3> HIDE DEF new, L
    <3>2. new.best = BestOf(s, L \cup {x})
      BY <1>1, <3>1, AddedBest
    <3> QED
      BY <1>3, <2>1, <3>2
  <2>2. CASE ~present
    <3>1. new.best = IF x = BestOf(s, L) THEN FindNext(s, L \ {x}, BestOf(s, L)) ELSE BestOf(s, L)
      BY <1>1, <2>2 DEF SetLevel
    <3> HIDE DEF new, L
    <3>2. new.best = BestOf(s, L \ {x})
      BY <1>1, <3>1, RemovedBest
    <3> QED
      BY <1>3, <2>2, <3>2
  <2> QED
    BY <2>1, <2>2
<1>5. new = [levels |-> new.levels, count |-> new.count, best |-> new.best]
  BY DEF SetLevel
<1> HIDE DEF new
<1>6. new.count \in Nat
  BY <1>2, <1>3, LevelsFinite
<1>7. new.best \in Levels \cup {NoLevel}
  BY <1>3, <1>4, BestType
<1>8. new \in BookSide /\ Exact(s, new)
  BY <1>2, <1>3, <1>4, <1>5, <1>6, <1>7 DEF BookSide, Exact
<1> QED
  BY <1>8 DEF new

(* apply_snapshot fills the sides it is given, exactly. *)
LEMMA SnapshotExact ==
  ASSUME NEW b \in Book, \A s \in Sides : Exact(s, b[s]),
         NEW S \in SUBSET Sides, NEW given \in [S -> SUBSET Levels]
  PROVE  /\ ApplySnapshot(b, given) \in Book
         /\ \A s \in Sides : Exact(s, ApplySnapshot(b, given)[s])
<1> DEFINE new == ApplySnapshot(b, given)
<1>1. ASSUME NEW s \in Sides
      PROVE  new[s] \in BookSide /\ Exact(s, new[s])
  <2>1. CASE s \in S
    <3>1. new[s] = [levels |-> given[s], count |-> Cardinality(given[s]),
                    best |-> BestOf(s, given[s])]
      BY <2>1 DEF ApplySnapshot
    <3>2. given[s] \in SUBSET Levels
      BY <2>1
    <3>3. Cardinality(given[s]) \in Nat
      BY <3>2, LevelsFinite
    <3>4. BestOf(s, given[s]) \in Levels \cup {NoLevel}
      BY <3>2, BestType
    <3> HIDE DEF new
    <3> QED
      BY <3>1, <3>2, <3>3, <3>4 DEF BookSide, Exact
  <2>2. CASE s \notin S
    <3>1. new[s] = b[s]
      BY <2>2 DEF ApplySnapshot
    <3>2. b[s] \in BookSide
      BY DEF Book
    <3> QED
      BY <3>1, <3>2
  <2> QED
    BY <2>1, <2>2
<1>2. new = [s \in Sides |-> new[s]]
  BY DEF ApplySnapshot
<1> HIDE DEF new
<1>3. new \in Book
  BY <1>1, <1>2, Zenon DEF Book
<1>4. new \in Book /\ \A s \in Sides : Exact(s, new[s])
  BY <1>1, <1>3
<1> QED
  BY <1>4 DEF new

(* A delta changes one side of the book. *)
LEMMA DeltaExact ==
  ASSUME NEW b \in Book, \A s \in Sides : Exact(s, b[s]),
         NEW r \in Sides, NEW x \in Levels, NEW present \in BOOLEAN
  PROVE  /\ [b EXCEPT ![r] = SetLevel(r, @, x, present)] \in Book
         /\ \A s \in Sides : Exact(s, [b EXCEPT ![r] = SetLevel(r, @, x, present)][s])
<1>1. b[r] \in BookSide
  BY DEF Book
<1>2. SetLevel(r, b[r], x, present) \in BookSide /\ Exact(r, SetLevel(r, b[r], x, present))
  BY <1>1, SetLevelExact
<1>3. [b EXCEPT ![r] = SetLevel(r, b[r], x, present)] \in Book
  BY <1>2 DEF Book
<1>4. ASSUME NEW s \in Sides
      PROVE  Exact(s, [b EXCEPT ![r] = SetLevel(r, b[r], x, present)][s])
  BY <1>2 DEF Book
<1> QED
  BY <1>3, <1>4
-----------------------------------------------------------------------------
(* handle_event and check_resync.                                            *)

LEMMA ReportType ==
  ASSUME NEW report \in {"never", "earlier", "current"}, NEW same \in BOOLEAN,
         NEW disagrees \in BOOLEAN
  PROVE  /\ ReportAfter(report, same, disagrees) \in {"never", "earlier", "current"}
         /\ same => ReportAfter(report, same, disagrees) = "current"
<1>1. CASE same \/ disagrees
  <2>1. ReportAfter(report, same, disagrees) = "current"
    BY <1>1 DEF ReportAfter
  <2> QED
    BY <2>1
<1>2. CASE ~(same \/ disagrees)
  <2>1. ReportAfter(report, same, disagrees) = IF report = "never" THEN "never" ELSE "earlier"
    BY <1>2 DEF ReportAfter
  <2> QED
    BY <1>2, <2>1
<1> QED
  BY <1>1, <1>2

(* A new token is sound. *)
LEMMA NewTokenSound == SoundToken(NewToken)
<1>1. EmptySide \in BookSide
  BY DEF EmptySide, BookSide
<1>2. \A s \in Sides : Exact(s, EmptySide)
  <2>1. Cardinality({}) = 0
    BY FS_EmptySet
  <2> QED
    BY <2>1 DEF EmptySide, Exact, BestOf
<1>3. NewToken \in TokenState
  BY <1>1 DEF NewToken, TokenState, Book
<1>4. ~Crossed(TopsOf(NewToken.book))
  BY DEF Crossed, TopsOf, NewToken, EmptySide, Sides
<1> QED
  BY <1>2, <1>3, <1>4 DEF SoundToken, FlaggedIfCrossed, NewToken

(* A snapshot leaves a sound token. *)
LEMMA SnapshotSound ==
  ASSUME NEW t, SoundToken(t), NEW e, IsSnapshot(e), NEW same \in BOOLEAN
  PROVE  SoundToken(AfterSnapshot(t, e, same))
<1> DEFINE b == ApplySnapshot(t.book, e.given)
           d == ~same /\ Disagrees(b, e)
           new == AfterSnapshot(t, e, same)
<1>1. PICK S \in SUBSET Sides : e.given \in [S -> SUBSET Levels]
  BY DEF IsSnapshot
<1>2. t.book \in Book /\ t.report \in {"never", "earlier", "current"}
  BY DEF SoundToken, TokenState
<1>3. b \in Book /\ \A s \in Sides : Exact(s, b[s])
  <2>1. \A s \in Sides : Exact(s, t.book[s])
    BY DEF SoundToken
  <2> QED
    BY <1>1, <1>2, <2>1, SnapshotExact
<1>4. new = [book |-> b, initialized |-> TRUE, resync |-> d,
             report |-> ReportAfter(t.report, same, d)]
  BY DEF AfterSnapshot
<1>5. d \in BOOLEAN
  OBVIOUS
<1>6. Crossed(TopsOf(b)) => same \/ d
  BY DEF Disagrees
<1> HIDE DEF b, d, new
<1>7. /\ ReportAfter(t.report, same, d) \in {"never", "earlier", "current"}
      /\ same => ReportAfter(t.report, same, d) = "current"
  BY <1>2, <1>5, ReportType
<1>8. new \in TokenState
  BY <1>3, <1>4, <1>5, <1>7 DEF TokenState
<1>9. FlaggedIfCrossed(new)
  BY <1>4, <1>6, <1>7 DEF FlaggedIfCrossed
<1>10. SoundToken(new)
  BY <1>3, <1>4, <1>8, <1>9 DEF SoundToken
<1> QED
  BY <1>10 DEF new

(* So does a delta, whether it is applied or not. *)
LEMMA DeltaSound ==
  ASSUME NEW t, SoundToken(t), NEW e, IsDelta(e), NEW same \in BOOLEAN
  PROVE  SoundToken(AfterDelta(t, e, same))
<1> DEFINE allowed == e.kind # "depth_diff" \/ t.initialized
           b == IF allowed /\ ~t.resync
                THEN [t.book EXCEPT ![e.side] = SetLevel(e.side, @, e.level, e.present)]
                ELSE t.book
           d == allowed /\ ~same /\ Disagrees(b, e)
           report == IF allowed THEN ReportAfter(t.report, same, d) ELSE t.report
           new == AfterDelta(t, e, same)
<1>1. e.side \in Sides /\ e.level \in Levels /\ e.present \in BOOLEAN
  BY DEF IsDelta
<1>2. /\ t \in TokenState /\ t.book \in Book /\ t.resync \in BOOLEAN
      /\ t.report \in {"never", "earlier", "current"}
      /\ \A s \in Sides : Exact(s, t.book[s])
      /\ FlaggedIfCrossed(t)
  BY DEF SoundToken, TokenState
<1>3. b \in Book /\ \A s \in Sides : Exact(s, b[s])
  <2>1. CASE allowed /\ ~t.resync
    <3>1. b = [t.book EXCEPT ![e.side] = SetLevel(e.side, @, e.level, e.present)]
      BY <2>1
    <3> HIDE DEF b
    <3> QED
      BY <1>1, <1>2, <3>1, DeltaExact
  <2>2. CASE ~(allowed /\ ~t.resync)
    BY <1>2, <2>2
  <2> QED
    BY <2>1, <2>2
<1>4. new = [t EXCEPT !.book = b, !.resync = t.resync \/ d, !.report = report]
  BY DEF AfterDelta
<1>5. d \in BOOLEAN /\ allowed \in BOOLEAN
  OBVIOUS
<1>6. allowed /\ Crossed(TopsOf(b)) => same \/ d
  BY DEF Disagrees
<1>7. ~allowed => b = t.book
  OBVIOUS
<1> HIDE DEF b, d, allowed
<1>8. /\ report \in {"never", "earlier", "current"}
      /\ allowed /\ same => report = "current"
      /\ ~allowed => report = t.report
  BY <1>2, <1>5, ReportType
<1> HIDE DEF new, report
<1>9. new \in TokenState
  BY <1>2, <1>3, <1>4, <1>5, <1>8 DEF TokenState
<1>10. new.book = b /\ new.resync = (t.resync \/ d) /\ new.report = report
  BY <1>2, <1>4 DEF TokenState
<1>11. FlaggedIfCrossed(new)
  BY <1>2, <1>5, <1>6, <1>7, <1>8, <1>10 DEF FlaggedIfCrossed
<1>12. SoundToken(new)
  BY <1>3, <1>9, <1>10, <1>11 DEF SoundToken
<1> QED
  BY <1>12 DEF new

(* handle_event keeps every token sound, whatever comes in whatever order:    *)
(* its caches exact and a crossed book flagged.                              *)
THEOREM EventKeepsSound ==
  ASSUME NEW t, SoundToken(t), NEW e, IsEvent(e), NEW same \in BOOLEAN
  PROVE  SoundToken(AfterEvent(t, e, same))
<1>1. CASE IsSnapshot(e)
  <2>1. AfterEvent(t, e, same) = AfterSnapshot(t, e, same)
    BY <1>1 DEF AfterEvent, IsSnapshot
  <2> QED
    BY <1>1, <2>1, SnapshotSound
<1>2. CASE IsOther(e)
  BY <1>2 DEF AfterEvent, IsOther
<1>3. CASE IsDelta(e)
  <2>1. AfterEvent(t, e, same) = AfterDelta(t, e, same)
    BY <1>3 DEF AfterEvent, IsDelta
  <2> QED
    BY <1>3, <2>1, DeltaSound
<1> QED
  BY <1>1, <1>2, <1>3 DEF IsEvent
-----------------------------------------------------------------------------
(* The events of the shard's queue. *)
Events ==
  [kind : {"snapshot"}, token : Tokens, given : VenueBooks, hashed : BOOLEAN, late : BOOLEAN]
  \cup [kind : {"price_change", "best_bid_ask"}, token : Tokens, side : Sides,
        level : Levels, present : BOOLEAN, tops : Tops, late : BOOLEAN]
  \cup [kind : {"other"}, token : Tokens]

(* The inductive invariant, in parts. *)
VenueInv ==
  /\ venue \in [Tokens -> VenueBooks]
  /\ changes \in 0..MaxChanges
ConnectionInv ==
  /\ connects \in 0..MaxConnects
  /\ up \in BOOLEAN /\ wire \in Seq(WireMessages)
  /\ stamped \subseteq Tokens
  /\ lastBest \in [Tokens -> Tops]
QueueInv == queue \in Seq(Events) /\ Len(queue) <= QueueCap
TokensInv ==
  /\ tokens \in [Tokens -> TokenState]
  /\ \A t \in Tokens : SoundToken(tokens[t])
SnapshotterInv ==
  /\ announced \subseteq Tokens /\ recent \subseteq Tokens /\ todo \subseteq Tokens
  /\ \A t \in DOMAIN answer : t \in Tokens /\ answer[t] \in VenueBooks

IInv == VenueInv /\ ConnectionInv /\ QueueInv /\ TokensInv /\ SnapshotterInv
-----------------------------------------------------------------------------
(* Events of the queue are events the shard can handle. *)
LEMMA EventsHandled ==
  ASSUME NEW e \in Events
  PROVE  e.token \in Tokens /\ IsEvent(e)
<1>1. CASE e \in [kind : {"snapshot"}, token : Tokens, given : VenueBooks,
                  hashed : BOOLEAN, late : BOOLEAN]
  <2>1. IsSnapshot(e)
    BY <1>1 DEF IsSnapshot, VenueBooks
  <2> QED
    BY <1>1, <2>1 DEF IsEvent
<1>2. CASE e \in [kind : {"price_change", "best_bid_ask"}, token : Tokens, side : Sides,
                  level : Levels, present : BOOLEAN, tops : Tops, late : BOOLEAN]
  <2>1. IsDelta(e)
    BY <1>2 DEF IsDelta
  <2> QED
    BY <1>2, <2>1 DEF IsEvent
<1>3. CASE e \in [kind : {"other"}, token : Tokens]
  BY <1>3 DEF IsEvent, IsOther
<1> QED
  BY <1>1, <1>2, <1>3 DEF Events

(* The best levels of a book are tops. *)
LEMMA BestTops ==
  ASSUME NEW b \in VenueBooks
  PROVE  Best(b) \in Tops
<1>1. ASSUME NEW s \in Sides PROVE BestOf(s, b[s]) \in Levels \cup {NoLevel}
  <2>1. b[s] \in SUBSET Levels
    BY DEF VenueBooks
  <2> QED
    BY <2>1, BestType
<1> QED
  BY <1>1 DEF Best, Tops

(* try_send never overfills the queue. *)
LEMMA EnqueueBounded ==
  ASSUME QueueInv, NEW events \in Seq(Events), Enqueue(events)
  PROVE  QueueInv'
<1> DEFINE n == Room(Len(events))
           sent == SubSeq(events, 1, n)
<1>1. /\ queue \in Seq(Events) /\ Len(queue) \in Nat /\ Len(queue) <= QueueCap
      /\ QueueCap \in Nat /\ Len(events) \in Nat
  BY PolymarketFeedAssumption DEF QueueInv
<1>2. n \in Nat /\ n <= Len(events) /\ Len(queue) + n <= QueueCap
  BY <1>1 DEF Room
<1> HIDE DEF n
<1>3. \A i \in 1..n : events[i] \in Events
  <2>1. \A i \in 1..n : i \in 1..Len(events)
    BY <1>1, <1>2
  <2> QED
    BY <2>1, ElementOfSeq
<1>4. sent \in Seq(Events) /\ Len(sent) = n
  <2>1. n \in Int /\ 1 \in Int /\ (IF 1 <= n THEN n - 1 + 1 ELSE 0) = n
    BY <1>2
  <2> QED
    BY <1>3, <2>1, SubSeqProperties
<1>5. queue' = queue \o sent
  BY DEF Enqueue, n
<1> HIDE DEF sent
<1>6. queue' \in Seq(Events) /\ Len(queue') = Len(queue) + n
  BY <1>1, <1>4, <1>5, ConcatProperties
<1> QED
  BY <1>2, <1>6 DEF QueueInv

(* A queue of one event. *)
LEMMA OneEvent ==
  ASSUME NEW S, NEW e \in S
  PROVE  <<e>> \in Seq(S)
OBVIOUS

(* What parse_best_bid_ask makes of a side whose top was o and is n now. *)
LEMMA TopSideEvents ==
  ASSUME NEW m, m.kind \in {"price_change", "best_bid_ask"}, m.token \in Tokens,
         m.tops \in Tops, NEW s \in Sides, NEW late \in BOOLEAN,
         NEW o \in Levels \cup {NoLevel}, NEW n \in Levels \cup {NoLevel},
         n = o \/ n # NoLevel
  PROVE  TopSide(m, s, o, n, late) \in Seq(Events)
<1>1. CASE n = o
  BY <1>1 DEF TopSide
<1>2. CASE n # o
  <2> DEFINE gone == Delta(m, s, o, FALSE, late)
             come == Delta(m, s, n, TRUE, late)
             first == IF o = NoLevel THEN <<>> ELSE <<gone>>
             second == <<come>>
  <2>1. first \in Seq(Events)
    <3>1. CASE o = NoLevel
      BY <3>1
    <3>2. CASE o # NoLevel
      <4>1. gone \in Events
        <5>1. o \in Levels
          BY <3>2
        <5> QED
          BY <5>1 DEF Delta, Events
      <4> HIDE DEF gone
      <4> QED
        BY <3>2, <4>1
    <3> QED
      BY <3>1, <3>2
  <2>2. second \in Seq(Events)
    <3>1. come \in Events
      <4>1. n \in Levels
        BY <1>2
      <4> QED
        BY <4>1 DEF Delta, Events
    <3> HIDE DEF come
    <3> QED
      BY <3>1
  <2> HIDE DEF first, second
  <2>3. first \o second \in Seq(Events)
    BY <2>1, <2>2, ConcatProperties
  <2> QED
    BY <1>2, <2>3 DEF first, second, gone, come, TopSide
<1> QED
  BY <1>1, <1>2

(* The parsers make events of every message. *)
LEMMA MessageEvents ==
  ASSUME ConnectionInv, NEW m \in WireMessages, NEW late \in BOOLEAN
  PROVE  EventsOf(m, late) \in Seq(Events)
<1>1. m.token \in Tokens
  BY DEF WireMessages
<1>2. CASE m.kind = "book"
  <2>1. m.sides \in VenueBooks
    BY <1>2 DEF WireMessages
  <2>2. [kind |-> "snapshot", token |-> m.token, given |-> m.sides, hashed |-> TRUE,
         late |-> late] \in Events
    BY <1>1, <2>1 DEF Events
  <2> QED
    BY <1>2, <2>2 DEF EventsOf, BookEvents
<1>3. CASE m.kind = "price_change"
  <2>1. m.side \in Sides /\ m.level \in Levels /\ m.present \in BOOLEAN /\ m.tops \in Tops
    BY <1>3 DEF WireMessages
  <2>2. Delta(m, m.side, m.level, m.present, late) \in Events
    BY <1>1, <1>3, <2>1 DEF Delta, Events
  <2> QED
    BY <1>3, <2>2 DEF EventsOf, ChangeEvents
<1>4. CASE m.kind = "best_bid_ask"
  <2>1. m.tops \in Tops
    BY <1>4 DEF WireMessages
  <2> DEFINE old == lastBest[m.token]
             top == [s \in Sides |-> IF m.tops[s] = NoLevel THEN old[s] ELSE m.tops[s]]
  <2>2. old \in Tops
    BY <1>1 DEF ConnectionInv
  <2>3. ASSUME NEW s \in Sides PROVE TopSide(m, s, old[s], top[s], late) \in Seq(Events)
    <3>1. old[s] \in Levels \cup {NoLevel} /\ top[s] \in Levels \cup {NoLevel}
      BY <2>1, <2>2 DEF Tops
    <3>2. top[s] = old[s] \/ top[s] # NoLevel
      OBVIOUS
    <3>3. m.kind \in {"price_change", "best_bid_ask"}
      BY <1>4
    <3>4. ASSUME NEW o \in Levels \cup {NoLevel}, NEW n \in Levels \cup {NoLevel},
                 n = o \/ n # NoLevel
          PROVE  TopSide(m, s, o, n, late) \in Seq(Events)
      BY <1>1, <2>1, <3>3, <3>4, TopSideEvents
    <3> HIDE DEF old, top
    <3> QED
      BY <3>1, <3>2, <3>4
  <2> DEFINE bids == TopSide(m, "bid", old["bid"], top["bid"], late)
             asks == TopSide(m, "ask", old["ask"], top["ask"], late)
  <2>4. bids \in Seq(Events) /\ asks \in Seq(Events)
    <3> HIDE DEF old, top
    <3> QED
      BY <2>3 DEF Sides
  <2>5. EventsOf(m, late) = bids \o asks
    BY <1>4 DEF EventsOf, TopEvents
  <2> HIDE DEF bids, asks
  <2> QED
    BY <2>4, <2>5, ConcatProperties
<1>5. CASE m.kind = "trade"
  <2>1. [kind |-> "other", token |-> m.token] \in Events
    BY <1>1 DEF Events
  <2> QED
    BY <1>5, <2>1 DEF EventsOf, OtherEvents
<1> QED
  BY <1>2, <1>3, <1>4, <1>5 DEF WireMessages
-----------------------------------------------------------------------------
(* A process starts without books, subscriptions or events. *)
LEMMA InitInv == Init => IInv
<1> SUFFICES ASSUME Init PROVE IInv
  OBVIOUS
<1> USE PolymarketFeedAssumption
<1>1. VenueInv
  <2>1. venue \in [Tokens -> VenueBooks]
    BY DEF Init
  <2> QED
    BY <2>1 DEF Init, VenueInv
<1>2. ConnectionInv
  <2>1. NoTops \in Tops
    BY DEF NoTops, Tops
  <2>2. lastBest \in [Tokens -> Tops]
    BY <2>1 DEF Init
  <2>3. wire \in Seq(WireMessages)
    BY DEF Init
  <2>4. connects \in 0..MaxConnects
    BY DEF Init
  <2>5. up \in BOOLEAN /\ stamped \subseteq Tokens
    BY DEF Init
  <2> QED
    BY <2>2, <2>3, <2>4, <2>5 DEF ConnectionInv
<1>3. QueueInv
  BY DEF Init, QueueInv
<1>4. TokensInv
  <2>1. tokens = [t \in Tokens |-> NewToken]
    BY DEF Init
  <2>2. NewToken \in TokenState
    BY NewTokenSound DEF SoundToken
  <2> QED
    BY <2>1, <2>2, NewTokenSound DEF TokensInv
<1>5. SnapshotterInv
  BY DEF Init, SnapshotterInv
<1> QED
  BY <1>1, <1>2, <1>3, <1>4, <1>5 DEF IInv

(* What Tell adds to the wire. *)
LEMMA TellInv ==
  ASSUME ConnectionInv, NEW messages \in Seq(WireMessages), Tell(messages)
  PROVE  wire' \in Seq(WireMessages)
<1>1. wire \in Seq(WireMessages)
  BY DEF ConnectionInv
<1>2. wire \o messages \in Seq(WireMessages)
  BY <1>1, ConcatProperties
<1> QED
  BY <1>1, <1>2 DEF Tell

(* A change of a book at the venue preserves the invariant. *)
LEMMA ChangeInv ==
  ASSUME IInv, NEW t \in Tokens, NEW s \in Sides, NEW x \in Levels, Change(t, s, x)
  PROVE  IInv'
<1> DEFINE present == x \notin venue[t][s]
           new == [venue[t] EXCEPT ![s] = IF present THEN @ \cup {x} ELSE @ \ {x}]
           change == [kind |-> "price_change", token |-> t, side |-> s, level |-> x,
                      present |-> present, tops |-> Best(new)]
           top == [kind |-> "best_bid_ask", token |-> t, tops |-> Best(new)]
           more == IF Best(new) # Best(venue[t]) THEN <<top>> ELSE <<>>
<1>1. venue[t] \in VenueBooks
  BY DEF IInv, VenueInv
<1>2. new \in VenueBooks
  BY <1>1 DEF VenueBooks
<1>3. /\ changes < MaxChanges /\ changes' = changes + 1
      /\ venue' = [venue EXCEPT ![t] = new]
      /\ Tell(<<change>> \o more)
      /\ UNCHANGED <<connects, up, stamped, lastBest, queue, tokens, snapshotter>>
  BY DEF Change
<1>4. present \in BOOLEAN
  OBVIOUS
<1> HIDE DEF present, new
<1>5. Best(new) \in Tops
  BY <1>2, BestTops
<1>6. change \in WireMessages /\ top \in WireMessages
  BY <1>4, <1>5 DEF WireMessages
<1> HIDE DEF change, top
<1>7. <<change>> \in Seq(WireMessages) /\ more \in Seq(WireMessages)
  BY <1>6
<1> HIDE DEF more
<1>8. <<change>> \o more \in Seq(WireMessages)
  BY <1>7, ConcatProperties
<1>9. ConnectionInv
  BY DEF IInv
<1>10. wire' \in Seq(WireMessages)
  BY <1>3, <1>8, <1>9, TellInv
<1>11. VenueInv'
  BY <1>2, <1>3, PolymarketFeedAssumption DEF IInv, VenueInv
<1>12. ConnectionInv'
  BY <1>3, <1>10 DEF IInv, ConnectionInv
<1>13. QueueInv' /\ TokensInv' /\ SnapshotterInv'
  BY <1>3 DEF IInv, QueueInv, TokensInv, SnapshotterInv, snapshotter
<1> QED
  BY <1>11, <1>12, <1>13 DEF IInv

(* A message the venue sends preserves the invariant. *)
LEMMA MessageInv ==
  ASSUME IInv, NEW t \in Tokens, NEW kind \in {"book", "trade"}, Message(t, kind)
  PROVE  IInv'
<1> DEFINE m == [kind |-> kind, token |-> t, sides |-> venue[t]]
<1>1. /\ changes < MaxChanges /\ changes' = changes + 1
      /\ Tell(<<m>>)
      /\ UNCHANGED <<venue, connects, up, stamped, lastBest, queue, tokens, snapshotter>>
  BY DEF Message
<1>2. m \in WireMessages
  BY DEF IInv, VenueInv, WireMessages
<1> HIDE DEF m
<1>3. <<m>> \in Seq(WireMessages)
  BY <1>2
<1>4. ConnectionInv
  BY DEF IInv
<1>5. wire' \in Seq(WireMessages)
  BY <1>1, <1>3, <1>4, TellInv
<1>6. VenueInv'
  BY <1>1, PolymarketFeedAssumption DEF IInv, VenueInv
<1>7. ConnectionInv'
  BY <1>1, <1>5 DEF IInv, ConnectionInv
<1>8. QueueInv' /\ TokensInv' /\ SnapshotterInv'
  BY <1>1 DEF IInv, QueueInv, TokensInv, SnapshotterInv, snapshotter
<1> QED
  BY <1>6, <1>7, <1>8 DEF IInv

(* A connection, which subscribes the tokens in any order, preserves the invariant. *)
LEMMA ConnectInv ==
  ASSUME IInv, NEW order \in Seq(Tokens), Connect(order)
  PROVE  IInv'
<1>1. ASSUME NEW i \in 1..Len(order)
      PROVE  [kind |-> "book", token |-> order[i], sides |-> venue[order[i]]] \in WireMessages
  <2>1. order[i] \in Tokens
    BY ElementOfSeq
  <2> QED
    BY <2>1 DEF IInv, VenueInv, WireMessages
<1>2. DOMAIN order = 1..Len(order) /\ Len(order) \in Nat
  BY LenProperties
<1>3. wire' = [i \in 1..Len(order) |->
                 [kind |-> "book", token |-> order[i], sides |-> venue[order[i]]]]
  BY <1>2 DEF Connect
<1>4. wire' \in Seq(WireMessages)
  BY <1>1, <1>2, <1>3, IsASeq
<1>5. /\ connects < MaxConnects /\ connects' = connects + 1 /\ up' = TRUE
      /\ UNCHANGED <<venue, changes, stamped, lastBest, queue, tokens, snapshotter>>
  BY DEF Connect
<1>6. ConnectionInv'
  BY <1>4, <1>5, PolymarketFeedAssumption DEF IInv, ConnectionInv
<1>7. VenueInv' /\ QueueInv' /\ TokensInv' /\ SnapshotterInv'
  BY <1>5 DEF IInv, VenueInv, QueueInv, TokensInv, SnapshotterInv, snapshotter
<1> QED
  BY <1>6, <1>7 DEF IInv

(* The loss of the connection preserves the invariant. *)
LEMMA DisconnectInv == IInv /\ Disconnect => IInv'
<1> SUFFICES ASSUME IInv, Disconnect PROVE IInv'
  OBVIOUS
<1>1. NoTops \in Tops
  BY DEF NoTops, Tops
<1>2. ConnectionInv'
  <2>1. lastBest' \in [Tokens -> Tops]
    BY <1>1 DEF Disconnect
  <2>2. wire' \in Seq(WireMessages)
    BY DEF Disconnect
  <2>3. connects' \in 0..MaxConnects /\ up' \in BOOLEAN /\ stamped' \subseteq Tokens
    BY DEF Disconnect, IInv, ConnectionInv
  <2> QED
    BY <2>1, <2>2, <2>3 DEF ConnectionInv
<1>3. VenueInv' /\ QueueInv' /\ TokensInv' /\ SnapshotterInv'
  BY DEF Disconnect, IInv, VenueInv, QueueInv, TokensInv, SnapshotterInv, snapshotter
<1> QED
  BY <1>2, <1>3 DEF IInv

(* Reading a message off the socket preserves the invariant. *)
LEMMA ReadMessageInv == IInv /\ ReadMessage => IInv'
<1> SUFFICES ASSUME IInv, ReadMessage PROVE IInv'
  OBVIOUS
<1> DEFINE m == Head(wire)
<1>1. wire \in Seq(WireMessages) /\ wire # <<>> /\ ConnectionInv
  BY DEF IInv, ConnectionInv, ReadMessage
<1>2. m \in WireMessages /\ Tail(wire) \in Seq(WireMessages)
  BY <1>1, HeadTailProperties
<1>3. m.token \in Tokens /\ (m.kind = "best_bid_ask" => m.tops \in Tops)
  BY <1>2 DEF WireMessages
<1>4. PICK late \in MayBeLate(m.token) :
        /\ Enqueue(EventsOf(m, late))
        /\ announced' \in IF EventsOf(m, late) = <<>> THEN {announced}
                          ELSE {announced, announced \cup {m.token}}
        /\ stamped' = stamped \cup {m.token}
        /\ lastBest' = IF m.kind = "best_bid_ask"
                       THEN [lastBest EXCEPT ![m.token] =
                               [s \in Sides |-> IF m.tops[s] = NoLevel THEN @[s] ELSE m.tops[s]]]
                       ELSE lastBest
  BY DEF ReadMessage
<1>5. /\ wire' = Tail(wire)
      /\ UNCHANGED <<venue, changes, connects, up, tokens, recent, todo, answer>>
  BY DEF ReadMessage
<1>6. late \in BOOLEAN
  BY DEF MayBeLate
<1> HIDE DEF m
<1>7. QueueInv'
  <2>1. EventsOf(m, late) \in Seq(Events)
    BY <1>1, <1>2, <1>6, MessageEvents
  <2> DEFINE events == EventsOf(m, late)
  <2>2. QueueInv /\ events \in Seq(Events) /\ Enqueue(events)
    BY <1>4, <2>1 DEF IInv
  <2> HIDE DEF events
  <2> QED
    BY <2>2, EnqueueBounded
<1>8. ConnectionInv'
  <2>1. lastBest' \in [Tokens -> Tops]
    <3>1. CASE m.kind = "best_bid_ask"
      <4> DEFINE tops == [s \in Sides |-> IF m.tops[s] = NoLevel THEN lastBest[m.token][s] ELSE m.tops[s]]
      <4>1. tops \in Tops
        BY <1>1, <1>3, <3>1 DEF ConnectionInv, Tops
      <4>2. lastBest' = [lastBest EXCEPT ![m.token] = tops]
        BY <1>4, <3>1
      <4> HIDE DEF tops
      <4> QED
        BY <1>1, <4>1, <4>2 DEF ConnectionInv
    <3>2. CASE m.kind # "best_bid_ask"
      BY <1>1, <1>4, <3>2 DEF ConnectionInv
    <3> QED
      BY <3>1, <3>2
  <2>2. stamped' \subseteq Tokens
    BY <1>1, <1>3, <1>4 DEF ConnectionInv
  <2> QED
    BY <1>1, <1>2, <1>5, <2>1, <2>2 DEF ConnectionInv
<1>9. SnapshotterInv'
  <2>1. announced' \subseteq Tokens
    BY <1>3, <1>4 DEF IInv, SnapshotterInv
  <2> QED
    BY <1>5, <2>1 DEF IInv, SnapshotterInv
<1>10. VenueInv' /\ TokensInv'
  BY <1>5 DEF IInv, VenueInv, TokensInv
<1> QED
  BY <1>7, <1>8, <1>9, <1>10 DEF IInv

(* The snapshotter's handling of an event preserves the invariant. *)
LEMMA HandleEventInv == IInv /\ HandleEvent => IInv'
<1> SUFFICES ASSUME IInv, HandleEvent PROVE IInv'
  OBVIOUS
<1> DEFINE e == Head(queue)
<1>1. queue \in Seq(Events) /\ queue # <<>> /\ Len(queue) <= QueueCap /\ Len(queue) \in Nat
  BY DEF IInv, QueueInv, HandleEvent
<1>2. e \in Events /\ Tail(queue) \in Seq(Events) /\ Len(Tail(queue)) = Len(queue) - 1
  BY <1>1, HeadTailProperties
<1>3. PICK same \in SameSecond(tokens[e.token]) :
        tokens' = [tokens EXCEPT ![e.token] = AfterEvent(tokens[e.token], e, same)]
  BY DEF HandleEvent
<1>4. queue' = Tail(queue) /\ UNCHANGED <<venue, changes, connection, snapshotter>>
  BY DEF HandleEvent
<1>5. same \in BOOLEAN
  BY DEF SameSecond
<1> HIDE DEF e
<1>6. e.token \in Tokens /\ IsEvent(e)
  BY <1>2, EventsHandled
<1>7. QueueInv'
  <2>1. Len(queue) - 1 <= QueueCap
    BY <1>1, PolymarketFeedAssumption
  <2> QED
    BY <1>2, <1>4, <2>1 DEF QueueInv
<1>8. TokensInv'
  <2> DEFINE new == AfterEvent(tokens[e.token], e, same)
  <2>1. SoundToken(tokens[e.token])
    BY <1>6 DEF IInv, TokensInv
  <2>2. SoundToken(new)
    BY <1>5, <1>6, <2>1, EventKeepsSound
  <2>3. new \in TokenState
    BY <2>2 DEF SoundToken
  <2>4. tokens' = [tokens EXCEPT ![e.token] = new]
    BY <1>3
  <2> HIDE DEF new
  <2>5. tokens \in [Tokens -> TokenState] /\ \A t \in Tokens : SoundToken(tokens[t])
    BY DEF IInv, TokensInv
  <2>6. tokens' \in [Tokens -> TokenState]
    BY <2>3, <2>4, <2>5
  <2>7. ASSUME NEW t \in Tokens PROVE SoundToken(tokens'[t])
    <3>1. tokens'[t] = IF t = e.token THEN new ELSE tokens[t]
      BY <1>6, <2>4, <2>5
    <3> QED
      BY <2>2, <2>5, <3>1
  <2> QED
    BY <2>6, <2>7 DEF TokensInv
<1>9. VenueInv' /\ ConnectionInv' /\ SnapshotterInv'
  BY <1>4 DEF IInv, VenueInv, ConnectionInv, SnapshotterInv, connection, snapshotter
<1> QED
  BY <1>7, <1>8, <1>9 DEF IInv

(* The snapshot of a token, sent on a tick, preserves the invariant. *)
LEMMA SendSnapshotInv ==
  ASSUME IInv, NEW t \in Tokens, SendSnapshot(t)
  PROVE  IInv'
<1> DEFINE event == RestSnapshot(t)
<1>1. /\ t \in DOMAIN answer
      /\ Enqueue(<<event>>)
      /\ answer' = [u \in DOMAIN answer \ {t} |-> answer[u]]
      /\ UNCHANGED <<venue, changes, connection, tokens, announced, recent, todo>>
  BY DEF SendSnapshot
<1>2. event \in Events
  <2>1. answer[t] \in VenueBooks
    BY <1>1 DEF IInv, SnapshotterInv
  <2> QED
    BY <2>1 DEF RestSnapshot, Events
<1> HIDE DEF event
<1>3. QueueInv'
  <2>1. QueueInv /\ <<event>> \in Seq(Events)
    BY <1>2 DEF IInv
  <2> DEFINE events == <<event>>
  <2>2. events \in Seq(Events) /\ Enqueue(events)
    BY <1>1, <2>1
  <2> HIDE DEF events
  <2> QED
    BY <2>1, <2>2, EnqueueBounded
<1>4. SnapshotterInv'
  <2>1. \A u \in DOMAIN answer' : u \in DOMAIN answer /\ answer'[u] = answer[u]
    BY <1>1
  <2> QED
    BY <1>1, <2>1 DEF IInv, SnapshotterInv
<1>5. VenueInv' /\ ConnectionInv' /\ TokensInv'
  BY <1>1 DEF IInv, VenueInv, ConnectionInv, TokensInv, connection
<1> QED
  BY <1>3, <1>4, <1>5 DEF IInv

(* The snapshotter's steps that send nothing. *)
LEMMA SnapshotterSteps ==
  ASSUME IInv,
         \/ \E t \in Tokens : ReceiveActivity(t) \/ Age(t)
         \/ Refresh
         \/ \E batch \in SUBSET todo : \E answered \in SUBSET batch : Fetch(batch, answered)
  PROVE  IInv'
<1>1. SnapshotterInv' /\ UNCHANGED <<venue, changes, connection, queue, tokens>>
  <2>1. ASSUME NEW t \in Tokens, ReceiveActivity(t) \/ Age(t)
        PROVE  SnapshotterInv' /\ UNCHANGED <<venue, changes, connection, queue, tokens>>
    BY <2>1 DEF ReceiveActivity, Age, IInv, SnapshotterInv, connection
  <2>2. ASSUME Refresh
        PROVE  SnapshotterInv' /\ UNCHANGED <<venue, changes, connection, queue, tokens>>
    BY <2>2 DEF Refresh, IInv, SnapshotterInv, connection
  <2>3. ASSUME NEW batch \in SUBSET todo, NEW answered \in SUBSET batch, Fetch(batch, answered)
        PROVE  SnapshotterInv' /\ UNCHANGED <<venue, changes, connection, queue, tokens>>
    <3>1. /\ todo' = todo \ batch /\ answer' = [t \in answered |-> venue[t]]
          /\ UNCHANGED <<venue, changes, connection, queue, tokens, announced, recent>>
      BY <2>3 DEF Fetch
    <3>2. answered \subseteq Tokens
      BY DEF IInv, SnapshotterInv
    <3>3. \A t \in DOMAIN answer' : t \in Tokens /\ answer'[t] \in VenueBooks
      BY <3>1, <3>2 DEF IInv, VenueInv
    <3> QED
      BY <3>1, <3>3 DEF IInv, SnapshotterInv
  <2> QED
    BY <2>1, <2>2, <2>3
<1>2. VenueInv' /\ ConnectionInv' /\ QueueInv' /\ TokensInv'
  BY <1>1 DEF IInv, VenueInv, ConnectionInv, QueueInv, TokensInv, connection
<1> QED
  BY <1>1, <1>2 DEF IInv

(* Every step of the venue, the socket and the snapshotter preserves the invariant. *)
LEMMA NextInv == IInv /\ [Next]_vars => IInv'
<1> SUFFICES ASSUME IInv, [Next]_vars PROVE IInv'
  OBVIOUS
<1>1. ASSUME NEW t \in Tokens, NEW s \in Sides, NEW x \in Levels, Change(t, s, x)
      PROVE  IInv'
  BY <1>1, ChangeInv
<1>2. ASSUME NEW t \in Tokens, NEW kind \in {"book", "trade"}, Message(t, kind)
      PROVE  IInv'
  BY <1>2, MessageInv
<1>3. ASSUME NEW order \in Orders, Connect(order)
      PROVE  IInv'
  <2>1. Cardinality(Tokens) \in Nat
    BY PolymarketFeedAssumption, FS_CardinalityType
  <2>2. order \in Seq(Tokens)
    BY <2>1 DEF Orders
  <2> QED
    BY <1>3, <2>2, ConnectInv
<1>4. CASE Disconnect
  BY <1>4, DisconnectInv
<1>5. CASE ReadMessage
  BY <1>5, ReadMessageInv
<1>6. CASE HandleEvent
  BY <1>6, HandleEventInv
<1>7. ASSUME NEW t \in Tokens, SendSnapshot(t)
      PROVE  IInv'
  BY <1>7, SendSnapshotInv
<1>8. CASE \/ \E t \in Tokens : ReceiveActivity(t) \/ Age(t)
           \/ Refresh
           \/ \E batch \in SUBSET todo : \E answered \in SUBSET batch : Fetch(batch, answered)
  BY <1>8, SnapshotterSteps
<1>9. CASE UNCHANGED vars
  BY <1>9 DEF vars, connection, snapshotter, IInv, VenueInv, ConnectionInv, QueueInv,
              TokensInv, SnapshotterInv
<1> QED
  BY <1>1, <1>2, <1>3, <1>4, <1>5, <1>6, <1>7, <1>8, <1>9 DEF Next

(* The invariant holds of every behaviour. *)
THEOREM FeedInvariance == Spec => []IInv
<1>1. Init => IInv
  BY InitInv
<1>2. IInv /\ [Next]_vars => IInv'
  BY NextInv
<1> QED
  BY <1>1, <1>2, PTL DEF Spec

(* Types; the shard's queue is never overfilled, and holds only events that   *)
(* the shard can handle.                                                     *)
THEOREM FeedTypes == Spec => []TypeOK
<1>1. IInv => TypeOK
  <2> SUFFICES ASSUME IInv PROVE TypeOK
    OBVIOUS
  <2>1. \A i \in DOMAIN queue : queue[i].token \in Tokens /\ IsEvent(queue[i])
    <3>1. queue \in Seq(Events)
      BY DEF IInv, QueueInv
    <3>2. ASSUME NEW i \in DOMAIN queue PROVE queue[i] \in Events
      BY <3>1, <3>2, LenProperties, ElementOfSeq
    <3> QED
      BY <3>2, EventsHandled
  <2> QED
    BY <2>1 DEF TypeOK, IInv, VenueInv, ConnectionInv, QueueInv, TokensInv, SnapshotterInv
<1> QED
  BY <1>1, FeedInvariance, PTL

(* DenseBook's cached counts and best levels are exact, for every number of   *)
(* levels and every order of snapshots, deltas and losses.                   *)
THEOREM FeedCachesExact == Spec => []CachesExact
<1>1. IInv => CachesExact
  BY DEF IInv, TokensInv, SoundToken, CachesExact
<1> QED
  BY <1>1, FeedInvariance, PTL

(* check_resync never leaves a crossed book in use unflagged. *)
THEOREM FeedCrossedIsFlagged == Spec => []CrossedIsFlagged
<1>1. IInv => CrossedIsFlagged
  BY DEF IInv, TokensInv, SoundToken, CrossedIsFlagged
<1> QED
  BY <1>1, FeedInvariance, PTL
-----------------------------------------------------------------------------
(* OpinionFeed: its tokens, first books and bounds of the same name are those *)
(* of PolymarketFeed, and so are the venue, its changes and connections, the *)
(* shard's tokens and the running round.                                     *)
CONSTANTS Configs, Concurrency, MaxLimited
VARIABLES
  config, subscribed, commands, age, current, cooling, backoff, global, limited, suppressed,
  wanted, pending, asked

Opinion == INSTANCE OpinionFeed

(* What both feeds have from TokenBook is the same: price levels and books, ... *)
LEMMA SameLevels ==
  /\ Opinion!Levels = Levels /\ Opinion!Sides = Sides /\ Opinion!NoLevel = NoLevel
  /\ Opinion!Tops = Tops /\ Opinion!VenueBooks = VenueBooks
<1>1. Opinion!Levels = Levels /\ Opinion!Sides = Sides /\ Opinion!NoLevel = NoLevel
  BY DEF Opinion!Levels, Levels, Opinion!Sides, Sides, Opinion!NoLevel, NoLevel
<1> QED
  BY <1>1 DEF Opinion!Tops, Tops, Opinion!VenueBooks, VenueBooks

(* ... the state of a token, ... *)
LEMMA SameTypes == Opinion!TokenState = TokenState /\ Opinion!NewToken = NewToken
<1>1. Opinion!BookSide = BookSide /\ Opinion!EmptySide = EmptySide
  BY SameLevels DEF Opinion!BookSide, BookSide, Opinion!EmptySide, EmptySide
<1>2. Opinion!Book = Book
  BY <1>1, SameLevels DEF Opinion!Book, Book
<1> QED
  BY <1>1, <1>2, SameLevels DEF Opinion!TokenState, TokenState, Opinion!NewToken, NewToken

(* ... the best level of a side, ... *)
LEMMA SameBest == ASSUME NEW s, NEW L PROVE Opinion!BestOf(s, L) = BestOf(s, L)
BY SameLevels DEF Opinion!BestOf, BestOf, Opinion!Better, Better

(* ... the order of levels, ... *)
LEMMA SameBetter == ASSUME NEW s, NEW x, NEW y PROVE Opinion!Better(s, x, y) = Better(s, x, y)
BY DEF Opinion!Better, Better

(* ... set_level, ... *)
LEMMA SameSet ==
  ASSUME NEW s, NEW side, NEW x, NEW present
  PROVE Opinion!SetLevel(s, side, x, present) = SetLevel(s, side, x, present)
<1>1. Opinion!CountAfter(side, x, present) = CountAfter(side, x, present)
  BY DEF Opinion!CountAfter, CountAfter
<1>2. \A L, best : Opinion!FindNext(s, L, best) = FindNext(s, L, best)
  BY SameBest DEF Opinion!FindNext, FindNext, Opinion!Better, Better
<1> QED
  BY <1>1, <1>2, SameLevels, SameBetter DEF Opinion!SetLevel, SetLevel

(* ... the number of levels, ... *)
LEMMA SameCount == ASSUME NEW S PROVE Opinion!Cardinality(S) = Cardinality(S)
BY DEF Opinion!Cardinality, Cardinality

(* ... apply_snapshot, ... *)
LEMMA SameApply ==
  ASSUME NEW b, NEW given
  PROVE Opinion!ApplySnapshot(b, given) = ApplySnapshot(b, given)
BY SameCount, SameBest, SameLevels DEF Opinion!ApplySnapshot, ApplySnapshot

(* ... what check_resync compares, ... *)
LEMMA SameDisagrees ==
  ASSUME NEW b, NEW e
  PROVE Opinion!Disagrees(b, e) = Disagrees(b, e)
<1>1. Opinion!TopsOf(b) = TopsOf(b)
  BY SameLevels DEF Opinion!TopsOf, TopsOf
<1>2. \A tops : Opinion!Crossed(tops) = Crossed(tops)
  BY SameLevels DEF Opinion!Crossed, Crossed
<1>3. Opinion!HashDisagrees(b, e) = HashDisagrees(b, e)
  BY SameLevels DEF Opinion!HashDisagrees, HashDisagrees
<1>4. Opinion!TopsDisagree(b, e) = TopsDisagree(b, e)
  BY <1>1, SameLevels DEF Opinion!TopsDisagree, TopsDisagree
<1> QED
  BY <1>1, <1>2, <1>3, <1>4 DEF Opinion!Disagrees, Disagrees

(* ... what it remembers, ... *)
LEMMA SameReport ==
  ASSUME NEW report, NEW same, NEW disagrees
  PROVE Opinion!ReportAfter(report, same, disagrees) = ReportAfter(report, same, disagrees)
BY DEF Opinion!ReportAfter, ReportAfter

(* ... and handle_event. *)
LEMMA SameEvents ==
  ASSUME NEW t, NEW e, NEW same
  PROVE Opinion!AfterEvent(t, e, same) = AfterEvent(t, e, same)
<1>1. Opinion!AfterSnapshot(t, e, same) = AfterSnapshot(t, e, same)
  BY SameApply, SameDisagrees, SameReport DEF Opinion!AfterSnapshot, AfterSnapshot
<1>2. Opinion!AfterDelta(t, e, same) = AfterDelta(t, e, same)
  BY SameSet, SameDisagrees, SameReport DEF Opinion!AfterDelta, AfterDelta
<1> QED
  BY <1>1, <1>2 DEF Opinion!AfterEvent, AfterEvent
-----------------------------------------------------------------------------
(* The invariant of OpinionFeed, in parts. *)
OWorld ==
  /\ config \in Configs
  /\ venue \in [Tokens -> VenueBooks]
  /\ changes \in 0..MaxChanges
OConnection ==
  /\ connects \in 0..MaxConnects /\ up \in BOOLEAN /\ subscribed \subseteq Tokens
OTokens ==
  /\ tokens \in [Tokens -> TokenState]
  /\ \A t \in Tokens : SoundToken(tokens[t])
OCommands == commands \subseteq Opinion!Commands
OLimits ==
  /\ age \in [Tokens -> {"fresh", "active", "old"}]
  /\ {current, cooling, backoff} \subseteq SUBSET Tokens
  /\ global \in BOOLEAN /\ limited \in 0..MaxLimited /\ suppressed \in BOOLEAN
ORound ==
  /\ wanted \subseteq Tokens /\ pending \subseteq {"inactive", "all"}
  /\ todo \subseteq Tokens /\ DOMAIN asked \subseteq Tokens
  /\ todo \cap DOMAIN asked = {}
  /\ \A t \in DOMAIN asked : asked[t] \in VenueBooks

OpinionInv == OWorld /\ OConnection /\ OTokens /\ OCommands /\ OLimits /\ ORound

(* A process starts without books and with all tokens in the bootstrap round. *)
LEMMA OpinionInit == ASSUME MaxLimited \in Nat, Opinion!Init PROVE OpinionInv
<1>1. OWorld
  BY PolymarketFeedAssumption DEF Opinion!Init, OWorld
<1>2. OConnection
  <2>1. connects \in 0..MaxConnects
    BY PolymarketFeedAssumption DEF Opinion!Init
  <2>2. up \in BOOLEAN /\ subscribed \subseteq Tokens
    BY DEF Opinion!Init
  <2> QED
    BY <2>1, <2>2 DEF OConnection
<1>3. OTokens
  <2>1. tokens = [t \in Tokens |-> NewToken]
    BY SameTypes DEF Opinion!Init
  <2>2. NewToken \in TokenState
    BY NewTokenSound DEF SoundToken
  <2> QED
    BY <2>1, <2>2, NewTokenSound DEF OTokens
<1>4. OCommands
  BY DEF Opinion!Init, OCommands
<1>5. OLimits
  <2>1. /\ age \in [Tokens -> {"fresh", "active", "old"}]
        /\ {current, cooling, backoff} \subseteq SUBSET Tokens
    BY DEF Opinion!Init
  <2>2. global \in BOOLEAN /\ suppressed \in BOOLEAN
    BY DEF Opinion!Init
  <2>3. limited \in 0..MaxLimited
    BY DEF Opinion!Init
  <2> QED
    BY <2>1, <2>2, <2>3 DEF OLimits
<1>6. ORound
  BY DEF Opinion!Init, ORound
<1> QED
  BY <1>1, <1>2, <1>3, <1>4, <1>5, <1>6 DEF OpinionInv

(* The invariant implies the types. *)
LEMMA OpinionTypeOK == ASSUME OpinionInv PROVE Opinion!TypeOK
BY SameLevels, SameTypes
   DEF OpinionInv, OWorld, OConnection, OTokens, OCommands, OLimits, ORound, Opinion!TypeOK

(* An event that is handled or lost leaves the tokens sound. *)
LEMMA OpinionHandled ==
  ASSUME OTokens, NEW t \in Tokens, NEW e, IsEvent(e), Opinion!Handle(t, e) \/ UNCHANGED tokens
  PROVE  OTokens'
<1>1. CASE UNCHANGED tokens
  BY <1>1 DEF OTokens
<1>2. CASE Opinion!Handle(t, e)
  <2>1. PICK same \in Opinion!SameSecond(tokens[t]) :
          tokens' = [tokens EXCEPT ![t] = Opinion!AfterEvent(tokens[t], e, same)]
    BY <1>2 DEF Opinion!Handle
  <2>2. same \in BOOLEAN
    BY DEF Opinion!SameSecond
  <2> DEFINE new == AfterEvent(tokens[t], e, same)
  <2>3. SoundToken(new)
    BY <2>2, EventKeepsSound DEF OTokens
  <2>4. tokens' = [tokens EXCEPT ![t] = new]
    BY <2>1, SameEvents
  <2> HIDE DEF new
  <2>5. new \in TokenState
    BY <2>3 DEF SoundToken
  <2> QED
    BY <2>3, <2>4, <2>5 DEF OTokens
<1> QED
  BY <1>1, <1>2

(* Commands of the channel. *)
LEMMA OpinionCommands ==
  /\ \A kind \in {"price", "book", "token"}, t \in Tokens : Opinion!About(kind, t) \in Opinion!Commands
  /\ \A kind \in {"inactive", "all"} : Opinion!Command(kind) \in Opinion!Commands
BY DEF Opinion!About, Opinion!Command, Opinion!Commands

(* try_send puts commands into the channel, or loses them. *)
LEMMA OpinionSent ==
  ASSUME OCommands, NEW cs \in SUBSET Opinion!Commands, Opinion!Send(cs)
  PROVE  OCommands'
BY DEF OCommands, Opinion!Send

(* The events of the feed are ones the shard can handle. *)
LEMMA OpinionEvents ==
  /\ \A s \in Sides, x \in Levels, present \in BOOLEAN : IsEvent(Opinion!Diff(s, x, present))
  /\ \A book \in VenueBooks : IsEvent(Opinion!Snapshot(book))
  /\ IsEvent([kind |-> "other"])
<1>1. ASSUME NEW s \in Sides, NEW x \in Levels, NEW present \in BOOLEAN
      PROVE  IsEvent(Opinion!Diff(s, x, present))
  BY SameLevels DEF Opinion!Diff, IsEvent, IsDelta, Tops
<1>2. ASSUME NEW book \in VenueBooks
      PROVE  IsEvent(Opinion!Snapshot(book))
  BY DEF Opinion!Snapshot, IsEvent, IsSnapshot, VenueBooks
<1>3. IsEvent([kind |-> "other"])
  BY DEF IsEvent, IsOther
<1> QED
  BY <1>1, <1>2, <1>3

(* A round that starts asks for other tokens than it waits for: for none. *)
LEMMA OpinionStarted ==
  ASSUME ORound, Opinion!RoundOver, todo' \subseteq Tokens, wanted' \subseteq wanted,
         pending' \subseteq pending, UNCHANGED asked
  PROVE  ORound'
BY DEF ORound, Opinion!RoundOver

(* A request that is answered or fails is no longer under way. *)
LEMMA OpinionDone ==
  ASSUME ORound, NEW t \in DOMAIN asked, Opinion!Done(t), UNCHANGED <<wanted, pending, todo>>
  PROVE  ORound'
BY DEF ORound, Opinion!Done
(* A change of a book at the venue preserves the invariant, told or not. *)
LEMMA OpinionChange ==
  ASSUME OpinionInv, NEW t \in Tokens, NEW s \in Sides, NEW x \in Levels, Opinion!Change(t, s, x)
  PROVE  OpinionInv'
<1> DEFINE present == x \notin venue[t][s]
           new == [venue[t] EXCEPT ![s] = IF present THEN @ \cup {x} ELSE @ \ {x}]
           e == Opinion!Diff(s, x, present)
<1>1. /\ changes < MaxChanges /\ changes' = changes + 1
      /\ venue' = [venue EXCEPT ![t] = new]
      /\ Opinion!Received(t, "book", e) \/ UNCHANGED <<commands, tokens>>
      /\ UNCHANGED <<config, Opinion!connection, age, Opinion!limits, suppressed, Opinion!round>>
  BY DEF Opinion!Change
<1>2. venue[t] \in VenueBooks /\ new \in VenueBooks
  BY DEF OpinionInv, OWorld, VenueBooks
<1>3. IsEvent(e)
  <2>1. present \in BOOLEAN
    OBVIOUS
  <2> HIDE DEF present
  <2> QED
    BY <2>1, OpinionEvents
<1> HIDE DEF present, new, e
<1>4. OWorld'
  BY <1>1, <1>2, PolymarketFeedAssumption DEF OpinionInv, OWorld
<1>5. OTokens' /\ OCommands'
  <2>1. CASE Opinion!Received(t, "book", e)
    <3>1. Opinion!Send({Opinion!About("book", t)})
      BY <2>1 DEF Opinion!Received
    <3>2. Opinion!Handle(t, e) \/ UNCHANGED tokens
      BY <2>1 DEF Opinion!Received
    <3>3. OTokens'
      BY <1>3, <3>2, OpinionHandled DEF OpinionInv
    <3> QED
      BY <3>1, <3>3, OpinionCommands, OpinionSent DEF OpinionInv
  <2>2. CASE UNCHANGED <<commands, tokens>>
    BY <2>2 DEF OpinionInv, OTokens, OCommands
  <2> QED
    BY <1>1, <2>1, <2>2
<1>6. OConnection' /\ OLimits' /\ ORound'
  BY <1>1 DEF OpinionInv, OConnection, OLimits, ORound, Opinion!connection, Opinion!limits, Opinion!round
<1> QED
  BY <1>4, <1>5, <1>6 DEF OpinionInv

(* So does a message about a price or a trade. *)
LEMMA OpinionPrice ==
  ASSUME OpinionInv, NEW t \in Tokens, Opinion!Price(t)
  PROVE  OpinionInv'
<1>1. /\ changes < MaxChanges /\ changes' = changes + 1
      /\ Opinion!Received(t, "price", [kind |-> "other"])
      /\ UNCHANGED <<config, venue, Opinion!connection, age, Opinion!limits, suppressed, Opinion!round>>
  BY DEF Opinion!Price
<1>2. OTokens'
  <2>1. Opinion!Handle(t, [kind |-> "other"]) \/ UNCHANGED tokens
    BY <1>1 DEF Opinion!Received
  <2> QED
    BY <2>1, OpinionEvents, OpinionHandled DEF OpinionInv
<1>3. OCommands'
  <2>1. Opinion!Send({Opinion!About("price", t)})
    BY <1>1 DEF Opinion!Received
  <2> QED
    BY <2>1, OpinionCommands, OpinionSent DEF OpinionInv
<1>4. OWorld' /\ OConnection' /\ OLimits' /\ ORound'
  BY <1>1, PolymarketFeedAssumption
  DEF OpinionInv, OWorld, OConnection, OLimits, ORound, Opinion!connection, Opinion!limits, Opinion!round
<1> QED
  BY <1>2, <1>3, <1>4 DEF OpinionInv

(* So do connections, their loss, and the requests of the gap filler and the   *)
(* trade engine.                                                             *)
LEMMA OpinionConnection ==
  ASSUME OpinionInv,
         \/ \E S \in SUBSET Tokens : Opinion!Connect(S)
         \/ Opinion!Disconnect \/ Opinion!RequestGapfill
         \/ \E t \in Tokens : Opinion!RequestToken(t)
  PROVE  OpinionInv'
<1>1. ASSUME NEW S \in SUBSET Tokens, Opinion!Connect(S)
      PROVE  OpinionInv'
  <2>1. /\ connects < MaxConnects /\ connects' = connects + 1
        /\ subscribed' = S
        /\ UNCHANGED <<Opinion!world, tokens, age, Opinion!limits, suppressed, Opinion!round>>
    BY <1>1 DEF Opinion!Connect
  <2>2. OCommands'
    <3>1. Opinion!Send({Opinion!Command("all")})
      BY <1>1 DEF Opinion!Connect
    <3> QED
      BY <3>1, OpinionCommands, OpinionSent DEF OpinionInv
  <2>3. OConnection'
    <3>1. up' \in BOOLEAN
      BY <1>1 DEF Opinion!Connect
    <3> QED
      BY <2>1, <3>1, PolymarketFeedAssumption DEF OpinionInv, OConnection
  <2>4. OWorld' /\ OTokens' /\ OLimits' /\ ORound'
    BY <2>1 DEF OpinionInv, OWorld, OTokens, OLimits, ORound, Opinion!world, Opinion!limits, Opinion!round
  <2> QED
    BY <2>2, <2>3, <2>4 DEF OpinionInv
<1>2. CASE Opinion!Disconnect
  <2>1. /\ subscribed' = {} /\ connects' = connects
        /\ UNCHANGED <<Opinion!world, tokens, age, Opinion!limits, suppressed, Opinion!round>>
    BY <1>2 DEF Opinion!Disconnect
  <2>2. OCommands'
    <3>1. Opinion!Send({Opinion!Command("inactive")})
      BY <1>2 DEF Opinion!Disconnect
    <3> QED
      BY <3>1, OpinionCommands, OpinionSent DEF OpinionInv
  <2>3. OConnection'
    <3>1. up' \in BOOLEAN
      BY <1>2 DEF Opinion!Disconnect
    <3> QED
      BY <2>1, <3>1 DEF OpinionInv, OConnection
  <2>4. OWorld' /\ OTokens' /\ OLimits' /\ ORound'
    BY <2>1 DEF OpinionInv, OWorld, OTokens, OLimits, ORound, Opinion!world, Opinion!limits, Opinion!round
  <2> QED
    BY <2>2, <2>3, <2>4 DEF OpinionInv
<1>3. CASE Opinion!RequestGapfill
  <2>1. /\ commands' = commands \cup {Opinion!Command("inactive")}
        /\ UNCHANGED <<Opinion!world, Opinion!connection, tokens, age, Opinion!limits, suppressed, Opinion!round>>
    BY <1>3 DEF Opinion!RequestGapfill
  <2>3. OCommands'
    BY <2>1, OpinionCommands DEF OpinionInv, OCommands
  <2>4. OWorld' /\ OConnection' /\ OTokens' /\ OLimits' /\ ORound'
    BY <2>1 DEF OpinionInv, OWorld, OConnection, OTokens, OLimits, ORound, Opinion!world,
                Opinion!connection, Opinion!limits, Opinion!round
  <2> QED
    BY <2>3, <2>4 DEF OpinionInv
<1>4. ASSUME NEW t \in Tokens, Opinion!RequestToken(t)
      PROVE  OpinionInv'
  <2>1. /\ changes < MaxChanges /\ changes' = changes + 1
        /\ commands' = commands \cup {Opinion!About("token", t)}
        /\ UNCHANGED <<config, venue, Opinion!connection, tokens, age, Opinion!limits, suppressed, Opinion!round>>
    BY <1>4 DEF Opinion!RequestToken
  <2>2. OWorld'
    BY <2>1, PolymarketFeedAssumption DEF OpinionInv, OWorld
  <2>3. OCommands'
    BY <2>1, OpinionCommands DEF OpinionInv, OCommands
  <2>4. OConnection' /\ OTokens' /\ OLimits' /\ ORound'
    BY <2>1 DEF OpinionInv, OConnection, OTokens, OLimits, ORound,
                Opinion!connection, Opinion!limits, Opinion!round
  <2> QED
    BY <2>2, <2>3, <2>4 DEF OpinionInv
<1> QED
  BY <1>1, <1>2, <1>3, <1>4

(* A step that only starts a round. *)
LEMMA OpinionStart ==
  ASSUME OpinionInv, Opinion!RoundOver, todo' \subseteq Tokens, wanted' \subseteq wanted,
         pending' \subseteq pending, UNCHANGED asked,
         UNCHANGED <<Opinion!world, Opinion!connection, tokens, commands, age, Opinion!limits, suppressed>>
  PROVE  OpinionInv'
<1>1. ORound'
  BY OpinionStarted DEF OpinionInv
<1>2. OWorld' /\ OConnection' /\ OTokens' /\ OCommands' /\ OLimits'
  BY DEF OpinionInv, OWorld, OConnection, OTokens, OCommands, OLimits, Opinion!world,
         Opinion!connection, Opinion!limits
<1> QED
  BY <1>1, <1>2 DEF OpinionInv

(* What is in the command channel is received. *)
LEMMA OpinionReceive ==
  ASSUME OpinionInv, Opinion!ReceiveCommands
  PROVE  OpinionInv'
<1> DEFINE Of(kinds) == {t \in Tokens : \E k \in kinds : Opinion!About(k, t) \in commands}
<1>1. /\ age' = [t \in Tokens |-> IF t \in Of({"price", "book"}) THEN "fresh" ELSE age[t]]
      /\ current' \in {current, current \cup Of({"book"})}
      /\ UNCHANGED <<cooling, backoff, global, limited>>
  BY DEF Opinion!ReceiveCommands
<1>2. /\ wanted' = Of({"token"}) /\ pending' \subseteq {"inactive", "all"}
      /\ UNCHANGED <<todo, asked>>
  BY DEF Opinion!ReceiveCommands
<1>3. commands' = {} /\ UNCHANGED <<Opinion!world, Opinion!connection, tokens>>
  BY DEF Opinion!ReceiveCommands
<1>4. suppressed' \in BOOLEAN
  BY DEF Opinion!ReceiveCommands
<1>5. \A kinds : Of(kinds) \subseteq Tokens
  OBVIOUS
<1> HIDE DEF Of
<1>6. OLimits'
  <2>1. age' \in [Tokens -> {"fresh", "active", "old"}]
    BY <1>1 DEF OpinionInv, OLimits
  <2>2. {current, cooling, backoff}' \subseteq SUBSET Tokens
    BY <1>1, <1>5 DEF OpinionInv, OLimits
  <2>3. limited' \in 0..MaxLimited
    BY <1>1 DEF OpinionInv, OLimits
  <2>4. global' \in BOOLEAN
    BY <1>1 DEF OpinionInv, OLimits
  <2> QED
    BY <1>4, <2>1, <2>2, <2>3, <2>4 DEF OLimits
<1>7. ORound'
  BY <1>2, <1>5 DEF OpinionInv, ORound
<1>8. OWorld' /\ OConnection' /\ OTokens' /\ OCommands'
  BY <1>3 DEF OpinionInv, OWorld, OConnection, OTokens, OCommands, Opinion!world, Opinion!connection
<1> QED
  BY <1>6, <1>7, <1>8 DEF OpinionInv

(* The steps that start a round, or receive what calls for one. *)
LEMMA OpinionRounds ==
  ASSUME OpinionInv,
         \/ Opinion!Refresh \/ Opinion!FastTick
         \/ Opinion!ReceiveCommands \/ Opinion!OnDemand \/ Opinion!TriggerAll
         \/ \E T \in SUBSET Tokens : Opinion!Gapfill(T)
  PROVE  OpinionInv'
<1>1. wanted \subseteq Tokens
  BY DEF OpinionInv, ORound
<1>2. ASSUME Opinion!Refresh \/ Opinion!FastTick
      PROVE  OpinionInv'
  <2>1. PICK T \in SUBSET Tokens : Opinion!StartRound(T)
    BY <1>2 DEF Opinion!Refresh, Opinion!FastTick, Opinion!Filtered, Opinion!Active, Opinion!Inactive
  <2>2. Opinion!RoundOver
    BY <1>2 DEF Opinion!Refresh, Opinion!FastTick, Opinion!Idle
  <2>3. /\ todo' = T /\ UNCHANGED <<wanted, pending, asked>>
        /\ UNCHANGED <<Opinion!world, Opinion!connection, tokens, commands, age, Opinion!limits, suppressed>>
    BY <2>1 DEF Opinion!StartRound
  <2> QED
    BY <2>2, <2>3, OpinionStart
<1>3. ASSUME Opinion!OnDemand
      PROVE  OpinionInv'
  <2>1. /\ Opinion!RoundOver /\ todo' = Opinion!PriorityFiltered(wanted) /\ wanted' = {}
        /\ UNCHANGED <<pending, asked>>
        /\ UNCHANGED <<Opinion!world, Opinion!connection, tokens, commands, age, Opinion!limits, suppressed>>
    BY <1>3 DEF Opinion!OnDemand
  <2>2. todo' \subseteq Tokens
    BY <1>1, <2>1 DEF Opinion!PriorityFiltered
  <2> QED
    BY <2>1, <2>2, OpinionStart
<1>4. ASSUME Opinion!TriggerAll
      PROVE  OpinionInv'
  <2>1. /\ Opinion!RoundOver /\ todo' = Opinion!Filtered(Tokens) /\ pending' = {}
        /\ UNCHANGED <<wanted, asked>>
        /\ UNCHANGED <<Opinion!world, Opinion!connection, tokens, commands, age, Opinion!limits, suppressed>>
    BY <1>4 DEF Opinion!TriggerAll
  <2>2. todo' \subseteq Tokens
    BY <2>1 DEF Opinion!Filtered
  <2> QED
    BY <2>1, <2>2, OpinionStart
<1>5. ASSUME NEW T \in SUBSET Tokens, Opinion!Gapfill(T)
      PROVE  OpinionInv'
  <2>1. /\ Opinion!RoundOver /\ todo' = T /\ pending' = pending \ {"inactive"}
        /\ UNCHANGED <<wanted, asked>>
        /\ UNCHANGED <<Opinion!world, Opinion!connection, tokens, commands, age, Opinion!limits, suppressed>>
    BY <1>5 DEF Opinion!Gapfill
  <2> QED
    BY <2>1, OpinionStart
<1> QED
  BY <1>2, <1>3, <1>4, <1>5, OpinionReceive

(* An answer that names a rate limit. *)
LEMMA OpinionLimited ==
  ASSUME OLimits, NEW t \in Tokens, Opinion!MarkLimited(t), MaxLimited \in Nat,
         UNCHANGED <<age, current, cooling, suppressed>>
  PROVE  OLimits'
<1>1. limited' \in 0..MaxLimited
  BY DEF Opinion!MarkLimited, OLimits
<1>2. {current, cooling, backoff}' \subseteq SUBSET Tokens
  BY DEF Opinion!MarkLimited, OLimits
<1>3. global' \in BOOLEAN
  BY DEF Opinion!MarkLimited
<1> QED
  BY <1>1, <1>2, <1>3 DEF OLimits

(* An answer that brings something. *)
LEMMA OpinionArrived ==
  ASSUME OLimits, NEW t \in Tokens, Opinion!Arrived(t),
         UNCHANGED <<current, backoff, global, limited, suppressed>>
  PROVE  OLimits'
<1>1. age' \in [Tokens -> {"fresh", "active", "old"}]
  BY DEF Opinion!Arrived, OLimits
<1>2. {current, cooling, backoff}' \subseteq SUBSET Tokens
  BY DEF Opinion!Arrived, OLimits
<1> QED
  BY <1>1, <1>2 DEF OLimits

(* Requests for books and prices, and their answers, preserve the invariant. *)
LEMMA OpinionRequests ==
  ASSUME OpinionInv, MaxLimited \in Nat, NEW t \in Tokens,
         \/ Opinion!Ask(t) \/ Opinion!Failed(t) \/ Opinion!Limited(t)
         \/ Opinion!Delivered(t) \/ Opinion!Dropped(t) \/ Opinion!LatestPrice(t)
  PROVE  OpinionInv'
<1> DEFINE Others == UNCHANGED <<Opinion!world, Opinion!connection, commands>>
<1>1. ASSUME Opinion!Ask(t)
      PROVE  ORound' /\ OLimits' /\ OTokens' /\ Others
  <2>1. /\ t \in todo /\ todo' = todo \ {t}
        /\ asked' = [u \in DOMAIN asked \cup {t} |-> IF u = t THEN venue[t] ELSE asked[u]]
        /\ UNCHANGED <<Opinion!world, Opinion!connection, tokens, commands, age, Opinion!limits,
                       suppressed, wanted, pending>>
    BY <1>1 DEF Opinion!Ask
  <2>2. venue[t] \in VenueBooks
    BY DEF OpinionInv, OWorld
  <2>3. ORound'
    BY <2>1, <2>2 DEF OpinionInv, ORound
  <2> QED
    BY <2>1, <2>3 DEF OpinionInv, OLimits, OTokens, Opinion!limits
<1>2. ASSUME Opinion!Failed(t)
      PROVE  ORound' /\ OLimits' /\ OTokens' /\ Others
  <2>1. /\ t \in DOMAIN asked /\ Opinion!Done(t)
        /\ UNCHANGED <<Opinion!world, Opinion!connection, tokens, commands, age, Opinion!limits,
                       suppressed, wanted, pending, todo>>
    BY <1>2 DEF Opinion!Failed
  <2>2. ORound'
    BY <2>1, OpinionDone DEF OpinionInv
  <2> QED
    BY <2>1, <2>2 DEF OpinionInv, OLimits, OTokens, Opinion!limits
<1>3. ASSUME Opinion!Limited(t)
      PROVE  ORound' /\ OLimits' /\ OTokens' /\ Others
  <2>1. /\ t \in DOMAIN asked /\ Opinion!Done(t) /\ Opinion!MarkLimited(t)
        /\ UNCHANGED <<Opinion!world, Opinion!connection, tokens, commands, age, current, cooling,
                       suppressed, wanted, pending, todo>>
    BY <1>3 DEF Opinion!Limited
  <2>2. ORound'
    BY <2>1, OpinionDone DEF OpinionInv
  <2>3. OLimits'
    BY <2>1, OpinionLimited DEF OpinionInv
  <2> QED
    BY <2>1, <2>2, <2>3 DEF OpinionInv, OTokens
<1>4. ASSUME Opinion!Answered(t), Opinion!Handle(t, Opinion!Snapshot(asked[t])) \/ UNCHANGED tokens
      PROVE  ORound' /\ OLimits' /\ OTokens' /\ Others
  <2>1. /\ t \in DOMAIN asked /\ Opinion!Done(t) /\ Opinion!Arrived(t)
        /\ UNCHANGED <<Opinion!world, Opinion!connection, commands, current, backoff, global, limited,
                       suppressed, wanted, pending, todo>>
    BY <1>4 DEF Opinion!Answered
  <2>2. ORound'
    BY <2>1, OpinionDone DEF OpinionInv
  <2>3. OLimits'
    BY <2>1, OpinionArrived DEF OpinionInv
  <2>4. IsEvent(Opinion!Snapshot(asked[t]))
    BY <2>1, OpinionEvents DEF OpinionInv, ORound
  <2>5. OTokens'
    BY <1>4, <2>4, OpinionHandled DEF OpinionInv
  <2> QED
    BY <2>1, <2>2, <2>3, <2>5
<1>5. ASSUME Opinion!LatestPrice(t)
      PROVE  ORound' /\ OLimits' /\ OTokens' /\ Others
  <2>1. /\ Opinion!PriceAnswered(t)
        /\ UNCHANGED <<Opinion!world, Opinion!connection, tokens, commands, current, suppressed,
                       Opinion!round>>
    BY <1>5 DEF Opinion!LatestPrice
  <2>2. OLimits'
    <3>1. CASE Opinion!Arrived(t) /\ UNCHANGED <<backoff, global, limited>>
      BY <2>1, <3>1, OpinionArrived DEF OpinionInv
    <3>2. CASE Opinion!MarkLimited(t) /\ UNCHANGED <<age, cooling>>
      BY <2>1, <3>2, OpinionLimited DEF OpinionInv
    <3> QED
      BY <2>1, <3>1, <3>2 DEF Opinion!PriceAnswered
  <2>3. ORound' /\ OTokens'
    BY <2>1 DEF OpinionInv, ORound, OTokens, Opinion!round
  <2> QED
    BY <2>1, <2>2, <2>3
<1>6. ORound' /\ OLimits' /\ OTokens' /\ Others
  BY <1>1, <1>2, <1>3, <1>4, <1>5 DEF Opinion!Delivered, Opinion!Dropped
<1>7. OWorld' /\ OConnection' /\ OCommands'
  BY <1>6 DEF OpinionInv, OWorld, OConnection, OCommands, Opinion!world, Opinion!connection
<1> QED
  BY <1>6, <1>7 DEF OpinionInv

(* So does the end of a window. *)
LEMMA OpinionWindows ==
  ASSUME OpinionInv,
         \/ \E t \in Tokens : \/ Opinion!Quieter(t) \/ Opinion!BookStale(t)
                              \/ Opinion!CooldownEnds(t) \/ Opinion!BackoffEnds(t)
         \/ Opinion!GlobalEnds \/ Opinion!SuppressEnds
  PROVE  OpinionInv'
<1> DEFINE Others == UNCHANGED <<Opinion!world, Opinion!connection, tokens, commands, Opinion!round>>
<1>1. ASSUME NEW t \in Tokens, Opinion!Quieter(t)
      PROVE  OLimits' /\ Others
  <2>1. /\ age' = [age EXCEPT ![t] = IF @ = "fresh" THEN "active" ELSE "old"]
        /\ UNCHANGED <<Opinion!limits, suppressed>> /\ Others
    BY <1>1 DEF Opinion!Quieter
  <2> QED
    BY <2>1 DEF OpinionInv, OLimits, Opinion!limits
<1>2. ASSUME NEW t \in Tokens,
             Opinion!BookStale(t) \/ Opinion!CooldownEnds(t) \/ Opinion!BackoffEnds(t)
      PROVE  OLimits' /\ Others
  <2>1. {current, cooling, backoff}' \subseteq SUBSET Tokens
    BY <1>2 DEF OpinionInv, OLimits, Opinion!BookStale, Opinion!CooldownEnds, Opinion!BackoffEnds
  <2>2. UNCHANGED <<age, global, limited, suppressed>> /\ Others
    BY <1>2 DEF Opinion!BookStale, Opinion!CooldownEnds, Opinion!BackoffEnds
  <2> QED
    BY <2>1, <2>2 DEF OpinionInv, OLimits
<1>3. ASSUME Opinion!GlobalEnds
      PROVE  OLimits' /\ Others
  <2>1. UNCHANGED <<age, current, cooling, backoff, limited, suppressed>> /\ Others
    BY <1>3 DEF Opinion!GlobalEnds
  <2>2. global' \in BOOLEAN
    BY <1>3 DEF Opinion!GlobalEnds
  <2> QED
    BY <2>1, <2>2 DEF OpinionInv, OLimits
<1>4. ASSUME Opinion!SuppressEnds
      PROVE  OLimits' /\ Others
  <2>1. UNCHANGED <<age, Opinion!limits>> /\ Others
    BY <1>4 DEF Opinion!SuppressEnds
  <2>2. suppressed' \in BOOLEAN
    BY <1>4 DEF Opinion!SuppressEnds
  <2> QED
    BY <2>1, <2>2 DEF OpinionInv, OLimits, Opinion!limits
<1>5. OLimits' /\ Others
  BY <1>1, <1>2, <1>3, <1>4
<1>6. OWorld' /\ OConnection' /\ OTokens' /\ OCommands' /\ ORound'
  BY <1>5 DEF OpinionInv, OWorld, OConnection, OTokens, OCommands, ORound, Opinion!world,
              Opinion!connection, Opinion!round
<1> QED
  BY <1>5, <1>6 DEF OpinionInv

(* Every step preserves the invariant. *)
LEMMA OpinionNext ==
  ASSUME MaxLimited \in Nat, OpinionInv, [Opinion!Next]_(Opinion!vars)
  PROVE  OpinionInv'
<1>1. ASSUME NEW t \in Tokens, NEW s \in Sides, NEW x \in Levels, Opinion!Change(t, s, x)
      PROVE  OpinionInv'
  BY <1>1, OpinionChange
<1>2. ASSUME NEW t \in Tokens, Opinion!Price(t)
      PROVE  OpinionInv'
  BY <1>2, OpinionPrice
<1>3. CASE \/ \E S \in SUBSET Tokens : Opinion!Connect(S)
           \/ Opinion!Disconnect \/ Opinion!RequestGapfill
           \/ \E t \in Tokens : Opinion!RequestToken(t)
  BY <1>3, OpinionConnection
<1>4. CASE \/ Opinion!Refresh \/ Opinion!FastTick
           \/ Opinion!ReceiveCommands \/ Opinion!OnDemand \/ Opinion!TriggerAll
           \/ \E T \in SUBSET Tokens : Opinion!Gapfill(T)
  BY <1>4, OpinionRounds
<1>5. ASSUME NEW t \in Tokens,
             \/ Opinion!Ask(t) \/ Opinion!Failed(t) \/ Opinion!Limited(t)
             \/ Opinion!Delivered(t) \/ Opinion!Dropped(t) \/ Opinion!LatestPrice(t)
      PROVE  OpinionInv'
  BY <1>5, OpinionRequests
<1>6. CASE \/ \E t \in Tokens : \/ Opinion!Quieter(t) \/ Opinion!BookStale(t)
                                \/ Opinion!CooldownEnds(t) \/ Opinion!BackoffEnds(t)
           \/ Opinion!GlobalEnds \/ Opinion!SuppressEnds
  BY <1>6, OpinionWindows
<1>7. CASE UNCHANGED Opinion!vars
  <2>1. /\ UNCHANGED <<Opinion!world, Opinion!connection, tokens, commands>>
        /\ UNCHANGED <<age, Opinion!limits, suppressed, Opinion!round>>
    BY <1>7 DEF Opinion!vars
  <2> QED
    BY <2>1 DEF OpinionInv, OWorld, OConnection, OTokens, OCommands, OLimits, ORound,
                Opinion!world, Opinion!connection, Opinion!limits, Opinion!round
<1> QED
  BY <1>1, <1>2, <1>3, <1>4, <1>5, <1>6, <1>7, SameLevels DEF Opinion!Next

(* The invariant holds of every behaviour of OpinionFeed, whatever its options. *)
THEOREM OpinionInvariance == ASSUME MaxLimited \in Nat PROVE Opinion!Spec => []OpinionInv
<1>1. Opinion!Init => OpinionInv
  BY OpinionInit
<1>2. OpinionInv /\ [Opinion!Next]_(Opinion!vars) => OpinionInv'
  BY OpinionNext
<1> QED
  BY <1>1, <1>2, PTL DEF Opinion!Spec

(* Types; a token is never in the running round and asked for at the same time, *)
(* whichever rounds ticks and commands start: run_snapshot_round is over before *)
(* the next one begins.                                                      *)
THEOREM OpinionTypes == ASSUME MaxLimited \in Nat PROVE Opinion!Spec => []Opinion!TypeOK
<1>1. OpinionInv => Opinion!TypeOK
  BY OpinionTypeOK
<1> QED
  BY <1>1, OpinionInvariance, PTL

OpinionBooksSound == \A t \in Tokens : SoundToken(tokens[t])

(* Opinion's books too keep exact caches, and a crossed one is flagged, whatever *)
(* differences were lost and whichever answers came late.                    *)
THEOREM OpinionSound == ASSUME MaxLimited \in Nat PROVE Opinion!Spec => []OpinionBooksSound
<1>1. OpinionInv => OpinionBooksSound
  BY DEF OpinionInv, OTokens, OpinionBooksSound
<1> QED
  BY <1>1, OpinionInvariance, PTL
=============================================================================
