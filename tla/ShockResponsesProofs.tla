------------------------- MODULE ShockResponsesProofs -------------------------
(***************************************************************************)
(* Safety of ShockResponses, for every set of shocks and horizons, every   *)
(* lookback, capacity, length of the history and bound: each response is   *)
(* in one place and built once, and from bars on both sides of its shock.  *)
(***************************************************************************)
EXTENDS ShockResponses, FiniteSetTheorems, SequenceTheorems, WellFoundedInduction, TLAPS

(* What is in a sequence, and that nothing is in it twice. *)
Elements(s) == {s[n] : n \in 1..Len(s)}
Distinct(s) == \A m, n \in 1..Len(s) : s[m] = s[n] => m = n

(* The shock of the response was handled; where the responses are. *)
Handled(r) == shocks[r[1]] # NoShock
InWaiting == {r \in Responses : \E t \in Targets : r \in Elements(waiting[t])}
InChannel == Elements(channel)

AnswerType == [built : Nat, at : Int \cup {None}, base : Int \cup {None},
               end : Int \cup {None}, between : SUBSET Int]

(* A shock that was handled has its second. *)
Triggers == \A i \in Ids : shocks[i] # NoShock => shocks[i].trigger \in Seconds

(* Responses wait under the second they are due at; what is in the channel or may
   be handed over is due. *)
Queues ==
  /\ \A t \in Targets : Distinct(waiting[t])
  /\ \A t \in Targets : \A r \in Elements(waiting[t]) : Handled(r) /\ Target(r) = t
  /\ Distinct(channel)
  /\ \A r \in InChannel : Handled(r) /\ Target(r) <= tick
  /\ \A u \in flushing.targets : waiting[u] # <<>> /\ u <= tick

(* A response of a shock that was handled waits, is in the channel or is built. *)
OnePlace ==
  \A r \in Responses :
    /\ answers[r].built \in {0, 1}
    /\ Handled(r) <=> r \in InWaiting \/ r \in InChannel \/ answers[r].built = 1
    /\ r \in InWaiting => r \notin InChannel /\ answers[r].built = 0
    /\ r \in InChannel => answers[r].built = 0

Counted == count = Cardinality(InWaiting)

(* The inductive invariant. *)
IInv ==
  /\ TypeOK /\ answers \in [Responses -> AnswerType]
  /\ Triggers /\ Queues /\ OnePlace /\ Counted /\ FromBothSides
-----------------------------------------------------------------------------
(* An element more at the end. *)
LEMMA AppendElements ==
  ASSUME NEW S, NEW s \in Seq(S), NEW x \in S, x \notin Elements(s), Distinct(s)
  PROVE  /\ Append(s, x) \in Seq(S) /\ Append(s, x) # <<>>
         /\ Elements(Append(s, x)) = Elements(s) \cup {x}
         /\ Distinct(Append(s, x))
         /\ Len(Append(s, x)) = Len(s) + 1
<1> DEFINE t == Append(s, x)
<1>1. Len(s) \in Nat BY LenProperties
<1>2. /\ t \in Seq(S) /\ t # <<>> /\ Len(t) = Len(s) + 1
      /\ \A n \in 1..Len(s) : t[n] = s[n]
      /\ t[Len(s) + 1] = x
  BY AppendProperties
<1> HIDE DEF t
<1>3. \A n \in 1..Len(t) : n \in 1..Len(s) \/ n = Len(s) + 1
  BY <1>1, <1>2
<1>4. \A n \in 1..Len(s) : n \in 1..Len(t) /\ s[n] # x
  BY <1>1, <1>2 DEF Elements
<1>5. Elements(t) \subseteq Elements(s) \cup {x}
  BY <1>2, <1>3 DEF Elements
<1>6. Elements(s) \cup {x} \subseteq Elements(t)
  <2>1. Len(s) + 1 \in 1..Len(t) BY <1>1, <1>2
  <2> QED BY <1>2, <1>4, <2>1 DEF Elements
<1>7. Distinct(t)
  BY <1>2, <1>3, <1>4 DEF Distinct
<1> QED BY <1>2, <1>5, <1>6, <1>7 DEF t

(* The first element taken away. *)
LEMMA TailElements ==
  ASSUME NEW S, NEW s \in Seq(S), s # <<>>, Distinct(s)
  PROVE  /\ Head(s) \in S /\ Head(s) \in Elements(s)
         /\ Tail(s) \in Seq(S) /\ Len(Tail(s)) = Len(s) - 1 /\ Len(s) \in Nat \ {0}
         /\ Elements(Tail(s)) = Elements(s) \ {Head(s)}
         /\ Distinct(Tail(s))
<1> DEFINE t == Tail(s)
           h == Head(s)
<1>1. Len(s) \in Nat \ {0} /\ h = s[1]
  BY LenProperties, EmptySeq
<1>2. /\ h \in S /\ t \in Seq(S) /\ Len(t) = Len(s) - 1
      /\ \A n \in 1..Len(t) : t[n] = s[n + 1]
  BY HeadTailProperties
<1> HIDE DEF t, h
<1>3. /\ 1 \in 1..Len(s)
      /\ \A n \in 1..Len(t) : n + 1 \in 1..Len(s) /\ n + 1 # 1
      /\ \A n \in 1..Len(s) : n = 1 \/ (n - 1 \in 1..Len(t) /\ (n - 1) + 1 = n)
  BY <1>1, <1>2
<1>4. h \in Elements(s) BY <1>1, <1>3 DEF Elements
<1>5. ASSUME NEW x \in Elements(t) PROVE x \in Elements(s) \ {h}
  <2>1. PICK n \in 1..Len(t) : x = t[n] BY DEF Elements
  <2>2. x = s[n + 1] /\ n + 1 \in 1..Len(s) /\ n + 1 # 1 BY <1>2, <1>3, <2>1
  <2>3. s[n + 1] # s[1] BY <1>3, <2>2 DEF Distinct
  <2> QED BY <1>1, <2>2, <2>3 DEF Elements
<1>6. ASSUME NEW x \in Elements(s) \ {h} PROVE x \in Elements(t)
  <2>1. PICK n \in 1..Len(s) : x = s[n] BY DEF Elements
  <2>2. n # 1 BY <1>1, <2>1
  <2>3. n - 1 \in 1..Len(t) /\ (n - 1) + 1 = n BY <1>3, <2>2
  <2>4. t[n - 1] = x BY <1>2, <2>1, <2>3
  <2> QED BY <2>3, <2>4 DEF Elements
<1>7. Distinct(t)
  <2> SUFFICES ASSUME NEW m \in 1..Len(t), NEW n \in 1..Len(t), t[m] = t[n] PROVE m = n
    BY DEF Distinct
  <2>1. s[m + 1] = s[n + 1] BY <1>2
  <2>2. m + 1 = n + 1 BY <1>3, <2>1 DEF Distinct
  <2> QED BY <2>2
<1> QED BY <1>1, <1>2, <1>4, <1>5, <1>6, <1>7 DEF t, h

(* A sequence without repetition is no longer than the set of what may be in it. *)
LEMMA DistinctBounded ==
  ASSUME NEW S, IsFiniteSet(S), NEW s \in Seq(S), Distinct(s)
  PROVE  Len(s) <= Cardinality(S)
<1>1. Len(s) \in Nat /\ s \in [1..Len(s) -> S]
  BY LenProperties
<1>2. s \in Injection(1..Len(s), S)
  BY <1>1 DEF Distinct, Injection, IsInjective
<1>3. Cardinality(1..Len(s)) <= Cardinality(S)
  BY <1>2, FS_Injection
<1>4. Cardinality(1..Len(s)) = Len(s)
  <2> DEFINE n == Len(s)
  <2>1. n \in Nat BY <1>1
  <2> HIDE DEF n
  <2>2. Cardinality(1..n) = n BY <2>1, FS_Interval
  <2> QED BY <2>2 DEF n
<1> QED BY <1>3, <1>4

(* The constants: responses and targets are finitely many, and never None. *)
LEMMA Finite ==
  /\ IsFiniteSet(Responses)
  /\ Targets \subseteq Nat /\ Seconds \subseteq Nat /\ IsFiniteSet(Seconds)
  /\ MaxSecond \in Nat /\ MaxTick \in Nat /\ GapAllow \in Nat
  /\ Capacity \in Nat \ {0} /\ ProcessMax \in Nat \ {0} /\ HistoryMax \in Nat \ {0}
  /\ Horizons \subseteq Nat
  /\ \A n \in Int : n # None
<1>1. IsFiniteSet(Responses)
  BY ShockResponsesAssumption, FS_Product DEF Responses
<1>2. MaxSecond \in Nat /\ MaxTick \in Nat /\ GapAllow \in Nat
  BY ShockResponsesAssumption
<1>3. Seconds \subseteq Nat /\ IsFiniteSet(Seconds)
  BY <1>2, FS_Interval DEF Seconds
<1>4. Targets \subseteq Nat
  BY <1>3, ShockResponsesAssumption DEF Targets
<1> QED BY <1>1, <1>2, <1>3, <1>4, ShockResponsesAssumption

(* A set of naturals that is not empty has a least element, which Min chooses. *)
LEMMA MinIs ==
  ASSUME NEW T \in SUBSET Nat, T # {}
  PROVE  Min(T) \in T /\ \A y \in T : Min(T) <= y
<1>1. PICK x \in T : \A y \in T : ~(<<y, x>> \in OpToRel(<, Nat))
  BY NatLessThanWellFounded, WFMin, Zenon
<1>2. ASSUME NEW y \in T PROVE x <= y
  <2>1. ~(y < x) BY <1>1 DEF OpToRel
  <2> QED BY <2>1
<1> QED BY <1>2 DEF Min

(* A set of seconds that is not empty has a greatest element, which Max chooses. *)
LEMMA MaxIs ==
  ASSUME NEW T \in SUBSET Seconds, T # {}
  PROVE  Max(T) \in T /\ \A y \in T : y <= Max(T)
<1> DEFINE U == {MaxSecond - x : x \in T}
<1>0. MaxSecond \in Nat BY Finite
<1>1. \A x \in T : x \in Nat /\ x <= MaxSecond /\ MaxSecond - x \in Nat
  BY <1>0 DEF Seconds
<1>2. U \in SUBSET Nat /\ U # {}
  BY <1>1
<1>3. PICK u \in U : \A v \in U : u <= v
  <2> HIDE DEF U
  <2> QED BY <1>2, MinIs
<1>4. PICK x \in T : u = MaxSecond - x OBVIOUS
<1>5. \A y \in T : MaxSecond - x <= MaxSecond - y BY <1>3, <1>4
<1>6. \A y \in T : y <= x BY <1>0, <1>1, <1>5
<1>7. \A y \in T : x >= y BY <1>1, <1>6
<1>8. \E z \in T : \A y \in T : z >= y BY <1>7
<1>9. Max(T) \in T /\ \A y \in T : Max(T) >= y BY <1>8 DEF Max
<1> QED BY <1>1, <1>9
-----------------------------------------------------------------------------
(* A response is a shock and a horizon. *)
LEMMA ResponseIs ==
  ASSUME NEW r \in Responses
  PROVE  r[1] \in Ids /\ r[2] \in Horizons /\ r = <<r[1], r[2]>>
BY DEF Responses

(* None is no second, so a shock that was handled is not NoShock. *)
LEMMA NoneIsNoSecond ==
  /\ \A n \in Int : n # None
  /\ \A s \in Seconds, b \in BOOLEAN : [trigger |-> s, known |-> b] # NoShock
<1>1. \A n \in Int : n # None BY ShockResponsesAssumption
<1>2. \A s \in Seconds : s # None BY <1>1, Finite
<1> QED BY <1>1, <1>2 DEF NoShock

(* A response on its way is of a shock that was handled. *)
LEMMA OnTheWayHandled ==
  ASSUME IInv, NEW r \in InWaiting \cup InChannel
  PROVE  r \in Responses /\ Handled(r)
<1>0. TypeOK /\ Queues /\ OnePlace BY DEF IInv
<1>1. CASE r \in InWaiting BY <1>0, <1>1 DEF OnePlace, InWaiting
<1>2. CASE r \in InChannel
  <2>1. channel \in Seq(Responses) BY <1>0 DEF TypeOK
  <2>2. r \in Responses BY <1>2, <2>1, ElementOfSeq DEF InChannel, Elements
  <2> QED BY <1>0, <1>2, <2>2 DEF Queues
<1> QED BY <1>1, <1>2

(* The seconds of the responses of a shock that was handled. *)
LEMMA HandledSeconds ==
  ASSUME IInv, NEW r \in Responses, Handled(r)
  PROVE  Trigger(r) \in Seconds /\ Trigger(r) \in Nat /\ Target(r) \in Nat
<1>1. r[1] \in Ids /\ r[2] \in Horizons BY ResponseIs
<1>2. Trigger(r) \in Seconds BY <1>1 DEF IInv, Triggers, Handled, Trigger
<1>3. Trigger(r) \in Nat /\ r[2] \in Nat BY <1>1, <1>2, Finite
<1> QED BY <1>2, <1>3 DEF Target

(* What was built stays what it was while its shock keeps its trigger. *)
LEMMA BothSidesKept ==
  ASSUME FromBothSides, answers' = answers,
         \A r \in Responses : answers[r].built > 0 => Trigger(r)' = Trigger(r)
  PROVE  FromBothSides'
BY DEF FromBothSides, Target

(* The initial state. *)
LEMMA InitInv == Init => IInv
<1> SUFFICES ASSUME Init PROVE IInv OBVIOUS
<1>1. /\ shocks = [i \in Ids |-> NoShock] /\ waiting = [t \in Targets |-> <<>>] /\ count = 0
      /\ flushing = [targets |-> {}, done |-> 0] /\ channel = <<>> /\ history = <<>>
      /\ tick = 0 /\ answers = [r \in Responses |-> NoAnswer]
  BY DEF Init, Idle
<1>2. NoShock \in [trigger : Seconds \cup {None}, known : BOOLEAN]
  BY DEF NoShock
<1>3. <<>> \in Seq(Responses) /\ <<>> \in Seq(Seconds) /\ Len(<<>>) = 0
  BY EmptySeq
<1>4. TypeOK
  <2>1. shocks \in [Ids -> [trigger : Seconds \cup {None}, known : BOOLEAN]] BY <1>1, <1>2
  <2>2. waiting \in [Targets -> Seq(Responses)] BY <1>1, <1>3
  <2>3. flushing \in [targets : SUBSET Targets, done : 0..ProcessMax]
    BY <1>1, Finite
  <2>4. tick \in 0..MaxTick BY <1>1, Finite
  <2>5. Len(channel) <= Capacity /\ Len(history) <= HistoryMax BY <1>1, <1>3, Finite
  <2> QED BY <1>1, <1>3, <2>1, <2>2, <2>3, <2>4, <2>5 DEF TypeOK
<1>5. NoAnswer \in AnswerType /\ NoAnswer.built = 0
  BY DEF NoAnswer, AnswerType
<1>6. Elements(<<>>) = {} /\ Distinct(<<>>)
  BY <1>3 DEF Elements, Distinct
<1>7. InWaiting = {} /\ InChannel = {} /\ \A r \in Responses : ~Handled(r)
  BY <1>1, <1>6, ResponseIs DEF InWaiting, InChannel, Handled
<1>8. Queues
  BY <1>1, <1>6, <1>7 DEF Queues
<1>9. OnePlace /\ FromBothSides
  BY <1>1, <1>5, <1>7 DEF OnePlace, FromBothSides
<1>10. Counted /\ Triggers BY <1>1, <1>7, FS_EmptySet DEF Counted, Triggers
<1> QED BY <1>1, <1>4, <1>5, <1>8, <1>9, <1>10 DEF IInv

(* The aggregator's task gets a bar, and nothing else changes. *)
LEMMA StoreBarInv ==
  ASSUME IInv, NEW s \in Seconds, StoreBar(s)
  PROVE  IInv'
<1>0. TypeOK BY DEF IInv
<1>1. UNCHANGED <<shocks, waiting, count, flushing, channel, tick, answers>>
  BY DEF StoreBar
<1>2. history' \in Seq(Seconds) /\ Len(history') <= HistoryMax
  <2> DEFINE h == Append(history, s)
  <2>1. history \in Seq(Seconds) /\ Len(history) \in Nat /\ Len(history) <= HistoryMax
    BY <1>0, LenProperties DEF TypeOK
  <2>2. h \in Seq(Seconds) /\ h # <<>> /\ Len(h) = Len(history) + 1
    BY <2>1, AppendProperties
  <2>3. history' = IF Len(h) > HistoryMax THEN Tail(h) ELSE h BY DEF StoreBar
  <2> HIDE DEF h
  <2>4. Tail(h) \in Seq(Seconds) /\ Len(Tail(h)) = Len(h) - 1
    BY <2>2, HeadTailProperties
  <2> QED BY <2>1, <2>2, <2>3, <2>4, Finite
<1>3. TypeOK' BY <1>0, <1>1, <1>2 DEF TypeOK
<1> QED BY <1>1, <1>3
        DEF IInv, Triggers, Queues, OnePlace, Counted, FromBothSides, Handled, Target, Trigger,
            InWaiting, InChannel

(* flush_pending begins, with targets that are due and have responses. *)
LEMMA TickInv ==
  ASSUME IInv, NEW t \in 1..MaxTick, Tick(t)
  PROVE  IInv'
<1>0. TypeOK /\ tick \in Nat /\ Targets \subseteq Nat
  BY Finite DEF IInv, TypeOK
<1>1. /\ UNCHANGED <<shocks, waiting, count, channel, history, answers>>
      /\ tick' = t /\ tick <= t
      /\ flushing' = [targets |-> Due(t), done |-> 0]
  BY <1>0 DEF Tick
<1>2. TypeOK'
  <2>1. Due(t) \subseteq Targets BY DEF Due
  <2>2. 0 \in 0..ProcessMax BY Finite
  <2>3. flushing' \in [targets : SUBSET Targets, done : 0..ProcessMax]
    BY <1>1, <2>1, <2>2
  <2>4. tick' \in 0..MaxTick BY <1>1, Finite
  <2> QED BY <1>0, <1>1, <2>3, <2>4 DEF TypeOK
<1>3. Queues'
  <2>1. \A u \in flushing'.targets : waiting'[u] # <<>> /\ u <= tick'
    BY <1>1 DEF Due
  <2>2. \A r \in InChannel : Target(r) <= tick => Target(r) <= t
    <3>1. \A r \in InChannel : Target(r) \in Nat
      BY OnTheWayHandled, HandledSeconds
    <3> QED BY <1>0, <1>1, <3>1
  <2> QED BY <1>1, <2>1, <2>2 DEF IInv, Queues, Handled, Target, Trigger, InChannel
<1> QED BY <1>1, <1>2, <1>3
        DEF IInv, Triggers, OnePlace, Counted, FromBothSides, Handled, Target, Trigger,
            InWaiting, InChannel
-----------------------------------------------------------------------------
(* The responses of a shock, one under each second its horizons end in. *)
LEMMA ShockWaits ==
  ASSUME IInv, NEW i \in Ids, NEW s \in Seconds, HandleShock(i, s), NEW t \in Targets
  PROVE  /\ waiting'[t] \in Seq(Responses) /\ Distinct(waiting'[t])
         /\ t - s \in Horizons =>
              Elements(waiting'[t]) = Elements(waiting[t]) \cup {<<i, t - s>>}
         /\ t - s \notin Horizons => Elements(waiting'[t]) = Elements(waiting[t])
<1>1. waiting[t] \in Seq(Responses) /\ Distinct(waiting[t])
  BY DEF IInv, TypeOK, Queues
<1>2. waiting'[t] = IF t - s \in Horizons THEN Append(waiting[t], <<i, t - s>>) ELSE waiting[t]
  BY DEF HandleShock
<1>3. CASE t - s \in Horizons
  <2>1. <<i, t - s>> \in Responses BY <1>3 DEF Responses
  <2>2. <<i, t - s>> \notin Elements(waiting[t])
    <3>1. <<i, t - s>>[1] = i OBVIOUS
    <3>2. shocks[i] = NoShock BY DEF HandleShock
    <3>3. \A r \in Elements(waiting[t]) : Handled(r) BY DEF IInv, Queues
    <3> QED BY <3>1, <3>2, <3>3 DEF Handled
  <2> QED BY <1>1, <1>2, <1>3, <2>1, <2>2, AppendElements
<1>4. CASE t - s \notin Horizons
  BY <1>1, <1>2, <1>4
<1> QED BY <1>3, <1>4

(* The shock with its responses. *)
LEMMA HandleShockInv ==
  ASSUME IInv, NEW i \in Ids, NEW s \in Seconds, HandleShock(i, s)
  PROVE  IInv'
<1> DEFINE new == {i} \X Horizons
           rec == [trigger |-> s, known |-> history # <<>>]
<1>0. TypeOK /\ Queues /\ OnePlace /\ Triggers /\ s \in Nat
  BY Finite DEF IInv
<1>1. /\ shocks[i] = NoShock /\ flushing = Idle
      /\ shocks' = [shocks EXCEPT ![i] = rec]
      /\ count' = count + Cardinality(Horizons)
      /\ UNCHANGED <<flushing, channel, history, tick, answers>>
  BY DEF HandleShock, Free, CountAfterShock
<1>2. waiting' \in [Targets -> Seq(Responses)]
  <2>1. waiting' = [t \in Targets |->
                   IF t - s \in Horizons THEN Append(waiting[t], <<i, t - s>>) ELSE waiting[t]]
    BY DEF HandleShock
  <2>2. \A t \in Targets : waiting'[t] \in Seq(Responses) BY ShockWaits
  <2>3. DOMAIN waiting' = Targets BY <2>1
  <2> QED BY <2>1, <2>2
<1>3. rec \in [trigger : Seconds \cup {None}, known : BOOLEAN] /\ rec # NoShock /\ rec.trigger = s
  <2>1. (history # <<>>) \in BOOLEAN OBVIOUS
  <2> QED BY <2>1, NoneIsNoSecond
<1> HIDE DEF rec
<1>4. /\ shocks'[i] = rec /\ \A j \in Ids : j # i => shocks'[j] = shocks[j]
      /\ shocks' \in [Ids -> [trigger : Seconds \cup {None}, known : BOOLEAN]]
  BY <1>0, <1>1, <1>3 DEF TypeOK
<1>5. \A r \in Responses : r[1] = i => r = <<i, r[2]>> /\ r[2] \in Horizons /\ r \in new
  BY ResponseIs
<1>6. \A r \in new : r \in Responses /\ r[1] = i /\ r[2] \in Horizons
  BY DEF Responses
<1>7. \A r \in Responses : r[1] # i => (Handled(r)' <=> Handled(r)) /\ Trigger(r)' = Trigger(r)
                                        /\ Target(r)' = Target(r)
  BY <1>4, ResponseIs DEF Handled, Trigger, Target
<1>8. \A r \in new : ~Handled(r) /\ Handled(r)' /\ Target(r)' = s + r[2]
  BY <1>1, <1>3, <1>4, <1>6 DEF Handled, Trigger, Target
<1>9. \A r \in Responses : r \notin new => r[1] # i
  BY <1>5
<1>10. InWaiting' = InWaiting \cup new
  <2>1. ASSUME NEW r \in InWaiting' PROVE r \in InWaiting \cup new
    <3>1. PICK t \in Targets : r \in Elements(waiting'[t]) BY DEF InWaiting
    <3>2. r \in Responses BY DEF InWaiting
    <3>3. t - s \in Horizons => <<i, t - s>> \in new OBVIOUS
    <3> HIDE DEF new
    <3> QED BY <3>1, <3>2, <3>3, ShockWaits DEF InWaiting
  <2>2. ASSUME NEW r \in InWaiting PROVE r \in InWaiting'
    <3>1. PICK t \in Targets : r \in Elements(waiting[t]) BY DEF InWaiting
    <3>2. r \in Responses BY DEF InWaiting
    <3>3. r \in Elements(waiting'[t]) BY <3>1, ShockWaits
    <3> QED BY <3>2, <3>3 DEF InWaiting
  <2>3. ASSUME NEW r \in new PROVE r \in InWaiting'
    <3>1. r \in Responses /\ r[2] \in Horizons /\ r = <<i, r[2]>> BY <1>5, <1>6
    <3>2. s + r[2] \in Targets /\ (s + r[2]) - s = r[2]
      <4>1. r[2] \in Nat BY <3>1, Finite
      <4> QED BY <1>0, <3>1, <4>1 DEF Targets
    <3>3. r \in Elements(waiting'[s + r[2]])
      <4>1. Elements(waiting'[s + r[2]]) = Elements(waiting[s + r[2]]) \cup {<<i, r[2]>>}
        BY <3>1, <3>2, ShockWaits
      <4> QED BY <3>1, <4>1
    <3> QED BY <3>1, <3>2, <3>3 DEF InWaiting
  <2> HIDE DEF new
  <2> QED BY <2>1, <2>2, <2>3
<1>11. /\ \A r \in InWaiting \cup InChannel : r \in Responses /\ Handled(r) /\ r \notin new
       /\ InChannel' = InChannel
  <2>1. InChannel' = InChannel BY <1>1 DEF InChannel
  <2>2. \A r \in InWaiting \cup InChannel : r \in Responses /\ Handled(r)
    BY OnTheWayHandled
  <2> HIDE DEF new
  <2> QED BY <1>8, <2>1, <2>2
<1>12. TypeOK'
  <2>1. count' \in Nat
    BY <1>0, <1>1, ShockResponsesAssumption, FS_CardinalityType DEF TypeOK
  <2> QED BY <1>0, <1>1, <1>2, <1>4, <2>1 DEF TypeOK
<1>13. Triggers'
  BY <1>0, <1>3, <1>4 DEF Triggers
<1>14. Queues'
  <2>1. \A t \in Targets : Distinct(waiting'[t]) BY ShockWaits
  <2>2. ASSUME NEW t \in Targets, NEW r \in Elements(waiting'[t])
        PROVE  Handled(r)' /\ Target(r)' = t
    <3>1. CASE r \in Elements(waiting[t])
      <4>1. Handled(r) /\ Target(r) = t BY <1>0, <3>1 DEF Queues
      <4>2. waiting[t] \in Seq(Responses) BY <1>0 DEF TypeOK
      <4>3. r \in Responses BY <3>1, <4>2, ElementOfSeq DEF Elements
      <4>4. r \notin new BY <1>8, <4>1
      <4> QED BY <1>7, <1>9, <4>1, <4>3, <4>4
    <3>2. CASE t - s \in Horizons /\ r = <<i, t - s>>
      <4>1. r \in new /\ r[2] = t - s BY <3>2
      <4>2. t \in Nat /\ s + (t - s) = t BY <1>0, Finite
      <4> QED BY <1>8, <4>1, <4>2
    <3> QED BY <3>1, <3>2, ShockWaits
  <2>3. \A r \in InChannel' : Handled(r)' /\ Target(r)' <= tick'
    <3> HIDE DEF new
    <3> QED BY <1>0, <1>1, <1>7, <1>9, <1>11 DEF Queues
  <2>4. \A u \in flushing'.targets : waiting'[u] # <<>> /\ u <= tick'
    BY <1>1 DEF Idle
  <2>5. Distinct(channel') BY <1>0, <1>1 DEF Queues
  <2> QED BY <2>1, <2>2, <2>3, <2>4, <2>5 DEF Queues
<1>15. OnePlace'
  <2> SUFFICES ASSUME NEW r \in Responses
      PROVE  /\ answers'[r].built \in {0, 1}
             /\ Handled(r)' <=> r \in InWaiting' \/ r \in InChannel' \/ answers'[r].built = 1
             /\ r \in InWaiting' => r \notin InChannel' /\ answers'[r].built = 0
             /\ r \in InChannel' => answers'[r].built = 0
    BY DEF OnePlace
  <2> HIDE DEF new
  <2>1. CASE r \in new BY <1>0, <1>1, <1>8, <1>10, <1>11, <2>1 DEF OnePlace
  <2>2. CASE r \notin new
    <3>1. Handled(r)' <=> Handled(r) BY <1>7, <1>9, <2>2
    <3> QED BY <1>0, <1>1, <1>10, <1>11, <2>2, <3>1 DEF OnePlace
  <2> QED BY <2>1, <2>2
<1>16. Counted'
  <2>1. IsFiniteSet(new) /\ Cardinality(new) = Cardinality(Horizons)
    <3>1. IsFiniteSet(Horizons) BY ShockResponsesAssumption
    <3>2. IsFiniteSet({i}) /\ Cardinality({i}) = 1 BY FS_Singleton
    <3>3. Cardinality(Horizons) \in Nat BY <3>1, FS_CardinalityType
    <3>4. IsFiniteSet(new) /\ Cardinality(new) = Cardinality({i}) * Cardinality(Horizons)
      BY <3>1, <3>2, FS_Product
    <3> QED BY <3>2, <3>3, <3>4
  <2>2. IsFiniteSet(InWaiting)
    <3>1. InWaiting \in SUBSET Responses BY DEF InWaiting
    <3> QED BY <3>1, Finite, FS_Subset
  <2> HIDE DEF new
  <2>3. InWaiting \cap new = {} BY <1>11
  <2>4. Cardinality(InWaiting \cup new)
          = Cardinality(InWaiting) + Cardinality(new) - Cardinality(InWaiting \cap new)
    BY <2>1, <2>2, FS_Union
  <2>5. Cardinality(InWaiting \cap new) = 0 BY <2>3, FS_EmptySet, Zenon
  <2>6. Cardinality(InWaiting) \in Nat /\ Cardinality(new) \in Nat
    BY <2>1, <2>2, FS_CardinalityType
  <2>7. Cardinality(InWaiting') = Cardinality(InWaiting) + Cardinality(Horizons)
    BY <1>10, <2>1, <2>4, <2>5, <2>6
  <2> QED BY <1>1, <2>7 DEF Counted, IInv
<1>17. FromBothSides'
  <2>1. ASSUME NEW r \in Responses, answers[r].built > 0 PROVE Trigger(r)' = Trigger(r)
    <3>1. answers[r].built = 1 BY <1>0, <2>1 DEF OnePlace
    <3>2. Handled(r) BY <1>0, <3>1 DEF OnePlace
    <3>3. r \notin new BY <1>8, <3>2
    <3> QED BY <1>7, <1>9, <3>3
  <2> QED BY <1>1, <2>1, BothSidesKept DEF IInv
<1>18. answers' \in [Responses -> AnswerType]
  BY <1>1 DEF IInv
<1> QED BY <1>12, <1>13, <1>14, <1>15, <1>16, <1>17, <1>18 DEF IInv
-----------------------------------------------------------------------------
(* The response handed over is the first of the earliest target. *)
LEMMA HandOverStep ==
  ASSUME IInv, HandOver
  PROVE  \E u \in flushing.targets : \E x \in Elements(waiting[u]) :
           /\ channel' = Append(channel, x)
           /\ waiting' \in [Targets -> Seq(Responses)]
           /\ Elements(waiting'[u]) = Elements(waiting[u]) \ {x} /\ Distinct(waiting'[u])
           /\ \A t \in Targets \ {u} : waiting'[t] = waiting[t]
           /\ flushing' \in [targets : SUBSET Targets, done : 0..ProcessMax]
           /\ \A v \in flushing'.targets : v \in flushing.targets /\ waiting'[v] # <<>>
<1> DEFINE u == Current
           x == Head(waiting[u])
<1>0. /\ TypeOK /\ Queues /\ flushing.targets \in SUBSET Targets
      /\ Targets \subseteq Nat /\ flushing.targets # {}
      /\ flushing.done \in 0..ProcessMax /\ flushing.done < ProcessMax
  BY Finite DEF IInv, TypeOK, HandOver
<1>1. u \in flushing.targets /\ u \in Targets
  <2>1. flushing.targets \in SUBSET Nat BY <1>0
  <2> QED BY <1>0, <2>1, MinIs DEF Current
<1>2. /\ channel' = Append(channel, x)
      /\ waiting' = [waiting EXCEPT ![u] = Tail(waiting[u])]
  BY DEF HandOver, Remaining
<1>3. flushing' = IF flushing.targets = {u} /\ waiting'[u] = <<>>
                  THEN [targets |-> {}, done |-> 0]
                  ELSE [targets |-> IF waiting'[u] = <<>> THEN flushing.targets \ {u}
                                    ELSE flushing.targets,
                        done |-> flushing.done + 1]
  BY DEF HandOver, Idle
<1> HIDE DEF u
<1>4. waiting[u] \in Seq(Responses) /\ waiting[u] # <<>> /\ Distinct(waiting[u])
  BY <1>0, <1>1 DEF TypeOK, Queues
<1>5. /\ x \in Elements(waiting[u]) /\ Tail(waiting[u]) \in Seq(Responses)
      /\ Elements(Tail(waiting[u])) = Elements(waiting[u]) \ {x}
      /\ Distinct(Tail(waiting[u]))
  BY <1>4, TailElements
<1> HIDE DEF x
<1>6. /\ waiting' \in [Targets -> Seq(Responses)] /\ waiting'[u] = Tail(waiting[u])
      /\ \A t \in Targets \ {u} : waiting'[t] = waiting[t]
  BY <1>0, <1>1, <1>2, <1>5 DEF TypeOK
<1>7. flushing' \in [targets : SUBSET Targets, done : 0..ProcessMax]
  <2>1. flushing.done + 1 \in 0..ProcessMax /\ 0 \in 0..ProcessMax BY <1>0, Finite
  <2>2. flushing.targets \ {u} \in SUBSET Targets BY <1>0
  <2> QED BY <1>0, <1>3, <2>1, <2>2
<1>8. flushing'.targets = {} \/ (waiting'[u] = <<>> /\ flushing'.targets = flushing.targets \ {u})
        \/ (waiting'[u] # <<>> /\ flushing'.targets = flushing.targets)
  BY <1>3
<1>9. \A v \in flushing'.targets : v \in flushing.targets /\ waiting'[v] # <<>>
  <2>1. \A v \in flushing.targets \ {u} : waiting'[v] = waiting[v] /\ waiting[v] # <<>>
    BY <1>0, <1>6 DEF Queues
  <2> QED BY <1>8, <2>1
<1> QED BY <1>1, <1>2, <1>5, <1>6, <1>7, <1>9

(* A response goes from its target to the channel. *)
LEMMA HandOverInv == IInv /\ HandOver => IInv'
<1> SUFFICES ASSUME IInv, HandOver PROVE IInv' OBVIOUS
<1>0. /\ TypeOK /\ Queues /\ OnePlace /\ Triggers /\ FromBothSides
      /\ flushing.targets \in SUBSET Targets /\ count = Cardinality(InWaiting)
  BY DEF IInv, TypeOK, Counted
<1>1. PICK u \in flushing.targets : \E x \in Elements(waiting[u]) :
           /\ channel' = Append(channel, x)
           /\ waiting' \in [Targets -> Seq(Responses)]
           /\ Elements(waiting'[u]) = Elements(waiting[u]) \ {x} /\ Distinct(waiting'[u])
           /\ \A t \in Targets \ {u} : waiting'[t] = waiting[t]
           /\ flushing' \in [targets : SUBSET Targets, done : 0..ProcessMax]
           /\ \A v \in flushing'.targets : v \in flushing.targets /\ waiting'[v] # <<>>
  BY HandOverStep
<1>2. PICK x \in Elements(waiting[u]) :
           /\ channel' = Append(channel, x)
           /\ waiting' \in [Targets -> Seq(Responses)]
           /\ Elements(waiting'[u]) = Elements(waiting[u]) \ {x} /\ Distinct(waiting'[u])
           /\ \A t \in Targets \ {u} : waiting'[t] = waiting[t]
           /\ flushing' \in [targets : SUBSET Targets, done : 0..ProcessMax]
           /\ \A v \in flushing'.targets : v \in flushing.targets /\ waiting'[v] # <<>>
  BY <1>1
<1>3. UNCHANGED <<shocks, history, tick, answers>> /\ count' = count - 1 /\ Len(channel) < Capacity
  BY DEF HandOver, Room
<1>4. u \in Targets /\ Handled(x) /\ Target(x) = u /\ u <= tick
  BY <1>0 DEF Queues
<1>5. x \in Responses /\ x \in InWaiting
  <2>1. waiting[u] \in Seq(Responses) BY <1>0, <1>4 DEF TypeOK
  <2>2. x \in Responses BY <2>1, ElementOfSeq DEF Elements
  <2> QED BY <1>4, <2>2 DEF InWaiting
<1>6. x \notin InChannel /\ answers[x].built = 0 BY <1>0, <1>5 DEF OnePlace
<1>7. /\ channel' \in Seq(Responses) /\ Len(channel') = Len(channel) + 1 /\ Distinct(channel')
      /\ InChannel' = InChannel \cup {x} /\ Len(channel) \in Nat
  <2>1. channel \in Seq(Responses) /\ Distinct(channel) /\ x \notin Elements(channel)
    BY <1>0, <1>6 DEF TypeOK, Queues, InChannel
  <2>2. Elements(channel') = Elements(channel) \cup {x} /\ channel' \in Seq(Responses)
        /\ Len(channel') = Len(channel) + 1 /\ Distinct(channel')
    BY <1>2, <1>5, <2>1, AppendElements
  <2> QED BY <2>1, <2>2, LenProperties DEF InChannel
<1>8. InWaiting' = InWaiting \ {x}
  <2>1. ASSUME NEW t \in Targets PROVE Elements(waiting'[t]) = Elements(waiting[t]) \ {x}
    <3>1. CASE t = u BY <1>2, <3>1
    <3>2. CASE t # u
      <4>1. x \notin Elements(waiting[t]) BY <1>0, <1>4, <3>2 DEF Queues
      <4>2. waiting'[t] = waiting[t] BY <1>2, <3>2
      <4> QED BY <4>1, <4>2
    <3> QED BY <3>1, <3>2
  <2> QED BY <2>1 DEF InWaiting
<1>9. count' = Cardinality(InWaiting') /\ count' \in Nat
  <2>1. InWaiting \in SUBSET Responses BY DEF InWaiting
  <2>2. IsFiniteSet(InWaiting) BY <2>1, Finite, FS_Subset
  <2>3. IsFiniteSet(InWaiting \ {x}) /\ Cardinality(InWaiting \ {x}) = Cardinality(InWaiting) - 1
    BY <1>5, <2>2, FS_RemoveElement
  <2>4. Cardinality(InWaiting \ {x}) \in Nat BY <2>3, FS_CardinalityType
  <2> QED BY <1>0, <1>3, <1>8, <2>3, <2>4
<1>10. TypeOK'
  <2>1. Len(channel') <= Capacity BY <1>3, <1>7, Finite
  <2> QED BY <1>0, <1>2, <1>3, <1>7, <1>9, <2>1 DEF TypeOK
<1>11. \A r \in Responses : (Handled(r)' <=> Handled(r)) /\ Target(r)' = Target(r)
                             /\ Trigger(r)' = Trigger(r)
  BY <1>3 DEF Handled, Target, Trigger
<1>12. Queues'
  <2>1. ASSUME NEW t \in Targets
        PROVE  Distinct(waiting'[t]) /\ Elements(waiting'[t]) \subseteq Elements(waiting[t])
    <3>1. CASE t = u BY <1>2, <3>1
    <3>2. CASE t # u BY <1>0, <1>2, <3>2 DEF Queues
    <3> QED BY <3>1, <3>2
  <2>2. ASSUME NEW t \in Targets, NEW r \in Elements(waiting'[t])
        PROVE  Handled(r)' /\ Target(r)' = t
    <3>1. r \in Elements(waiting[t]) /\ waiting[t] \in Seq(Responses)
      BY <1>0, <2>1 DEF TypeOK
    <3>2. r \in Responses BY <3>1, ElementOfSeq DEF Elements
    <3> QED BY <1>0, <1>11, <3>1, <3>2 DEF Queues
  <2>3. \A r \in InChannel' : Handled(r)' /\ Target(r)' <= tick'
    <3>1. \A r \in InChannel : r \in Responses BY OnTheWayHandled
    <3> QED BY <1>0, <1>3, <1>4, <1>5, <1>7, <1>11, <3>1 DEF Queues
  <2>4. \A v \in flushing'.targets : waiting'[v] # <<>> /\ v <= tick'
    BY <1>0, <1>2, <1>3 DEF Queues
  <2> QED BY <1>7, <2>1, <2>2, <2>3, <2>4 DEF Queues
<1>13. OnePlace'
  BY <1>0, <1>3, <1>5, <1>6, <1>7, <1>8, <1>11 DEF OnePlace
<1>14. FromBothSides'
  BY <1>0, <1>3, <1>11, BothSidesKept
<1> QED BY <1>0, <1>3, <1>9, <1>10, <1>12, <1>13, <1>14 DEF IInv, Triggers, Counted

(* flush_pending ends early. *)
LEMMA GiveUpInv == IInv /\ GiveUp => IInv'
<1> SUFFICES ASSUME IInv, GiveUp PROVE IInv' OBVIOUS
<1>1. /\ UNCHANGED <<shocks, waiting, count, channel, history, tick, answers>>
      /\ flushing' = [targets |-> {}, done |-> 0]
  BY DEF GiveUp, Idle
<1>2. TypeOK'
  <2>1. flushing' \in [targets : SUBSET Targets, done : 0..ProcessMax] BY <1>1, Finite
  <2> QED BY <1>1, <2>1 DEF IInv, TypeOK
<1>3. Queues'
  BY <1>1 DEF IInv, Queues, Handled, Target, Trigger, InChannel
<1> QED BY <1>1, <1>2, <1>3
        DEF IInv, Triggers, OnePlace, Counted, FromBothSides, Handled, Target, Trigger,
            InWaiting, InChannel
-----------------------------------------------------------------------------
(* A bar found by looking back is of the second or up to GapAllow before it. *)
LEMMA LookbackIs ==
  ASSUME TypeOK, NEW s \in Nat
  PROVE  /\ Bars \subseteq Seconds
         /\ Lookback(s) = None \/ (Lookback(s) \in Bars /\ s - GapAllow <= Lookback(s)
                                     /\ Lookback(s) <= s)
<1>1. Bars \subseteq Seconds
  <2>1. history \in Seq(Seconds) BY DEF TypeOK
  <2>2. \A n \in DOMAIN history : history[n] \in Seconds
    BY <2>1, LenProperties, ElementOfSeq
  <2> QED BY <2>2 DEF Bars
<1> DEFINE found == {b \in Bars : s - GapAllow <= b /\ b <= s}
<1>2. Lookback(s) = IF found = {} THEN None ELSE Max(found)
  BY DEF Lookback
<1>3. found \in SUBSET Seconds BY <1>1
<1>4. found # {} => Max(found) \in found
  <2> HIDE DEF found
  <2> QED BY <1>3, MaxIs
<1> QED BY <1>1, <1>2, <1>4

(* The answer of a response that is due. *)
LEMMA AnswerIs ==
  ASSUME IInv, NEW r \in Responses, Handled(r), Target(r) <= tick
  PROVE  LET a == Answer(r) IN
         /\ a \in AnswerType /\ a.built = answers[r].built + 1
         /\ Target(r) <= a.at
         /\ a.base # None => a.base <= Trigger(r)
         /\ a.end # None => a.end <= Target(r)
         /\ \A b \in a.between : Trigger(r) < b /\ b <= Target(r)
         /\ a.end # None /\ r[2] > GapAllow => Trigger(r) < a.end /\ a.end \in a.between
<1> DEFINE a == Answer(r)
<1>0. TypeOK /\ answers[r].built \in Nat /\ tick \in Int
  BY DEF IInv, TypeOK, AnswerType
<1>1. /\ Trigger(r) \in Nat /\ Target(r) \in Nat /\ r[2] \in Nat /\ GapAllow \in Nat
      /\ Target(r) = Trigger(r) + r[2]
  BY HandledSeconds, ResponseIs, Finite DEF Target
<1>2. /\ Bars \subseteq Seconds /\ Seconds \subseteq Nat
      /\ Lookback(Trigger(r)) = None \/ (Lookback(Trigger(r)) \in Bars
                                          /\ Lookback(Trigger(r)) <= Trigger(r))
      /\ Lookback(Target(r)) = None \/ (Lookback(Target(r)) \in Bars
                                         /\ Target(r) - GapAllow <= Lookback(Target(r))
                                         /\ Lookback(Target(r)) <= Target(r))
  BY <1>0, <1>1, LookbackIs, Finite
<1>3. /\ a.built = answers[r].built + 1 /\ a.at = tick
      /\ a.base \in {None, Lookback(Trigger(r))} /\ a.end \in {None, Lookback(Target(r))}
      /\ a.between \in {{}, Between(r)}
      /\ a.end # None => a.end = Lookback(Target(r)) /\ a.between = Between(r)
      /\ a = [built |-> a.built, at |-> a.at, base |-> a.base, end |-> a.end,
              between |-> a.between]
  BY DEF Answer
<1> HIDE DEF a
<1>4. Bars \subseteq Int /\ Between(r) \subseteq Int
      /\ \A b \in Between(r) : Trigger(r) < b /\ b <= Target(r)
  <2>1. Bars \subseteq Int
    <3>1. Bars \subseteq Nat BY <1>2, Zenon
    <3> QED BY <3>1
  <2> QED BY <2>1 DEF Between
<1>5. /\ a.base \in Int \cup {None} /\ a.end \in Int \cup {None} /\ a.between \in SUBSET Int
      /\ a.built \in Nat /\ a.at \in Int
  <2>1. /\ Lookback(Trigger(r)) \in Int \cup {None}
        /\ Lookback(Target(r)) \in Int \cup {None}
    BY <1>2, <1>4
  <2>2. a.base \in Int \cup {None} /\ a.end \in Int \cup {None}
    BY <1>3, <2>1
  <2>3. a.between \in SUBSET Int
    BY <1>3, <1>4
  <2>4. a.built \in Nat /\ a.at \in Int
    BY <1>0, <1>3
  <2> QED BY <2>2, <2>3, <2>4
<1>6. a \in AnswerType
  BY <1>3, <1>5 DEF AnswerType
<1>7. a.base # None => a.base <= Trigger(r)
  BY <1>2, <1>3
<1>8. ASSUME a.end # None
      PROVE  /\ a.end <= Target(r)
             /\ r[2] > GapAllow => a.end \in a.between /\ Trigger(r) < a.end
  <2>1. a.end = Lookback(Target(r)) /\ Lookback(Target(r)) # None /\ a.between = Between(r)
    BY <1>3, <1>8
  <2>2. /\ a.end \in Bars /\ a.end \in Int /\ Target(r) - GapAllow <= a.end
        /\ a.end <= Target(r)
    BY <1>2, <1>4, <2>1
  <2>3. r[2] > GapAllow => Trigger(r) < a.end BY <1>1, <2>2
  <2> QED BY <2>1, <2>2, <2>3 DEF Between
<1>9. \A b \in a.between : Trigger(r) < b /\ b <= Target(r)
  BY <1>3, <1>4
<1>10. Target(r) <= a.at BY <1>3
<1> QED BY <1>3, <1>6, <1>7, <1>8, <1>9, <1>10 DEF a

(* The worker answers the first response of its channel. *)
LEMMA WorkInv == IInv /\ Work => IInv'
<1> SUFFICES ASSUME IInv, Work PROVE IInv' OBVIOUS
<1> DEFINE x == Head(channel)
           a == Answer(x)
<1>0. TypeOK /\ Queues /\ OnePlace /\ Triggers /\ FromBothSides
      /\ answers \in [Responses -> AnswerType]
  BY DEF IInv
<1>1. /\ channel # <<>> /\ channel' = Tail(channel)
      /\ answers' = [answers EXCEPT ![x] = a]
      /\ UNCHANGED <<shocks, waiting, count, flushing, history, tick>>
  BY DEF Work
<1>2. /\ channel \in Seq(Responses) /\ Distinct(channel) /\ Len(channel) <= Capacity
  BY <1>0 DEF TypeOK, Queues
<1>3. /\ x \in Responses /\ x \in InChannel /\ channel' \in Seq(Responses)
      /\ Len(channel') = Len(channel) - 1 /\ Len(channel) \in Nat
      /\ InChannel' = InChannel \ {x} /\ Distinct(channel')
  BY <1>1, <1>2, TailElements DEF InChannel
<1> HIDE DEF x
<1>4. Handled(x) /\ Target(x) <= tick
  BY <1>0, <1>3 DEF Queues
<1>5. /\ a \in AnswerType /\ a.built = answers[x].built + 1
      /\ Target(x) <= a.at
      /\ a.base # None => a.base <= Trigger(x)
      /\ a.end # None => a.end <= Target(x)
      /\ \A b \in a.between : Trigger(x) < b /\ b <= Target(x)
      /\ a.end # None /\ x[2] > GapAllow => Trigger(x) < a.end /\ a.end \in a.between
  BY <1>3, <1>4, AnswerIs
<1> HIDE DEF a
<1>6. /\ answers' \in [Responses -> AnswerType] /\ answers'[x] = a
      /\ \A r \in Responses : r # x => answers'[r] = answers[r]
  BY <1>0, <1>1, <1>3, <1>5
<1>7. answers[x].built = 0 /\ x \notin InWaiting /\ a.built = 1
  <2>1. answers[x].built = 0 /\ x \notin InWaiting BY <1>0, <1>3 DEF OnePlace
  <2> QED BY <1>5, <2>1
<1>8. TypeOK'
  <2>1. Len(channel') <= Capacity BY <1>2, <1>3, Finite
  <2>2. DOMAIN answers' = Responses BY <1>6
  <2> QED BY <1>0, <1>1, <1>3, <2>1, <2>2 DEF TypeOK
<1>9. InWaiting' = InWaiting BY <1>1 DEF InWaiting
<1>10. \A r \in Responses : (Handled(r)' <=> Handled(r)) /\ Target(r)' = Target(r)
                             /\ Trigger(r)' = Trigger(r)
  BY <1>1 DEF Handled, Target, Trigger
<1>11. Queues'
  <2>1. \A t \in Targets : \A r \in Elements(waiting[t]) : r \in Responses
    <3>1. \A t \in Targets : waiting[t] \in Seq(Responses) BY <1>0 DEF TypeOK
    <3> QED BY <3>1, ElementOfSeq DEF Elements
  <2>2. \A r \in InChannel : r \in Responses BY OnTheWayHandled
  <2>3. \A t \in Targets : Distinct(waiting'[t])
                            /\ \A r \in Elements(waiting'[t]) : Handled(r)' /\ Target(r)' = t
    BY <1>0, <1>1, <1>10, <2>1 DEF Queues
  <2>4. \A r \in InChannel' : Handled(r)' /\ Target(r)' <= tick'
    BY <1>0, <1>1, <1>3, <1>10, <2>2 DEF Queues
  <2>5. \A u \in flushing'.targets : waiting'[u] # <<>> /\ u <= tick'
    BY <1>0, <1>1 DEF Queues
  <2> QED BY <1>3, <2>3, <2>4, <2>5 DEF Queues
<1>12. OnePlace'
  <2> SUFFICES ASSUME NEW r \in Responses
      PROVE  /\ answers'[r].built \in {0, 1}
             /\ Handled(r)' <=> r \in InWaiting' \/ r \in InChannel' \/ answers'[r].built = 1
             /\ r \in InWaiting' => r \notin InChannel' /\ answers'[r].built = 0
             /\ r \in InChannel' => answers'[r].built = 0
    BY DEF OnePlace
  <2>1. CASE r = x BY <1>3, <1>4, <1>6, <1>7, <1>9, <1>10, <2>1
  <2>2. CASE r # x BY <1>0, <1>3, <1>6, <1>9, <1>10, <2>2 DEF OnePlace
  <2> QED BY <2>1, <2>2
<1>13. FromBothSides'
  <2> SUFFICES ASSUME NEW r \in Responses, answers'[r].built > 0
      PROVE  /\ Target(r)' <= answers'[r].at
             /\ answers'[r].base # None => answers'[r].base <= Trigger(r)'
             /\ answers'[r].end # None => answers'[r].end <= Target(r)'
             /\ \A b \in answers'[r].between : Trigger(r)' < b /\ b <= Target(r)'
             /\ answers'[r].end # None /\ r[2] > GapAllow =>
                  Trigger(r)' < answers'[r].end /\ answers'[r].end \in answers'[r].between
    BY DEF FromBothSides
  <2>1. CASE r = x BY <1>5, <1>6, <1>10, <2>1
  <2>2. CASE r # x BY <1>0, <1>6, <1>10, <2>2 DEF FromBothSides
  <2> QED BY <2>1, <2>2
<1>14. Triggers' /\ Counted'
  BY <1>0, <1>1, <1>9 DEF Triggers, Counted, IInv
<1> QED BY <1>6, <1>8, <1>11, <1>12, <1>13, <1>14 DEF IInv

(* Every step keeps the invariant. *)
LEMMA NextInv == IInv /\ [Next]_vars => IInv'
<1> SUFFICES ASSUME IInv, [Next]_vars PROVE IInv' OBVIOUS
<1>1. CASE \E i \in Ids, s \in Seconds : HandleShock(i, s) BY <1>1, HandleShockInv
<1>2. CASE \E s \in Seconds : StoreBar(s) BY <1>2, StoreBarInv
<1>3. CASE \E t \in 1..MaxTick : Tick(t) BY <1>3, TickInv
<1>4. CASE HandOver BY <1>4, HandOverInv
<1>5. CASE GiveUp BY <1>5, GiveUpInv
<1>6. CASE Work BY <1>6, WorkInv
<1>7. CASE UNCHANGED vars
  BY <1>7 DEF vars, IInv, TypeOK, Triggers, Queues, OnePlace, Counted, FromBothSides,
              Handled, Target, Trigger, InWaiting, InChannel
<1> QED BY <1>1, <1>2, <1>3, <1>4, <1>5, <1>6, <1>7 DEF Next
-----------------------------------------------------------------------------
(* The inductive invariant holds of every behaviour. *)
THEOREM Invariance == Spec => []IInv
BY InitInv, NextInv, PTL DEF Spec

(* Types; the worker's channel never holds more than its capacity and a token's
   history never more than HistoryMax bars. *)
THEOREM ResponseTypes == Spec => []TypeOK
<1>1. IInv => TypeOK BY DEF IInv
<1> QED BY <1>1, Invariance, PTL

(* build_response_from_history answers when the horizon is over, from a bar of before
   the shock and one of after it (if the horizon is longer than the lookback), whatever
   arrives between tick and worker. *)
THEOREM FromBothSidesHolds == Spec => []FromBothSides
<1>1. IInv => FromBothSides BY DEF IInv
<1> QED BY <1>1, Invariance, PTL

(* A thing is at one place at most of a sequence without repetition. *)
LEMMA PlaceInSequence ==
  ASSUME NEW S, NEW s \in Seq(S), Distinct(s), NEW x
  PROVE  Cardinality({n \in DOMAIN s : s[n] = x}) = IF x \in Elements(s) THEN 1 ELSE 0
<1> DEFINE places == {n \in DOMAIN s : s[n] = x}
<1>1. DOMAIN s = 1..Len(s) BY LenProperties
<1>2. CASE x \in Elements(s)
  <2>1. PICK n \in 1..Len(s) : s[n] = x BY <1>2 DEF Elements
  <2>2. places = {n} BY <1>1, <2>1 DEF Distinct
  <2> HIDE DEF places
  <2>3. Cardinality(places) = 1 BY <2>2, FS_Singleton
  <2> QED BY <1>2, <2>3 DEF places
<1>3. CASE x \notin Elements(s)
  <2>1. places = {} BY <1>1, <1>3 DEF Elements
  <2> HIDE DEF places
  <2>2. Cardinality(places) = 0 BY <2>1, FS_EmptySet
  <2> QED BY <1>3, <2>2 DEF places
<1> QED BY <1>2, <1>3

(* The occupied places, told without the bound on their number. *)
LEMMA OccupiedIs ==
  ASSUME IInv
  PROVE  /\ \A p \in Occupied : p[1] \in Targets /\ p[2] \in 1..Len(waiting[p[1]])
                                /\ p = <<p[1], p[2]>>
         /\ \A t \in Targets : \A n \in 1..Len(waiting[t]) : <<t, n>> \in Occupied
<1>1. \A t \in Targets : waiting[t] \in Seq(Responses) /\ Distinct(waiting[t])
  BY DEF IInv, TypeOK, Queues
<1>2. \A t \in Targets : Len(waiting[t]) \in Nat /\ Len(waiting[t]) <= Cardinality(Responses)
  BY <1>1, Finite, LenProperties, DistinctBounded
<1>3. Cardinality(Responses) \in Nat BY Finite, FS_CardinalityType
<1>4. ASSUME NEW p \in Occupied
      PROVE  p[1] \in Targets /\ p[2] \in 1..Len(waiting[p[1]]) /\ p = <<p[1], p[2]>>
  <2>1. /\ p \in Targets \X (1..Cardinality(Responses)) /\ p[2] <= Len(waiting[p[1]])
    BY DEF Occupied
  <2> QED BY <1>2, <1>3, <2>1
<1>5. ASSUME NEW t \in Targets, NEW n \in 1..Len(waiting[t])
      PROVE  <<t, n>> \in Occupied
  <2>1. n \in 1..Cardinality(Responses) /\ n <= Len(waiting[t]) BY <1>2, <1>3
  <2> QED BY <2>1 DEF Occupied
<1> QED BY <1>4, <1>5

(* A response waits at one place at most. *)
LEMMA PlaceWaiting ==
  ASSUME IInv, NEW r \in Responses
  PROVE  Cardinality({p \in Occupied : waiting[p[1]][p[2]] = r})
           = IF r \in InWaiting THEN 1 ELSE 0
<1> DEFINE places == {p \in Occupied : waiting[p[1]][p[2]] = r}
<1>1. \A p \in places : p[1] \in Targets /\ p[2] \in 1..Len(waiting[p[1]])
                        /\ p = <<p[1], p[2]>> /\ waiting[p[1]][p[2]] = r
  BY OccupiedIs
<1>2. CASE r \in InWaiting
  <2>1. PICK t \in Targets : r \in Elements(waiting[t]) BY <1>2 DEF InWaiting
  <2>2. PICK n \in 1..Len(waiting[t]) : waiting[t][n] = r BY <2>1 DEF Elements
  <2>3. <<t, n>> \in places
    <3>1. <<t, n>> \in Occupied BY OccupiedIs
    <3> QED BY <2>2, <3>1
  <2>4. ASSUME NEW p \in places PROVE p = <<t, n>>
    <3>1. r \in Elements(waiting[p[1]]) BY <1>1 DEF Elements
    <3>2. p[1] = t BY <1>1, <2>1, <3>1 DEF IInv, Queues
    <3>3. p[2] = n BY <1>1, <2>2, <3>2 DEF IInv, Queues, Distinct
    <3> QED BY <1>1, <3>2, <3>3
  <2> HIDE DEF places
  <2>5. places = {<<t, n>>} BY <2>3, <2>4
  <2>6. Cardinality(places) = 1 BY <2>5, FS_Singleton
  <2> QED BY <1>2, <2>6 DEF places
<1>3. CASE r \notin InWaiting
  <2>1. \A p \in places : r \in InWaiting BY <1>1 DEF InWaiting, Elements
  <2> HIDE DEF places
  <2>2. places = {} BY <1>3, <2>1
  <2>3. Cardinality(places) = 0 BY <2>2, FS_EmptySet
  <2> QED BY <1>3, <2>3 DEF places
<1> QED BY <1>2, <1>3

(* As many places are occupied as responses wait. *)
LEMMA OccupiedCount ==
  ASSUME IInv
  PROVE  Cardinality(Occupied) = Cardinality(InWaiting)
<1> DEFINE f == [p \in Occupied |-> waiting[p[1]][p[2]]]
<1>1. \A p \in Occupied : p[1] \in Targets /\ p[2] \in 1..Len(waiting[p[1]])
                          /\ p = <<p[1], p[2]>>
  BY OccupiedIs
<1>2. \A t \in Targets : waiting[t] \in Seq(Responses)
  BY DEF IInv, TypeOK
<1>3. \A p \in Occupied : f[p] \in Elements(waiting[p[1]]) /\ f[p] \in InWaiting
  <2> SUFFICES ASSUME NEW p \in Occupied
               PROVE  waiting[p[1]][p[2]] \in Elements(waiting[p[1]])
                      /\ waiting[p[1]][p[2]] \in InWaiting
    OBVIOUS
  <2>1. waiting[p[1]][p[2]] \in Elements(waiting[p[1]]) BY <1>1 DEF Elements
  <2>2. waiting[p[1]][p[2]] \in Responses BY <1>1, <1>2, ElementOfSeq
  <2> QED BY <1>1, <2>1, <2>2 DEF InWaiting
<1>4. ASSUME NEW p \in Occupied, NEW q \in Occupied, f[p] = f[q] PROVE p = q
  <2>1. Target(f[p]) = p[1] /\ Target(f[q]) = q[1]
    <3>1. \A t \in Targets : \A r \in Elements(waiting[t]) : Target(r) = t
      BY DEF IInv, Queues
    <3> HIDE DEF f
    <3> QED BY <1>1, <1>3, <3>1
  <2>2. p[1] = q[1] BY <1>4, <2>1
  <2>3. waiting[p[1]][p[2]] = waiting[p[1]][q[2]] BY <1>4, <2>2
  <2>4. p[2] = q[2] BY <1>1, <2>2, <2>3 DEF IInv, Queues, Distinct
  <2> QED BY <1>1, <2>2, <2>4
<1>5. ASSUME NEW r \in InWaiting PROVE \E p \in Occupied : f[p] = r
  <2>1. PICK t \in Targets : r \in Elements(waiting[t]) BY DEF InWaiting
  <2>2. PICK n \in 1..Len(waiting[t]) : waiting[t][n] = r BY <2>1 DEF Elements
  <2>3. <<t, n>> \in Occupied BY OccupiedIs
  <2>4. f[<<t, n>>] = r BY <2>2, <2>3
  <2> QED BY <2>3, <2>4
<1>6. f \in [Occupied -> InWaiting]
  BY <1>3
<1> HIDE DEF f
<1>7. f \in Bijection(Occupied, InWaiting)
  BY <1>4, <1>5, <1>6 DEF Bijection, Injection, Surjection, IsInjective
<1>8. IsFiniteSet(Occupied)
  <2>1. IsFiniteSet(InWaiting)
    <3>1. InWaiting \in SUBSET Responses BY DEF InWaiting
    <3> QED BY <3>1, Finite, FS_Subset
  <2>2. f \in Injection(Occupied, InWaiting) BY <1>7 DEF Bijection
  <2> QED BY <2>1, <2>2, FS_Injection
<1> QED BY <1>7, <1>8, FS_Bijection DEF ExistsBijection

(* What the invariant says of places, in numbers. *)
LEMMA CountedOnce == IInv => OncePerHorizon
<1> SUFFICES ASSUME IInv PROVE OncePerHorizon OBVIOUS
<1>1. ASSUME NEW r \in Responses
      PROVE  OnTheWay(r) + answers[r].built = IF shocks[r[1]] = NoShock THEN 0 ELSE 1
  <2>1. channel \in Seq(Responses) /\ Distinct(channel) BY DEF IInv, TypeOK, Queues
  <2>2. Cardinality({n \in DOMAIN channel : channel[n] = r})
          = IF r \in InChannel THEN 1 ELSE 0
    BY <2>1, PlaceInSequence DEF InChannel
  <2>3. OnTheWay(r) = (IF r \in InWaiting THEN 1 ELSE 0) + (IF r \in InChannel THEN 1 ELSE 0)
    BY <2>2, PlaceWaiting DEF OnTheWay
  <2>4. /\ answers[r].built \in {0, 1}
        /\ Handled(r) <=> r \in InWaiting \/ r \in InChannel \/ answers[r].built = 1
        /\ r \in InWaiting => r \notin InChannel /\ answers[r].built = 0
        /\ r \in InChannel => answers[r].built = 0
    BY DEF IInv, OnePlace
  <2> QED BY <2>3, <2>4 DEF Handled
<1>2. count = Cardinality(Occupied)
  BY OccupiedCount DEF IInv, Counted
<1> QED BY <1>1, <1>2 DEF OncePerHorizon

(* handle_shock, flush_pending and the worker together build every response once:
   none is lost or doubled when a tick has no room or time, and pending_count is what
   waits. *)
THEOREM OncePerHorizonHolds == Spec => []OncePerHorizon
BY CountedOnce, Invariance, PTL
==============================================================================
