---------------------------- MODULE ShockResponses ----------------------------
(***************************************************************************)
(* How Opinion answers a shock (pair_aggregator.rs): a shock of a pair     *)
(* makes one pending response per horizon.  A tick at or after the second  *)
(* that the horizon ends in hands the response to a worker, through a      *)
(* bounded channel; the worker looks at the bars of the Opinion token that *)
(* have arrived by then and writes one row of opinion_response.            *)
(*                                                                         *)
(* The aggregator's task and the worker run side by side: the worker takes *)
(* responses while a tick still hands out others.  What finds no room, or  *)
(* no time, waits for a later tick.  Shocks come from ShockEngine, through *)
(* a queue that may drop them; the token's bars come from TokenBars in the *)
(* order of their seconds, some of them missing.  Prices are left out.     *)
(***************************************************************************)
EXTENDS Integers, Sequences, FiniteSets, FiniteSetsExt

CONSTANTS
  Ids,         \* the ids of the shocks
  Horizons,    \* the horizons of handle_shock, in seconds
  GapAllow,    \* analysis_gap_allow
  Capacity,    \* PENDING_WORKER_QUEUE_CAPACITY
  ProcessMax,  \* PENDING_PROCESS_MAX
  HistoryMax,  \* bars kept per token
  MaxSecond,   \* bound: shocks and bars are of the seconds 1..MaxSecond
  MaxTick,     \* bound: the last second the clock shows
  None

ASSUME ShockResponsesAssumption ==
  /\ IsFiniteSet(Ids)
  /\ Horizons \subseteq Nat /\ IsFiniteSet(Horizons)
  /\ {GapAllow, MaxSecond, MaxTick} \subseteq Nat
  /\ {Capacity, ProcessMax, HistoryMax} \subseteq Nat \ {0}
  /\ None \notin Int

VARIABLES
  shocks,    \* a shock's trigger second and whether its Opinion token was known
  waiting,   \* pending_by_target: the responses due at a second, in their order
  count,     \* pending_count
  flushing,  \* the targets flush_pending still has to do, and how many it did
  channel,   \* the worker's channel
  history,   \* opi_bar_history of the token: the seconds of its bars
  tick,      \* current_tick
  answers    \* per response: how often it was built and from which bars

vars == <<shocks, waiting, count, flushing, channel, history, tick, answers>>

Seconds == 1..MaxSecond
Responses == Ids \X Horizons
Targets == {s + h : s \in Seconds, h \in Horizons}
Trigger(r) == shocks[r[1]].trigger
Target(r) == Trigger(r) + r[2]

Idle == [targets |-> {}, done |-> 0]
NoShock == [trigger |-> None, known |-> FALSE]
NoAnswer == [built |-> 0, at |-> None, base |-> None, end |-> None, between |-> {}]

Init ==
  /\ shocks = [i \in Ids |-> NoShock]
  /\ waiting = [t \in Targets |-> <<>>]
  /\ count = 0
  /\ flushing = Idle
  /\ channel = <<>>
  /\ history = <<>>
  /\ tick = 0
  /\ answers = [r \in Responses |-> NoAnswer]
-----------------------------------------------------------------------------
(* The aggregator's task.  It handles a message only when the last one is    *)
(* done.                                                                      *)
Free == flushing = Idle

(* Faulty: a shock counts once. *)
CountPerShock == count + 1

(* pending_count grows with every response. *)
CountAfterShock == count + Cardinality(Horizons)

(* handle_shock: the shock i of second s. *)
HandleShock(i, s) ==
  /\ Free
  /\ shocks[i] = NoShock
  /\ shocks' = [shocks EXCEPT ![i] = [trigger |-> s, known |-> history # <<>>]]
  /\ waiting' = [t \in Targets |->
                   IF t - s \in Horizons THEN Append(waiting[t], <<i, t - s>>) ELSE waiting[t]]
  /\ count' = CountAfterShock
  /\ UNCHANGED <<flushing, channel, history, tick, answers>>

(* store_opi_bar: the token's bar of second s; the oldest makes room. *)
StoreBar(s) ==
  /\ Free
  /\ \A n \in DOMAIN history : history[n] < s
  /\ history' = LET h == Append(history, s)
                IN IF Len(h) > HistoryMax THEN Tail(h) ELSE h
  /\ UNCHANGED <<shocks, waiting, count, flushing, channel, tick, answers>>

(* Faulty: only what falls due with this very tick. *)
DueNow(t) == {u \in Targets : waiting[u] # <<>> /\ u = t}

(* The targets that are due at the tick t. *)
Due(t) == {u \in Targets : waiting[u] # <<>> /\ u <= t}

(* Tick: flush_pending begins with the targets that are due. *)
Tick(t) ==
  /\ Free
  /\ t >= tick /\ t > 0
  /\ tick' = t
  /\ flushing' = [targets |-> Due(t), done |-> 0]
  /\ UNCHANGED <<shocks, waiting, count, channel, history, answers>>

(* The response that is next, the earliest target first. *)
Current == Min(flushing.targets)

(* Faulty: a response that was handed over also stays for the next tick. *)
RemainingAll(u) == waiting[u]

(* What is left of a target once its first response is handed over. *)
Remaining(u) == Tail(waiting[u])

(* Faulty: one response more than fits. *)
RoomOffByOne == Len(channel) <= Capacity

(* try_send succeeds. *)
Room == Len(channel) < Capacity

(* One turn of flush_pending's inner loop that hands over a response. *)
HandOver ==
  /\ flushing.targets # {}
  /\ flushing.done < ProcessMax
  /\ Room
  /\ LET u == Current
     IN /\ channel' = Append(channel, Head(waiting[u]))
        /\ waiting' = [waiting EXCEPT ![u] = Remaining(u)]
        /\ flushing' = IF flushing.targets = {u} /\ waiting'[u] = <<>> THEN Idle
                       ELSE [targets |-> IF waiting'[u] = <<>> THEN flushing.targets \ {u}
                                         ELSE flushing.targets,
                             done |-> flushing.done + 1]
  /\ count' = count - 1
  /\ UNCHANGED <<shocks, history, tick, answers>>

(* The loop ends early: the channel is full, ProcessMax are handed over or    *)
(* the time is up, which is assumed not to be before the first one.  The rest *)
(* goes back under its target, in its order.                                  *)
GiveUp ==
  /\ flushing.targets # {}
  /\ flushing.done > 0 \/ ~Room
  /\ flushing' = Idle
  /\ UNCHANGED <<shocks, waiting, count, channel, history, tick, answers>>
-----------------------------------------------------------------------------
(* The worker. *)

Bars == {history[n] : n \in DOMAIN history}

(* Faulty: the bar nearest to the second, also a later one. *)
LookbackNearest(s) ==
  LET found == {b \in Bars : s - GapAllow <= b /\ b <= s + GapAllow}
  IN IF found = {} THEN None ELSE Max(found)

(* find_bar_with_lookback: the newest bar of second s or up to GapAllow       *)
(* before it.                                                                 *)
Lookback(s) ==
  LET found == {b \in Bars : s - GapAllow <= b /\ b <= s}
  IN IF found = {} THEN None ELSE Max(found)

(* The bars that are summed up: after the trigger, up to the target           *)
(* (first_index_after twice).                                                 *)
Between(r) == {b \in Bars : Trigger(r) < b /\ b <= Target(r)}

(* build_response_from_history: the row of the response r.  There is none if  *)
(* the pair's Opinion token was not known when the shock was handled.         *)
Answer(r) ==
  LET known == shocks[r[1]].known
  IN [built   |-> answers[r].built + 1,
      at      |-> tick,
      base    |-> IF known THEN Lookback(Trigger(r)) ELSE None,
      end     |-> IF known THEN Lookback(Target(r)) ELSE None,
      between |-> IF known THEN Between(r) ELSE {}]

(* pending_worker_loop: one response.                                         *)
Work ==
  /\ channel # <<>>
  /\ channel' = Tail(channel)
  /\ answers' = [answers EXCEPT ![Head(channel)] = Answer(Head(channel))]
  /\ UNCHANGED <<shocks, waiting, count, flushing, history, tick>>

Flush == HandOver \/ GiveUp

Next ==
  \/ \E i \in Ids, s \in Seconds : HandleShock(i, s)
  \/ \E s \in Seconds : StoreBar(s)
  \/ \E t \in 1..MaxTick : Tick(t)
  \/ HandOver \/ GiveUp
  \/ Work

Spec == Init /\ [][Next]_vars

(* Both tasks are scheduled and the clock goes on: it reaches MaxTick.        *)
FairSpec ==
  /\ Spec
  /\ WF_vars(Flush) /\ WF_vars(Work) /\ WF_vars(Tick(MaxTick))
-----------------------------------------------------------------------------
TypeOK ==
  /\ shocks \in [Ids -> [trigger : Seconds \cup {None}, known : BOOLEAN]]
  /\ waiting \in [Targets -> Seq(Responses)]
  /\ count \in Nat
  /\ flushing \in [targets : SUBSET Targets, done : 0..ProcessMax]
  /\ channel \in Seq(Responses) /\ Len(channel) <= Capacity
  /\ history \in Seq(Seconds) /\ Len(history) <= HistoryMax
  /\ tick \in 0..MaxTick
  /\ DOMAIN answers = Responses

(* The places under the targets where a response waits. *)
Occupied ==
  {p \in Targets \X (1..Cardinality(Responses)) : p[2] <= Len(waiting[p[1]])}

(* How often a response is on its way. *)
OnTheWay(r) ==
  Cardinality({p \in Occupied : waiting[p[1]][p[2]] = r})
  + Cardinality({n \in DOMAIN channel : channel[n] = r})

(* Every response of a shock that was handled is in one place, or built once: *)
(* the primary key of opinion_response is the shock and the horizon, and what *)
(* a tick has no room or time for is put back, not lost and not doubled; and  *)
(* pending_count, which is never recomputed, is what waits.                   *)
OncePerHorizon ==
  /\ \A r \in Responses :
       OnTheWay(r) + answers[r].built = IF shocks[r[1]] = NoShock THEN 0 ELSE 1
  /\ count = Cardinality(Occupied)

(* A response is built when its horizon is over, from a bar of before the     *)
(* shock and, unless analysis_gap_allow is as long as the horizon, one of      *)
(* after it, none of which is newer than what it stands for; whatever bars     *)
(* arrive between the tick, the hand-over and the worker.                      *)
FromBothSides ==
  \A r \in Responses : answers[r].built > 0 =>
    LET a == answers[r]
    IN /\ Target(r) <= a.at
       /\ a.base # None => a.base <= Trigger(r)
       /\ a.end # None => a.end <= Target(r)
       /\ \A b \in a.between : Trigger(r) < b /\ b <= Target(r)
       /\ a.end # None /\ r[2] > GapAllow => Trigger(r) < a.end /\ a.end \in a.between

(* Every response is built in the end: a channel that is full and ticks that  *)
(* run out of time only delay it.                                             *)
EveryHorizonAnswered ==
  \A r \in Responses : shocks[r[1]] # NoShock ~> answers[r].built > 0
==============================================================================
