------------------------------ MODULE TokenBars ------------------------------
(***************************************************************************)
(* One shard worker (shard.rs) and the per-second bars of its tokens.      *)
(*                                                                         *)
(* The dispatcher forwards events and ticks into the shard's bounded       *)
(* queue: an event that finds it full is lost, a tick waits for room.  The *)
(* worker files an event under the second of its exchange timestamp and    *)
(* closes a second, as one bar, when the newest second it has seen of the  *)
(* token is LateBuffer seconds ahead.  A tick moves the token's newest     *)
(* second on, but only for the tokens that had an event since the last one.*)
(*                                                                         *)
(* Of an event only its token and its second matter here: what it does to  *)
(* the book, and which counter of its second it adds to, is left out.      *)
(***************************************************************************)
EXTENDS Integers, Sequences, FiniteSets

CONSTANTS
  Tokens,      \* the tokens of this shard
  LateBuffer,  \* LATE_EVENT_BUFFER_SECS
  QueueCap,    \* SHARD_QUEUE_CAPACITY
  Behind,      \* bound: how many seconds an event's second lags the clock
  Ahead,       \* bound: how many seconds an event's second leads the clock
  LastEvent,   \* bound: the last second of the clock at which events arrive
  MaxTime,     \* bound: the last second of the clock
  MaxEvents    \* bound: events accepted over the whole behaviour

ASSUME LateBufferAssumption == LateBuffer \in Nat
ASSUME BarsBoundAssumption ==
  /\ QueueCap \in Nat /\ Behind \in Nat /\ Ahead \in Nat
  /\ LastEvent \in Nat /\ MaxEvents \in Nat
  /\ MaxTime \in Nat /\ Behind < MaxTime

VARIABLES
  now,       \* the second of the local clock
  ticked,    \* the second of the last tick sent
  queue,     \* the shard's queue
  state,     \* state[t]: the TokenState of t
  dirty,     \* dirty_tokens
  bars,      \* bars[t]: the bars of t emitted so far
  filed,     \* filed[t][s]: events of t filed under second s (for the properties)
  accepted   \* counter of the bounded events

vars == <<now, ticked, queue, state, dirty, bars, filed, accepted>>

(* Seconds count from the start of the run; timestamps are always positive. *)
Seconds == 1..(MaxTime + Ahead)
Start == Behind + 1

TokenState == [known : BOOLEAN, watermark : Int, flushed : Int, open : [Seconds -> Nat]]
Bar == [second : Seconds, events : Nat]
Message == [token : Tokens, second : Seconds] \cup [tick : Nat]

None == [s \in Seconds |-> 0]
IsTick(m) == "tick" \in DOMAIN m

Later(a, b) == IF a >= b THEN a ELSE b
-----------------------------------------------------------------------------
Init ==
  /\ now = Start /\ ticked = Start
  /\ queue = <<>>
  /\ state = [t \in Tokens |-> [known |-> FALSE, watermark |-> 0, flushed |-> 0, open |-> None]]
  /\ dirty = {}
  /\ bars = [t \in Tokens |-> <<>>]
  /\ filed = [t \in Tokens |-> None]
  /\ accepted = 0

(* The clock moves on; the interval of the tick task is one second. *)
Clock ==
  /\ now < MaxTime
  /\ now' = now + 1
  /\ UNCHANGED <<ticked, queue, state, dirty, bars, filed, accepted>>

(* An event reaches the dispatcher, which forwards it if there is room.  An event
   that finds the queue full is lost, which needs no action. *)
DispatchEvent(t, s) ==
  /\ now <= LastEvent /\ accepted < MaxEvents
  /\ Len(queue) < QueueCap
  /\ queue' = Append(queue, [token |-> t, second |-> s])
  /\ accepted' = accepted + 1
  /\ UNCHANGED <<now, ticked, state, dirty, bars, filed>>

(* The dispatcher forwards a tick, which waits for room: its second is that of the
   moment the tick task sent it, possibly older than the clock by now. *)
DispatchTick(s) ==
  /\ s \in (ticked + 1)..now
  /\ Len(queue) < QueueCap
  /\ queue' = Append(queue, [tick |-> s])
  /\ ticked' = s
  /\ UNCHANGED <<now, state, dirty, bars, filed, accepted>>
-----------------------------------------------------------------------------
(* Faulty: a second is closed one second early. *)
CutoffEarly(st) == st.watermark - LateBuffer + 1

(* The last second whose late events have had time to arrive. *)
Cutoff(st) == st.watermark - LateBuffer

(* Faulty: the last closed second is closed again. *)
ClosedAgain(st) == [k \in 1..(Cutoff(st) - st.flushed + 1) |->
                      [second |-> st.flushed + k - 1,
                       events |-> IF st.flushed + k - 1 \in Seconds
                                  THEN st.open[st.flushed + k - 1] ELSE 0]]

(* The bars flush_ready closes: every second up to the cutoff, empty ones too. *)
Closed(st) == [k \in 1..(Cutoff(st) - st.flushed) |->
                 [second |-> st.flushed + k, events |-> st.open[st.flushed + k]]]

(* Faulty: everything filed so far goes with the bars that are closed. *)
AfterFlushForgets(st) ==
  IF Cutoff(st) <= st.flushed THEN st
  ELSE [st EXCEPT !.flushed = Cutoff(st), !.open = None]

(* The token's state after flush_ready. *)
AfterFlush(st) ==
  IF Cutoff(st) <= st.flushed THEN st
  ELSE [st EXCEPT !.flushed = Cutoff(st),
                  !.open = [s \in Seconds |-> IF s <= Cutoff(st) THEN 0 ELSE @[s]]]

FlushReady(t, st) ==
  /\ state' = [state EXCEPT ![t] = AfterFlush(st)]
  /\ bars' = [bars EXCEPT ![t] = IF Cutoff(st) <= st.flushed THEN @ ELSE @ \o Closed(st)]

(* TokenState::new, for the first event of a token. *)
Known(t, s) ==
  IF state[t].known THEN state[t]
  ELSE [known |-> TRUE, watermark |-> s, flushed |-> s - 1, open |-> None]

(* handle_event: an event of a closed second leaves no trace in the metrics. *)
OnTime(st, s) == s > st.flushed

HandleEvent ==
  /\ queue # <<>> /\ ~IsTick(Head(queue))
  /\ LET t   == Head(queue).token
         s   == Head(queue).second
         st  == Known(t, s)
         one == IF OnTime(st, s) THEN 1 ELSE 0
     IN
     /\ FlushReady(t, [st EXCEPT !.watermark = Later(@, s), !.open[s] = @ + one])
     /\ filed' = [filed EXCEPT ![t][s] = @ + one]
     /\ dirty' = dirty \cup {t}
  /\ queue' = Tail(queue)
  /\ UNCHANGED <<now, ticked, accepted>>

(* handle_tick: the dirty tokens are drained, moved on and flushed. *)
HandleTick ==
  /\ queue # <<>> /\ IsTick(Head(queue))
  /\ LET moved(t) == [state[t] EXCEPT !.watermark = Later(@, Head(queue).tick)] IN
     /\ state' = [t \in Tokens |-> IF t \in dirty THEN AfterFlush(moved(t)) ELSE state[t]]
     /\ bars' = [t \in Tokens |->
                   IF t \in dirty /\ Cutoff(moved(t)) > state[t].flushed
                   THEN bars[t] \o Closed(moved(t)) ELSE bars[t]]
  /\ dirty' = {}
  /\ queue' = Tail(queue)
  /\ UNCHANGED <<now, ticked, filed, accepted>>

Next ==
  \/ Clock
  \/ \E t \in Tokens, s \in Later(1, now - Behind)..(now + Ahead) : DispatchEvent(t, s)
  \/ \E s \in Seconds : DispatchTick(s)
  \/ HandleEvent
  \/ HandleTick

Spec == Init /\ [][Next]_vars

-----------------------------------------------------------------------------
TypeOK ==
  /\ now \in Start..MaxTime /\ ticked \in Start..now
  /\ queue \in Seq(Message) /\ Len(queue) <= QueueCap
  /\ state \in [Tokens -> TokenState]
  /\ dirty \subseteq Tokens
  /\ bars \in [Tokens -> Seq(Bar)]
  /\ filed \in [Tokens -> [Seconds -> Nat]]
  /\ accepted \in Nat

(* bars_1s_token gets every second of a token once, in order and without a hole,
   from its first event on, whichever of an event and a tick closes it. *)
BarsContiguous ==
  \A t \in Tokens :
    /\ \A k \in 1..Len(bars[t]) : bars[t][k].second = state[t].flushed - Len(bars[t]) + k
    /\ bars[t] # <<>> => state[t].known

(* A token keeps accumulators only for the last LateBuffer seconds up to the newest
   one it has seen: no accumulator is left behind under a closed second. *)
OpenWindow ==
  \A t \in Tokens : state[t].known =>
    /\ state[t].watermark - state[t].flushed <= LateBuffer
    /\ \A s \in Seconds : state[t].open[s] > 0 =>
         state[t].flushed < s /\ s <= state[t].watermark

(* The events a bar counted. *)
InBar(t, s) ==
  LET k == s - state[t].flushed + Len(bars[t]) IN
  IF k \in 1..Len(bars[t]) THEN bars[t][k].events ELSE 0

(* No event that was filed is lost or counted twice on its way into a bar. *)
EventsAccounted ==
  \A t \in Tokens, s \in Seconds : filed[t][s] = state[t].open[s] + InBar(t, s)

(* An event is left out of the bars only if it is more than LateBuffer seconds
   older than what the token has seen, or older than its first event. *)
LateOnlyBehindBuffer ==
  [][\A t \in Tokens, s \in Seconds :
       queue # <<>> /\ Head(queue) = [token |-> t, second |-> s] /\ queue' = Tail(queue)
       /\ filed'[t][s] = filed[t][s] =>
         /\ state[t].known
         /\ \/ s <= state[t].watermark - LateBuffer
            \/ bars[t] = <<>> /\ s <= state[t].flushed]_vars
==============================================================================
