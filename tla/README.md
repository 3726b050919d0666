# opinion-polymarket-alpha-monitor: TLA+ specification and proofs

The program watches pairs of tokens on two prediction markets, Polymarket (PM)
and Opinion (OPI). It receives order books and trades, makes one bar per token
and second, detects price shocks on PM, measures how OPI responds, stores
everything in PostgreSQL and, when asked to, trades on OPI. It is one process of
many tokio tasks connected by channels and a few locks.

This directory holds TLA+ models of its core, configurations that check them
with TLC, and proofs checked by TLAPS. Line numbers are those of `src/`.

Contents: [inventory](#inventory), [plan](#plan), [modules](#the-modules),
[runs](#the-runs), [fairness](#fairness), [proofs](#what-is-proved),
[disagreements](#disagreements-with-the-code), [limits](#what-is-not-modelled).

## Inventory

How the tasks are connected:

```
 ws/polymarket, ws/opinion, rest/polymarket, rest/opinion
        | Event (channel of 2048)          | user orders, trades
        v                                  v
   dispatcher  <- Tick every second     trade router -> trade engines (8)
        | try_send Event / send Tick       ^    | requests     ^ answers
        v                                  |    v              |
   shard workers -- bars, shocks --> pair aggregator   order executor -> Opinion
        \____________ rows ______________/ |
                                 v         v
                    db_queue (SQLite) -> db_writer -> PostgreSQL
```

| component | state it keeps | operations | what is hard | what makes it correct |
|---|---|---|---|---|
| Database queue (`db_queue.rs`, `db_writer.rs`) | ingest channel, insert and ack buffers, SQLite table, cursor, writer's table buffers, three counters | `try_send_db`, `flush_insert`, `pump_send`, `flush_ack`, `flush_buffers` | crash between insertion, commit and deletion; commit with unknown outcome; replays that meet a key | nothing deleted before stored, at least once, counters exact, updates after inserts, every row leaves |
| Shard worker (`shard.rs`) | per token: book, watermark, open seconds, shock engine; the dirty set | `handle_event`, `handle_tick`, `flush_ready`, `emit_result`, `check_resync` | late and early events, ticks between them, dropped messages, a failed delta | gapless bars, each event in one bar, every second closed; the book is right or known to be wrong |
| Dispatcher (`dispatcher.rs`) | the shards' channels | forward an event (lossy) or a tick (waiting) | a full shard | order per token, no shard stops the others |
| Shock engine (`shock.rs`) | metric history, last trigger and pending shock per type; the shard's map of ids | `on_bar`, `schedule_shock`, `find_start_ts`, `finalize_pending`, `emit_result` | a trigger in the second in which the last one ends, bars without a price, histories that are cut off | a shock's row is completed under its own id, with the start and peak of its episode |
| Pair aggregator (`pair_aggregator.rs`) | buckets per pair, side and second with index and flush queue; responses by target second | `store_*_bar`, `handle_shock`, ticks (`flush_stale`, `flush_pending`), flush worker, response worker | tasks that give up the lock between looking and building, late halves, full channels, ticks that run out of time | every half in one bar, on-time halves together; one response row per shock and horizon, from bars of its own time |
| Trade engine, orders (`trade/mod.rs`) | `PairTradeState` per pair, request ids, open order cache | bars, timer, place/cancel/fill answers, user channel | answers out of order, fills that overtake cancellations, lost answers | one order at a time, a filled entry becomes a position, exposure booked and released once |
| Trade engine, risk | `TradeRiskState`, shared; `pair_exposure` per engine | `queue_entry`, `flush_pending_entries`, `budget_for_entry`, pool, add/release | check and booking apart, several engines | ledgers agree, caps hold |
| Cancel machinery (`trade/mod.rs:220-271, 2199-2245, 2357-2509`) | token bucket, dedup window, backoffs, retry states | allow, record, clear | retries, rate limits | every wanted cancellation is sent in the end, never twice in the window |
| Order client (`trade/opinion_private.rs`) | signing account, trading enabled or paused | place, cancel, list, recover an order id | pause and resume by concurrent requests | an order id belongs to the order placed |
| Websockets (`ws/*.rs`) | connection, subscriptions, newest stamp and last tops per token | connect, subscribe, turn a message into events | losses, stamps that run backwards, reconnects | what they tell a book is right, or repaired later |
| Snapshotters (`rest/*.rs`) | last activity per token, backoffs, cooldowns, the running round | bootstrap, ticks, commands, requests | failed and overtaken answers, rate limits, silence of a token | every token's book becomes the venue's again; a wanted token is served |
| Registry (`token_registry.rs`, `discovery.rs`) | maps of tokens, markets and pairs | build, add | tokens added while running | maps are inverse to each other |
| Clock, timestamps (`clock.rs`, `time_utils.rs`) | one atomic offset | apply a sample, validate a time | unsynchronised updates | the step is bounded, no accepted time is far ahead |
| Fees, chain, health | rows in force, gas costs, counters | look up, record | boundaries of validity | the newest row in force |
| Start-up (`main.rs`) | the shock counter | wiring, tick task | the counter against what is still queued | shock ids are unique |
| Configuration, models, migrations, logs, analysis scripts | none over time | | | |

`PROJECT.json` lists every component with its status, and under `hazards` what
in this code a test would hardly reach, with the properties about it.

## Plan

The order is by what a fault costs: stored data, then money, then signals.

| step | modules | status |
|---|---|---|
| 1 | `DurableDelivery` (promise), `DbQueue` (implements it), `DbQueueProofs` | done |
| 2 | `TokenBars`: dispatcher queue, ticks and the bars of a shard; `TokenBarsProofs` | done |
| 3 | `PairExposure` (promise), `TradePair` (the life of a pair) and `TradeRisk` (the budget shared by the engines), which both implement it; `TradePairProofs`, `TradeRiskProofs` | done |
| 4 | `PairJoin` (promise), `PairAggregator` (implements it), `PairAggregatorProofs`; `ShockEngine`, `ShockEngineProofs`; `ShockResponses`, `ShockResponsesProofs` | done |
| 5 | `TokenBook` (a shard's book); `PolymarketFeed`, `OpinionFeed`; `FeedProofs` (of all three) | done |

## The modules

**`DurableDelivery`** says what the pipeline promises its producers: accepted
messages are retained until delivered; delivery is all or nothing per
transaction; only what was delivered, or can never be, is let go.

**`DbQueue`** models `db_queue.rs` and `db_writer.rs`. A message has a kind, which
says how its row is written (plain INSERT under a key, update of a shock, upsert,
append, acknowledged without being stored, undecodable).

| model | code |
|---|---|
| `ingest`, `insertBuf` | the unbounded ingest channel, `insert_buf` |
| `log`, `live` | the rows ever inserted into SQLite (position = id), those not deleted |
| `lastSent`, `pendingSend`, `writerCh` | `last_sent_id`, the retry deque, the writer's channel |
| `writerBuf`, `acks`, `ackBuf` | the writer's table buffers, acknowledgements, `ack_buf` |
| `stored` | how often a committed transaction wrote the row |
| `inMem`, `diskPending`, `inFlight` | `DbQueueStats` |
| `Enqueue`, `SendShock`, `SendShockUpdate` | `try_send_db` and the shard's two shock messages |
| `RecvIngest`, `FlushInsert`, `PumpSend`, `RecvAck`, `FlushAck` | the arms of `run_db_spooler` |
| `WriterRecv`, `WriterFlush`, `WriterFlushAmbiguous` | `run_db_writer`, `flush_buffers` |
| `Restart` | the process dies and `spawn_db_queue` and `main` run again |

A step of the code that fails and restores everything (a SQLite error, a failed
statement) is a stuttering step.

**`TokenBars`** models a shard: the dispatcher's lossy `try_send` of events and
waiting `send` of ticks into a bounded queue, `handle_event`, `handle_tick` and
`flush_ready`. Per token it keeps the watermark, the last closed second and the
number of events filed under every open second; `filed` remembers what was
accepted, for `EventsAccounted`. Of an event only the token and the second matter.

**`PairExposure`** says what the trades of one pair may do to the exposure that is counted
for it: up once, by what was entered, when the entry stands; down once, by what the pair
holds by its own figure, when the trade ends, and never by more than is counted. It is the
promise `TradePair` keeps over all orders of answers, fills and messages, and `TradeRisk`
for every pair at once, over all interleavings of the engines: there the module is
instantiated with the pair as a parameter. So the two models, which look at the same code
from two sides, agree on what a trade does to the budget.

**`TradePair`** models one pair in the live engine with the executor and the venue.
`pair` holds the fields of `PairTradeState` that control it, `flight` the requests
at the executor with their answers, `channel` the user channel, `cache` the list of
open orders. Handlers are atomic because the engine is one task that removes the
state from its map, runs the handler and puts it back. Request ids are reused once
nothing refers to them, as a counter's are never confused. `check_exit` is an
operator on the state its caller has reached, because a fill runs it in the same
handler. The exit order is placed inside the handler; `handle_exit_place_result`
and `PlaceKind::Exit` are never used by the code and are not modelled. The client
order id is not part of the venue's request (`opinion_private.rs:303`), so fills
match by order id only. `PositionOpen` is left in the same handler that enters it
unless an exit cancellation is pending.

**`TradeRisk`** models the budget over several engines. An engine collects the
entries of one second and flushes them on a bar of a later second, `FlushBegins` to
`FlushEnds`; between `FlushBudgets` (under the lock) and `FlushEnters` other engines
run. `Placed` and `PlaceFailed` are the two outcomes of `handle_entry_place_result`,
`TradeEnds` stands for a finished exit and for a cancelled entry. A part fill may raise
the pair's figure again, up to what was entered (`size`), as the cumulative order update
and the record of a single trade overwrite each other in `apply_entry_fills`. A reset of
the pool and the read that follows it are one step.

In both trade models the price is 1, so that a notional is a quantity, and entries
have one direction; fills at another price than the limit are therefore out of their
reach (`hazards` names the line).

**`PairJoin`** says what the pair aggregator promises: every half bar it received is
published in exactly one pair bar of its pair and second, and it is published in the
end. A pair bar may hold one half, and a second may have two bars.

**`PairAggregator`** implements it. `buckets`, `index`, `flushQueue`, `flushPending` are
the maps and sets of the code, `building` is the full bucket the aggregator's task holds
while it awaits `load_build_context`, `worker` says where the flush worker is between its
locks, and `permit` is the one wake-up that `notify_one` keeps. `Receive` is a `TokenBar`
message, `Tick` runs `flush_stale` with its limit of keys, and the worker's actions take,
look at, build and put back keys. `arrival` remembers how each half came, for the
properties.

**`ShockEngine`** is one Polymarket token: a bar with a price runs `on_bar`
(`record_metric`, `schedule_shock` with `find_start_ts`, `finalize_pending`) and
`emit_result`. Which types fire, with which metric and which weak threshold, is chosen
freely from `Readings`. `metrics` keeps all points although `History` sees only the
newest, so that the properties can speak of what was cut off.

**`ShockResponses`** is `handle_shock`, `flush_pending` and the response worker. A tick's
loop over the responses that are due is a series of `HandOver` steps ended by the last
one or by `GiveUp` (channel full, limit, time), between which the worker runs. An
answer records which bars it was built from.

**`TokenBook`** has no variables: it is the state of a token's book as a record and
`AfterEvent`, what `handle_event` and `check_resync` make of it. A side keeps its levels
and the two values `DenseBook` caches, their number and the best. Whether an event
belongs to the second of the last report is an argument (`same`).

**`PolymarketFeed`** connects venue, websocket, dispatcher, shard and snapshotter.
`ReadMessage` is a message with the parser's events, dispatched one by one into the
queue and dropped beyond its capacity; `HandleEvent` is the shard; `ReceiveActivity`,
`Refresh`, `Fetch` and `SendSnapshot` are the snapshotter's loop. `recent` stands for
the tokens whose `last_ws_seen_ms` is within the threshold, and `Age` for its passing.

**`OpinionFeed`** does the same for Opinion, where the websocket brings differences only
and the snapshotter decides by activity (`age`), stale filter (`current`), cooldown
(`cooling`), backoffs and the suppression after a connection which tokens to ask for.
A round is `todo` and `asked`; `wanted` and `pending` are the rounds the received
commands still call for. `config` chooses the options, and the two rounds for latest
prices run beside the others as the code's second task does (`latest_price_all` off).
Events reach the shard at once or are lost, as order within a token is kept.

How the modules meet: the events of the feeds are those `TokenBars` files; its bars are
the halves of `PairAggregator` and the bars of `ShockEngine`; the shocks of `ShockEngine`
are those `ShockResponses` answers and the rows that `DbQueue` carries. Each module
takes from its neighbour only what the neighbour shows: a token's bars come in order and
once (`BarsContiguous`), any of them may be missing (`try_send_pair`).

`MC*.tla` name model values and small sets; the `.cfg` files give the constants their
values. Operators marked *Faulty* are forms of a definition with a plausible bug; they
are used by nothing here, and `PROJECT.json` pairs each with the property that it
breaks when it takes the definition's place.

## The runs

| run | configuration | shows |
|---|---|---|
| `dbqueue_delivery` | 4 messages of 4 kinds (shocks, updates, uncaptured, undecodable), channel of 2, fetch of 3, a restart, a commit of unknown outcome | types, one handover, an update never before its insert, exact counters, refinement of `DurableDelivery`; every row leaves unless a key conflict blocks the writer |
| `dbqueue_replayed_bar` | 1 bar, 1 restart | *violated*: a replayed bar stays for ever |
| `tokenbars_safety` | 2 tokens, 4 events, lag 2, lead 1, queue of 2 | gapless bars, exact counts, drops only behind the late buffer |
| `tradepair_trouble` | 2 orders filled in parts or 3 filled whole, all trouble, user channel | booked once, late answers harmless, a filled entry is never cancelled, refinement of `PairExposure` |
| `tradepair_polls` | whole fills, 3 orders, polls only, no trouble | no orphaned and no double order; every entry ends |
| `tradepair_held` | the same | *violated*: a filled entry is counted as cancelled |
| `traderisk_budget` | 2 live engines with part fills and scaled sizes, or 1 dry engine with 3 pairs; 3 seconds | ledgers agree and open positions are counted exactly, caps and pool hold for the one engine, every pair implements `PairExposure` |
| `pairaggregator_join` | 1 pair, 3 seconds, ticks to 5, one key flushed and built at a time | no bucket forgotten, on-time halves together, refinement of `PairJoin` with its liveness |
| `shockengine_window` | 2 types (one without metric), 2 pairs, 5 bars, cool-down and window of 2 | ids and open rows agree, start and peak are those of the episode, no shock lost but to its successor |
| `shockresponses_horizons` | 2 shocks, 2 horizons, channel of 1, 2 per tick, history of 3 | each response once, from bars of both sides; all answered in the end |
| `polymarketfeed_recovery` | 1 token, 2 levels, 2 changes or messages, 2 connections, queue of 2 | exact caches, crossed books flagged; the book recovers |
| `opinionfeed_recovery` | 1 token, 1 level, default and example options, 2 changes, a connection, a rate limit | with the defaults the book recovers; a wanted token is asked for |

Why the bounds are enough. *DbQueue*: the channel (2) is smaller than the fetch (3)
and both are smaller than the number of messages (4), so a pump meets an empty, a
partly filled and a full channel; a restart and an ambiguous commit can fall between any
two steps of a message's way. *TokenBars*: with a late
buffer of 2, events that lag 2 seconds fall on both sides of it, a lead of 1 makes
events push the watermark past the ticks, and a queue of 2 lets events and ticks wait
for each other. *TradePair*: two request ids let a cancel and a poll be under way
together; three orders are an entry, its exit and one more, so a late answer meets the
next trade; a message waits in the channel while answers overtake it. *TradeRisk*: the
caps are chosen so that each of them is the least in some state, and three pairs ask for
more than the caps leave. *PairAggregator*: three seconds are one that waits, one ahead
of it and one more to hold it back; limits of one key make every tick and every drain
leave something; the ticks go on until the last second is stale. *ShockEngine*: the window
equals the cool-down, as in the code (10 s each), so a type can fire in the very second in
which its last shock ends; five bars are two windows and a bar before them; a history of 4
cuts the fifth point off. *ShockResponses*: four responses, two of which can fall due
together, against room for one. *PolymarketFeed*: two levels are enough for a side to
have a best and another one and for the sides to cross; a queue of 2 takes both events of
a top that moved, one of them or none; the second connection comes after a loss.
*OpinionFeed*: with one level the two sides can cross already; one token suffices because
rounds treat tokens alike and the one shared resource, the command channel, is
modelled as losing anything at any time.

`CHECK_DEADLOCK FALSE` is set throughout: every bounded instance stops when its
messages, seconds or orders are used up.

## Fairness

*DbQueue*: weak fairness of each step of the spooler and of the writer, because both
are tokio tasks whose select loops poll a channel and timers of fixed period for ever,
and no arm of a loop disables another; a flush that keeps failing is excluded, as a
database that never comes back stores nothing. Restarts and ambiguous commits are not
fair and are bounded.
*TradePair*: weak fairness of every request and its answer, since the executor runs
each in a task with a timeout; strong fairness of sending the cancel request of an
entry, because the timer checks it every 100 ms and the limiter, backoff and dedup
window that hold it back all expire. Fills are never assumed to happen.
*PairAggregator*: weak fairness of both tasks' steps and of the ticks, which a timer
sends until the process ends. *ShockResponses*: weak fairness of the tick's loop, of the
worker and of the last tick.
*PolymarketFeed*: weak fairness of the reading, shard and snapshotter steps and of the
passing of the threshold; strong fairness of "a request for this token is answered": a
venue that is asked again and again answers some time. *OpinionFeed*: the same, with
strong fairness of the ticks and of the command arm because `select!` takes its ready
branches at random; the windows of backoff, cooldown and suppression end. Changes of the
venue's books, connections, losses and rate limits are never assumed and are bounded: the
properties speak of what happens once they stop.

## What is proved

`DbQueueProofs` proves, for every capacity, fetch size, set of kinds and bound:

| theorem | property |
|---|---|
| `Invariance` | the inductive invariant `IInv` |
| `TypeCorrect` | `TypeOK`; the counters, `usize` in the code, never go below zero |
| `NothingLost` | `QueuedUntilStored` (no run: `DeliversDurably` implies it) |
| `OneHandover` | `HandedOverOnce` |
| `NoRetry` | `RetryDequeEmpty` (no run) |
| `CountersCorrect` | `CountersExact` |
| `FewCopies` | `CopiesBounded` (no run) |
| `UpdatesInOrder` | `UpdateAfterInsert` |
| `Implements` | `DeliversDurably`: `DbQueue` implements `DurableDelivery` |

The only assumptions are those of `DbQueue` on the types of its constants.

The argument. None of the properties is inductive by itself: that a deleted row was
stored depends on the acknowledgement channel holding stored rows only, and that the
counters are exact on every row being in one place. `IInv` is therefore `Pipeline`
(types; every row that is sent and not deleted is in exactly one of channel, writer,
acknowledgements and `ack_buf`; nothing beyond `last_sent_id` is; the retry deque is
empty; the counters are the sizes of the stages) together with `Delivered` (what is
acknowledged has been stored or never will be). Each action has a lemma that it keeps
`Pipeline`; `PumpSend` needs two facts about operators, that `Fetched` returns no more
than its limit, from the oldest on, and that `Ascending` arranges a set without
repetition. `FewCopies` adds that a row not yet acknowledged has been written at most once
per restart and ambiguous commit. `UpdatesInOrder` adds `Ordered`: over log, `insert_buf`
and channel as one sequence every update follows the insert of its shock (`Announced`), and
no live row behind `last_sent_id` is outside the pipeline unless it does not decode
(`NoneSkipped`, from `Fetched` taking the oldest rows and `Ascending` all of them). So
when the writer holds an update, its insert has left the channel: it is stored or in
the same batch (`EarlierShocksStored`). `Implements` maps `accepted` to the log, `retained` to `live` and `delivered`
to the rows with `stored > 0`; every action is a step of `DurableDelivery` or a stutter.

`TokenBarsProofs` proves, for every set of tokens, late buffer, queue capacity, lag and
lead of the events:

| theorem | property |
|---|---|
| `Invariance`, `TypeCorrect` | the inductive invariant, and `TypeOK` |
| `GaplessBars` | `BarsContiguous` |
| `WindowBounded` | `OpenWindow` (no run) |
| `EventsCounted` | `EventsAccounted` |
| `OnlyLateDropped` | `LateOnlyBehindBuffer` |

from the assumptions of `TokenBars` (types, and a run that is longer than the lag of its
events). Its invariant says of each token, by its state, its bars and its filed events
alone (`GoodToken`), that the watermark is a second, that closed seconds lie at or below
it, that a token with bars is closed exactly up to its cutoff, and how bars, accumulators
and filed events fit together; `Settled` adds that no second is overdue between two
steps. Only that form is inductive: `OpenWindow` and `EventsAccounted` need each other,
as a flush may throw away the accumulators below the cutoff only because none but those
it turns into bars is filled. One lemma, `FlushKeeps`, says that `flush_ready` turns a
`GoodToken` into a settled one; `MoveKeeps` and `FileKeeps` say that a newer second and an
event keep it good; events and ticks are compositions of the three.

`FeedProofs` proves, for every number of price levels, set of tokens, queue capacity, batch
size and bound, from the assumptions of `TokenBook` and `PolymarketFeed` on their constants
(naturals; finitely many tokens):

| theorem | property |
|---|---|
| `EventKeepsSound` | `AfterEvent` keeps a token sound: types, `Exact`, `FlaggedIfCrossed` |
| `FeedInvariance`, `FeedTypes` | the inductive invariant, and `TypeOK` |
| `FeedCachesExact` | `CachesExact` |
| `FeedCrossedIsFlagged` | `CrossedIsFlagged` |
| `OpinionInvariance`, `OpinionTypes` | the inductive invariant of `OpinionFeed`, and its `TypeOK` |
| `OpinionSound` | the books of `OpinionFeed` are sound too (no run) |

The argument. A set of levels has a best one: the least exists because the order of the
naturals is well-founded, the greatest is the least of the mirrored set (`LeastLevel`,
`GreatestLevel`, `BestExists`, `BestUnique`). From this `AddedBest` and `RemovedBest` show
that what `set_level` does with the cached best (replace it by a better level; search behind
it when it goes) gives the best of the new set, and `SetLevelCount` that the number
follows. `CachesExact` is inductive once every event in the queue is known to be
well-formed, which in turn needs that messages on the wire and the remembered tops are:
that is the invariant `IInv`. `FlaggedIfCrossed` is inductive by itself: each arm of
`handle_event` that may change the book checks it after the change.
`OpinionFeed` is instantiated in the same module (`Opinion`), with its options, tokens and
bounds as further parameters and one more hypothesis, that `MaxLimited` is a natural. Its
operators of `TokenBook` are first shown to be the ones the lemmas are about (`SameLevels`
to `SameEvents`), so that `EventKeepsSound` covers its books. The invariant `OpinionInv`
adds to its `TypeOK` that the books under way are books of the venue, that the tokens are
sound, and rests on rounds not overlapping: every round, of a tick, a command or the trade
engine, begins when none is running (`OpinionStarted`), so no token is asked for while it is
still to be asked for.

`PairAggregatorProofs` proves, for every set of pairs, late buffer, limit of keys and
bound:

| theorem | property |
|---|---|
| `JoinInvariance`, `JoinTypes` | the inductive invariant, and `TypeOK` |
| `BucketsTracked` | `Tracked` |
| `OnTimeTogether` | `SplitOnlyIfLate` |
| `ImplementsJoin` | the safety half of `JoinsHalves`: every step is one of `PairJoin` or a stutter |

The argument. The heart of `IInv` is `OnePlace`: a half that came is in its bucket, in the
bar under construction or in a bar, and in only one of them. `SplitOnlyIfLate` needs that a
key is handed to the worker only after the late buffer (`FlushedLate`) and that no half is
of a second its token has not seen yet (`SeenInv`); as the clock does not go back, a half
that comes to a key with a bar is late (`SplitLate`). `ImplementsJoin` maps `received` to
the halves that arrived and `bars` to the bars; publishing a bar is a step of `PairJoin`
because of `OnePlace`.

`TradePairProofs` proves, for every set of request ids and orders, size of an entry, kind
of trouble and way in which fills are learned of:

| theorem | property |
|---|---|
| `Invariance`, `PairTypes` | the inductive invariant, and `TypeOK` |
| `BookedOnceHolds` | `BookedOnce` |
| `NotionalCoveredHolds` | `NotionalCovered` (no run: `KeepsExposure` implies it) |
| `AwaitedInFlightHolds` | `AwaitedInFlight` |
| `FilledNotCancelledHolds` | `FilledNotCancelled`, an action property |
| `KeepsExposureHolds` | `KeepsExposure`: `TradePair` implements `PairExposure` |
| `NoneLeftBehind` | `NoOrphans`, given `Calm` |

The argument. `Shape` says which fields of `PairTradeState` go with which state, `Comes`
that each awaited request is in flight and about the order the pair works now, `Booked`
what the pair has taken from the budget; the rest ties what the engine is told to what the
venue did: a message or an answer that reports a fill or a cancellation is about an order
that was filled or cancelled, which with whole fills excludes each other. That is what
`FilledNotCancelled` comes from. `KeepsExposureHolds` maps every state to a stage and every
handler to a step of `PairExposure` or a stutter. `Stages` says which stage goes with which
state, `TradeKept`, `TradeFilled` and `TradeEnded` are the three things a handler can do to a
trade that works; `OrderWorked` and `FillStays` say that only a working trade is told of its
orders and that a fill leaves it one. That the subtraction at the end is covered is
`Booked`. `Calm` is the instance of the run `tradepair_polls`:
fills are polled and whole and the venue causes no trouble. Without it `NoOrphans` is false,
as "Disagreements with the code" says; under it request ids in flight are distinct and every
request belongs to what the pair does at the moment (`CalmInv`).

`TradeRiskProofs` proves, for every set of engines and pairs, configuration and caps:

| theorem | property |
|---|---|
| `Invariance`, `RiskTypes` | the inductive invariant, and `TypeOK` |
| `LedgersAgreeHolds` | `LedgersAgree` |
| `WithinCapsHolds` | `WithinCaps` |
| `PairsExposedHolds` | `PairsExposed`: every pair implements `PairExposure` |

The argument. That the exposure is never given back twice, or to the wrong strategy, needs
more than that the three ledgers agree: what the working pairs entered for a strategy is
covered by it, and so is each pair's by its own ledger (`Ledgers`), as a fill may still raise
their figures to what they entered.
`Figures` says that a pair that places or works holds between one and what it entered, and
the others hold nothing. `Entries` says that an engine holds entries of its own pairs only, so that no other engine
books a pair while it is being entered. `Caps` is about an engine that is alone: what it
fixed under the lock still fits when it books (`FlushFits`), and what it entered is gone
from the pool. The sums over pairs are folds over sets. Their first element and their
recursion are derived from the fold's definition: a least set on which a statement about
the sum fails cannot exist (`LeastSubset`, `SumInduction`); `TotalChange` then says
what changing one pair does to a sum. In a step of an engine only the pair it is about takes a
step of `PairExposure`, and the others rest (`OthersRest`): that its subtraction is covered is
its part of `Ledgers`, and that nobody else books it is `Entries`.

`ShockEngineProofs` proves, for every set of pairs and types, cool-down, window, length of
the history and course of the metrics:

| theorem | property |
|---|---|
| `Invariance`, `ShockTypes` | the inductive invariant, and `TypeOK` |
| `IdsOfOpenRowsHolds` | `IdsOfOpenRows` |
| `OpenOrSupersededHolds` | `OpenOrSuperseded` |
| `RowsCompletedOnceHolds` | `RowsCompletedOnce`, an action property (no run) |
| `EpisodeTracedHolds` | `EpisodeTraced` |

The argument. The shocks of one bar get the ids that follow, by the rank of pair and type: a
number with two digits, so that no id is given twice (`NewIdUnique`) and none is left out
(`NewIdOnto`). `Dated` says that nothing is ahead of the last bar, that the window of a
final row is over and that the last trigger of a type is not before any row of it.
`Episodes` says that the start of every row is traced, and that final rows and watched
shocks tell their whole episode (`Told`): its start is where `find_start_ts` should find the
rise (`FindStartTraced`; kept while the history only grows and forgets, `TracedKept`), its peak the first highest metric since the
trigger (`PeakedTold`), and a final one's peak is not touched by later bars (`PeakKept`).
`RowsChange` describes what a bar does to the table; each part of the invariant then has its
lemma. From it also follows that a row is written again only once, when the window of its
own shock is over (`RowsCompletedOnce`). The module's assumption that `None` is neither an integer nor a watched shock is
about the encoding only.

`ShockResponsesProofs` proves, for every set of shocks and horizons, lookback, capacity,
number of responses per tick and length of the history:

| theorem | property |
|---|---|
| `Invariance`, `ResponseTypes` | the inductive invariant, and `TypeOK` |
| `OncePerHorizonHolds` | `OncePerHorizon` |
| `FromBothSidesHolds` | `FromBothSides` |

The argument. Without numbers, `OnePlace` says that a response of a shock that was handled
waits, is in the channel or is built, and only one of them, and `Queues` that no sequence
holds anything twice, that responses wait under the second they are due at and that what
is handed over is due. `OncePerHorizon` counts places: a response has one place at most
(`PlaceWaiting`, `PlaceInSequence`) and the occupied places are as many as the responses
that wait (`OccupiedCount`, a bijection), which `pending_count` counts. `FromBothSides` adds
what the look-up of a bar returns (`LookbackIs`, `AnswerIs`). `analysis_gap_allow` can be
configured freely, so nothing is assumed of it: if it is as long as a horizon, the bar that
ends that horizon may be of before the shock, and the property says so.

Every invariant and every action property that a passing run checks is proved, `NoOrphans`
for the instances of its run (`Calm`). Only model-checked is liveness, which is out of the prover's reach: `RowsLeaveUnlessBlocked`, `EntryEnds`,
`EveryHorizonAnswered`, `BookRecovers` of both feeds, `OnDemandServed`, and the half of
`JoinsHalves` that says a half is published in the end.

## Disagreements with the code

Two runs are expected to fail; each shows that the code does something else than the
repository says. `PROJECT.json` quotes the lines.

1. A token bar replayed after a restart meets its primary key; one transaction writes
   all tables, so nothing is stored any more (`db_writer.rs:162`).
2. "Not found" counts as cancelled: a filled entry is forgotten, its exposure given
   back (`opinion_private.rs:509`, `trade/mod.rs:2811`).

These were met as well and have no run. Of the trade engine and the database:

- The shock counter is set from Postgres while shocks wait in SQLite (`main.rs:172`):
  `ShockIdsUnique` of `DbQueue` fails with two shocks and one restart.
- The caps hold for one engine that books at once and scales nothing up only (`Alone` in
  `WithinCaps`: one engine, `~live`, `~alphaC`). With several engines or a live one
  `WithinCaps` fails: `max_open_positions` (`README.md:155` of the repository) does not
  see the orders a live engine is placing (`trade/mod.rs:4959`), and the caps are read
  and spent in separate critical sections (`trade/mod.rs:4949`). With `alphaC` it fails
  in a dry run of one engine, as the size is scaled up after the budget was fixed
  (`trade/mod.rs:5330`).
- An entry accepted without an order id is never cancelled (`trade/mod.rs:2264`):
  `EntryEnds` fails with `Trouble = {"no_id"}`. It fails with `Trouble = {"refused"}`
  too: what fills before the place answer is handled is no longer seen by a poll, and a
  cancellation the venue refuses is tried for ever.
- With the user channel on, a fill is reported by an order update and by a trade record;
  the second report reopens the position, and a second exit order is placed while the
  first one is forgotten: `NoOrphans` fails with `UserChannel = TRUE`.
- The last seconds of a token that stops trading are not closed: `handle_tick` drains the
  dirty set (`shard.rs:643`) and closes no second younger than the late buffer, so the
  tick after the token's last event is the last one that looks at it.

Of shocks and pair bars:

- A type that fires again exactly ten seconds later replaces its pending shock in the
  second in which that one was to be finalised (`shock.rs:616`). The first row is never
  completed, and its id stays in `pending_shocks`: `OpenOrSuperseded` names this case.
- The bars of a quiet Opinion token are closed late and in bursts, so a response may be
  built before its target bar exists, and another horizon of the same shock may find
  another baseline (`pair_aggregator.rs:1834`).
- The responses of a shock whose Opinion token has no bar yet when `handle_shock` runs are
  built empty even if bars come before they are due.
- A half that arrives after its bucket was flushed gives a second, one-sided bar for the
  same key, and the upsert puts it over the stored one (`db_writer.rs:404`);
  `SplitOnlyIfLate` says this needs a late half. A token that belongs to two pairs has its
  bars stored twice in the history (`pair_aggregator.rs:681`).

Of the books:

- The hash of a Polymarket `book` message is compared with a hash the shard computes over
  price indices and integer sizes (`shard.rs:1656`); the two are never equal, so such a
  message, unless its second was reported already, sends the book into resync, and deltas
  are ignored until a REST snapshot comes.
- `best_bid_ask` cancels the old top when a side's top changes (`ws/polymarket.rs:846`),
  also when the new top is better and the old level is still there.
- Any snapshot clears `resync_needed`; a REST answer that a websocket change has overtaken
  puts the book back, unflagged, until the next refresh.
- Only quiet tokens are refreshed: the book of a token that is never quiet for the
  threshold stays wrong after a dropped delta. `BookRecovers` holds because the venue's
  changes stop.
- With the options of `config.example.yaml:25-47` (active only, websocket first, stale
  filter, cooldown) `BookRecovers` of `OpinionFeed` fails: a quiet token that lost a
  difference is not asked for again, and a lively one whose bootstrap request failed counts
  as current. It is stated for the defaults (`config.rs:505-580`). With a cooldown, each
  latest-price answer may start it anew, which keeps the token out of the book rounds.
- `check_opinion_snapshot_drift` looks only at stamps of the venue; the events it is given
  carry an estimated one, so it never does anything.

## What is not modelled

The sizes in books, the contents of bars and rows, prices, scores, signals and the
statistics by which `on_bar` fires; the cancel limiter and backoffs of the trade engine in
detail (their effect, now or later, is in `TradePair`); the pause of trading in the order
client (its effect, a request that fails, is there too); the delays of rate limiters; the
registry's maps, the clock offset, fees, chain metrics and health, with the reason in
`PROJECT.json`. Column lists, logging, metrics and configuration parsing are left out for
good. One instance is checked of what the code has many of: one shard, one pair aggregator,
one connection per venue; the tokens, pairs and shards are independent of each other but for
the queues, whose losses the models choose freely.
