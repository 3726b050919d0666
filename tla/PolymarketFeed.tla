---------------------------- MODULE PolymarketFeed ----------------------------
(***************************************************************************)
(* How a shard's books of Polymarket tokens follow the venue: the venue    *)
(* tells every change over the websocket (ws/polymarket.rs), the           *)
(* dispatcher puts it into the shard's bounded queue or drops it           *)
(* (dispatcher.rs), the shard applies it (TokenBook), and a snapshotter    *)
(* (rest/polymarket.rs) asks for the books of the tokens that the          *)
(* websocket has said nothing about for a while.                           *)
(*                                                                         *)
(* The venue, its messages and the network are external: messages are      *)
(* delivered in order while the connection is up and lost with it, a       *)
(* request is answered by the venue's book of that moment, or fails, or    *)
(* leaves tokens out.  All tokens belong to one shard.                     *)
(***************************************************************************)
EXTENDS TokenBook, Sequences

CONSTANTS
  Tokens,
  FirstBooks,   \* books the venue may have at the start
  QueueCap,     \* SHARD_QUEUE_CAPACITY
  BatchSize,    \* tokens per request of the snapshotter
  MaxChanges,   \* bound: changes of the venue's books, and other messages
  MaxConnects   \* bound: connections

NoTops == [s \in Sides |-> NoLevel]
VenueBooks == [Sides -> SUBSET Levels]
Best(b) == [s \in Sides |-> BestOf(s, b[s])]

ASSUME PolymarketFeedAssumption ==
  /\ FirstBooks \subseteq VenueBooks
  /\ IsFiniteSet(Tokens)
  /\ {QueueCap, BatchSize} \subseteq Nat \ {0}
  /\ {MaxChanges, MaxConnects} \subseteq Nat

VARIABLES
  venue,      \* the venue's books: the levels of each side
  changes,    \* changes made and other messages sent
  connects,   \* connections made
  up,         \* the connection is up and subscribed
  wire,       \* messages of the connection that were not read yet
  stamped,    \* tokens in last_good_ts of the connection
  lastBest,   \* last_best_bid_ask of the connection
  queue,      \* the shard's queue
  tokens,     \* the shard's state of each token
  announced,  \* tokens in the snapshotter's command channel
  recent,     \* tokens whose last_ws_seen_ms is within the stale threshold
  todo,       \* tokens the snapshotter's round has not asked for yet
  answer      \* books of the last answer it has not sent on yet

connection == <<connects, up, wire, stamped, lastBest>>
snapshotter == <<announced, recent, todo, answer>>
vars == <<venue, changes, connection, queue, tokens, snapshotter>>

Init ==
  /\ venue \in [Tokens -> FirstBooks]
  /\ changes = 0 /\ connects = 0
  /\ up = FALSE /\ wire = <<>> /\ stamped = {}
  /\ lastBest = [t \in Tokens |-> NoTops]
  /\ queue = <<>>
  /\ tokens = [t \in Tokens |-> NewToken]
  /\ announced = {}
  /\ recent = {}
  /\ todo = Tokens        \* the bootstrap round
  /\ answer = <<>>
-----------------------------------------------------------------------------
(* The venue.                                                                *)

Tell(messages) == wire' = IF up THEN wire \o messages ELSE wire

(* A level appears or goes: a price_change with the tops after it, and a     *)
(* best_bid_ask if they are others than before.                              *)
Change(t, s, x) ==
  LET present == x \notin venue[t][s]
      new == [venue[t] EXCEPT ![s] = IF present THEN @ \cup {x} ELSE @ \ {x}]
      change == [kind |-> "price_change", token |-> t, side |-> s, level |-> x,
                 present |-> present, tops |-> Best(new)]
      top == [kind |-> "best_bid_ask", token |-> t, tops |-> Best(new)]
  IN /\ changes < MaxChanges
     /\ ~Crossed(Best(new))
     /\ changes' = changes + 1
     /\ venue' = [venue EXCEPT ![t] = new]
     /\ Tell(<<change>> \o (IF Best(new) # Best(venue[t]) THEN <<top>> ELSE <<>>))
     /\ UNCHANGED <<connects, up, stamped, lastBest, queue, tokens, snapshotter>>

(* A book message out of turn, a trade or a new tick size. *)
Message(t, kind) ==
  /\ changes < MaxChanges /\ up
  /\ changes' = changes + 1
  /\ Tell(<<[kind |-> kind, token |-> t, sides |-> venue[t]]>>)
  /\ UNCHANGED <<venue, connects, up, stamped, lastBest, queue, tokens, snapshotter>>
-----------------------------------------------------------------------------
(* run_polymarket_ws.                                                        *)

(* The venue answers the subscription of a new connection with the books of  *)
(* some tokens, in some order.  Failed attempts and their backoff are time   *)
(* in which nothing happens.                                                 *)
Connect(order) ==
  /\ ~up /\ connects < MaxConnects
  /\ up' = TRUE
  /\ connects' = connects + 1
  /\ wire' = [i \in DOMAIN order |->
                [kind |-> "book", token |-> order[i], sides |-> venue[order[i]]]]
  /\ UNCHANGED <<venue, changes, stamped, lastBest, queue, tokens, snapshotter>>

(* The loop over a connection ends, with an error, a close, the end of the   *)
(* stream or by the stale tick: what it remembered and what was not read is  *)
(* gone.                                                                     *)
Disconnect ==
  /\ up
  /\ up' = FALSE
  /\ wire' = <<>>
  /\ stamped' = {}
  /\ lastBest' = [t \in Tokens |-> NoTops]
  /\ UNCHANGED <<venue, changes, connects, queue, tokens, snapshotter>>

(* Faulty: the queue takes one event more. *)
RoomForOneMore(n) == IF Len(queue) + n <= QueueCap + 1 THEN n ELSE QueueCap + 1 - Len(queue)

(* The dispatcher's try_send to the shard: an event that finds no room is    *)
(* dropped.                                                                  *)
Room(n) == IF Len(queue) + n <= QueueCap THEN n ELSE QueueCap - Len(queue)
Enqueue(events) == queue' = queue \o SubSeq(events, 1, Room(Len(events)))

Delta(m, s, x, present, late) ==
  [kind |-> m.kind, token |-> m.token, side |-> s, level |-> x, present |-> present,
   tops |-> m.tops, late |-> late]

(* A side whose top was o and is n: the old top is cancelled, the new added. *)
TopSide(m, s, o, n, late) ==
  IF n = o THEN <<>>
  ELSE (IF o = NoLevel THEN <<>> ELSE <<Delta(m, s, o, FALSE, late)>>)
       \o <<Delta(m, s, n, TRUE, late)>>

(* parse_best_bid_ask: a top that the message does not name is the old one. *)
TopEvents(m, late) ==
  LET old == lastBest[m.token]
      top == [s \in Sides |-> IF m.tops[s] = NoLevel THEN old[s] ELSE m.tops[s]]
  IN TopSide(m, "bid", old["bid"], top["bid"], late)
     \o TopSide(m, "ask", old["ask"], top["ask"], late)

(* parse_book, with the hash of the message. *)
BookEvents(m, late) ==
  <<[kind |-> "snapshot", token |-> m.token, given |-> m.sides, hashed |-> TRUE, late |-> late]>>

(* parse_price_change, for one change. *)
ChangeEvents(m, late) == <<Delta(m, m.side, m.level, m.present, late)>>

(* parse_last_trade, parse_tick_size: events that leave the book alone. *)
OtherEvents(m) == <<[kind |-> "other", token |-> m.token]>>

EventsOf(m, late) ==
  CASE m.kind = "book" -> BookEvents(m, late)
    [] m.kind = "price_change" -> ChangeEvents(m, late)
    [] m.kind = "best_bid_ask" -> TopEvents(m, late)
    [] OTHER -> OtherEvents(m)

(* validate_exchange_ts: a stamp may be older than the newest of its token's. *)
MayBeLate(t) == IF t \in stamped THEN BOOLEAN ELSE {FALSE}

(* A message is read: every event is announced to the snapshotter, if its    *)
(* channel has room, and dispatched.                                         *)
ReadMessage ==
  /\ wire # <<>>
  /\ LET m == Head(wire) IN
     \E late \in MayBeLate(m.token) :
       /\ Enqueue(EventsOf(m, late))
       /\ announced' \in IF EventsOf(m, late) = <<>> THEN {announced}
                         ELSE {announced, announced \cup {m.token}}
       /\ stamped' = stamped \cup {m.token}
       /\ lastBest' = IF m.kind = "best_bid_ask"
                      THEN [lastBest EXCEPT ![m.token] =
                              [s \in Sides |-> IF m.tops[s] = NoLevel THEN @[s] ELSE m.tops[s]]]
                      ELSE lastBest
  /\ wire' = Tail(wire)
  /\ UNCHANGED <<venue, changes, connects, up, tokens, recent, todo, answer>>
-----------------------------------------------------------------------------
(* The shard.                                                                *)

HandleEvent ==
  /\ queue # <<>>
  /\ LET e == Head(queue) IN
     \E same \in SameSecond(tokens[e.token]) :
       tokens' = [tokens EXCEPT ![e.token] = AfterEvent(@, e, same)]
  /\ queue' = Tail(queue)
  /\ UNCHANGED <<venue, changes, connection, snapshotter>>
-----------------------------------------------------------------------------
(* run_polymarket_snapshotter: a loop over its ticks and its commands.       *)

Idle == todo = {} /\ answer = <<>>

ReceiveActivity(t) ==
  /\ Idle /\ t \in announced
  /\ announced' = announced \ {t}
  /\ recent' = recent \cup {t}
  /\ UNCHANGED <<venue, changes, connection, queue, tokens, todo, answer>>

(* The stale threshold passes. *)
Age(t) ==
  /\ t \in recent
  /\ recent' = recent \ {t}
  /\ UNCHANGED <<venue, changes, connection, queue, tokens, announced, todo, answer>>

(* Faulty: asks for the tokens the websocket spoke of. *)
RefreshRecent ==
  /\ Idle /\ recent # {}
  /\ todo' = recent
  /\ UNCHANGED <<venue, changes, connection, queue, tokens, announced, recent, answer>>

(* A tick asks for the tokens of which the websocket said nothing for the    *)
(* threshold, or never anything.                                             *)
Refresh ==
  /\ Idle /\ recent # Tokens
  /\ todo' = Tokens \ recent
  /\ UNCHANGED <<venue, changes, connection, queue, tokens, announced, recent, answer>>

(* fetch_books_batch: the next tokens are asked for; the answer is the books *)
(* of this moment, of some of them; of none if the request fails.            *)
Fetch(batch, answered) ==
  /\ answer = <<>> /\ todo # {}
  /\ batch \subseteq todo
  /\ Cardinality(batch) = IF Cardinality(todo) < BatchSize THEN Cardinality(todo) ELSE BatchSize
  /\ answered \subseteq batch
  /\ todo' = todo \ batch
  /\ answer' = [t \in answered |-> venue[t]]
  /\ UNCHANGED <<venue, changes, connection, queue, tokens, announced, recent>>

(* build_snapshot_event: no hash, and no comparison of its stamp. *)
RestSnapshot(t) ==
  [kind |-> "snapshot", token |-> t, given |-> answer[t], hashed |-> FALSE, late |-> FALSE]

(* The answered books are dispatched one after the other. *)
SendSnapshot(t) ==
  /\ t \in DOMAIN answer
  /\ Enqueue(<<RestSnapshot(t)>>)
  /\ answer' = [u \in DOMAIN answer \ {t} |-> answer[u]]
  /\ UNCHANGED <<venue, changes, connection, tokens, announced, recent, todo>>
-----------------------------------------------------------------------------
(* The orders in which the books of some tokens may come. *)
Orders ==
  {o \in UNION {[1..n -> Tokens] : n \in 0..Cardinality(Tokens)} :
     \A i, j \in DOMAIN o : o[i] = o[j] => i = j}

Next ==
  \/ \E t \in Tokens, s \in Sides, x \in Levels : Change(t, s, x)
  \/ \E t \in Tokens, kind \in {"book", "trade"} : Message(t, kind)
  \/ \E order \in Orders : Connect(order)
  \/ Disconnect
  \/ ReadMessage
  \/ HandleEvent
  \/ \E t \in Tokens : ReceiveActivity(t) \/ Age(t) \/ SendSnapshot(t)
  \/ Refresh
  \/ \E batch \in SUBSET todo : \E answered \in SUBSET batch : Fetch(batch, answered)

Spec == Init /\ [][Next]_vars

(* The tasks keep running, time passes, and the venue answers for a token    *)
(* that is asked for again and again.                                        *)
Answered(t) ==
  \E batch \in SUBSET todo : \E answered \in SUBSET batch : t \in answered /\ Fetch(batch, answered)

Fairness ==
  /\ WF_vars(ReadMessage)
  /\ WF_vars(HandleEvent)
  /\ WF_vars(Refresh)
  /\ WF_vars(\E batch \in SUBSET todo : \E answered \in SUBSET batch : Fetch(batch, answered))
  /\ \A t \in Tokens :
       /\ WF_vars(ReceiveActivity(t))
       /\ WF_vars(Age(t))
       /\ WF_vars(SendSnapshot(t))
       /\ SF_vars(Answered(t))

FairSpec == Spec /\ Fairness
-----------------------------------------------------------------------------
(* Properties.                                                               *)

WireMessages ==
  [kind : {"price_change"}, token : Tokens, side : Sides, level : Levels,
   present : BOOLEAN, tops : Tops]
  \cup [kind : {"best_bid_ask"}, token : Tokens, tops : Tops]
  \cup [kind : {"book", "trade"}, token : Tokens, sides : VenueBooks]

(* The types of the feed's state. *)
TypeOK ==
  /\ venue \in [Tokens -> VenueBooks]
  /\ changes \in 0..MaxChanges /\ connects \in 0..MaxConnects
  /\ up \in BOOLEAN /\ wire \in Seq(WireMessages)
  /\ stamped \subseteq Tokens
  /\ lastBest \in [Tokens -> Tops]
  /\ Len(queue) <= QueueCap
  /\ \A i \in DOMAIN queue : queue[i].token \in Tokens /\ IsEvent(queue[i])
  /\ tokens \in [Tokens -> TokenState]
  /\ announced \subseteq Tokens
  /\ recent \subseteq Tokens
  /\ todo \subseteq Tokens
  /\ \A t \in DOMAIN answer : t \in Tokens /\ answer[t] \in VenueBooks

(* DenseBook's cached counts and best levels are those of its levels, through *)
(* every order of snapshots, price changes, synthesised top updates and      *)
(* losses.                                                                   *)
CachesExact == \A t \in Tokens, s \in Sides : Exact(s, tokens[t].book[s])

(* check_resync: a crossed book waits for a snapshot, or was reported in the *)
(* second of its last event.                                                 *)
CrossedIsFlagged == \A t \in Tokens : FlaggedIfCrossed(tokens[t])

(* Whatever was dropped, reordered or lost on the way: when the venue's books *)
(* stop changing, every token's book becomes the venue's, and waits for      *)
(* nothing, for good.                                                        *)
BookRecovers ==
  \A t \in Tokens :
    <>[](LevelsOf(tokens[t].book) = venue[t] /\ ~tokens[t].resync)
=============================================================================
