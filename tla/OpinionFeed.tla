----------------------------- MODULE OpinionFeed -----------------------------
(***************************************************************************)
(* How a shard's books of Opinion tokens follow the venue.  The websocket  *)
(* (ws/opinion.rs) brings differences only, none before the token has had  *)
(* its first snapshot count; the snapshotter (rest/opinion.rs) asks for    *)
(* whole books: once at the start, at two kinds of ticks, when a           *)
(* connection is made, when the market falls silent, and when the trade    *)
(* engine wants a token.  Which tokens it asks for depends on how long     *)
(* they have been quiet, on rate limits, on a cooldown for stale markets   *)
(* and on the configuration.                                               *)
(*                                                                         *)
(* Times are kept as the windows the code compares them with, and the end  *)
(* of a window is an action.  The venue and the network are external; an   *)
(* event that the dispatcher drops is one that is not handled.             *)
(***************************************************************************)
EXTENDS TokenBook, Sequences

CONSTANTS
  Tokens,
  FirstBooks,   \* books the venue may have at the start
  Configs,      \* configurations: see Configurations
  Concurrency,  \* requests under way at a time
  MaxChanges,   \* bound: changes of the venue's books, other messages, and tokens
                \* wanted by the trade engine
  MaxConnects,  \* bound: connections
  MaxLimited    \* bound: answers that name a rate limit

VenueBooks == [Sides -> SUBSET Levels]

(* rest_active_only; rest_ws_primary; the limits of filter_orderbook_targets *)
(* are set; the cooldown is set.                                             *)
Configurations ==
  [activeOnly : BOOLEAN, wsPrimary : BOOLEAN, staleFilter : BOOLEAN, cooldown : BOOLEAN]

ASSUME OpinionFeedAssumption ==
  /\ IsFiniteSet(Tokens)
  /\ FirstBooks \subseteq VenueBooks
  /\ Configs \subseteq Configurations
  /\ Concurrency \in Nat \ {0}
  /\ {MaxChanges, MaxConnects, MaxLimited} \subseteq Nat

VARIABLES
  config,      \* the configuration of this run
  venue,       \* the venue's books
  changes,     \* what MaxChanges bounds
  connects,    \* connections made
  up,          \* the connection is up
  subscribed,  \* the tokens whose differences it brings
  tokens,      \* the shard's state of each token
  commands,    \* what is in the snapshotter's command channel
  age,         \* of a token's last activity: fresh (inactive_sec), active
               \* (active_window_sec) or old
  current,     \* tokens the stale filter keeps away
  cooling,     \* tokens in cooldown
  backoff,     \* tokens in backoff after a rate limit
  global,      \* the global backoff is on
  limited,     \* answers that named a rate limit
  suppressed,  \* a connection was made a short time ago
  wanted,      \* tokens of the on-demand round still to be started
  pending,     \* other rounds still to be started for the commands received
  todo,        \* tokens of the running round not asked for yet
  asked        \* tokens asked for, and the book the answer will bring

world == <<config, venue, changes>>
connection == <<connects, up, subscribed>>
limits == <<current, cooling, backoff, global, limited>>
round == <<wanted, pending, todo, asked>>
vars == <<world, connection, tokens, commands, age, limits, suppressed, round>>

Commands == [kind : {"price", "book", "token"}, token : Tokens] \cup [kind : {"inactive", "all"}]
Command(kind) == [kind |-> kind]
About(kind, t) == [kind |-> kind, token |-> t]

Init ==
  /\ config \in Configs
  /\ venue \in [Tokens -> FirstBooks]
  /\ changes = 0 /\ connects = 0
  /\ up = FALSE /\ subscribed = {}
  /\ tokens = [t \in Tokens |-> NewToken]
  /\ commands = {}
  /\ age = [t \in Tokens |-> "old"]
  /\ current = {} /\ cooling = {} /\ backoff = {}
  /\ global = FALSE /\ limited = 0
  /\ suppressed = FALSE
  /\ wanted = {} /\ pending = {}
  /\ todo = Tokens             \* the bootstrap round
  /\ asked = <<>>

(* try_send to the snapshotter: a full channel loses the command. *)
Send(cs) == commands' \in {commands, commands \cup cs}

(* An event of the token reaches its shard. *)
Handle(t, e) ==
  \E same \in SameSecond(tokens[t]) :
    tokens' = [tokens EXCEPT ![t] = AfterEvent(@, e, same)]

Diff(s, x, present) ==
  [kind |-> "depth_diff", side |-> s, level |-> x, present |-> present,
   tops |-> [side \in Sides |-> NoLevel], late |-> FALSE]
Snapshot(book) == [kind |-> "snapshot", given |-> book, hashed |-> FALSE, late |-> FALSE]

(* handle_message: the snapshotter hears of the message, then it is dispatched. *)
Received(t, kind, e) ==
  /\ Send({About(kind, t)})
  /\ Handle(t, e) \/ UNCHANGED tokens
-----------------------------------------------------------------------------
(* The venue and run_opinion_ws.                                             *)

(* A level appears or goes; the difference is sent if the token is           *)
(* subscribed.                                                               *)
Change(t, s, x) ==
  LET present == x \notin venue[t][s]
      new == [venue[t] EXCEPT ![s] = IF present THEN @ \cup {x} ELSE @ \ {x}]
  IN /\ changes < MaxChanges
     /\ ~Crossed([side \in Sides |-> BestOf(side, new[side])])
     /\ changes' = changes + 1
     /\ venue' = [venue EXCEPT ![t] = new]
     /\ IF t \in subscribed
        THEN Received(t, "book", Diff(s, x, present))
        ELSE UNCHANGED <<commands, tokens>>
     /\ UNCHANGED <<config, connection, age, limits, suppressed, round>>

(* market.last.price, market.last.trade. *)
Price(t) ==
  /\ changes < MaxChanges /\ t \in subscribed
  /\ changes' = changes + 1
  /\ Received(t, "price", [kind |-> "other"])
  /\ UNCHANGED <<config, venue, connection, age, limits, suppressed, round>>

(* A connection: every subscription may fail unnoticed; the snapshotter is   *)
(* told to refresh all tokens.                                               *)
Connect(S) ==
  /\ ~up /\ connects < MaxConnects
  /\ up' = TRUE /\ subscribed' = S
  /\ connects' = connects + 1
  /\ Send({Command("all")})
  /\ UNCHANGED <<world, tokens, age, limits, suppressed, round>>

(* The loop over a connection ends: error, close, silence, server errors.    *)
(* try_trigger_opinion_gapfill asks for the quiet tokens, but not twice      *)
(* within 30 seconds.                                                        *)
Disconnect ==
  /\ up
  /\ up' = FALSE /\ subscribed' = {}
  /\ Send({Command("inactive")})
  /\ UNCHANGED <<world, connects, tokens, age, limits, suppressed, round>>

(* A failed connection attempt, or a heartbeat that finds the market silent. *)
RequestGapfill ==
  /\ Command("inactive") \notin commands
  /\ commands' = commands \cup {Command("inactive")}
  /\ UNCHANGED <<world, connection, tokens, age, limits, suppressed, round>>

(* The trade engine wants the token's book. *)
RequestToken(t) ==
  /\ About("token", t) \notin commands
  /\ changes < MaxChanges
  /\ changes' = changes + 1
  /\ commands' = commands \cup {About("token", t)}
  /\ UNCHANGED <<config, venue, connection, tokens, age, limits, suppressed, round>>
-----------------------------------------------------------------------------
(* run_opinion_snapshotter: what starts a round.                             *)

RoundOver == todo = {} /\ asked = <<>>
Idle == RoundOver /\ wanted = {} /\ pending = {}

(* The cooldown, filter_orderbook_targets and filter_targets_by_backoff. *)
Filtered(T) == T \ (cooling \cup current \cup backoff)

(* Faulty: a backoff holds up the trade engine's tokens too. *)
OnDemandFiltered(T) == Filtered(T)

(* A wanted token has priority over its backoff, not over the others. *)
PriorityFiltered(T) == T \ (cooling \cup current)

(* Faulty: a token without a book is not asked for. *)
InactiveWithBook == {t \in Tokens : age[t] # "fresh" /\ tokens[t].initialized}

(* partition_targets_by_activity, by inactive_sec and by active_window_sec. *)
Inactive == {t \in Tokens : age[t] # "fresh"}
Active == {t \in Tokens : age[t] # "old"}

StartRound(T) ==
  /\ T # {} /\ todo' = T
  /\ UNCHANGED <<world, connection, tokens, commands, age, limits, suppressed, wanted, pending, asked>>

(* The interval of snapshot_interval_min. *)
Refresh == Idle /\ ~global /\ StartRound(Filtered(Active))

(* The interval of fast_interval_sec. *)
FastTick ==
  /\ Idle /\ ~global /\ ~suppressed
  /\ ~config.activeOnly
  /\ StartRound(Filtered(Inactive))

(* The command arm: everything in the channel is taken at once. *)
ReceiveCommands ==
  LET Of(kinds) == {t \in Tokens : \E k \in kinds : About(k, t) \in commands} IN
  /\ Idle /\ commands # {}
  /\ commands' = {}
  /\ age' = [t \in Tokens |-> IF t \in Of({"price", "book"}) THEN "fresh" ELSE age[t]]
  /\ current' = IF config.staleFilter THEN current \cup Of({"book"}) ELSE current
  /\ suppressed' = (suppressed \/ Command("all") \in commands)
  /\ wanted' = Of({"token"})
  /\ pending' = {k \in {"inactive", "all"} : Command(k) \in commands}
  /\ UNCHANGED <<world, connection, tokens, cooling, backoff, global, limited, todo, asked>>

OnDemand ==
  /\ RoundOver /\ wanted # {}
  /\ todo' = PriorityFiltered(wanted)
  /\ wanted' = {}
  /\ UNCHANGED <<world, connection, tokens, commands, age, limits, suppressed, pending, asked>>

(* The gap filler leaves out tokens of which the websocket spoke within a    *)
(* quarter of an hour, unless they have priority: T is what is left.         *)
Gapfill(T) ==
  /\ RoundOver /\ wanted = {} /\ "inactive" \in pending
  /\ T \subseteq Filtered(Inactive)
  /\ global \/ suppressed => T = {}
  /\ todo' = T
  /\ pending' = pending \ {"inactive"}
  /\ UNCHANGED <<world, connection, tokens, commands, age, limits, suppressed, wanted, asked>>

TriggerAll ==
  /\ RoundOver /\ wanted = {} /\ pending = {"all"}
  /\ todo' = Filtered(Tokens)
  /\ pending' = {}
  /\ UNCHANGED <<world, connection, tokens, commands, age, limits, suppressed, wanted, asked>>
-----------------------------------------------------------------------------
(* run_snapshot_round and fetch_and_emit.                                    *)

(* Faulty: a token that is asked for stays in the round. *)
AskAgain(t) ==
  /\ t \in todo
  /\ Cardinality(DOMAIN asked) < Concurrency
  /\ asked' = [u \in DOMAIN asked \cup {t} |-> IF u = t THEN venue[t] ELSE asked[u]]
  /\ UNCHANGED <<world, connection, tokens, commands, age, limits, suppressed, wanted, pending, todo>>

(* A request is sent; the answer will be the book of this moment. *)
Ask(t) ==
  /\ t \in todo
  /\ Cardinality(DOMAIN asked) < Concurrency
  /\ todo' = todo \ {t}
  /\ asked' = [u \in DOMAIN asked \cup {t} |-> IF u = t THEN venue[t] ELSE asked[u]]
  /\ UNCHANGED <<world, connection, tokens, commands, age, limits, suppressed, wanted, pending>>

Done(t) == asked' = [u \in DOMAIN asked \ {t} |-> asked[u]]

(* An error, or a body that cannot be used. *)
Failed(t) ==
  /\ t \in DOMAIN asked
  /\ Done(t)
  /\ UNCHANGED <<world, connection, tokens, commands, age, limits, suppressed, wanted, pending, todo>>

(* 429: mark_rest_backoff, mark_rest_global_backoff; the round goes on. *)
MarkLimited(t) ==
  /\ limited < MaxLimited
  /\ limited' = limited + 1
  /\ backoff' = backoff \cup {t}
  /\ global' = TRUE

Limited(t) ==
  /\ t \in DOMAIN asked
  /\ Done(t)
  /\ MarkLimited(t)
  /\ UNCHANGED <<world, connection, tokens, commands, age, current, cooling, suppressed, wanted, pending, todo>>

(* An answer counts as activity unless only the websocket does, and sets the *)
(* cooldown if the market's last change is long ago.                         *)
Arrived(t) ==
  /\ age' = IF config.wsPrimary THEN age ELSE [age EXCEPT ![t] = "fresh"]
  /\ cooling' \in IF config.cooldown THEN {cooling, cooling \cup {t}} ELSE {cooling}

(* The book arrives, and its snapshot is handled or dropped on the way. *)
Answered(t) ==
  /\ t \in DOMAIN asked
  /\ Done(t)
  /\ Arrived(t)
  /\ UNCHANGED <<world, connection, commands, current, backoff, global, limited, suppressed,
                 wanted, pending, todo>>

Delivered(t) == Answered(t) /\ Handle(t, Snapshot(asked[t]))
Dropped(t) == Answered(t) /\ UNCHANGED tokens

(* The latest-price task: its tick chooses active or inactive tokens (with    *)
(* latest_price_all off), and may leave some out for the websocket's sake    *)
(* or for its budget, ...                                                    *)
PriceTargets ==
  (IF config.activeOnly THEN Tokens \ Inactive ELSE Inactive) \ (cooling \cup backoff)

(* ... fetch_latest_price meets the rate limit or brings a price, an event    *)
(* that leaves the book alone, ...                                           *)
PriceAnswered(t) ==
  \/ Arrived(t) /\ UNCHANGED <<backoff, global, limited>>
  \/ MarkLimited(t) /\ UNCHANGED <<age, cooling>>

(* ... and its rounds run side by side with those for books.                 *)
LatestPrice(t) ==
  /\ ~global /\ t \in PriceTargets
  /\ PriceAnswered(t)
  /\ UNCHANGED <<world, connection, tokens, commands, current, suppressed, round>>
-----------------------------------------------------------------------------
(* Windows end.                                                              *)

Quieter(t) ==
  /\ age[t] # "old"
  /\ age' = [age EXCEPT ![t] = IF @ = "fresh" THEN "active" ELSE "old"]
  /\ UNCHANGED <<world, connection, tokens, commands, limits, suppressed, round>>

BookStale(t) ==
  /\ t \in current /\ current' = current \ {t}
  /\ UNCHANGED <<world, connection, tokens, commands, age, cooling, backoff, global, limited, suppressed, round>>

CooldownEnds(t) ==
  /\ t \in cooling /\ cooling' = cooling \ {t}
  /\ UNCHANGED <<world, connection, tokens, commands, age, current, backoff, global, limited, suppressed, round>>

BackoffEnds(t) ==
  /\ t \in backoff /\ backoff' = backoff \ {t}
  /\ UNCHANGED <<world, connection, tokens, commands, age, current, cooling, global, limited, suppressed, round>>

GlobalEnds ==
  /\ global /\ global' = FALSE
  /\ UNCHANGED <<world, connection, tokens, commands, age, current, cooling, backoff, limited, suppressed, round>>

SuppressEnds ==
  /\ suppressed /\ suppressed' = FALSE
  /\ UNCHANGED <<world, connection, tokens, commands, age, limits, round>>
-----------------------------------------------------------------------------
Next ==
  \/ \E t \in Tokens, s \in Sides, x \in Levels : Change(t, s, x)
  \/ \E S \in SUBSET Tokens : Connect(S)
  \/ Disconnect
  \/ RequestGapfill
  \/ Refresh \/ FastTick
  \/ ReceiveCommands \/ OnDemand \/ TriggerAll
  \/ \E T \in SUBSET Tokens : Gapfill(T)
  \/ \E t \in Tokens :
       \/ Price(t) \/ RequestToken(t)
       \/ Ask(t) \/ Failed(t) \/ Limited(t) \/ Delivered(t) \/ Dropped(t)
       \/ LatestPrice(t)
       \/ Quieter(t) \/ BookStale(t) \/ CooldownEnds(t) \/ BackoffEnds(t)
  \/ GlobalEnds \/ SuppressEnds

Spec == Init /\ [][Next]_vars

(* The tasks keep running and windows end; select! takes its ready branches  *)
(* at random, so neither the commands nor the ticks are passed over for      *)
(* ever; and of the answers some arrive.                                     *)
Fairness ==
  /\ WF_vars(OnDemand) /\ WF_vars(TriggerAll)
  /\ WF_vars(\E T \in SUBSET Tokens : Gapfill(T))
  /\ WF_vars(GlobalEnds) /\ WF_vars(SuppressEnds)
  /\ SF_vars(ReceiveCommands)
  /\ \A t \in Tokens :
       /\ SF_vars(Refresh /\ t \in todo')
       /\ SF_vars(FastTick /\ t \in todo')
       /\ WF_vars(Ask(t))
       /\ WF_vars(Failed(t) \/ Limited(t) \/ Delivered(t) \/ Dropped(t))
       /\ SF_vars(Delivered(t))
       /\ WF_vars(Quieter(t))
       /\ WF_vars(BookStale(t))
       /\ WF_vars(CooldownEnds(t))
       /\ WF_vars(BackoffEnds(t))

FairSpec == Spec /\ Fairness
-----------------------------------------------------------------------------
(* Properties.                                                               *)

(* The types of the feed's state. *)
TypeOK ==
  /\ config \in Configs
  /\ venue \in [Tokens -> VenueBooks]
  /\ changes \in 0..MaxChanges /\ connects \in 0..MaxConnects /\ limited \in 0..MaxLimited
  /\ {up, global, suppressed} \subseteq BOOLEAN
  /\ tokens \in [Tokens -> TokenState]
  /\ commands \subseteq Commands
  /\ age \in [Tokens -> {"fresh", "active", "old"}]
  /\ \A T \in {subscribed, current, cooling, backoff, wanted, todo, DOMAIN asked} : T \subseteq Tokens
  /\ pending \subseteq {"inactive", "all"}
  /\ todo \cap DOMAIN asked = {}

(* Without the options that spare requests: whatever was lost, refused or    *)
(* overtaken, when the venue's books and rate limits stop changing every     *)
(* token's book becomes the venue's for good, and waits for nothing.         *)
BookRecovers ==
  config = [activeOnly |-> FALSE, wsPrimary |-> FALSE, staleFilter |-> FALSE, cooldown |-> FALSE]
    => \A t \in Tokens :
         <>[](LevelsOf(tokens[t].book) = venue[t] /\ ~tokens[t].resync)

(* A token the trade engine asks for is asked of the venue, past rate limits *)
(* and rounds under way, unless its cooldown or a recent book speaks against.*)
OnDemandServed ==
  \A t \in Tokens :
    About("token", t) \in commands ~> t \in todo \cup cooling \cup current
=============================================================================
