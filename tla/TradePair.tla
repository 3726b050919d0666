------------------------------ MODULE TradePair ------------------------------
(***************************************************************************)
(* The life of one pair in the live trade engine (trade/mod.rs): an entry  *)
(* order, the position it opens, the exit order, and the cooldown.         *)
(*                                                                         *)
(* The engine is one task.  It sends place, cancel and fill requests to    *)
(* the order executor, where each runs in a task of its own, so that the   *)
(* answers come back in any order; the venue also reports fills and        *)
(* cancellations over the user channel.  The exit order is placed inside a *)
(* handler, which awaits its answer.                                       *)
(*                                                                         *)
(* The price is 1 throughout, so that a notional is a quantity.  Clocks,   *)
(* backoffs, the cancel limiter and the market signals only decide whether *)
(* a request is sent now or later, and are left open.                      *)
(***************************************************************************)
EXTENDS Integers, Sequences, FiniteSets, FiniteSetsExt

CONSTANTS
  Reqs,        \* request ids; one is used again once nothing refers to it
  Orders,      \* bound: the orders the venue ever opens
  MaxQty,      \* bound: the size of an entry
  Settings,    \* bounds to choose from: what VARIABLE setting may be
  UserChannel, \* ws_user_channels_enabled
  Trouble,     \* what goes wrong at the venue: "lost", "no_id", "refused", "unavailable"
  NoReq, NoOrder

ASSUME TradePairAssumption ==
  /\ MaxQty \in Nat \ {0}
  /\ Settings \subseteq [qty : 1..MaxQty, orders : Nat, waiting : Nat]
  /\ UserChannel \in BOOLEAN
  /\ Trouble \subseteq {"lost", "no_id", "refused", "unavailable"}
  /\ NoReq \notin Reqs /\ NoOrder \notin Orders

VARIABLES
  setting,  \* qty: the size of an entry, whose fills are whole when it is 1; bounds:
            \* orders the venue ever opens, waiting user channel messages
  pair,     \* PairTradeState of the pair
  risk,     \* the pair's share of TradeRiskState
  flight,   \* requests at the executor, and answers the engine has not handled
  orders,   \* the venue's orders
  channel,  \* user channel messages the engine has not handled
  cache     \* open_orders_cache of the market

vars == <<setting, pair, risk, flight, orders, channel, cache>>

States == {"Idle", "EntryPlacing", "EntryWorking", "PositionOpen", "ExitWorking", "Cooldown"}
Working == {"EntryWorking", "PositionOpen", "ExitWorking"}

(* The fields are those of PairTradeState with shorter names: place, cancelReq,
   exitCancelReq and poll are the request ids it waits for, order and exit the ids of
   its orders, cancel and exitCancel the pending flags; a notional of 0 is None. *)
Pair == [state : States, notional : 0..MaxQty,
         order : Orders \cup {NoOrder}, exit : Orders \cup {NoOrder},
         cancel : BOOLEAN, exitCancel : BOOLEAN,
         place : Reqs \cup {NoReq}, cancelReq : Reqs \cup {NoReq},
         exitCancelReq : Reqs \cup {NoReq}, poll : Reqs \cup {NoReq}]

Trades == [Orders -> 0..MaxQty]
NoTrades == [o \in Orders |-> 0]
Request == [id : Reqs, kind : {"place", "cancel", "entry_fills", "exit_fills"},
            order : Orders \cup {NoOrder}, trades : Trades,
            answer : {"none", "placed", "rejected", "ok", "failed", "listed"} \cup Trouble]

(* early is the part of an entry filled before the engine stamped entry_ts_ms. *)
Order == [entry : BOOLEAN, size : 0..MaxQty, filled : 0..MaxQty, early : 0..MaxQty, cancelled : BOOLEAN]
Unused == [entry |-> FALSE, size |-> 0, filled |-> 0, early |-> 0, cancelled |-> FALSE]

Open(o) == orders[o].filled < orders[o].size /\ ~orders[o].cancelled
NewOrders ==
  IF Cardinality({o \in Orders : orders[o] # Unused}) < setting.orders
    THEN {o \in Orders : orders[o] = Unused} ELSE {}
Opened(o, entry, size) == [orders EXCEPT ![o].entry = entry, ![o].size = size]

Min2(a, b) == IF a <= b THEN a ELSE b
-----------------------------------------------------------------------------
(* reset_for_idle *)
Fresh == [state |-> "Idle", notional |-> 0, order |-> NoOrder, exit |-> NoOrder,
          cancel |-> FALSE, exitCancel |-> FALSE, place |-> NoReq, cancelReq |-> NoReq,
          exitCancelReq |-> NoReq, poll |-> NoReq]

(* enter_cooldown: everything but the position's figures is cleared. *)
Cooled(p) == [Fresh EXCEPT !.state = "Cooldown", !.notional = p.notional]

Init ==
  /\ setting \in Settings
  /\ pair = Fresh
  /\ risk = [used |-> 0, open |-> 0]
  /\ flight = {}
  /\ orders = [o \in Orders |-> Unused]
  /\ channel = <<>>
  /\ cache = [known |-> FALSE, open |-> {}]

(* Request ids come from a counter: a new one differs from every one still around. *)
Awaited(p) == {p.place, p.cancelReq, p.exitCancelReq, p.poll}
FreeIds(p, f) == (Reqs \ Awaited(p)) \ {r.id : r \in f}

(* The request sent under an id; none under NoReq. *)
Sent(id, kind, o) ==
  IF id = NoReq THEN {}
  ELSE {[id |-> id, kind |-> kind, order |-> o, answer |-> "none", trades |-> NoTrades]}

Refers(field, id) == IF id = NoReq THEN field ELSE id

(* Two ids for the cancel and the fill requests a check may send, NoReq for none. *)
Ids(p, f) ==
  {i \in (FreeIds(p, f) \cup {NoReq}) \X (FreeIds(p, f) \cup {NoReq}) :
     i[1] = NoReq \/ i[1] # i[2]}

(* add_exposure and release_exposure *)
Added(n) ==
  IF n <= 0 THEN risk ELSE [used |-> risk.used + n, open |-> risk.open + 1]
Released(n) ==
  IF n <= 0 THEN risk
  ELSE [used |-> risk.used - Min2(n, risk.used), open |-> risk.open - Min2(1, risk.open)]
-----------------------------------------------------------------------------
(* maybe_enter: an idle pair sends its entry. *)
Enter ==
  /\ pair.state = "Idle"
  /\ \E id \in FreeIds(pair, flight) :
       /\ pair' = [pair EXCEPT !.state = "EntryPlacing", !.notional = setting.qty, !.place = id]
       /\ flight' = flight \cup Sent(id, "place", NoOrder)
  /\ UNCHANGED <<setting, risk, orders, channel, cache>>

(* maybe_enter: there is no price to offer, or the pair has no order target. *)
EnterRefused ==
  /\ pair.state = "Idle"
  /\ \E n \in {0, setting.qty} : pair' = Cooled([pair EXCEPT !.notional = n])
  /\ UNCHANGED <<setting, risk, flight, orders, channel, cache>>

(* handle_entry_place_result: the entry works, or nothing of it is left.  Trades
   older than entry_ts_ms, which is stamped here, are never looked at by a poll. *)
HandlePlaceAnswer(r) ==
  /\ r \in flight /\ r.kind = "place" /\ r.answer # "none"
  /\ flight' = flight \ {r}
  /\ \/ /\ r.id # pair.place
        /\ UNCHANGED <<pair, risk, orders>>
     \/ /\ r.id = pair.place /\ r.answer \in {"placed", "no_id"}
        /\ pair' = [pair EXCEPT !.state = "EntryWorking", !.place = NoReq, !.order = r.order]
        /\ risk' = Added(pair.notional)
        /\ orders' = IF r.order = NoOrder THEN orders
                     ELSE [orders EXCEPT ![r.order].early = orders[r.order].filled]
     \/ /\ r.id = pair.place /\ r.answer \in {"rejected", "lost"}
        /\ pair' = Cooled([pair EXCEPT !.notional = 0])
        /\ UNCHANGED <<risk, orders>>
  /\ UNCHANGED <<setting, channel, cache>>

(* check_entry, on a bar or on the cancel timer: it may poll for fills, ask to cancel
   for the ttl or a signal, and send the cancel request it has asked for. *)
CheckEntry ==
  /\ pair.state = "EntryWorking" /\ pair.place = NoReq
  /\ \E i \in Ids(pair, flight), asks \in BOOLEAN :
       LET cancel == pair.cancel \/ asks IN
       /\ i[1] # NoReq => cancel /\ pair.cancelReq = NoReq /\ pair.order # NoOrder
       /\ i[2] # NoReq => pair.poll = NoReq
       /\ pair' = [pair EXCEPT !.cancel = cancel, !.cancelReq = Refers(@, i[1]),
                               !.poll = Refers(@, i[2])]
       /\ flight' = flight \cup Sent(i[1], "cancel", pair.order)
                           \cup Sent(i[2], "entry_fills", NoOrder)
  /\ UNCHANGED <<setting, risk, orders, channel, cache>>
-----------------------------------------------------------------------------
(* check_exit on p, the state the caller has reached, with the requests f around. *)

(* The exit order is to be cancelled, because it is already or needs a new price. *)
CancelExit(p, f) ==
  /\ p.exitCancel \/ (p.state = "ExitWorking" /\ p.exit # NoOrder)
  /\ \E i \in Ids(p, f) :
       /\ i[1] # NoReq => p.exitCancelReq = NoReq /\ p.exit # NoOrder
       /\ i[2] # NoReq => p.poll = NoReq /\ p.exit # NoOrder
       /\ pair' = [p EXCEPT !.exitCancel = TRUE, !.exitCancelReq = Refers(@, i[1]),
                            !.poll = Refers(@, i[2])]
       /\ flight' = f \cup Sent(i[1], "cancel", p.exit) \cup Sent(i[2], "exit_fills", NoOrder)
  /\ UNCHANGED orders

(* The exit order stays, or it is too early to try again: at most a poll. *)
KeepExit(p, f) ==
  /\ ~p.exitCancel /\ p.state = "ExitWorking"
  /\ \E id \in FreeIds(p, f) \cup {NoReq} :
       /\ id # NoReq => p.poll = NoReq /\ p.exit # NoOrder
       /\ pair' = [p EXCEPT !.poll = Refers(@, id)]
       /\ flight' = f \cup Sent(id, "exit_fills", NoOrder)
  /\ UNCHANGED orders

(* Faulty: an exit order is placed whether there is one or not. *)
NeedsExitAlways(p) == TRUE

(* An exit order is placed in place of none, or for a position just opened. *)
NeedsExit(p) == p.state = "PositionOpen" \/ p.exit = NoOrder

PlaceExit(p, f) ==
  /\ ~p.exitCancel /\ NeedsExit(p)
  /\ \E o \in NewOrders \cup {NoOrder}, known \in BOOLEAN, id \in FreeIds(p, f) \cup {NoReq} :
       LET placed == [p EXCEPT !.state = "ExitWorking", !.exit = IF known THEN o ELSE @] IN
       /\ known => o # NoOrder
       /\ ~known /\ o # NoOrder => Trouble \cap {"lost", "no_id"} # {}
       /\ id # NoReq => p.poll = NoReq /\ placed.exit # NoOrder
       /\ orders' = IF o = NoOrder THEN orders ELSE Opened(o, FALSE, p.notional)
       /\ pair' = [placed EXCEPT !.poll = Refers(@, id)]
       /\ flight' = f \cup Sent(id, "exit_fills", NoOrder)

CheckExit(p, f) == CancelExit(p, f) \/ KeepExit(p, f) \/ PlaceExit(p, f)

(* A bar reaches a pair with a position, or the cancel timer one with an exit. *)
BarChecksExit ==
  /\ pair.state \in {"PositionOpen", "ExitWorking"}
  /\ CheckExit(pair, flight)
  /\ UNCHANGED <<setting, risk, channel, cache>>

(* Faulty: the cancel request the fill overtook stays in force. *)
EntryFilledKeepsCancel(p, size) == [p EXCEPT !.state = "PositionOpen", !.notional = size]

(* Faulty: the fill is added to the size of the entry. *)
EntryFilledAdds(p, size) ==
  [p EXCEPT !.state = "PositionOpen", !.cancel = FALSE, !.cancelReq = NoReq,
            !.notional = p.notional + size]

(* apply_entry_fills: the fill opens the position and settles what it is worth. *)
EntryFilled(p, size) ==
  [p EXCEPT !.state = "PositionOpen", !.cancel = FALSE, !.cancelReq = NoReq,
            !.notional = size]

(* Faulty: the exposure is kept. *)
ExitFilledKeeps(p) ==
  /\ risk' = risk
  /\ pair' = Cooled([p EXCEPT !.notional = 0])

(* apply_exit_fills: the first fill of the exit ends the trade. *)
ExitFilled(p) ==
  /\ risk' = Released(p.notional)
  /\ pair' = Cooled([p EXCEPT !.notional = 0])

(* Faulty: the cancelled pair forgets its exposure without releasing it. *)
EntryCancelledKeeps ==
  /\ risk' = risk
  /\ pair' = Cooled([pair EXCEPT !.notional = 0])

(* Faulty: the answer to the cancel request is only noted. *)
EntryCancelledWaits ==
  /\ risk' = risk
  /\ pair' = [pair EXCEPT !.cancelReq = NoReq]

(* finalize_entry_cancel *)
EntryCancelled ==
  /\ risk' = Released(pair.notional)
  /\ pair' = Cooled([pair EXCEPT !.notional = 0])

(* Faulty: the request is kept though the exit order is forgotten. *)
ExitCancelledKeepsRequest(p) == [p EXCEPT !.exit = NoOrder, !.exitCancel = FALSE]

(* The exit order is gone; a new one is placed by the next check. *)
ExitCancelled(p) ==
  [p EXCEPT !.exit = NoOrder, !.exitCancel = FALSE, !.exitCancelReq = NoReq]
-----------------------------------------------------------------------------
(* is_order_open_for_cancel after a 429 or a 5xx: it is skipped while the user
   channel is alive and when it fails; else it reads the cache or the venue. *)
Looks == {"skip", "cached", "fetch"}
OpenOrders == {o \in Orders : Open(o)}
CacheAfter(look) == IF look = "fetch" THEN [known |-> TRUE, open |-> OpenOrders] ELSE cache
Verified(look, o) == look # "skip" /\ o \notin CacheAfter(look).open

(* handle_cancel_response *)
HandleCancelAnswer(r) ==
  /\ r \in flight /\ r.kind = "cancel" /\ r.answer # "none"
  /\ flight' = flight \ {r}
  /\ \/ /\ r.id \notin {pair.cancelReq, pair.exitCancelReq}
        /\ UNCHANGED <<pair, risk, cache>>
     \/ /\ r.id \in {pair.cancelReq, pair.exitCancelReq}
        /\ \E look \in Looks :
             LET ok == (r.answer = "ok") \/ Verified(look, r.order) IN
             /\ r.answer # "unavailable" => look = "skip"
             /\ look = "cached" => cache.known
             /\ cache' = IF ok THEN [CacheAfter(look) EXCEPT !.open = @ \ {r.order}]
                         ELSE CacheAfter(look)
             /\ \/ r.id = pair.cancelReq /\ ok /\ EntryCancelled
                \/ /\ r.id = pair.cancelReq /\ ~ok
                   /\ pair' = [pair EXCEPT !.cancelReq = NoReq]
                   /\ UNCHANGED risk
                \/ /\ r.id = pair.exitCancelReq
                   /\ pair' = IF ok THEN ExitCancelled(pair)
                              ELSE [pair EXCEPT !.exitCancelReq = NoReq]
                   /\ UNCHANGED risk
  /\ UNCHANGED <<setting, orders, channel>>

(* handle_fill_response: only the answer to the last poll counts, and of the trades
   it lists only the first of the pair's order. *)
HandleFillAnswer(r) ==
  /\ r \in flight /\ r.kind \in {"entry_fills", "exit_fills"} /\ r.answer # "none"
  /\ LET rest == flight \ {r}
         p == IF r.id = pair.poll THEN [pair EXCEPT !.poll = NoReq] ELSE pair
         mine == IF r.kind = "entry_fills" THEN p.order ELSE p.exit
         size == IF r.id = pair.poll /\ mine # NoOrder THEN r.trades[mine] ELSE 0
     IN
     \/ size = 0 /\ pair' = p /\ flight' = rest /\ UNCHANGED <<risk, orders>>
     \/ /\ size > 0 /\ r.kind = "entry_fills"
        /\ CheckExit(EntryFilled(p, size), rest)
        /\ UNCHANGED risk
     \/ /\ size > 0 /\ r.kind = "exit_fills"
        /\ ExitFilled(p) /\ flight' = rest
        /\ UNCHANGED orders
  /\ UNCHANGED <<setting, channel, cache>>

(* handle_opinion_order_update and handle_opinion_trade_record.  A message about an
   order the pair does not know is dropped, even when it is the pair's own. *)
HandleMessage ==
  /\ channel # <<>> /\ channel' = Tail(channel)
  /\ LET m == Head(channel)
         unpolled == [pair EXCEPT !.poll = NoReq]
     IN
     \/ /\ m.order \notin {pair.order, pair.exit}
        /\ UNCHANGED <<pair, risk, flight, orders>>
     \/ /\ m.kind = "cancelled" /\ m.order = pair.order
        /\ EntryCancelled
        /\ UNCHANGED <<flight, orders>>
     \/ /\ m.kind = "cancelled" /\ m.order = pair.exit
        /\ pair' = ExitCancelled(pair)
        /\ UNCHANGED <<risk, flight, orders>>
     \/ /\ m.kind = "fill" /\ m.order = pair.order
        /\ CheckExit(EntryFilled(unpolled, m.size), flight)
        /\ UNCHANGED risk
     \/ /\ m.kind = "fill" /\ m.order = pair.exit
        /\ ExitFilled(unpolled)
        /\ UNCHANGED <<flight, orders>>
     \/ /\ m.kind = "done" /\ m.order \in {pair.order, pair.exit}
        /\ \E id \in FreeIds(pair, flight) \cup {NoReq} :
             /\ id # NoReq => pair.poll = NoReq
             /\ pair' = [pair EXCEPT !.poll = Refers(@, id)]
             /\ flight' = flight \cup
                  Sent(id, IF m.order = pair.order THEN "entry_fills" ELSE "exit_fills", NoOrder)
        /\ UNCHANGED <<risk, orders>>
  /\ UNCHANGED <<setting, cache>>

(* check_cooldown *)
CooldownEnds ==
  /\ pair.state = "Cooldown"
  /\ pair' = Fresh
  /\ UNCHANGED <<setting, risk, flight, orders, channel, cache>>
-----------------------------------------------------------------------------
(* The venue, as the engine's requests and the user channel show it. *)

(* An answer reaches the executor, which passes it on to the engine. *)
Answered(r, answer, o, trades) ==
  flight' = (flight \ {r}) \cup {[r EXCEPT !.answer = answer, !.order = o, !.trades = trades]}

(* What the user channel says may be lost on the way; what waits is bounded. *)
Report(messages) ==
  \/ UNCHANGED channel
  \/ /\ UserChannel
     /\ \E m \in messages :
          /\ Len(channel) + Len(m) <= setting.waiting
          /\ channel' = channel \o m

(* A place request is accepted or rejected; its order may stand though the answer is
   an error, or names no order. *)
VenuePlaces(r) ==
  /\ r \in flight /\ r.kind = "place" /\ r.answer = "none"
  /\ \/ \E o \in NewOrders :
          /\ orders' = Opened(o, TRUE, setting.qty)
          /\ \/ Answered(r, "placed", o, NoTrades)
             \/ \E t \in Trouble \cap {"lost", "no_id"} : Answered(r, t, NoOrder, NoTrades)
     \/ Answered(r, "rejected", NoOrder, NoTrades) /\ UNCHANGED orders
  /\ UNCHANGED <<setting, pair, risk, channel, cache>>

(* A cancel request: an order the venue does not find open counts as cancelled. *)
VenueCancels(r) ==
  /\ r \in flight /\ r.kind = "cancel" /\ r.answer = "none"
  /\ \/ /\ Open(r.order)
        /\ orders' = [orders EXCEPT ![r.order].cancelled = TRUE]
        /\ \E a \in {"ok"} \cup (Trouble \cap {"unavailable"}) : Answered(r, a, r.order, NoTrades)
        /\ Report({<<[kind |-> "cancelled", order |-> r.order, size |-> 0]>>})
     \/ /\ ~Open(r.order)
        /\ \E a \in {"ok"} \cup (Trouble \cap {"refused"}) : Answered(r, a, r.order, NoTrades)
        /\ UNCHANGED <<orders, channel>>
     \/ /\ "unavailable" \in Trouble
        /\ Answered(r, "unavailable", r.order, NoTrades)
        /\ UNCHANGED <<orders, channel>>
  /\ UNCHANGED <<setting, pair, risk, cache>>

(* A fill request lists the trades since entry_ts_ms.  The engine uses the first one
   of its order, so that is all the answer keeps of an order.  It may fail. *)
VenueListsTrades(r) ==
  /\ r \in flight /\ r.kind \in {"entry_fills", "exit_fills"} /\ r.answer = "none"
  /\ \/ Answered(r, "failed", NoOrder, NoTrades)
     \/ \E t \in Trades :
          /\ \A o \in Orders :
               LET seen == orders[o].filled - orders[o].early IN
               IF seen = 0 THEN t[o] = 0 ELSE t[o] \in 1..seen
          /\ Answered(r, "listed", NoOrder, t)
  /\ UNCHANGED <<setting, pair, risk, orders, channel, cache>>

(* Someone trades with an open order.  The user channel may say so in an order
   update, which gives the amount filled so far, and in a trade record. *)
VenueFills(o, size) ==
  /\ Open(o) /\ orders[o].filled + size <= orders[o].size
  /\ orders' = [orders EXCEPT ![o].filled = @ + size]
  /\ LET update == [kind |-> "fill", order |-> o, size |-> orders[o].filled + size]
         record == [kind |-> "fill", order |-> o, size |-> size]
         done   == [kind |-> "done", order |-> o, size |-> 0]
     IN Report({<<update>>, <<record>>, <<update, record>>, <<record, update>>}
               \cup IF orders'[o].filled = orders[o].size THEN {<<done>>} ELSE {})
  /\ UNCHANGED <<setting, pair, risk, flight, cache>>

Next ==
  \/ Enter \/ EnterRefused \/ CheckEntry \/ BarChecksExit \/ CooldownEnds
  \/ HandleMessage
  \/ \E r \in flight :
       \/ HandlePlaceAnswer(r) \/ HandleCancelAnswer(r) \/ HandleFillAnswer(r)
       \/ VenuePlaces(r) \/ VenueCancels(r) \/ VenueListsTrades(r)
  \/ \E o \in Orders, size \in 1..setting.qty : VenueFills(o, size)

Spec == Init /\ [][Next]_vars

(* Sooner or later the ttl of an entry runs out and the limiter, the backoffs and the
   dedup window let its cancel request through. *)
SendEntryCancel == CheckEntry /\ pair'.cancelReq # pair.cancelReq

(* The executor runs every request, the venue answers, the engine handles the answers. *)
FairSpec ==
  /\ Spec
  /\ SF_vars(SendEntryCancel)
  /\ \A id \in Reqs :
       /\ WF_vars(\E r \in flight : r.id = id /\ HandlePlaceAnswer(r))
       /\ WF_vars(\E r \in flight : r.id = id /\ HandleCancelAnswer(r))
       /\ WF_vars(\E r \in flight : r.id = id /\ HandleFillAnswer(r))
       /\ WF_vars(\E r \in flight : r.id = id /\ VenuePlaces(r))
       /\ WF_vars(\E r \in flight : r.id = id /\ VenueCancels(r))
       /\ WF_vars(\E r \in flight : r.id = id /\ VenueListsTrades(r))
-----------------------------------------------------------------------------
TypeOK ==
  /\ setting \in Settings
  /\ pair \in Pair
  /\ risk \in [used : Nat, open : Nat]
  /\ flight \subseteq Request
  /\ orders \in [Orders -> Order]
  /\ channel \in Seq([kind : {"fill", "cancelled", "done"}, order : Orders, size : 0..MaxQty])
  /\ Len(channel) <= setting.waiting
  /\ cache \in [known : BOOLEAN, open : SUBSET Orders]

(* An entry is booked once and released once: the shared count of open positions has
   the pair in it exactly while it works an order or a position, whatever order the
   answers, fills and cancellations arrive in. *)
BookedOnce == risk.open = IF pair.state \in Working THEN 1 ELSE 0

(* The exposure of the pair: see PairExposure. *)
Stage ==
  CASE pair.state = "EntryPlacing" -> "Placing"
    [] pair.state \in Working -> "Working"
    [] OTHER -> pair.state
InTrade(n) == IF Stage \in {"Placing", "Working"} THEN n ELSE 0
Exposure == INSTANCE PairExposure WITH
  stage <- Stage, size <- InTrade(setting.qty), notional <- InTrade(pair.notional),
  counted <- risk.used

(* Whatever order the answers, fills and cancellations arrive in, the exposure goes up
   once with the entry and down once with what the pair holds by its own figure, which
   is always covered: nothing is lost where release_exposure stops at zero. *)
KeepsExposure == Exposure!Spec

(* The engine waits only for answers that are still to come, and a cancel request it
   waits for is about the order it works now: no answer of an earlier order, arriving
   late, can cancel a later one. *)
AwaitedInFlight ==
  LET comes(id, kinds, o) ==
        id # NoReq => \E r \in flight : r.id = id /\ r.kind \in kinds /\ r.order = o
  IN
  /\ comes(pair.cancelReq, {"cancel"}, pair.order)
  /\ comes(pair.exitCancelReq, {"cancel"}, pair.exit)
  /\ pair.place # NoReq => \E r \in flight : r.id = pair.place /\ r.kind = "place"
  /\ pair.poll # NoReq =>
       \E r \in flight : r.id = pair.poll /\ r.kind \in {"entry_fills", "exit_fills"}

(* With whole fills, a position the engine knows of ends by a fill of its exit order, never by a
   cancellation of the entry that was under way when the entry filled. *)
FilledNotCancelled ==
  [][/\ setting.qty = 1
     /\ pair.state \in {"PositionOpen", "ExitWorking"} /\ pair'.state = "Cooldown"
     => pair.exit # NoOrder /\ orders[pair.exit].filled > 0]_vars

(* Every order open at the venue is the one order the pair works, or the one the
   answer to its place request is about to name: no order is left behind, and there
   are never two. *)
NoOrphans ==
  \A o \in OpenOrders :
    \/ o = pair.order /\ pair.state = "EntryWorking"
    \/ o = pair.exit /\ pair.state = "ExitWorking"
    \/ \E r \in flight : r.id = pair.place /\ r.order = o

(* Once the engine has done with a trade, the exposure still covers what the pair
   holds at the venue, bought by its entries and not yet sold by its exits: no
   position is left that the risk thresholds do not count. *)
Held(entry) ==
  MapThenSumSet(LAMBDA o : orders[o].filled, {o \in Orders : orders[o].entry = entry})
ExposureCoversHeld ==
  pair.state \in {"Idle", "Cooldown"} => Held(TRUE) - Held(FALSE) <= risk.used

(* An entry does not work for ever: it fills, or the ttl cancels it. *)
EntryEnds == pair.state = "EntryWorking" ~> pair.state # "EntryWorking"
==============================================================================
