---------------------------- MODULE TradePairProofs ----------------------------
(***************************************************************************)
(* Safety of TradePair, for every set of request ids and orders, size of   *)
(* an entry, kind of trouble and order of answers, fills and messages.     *)
(***************************************************************************)
EXTENDS TradePair, TLAPS, SequenceTheorems

(* What the fields of PairTradeState say of each other. *)
Shape(p) ==
  /\ p \in Pair /\ p.notional <= setting.qty
  /\ p.place # NoReq <=> p.state = "EntryPlacing"
  /\ p.state = "EntryPlacing" => p.notional = setting.qty
  /\ p.state \in Working => 0 < p.notional
  /\ p.state \notin Working =>
       /\ p.order = NoOrder /\ p.exit = NoOrder
       /\ p.cancelReq = NoReq /\ p.exitCancelReq = NoReq /\ p.poll = NoReq
  /\ p.cancelReq # NoReq => p.state = "EntryWorking" /\ p.cancelReq # p.exitCancelReq
  /\ p.exitCancelReq # NoReq => p.exitCancel

(* AwaitedInFlight, for a pair p and the requests f. *)
Comes(p, f) ==
  /\ p.cancelReq # NoReq =>
       \E r \in f : r.id = p.cancelReq /\ r.kind = "cancel" /\ r.order = p.order
  /\ p.exitCancelReq # NoReq =>
       \E r \in f : r.id = p.exitCancelReq /\ r.kind = "cancel" /\ r.order = p.exit
  /\ p.place # NoReq => \E r \in f : r.id = p.place /\ r.kind = "place"
  /\ p.poll # NoReq => \E r \in f : r.id = p.poll /\ r.kind \in {"entry_fills", "exit_fills"}

(* The pair's share of the exposure. *)
Booked ==
  /\ risk \in [used : Nat, open : Nat]
  /\ risk.open = IF pair.state \in Working THEN 1 ELSE 0
  /\ pair.state \in Working => setting.qty <= risk.used
  /\ setting.qty = 1 => risk.used = IF pair.state \in Working THEN 1 ELSE 0

(* The venue's orders, and what tells of them: the messages and the answers. *)
OrdersInv ==
  /\ orders \in [Orders -> Order]
  /\ \A o \in Orders :
       /\ orders[o].size <= setting.qty /\ orders[o].filled <= orders[o].size
       /\ orders[o].early <= orders[o].filled
       /\ setting.qty = 1 /\ orders[o].cancelled => orders[o].filled = 0

Message == [kind : {"fill", "cancelled", "done"}, order : Orders, size : 0..MaxQty]
TrueMessages ==
  {m \in Message :
     /\ m.kind = "fill" => m.size \in 1..setting.qty /\ orders[m.order].filled > 0
     /\ m.kind = "cancelled" => orders[m.order].cancelled}
TrueRequests ==
  {r \in Request :
     /\ r.kind = "cancel" => r.order \in Orders
     /\ \A o \in Orders : /\ r.trades[o] <= setting.qty
                          /\ r.trades[o] > 0 => orders[o].filled > 0}

(* A position the engine knows of was bought. *)
PositionFilled(p) ==
  p.state \in {"PositionOpen", "ExitWorking"} => p.order \in Orders /\ orders[p.order].filled > 0

IInv ==
  /\ setting \in Settings
  /\ Shape(pair) /\ Comes(pair, flight) /\ PositionFilled(pair)
  /\ Booked
  /\ OrdersInv
  /\ channel \in Seq(TrueMessages) /\ Len(channel) <= setting.waiting
  /\ flight \subseteq TrueRequests
  /\ cache \in [known : BOOLEAN, open : SUBSET Orders]

(* What is added when fills are whole and polled, and nothing goes wrong at the venue. *)
Calm == ~UserChannel /\ Trouble = {} /\ \A s \in Settings : s.qty = 1

Used(o) == o \in Orders /\ orders[o].size > 0
CalmRequest(r) ==
  /\ r.kind = "place" =>
       /\ r.id = pair.place
       /\ \/ r.answer \in {"none", "rejected"} /\ r.order = NoOrder
          \/ r.answer = "placed" /\ Used(r.order)
  /\ r.kind = "cancel" =>
       Used(r.order) /\ (r.answer = "none" \/ (r.answer = "ok" /\ ~Open(r.order)))
  /\ r.kind = "entry_fills" /\ r.id = pair.poll => pair.state = "EntryWorking"
  /\ r.kind = "exit_fills" /\ r.id = pair.poll => pair.state = "ExitWorking"

Unique(f) == \A r, q \in f : r.id = q.id => r = q
CalmPair ==
  /\ pair.state # "PositionOpen"
  /\ pair.state = "EntryWorking" => Used(pair.order)
  /\ pair.state # "ExitWorking" => pair.exit = NoOrder /\ ~pair.exitCancel
  /\ pair.exit # NoOrder => Used(pair.exit)

CalmInv ==
  /\ channel = <<>>
  /\ Unique(flight) /\ \A r \in flight : CalmRequest(r)
  /\ CalmPair
  /\ NoOrphans
-----------------------------------------------------------------------------
(* Constants, sequences, and what stays true while orders fill. *)

LEMMA SettingType ==
  ASSUME setting \in Settings
  PROVE  /\ setting.qty \in Nat /\ 1 <= setting.qty /\ setting.qty <= MaxQty
         /\ setting.orders \in Nat /\ setting.waiting \in Nat /\ MaxQty \in Nat
BY TradePairAssumption

(* A sequence over a set is one over any larger set. *)
LEMMA SeqMonotone ==
  ASSUME NEW A, NEW B, A \subseteq B, NEW s \in Seq(A)
  PROVE  s \in Seq(B)
<1>1. Len(s) \in Nat /\ DOMAIN s = 1..Len(s) /\ s = [i \in 1..Len(s) |-> s[i]]
  BY LenProperties
<1>2. \A i \in 1..Len(s) : s[i] \in B
  BY ElementOfSeq
<1>3. s \in [1..Len(s) -> B]
  BY <1>1, <1>2
<1> QED
  BY <1>1, <1>3, SeqDef

(* Fills and cancellations are not taken back. *)
OrdersKept ==
  \A o \in Orders : /\ orders[o].filled <= orders'[o].filled
                    /\ orders[o].cancelled => orders'[o].cancelled

(* The fields of an order at the venue. *)
LEMMA OrderType ==
  ASSUME OrdersInv, NEW o \in Orders
  PROVE  /\ orders[o].size \in Int /\ orders[o].filled \in Int /\ orders[o].early \in Int
         /\ orders[o].filled >= 0 /\ orders[o].early >= 0
         /\ orders[o].entry \in BOOLEAN /\ orders[o].cancelled \in BOOLEAN
BY DEF OrdersInv, Order

(* What the user channel said stays true while orders only fill and are cancelled. *)
LEMMA KeptMessages ==
  ASSUME OrdersInv, OrdersInv', OrdersKept, setting' = setting
  PROVE  TrueMessages \subseteq TrueMessages'
<1> SUFFICES ASSUME NEW m \in TrueMessages PROVE m \in TrueMessages'
  OBVIOUS
<1>1. m \in Message /\ m.order \in Orders
  BY DEF TrueMessages, Message
<1>2. orders[m.order].filled \in Int /\ orders'[m.order].filled \in Int
  BY <1>1, OrderType DEF OrdersInv, Order
<1>3. /\ orders[m.order].filled > 0 => orders'[m.order].filled > 0
      /\ orders[m.order].cancelled => orders'[m.order].cancelled
  BY <1>1, <1>2 DEF OrdersKept
<1> QED
  BY <1>1, <1>3 DEF TrueMessages, Message

(* What the answers to the requests say stays true as well. *)
LEMMA KeptRequests ==
  ASSUME OrdersInv, OrdersInv', OrdersKept, setting' = setting
  PROVE  TrueRequests \subseteq TrueRequests'
<1> SUFFICES ASSUME NEW r \in TrueRequests PROVE r \in TrueRequests'
  OBVIOUS
<1>1. r \in Request /\ r \in Request' /\ (r.kind = "cancel" => r.order \in Orders)
  BY DEF TrueRequests, Request, Trades
<1>2. ASSUME NEW o \in Orders
      PROVE  r.trades[o] <= setting.qty /\ (r.trades[o] > 0 => orders'[o].filled > 0)
  <2>1. orders[o].filled \in Int /\ orders'[o].filled \in Int
    BY DEF OrdersInv, Order
  <2> QED
    BY <2>1 DEF TrueRequests, OrdersKept
<1> QED
  BY <1>1, <1>2 DEF TrueRequests

(* A position that was bought stays bought. *)
LEMMA KeptPosition ==
  ASSUME OrdersInv, OrdersInv', OrdersKept, NEW p, PositionFilled(p)
  PROVE  PositionFilled(p)'
<1>1. \A o \in Orders : orders[o].filled \in Int /\ orders'[o].filled \in Int
  BY DEF OrdersInv, Order
<1> QED
  BY <1>1 DEF PositionFilled, OrdersKept

(* A request that is sent says nothing of trades yet. *)
LEMMA SentRequests ==
  ASSUME setting \in Settings, NEW id \in Reqs \cup {NoReq},
         NEW kind \in {"place", "cancel", "entry_fills", "exit_fills"},
         NEW o \in Orders \cup {NoOrder}, id # NoReq /\ kind = "cancel" => o \in Orders
  PROVE  /\ Sent(id, kind, o) \subseteq TrueRequests
         /\ id # NoReq => \E r \in Sent(id, kind, o) : r.id = id /\ r.kind = kind /\ r.order = o
<1>1. NoTrades \in Trades /\ \A x \in Orders : NoTrades[x] = 0
  <2>1. 0 \in 0..MaxQty
    BY SettingType
  <2> QED
    BY <2>1 DEF NoTrades, Trades
<1>2. CASE id = NoReq
  BY <1>2 DEF Sent
<1>3. CASE id # NoReq
  <2> DEFINE r == [id |-> id, kind |-> kind, order |-> o, answer |-> "none", trades |-> NoTrades]
  <2>1. r \in Request
    <3>1. NoTrades \in Trades /\ id \in Reqs
      BY <1>1, <1>3
    <3> HIDE DEF NoTrades, Trades
    <3> QED
      BY <3>1 DEF Request
  <2>2. r \in TrueRequests
    <3>1. (\A x \in Orders : r.trades[x] = 0) /\ (r.kind = "cancel" => r.order \in Orders)
      BY <1>1, <1>3
    <3> HIDE DEF r
    <3> QED
      BY <2>1, <3>1, SettingType DEF TrueRequests
  <2>3. Sent(id, kind, o) = {r}
    BY <1>3 DEF Sent
  <2> QED
    BY <2>2, <2>3
<1> QED
  BY <1>2, <1>3

(* Ids that are free are not awaited. *)
LEMMA FreeId ==
  ASSUME NEW p, NEW f, NEW id \in FreeIds(p, f)
  PROVE  /\ id \in Reqs /\ id # NoReq
         /\ id \notin {p.place, p.cancelReq, p.exitCancelReq, p.poll}
         /\ \A r \in f : r.id # id
BY TradePairAssumption DEF FreeIds, Awaited
-----------------------------------------------------------------------------
(* The exit of a position. *)

(* An order is opened in place of an unused one. *)
LEMMA OpenedKeeps ==
  ASSUME setting \in Settings, setting' = setting, OrdersInv,
         NEW o \in Orders, orders[o] = Unused,
         NEW entry \in BOOLEAN, NEW size \in 0..MaxQty, size <= setting.qty,
         orders' = Opened(o, entry, size)
  PROVE  OrdersInv' /\ OrdersKept
<1>1. orders \in [Orders -> Order]
  BY DEF OrdersInv
<1>2. /\ orders' \in [Orders -> Order]
      /\ \A x \in Orders \ {o} : orders'[x] = orders[x]
      /\ orders'[o].size = size /\ orders'[o].filled = 0 /\ orders'[o].early = 0
      /\ orders'[o].cancelled = FALSE
  <2> DEFINE new == [orders[o] EXCEPT !.entry = entry, !.size = size]
  <2>1. orders' = [orders EXCEPT ![o] = new]
    BY <1>1 DEF Opened
  <2>2. orders[o] \in Order
    BY <1>1
  <2>3. orders[o].filled = 0 /\ orders[o].early = 0 /\ orders[o].cancelled = FALSE
    BY DEF Unused
  <2>4. /\ new \in Order /\ new.size = size /\ new.filled = 0 /\ new.early = 0
        /\ new.cancelled = FALSE
    BY <2>2, <2>3 DEF Order
  <2> HIDE DEF new
  <2> QED
    BY <1>1, <2>1, <2>4
<1>3. orders[o].filled = 0 /\ orders[o].cancelled = FALSE
  BY DEF Unused
<1>4. OrdersInv'
  BY <1>2 DEF OrdersInv
<1>5. OrdersKept
  <2> SUFFICES ASSUME NEW x \in Orders
               PROVE  /\ orders[x].filled <= orders'[x].filled
                      /\ orders[x].cancelled => orders'[x].cancelled
    BY DEF OrdersKept
  <2> QED
    BY <1>2, <1>3, OrderType
<1> QED
  BY <1>4, <1>5

(* What a check for exit leaves of the pair p and the requests f: the position stays,
   and what it waits for comes. *)
ExitChecked(p, f) ==
  /\ Shape(pair)' /\ Comes(pair, flight)' /\ PositionFilled(pair)'
  /\ pair'.state \in {"PositionOpen", "ExitWorking"}
  /\ OrdersInv' /\ OrdersKept
  /\ flight' \subseteq TrueRequests'

(* Two ids for two requests. *)
LEMMA TwoIds ==
  ASSUME NEW p, NEW f, NEW i \in Ids(p, f)
  PROVE  /\ i[1] \in Reqs \cup {NoReq} /\ (i[1] # NoReq => i[1] \in FreeIds(p, f))
         /\ i[2] \in Reqs \cup {NoReq} /\ (i[2] # NoReq => i[2] \in FreeIds(p, f))
         /\ i[1] # NoReq => i[1] # i[2]
<1>1. i \in (FreeIds(p, f) \cup {NoReq}) \X (FreeIds(p, f) \cup {NoReq})
  BY DEF Ids
<1>2. i[1] \in FreeIds(p, f) \cup {NoReq} /\ i[2] \in FreeIds(p, f) \cup {NoReq}
  BY <1>1
<1>3. FreeIds(p, f) \subseteq Reqs
  BY DEF FreeIds
<1> QED
  BY <1>2, <1>3, TradePairAssumption DEF Ids

(* A step that touches no order keeps what is known of them. *)
LEMMA SameOrders ==
  ASSUME setting' = setting, OrdersInv, orders' = orders
  PROVE  OrdersInv' /\ OrdersKept
<1>1. OrdersInv'
  BY DEF OrdersInv
<1>2. OrdersKept
  <2> SUFFICES ASSUME NEW o \in Orders
               PROVE  orders[o].filled <= orders'[o].filled
    BY DEF OrdersKept
  <2> QED
    BY OrderType
<1> QED
  BY <1>1, <1>2

(* Asking to cancel an exit order keeps the position and what it waits for. *)
LEMMA CancelExitKeeps ==
  ASSUME setting \in Settings, setting' = setting, NEW p, NEW f \in SUBSET TrueRequests,
         Shape(p), Comes(p, f), PositionFilled(p), OrdersInv,
         p.state \in {"PositionOpen", "ExitWorking"}, CancelExit(p, f)
  PROVE  ExitChecked(p, f)
<1>1. PICK i \in Ids(p, f) :
        /\ i[1] # NoReq => p.exitCancelReq = NoReq /\ p.exit # NoOrder
        /\ i[2] # NoReq => p.poll = NoReq /\ p.exit # NoOrder
        /\ pair' = [p EXCEPT !.exitCancel = TRUE, !.exitCancelReq = Refers(@, i[1]),
                             !.poll = Refers(@, i[2])]
        /\ flight' = f \cup Sent(i[1], "cancel", p.exit) \cup Sent(i[2], "exit_fills", NoOrder)
        /\ orders' = orders
  BY DEF CancelExit
<1>2. /\ i[1] \in Reqs \cup {NoReq} /\ i[2] \in Reqs \cup {NoReq}
      /\ i[1] # NoReq => i[1] # i[2]
  BY TwoIds
<1>3. p \in Pair /\ p.exit \in Orders \cup {NoOrder} /\ (i[1] # NoReq => p.exit \in Orders)
  BY <1>1 DEF Shape, Pair
<1>4. /\ pair' \in Pair
      /\ pair'.exitCancel = TRUE
      /\ pair'.exitCancelReq = IF i[1] = NoReq THEN p.exitCancelReq ELSE i[1]
      /\ pair'.poll = IF i[2] = NoReq THEN p.poll ELSE i[2]
      /\ pair'.state = p.state /\ pair'.notional = p.notional /\ pair'.order = p.order
      /\ pair'.exit = p.exit /\ pair'.cancel = p.cancel /\ pair'.place = p.place
      /\ pair'.cancelReq = p.cancelReq
  BY <1>1, <1>2, <1>3 DEF Pair, Refers
<1>5. OrdersInv' /\ OrdersKept
  BY <1>1, SameOrders
<1>6. /\ Sent(i[1], "cancel", p.exit) \subseteq TrueRequests
      /\ i[1] # NoReq => \E r \in Sent(i[1], "cancel", p.exit) :
                           r.id = i[1] /\ r.kind = "cancel" /\ r.order = p.exit
  BY <1>2, <1>3, SentRequests
<1>7. /\ Sent(i[2], "exit_fills", NoOrder) \subseteq TrueRequests
      /\ i[2] # NoReq => \E r \in Sent(i[2], "exit_fills", NoOrder) :
                           r.id = i[2] /\ r.kind = "exit_fills"
  BY <1>2, SentRequests
<1>8. f \subseteq flight' /\ flight' \subseteq TrueRequests'
  BY <1>1, <1>5, <1>6, <1>7, KeptRequests
<1>9. Shape(pair)'
  <2>1. p.cancelReq = NoReq /\ p.place = NoReq
    BY DEF Shape
  <2> QED
    BY <1>4, <2>1 DEF Shape, Working
<1>10. Comes(pair, flight)'
  BY <1>1, <1>4, <1>6, <1>7, <1>8 DEF Comes
<1>11. PositionFilled(pair)'
  BY <1>1, <1>4 DEF PositionFilled
<1> QED
  BY <1>4, <1>5, <1>8, <1>9, <1>10, <1>11 DEF ExitChecked

(* Leaving an exit order to work keeps the position and what it waits for. *)
LEMMA KeepExitKeeps ==
  ASSUME setting \in Settings, setting' = setting, NEW p, NEW f \in SUBSET TrueRequests,
         Shape(p), Comes(p, f), PositionFilled(p), OrdersInv,
         p.state \in {"PositionOpen", "ExitWorking"}, KeepExit(p, f)
  PROVE  ExitChecked(p, f)
<1>1. PICK id \in FreeIds(p, f) \cup {NoReq} :
        /\ pair' = [p EXCEPT !.poll = Refers(@, id)]
        /\ flight' = f \cup Sent(id, "exit_fills", NoOrder)
        /\ orders' = orders
  BY DEF KeepExit
<1>2. id \in Reqs \cup {NoReq}
  BY DEF FreeIds
<1>3. p \in Pair
  BY DEF Shape
<1>4. /\ pair' \in Pair
      /\ pair'.poll = IF id = NoReq THEN p.poll ELSE id
      /\ pair'.state = p.state /\ pair'.notional = p.notional /\ pair'.order = p.order
      /\ pair'.exit = p.exit /\ pair'.cancel = p.cancel /\ pair'.place = p.place
      /\ pair'.cancelReq = p.cancelReq /\ pair'.exitCancel = p.exitCancel
      /\ pair'.exitCancelReq = p.exitCancelReq
  BY <1>1, <1>2, <1>3 DEF Pair, Refers
<1>5. OrdersInv' /\ OrdersKept
  BY <1>1, SameOrders
<1>6. /\ Sent(id, "exit_fills", NoOrder) \subseteq TrueRequests
      /\ id # NoReq => \E r \in Sent(id, "exit_fills", NoOrder) :
                         r.id = id /\ r.kind = "exit_fills"
  BY <1>2, SentRequests
<1>7. f \subseteq flight' /\ flight' \subseteq TrueRequests'
  BY <1>1, <1>5, <1>6, KeptRequests
<1>8. Shape(pair)'
  BY <1>4 DEF Shape, Working
<1>9. Comes(pair, flight)'
  BY <1>1, <1>4, <1>6, <1>7 DEF Comes
<1>10. PositionFilled(pair)'
  BY <1>1, <1>4 DEF PositionFilled
<1> QED
  BY <1>4, <1>5, <1>7, <1>8, <1>9, <1>10 DEF ExitChecked

(* Placing an exit order, whether or not the engine learns its id, keeps the
   position and what it waits for. *)
LEMMA PlaceExitKeeps ==
  ASSUME setting \in Settings, setting' = setting, NEW p, NEW f \in SUBSET TrueRequests,
         Shape(p), Comes(p, f), PositionFilled(p), OrdersInv,
         p.state \in {"PositionOpen", "ExitWorking"}, PlaceExit(p, f)
  PROVE  ExitChecked(p, f)
<1>1. PICK o \in NewOrders \cup {NoOrder}, known \in BOOLEAN, id \in FreeIds(p, f) \cup {NoReq} :
        /\ known => o # NoOrder
        /\ orders' = IF o = NoOrder THEN orders ELSE Opened(o, FALSE, p.notional)
        /\ pair' = [[p EXCEPT !.state = "ExitWorking", !.exit = IF known THEN o ELSE @]
                      EXCEPT !.poll = Refers(@, id)]
        /\ flight' = f \cup Sent(id, "exit_fills", NoOrder)
  BY DEF PlaceExit
<1>2. id \in Reqs \cup {NoReq}
  BY DEF FreeIds
<1>3. p \in Pair /\ ~p.exitCancel
  BY DEF Shape, PlaceExit
<1>4. o # NoOrder => o \in Orders /\ orders[o] = Unused
  BY DEF NewOrders
<1>5. /\ pair' \in Pair
      /\ pair'.poll = IF id = NoReq THEN p.poll ELSE id
      /\ pair'.state = "ExitWorking" /\ pair'.notional = p.notional /\ pair'.order = p.order
      /\ pair'.cancel = p.cancel /\ pair'.place = p.place
      /\ pair'.cancelReq = p.cancelReq /\ pair'.exitCancel = p.exitCancel
      /\ pair'.exitCancelReq = p.exitCancelReq
  <2> DEFINE q == [p EXCEPT !.state = "ExitWorking", !.exit = IF known THEN o ELSE @]
  <2>1. "ExitWorking" \in States
    BY DEF States
  <2>2. /\ q \in Pair
        /\ q.poll = p.poll /\ q.state = "ExitWorking" /\ q.notional = p.notional
        /\ q.order = p.order /\ q.cancel = p.cancel /\ q.place = p.place
        /\ q.cancelReq = p.cancelReq /\ q.exitCancel = p.exitCancel
        /\ q.exitCancelReq = p.exitCancelReq
    BY <1>1, <1>3, <1>4, <2>1 DEF Pair
  <2>3. pair' = [q EXCEPT !.poll = Refers(@, id)]
    BY <1>1
  <2> HIDE DEF q
  <2> QED
    BY <1>2, <2>2, <2>3 DEF Pair, Refers
<1>6. OrdersInv' /\ OrdersKept
  <2>1. CASE o = NoOrder
    BY <1>1, <2>1, SameOrders
  <2>2. CASE o # NoOrder
    <3>1. p.notional \in 0..MaxQty /\ p.notional <= setting.qty
      BY DEF Shape, Pair
    <3>2. o \in Orders /\ orders[o] = Unused /\ orders' = Opened(o, FALSE, p.notional)
      BY <1>1, <1>4, <2>2
    <3> QED
      BY <3>1, <3>2, OpenedKeeps
  <2> QED
    BY <2>1, <2>2
<1>7. /\ Sent(id, "exit_fills", NoOrder) \subseteq TrueRequests
      /\ id # NoReq => \E r \in Sent(id, "exit_fills", NoOrder) :
                         r.id = id /\ r.kind = "exit_fills"
  BY <1>2, SentRequests
<1>8. f \subseteq flight' /\ flight' \subseteq TrueRequests'
  BY <1>1, <1>6, <1>7, KeptRequests
<1>9. p.cancelReq = NoReq /\ p.place = NoReq /\ p.exitCancelReq = NoReq
  BY <1>3 DEF Shape
<1>10. Shape(pair)'
  BY <1>5, <1>9 DEF Shape, Working
<1>11. Comes(pair, flight)'
  BY <1>1, <1>5, <1>7, <1>8, <1>9 DEF Comes
<1>12. PositionFilled(pair)'
  <2>1. PositionFilled(p)'
    BY <1>6, KeptPosition
  <2> QED
    BY <1>5, <2>1 DEF PositionFilled
<1> QED
  BY <1>5, <1>6, <1>8, <1>10, <1>11, <1>12 DEF ExitChecked

(* check_exit keeps the position and what it waits for, whichever way it goes. *)
LEMMA CheckExitKeeps ==
  ASSUME setting \in Settings, setting' = setting, NEW p, NEW f \in SUBSET TrueRequests,
         Shape(p), Comes(p, f), PositionFilled(p), OrdersInv,
         p.state \in {"PositionOpen", "ExitWorking"}, CheckExit(p, f)
  PROVE  ExitChecked(p, f)
BY CancelExitKeeps, KeepExitKeeps, PlaceExitKeeps DEF CheckExit
-----------------------------------------------------------------------------
(* The engine's handlers. *)

(* A pair that waits for nothing and knows of no order. *)
LEMMA FreshType ==
  ASSUME setting \in Settings
  PROVE  /\ Fresh \in Pair /\ Fresh.state = "Idle" /\ Fresh.notional = 0
         /\ Fresh.order = NoOrder /\ Fresh.exit = NoOrder
         /\ Fresh.place = NoReq /\ Fresh.cancelReq = NoReq
         /\ Fresh.exitCancelReq = NoReq /\ Fresh.poll = NoReq
<1>1. 0 \in 0..MaxQty
  BY SettingType
<1> QED
  BY <1>1 DEF Fresh, Pair, States

(* A pair that is reset is well formed, holds no position and waits for nothing. *)
LEMMA FreshShape ==
  ASSUME setting \in Settings, setting' = setting, pair' = Fresh
  PROVE  Shape(pair)' /\ PositionFilled(pair)' /\ Comes(pair, flight)' /\ pair'.state = "Idle"
<1>1. 0 <= setting.qty
  BY SettingType
<1>2. Shape(pair)'
  BY <1>1, FreshType DEF Shape, Working
<1> QED
  BY <1>2, FreshType DEF PositionFilled, Comes

(* So is one that cools down, whatever notional it kept. *)
LEMMA CooledShape ==
  ASSUME setting \in Settings, setting' = setting, NEW n \in 0..MaxQty, n <= setting.qty,
         pair' = [Fresh EXCEPT !.state = "Cooldown", !.notional = n]
  PROVE  Shape(pair)' /\ PositionFilled(pair)' /\ Comes(pair, flight)' /\ pair'.state = "Cooldown"
<1>1. /\ pair' \in Pair /\ pair'.state = "Cooldown" /\ pair'.notional = n
      /\ pair'.order = NoOrder /\ pair'.exit = NoOrder
      /\ pair'.place = NoReq /\ pair'.cancelReq = NoReq
      /\ pair'.exitCancelReq = NoReq /\ pair'.poll = NoReq
  BY FreshType DEF Pair, States
<1>2. Shape(pair)'
  BY <1>1 DEF Shape, Working
<1> QED
  BY <1>1, <1>2 DEF PositionFilled, Comes

(* The pair starts idle, with no order at the venue. *)
LEMMA InitInv == Init => IInv
<1> SUFFICES ASSUME Init PROVE IInv
  OBVIOUS
<1>1. setting \in Settings
  BY DEF Init
<1>2. Shape(pair) /\ Comes(pair, flight) /\ PositionFilled(pair) /\ pair.state = "Idle"
  <2>1. pair = Fresh /\ 0 <= setting.qty
    BY <1>1, SettingType DEF Init
  <2>2. Shape(pair)
    BY <1>1, <2>1, FreshType DEF Shape, Working
  <2> QED
    BY <1>1, <2>1, <2>2, FreshType DEF Comes, PositionFilled
<1>3. Booked
  BY <1>2 DEF Init, Booked, Working
<1>4. OrdersInv
  <2>1. \A o \in Orders : orders[o] = Unused
    BY DEF Init
  <2>2. Unused \in Order
    BY SettingType, <1>1 DEF Unused, Order
  <2> QED
    BY <1>1, <2>1, <2>2, SettingType DEF Init, OrdersInv, Unused
<1>5. channel \in Seq(TrueMessages) /\ Len(channel) <= setting.waiting
  BY <1>1, SettingType DEF Init
<1> QED
  BY <1>1, <1>2, <1>3, <1>4, <1>5 DEF Init, IInv

(* A step that leaves the venue's orders alone leaves true what tells of them. *)
LEMMA SameVenue ==
  ASSUME IInv, setting' = setting, orders' = orders
  PROVE  /\ setting' \in Settings /\ OrdersInv' /\ OrdersKept
         /\ TrueMessages \subseteq TrueMessages' /\ TrueRequests \subseteq TrueRequests'
         /\ channel' = channel => channel' \in Seq(TrueMessages') /\ Len(channel') <= setting'.waiting
<1>1. OrdersInv' /\ OrdersKept
  BY SameOrders DEF IInv
<1>2. TrueMessages \subseteq TrueMessages' /\ TrueRequests \subseteq TrueRequests'
  BY <1>1, KeptMessages, KeptRequests DEF IInv
<1>3. channel \in Seq(TrueMessages')
  BY <1>2, SeqMonotone DEF IInv
<1> QED
  BY <1>1, <1>2, <1>3 DEF IInv

(* An entry sent by maybe_enter preserves the invariant. *)
LEMMA EnterInv == IInv /\ Enter => IInv'
<1> SUFFICES ASSUME IInv, Enter PROVE IInv'
  OBVIOUS
<1>1. PICK id \in FreeIds(pair, flight) :
        /\ pair' = [pair EXCEPT !.state = "EntryPlacing", !.notional = setting.qty, !.place = id]
        /\ flight' = flight \cup Sent(id, "place", NoOrder)
  BY DEF Enter
<1>2. pair.state = "Idle" /\ UNCHANGED <<setting, risk, orders, channel, cache>>
  BY DEF Enter
<1>3. id \in Reqs /\ id # NoReq
  BY FreeId
<1>4. setting \in Settings /\ setting.qty \in 0..MaxQty /\ setting.qty <= setting.qty
  BY SettingType DEF IInv
<1>5. pair \in Pair /\ Shape(pair)
  BY DEF IInv, Shape
<1>6. /\ pair' \in Pair
      /\ pair'.state = "EntryPlacing" /\ pair'.notional = setting.qty /\ pair'.place = id
      /\ pair'.order = pair.order /\ pair'.exit = pair.exit /\ pair'.cancel = pair.cancel
      /\ pair'.exitCancel = pair.exitCancel /\ pair'.cancelReq = pair.cancelReq
      /\ pair'.exitCancelReq = pair.exitCancelReq /\ pair'.poll = pair.poll
  BY <1>1, <1>3, <1>4, <1>5 DEF Pair, States
<1>7. /\ pair.order = NoOrder /\ pair.exit = NoOrder
      /\ pair.cancelReq = NoReq /\ pair.exitCancelReq = NoReq /\ pair.poll = NoReq
  BY <1>2, <1>5 DEF Shape, Working
<1>8. Shape(pair)'
  BY <1>2, <1>3, <1>4, <1>6, <1>7 DEF Shape, Working
<1>9. /\ Sent(id, "place", NoOrder) \subseteq TrueRequests
      /\ \E r \in Sent(id, "place", NoOrder) : r.id = id /\ r.kind = "place"
  BY <1>3, <1>4, SentRequests
<1>10. Comes(pair, flight)' /\ PositionFilled(pair)'
  BY <1>1, <1>6, <1>7, <1>9 DEF Comes, PositionFilled
<1>11. Booked'
  BY <1>2, <1>6 DEF IInv, Booked, Working
<1> QED
  BY <1>1, <1>2, <1>8, <1>9, <1>10, <1>11, SameVenue DEF IInv

(* An entry that maybe_enter turns down preserves the invariant. *)
LEMMA EnterRefusedInv == IInv /\ EnterRefused => IInv'
<1> SUFFICES ASSUME IInv, EnterRefused PROVE IInv'
  OBVIOUS
<1>1. PICK n \in {0, setting.qty} : pair' = Cooled([pair EXCEPT !.notional = n])
  BY DEF EnterRefused
<1>2. pair.state = "Idle" /\ UNCHANGED <<setting, risk, flight, orders, channel, cache>>
  BY DEF EnterRefused
<1>3. setting \in Settings /\ n \in 0..MaxQty /\ n <= setting.qty
  BY SettingType DEF IInv
<1>4. pair' = [Fresh EXCEPT !.state = "Cooldown", !.notional = n]
  <2>1. [pair EXCEPT !.notional = n].notional = n
    BY DEF IInv, Shape, Pair
  <2> QED
    BY <1>1, <2>1 DEF Cooled
<1>5. Shape(pair)' /\ PositionFilled(pair)' /\ pair'.state = "Cooldown" /\ Comes(pair, flight)'
  BY <1>2, <1>3, <1>4, CooledShape
<1>6. Booked'
  BY <1>2, <1>5 DEF IInv, Booked, Working
<1> QED
  BY <1>2, <1>5, <1>6, SameVenue DEF IInv

(* check_cooldown preserves the invariant. *)
LEMMA CooldownEndsInv == IInv /\ CooldownEnds => IInv'
<1> SUFFICES ASSUME IInv, CooldownEnds PROVE IInv'
  OBVIOUS
<1>1. /\ pair.state = "Cooldown" /\ pair' = Fresh
      /\ UNCHANGED <<setting, risk, flight, orders, channel, cache>>
  BY DEF CooldownEnds
<1>2. Shape(pair)' /\ PositionFilled(pair)' /\ pair'.state = "Idle" /\ Comes(pair, flight)'
  BY <1>1, FreshShape DEF IInv
<1>3. Booked'
  BY <1>1, <1>2 DEF IInv, Booked, Working
<1> QED
  BY <1>1, <1>2, <1>3, SameVenue DEF IInv

(* An answer that nothing waits for is dropped, or one that is no longer waited for. *)
LEMMA Unawaited ==
  ASSUME NEW p, NEW f, NEW r, Comes(p, f),
         r.kind = "place" => r.id # p.place,
         r.kind = "cancel" => r.id \notin {p.cancelReq, p.exitCancelReq},
         r.kind \in {"entry_fills", "exit_fills"} => r.id # p.poll
  PROVE  Comes(p, f \ {r})
BY DEF Comes

(* What ends a trade releases what it was booked for. *)
LEMMA TradeOver ==
  ASSUME IInv, setting' = setting, pair.state \in Working, risk' = Released(pair.notional),
         pair' = [Fresh EXCEPT !.state = "Cooldown", !.notional = 0]
  PROVE  Shape(pair)' /\ PositionFilled(pair)' /\ Comes(pair, flight)' /\ Booked'
<1>1. setting \in Settings /\ 0 \in 0..MaxQty /\ 0 <= setting.qty /\ setting.qty \in Nat
  BY SettingType DEF IInv
<1>2. Shape(pair)' /\ PositionFilled(pair)' /\ Comes(pair, flight)' /\ pair'.state = "Cooldown"
  BY <1>1, CooledShape
<1>3. /\ pair.notional \in Nat /\ 0 < pair.notional /\ pair.notional <= setting.qty
      /\ risk.used \in Nat /\ risk.open = 1 /\ setting.qty <= risk.used
      /\ setting.qty = 1 => risk.used = 1
  BY SettingType DEF IInv, Shape, Booked, Pair
<1>4. risk' = [used |-> risk.used - pair.notional, open |-> 0]
  BY <1>3, <1>1 DEF Released, Min2
<1>5. risk' \in [used : Nat, open : Nat] /\ risk'.open = 0 /\ (setting.qty = 1 => risk'.used = 0)
  BY <1>1, <1>3, <1>4
<1>6. Booked'
  BY <1>2, <1>5 DEF Booked, Working
<1> QED
  BY <1>2, <1>6

(* The cooldown after a trade whose notional was released. *)
LEMMA CooledZero ==
  ASSUME NEW p \in Pair
  PROVE  Cooled([p EXCEPT !.notional = 0]) = [Fresh EXCEPT !.state = "Cooldown", !.notional = 0]
<1>1. [p EXCEPT !.notional = 0].notional = 0
  BY DEF Pair
<1> QED
  BY <1>1 DEF Cooled

(* What a fill of the entry leaves is a position that was bought. *)
LEMMA FilledShape ==
  ASSUME setting \in Settings, NEW p, Shape(p), p.order \in Orders, orders[p.order].filled > 0,
         NEW f, Comes(p, f), NEW size \in 1..setting.qty
  PROVE  /\ Shape(EntryFilled(p, size)) /\ Comes(EntryFilled(p, size), f)
         /\ PositionFilled(EntryFilled(p, size))
         /\ EntryFilled(p, size).state = "PositionOpen"
<1> DEFINE q == EntryFilled(p, size)
<1>1. p \in Pair /\ size \in 0..MaxQty /\ 0 < size /\ size <= setting.qty
  BY SettingType DEF Shape
<1>2. /\ q \in Pair /\ q.state = "PositionOpen" /\ q.notional = size
      /\ q.order = p.order /\ q.exit = p.exit /\ q.place = p.place
      /\ q.cancelReq = NoReq /\ q.exitCancelReq = p.exitCancelReq
      /\ q.exitCancel = p.exitCancel /\ q.poll = p.poll
  BY <1>1 DEF EntryFilled, Pair, States
<1>3. p.state \in Working /\ p.place = NoReq
  BY TradePairAssumption DEF Shape, Working
<1> HIDE DEF q
<1>4. Shape(q)
  BY <1>1, <1>2, <1>3 DEF Shape, Working
<1>5. Comes(q, f) /\ PositionFilled(q)
  BY <1>2 DEF Comes, PositionFilled
<1> QED
  BY <1>2, <1>4, <1>5 DEF q

(* The pair whose poll is over. *)
LEMMA UnpolledShape ==
  ASSUME IInv, NEW p \in {pair, [pair EXCEPT !.poll = NoReq]}
  PROVE  /\ p \in Pair /\ Shape(p) /\ Comes(p, flight) /\ PositionFilled(p)
         /\ p.poll \in {pair.poll, NoReq}
         /\ p.state = pair.state /\ p.notional = pair.notional /\ p.order = pair.order
         /\ p.exit = pair.exit /\ p.cancel = pair.cancel /\ p.exitCancel = pair.exitCancel
         /\ p.place = pair.place /\ p.cancelReq = pair.cancelReq
         /\ p.exitCancelReq = pair.exitCancelReq
<1>1. /\ p \in Pair
      /\ p.poll \in {pair.poll, NoReq}
      /\ p.state = pair.state /\ p.notional = pair.notional /\ p.order = pair.order
      /\ p.exit = pair.exit /\ p.cancel = pair.cancel /\ p.exitCancel = pair.exitCancel
      /\ p.place = pair.place /\ p.cancelReq = pair.cancelReq
      /\ p.exitCancelReq = pair.exitCancelReq
  BY DEF IInv, Shape, Pair
<1>2. Shape(p)
  BY <1>1 DEF IInv, Shape
<1>3. Comes(p, flight) /\ PositionFilled(p)
  BY <1>1 DEF IInv, Comes, PositionFilled
<1> QED
  BY <1>1, <1>2, <1>3

(* handle_entry_place_result preserves the invariant. *)
LEMMA HandlePlaceAnswerInv ==
  ASSUME IInv, NEW r \in flight, HandlePlaceAnswer(r)
  PROVE  IInv'
<1>1. /\ r.kind = "place" /\ flight' = flight \ {r}
      /\ UNCHANGED <<setting, channel, cache>>
  BY DEF HandlePlaceAnswer
<1>2. /\ setting \in Settings /\ Shape(pair) /\ pair \in Pair /\ Comes(pair, flight)
      /\ r \in Request /\ flight \subseteq TrueRequests /\ OrdersInv
  BY DEF IInv, Shape, TrueRequests
<1>3. CASE r.id # pair.place /\ UNCHANGED <<pair, risk, orders>>
  <2>1. Comes(pair, flight)'
    BY <1>1, <1>2, <1>3, Unawaited
  <2>2. Shape(pair)' /\ PositionFilled(pair)' /\ Booked'
    BY <1>1, <1>3 DEF IInv, Shape, PositionFilled, Booked
  <2> QED
    BY <1>1, <1>3, <2>1, <2>2, SameVenue DEF IInv
<1>4. CASE /\ r.id = pair.place
           /\ pair' = [pair EXCEPT !.state = "EntryWorking", !.place = NoReq, !.order = r.order]
           /\ risk' = Added(pair.notional)
           /\ orders' = IF r.order = NoOrder THEN orders
                        ELSE [orders EXCEPT ![r.order].early = orders[r.order].filled]
  <2>1. /\ pair.state = "EntryPlacing" /\ pair.notional = setting.qty
        /\ pair.cancelReq = NoReq /\ pair.exitCancelReq = NoReq /\ pair.poll = NoReq
        /\ pair.exit = NoOrder
    BY <1>2, <1>4, TradePairAssumption DEF Shape, Working, Request
  <2>2. /\ pair' \in Pair
        /\ pair'.state = "EntryWorking" /\ pair'.place = NoReq /\ pair'.notional = setting.qty
        /\ pair'.cancelReq = NoReq /\ pair'.exitCancelReq = NoReq /\ pair'.poll = NoReq
    BY <1>2, <1>4, <2>1 DEF Pair, States, Request
  <2>3. Shape(pair)' /\ Comes(pair, flight)' /\ PositionFilled(pair)'
    BY <1>1, <1>2, <2>2, SettingType DEF Shape, Comes, PositionFilled, Working
  <2>4. Booked'
    <3>1. /\ setting.qty \in Nat /\ 0 < setting.qty
          /\ risk.used \in Nat /\ risk.open = 0 /\ (setting.qty = 1 => risk.used = 0)
      BY <1>2, <2>1, SettingType DEF IInv, Booked, Working
    <3>2. risk' = [used |-> risk.used + setting.qty, open |-> 1]
      BY <1>4, <2>1, <3>1 DEF Added
    <3> QED
      BY <1>1, <2>2, <3>1, <3>2 DEF Booked, Working
  <2>5. OrdersInv' /\ OrdersKept
    <3>1. CASE r.order = NoOrder
      BY <1>1, <1>2, <1>4, <3>1, SameOrders
    <3>2. CASE r.order # NoOrder
      <4>1. r.order \in Orders
        BY <1>2, <3>2 DEF Request
      <4>2. /\ orders \in [Orders -> Order]
            /\ orders' = [orders EXCEPT ![r.order] =
                            [orders[r.order] EXCEPT !.early = orders[r.order].filled]]
        BY <1>2, <1>4, <3>2 DEF OrdersInv
      <4>3. orders' \in [Orders -> Order]
        BY <4>1, <4>2 DEF Order
      <4>4. \A o \in Orders :
              /\ orders'[o].size = orders[o].size /\ orders'[o].filled = orders[o].filled
              /\ orders'[o].cancelled = orders[o].cancelled
              /\ orders'[o].early \in {orders[o].early, orders[o].filled}
        BY <4>1, <4>2 DEF Order
      <4>5. \A o \in Orders : orders[o].filled <= orders[o].filled
        BY <1>2, OrderType
      <4> QED
        BY <1>1, <1>2, <4>3, <4>4, <4>5 DEF OrdersInv, OrdersKept
    <3> QED
      BY <3>1, <3>2
  <2>6. TrueMessages \subseteq TrueMessages' /\ TrueRequests \subseteq TrueRequests'
    BY <1>1, <1>2, <2>5, KeptMessages, KeptRequests
  <2>7. channel' \in Seq(TrueMessages')
    BY <1>1, <2>6, SeqMonotone DEF IInv
  <2> QED
    BY <1>1, <2>3, <2>4, <2>5, <2>6, <2>7 DEF IInv
<1>5. CASE /\ r.id = pair.place /\ pair' = Cooled([pair EXCEPT !.notional = 0])
           /\ UNCHANGED <<risk, orders>>
  <2>1. pair.state = "EntryPlacing"
    BY <1>2, <1>5, TradePairAssumption DEF Shape, Request
  <2>2. 0 \in 0..MaxQty /\ 0 <= setting.qty
    BY <1>2, SettingType
  <2>3. pair' = [Fresh EXCEPT !.state = "Cooldown", !.notional = 0]
    BY <1>2, <1>5, CooledZero
  <2>4. Shape(pair)' /\ PositionFilled(pair)' /\ Comes(pair, flight)' /\ pair'.state = "Cooldown"
    BY <1>1, <1>2, <2>2, <2>3, CooledShape
  <2>5. Booked'
    BY <1>1, <1>5, <2>1, <2>4 DEF IInv, Booked, Working
  <2> QED
    BY <1>1, <1>5, <2>4, <2>5, SameVenue DEF IInv
<1> QED
  BY <1>3, <1>4, <1>5 DEF HandlePlaceAnswer

(* check_entry preserves the invariant. *)
LEMMA CheckEntryInv == IInv /\ CheckEntry => IInv'
<1> SUFFICES ASSUME IInv, CheckEntry PROVE IInv'
  OBVIOUS
<1>1. PICK i \in Ids(pair, flight), cancel \in BOOLEAN :
        /\ i[1] # NoReq => pair.cancelReq = NoReq /\ pair.order # NoOrder
        /\ i[2] # NoReq => pair.poll = NoReq
        /\ pair' = [pair EXCEPT !.cancel = cancel,
                                !.cancelReq = Refers(@, i[1]), !.poll = Refers(@, i[2])]
        /\ flight' = flight \cup Sent(i[1], "cancel", pair.order)
                            \cup Sent(i[2], "entry_fills", NoOrder)
  BY DEF CheckEntry
<1>2. /\ pair.state = "EntryWorking" /\ pair.place = NoReq
      /\ UNCHANGED <<setting, risk, orders, channel, cache>>
  BY DEF CheckEntry
<1>3. /\ i[1] \in Reqs \cup {NoReq} /\ i[2] \in Reqs \cup {NoReq}
      /\ i[1] # NoReq => i[1] \in FreeIds(pair, flight)
  BY TwoIds
<1>4. /\ setting \in Settings /\ pair \in Pair /\ pair.order \in Orders \cup {NoOrder}
      /\ Shape(pair) /\ Comes(pair, flight)
  BY DEF IInv, Shape, Pair
<1>5. i[1] # NoReq => i[1] # pair.exitCancelReq
  BY <1>3, FreeId
<1>6. /\ pair' \in Pair
      /\ pair'.cancelReq = IF i[1] = NoReq THEN pair.cancelReq ELSE i[1]
      /\ pair'.poll = IF i[2] = NoReq THEN pair.poll ELSE i[2]
      /\ pair'.state = pair.state /\ pair'.notional = pair.notional
      /\ pair'.order = pair.order /\ pair'.exit = pair.exit /\ pair'.place = pair.place
      /\ pair'.exitCancel = pair.exitCancel /\ pair'.exitCancelReq = pair.exitCancelReq
  <2>1. CASE cancel = TRUE
    BY <1>1, <1>3, <1>4, <2>1 DEF Pair, Refers
  <2>2. CASE cancel = FALSE
    BY <1>1, <1>3, <1>4, <2>2 DEF Pair, Refers
  <2> QED
    BY <2>1, <2>2
<1>7. /\ Sent(i[1], "cancel", pair.order) \subseteq TrueRequests
      /\ i[1] # NoReq => \E r \in Sent(i[1], "cancel", pair.order) :
                           r.id = i[1] /\ r.kind = "cancel" /\ r.order = pair.order
  BY <1>1, <1>3, <1>4, SentRequests
<1>8. /\ Sent(i[2], "entry_fills", NoOrder) \subseteq TrueRequests
      /\ i[2] # NoReq => \E r \in Sent(i[2], "entry_fills", NoOrder) :
                           r.id = i[2] /\ r.kind = "entry_fills"
  BY <1>3, <1>4, SentRequests
<1>9. Shape(pair)'
  BY <1>2, <1>4, <1>5, <1>6 DEF Shape, Working
<1>10. Comes(pair, flight)' /\ PositionFilled(pair)'
  BY <1>1, <1>2, <1>4, <1>6, <1>7, <1>8 DEF Comes, PositionFilled
<1>11. Booked'
  BY <1>2, <1>6 DEF IInv, Booked
<1> QED
  BY <1>1, <1>2, <1>7, <1>8, <1>9, <1>10, <1>11, SameVenue DEF IInv

(* What every handler that checks for exit leaves. *)
LEMMA CheckedInv ==
  ASSUME IInv, NEW p, NEW f, ExitChecked(p, f),
         pair.state \in Working, UNCHANGED <<setting, risk, cache>>,
         channel' \in Seq(TrueMessages), Len(channel') <= setting.waiting
  PROVE  IInv'
<1>1. TrueMessages \subseteq TrueMessages'
  BY KeptMessages DEF IInv, ExitChecked
<1>2. channel' \in Seq(TrueMessages')
  BY <1>1, SeqMonotone
<1>3. Booked'
  BY DEF IInv, Booked, ExitChecked, Working
<1>4. /\ setting' = setting /\ setting \in Settings /\ Shape(pair)' /\ Comes(pair, flight)'
      /\ PositionFilled(pair)' /\ OrdersInv' /\ flight' \subseteq TrueRequests'
      /\ cache' \in [known : BOOLEAN, open : SUBSET Orders]
  BY DEF IInv, ExitChecked
<1> QED
  BY <1>2, <1>3, <1>4 DEF IInv

(* A check for exit, on a bar or on the cancel timer, preserves the invariant. *)
LEMMA BarChecksExitInv == IInv /\ BarChecksExit => IInv'
<1> SUFFICES ASSUME IInv, BarChecksExit PROVE IInv'
  OBVIOUS
<1>1. /\ pair.state \in {"PositionOpen", "ExitWorking"} /\ CheckExit(pair, flight)
      /\ UNCHANGED <<setting, risk, channel, cache>>
  BY DEF BarChecksExit
<1>2. ExitChecked(pair, flight)
  BY <1>1, CheckExitKeeps DEF IInv
<1>3. pair.state \in Working
  BY <1>1 DEF Working
<1> QED
  BY <1>1, <1>2, <1>3, CheckedInv DEF IInv

(* The exit order is gone, or its cancel request is answered: the rest is kept. *)
LEMMA ExitCancelledKeeps ==
  ASSUME IInv, UNCHANGED <<setting, orders>>,
         \/ pair' = ExitCancelled(pair)
         \/ pair' = [pair EXCEPT !.exitCancelReq = NoReq]
         \/ pair' = [pair EXCEPT !.cancelReq = NoReq]
  PROVE  /\ Shape(pair)' /\ PositionFilled(pair)'
         /\ pair'.state = pair.state /\ pair'.place = pair.place /\ pair'.poll = pair.poll
         /\ pair'.cancelReq \in {pair.cancelReq, NoReq} /\ pair'.order = pair.order
         /\ pair'.exitCancelReq # NoReq => /\ pair'.exitCancelReq = pair.exitCancelReq
                                           /\ pair'.exit = pair.exit
<1>1. pair \in Pair /\ Shape(pair)
  BY DEF IInv, Shape
<1>2. /\ pair' \in Pair
      /\ pair'.state = pair.state /\ pair'.place = pair.place /\ pair'.poll = pair.poll
      /\ pair'.order = pair.order /\ pair'.notional = pair.notional
      /\ \/ /\ pair'.exit = NoOrder /\ pair'.exitCancel = FALSE /\ pair'.exitCancelReq = NoReq
            /\ pair'.cancelReq = pair.cancelReq
         \/ /\ pair'.exit = pair.exit /\ pair'.exitCancel = pair.exitCancel
            /\ pair'.exitCancelReq = NoReq /\ pair'.cancelReq = pair.cancelReq
         \/ /\ pair'.exit = pair.exit /\ pair'.exitCancel = pair.exitCancel
            /\ pair'.exitCancelReq = pair.exitCancelReq /\ pair'.cancelReq = NoReq
  <2>1. CASE pair' = ExitCancelled(pair)
    BY <1>1, <2>1 DEF ExitCancelled, Pair
  <2>2. CASE pair' = [pair EXCEPT !.exitCancelReq = NoReq]
    BY <1>1, <2>2 DEF Pair
  <2>3. CASE pair' = [pair EXCEPT !.cancelReq = NoReq]
    BY <1>1, <2>3 DEF Pair
  <2> QED
    BY <2>1, <2>2, <2>3
<1>3. Shape(pair)'
  BY <1>1, <1>2 DEF Shape, Working
<1>4. PositionFilled(pair)'
  BY <1>2 DEF IInv, PositionFilled
<1> QED
  BY <1>2, <1>3, <1>4

(* The cache of open orders holds orders of the venue, whether it is refreshed or
   not. *)
LEMMA CacheType ==
  ASSUME IInv, NEW look \in Looks, NEW r,
         \/ cache' = [CacheAfter(look) EXCEPT !.open = @ \ {r.order}]
         \/ cache' = CacheAfter(look)
  PROVE  cache' \in [known : BOOLEAN, open : SUBSET Orders]
<1>1. OpenOrders \subseteq Orders
  BY DEF OpenOrders
<1>2. CacheAfter(look) \in [known : BOOLEAN, open : SUBSET Orders]
  BY <1>1 DEF IInv, CacheAfter
<1> HIDE DEF CacheAfter
<1> QED
  BY <1>2

(* handle_cancel_response preserves the invariant. *)
LEMMA HandleCancelAnswerInv ==
  ASSUME IInv, NEW r \in flight, HandleCancelAnswer(r)
  PROVE  IInv'
<1>1. /\ r.kind = "cancel" /\ flight' = flight \ {r}
      /\ UNCHANGED <<setting, orders, channel>>
  BY DEF HandleCancelAnswer
<1>2. /\ setting \in Settings /\ Shape(pair) /\ pair \in Pair /\ Comes(pair, flight)
      /\ r \in Request /\ flight \subseteq TrueRequests /\ r.id \in Reqs /\ r.id # NoReq
  BY TradePairAssumption DEF IInv, Shape, TrueRequests, Request
<1>3. flight' \subseteq TrueRequests'
  BY <1>1, <1>2, SameVenue
<1>4. CASE r.id \notin {pair.cancelReq, pair.exitCancelReq} /\ UNCHANGED <<pair, risk, cache>>
  <2>1. Comes(pair, flight)'
    BY <1>1, <1>2, <1>4, Unawaited
  <2>2. Shape(pair)' /\ PositionFilled(pair)' /\ Booked'
    BY <1>1, <1>4 DEF IInv, Shape, PositionFilled, Booked
  <2> QED
    BY <1>1, <1>3, <1>4, <2>1, <2>2, SameVenue DEF IInv
<1>5. CASE r.id \in {pair.cancelReq, pair.exitCancelReq}
  <2>1. PICK look \in Looks, ok \in BOOLEAN :
          /\ cache' = IF ok THEN [CacheAfter(look) EXCEPT !.open = @ \ {r.order}]
                      ELSE CacheAfter(look)
          /\ \/ r.id = pair.cancelReq /\ ok /\ EntryCancelled
             \/ /\ r.id = pair.cancelReq /\ ~ok
                /\ pair' = [pair EXCEPT !.cancelReq = NoReq]
                /\ UNCHANGED risk
             \/ /\ r.id = pair.exitCancelReq
                /\ pair' = IF ok THEN ExitCancelled(pair)
                           ELSE [pair EXCEPT !.exitCancelReq = NoReq]
                /\ UNCHANGED risk
    BY <1>5 DEF HandleCancelAnswer
  <2>2. cache' \in [known : BOOLEAN, open : SUBSET Orders]
    BY <2>1, CacheType
  <2>3. CASE r.id = pair.cancelReq /\ EntryCancelled
    <3>1. pair.state \in Working
      BY <1>2, <2>3 DEF Shape, Working
    <3>2. /\ risk' = Released(pair.notional)
          /\ pair' = [Fresh EXCEPT !.state = "Cooldown", !.notional = 0]
      BY <1>2, <2>3, CooledZero DEF EntryCancelled
    <3>3. Shape(pair)' /\ PositionFilled(pair)' /\ Comes(pair, flight)' /\ Booked'
      BY <1>1, <3>1, <3>2, TradeOver
    <3> QED
      BY <1>1, <1>3, <2>2, <3>3, SameVenue DEF IInv
  <2>4. CASE /\ r.id = pair.cancelReq /\ pair' = [pair EXCEPT !.cancelReq = NoReq]
             /\ UNCHANGED risk
    <3>1. /\ Shape(pair)' /\ PositionFilled(pair)'
          /\ pair'.state = pair.state /\ pair'.place = pair.place /\ pair'.poll = pair.poll
          /\ pair'.exitCancelReq # NoReq => /\ pair'.exitCancelReq = pair.exitCancelReq
                                            /\ pair'.exit = pair.exit
      BY <1>1, <2>4, ExitCancelledKeeps
    <3>2. pair'.cancelReq = NoReq
      BY <1>2, <2>4 DEF Pair
    <3>3. pair.cancelReq # pair.exitCancelReq
      BY <1>2, <2>4 DEF Shape
    <3>4. Comes(pair, flight)'
      BY <1>1, <1>2, <2>4, <3>1, <3>2, <3>3 DEF Comes
    <3>5. Booked'
      BY <1>1, <2>4, <3>1 DEF IInv, Booked
    <3> QED
      BY <1>1, <1>3, <2>2, <3>1, <3>4, <3>5, SameVenue DEF IInv
  <2>5. CASE /\ r.id = pair.exitCancelReq /\ UNCHANGED risk
             /\ \/ pair' = ExitCancelled(pair)
                \/ pair' = [pair EXCEPT !.exitCancelReq = NoReq]
    <3>1. /\ Shape(pair)' /\ PositionFilled(pair)'
          /\ pair'.state = pair.state /\ pair'.place = pair.place /\ pair'.poll = pair.poll
          /\ pair'.cancelReq \in {pair.cancelReq, NoReq} /\ pair'.order = pair.order
      BY <1>1, <2>5, ExitCancelledKeeps
    <3>2. pair'.exitCancelReq = NoReq
      BY <1>2, <2>5 DEF Pair, ExitCancelled
    <3>3. pair.cancelReq # NoReq => pair.cancelReq # r.id
      BY <1>2, <2>5 DEF Shape
    <3>4. Comes(pair, flight)'
      BY <1>1, <1>2, <2>5, <3>1, <3>2, <3>3 DEF Comes
    <3>5. Booked'
      BY <1>1, <2>5, <3>1 DEF IInv, Booked
    <3> QED
      BY <1>1, <1>3, <2>2, <3>1, <3>4, <3>5, SameVenue DEF IInv
  <2> QED
    BY <2>1, <2>3, <2>4, <2>5
<1> QED
  BY <1>4, <1>5 DEF HandleCancelAnswer

(* handle_fill_response preserves the invariant. *)
LEMMA HandleFillAnswerInv ==
  ASSUME IInv, NEW r \in flight, HandleFillAnswer(r)
  PROVE  IInv'
<1> DEFINE rest == flight \ {r}
           p == IF r.id = pair.poll THEN [pair EXCEPT !.poll = NoReq] ELSE pair
           mine == IF r.kind = "entry_fills" THEN p.order ELSE p.exit
           size == IF r.id = pair.poll /\ mine # NoOrder THEN r.trades[mine] ELSE 0
<1>1. /\ r.kind \in {"entry_fills", "exit_fills"} /\ UNCHANGED <<setting, channel, cache>>
      /\ \/ size = 0 /\ pair' = p /\ flight' = rest /\ UNCHANGED <<risk, orders>>
         \/ /\ size > 0 /\ r.kind = "entry_fills"
            /\ CheckExit(EntryFilled(p, size), rest)
            /\ UNCHANGED risk
         \/ /\ size > 0 /\ r.kind = "exit_fills"
            /\ ExitFilled(p) /\ flight' = rest
            /\ UNCHANGED orders
  BY DEF HandleFillAnswer
<1>2. /\ setting \in Settings /\ Shape(pair) /\ pair \in Pair /\ Comes(pair, flight)
      /\ r \in Request /\ r \in TrueRequests /\ flight \subseteq TrueRequests
      /\ r.id \in Reqs /\ r.id # NoReq /\ OrdersInv
  BY TradePairAssumption DEF IInv, Shape, TrueRequests, Request
<1>3. p \in {pair, [pair EXCEPT !.poll = NoReq]} /\ p.poll # r.id
  BY <1>2 DEF Pair
<1>4. /\ p \in Pair /\ Shape(p) /\ PositionFilled(p)
      /\ p.state = pair.state /\ p.notional = pair.notional /\ p.order = pair.order
      /\ p.exit = pair.exit
  BY <1>3, UnpolledShape
<1>5. Comes(p, rest)
  <2>1. Comes(p, flight)
    BY <1>3, UnpolledShape
  <2> HIDE DEF p
  <2> QED
    BY <1>1, <1>3, <2>1, Unawaited
<1>6. rest \subseteq TrueRequests
  BY <1>2
<1>7. size > 0 => mine \in Orders /\ size \in 1..setting.qty /\ orders[mine].filled > 0
  <2>1. mine \in Orders \cup {NoOrder}
    BY <1>4 DEF Pair
  <2> HIDE DEF mine, p
  <2>2. \A o \in Orders : r.trades[o] \in 0..MaxQty
    BY <1>2 DEF Request, Trades
  <2> QED
    BY <1>2, <2>1, <2>2, SettingType DEF TrueRequests
<1>8. size > 0 => pair.state \in Working
  BY <1>2, <1>4, <1>7, TradePairAssumption DEF Shape
<1> HIDE DEF p, mine, size
<1>9. CASE size = 0 /\ pair' = p /\ flight' = rest /\ UNCHANGED <<risk, orders>>
  <2>1. Shape(pair)' /\ PositionFilled(pair)' /\ Comes(pair, flight)'
    BY <1>1, <1>4, <1>5, <1>9 DEF Shape, PositionFilled, Comes
  <2>2. Booked'
    BY <1>1, <1>4, <1>9 DEF IInv, Booked
  <2> QED
    BY <1>1, <1>6, <1>9, <2>1, <2>2, SameVenue DEF IInv
<1>10. CASE /\ size > 0 /\ r.kind = "entry_fills"
            /\ CheckExit(EntryFilled(p, size), rest)
            /\ UNCHANGED risk
  <2> DEFINE q == EntryFilled(p, size)
  <2>1. p.order \in Orders /\ orders[p.order].filled > 0 /\ size \in 1..setting.qty
    BY <1>7, <1>10 DEF mine
  <2>2. Shape(q) /\ Comes(q, rest) /\ PositionFilled(q) /\ q.state = "PositionOpen"
    BY <1>2, <1>4, <1>5, <2>1, FilledShape
  <2>3. CheckExit(q, rest)
    BY <1>10
  <2> HIDE DEF q, rest
  <2>4. ExitChecked(q, rest)
    BY <1>1, <1>2, <1>6, <2>2, <2>3, CheckExitKeeps
  <2>5. channel' \in Seq(TrueMessages) /\ Len(channel') <= setting.waiting
    BY <1>1 DEF IInv
  <2> QED
    BY <1>1, <1>8, <1>10, <2>4, <2>5, CheckedInv
<1>11. CASE /\ size > 0 /\ ExitFilled(p) /\ flight' = rest
            /\ UNCHANGED orders
  <2>1. /\ risk' = Released(pair.notional)
        /\ pair' = [Fresh EXCEPT !.state = "Cooldown", !.notional = 0]
    BY <1>4, <1>11, CooledZero DEF ExitFilled
  <2>2. Shape(pair)' /\ PositionFilled(pair)' /\ Comes(pair, flight)' /\ Booked'
    BY <1>1, <1>8, <1>11, <2>1, TradeOver
  <2> QED
    BY <1>1, <1>6, <1>11, <2>2, SameVenue DEF IInv
<1> QED
  BY <1>1, <1>9, <1>10, <1>11

(* A message of the user channel preserves the invariant. *)
LEMMA HandleMessageInv == IInv /\ HandleMessage => IInv'
<1> SUFFICES ASSUME IInv, HandleMessage PROVE IInv'
  OBVIOUS
<1> DEFINE m == Head(channel)
           unpolled == [pair EXCEPT !.poll = NoReq]
<1>1. channel # <<>> /\ channel' = Tail(channel) /\ UNCHANGED <<setting, cache>>
  BY DEF HandleMessage
<1>2. /\ setting \in Settings /\ Shape(pair) /\ pair \in Pair /\ Comes(pair, flight)
      /\ flight \subseteq TrueRequests /\ OrdersInv
  BY DEF IInv, Shape
<1>3. /\ m \in TrueMessages /\ m.order \in Orders
      /\ channel' \in Seq(TrueMessages) /\ Len(channel') <= setting.waiting
  <2>1. /\ channel \in Seq(TrueMessages) /\ channel # <<>> /\ Len(channel) <= setting.waiting
        /\ setting.waiting \in Nat
    BY <1>1, SettingType DEF IInv
  <2>2. m \in TrueMessages
    BY <2>1, HeadTailProperties
  <2>3. channel' \in Seq(TrueMessages) /\ Len(channel') = Len(channel) - 1 /\ Len(channel) \in Nat
    BY <1>1, <2>1, HeadTailProperties, LenProperties
  <2> QED
    BY <2>1, <2>2, <2>3 DEF TrueMessages, Message
<1>4. m.order \in {pair.order, pair.exit} => pair.state \in Working
  BY <1>2, <1>3, TradePairAssumption DEF Shape
<1>5. /\ unpolled \in Pair /\ Shape(unpolled) /\ Comes(unpolled, flight) /\ PositionFilled(unpolled)
      /\ unpolled.order = pair.order /\ unpolled.notional = pair.notional
  BY UnpolledShape
<1> HIDE DEF m, unpolled
<1>6. ASSUME UNCHANGED <<flight, orders>>, Shape(pair)', PositionFilled(pair)', Booked',
             Comes(pair, flight)'
      PROVE  IInv'
  <2>1. channel' \in Seq(TrueMessages')
    BY <1>1, <1>3, <1>6, SameVenue, SeqMonotone
  <2>2. flight' \subseteq TrueRequests' /\ OrdersInv' /\ setting' = setting
    BY <1>1, <1>2, <1>6, SameVenue
  <2> QED
    BY <1>1, <1>2, <1>3, <1>6, <2>1, <2>2 DEF IInv
<1>7. CASE m.order \notin {pair.order, pair.exit} /\ UNCHANGED <<pair, risk, flight, orders>>
  <2>1. Shape(pair)' /\ PositionFilled(pair)' /\ Booked' /\ Comes(pair, flight)'
    BY <1>1, <1>7 DEF IInv, Shape, PositionFilled, Booked, Comes
  <2> QED
    BY <1>6, <1>7, <2>1
<1>8. CASE /\ m.order = pair.order /\ EntryCancelled
           /\ UNCHANGED <<flight, orders>>
  <2>1. /\ risk' = Released(pair.notional)
        /\ pair' = [Fresh EXCEPT !.state = "Cooldown", !.notional = 0]
    BY <1>2, <1>8, CooledZero DEF EntryCancelled
  <2> QED
    BY <1>1, <1>4, <1>6, <1>8, <2>1, TradeOver
<1>9. CASE pair' = ExitCancelled(pair) /\ UNCHANGED <<risk, flight, orders>>
  <2>1. /\ Shape(pair)' /\ PositionFilled(pair)'
        /\ pair'.state = pair.state /\ pair'.place = pair.place /\ pair'.poll = pair.poll
        /\ pair'.order = pair.order
    BY <1>1, <1>9, ExitCancelledKeeps
  <2>2. pair'.exitCancelReq = NoReq /\ pair'.cancelReq = pair.cancelReq
    BY <1>2, <1>9 DEF Pair, ExitCancelled
  <2>3. Comes(pair, flight)'
    BY <1>2, <1>9, <2>1, <2>2 DEF Comes
  <2>4. Booked'
    BY <1>1, <1>9, <2>1 DEF IInv, Booked
  <2> QED
    BY <1>6, <1>9, <2>1, <2>3, <2>4
<1>10. CASE /\ m.kind = "fill" /\ m.order = pair.order
            /\ CheckExit(EntryFilled(unpolled, m.size), flight)
            /\ UNCHANGED risk
  <2> DEFINE q == EntryFilled(unpolled, m.size)
  <2>1. orders[pair.order].filled > 0 /\ m.size \in 1..setting.qty /\ pair.order \in Orders
    BY <1>3, <1>10 DEF TrueMessages
  <2>2. Shape(q) /\ Comes(q, flight) /\ PositionFilled(q) /\ q.state = "PositionOpen"
    BY <1>2, <1>5, <2>1, FilledShape
  <2>3. CheckExit(q, flight)
    BY <1>10
  <2> HIDE DEF q
  <2>4. ExitChecked(q, flight)
    BY <1>1, <1>2, <2>2, <2>3, CheckExitKeeps
  <2> QED
    BY <1>1, <1>3, <1>4, <1>10, <2>4, CheckedInv
<1>11. CASE /\ m.order = pair.exit /\ ExitFilled(unpolled)
            /\ UNCHANGED <<flight, orders>>
  <2>1. /\ risk' = Released(pair.notional)
        /\ pair' = [Fresh EXCEPT !.state = "Cooldown", !.notional = 0]
    BY <1>5, <1>11, CooledZero DEF ExitFilled
  <2> QED
    BY <1>1, <1>4, <1>6, <1>11, <2>1, TradeOver
<1>12. CASE /\ m.order \in {pair.order, pair.exit}
            /\ \E id \in FreeIds(pair, flight) \cup {NoReq} :
                 /\ pair' = [pair EXCEPT !.poll = Refers(@, id)]
                 /\ flight' = flight \cup
                      Sent(id, IF m.order = pair.order THEN "entry_fills" ELSE "exit_fills", NoOrder)
            /\ UNCHANGED <<risk, orders>>
  <2> DEFINE kind == IF m.order = pair.order THEN "entry_fills" ELSE "exit_fills"
  <2>1. PICK id \in FreeIds(pair, flight) \cup {NoReq} :
          /\ pair' = [pair EXCEPT !.poll = Refers(@, id)]
          /\ flight' = flight \cup Sent(id, kind, NoOrder)
    BY <1>12
  <2>2. id \in Reqs \cup {NoReq} /\ kind \in {"entry_fills", "exit_fills"}
    BY DEF FreeIds
  <2> HIDE DEF kind
  <2>3. /\ pair' \in Pair
        /\ pair'.poll = IF id = NoReq THEN pair.poll ELSE id
        /\ pair'.state = pair.state /\ pair'.notional = pair.notional /\ pair'.order = pair.order
        /\ pair'.exit = pair.exit /\ pair'.cancel = pair.cancel /\ pair'.place = pair.place
        /\ pair'.cancelReq = pair.cancelReq /\ pair'.exitCancel = pair.exitCancel
        /\ pair'.exitCancelReq = pair.exitCancelReq
    BY <1>2, <2>1, <2>2 DEF Pair, Refers
  <2>4. /\ Sent(id, kind, NoOrder) \subseteq TrueRequests
        /\ id # NoReq => \E r \in Sent(id, kind, NoOrder) : r.id = id /\ r.kind = kind
    BY <1>2, <2>2, SentRequests
  <2>5. Shape(pair)'
    BY <1>1, <1>2, <1>4, <1>12, <2>3 DEF Shape, Working
  <2>6. Comes(pair, flight)'
    BY <1>2, <2>1, <2>2, <2>3, <2>4 DEF Comes
  <2>7. PositionFilled(pair)' /\ Booked'
    BY <1>1, <1>12, <2>3 DEF IInv, PositionFilled, Booked
  <2>8. TrueRequests \subseteq TrueRequests' /\ TrueMessages \subseteq TrueMessages' /\ OrdersInv'
    BY <1>1, <1>12, SameVenue
  <2>9. channel' \in Seq(TrueMessages')
    BY <1>3, <2>8, SeqMonotone
  <2>10. flight' \subseteq TrueRequests'
    BY <1>2, <2>1, <2>4, <2>8
  <2> QED
    BY <1>1, <1>2, <1>3, <2>5, <2>6, <2>7, <2>8, <2>9, <2>10 DEF IInv
<1> QED
  BY <1>7, <1>8, <1>9, <1>10, <1>11, <1>12 DEF HandleMessage, m, unpolled
-----------------------------------------------------------------------------
(* The venue. *)

(* An answer is about the request it answers. *)
LEMMA AnsweredKeeps ==
  ASSUME IInv, UNCHANGED <<setting, pair>>, OrdersInv', OrdersKept, NEW r \in flight,
         NEW answer \in {"rejected", "placed", "ok", "failed", "listed"} \cup Trouble,
         NEW o \in Orders \cup {NoOrder}, r.kind = "cancel" => o = r.order,
         NEW t \in Trades,
         \A x \in Orders : t[x] <= setting.qty /\ (t[x] > 0 => orders'[x].filled > 0),
         Answered(r, answer, o, t)
  PROVE  Comes(pair, flight)' /\ flight' \subseteq TrueRequests'
<1> DEFINE q == [r EXCEPT !.answer = answer, !.order = o, !.trades = t]
<1>1. /\ flight \subseteq TrueRequests /\ r \in Request /\ Comes(pair, flight)
      /\ r.kind = "cancel" => r.order \in Orders
  BY DEF IInv, TrueRequests
<1>2. /\ q \in Request /\ q.id = r.id /\ q.kind = r.kind /\ q.order = o /\ q.trades = t
  BY <1>1 DEF Request
<1>3. flight' = (flight \ {r}) \cup {q}
  BY DEF Answered
<1> HIDE DEF q
<1>4. q \in TrueRequests'
  BY <1>1, <1>2 DEF TrueRequests, Request, Trades
<1>5. flight' \subseteq TrueRequests'
  BY <1>1, <1>3, <1>4, KeptRequests DEF IInv
<1>6. \A s \in flight : \E z \in flight' :
        z.id = s.id /\ z.kind = s.kind /\ (s.kind = "cancel" => z.order = s.order)
  BY <1>2, <1>3
<1>7. Comes(pair, flight)'
  BY <1>1, <1>6 DEF Comes
<1> QED
  BY <1>5, <1>7

(* An answer that lists no trade says nothing untrue. *)
LEMMA NoTradesTrue ==
  ASSUME setting \in Settings
  PROVE  NoTrades \in Trades /\ \A x \in Orders : NoTrades[x] <= setting.qty /\ ~(NoTrades[x] > 0)
BY SettingType DEF NoTrades, Trades

(* A step of the venue. *)
LEMMA VenueInv ==
  ASSUME IInv, UNCHANGED <<setting, pair, risk, cache>>, OrdersInv', OrdersKept,
         Comes(pair, flight)', flight' \subseteq TrueRequests',
         channel' \in Seq(TrueMessages'), Len(channel') <= setting.waiting
  PROVE  IInv'
<1>1. PositionFilled(pair)'
  <2>1. \A o \in Orders : orders[o].filled \in Int /\ orders'[o].filled \in Int
    BY DEF IInv, OrdersInv, Order
  <2> QED
    BY <2>1 DEF IInv, PositionFilled, OrdersKept
<1>2. Shape(pair)' /\ Booked'
  BY DEF IInv, Shape, Booked
<1> QED
  BY <1>1, <1>2 DEF IInv

(* What waits in the channel stays true when nothing is added. *)
LEMMA SameChannel ==
  ASSUME IInv, UNCHANGED <<setting, channel>>, OrdersInv', OrdersKept
  PROVE  channel' \in Seq(TrueMessages') /\ Len(channel') <= setting.waiting
<1>1. TrueMessages \subseteq TrueMessages'
  BY KeptMessages DEF IInv
<1> QED
  BY <1>1, SeqMonotone DEF IInv

(* A message alone and two messages are sequences of messages. *)
LEMMA ShortSeq ==
  ASSUME NEW A, NEW a \in A, NEW b \in A
  PROVE  <<a>> \in Seq(A) /\ <<a, b>> \in Seq(A)
OBVIOUS

(* The channel stays true, and within its bound, when true messages are added or
   lost. *)
LEMMA ReportKeeps ==
  ASSUME IInv, setting' = setting, OrdersInv', OrdersKept,
         NEW messages, \A s \in messages : s \in Seq(TrueMessages'), Report(messages)
  PROVE  channel' \in Seq(TrueMessages') /\ Len(channel') <= setting.waiting
<1>1. CASE UNCHANGED channel
  BY <1>1, SameChannel
<1>2. CASE \E s \in messages :
             /\ Len(channel) + Len(s) <= setting.waiting
             /\ channel' = channel \o s
  <2>1. PICK s \in messages :
          Len(channel) + Len(s) <= setting.waiting /\ channel' = channel \o s
    BY <1>2
  <2>2. s \in Seq(TrueMessages') /\ channel \in Seq(TrueMessages')
    <3>1. TrueMessages \subseteq TrueMessages'
      BY KeptMessages DEF IInv
    <3> QED
      BY <3>1, SeqMonotone DEF IInv
  <2> QED
    BY <2>1, <2>2, ConcatProperties
<1> QED
  BY <1>1, <1>2 DEF Report

(* The venue's handling of a place request preserves the invariant. *)
LEMMA VenuePlacesInv ==
  ASSUME IInv, NEW r \in flight, VenuePlaces(r)
  PROVE  IInv'
<1>1. /\ r.kind = "place" /\ UNCHANGED <<setting, pair, risk, channel, cache>>
      /\ setting \in Settings /\ OrdersInv
  BY DEF VenuePlaces, IInv
<1>2. CASE \E o \in NewOrders :
             /\ orders' = Opened(o, TRUE, setting.qty)
             /\ \/ Answered(r, "placed", o, NoTrades)
                \/ \E t \in Trouble \cap {"lost", "no_id"} : Answered(r, t, NoOrder, NoTrades)
  <2>1. PICK o \in NewOrders :
          /\ orders' = Opened(o, TRUE, setting.qty)
          /\ \/ Answered(r, "placed", o, NoTrades)
             \/ \E t \in Trouble \cap {"lost", "no_id"} : Answered(r, t, NoOrder, NoTrades)
    BY <1>2
  <2>2. o \in Orders /\ orders[o] = Unused
    BY DEF NewOrders
  <2>3. setting.qty \in 0..MaxQty /\ setting.qty <= setting.qty
    BY <1>1, SettingType
  <2>4. OrdersInv' /\ OrdersKept
    BY <1>1, <2>1, <2>2, <2>3, OpenedKeeps
  <2>5. Comes(pair, flight)' /\ flight' \subseteq TrueRequests'
    BY <1>1, <2>1, <2>2, <2>4, NoTradesTrue, AnsweredKeeps
  <2> QED
    BY <1>1, <2>4, <2>5, SameChannel, VenueInv
<1>3. CASE Answered(r, "rejected", NoOrder, NoTrades) /\ UNCHANGED orders
  <2>1. OrdersInv' /\ OrdersKept
    BY <1>1, <1>3, SameOrders
  <2>2. Comes(pair, flight)' /\ flight' \subseteq TrueRequests'
    BY <1>1, <1>3, <2>1, NoTradesTrue, AnsweredKeeps
  <2> QED
    BY <1>1, <2>1, <2>2, SameChannel, VenueInv
<1> QED
  BY <1>2, <1>3 DEF VenuePlaces

(* The venue's handling of a cancel request preserves the invariant. *)
LEMMA VenueCancelsInv ==
  ASSUME IInv, NEW r \in flight, VenueCancels(r)
  PROVE  IInv'
<1>1. /\ r.kind = "cancel" /\ UNCHANGED <<setting, pair, risk, cache>>
      /\ setting \in Settings /\ OrdersInv /\ r.order \in Orders
  BY DEF VenueCancels, IInv, TrueRequests
<1>2. ASSUME OrdersInv', OrdersKept, \E a \in {"ok"} \cup Trouble : Answered(r, a, r.order, NoTrades)
      PROVE  Comes(pair, flight)' /\ flight' \subseteq TrueRequests'
  BY <1>1, <1>2, NoTradesTrue, AnsweredKeeps
<1>3. CASE /\ Open(r.order)
           /\ orders' = [orders EXCEPT ![r.order].cancelled = TRUE]
           /\ \E a \in {"ok"} \cup (Trouble \cap {"unavailable"}) : Answered(r, a, r.order, NoTrades)
           /\ Report({<<[kind |-> "cancelled", order |-> r.order, size |-> 0]>>})
  <2>1. /\ orders \in [Orders -> Order]
        /\ orders' = [orders EXCEPT ![r.order] = [orders[r.order] EXCEPT !.cancelled = TRUE]]
    BY <1>1, <1>3 DEF OrdersInv
  <2>2. orders' \in [Orders -> Order]
    BY <1>1, <2>1 DEF Order
  <2>3. \A o \in Orders :
          /\ orders'[o].size = orders[o].size /\ orders'[o].filled = orders[o].filled
          /\ orders'[o].early = orders[o].early
          /\ o # r.order => orders'[o] = orders[o]
          /\ orders[o].filled <= orders[o].filled
    BY <1>1, <2>1, OrderType DEF Order
  <2>4. orders'[r.order].cancelled = TRUE
    BY <1>1, <2>1 DEF Order
  <2>5. setting.qty = 1 => orders[r.order].filled = 0
    BY <1>1, <1>3, OrderType DEF OrdersInv, Open
  <2>6. OrdersInv' /\ OrdersKept
    BY <1>1, <2>2, <2>3, <2>4, <2>5 DEF OrdersInv, OrdersKept
  <2>7. channel' \in Seq(TrueMessages') /\ Len(channel') <= setting.waiting
    <3> DEFINE m == [kind |-> "cancelled", order |-> r.order, size |-> 0]
    <3>1. m \in Message /\ m.kind = "cancelled" /\ m.order = r.order
      BY <1>1, SettingType DEF Message
    <3> HIDE DEF m
    <3>2. m \in TrueMessages'
      BY <2>4, <3>1 DEF TrueMessages, Message
    <3>3. Report({<<m>>})
      BY <1>3 DEF m
    <3>4. \A s \in {<<m>>} : s \in Seq(TrueMessages')
      BY <3>2, ShortSeq
    <3> QED
      BY <1>1, <2>6, <3>3, <3>4, ReportKeeps
  <2> QED
    BY <1>1, <1>2, <1>3, <2>6, <2>7, VenueInv
<1>4. CASE /\ \E a \in {"ok"} \cup Trouble : Answered(r, a, r.order, NoTrades)
           /\ UNCHANGED <<orders, channel>>
  <2>1. OrdersInv' /\ OrdersKept
    BY <1>1, <1>4, SameOrders
  <2> QED
    BY <1>1, <1>2, <1>4, <2>1, SameChannel, VenueInv
<1> QED
  BY <1>3, <1>4 DEF VenueCancels

(* The venue's answer to a request for fills preserves the invariant. *)
LEMMA VenueListsTradesInv ==
  ASSUME IInv, NEW r \in flight, VenueListsTrades(r)
  PROVE  IInv'
<1>1. /\ r.kind # "cancel" /\ UNCHANGED <<setting, pair, risk, orders, channel, cache>>
      /\ setting \in Settings /\ OrdersInv
  BY DEF VenueListsTrades, IInv
<1>2. OrdersInv' /\ OrdersKept
  BY <1>1, SameOrders
<1>3. CASE Answered(r, "failed", NoOrder, NoTrades)
  <2>1. Comes(pair, flight)' /\ flight' \subseteq TrueRequests'
    BY <1>1, <1>2, <1>3, NoTradesTrue, AnsweredKeeps
  <2> QED
    BY <1>1, <1>2, <2>1, SameChannel, VenueInv
<1>4. CASE \E t \in Trades :
             /\ \A o \in Orders :
                  LET seen == orders[o].filled - orders[o].early IN
                  IF seen = 0 THEN t[o] = 0 ELSE t[o] \in 1..seen
             /\ Answered(r, "listed", NoOrder, t)
  <2>1. PICK t \in Trades :
          /\ \A o \in Orders :
               LET seen == orders[o].filled - orders[o].early IN
               IF seen = 0 THEN t[o] = 0 ELSE t[o] \in 1..seen
          /\ Answered(r, "listed", NoOrder, t)
    BY <1>4
  <2>2. ASSUME NEW o \in Orders
        PROVE  t[o] <= setting.qty /\ (t[o] > 0 => orders'[o].filled > 0)
    <3>1. /\ orders[o].filled <= orders[o].size /\ orders[o].size <= setting.qty
          /\ orders[o].filled \in Int /\ orders[o].size \in Int
          /\ 0 <= orders[o].early /\ orders[o].early \in Int
          /\ setting.qty \in Int /\ 0 <= setting.qty
      BY <1>1, OrderType, SettingType DEF OrdersInv
    <3>2. IF orders[o].filled - orders[o].early = 0 THEN t[o] = 0
          ELSE t[o] \in 1..(orders[o].filled - orders[o].early)
      BY <2>1
    <3> QED
      BY <1>1, <3>1, <3>2
  <2>3. Comes(pair, flight)' /\ flight' \subseteq TrueRequests'
    BY <1>1, <1>2, <2>1, <2>2, AnsweredKeeps
  <2> QED
    BY <1>1, <1>2, <2>3, SameChannel, VenueInv
<1> QED
  BY <1>3, <1>4 DEF VenueListsTrades

(* A trade with an open order preserves the invariant. *)
LEMMA VenueFillsInv ==
  ASSUME IInv, NEW o \in Orders, NEW size \in 1..setting.qty, VenueFills(o, size)
  PROVE  IInv'
<1> DEFINE update == [kind |-> "fill", order |-> o, size |-> orders[o].filled + size]
           record == [kind |-> "fill", order |-> o, size |-> size]
           done   == [kind |-> "done", order |-> o, size |-> 0]
<1>1. /\ Open(o) /\ orders[o].filled + size <= orders[o].size
      /\ orders' = [orders EXCEPT ![o].filled = @ + size]
      /\ UNCHANGED <<setting, pair, risk, flight, cache>>
      /\ Report({<<update>>, <<record>>, <<update, record>>, <<record, update>>}
                \cup IF orders'[o].filled = orders[o].size THEN {<<done>>} ELSE {})
  BY DEF VenueFills
<1>2. /\ setting \in Settings /\ OrdersInv /\ setting.qty \in Nat /\ setting.qty <= MaxQty
      /\ MaxQty \in Nat /\ size \in Int /\ 1 <= size /\ size <= setting.qty
  BY SettingType DEF IInv
<1>3. /\ orders[o].filled \in Int /\ 0 <= orders[o].filled /\ orders[o].size <= setting.qty
      /\ orders[o].size \in Int /\ orders[o].early <= orders[o].filled
      /\ orders[o].early \in Int
  BY <1>2, OrderType DEF OrdersInv
<1>4. orders[o].filled + size \in 1..setting.qty /\ orders[o].filled + size \in 0..MaxQty
  BY <1>1, <1>2, <1>3
<1>5. /\ orders \in [Orders -> Order]
      /\ orders' = [orders EXCEPT ![o] = [orders[o] EXCEPT !.filled = orders[o].filled + size]]
  BY <1>1, <1>2 DEF OrdersInv
<1>6. orders' \in [Orders -> Order]
  BY <1>4, <1>5 DEF Order
<1>7. /\ \A x \in Orders :
           /\ orders'[x].size = orders[x].size /\ orders'[x].early = orders[x].early
           /\ orders'[x].cancelled = orders[x].cancelled
           /\ x # o => orders'[x].filled = orders[x].filled
           /\ orders[x].filled <= orders[x].filled
      /\ orders'[o].filled = orders[o].filled + size
  BY <1>2, <1>5, OrderType DEF Order
<1>8. OrdersInv'
  BY <1>1, <1>2, <1>3, <1>6, <1>7 DEF OrdersInv, Open
<1>9. OrdersKept
  BY <1>2, <1>3, <1>7 DEF OrdersKept
<1>10. update \in TrueMessages' /\ record \in TrueMessages' /\ done \in TrueMessages'
  <2>1. orders'[o].filled > 0
    BY <1>2, <1>3, <1>7
  <2>2. /\ update \in Message /\ update.kind = "fill" /\ update.order = o
        /\ update.size \in 1..setting.qty
    BY <1>4 DEF Message
  <2>3. /\ record \in Message /\ record.kind = "fill" /\ record.order = o
        /\ record.size \in 1..setting.qty
    BY <1>2 DEF Message
  <2>4. done \in Message /\ done.kind = "done"
    BY <1>2 DEF Message
  <2> HIDE DEF update, record, done
  <2> QED
    BY <1>1, <2>1, <2>2, <2>3, <2>4 DEF TrueMessages, Message
<1> HIDE DEF update, record, done
<1>11. channel' \in Seq(TrueMessages') /\ Len(channel') <= setting.waiting
  <2> DEFINE messages == {<<update>>, <<record>>, <<update, record>>, <<record, update>>}
                         \cup IF orders'[o].filled = orders[o].size THEN {<<done>>} ELSE {}
  <2>1. \A s \in messages : s \in Seq(TrueMessages')
    BY <1>10, ShortSeq
  <2>2. Report(messages)
    BY <1>1
  <2> HIDE DEF messages
  <2> QED
    BY <1>1, <1>8, <1>9, <2>1, <2>2, ReportKeeps
<1>12. Comes(pair, flight)' /\ flight' \subseteq TrueRequests'
  BY <1>1, <1>2, <1>8, <1>9, KeptRequests DEF IInv, Comes
<1> QED
  BY <1>1, <1>8, <1>9, <1>11, <1>12, VenueInv
-----------------------------------------------------------------------------
(* The invariant, and what it says of every state. *)

LEMMA NextInv == IInv /\ [Next]_vars => IInv'
<1> SUFFICES ASSUME IInv, [Next]_vars PROVE IInv'
  OBVIOUS
<1>1. CASE UNCHANGED vars
  BY <1>1 DEF vars, IInv, Shape, Comes, PositionFilled, Booked, OrdersInv, TrueMessages, TrueRequests
<1>2. ASSUME NEW r \in flight,
             \/ HandlePlaceAnswer(r) \/ HandleCancelAnswer(r) \/ HandleFillAnswer(r)
             \/ VenuePlaces(r) \/ VenueCancels(r) \/ VenueListsTrades(r)
      PROVE  IInv'
  BY <1>2, HandlePlaceAnswerInv, HandleCancelAnswerInv, HandleFillAnswerInv,
     VenuePlacesInv, VenueCancelsInv, VenueListsTradesInv
<1>3. ASSUME NEW o \in Orders, NEW size \in 1..setting.qty, VenueFills(o, size)
      PROVE  IInv'
  BY <1>3, VenueFillsInv
<1> QED
  BY <1>1, <1>2, <1>3, EnterInv, EnterRefusedInv, CheckEntryInv, BarChecksExitInv,
     CooldownEndsInv, HandleMessageInv DEF Next

(* The invariant holds of every behaviour: of what bars, timer, answers and messages do
   to the pair, and of what the venue does meanwhile. *)
THEOREM Invariance == Spec => []IInv
BY InitInv, NextInv, PTL DEF Spec

(* The types of the whole state; no more messages wait than the user channel holds. *)
THEOREM PairTypes == Spec => []TypeOK
<1>1. IInv => TypeOK
  <2> SUFFICES ASSUME IInv PROVE TypeOK
    OBVIOUS
  <2>1. channel \in Seq(Message)
    <3>1. TrueMessages \subseteq Message
      BY DEF TrueMessages
    <3> QED
      BY <3>1, SeqMonotone DEF IInv
  <2>2. flight \subseteq Request /\ pair \in Pair
    BY DEF IInv, TrueRequests, Shape
  <2> QED
    BY <2>1, <2>2 DEF IInv, TypeOK, Booked, OrdersInv, Message
<1> QED
  BY <1>1, Invariance, PTL

(* An entry is booked once and released once, whatever order the answers, fills and
   cancellations arrive in. *)
THEOREM BookedOnceHolds == Spec => []BookedOnce
<1>1. IInv => BookedOnce
  BY DEF IInv, Booked, BookedOnce
<1> QED
  BY <1>1, Invariance, PTL

(* What the pair holds by its own figures is never more than the exposure counted
   for it, though fills rewrite its notional and not the exposure; with whole fills
   the exposure is exact, and gives everything back. *)
NotionalCovered ==
  /\ pair.state \in Working => 0 < pair.notional /\ pair.notional <= risk.used
  /\ setting.qty = 1 => risk.used = IF pair.state \in Working THEN pair.notional ELSE 0

(* The exposure counted for a pair covers what its own figures say it holds. *)
THEOREM NotionalCoveredHolds == Spec => []NotionalCovered
<1>1. IInv => NotionalCovered
  <2> SUFFICES ASSUME IInv PROVE NotionalCovered
    OBVIOUS
  <2>1. /\ pair.notional \in Nat /\ risk.used \in Nat /\ setting.qty \in Nat
        /\ pair.notional <= setting.qty
        /\ pair.state \in Working => 0 < pair.notional /\ setting.qty <= risk.used
        /\ setting.qty = 1 => risk.used = IF pair.state \in Working THEN 1 ELSE 0
    BY SettingType DEF IInv, Shape, Pair, Booked
  <2> QED
    BY <2>1 DEF NotionalCovered
<1> QED
  BY <1>1, Invariance, PTL

(* The engine waits only for answers that come, about the orders it works now. *)
THEOREM AwaitedInFlightHolds == Spec => []AwaitedInFlight
<1>1. IInv => AwaitedInFlight
  BY DEF IInv, Comes, AwaitedInFlight
<1> QED
  BY <1>1, Invariance, PTL

(* With whole fills, a position ends by a fill of its exit, never by a cancellation. *)
LEMMA FilledStep ==
  ASSUME IInv, [Next]_vars, setting.qty = 1,
         pair.state \in {"PositionOpen", "ExitWorking"}, pair'.state = "Cooldown"
  PROVE  pair.exit # NoOrder /\ orders[pair.exit].filled > 0
<1>1. /\ setting \in Settings /\ pair \in Pair /\ Shape(pair) /\ Comes(pair, flight) /\ OrdersInv
      /\ PositionFilled(pair) /\ flight \subseteq TrueRequests /\ pair.place = NoReq
      /\ pair.cancelReq = NoReq
  BY DEF IInv, Shape
<1>2. pair' # pair /\ ~UNCHANGED vars
  BY DEF vars
<1>3. ~Enter /\ ~EnterRefused /\ ~CheckEntry /\ ~CooldownEnds
  BY DEF Enter, EnterRefused, CheckEntry, CooldownEnds
<1>4. ASSUME BarChecksExit PROVE FALSE
  <2>1. setting' = setting /\ CheckExit(pair, flight)
    BY <1>4 DEF BarChecksExit
  <2>2. ExitChecked(pair, flight)
    BY <1>1, <2>1, CheckExitKeeps
  <2> QED
    BY <2>2 DEF ExitChecked
<1>5. ASSUME NEW r \in flight, HandlePlaceAnswer(r) PROVE FALSE
  <2>1. r.id # NoReq
    BY <1>1, TradePairAssumption DEF TrueRequests, Request
  <2> QED
    BY <1>1, <1>2, <1>5, <2>1 DEF HandlePlaceAnswer
<1>6. ASSUME NEW r \in flight, HandleCancelAnswer(r) PROVE FALSE
  <2>1. r.id # NoReq
    BY <1>1, TradePairAssumption DEF TrueRequests, Request
  <2>2. pair' = ExitCancelled(pair) \/ pair' = [pair EXCEPT !.exitCancelReq = NoReq]
    BY <1>1, <1>2, <1>6, <2>1 DEF HandleCancelAnswer
  <2>3. setting' = setting /\ orders' = orders
    BY <1>6 DEF HandleCancelAnswer
  <2> QED
    BY <2>2, <2>3, ExitCancelledKeeps
<1>7. ASSUME NEW r \in flight, HandleFillAnswer(r)
      PROVE  pair.exit # NoOrder /\ orders[pair.exit].filled > 0
  <2> DEFINE rest == flight \ {r}
             p == IF r.id = pair.poll THEN [pair EXCEPT !.poll = NoReq] ELSE pair
             mine == IF r.kind = "entry_fills" THEN p.order ELSE p.exit
             size == IF r.id = pair.poll /\ mine # NoOrder THEN r.trades[mine] ELSE 0
  <2>1. /\ r.kind \in {"entry_fills", "exit_fills"} /\ UNCHANGED <<setting, channel, cache>>
        /\ \/ pair' = p
           \/ /\ size > 0 /\ r.kind = "entry_fills"
              /\ CheckExit(EntryFilled(p, size), rest)
           \/ size > 0 /\ r.kind = "exit_fills"
    BY <1>7 DEF HandleFillAnswer
  <2>2. p \in {pair, [pair EXCEPT !.poll = NoReq]} /\ (r.id = pair.poll => p.poll = NoReq)
    BY <1>1 DEF Pair
  <2>3. /\ p \in Pair /\ Shape(p) /\ p.state = pair.state /\ p.order = pair.order
        /\ p.exit = pair.exit /\ Comes(p, flight)
    BY <2>2, UnpolledShape
  <2>4. r \in TrueRequests /\ r \in Request
    BY <1>1 DEF TrueRequests
  <2>5. size > 0 => mine \in Orders /\ size \in 1..setting.qty /\ orders[mine].filled > 0
    <3>1. mine \in Orders \cup {NoOrder}
      BY <2>3 DEF Pair
    <3> HIDE DEF mine, p
    <3>2. \A o \in Orders : r.trades[o] \in 0..MaxQty
      BY <2>4 DEF Request, Trades
    <3> QED
      BY <1>1, <2>4, <3>1, <3>2, SettingType DEF TrueRequests
  <2> HIDE DEF p, size, rest
  <2>6. pair' # p
    BY <2>3
  <2>7. CASE size > 0 /\ r.kind = "entry_fills" /\ CheckExit(EntryFilled(p, size), rest)
    <3> DEFINE q == EntryFilled(p, size)
    <3>1. /\ p.order \in Orders /\ orders[p.order].filled > 0 /\ size \in 1..setting.qty
          /\ r.id = pair.poll
      BY <2>5, <2>7 DEF mine, size
    <3>2. Comes(p, rest) /\ rest \subseteq TrueRequests
      <4>1. p.poll # r.id
        BY <2>2, <2>4, <3>1, TradePairAssumption DEF Request
      <4> QED
        BY <1>1, <2>1, <2>3, <4>1, Unawaited DEF rest
    <3>3. Shape(q) /\ Comes(q, rest) /\ PositionFilled(q) /\ q.state = "PositionOpen"
      BY <1>1, <2>3, <3>1, <3>2, FilledShape
    <3>4. CheckExit(q, rest)
      BY <2>7
    <3> HIDE DEF q
    <3>5. ExitChecked(q, rest)
      BY <1>1, <2>1, <3>2, <3>3, <3>4, CheckExitKeeps
    <3> QED
      BY <3>5 DEF ExitChecked
  <2>8. CASE size > 0 /\ r.kind = "exit_fills"
    BY <2>3, <2>5, <2>8, TradePairAssumption DEF mine
  <2> QED
    BY <2>1, <2>6, <2>7, <2>8
<1>8. ASSUME HandleMessage
      PROVE  pair.exit # NoOrder /\ orders[pair.exit].filled > 0
  <2> DEFINE m == Head(channel)
             unpolled == [pair EXCEPT !.poll = NoReq]
  <2>1. UNCHANGED <<setting, cache>> /\ channel # <<>>
    BY <1>8 DEF HandleMessage
  <2>2. m \in TrueMessages /\ m.order \in Orders /\ m.order # NoOrder
    <3>1. m \in TrueMessages
      BY <2>1, HeadTailProperties DEF IInv
    <3> QED
      BY <3>1, TradePairAssumption DEF TrueMessages, Message
  <2>3. /\ Shape(unpolled) /\ Comes(unpolled, flight) /\ unpolled.order = pair.order
    BY UnpolledShape
  <2> HIDE DEF m, unpolled
  <2>4. CASE m.kind = "cancelled" /\ m.order = pair.order
    <3>1. orders[pair.order].cancelled
      BY <2>2, <2>4 DEF TrueMessages
    <3> QED
      BY <1>1, <3>1 DEF PositionFilled, OrdersInv
  <2>5. CASE pair' = ExitCancelled(pair) /\ UNCHANGED orders
    BY <2>1, <2>5, ExitCancelledKeeps
  <2>6. CASE m.kind = "fill" /\ m.order = pair.order /\ CheckExit(EntryFilled(unpolled, m.size), flight)
    <3> DEFINE q == EntryFilled(unpolled, m.size)
    <3>1. m.size \in 1..setting.qty /\ orders[pair.order].filled > 0 /\ pair.order \in Orders
      BY <2>2, <2>6 DEF TrueMessages
    <3>2. Shape(q) /\ Comes(q, flight) /\ PositionFilled(q) /\ q.state = "PositionOpen"
      BY <1>1, <2>3, <3>1, FilledShape
    <3>3. CheckExit(q, flight)
      BY <2>6
    <3> HIDE DEF q
    <3>4. ExitChecked(q, flight)
      BY <1>1, <2>1, <3>2, <3>3, CheckExitKeeps
    <3> QED
      BY <3>4 DEF ExitChecked
  <2>7. CASE m.kind = "fill" /\ m.order = pair.exit
    BY <2>2, <2>7 DEF TrueMessages
  <2>8. CASE \E id : pair' = [pair EXCEPT !.poll = Refers(@, id)]
    BY <1>1, <2>8 DEF Pair
  <2> QED
    BY <1>2, <1>8, <2>4, <2>5, <2>6, <2>7, <2>8 DEF HandleMessage, m, unpolled
<1>9. ASSUME NEW r \in flight, VenuePlaces(r) \/ VenueCancels(r) \/ VenueListsTrades(r) PROVE FALSE
  BY <1>2, <1>9 DEF VenuePlaces, VenueCancels, VenueListsTrades
<1>10. ASSUME NEW o \in Orders, NEW size \in 1..setting.qty, VenueFills(o, size) PROVE FALSE
  BY <1>2, <1>10 DEF VenueFills
<1> QED
  BY <1>2, <1>3, <1>4, <1>5, <1>6, <1>7, <1>8, <1>9, <1>10 DEF Next

(* A step that ends a position follows a fill of its exit: no answer to a cancel request
   and no message makes the engine give up what it bought. *)
THEOREM FilledNotCancelledHolds == Spec => FilledNotCancelled
<1>1. IInv /\ [Next]_vars =>
        [/\ setting.qty = 1
         /\ pair.state \in {"PositionOpen", "ExitWorking"} /\ pair'.state = "Cooldown"
         => pair.exit # NoOrder /\ orders[pair.exit].filled > 0]_vars
  BY FilledStep
<1> QED
  BY <1>1, Invariance, PTL DEF Spec, FilledNotCancelled
-----------------------------------------------------------------------------
(* The exposure of the pair: every step is one of PairExposure, or none. *)

(* The stage of a trade, now and in the next state. *)
LEMMA Stages ==
  /\ pair.state \in Working => Stage = "Working"
  /\ pair.state = "EntryPlacing" => Stage = "Placing"
  /\ pair.state \in {"Idle", "Cooldown"} => Stage = pair.state
  /\ pair'.state \in Working => Stage' = "Working"
  /\ pair'.state = "EntryPlacing" => Stage' = "Placing"
  /\ pair'.state \in {"Idle", "Cooldown"} => Stage' = pair'.state
BY DEF Stage, Working

(* A step that moves neither the state, the notional nor the exposure. *)
LEMMA TradeKept ==
  ASSUME setting' = setting, risk' = risk,
         pair'.state = pair.state, pair'.notional = pair.notional
  PROVE  UNCHANGED Exposure!trade
<1>1. Stage' = Stage
  BY DEF Stage
<1> QED
  BY <1>1 DEF Exposure!trade, InTrade

(* While an order or a position is worked without touching the exposure, only the
   pair's own figure moves, within the size that was entered. *)
LEMMA TradeFilled ==
  ASSUME IInv', setting' = setting, risk' = risk,
         pair.state \in Working, pair'.state \in Working
  PROVE  Exposure!Next
<1>1. /\ pair'.notional \in Nat /\ setting.qty \in Nat
      /\ 0 < pair'.notional /\ pair'.notional <= setting.qty
  BY SettingType DEF IInv, Shape, Pair
<1>2. Exposure!Fill
  BY <1>1, Stages DEF Exposure!Fill, InTrade
<1> QED
  BY <1>2 DEF Exposure!Next

(* What ends a trade takes what it holds off the exposure. *)
LEMMA TradeEnded ==
  ASSUME IInv, pair.state \in Working, risk' = Released(pair.notional),
         pair'.state = "Cooldown"
  PROVE  Exposure!Next
<1>1. /\ pair.notional \in Nat /\ risk.used \in Nat /\ setting.qty \in Nat
      /\ 0 < pair.notional /\ pair.notional <= setting.qty /\ setting.qty <= risk.used
  BY SettingType DEF IInv, Shape, Pair, Booked
<1>2. risk'.used = risk.used - pair.notional /\ pair.notional <= risk.used
  BY <1>1 DEF Released, Min2
<1>3. Exposure!End
  BY <1>2, Stages DEF Exposure!End, Exposure!Over, InTrade
<1> QED
  BY <1>3 DEF Exposure!Next

(* The cooldown that follows a trade. *)
LEMMA CooledState ==
  ASSUME NEW p
  PROVE  Cooled(p).state = "Cooldown"
BY DEF Cooled, Fresh

(* An order of the pair is one of a trade that is worked. *)
LEMMA OrderWorked ==
  ASSUME IInv, NEW o \in Orders, o = pair.order \/ o = pair.exit
  PROVE  pair.state \in Working
<1>1. o # NoOrder
  BY TradePairAssumption
<1> QED
  BY <1>1 DEF IInv, Shape

(* check_exit leaves a position a position. *)
LEMMA ExitStays ==
  ASSUME NEW p \in Pair, NEW f, p.state \in {"PositionOpen", "ExitWorking"}, CheckExit(p, f)
  PROVE  pair'.state \in Working
<1>1. CASE CancelExit(p, f)
  BY <1>1 DEF CancelExit, Pair, Working
<1>2. CASE KeepExit(p, f)
  BY <1>2 DEF KeepExit, Pair, Working
<1>3. CASE PlaceExit(p, f)
  BY <1>3 DEF PlaceExit, Pair, Working
<1> QED
  BY <1>1, <1>2, <1>3 DEF CheckExit

(* A fill of the entry, with the check for exit that follows it. *)
LEMMA FillStays ==
  ASSUME NEW p \in Pair, NEW f, NEW size, size \in 0..MaxQty, CheckExit(EntryFilled(p, size), f)
  PROVE  pair'.state \in Working
<1>1. EntryFilled(p, size) \in Pair /\ EntryFilled(p, size).state = "PositionOpen"
  BY DEF EntryFilled, Pair, States
<1> QED
  BY <1>1, ExitStays

(* The handlers of the entry: it is sent, refused, counted or not, and polled. *)
LEMMA EntryExposure ==
  ASSUME IInv, IInv',
         \/ Enter \/ EnterRefused \/ CheckEntry \/ CooldownEnds
         \/ \E r \in flight : HandlePlaceAnswer(r)
  PROVE  Exposure!Next \/ UNCHANGED Exposure!trade
<1>1. /\ pair \in Pair /\ setting \in Settings /\ setting.qty \in Nat /\ setting.qty # 0
      /\ pair.state = "EntryPlacing" => pair.notional = setting.qty
      /\ pair.place # NoReq => pair.state = "EntryPlacing"
      /\ pair'.state = "EntryPlacing" => pair'.notional = setting'.qty
  BY SettingType DEF IInv, Shape
<1>2. CASE Enter
  <2>1. /\ pair.state = "Idle" /\ pair'.state = "EntryPlacing"
        /\ setting' = setting /\ risk' = risk
    BY <1>1, <1>2 DEF Enter, Pair
  <2>2. Exposure!Enter
    BY <1>1, <2>1, Stages DEF Exposure!Enter, InTrade
  <2> QED
    BY <2>2 DEF Exposure!Next
<1>3. CASE EnterRefused
  <2>1. /\ pair.state = "Idle" /\ pair'.state = "Cooldown"
        /\ setting' = setting /\ risk' = risk
    BY <1>3, CooledState DEF EnterRefused
  <2>2. Exposure!Refuse
    BY <2>1, Stages DEF Exposure!Refuse, InTrade
  <2> QED
    BY <2>2 DEF Exposure!Next
<1>4. CASE CheckEntry
  <2>1. /\ setting' = setting /\ risk' = risk
        /\ pair'.state = pair.state /\ pair'.notional = pair.notional
    BY <1>1, <1>4 DEF CheckEntry, Pair
  <2> QED
    BY <2>1, TradeKept
<1>5. CASE CooldownEnds
  <2>1. /\ pair.state = "Cooldown" /\ pair'.state = "Idle"
        /\ setting' = setting /\ risk' = risk
    BY <1>5 DEF CooldownEnds, Fresh
  <2>2. Exposure!Rest
    BY <2>1, Stages DEF Exposure!Rest, InTrade
  <2> QED
    BY <2>2 DEF Exposure!Next
<1>6. ASSUME NEW r \in flight, HandlePlaceAnswer(r)
      PROVE  Exposure!Next \/ UNCHANGED Exposure!trade
  <2>1. setting' = setting /\ r.id # NoReq
    BY <1>6, TradePairAssumption DEF HandlePlaceAnswer, IInv, TrueRequests, Request
  <2>2. CASE UNCHANGED <<pair, risk>>
    BY <2>1, <2>2, TradeKept
  <2>3. CASE r.id = pair.place /\ r.answer \in {"placed", "no_id"}
    <3>1. /\ pair.state = "EntryPlacing" /\ pair.notional = setting.qty
          /\ pair'.state = "EntryWorking" /\ pair'.notional = pair.notional
          /\ risk' = Added(pair.notional)
      BY <1>1, <1>6, <2>1, <2>3 DEF HandlePlaceAnswer, Pair
    <3>2. risk'.used = risk.used + setting.qty
      BY <1>1, <3>1 DEF Added
    <3>3. pair'.state \in Working
      BY <3>1 DEF Working
    <3>4. Exposure!Book
      BY <2>1, <3>1, <3>2, <3>3, Stages DEF Exposure!Book, InTrade
    <3> QED
      BY <3>4 DEF Exposure!Next
  <2>4. CASE r.id = pair.place /\ r.answer \in {"rejected", "lost"}
    <3>1. pair.state = "EntryPlacing" /\ pair'.state = "Cooldown" /\ risk' = risk
      BY <1>1, <1>6, <2>1, <2>4, CooledState DEF HandlePlaceAnswer
    <3>2. Exposure!Fail
      BY <2>1, <3>1, Stages DEF Exposure!Fail, Exposure!Over, InTrade
    <3> QED
      BY <3>2 DEF Exposure!Next
  <2> QED
    BY <1>6, <2>2, <2>3, <2>4 DEF HandlePlaceAnswer
<1> QED
  BY <1>2, <1>3, <1>4, <1>5, <1>6

(* The answers to cancel requests. *)
LEMMA CancelExposure ==
  ASSUME IInv, NEW r \in flight, HandleCancelAnswer(r)
  PROVE  Exposure!Next \/ UNCHANGED Exposure!trade
<1>1. /\ pair \in Pair /\ r.id # NoReq
      /\ pair.cancelReq # NoReq => pair.state \in Working
  BY TradePairAssumption DEF IInv, Shape, TrueRequests, Request, Working
<1>2. setting' = setting
  BY DEF HandleCancelAnswer
<1>3. CASE r.id = pair.cancelReq /\ EntryCancelled
  <2>1. pair'.state = "Cooldown" /\ risk' = Released(pair.notional)
    BY <1>3, CooledState DEF EntryCancelled
  <2> QED
    BY <1>1, <1>3, <2>1, TradeEnded
<1>4. CASE /\ risk' = risk
           /\ \/ pair' = pair \/ pair' = ExitCancelled(pair)
              \/ pair' = [pair EXCEPT !.cancelReq = NoReq]
              \/ pair' = [pair EXCEPT !.exitCancelReq = NoReq]
  <2>1. pair'.state = pair.state /\ pair'.notional = pair.notional
    BY <1>1, <1>4 DEF ExitCancelled, Pair
  <2> QED
    BY <1>2, <1>4, <2>1, TradeKept
<1> QED
  BY <1>3, <1>4 DEF HandleCancelAnswer

(* The answers to polls. *)
LEMMA PolledExposure ==
  ASSUME IInv, IInv', NEW r \in flight, HandleFillAnswer(r)
  PROVE  Exposure!Next \/ UNCHANGED Exposure!trade
<1> DEFINE p == IF r.id = pair.poll THEN [pair EXCEPT !.poll = NoReq] ELSE pair
           mine == IF r.kind = "entry_fills" THEN p.order ELSE p.exit
           size == IF r.id = pair.poll /\ mine # NoOrder THEN r.trades[mine] ELSE 0
           rest == flight \ {r}
<1>1. /\ setting' = setting
      /\ \/ pair' = p /\ risk' = risk
         \/ size > 0 /\ CheckExit(EntryFilled(p, size), rest) /\ risk' = risk
         \/ size > 0 /\ ExitFilled(p)
  BY DEF HandleFillAnswer
<1>2. /\ p \in Pair /\ p.state = pair.state /\ p.notional = pair.notional
      /\ p.order = pair.order /\ p.exit = pair.exit
  BY UnpolledShape
<1>3. r \in Request
  BY DEF IInv, TrueRequests
<1>4. ASSUME size > 0
      PROVE  pair.state \in Working /\ size \in 0..MaxQty
  <2>1. mine \in Orders /\ (mine = pair.order \/ mine = pair.exit)
    BY <1>2, <1>4 DEF Pair
  <2>2. \A o \in Orders : r.trades[o] \in 0..MaxQty
    BY <1>3 DEF Request, Trades
  <2> HIDE DEF mine, p
  <2> QED
    BY <1>4, <2>1, <2>2, OrderWorked
<1> HIDE DEF p, size, rest
<1>5. CASE pair' = p /\ risk' = risk
  BY <1>1, <1>2, <1>5, TradeKept
<1>6. CASE size > 0 /\ CheckExit(EntryFilled(p, size), rest) /\ risk' = risk
  BY <1>1, <1>2, <1>4, <1>6, FillStays, TradeFilled
<1>7. CASE size > 0 /\ ExitFilled(p)
  <2>1. pair'.state = "Cooldown" /\ risk' = Released(pair.notional)
    BY <1>2, <1>7, CooledState DEF ExitFilled
  <2> QED
    BY <1>4, <1>7, <2>1, TradeEnded
<1> QED
  BY <1>1, <1>5, <1>6, <1>7

(* The messages of the user channel. *)
LEMMA MessageExposure ==
  ASSUME IInv, IInv', HandleMessage
  PROVE  Exposure!Next \/ UNCHANGED Exposure!trade
<1> DEFINE m == Head(channel)
           unpolled == [pair EXCEPT !.poll = NoReq]
<1>1. setting' = setting /\ channel # <<>>
  BY DEF HandleMessage
<1>2. m \in Message /\ m.order \in Orders /\ m.size \in 0..MaxQty
  <2>1. m \in TrueMessages
    BY <1>1, HeadTailProperties DEF IInv
  <2> QED
    BY <2>1 DEF TrueMessages, Message
<1>3. /\ pair \in Pair /\ unpolled \in Pair /\ unpolled.state = pair.state
      /\ unpolled.notional = pair.notional
  BY UnpolledShape
<1> HIDE DEF m, unpolled
<1>4. m.order \in {pair.order, pair.exit} => pair.state \in Working
  BY <1>2, OrderWorked
<1>5. CASE UNCHANGED <<pair, risk>>
  BY <1>1, <1>5, TradeKept
<1>6. CASE m.order = pair.order /\ EntryCancelled
  <2>1. pair'.state = "Cooldown" /\ risk' = Released(pair.notional)
    BY <1>6, CooledState DEF EntryCancelled
  <2> QED
    BY <1>4, <1>6, <2>1, TradeEnded
<1>7. CASE pair' = ExitCancelled(pair) /\ risk' = risk
  <2>1. pair'.state = pair.state /\ pair'.notional = pair.notional
    BY <1>3, <1>7 DEF ExitCancelled, Pair
  <2> QED
    BY <1>1, <1>7, <2>1, TradeKept
<1>8. CASE m.order = pair.order /\ CheckExit(EntryFilled(unpolled, m.size), flight) /\ risk' = risk
  BY <1>1, <1>2, <1>3, <1>4, <1>8, FillStays, TradeFilled
<1>9. CASE m.order = pair.exit /\ ExitFilled(unpolled)
  <2>1. pair'.state = "Cooldown" /\ risk' = Released(pair.notional)
    BY <1>3, <1>9, CooledState DEF ExitFilled
  <2> QED
    BY <1>4, <1>9, <2>1, TradeEnded
<1>10. CASE risk' = risk /\ \E id : pair' = [pair EXCEPT !.poll = Refers(@, id)]
  <2>1. pair'.state = pair.state /\ pair'.notional = pair.notional
    BY <1>3, <1>10 DEF Pair
  <2> QED
    BY <1>1, <1>10, <2>1, TradeKept
<1> QED
  BY <1>5, <1>6, <1>7, <1>8, <1>9, <1>10 DEF HandleMessage, m, unpolled

(* Whatever order the answers, fills and messages come in, and whatever the venue does,
   the exposure of the pair goes up once with its entry and down once with what the pair
   holds by its own figure, which is always covered: release_exposure never stops at
   zero.  TradePair implements PairExposure. *)
THEOREM KeepsExposureHolds == Spec => KeepsExposure
<1>1. Init => Exposure!Init
  BY DEF Init, Fresh, Exposure!Init, Stage, InTrade, Working
<1>2. ASSUME IInv, IInv', [Next]_vars
      PROVE  [Exposure!Next]_(Exposure!trade)
  <2>1. CASE UNCHANGED <<setting, pair, risk>>
    BY <2>1, TradeKept
  <2>2. CASE BarChecksExit
    <3>1. /\ pair.state \in {"PositionOpen", "ExitWorking"} /\ CheckExit(pair, flight)
          /\ setting' = setting /\ risk' = risk /\ pair \in Pair
      BY <1>2, <2>2 DEF BarChecksExit, IInv, Shape
    <3>2. pair.state \in Working /\ pair'.state \in Working
      BY <3>1, ExitStays DEF Working
    <3> QED
      BY <1>2, <3>1, <3>2, TradeFilled
  <2>3. CASE \/ Enter \/ EnterRefused \/ CheckEntry \/ CooldownEnds
             \/ \E r \in flight : HandlePlaceAnswer(r)
    BY <1>2, <2>3, EntryExposure
  <2>4. CASE \E r \in flight : HandleCancelAnswer(r)
    BY <1>2, <2>4, CancelExposure
  <2>5. CASE \E r \in flight : HandleFillAnswer(r)
    BY <1>2, <2>5, PolledExposure
  <2>6. CASE HandleMessage
    BY <1>2, <2>6, MessageExposure
  <2> QED
    BY <1>2, <2>1, <2>2, <2>3, <2>4, <2>5, <2>6
       DEF Next, vars, VenuePlaces, VenueCancels, VenueListsTrades, VenueFills
<1> QED
  BY <1>1, <1>2, Invariance, PTL DEF Spec, KeepsExposure, Exposure!Spec
-----------------------------------------------------------------------------
(* NoOrphans, where fills are whole and polled and nothing goes wrong at the venue. *)

(* What both invariants say together: a request is known by its id, an order with a
   fill is closed, and every open order is the pair's. *)
LEMMA CalmId ==
  ASSUME IInv, CalmInv, NEW r \in flight
  PROVE  /\ r \in Request /\ r \in TrueRequests /\ r.id \in Reqs /\ r.id # NoReq
         /\ CalmRequest(r) /\ (r.id = pair.place <=> r.kind = "place")
         /\ \A q \in flight : q.id = r.id => q = r
<1>1. r \in TrueRequests
  BY DEF IInv
<1>2. r \in Request /\ r.id \in Reqs /\ r.id # NoReq
  BY <1>1, TradePairAssumption DEF TrueRequests, Request
<1>3. CalmRequest(r) /\ \A q \in flight : q.id = r.id => q = r
  BY DEF CalmInv, Unique
<1>4. r.id = pair.place => r.kind = "place"
  BY <1>2, <1>3 DEF IInv, Comes
<1> QED
  BY <1>1, <1>2, <1>3, <1>4 DEF CalmRequest

(* In calm an order that filled is closed, and an open one is the pair's own or on
   its way to it. *)
LEMMA CalmFacts ==
  ASSUME Calm, IInv, CalmInv
  PROVE  /\ setting.qty = 1 /\ ~UserChannel /\ Trouble = {} /\ MaxQty \in Nat /\ 1 <= MaxQty
         /\ \A o \in Orders : orders[o].filled > 0 => ~Open(o)
         /\ \A o \in OpenOrders :
              \/ o = pair.order /\ pair.state = "EntryWorking"
              \/ o = pair.exit /\ pair.state = "ExitWorking"
              \/ /\ pair.state = "EntryPlacing"
                 /\ \E r \in flight : r.id = pair.place /\ r.order = o
<1>1. setting.qty = 1 /\ ~UserChannel /\ Trouble = {} /\ MaxQty \in Nat /\ 1 <= MaxQty
  BY SettingType DEF Calm, IInv
<1>2. ASSUME NEW o \in Orders, orders[o].filled > 0
      PROVE  ~Open(o)
  <2>1. /\ orders[o].size <= 1 /\ orders[o].size \in Int /\ orders[o].filled \in Int
    BY <1>1, OrderType DEF IInv, OrdersInv
  <2> QED
    BY <1>2, <2>1 DEF Open
<1>3. \A r \in flight : r.id = pair.place => pair.state = "EntryPlacing"
  BY CalmId DEF IInv, Shape
<1> QED
  BY <1>1, <1>2, <1>3 DEF CalmInv, NoOrphans

(* The venue neither forgets an order nor opens it again. *)
VenueKept == \A o \in Orders : Used(o) => Used(o)' /\ (Open(o)' => Open(o))

(* A step that touches no order opens none. *)
LEMMA SameVenueKept ==
  ASSUME orders' = orders
  PROVE  VenueKept /\ OpenOrders' = OpenOrders
BY DEF VenueKept, Used, Open, OpenOrders

(* A request of a calm pair stays one while the venue only closes orders and the
   pair waits for the same. *)
LEMMA KeptCalmRequest ==
  ASSUME NEW r, CalmRequest(r), VenueKept,
         r.kind = "place" => pair'.place = r.id,
         r.id = pair'.poll => r.id = pair.poll /\ pair'.state = pair.state
  PROVE  CalmRequest(r)'
<1>1. r.kind = "place" => /\ r.id = pair'.place
                          /\ \/ r.answer \in {"none", "rejected"} /\ r.order = NoOrder
                             \/ r.answer = "placed" /\ Used(r.order)'
  BY DEF CalmRequest, VenueKept, Used
<1>2. r.kind = "cancel" => Used(r.order)' /\ (r.answer = "none" \/ (r.answer = "ok" /\ ~Open(r.order)'))
  BY DEF CalmRequest, VenueKept, Used
<1>3. /\ r.kind = "entry_fills" /\ r.id = pair'.poll => pair'.state = "EntryWorking"
      /\ r.kind = "exit_fills" /\ r.id = pair'.poll => pair'.state = "ExitWorking"
  BY DEF CalmRequest
<1> QED
  BY <1>1, <1>2, <1>3 DEF CalmRequest

(* A request under an id of its own. *)
LEMMA UniqueSent ==
  ASSUME NEW f, Unique(f), NEW id, NEW kind, NEW o, \A r \in f : r.id # id
  PROVE  /\ Unique(f \cup Sent(id, kind, o))
         /\ \A r \in Sent(id, kind, o) :
              id # NoReq /\ r.id = id /\ r.kind = kind /\ r.order = o /\ r.answer = "none"
BY DEF Unique, Sent

(* A trade is over, or a pair is idle again, when no order of it is open. *)
LEMMA ClosedCalm ==
  ASSUME Calm, IInv, CalmInv, OpenOrders = {}, orders' = orders,
         pair' = Fresh \/ \E n \in 0..MaxQty : pair' = [Fresh EXCEPT !.state = "Cooldown", !.notional = n],
         flight' \subseteq flight, \A r \in flight' : r.kind # "place",
         channel' = channel
  PROVE  CalmInv'
<1>1. /\ pair'.state \in {"Idle", "Cooldown"} /\ pair'.poll = NoReq
      /\ pair'.exit = NoOrder /\ ~pair'.exitCancel
  <2>1. Fresh \in Pair /\ ~Fresh.exitCancel
    BY FreshType DEF IInv, Fresh
  <2>2. CASE pair' = Fresh
    BY <2>1, <2>2, FreshType DEF IInv
  <2>3. CASE \E n \in 0..MaxQty : pair' = [Fresh EXCEPT !.state = "Cooldown", !.notional = n]
    BY <2>1, <2>3, FreshType DEF IInv, Pair
  <2> QED
    BY <2>2, <2>3
<1>2. VenueKept /\ OpenOrders' = {}
  BY SameVenueKept
<1>3. ASSUME NEW r \in flight'
      PROVE  CalmRequest(r)'
  <2>1. CalmRequest(r) /\ r.id # NoReq /\ r.kind # "place"
    BY CalmId
  <2> QED
    BY <1>1, <1>2, <2>1, KeptCalmRequest
<1>4. Unique(flight)'
  BY DEF CalmInv, Unique
<1> QED
  BY <1>1, <1>2, <1>3, <1>4 DEF CalmInv, CalmPair, NoOrphans

(* A new exit order takes the place of none. *)
LEMMA PlaceExitCalm ==
  ASSUME Calm, IInv, CalmInv, setting' = setting, OpenOrders = {}, NEW p, NEW f \in SUBSET flight,
         p \in Pair, p.notional = 1, p.exit = NoOrder, ~p.exitCancel, p.place = NoReq,
         pair.place = NoReq,
         p.poll \in {pair.poll, NoReq}, pair.state = "ExitWorking" \/ p.poll = NoReq,
         PlaceExit(p, f), channel' = channel
  PROVE  CalmInv'
<1>1. PICK o \in NewOrders \cup {NoOrder}, known \in BOOLEAN, id \in FreeIds(p, f) \cup {NoReq} :
        LET placed == [p EXCEPT !.state = "ExitWorking", !.exit = IF known THEN o ELSE @] IN
        /\ known => o # NoOrder
        /\ ~known /\ o # NoOrder => Trouble \cap {"lost", "no_id"} # {}
        /\ id # NoReq => p.poll = NoReq /\ placed.exit # NoOrder
        /\ orders' = IF o = NoOrder THEN orders ELSE Opened(o, FALSE, p.notional)
        /\ pair' = [placed EXCEPT !.poll = Refers(@, id)]
        /\ flight' = f \cup Sent(id, "exit_fills", NoOrder)
  BY DEF PlaceExit
<1>2. /\ known <=> o # NoOrder
      /\ id \in Reqs \cup {NoReq} /\ (\A r \in f : r.id # id)
      /\ o # NoOrder => o \in Orders /\ orders[o] = Unused
  <2>1. \A r \in f : r.id # NoReq
    BY CalmId
  <2> QED
    BY <1>1, <2>1, CalmFacts DEF FreeIds, NewOrders
<1>3. /\ pair'.state = "ExitWorking" /\ pair'.exit = o /\ ~pair'.exitCancel
      /\ pair'.place = NoReq /\ pair'.poll = IF id = NoReq THEN p.poll ELSE id
  <2> DEFINE q == [p EXCEPT !.state = "ExitWorking", !.exit = IF known THEN o ELSE @]
  <2>1. "ExitWorking" \in States
    BY DEF States
  <2>2. /\ q \in Pair /\ q.poll = p.poll /\ q.state = "ExitWorking" /\ q.exit = o
        /\ q.place = p.place /\ q.exitCancel = p.exitCancel
    BY <1>2, <2>1 DEF Pair
  <2>3. pair' = [q EXCEPT !.poll = Refers(@, id)]
    BY <1>1
  <2> HIDE DEF q
  <2> QED
    BY <1>2, <2>2, <2>3 DEF Pair, Refers
<1>4. VenueKept /\ OpenOrders' \subseteq {o} /\ (o # NoOrder => Used(o)')
  <2>1. CASE o = NoOrder
    BY <1>1, <2>1, SameVenueKept
  <2>2. CASE o # NoOrder
    <3>1. /\ orders \in [Orders -> Order] /\ o \in Orders /\ orders[o] = Unused
          /\ orders' = [orders EXCEPT ![o] = [orders[o] EXCEPT !.entry = FALSE, !.size = 1]]
      BY <1>1, <1>2, <2>2 DEF IInv, OrdersInv, Opened
    <3>2. /\ \A x \in Orders \ {o} : orders'[x] = orders[x]
          /\ orders'[o].size = 1 /\ orders[o].size = 0
      BY <3>1 DEF Order, Unused
    <3>3. VenueKept
      BY <3>2 DEF VenueKept, Used, Open
    <3>4. \A x \in Orders \ {o} : ~Open(x)'
      BY <3>2 DEF OpenOrders, Open
    <3> QED
      BY <3>1, <3>2, <3>3, <3>4 DEF Used, OpenOrders
  <2> QED
    BY <2>1, <2>2
<1>5. Unique(flight)' /\ \A r \in Sent(id, "exit_fills", NoOrder) : r.kind = "exit_fills"
  <2>1. Unique(f)
    BY DEF CalmInv, Unique
  <2> QED
    BY <1>1, <1>2, <2>1, UniqueSent
<1>6. ASSUME NEW r \in flight'
      PROVE  CalmRequest(r)'
  <2>1. CASE r \in f
    <3>1. CalmRequest(r) /\ r.id # NoReq /\ r.kind # "place"
      BY <2>1, CalmId
    <3>2. r.id = pair'.poll => r.id = pair.poll /\ pair'.state = pair.state
      BY <1>2, <1>3, <2>1, <3>1
    <3> QED
      BY <1>3, <1>4, <3>1, <3>2, KeptCalmRequest
  <2>2. CASE r \in Sent(id, "exit_fills", NoOrder)
    BY <1>3, <1>5, <2>2 DEF CalmRequest
  <2> QED
    BY <1>1, <2>1, <2>2
<1>7. CalmPair'
  BY <1>3, <1>4 DEF CalmPair
<1>8. NoOrphans'
  BY <1>3, <1>4 DEF NoOrphans
<1> QED
  BY <1>5, <1>6, <1>7, <1>8 DEF CalmInv

(* A pair that is not placing has no place request under way. *)
LEMMA NoPlace ==
  ASSUME IInv, CalmInv, pair.state # "EntryPlacing"
  PROVE  pair.place = NoReq /\ \A r \in flight : r.kind # "place"
<1>1. pair.place = NoReq
  BY DEF IInv, Shape
<1> QED
  BY <1>1, CalmId

(* In calm a refused entry and the end of a cooldown preserve CalmInv. *)
LEMMA RestCalm ==
  ASSUME Calm, IInv, CalmInv, EnterRefused \/ CooldownEnds
  PROVE  CalmInv'
<1>1. /\ pair.state \in {"Idle", "Cooldown"} /\ UNCHANGED <<flight, orders, channel>>
      /\ setting \in Settings /\ pair \in Pair
  BY DEF EnterRefused, CooldownEnds, IInv, Shape
<1>2. OpenOrders = {}
  BY <1>1, CalmFacts
<1>3. \A r \in flight : r.kind # "place"
  BY <1>1, NoPlace
<1>4. pair' = Fresh \/ \E n \in 0..MaxQty : pair' = [Fresh EXCEPT !.state = "Cooldown", !.notional = n]
  <2>1. CASE CooldownEnds
    BY <2>1 DEF CooldownEnds
  <2>2. CASE EnterRefused
    <3>1. PICK n \in {0, setting.qty} : pair' = Cooled([pair EXCEPT !.notional = n])
      BY <2>2 DEF EnterRefused
    <3>2. n \in 0..MaxQty
      BY <1>1, SettingType
    <3>3. [pair EXCEPT !.notional = n].notional = n
      BY <1>1, <3>2 DEF Pair
    <3>4. pair' = [Fresh EXCEPT !.state = "Cooldown", !.notional = n]
      BY <3>1, <3>3 DEF Cooled
    <3> QED
      BY <3>2, <3>4
  <2> QED
    BY <2>1, <2>2
<1> QED
  BY <1>1, <1>2, <1>3, <1>4, ClosedCalm

(* In calm an entry preserves CalmInv: its place request is the one the pair waits
   for. *)
LEMMA EnterCalm ==
  ASSUME Calm, IInv, CalmInv, Enter
  PROVE  CalmInv'
<1>1. PICK id \in FreeIds(pair, flight) :
        /\ pair' = [pair EXCEPT !.state = "EntryPlacing", !.notional = setting.qty, !.place = id]
        /\ flight' = flight \cup Sent(id, "place", NoOrder)
  BY DEF Enter
<1>2. /\ pair.state = "Idle" /\ UNCHANGED <<orders, channel>> /\ pair \in Pair
      /\ \A r \in flight : r.id # id
      /\ pair.poll = NoReq
  BY FreeId DEF Enter, IInv, Shape, Working
<1>3. /\ pair'.state = "EntryPlacing" /\ pair'.place = id /\ pair'.poll = NoReq
      /\ pair'.exit = NoOrder /\ ~pair'.exitCancel
  BY <1>1, <1>2 DEF Pair, CalmInv, CalmPair
<1>4. OpenOrders' = {} /\ VenueKept
  BY <1>2, CalmFacts, SameVenueKept
<1>5. /\ Unique(flight)'
      /\ \A r \in Sent(id, "place", NoOrder) :
           r.id = id /\ id # NoReq /\ r.kind = "place" /\ r.order = NoOrder /\ r.answer = "none"
  BY <1>1, <1>2, UniqueSent DEF CalmInv
<1>6. ASSUME NEW r \in flight'
      PROVE  CalmRequest(r)'
  <2>1. CASE r \in flight
    <3>1. CalmRequest(r) /\ r.id # NoReq /\ r.kind # "place"
      BY <1>2, <2>1, CalmId, NoPlace
    <3> QED
      BY <1>3, <1>4, <3>1, KeptCalmRequest
  <2>2. CASE r \in Sent(id, "place", NoOrder)
    BY <1>3, <1>5, <2>2 DEF CalmRequest
  <2> QED
    BY <1>1, <2>1, <2>2
<1> QED
  BY <1>2, <1>3, <1>4, <1>5, <1>6 DEF CalmInv, CalmPair, NoOrphans

(* Two requests about the order the pair works: its cancel and a poll. *)
LEMMA CheckedCalm ==
  ASSUME Calm, IInv, CalmInv, UNCHANGED <<orders, channel>>,
         pair'.state = pair.state, pair'.state \in {"EntryWorking", "ExitWorking"},
         pair'.order = pair.order, pair'.exit = pair.exit, pair'.place = pair.place,
         pair.state = "EntryWorking" => pair'.exitCancel = pair.exitCancel,
         NEW i \in Ids(pair, flight), NEW o, i[1] # NoReq => Used(o),
         pair'.poll = IF i[2] = NoReq THEN pair.poll ELSE i[2],
         NEW kind, kind = IF pair.state = "EntryWorking" THEN "entry_fills" ELSE "exit_fills",
         flight' = flight \cup Sent(i[1], "cancel", o) \cup Sent(i[2], kind, NoOrder)
  PROVE  CalmInv'
<1>1. /\ \A r \in flight : r.id # i[1] /\ r.id # i[2]
      /\ i[1] # NoReq => i[1] # i[2] /\ i[1] # pair.poll
      /\ i[1] # NoReq => i[1] # pair.place
  <2>1. \A r \in flight : r.id # NoReq
    BY CalmId
  <2>2. CASE i[1] = NoReq \/ i[2] = NoReq
    BY <2>1, <2>2, TwoIds, FreeId
  <2>3. CASE i[1] # NoReq /\ i[2] # NoReq
    <3>1. i[1] \in FreeIds(pair, flight) /\ i[2] \in FreeIds(pair, flight) /\ i[1] # i[2]
      BY <2>3, TwoIds
    <3> QED
      BY <3>1, FreeId
  <2> QED
    BY <2>2, <2>3
<1>2. VenueKept /\ OpenOrders' = OpenOrders
  BY SameVenueKept
<1>3. /\ Unique(flight \cup Sent(i[1], "cancel", o))
      /\ \A r \in Sent(i[1], "cancel", o) :
           i[1] # NoReq /\ r.id = i[1] /\ r.kind = "cancel" /\ r.order = o /\ r.answer = "none"
  BY <1>1, UniqueSent DEF CalmInv
<1>4. /\ Unique(flight)'
      /\ \A r \in Sent(i[2], kind, NoOrder) : i[2] # NoReq /\ r.id = i[2] /\ r.kind = kind
  <2> DEFINE f == flight \cup Sent(i[1], "cancel", o)
  <2>1. Unique(f) /\ \A r \in f : r.id # i[2]
    BY <1>1, <1>3
  <2> HIDE DEF f
  <2>2. /\ Unique(f \cup Sent(i[2], kind, NoOrder))
        /\ \A r \in Sent(i[2], kind, NoOrder) : i[2] # NoReq /\ r.id = i[2] /\ r.kind = kind
    BY ONLY <2>1, UniqueSent
  <2>3. flight' = f \cup Sent(i[2], kind, NoOrder)
    BY DEF f
  <2> QED
    BY <2>2, <2>3 DEF Unique
<1>5. ASSUME NEW r \in flight'
      PROVE  CalmRequest(r)'
  <2>1. CASE r \in flight
    <3>1. CalmRequest(r) /\ r.id # i[2] /\ (r.kind = "place" => r.id = pair.place)
      BY <1>1, <2>1, CalmId
    <3> QED
      BY <1>2, <3>1, KeptCalmRequest
  <2>2. CASE r \in Sent(i[1], "cancel", o)
    <3>1. Used(o)'
      BY <1>2, <1>3, <2>2 DEF VenueKept, Used
    <3> QED
      BY <1>3, <2>2, <3>1 DEF CalmRequest
  <2>3. CASE r \in Sent(i[2], kind, NoOrder)
    BY <1>4, <2>3 DEF CalmRequest
  <2> QED
    BY <2>1, <2>2, <2>3
<1>6. CalmPair'
  <2>1. \A x : Used(x)' <=> Used(x)
    BY DEF Used
  <2> QED
    BY <2>1 DEF CalmInv, CalmPair
<1>7. NoOrphans'
  BY <1>2 DEF CalmInv, NoOrphans
<1> QED
  BY <1>4, <1>5, <1>6, <1>7 DEF CalmInv

(* In calm check_entry preserves CalmInv. *)
LEMMA CheckEntryCalm ==
  ASSUME Calm, IInv, CalmInv, CheckEntry
  PROVE  CalmInv'
<1>1. PICK i \in Ids(pair, flight), cancel \in BOOLEAN :
        /\ pair' = [pair EXCEPT !.cancel = cancel,
                                !.cancelReq = Refers(@, i[1]), !.poll = Refers(@, i[2])]
        /\ flight' = flight \cup Sent(i[1], "cancel", pair.order)
                            \cup Sent(i[2], "entry_fills", NoOrder)
  BY DEF CheckEntry
<1>2. pair.state = "EntryWorking" /\ UNCHANGED <<orders, channel>> /\ pair \in Pair
  BY DEF CheckEntry, IInv, Shape
<1>3. /\ pair'.state = pair.state /\ pair'.order = pair.order /\ pair'.exit = pair.exit
      /\ pair'.place = pair.place /\ pair'.exitCancel = pair.exitCancel
      /\ pair'.poll = IF i[2] = NoReq THEN pair.poll ELSE i[2]
  BY <1>1, <1>2 DEF Pair, Refers
<1>4. Used(pair.order)
  BY <1>2 DEF CalmInv, CalmPair
<1> QED
  BY <1>1, <1>2, <1>3, <1>4, CheckedCalm

(* In calm a check for exit preserves CalmInv: the order it places becomes the
   pair's exit. *)
LEMMA BarChecksExitCalm ==
  ASSUME Calm, IInv, CalmInv, BarChecksExit
  PROVE  CalmInv'
<1>1. /\ pair.state = "ExitWorking" /\ CheckExit(pair, flight) /\ pair \in Pair
      /\ UNCHANGED <<setting, channel>> /\ pair.place = NoReq
  BY DEF BarChecksExit, CalmInv, CalmPair, IInv, Shape
<1>2. CASE CancelExit(pair, flight)
  <2>1. PICK i \in Ids(pair, flight) :
          /\ i[1] # NoReq => pair.exit # NoOrder
          /\ pair' = [pair EXCEPT !.exitCancel = TRUE, !.exitCancelReq = Refers(@, i[1]),
                                  !.poll = Refers(@, i[2])]
          /\ flight' = flight \cup Sent(i[1], "cancel", pair.exit)
                              \cup Sent(i[2], "exit_fills", NoOrder)
          /\ orders' = orders
    BY <1>2 DEF CancelExit
  <2>2. /\ pair'.state = pair.state /\ pair'.order = pair.order /\ pair'.exit = pair.exit
        /\ pair'.place = pair.place
        /\ pair'.poll = IF i[2] = NoReq THEN pair.poll ELSE i[2]
    BY <1>1, <2>1 DEF Pair, Refers
  <2>3. i[1] # NoReq => Used(pair.exit)
    BY <2>1 DEF CalmInv, CalmPair
  <2> QED
    BY <1>1, <2>1, <2>2, <2>3, CheckedCalm
<1>3. CASE KeepExit(pair, flight)
  <2>1. PICK id \in FreeIds(pair, flight) \cup {NoReq} :
          /\ pair' = [pair EXCEPT !.poll = Refers(@, id)]
          /\ flight' = flight \cup Sent(id, "exit_fills", NoOrder)
          /\ orders' = orders
    BY <1>3 DEF KeepExit
  <2>2. /\ pair'.state = pair.state /\ pair'.order = pair.order /\ pair'.exit = pair.exit
        /\ pair'.place = pair.place
        /\ pair'.poll = IF id = NoReq THEN pair.poll ELSE id
    BY <1>1, <2>1 DEF Pair, Refers
  <2> DEFINE i == <<NoReq, id>>
  <2>3. i \in Ids(pair, flight) /\ i[1] = NoReq /\ i[2] = id
    BY DEF Ids
  <2>4. flight' = flight \cup Sent(i[1], "cancel", NoOrder) \cup Sent(i[2], "exit_fills", NoOrder)
    BY <2>1 DEF Sent
  <2> HIDE DEF i
  <2> QED
    BY <1>1, <2>1, <2>2, <2>3, <2>4, CheckedCalm
<1>4. CASE PlaceExit(pair, flight)
  <2>1. pair.exit = NoOrder /\ ~pair.exitCancel
    BY <1>1, <1>4 DEF PlaceExit, NeedsExit
  <2>2. OpenOrders = {}
    BY <1>1, <2>1, CalmFacts, TradePairAssumption DEF OpenOrders
  <2>3. pair.notional = 1
    BY <1>1, CalmFacts DEF IInv, Shape, Pair, Working
  <2> QED
    BY <1>1, <1>4, <2>1, <2>2, <2>3, PlaceExitCalm
<1> QED
  BY <1>1, <1>2, <1>3, <1>4 DEF CheckExit

(* In calm handle_entry_place_result preserves CalmInv: the pair takes up the
   order. *)
LEMMA HandlePlaceAnswerCalm ==
  ASSUME Calm, IInv, CalmInv, NEW r \in flight, HandlePlaceAnswer(r)
  PROVE  CalmInv'
<1>1. /\ r.kind = "place" /\ r.answer # "none" /\ flight' = flight \ {r}
      /\ UNCHANGED <<setting, channel, cache>>
  BY DEF HandlePlaceAnswer
<1>2. /\ r.id = pair.place /\ r.id # NoReq /\ CalmRequest(r)
      /\ \A q \in flight : q.id = pair.place => q = r
  BY <1>1, CalmId
<1>3. /\ setting \in Settings /\ pair \in Pair /\ pair.state = "EntryPlacing" /\ pair.poll = NoReq
      /\ \A q \in flight' : q.kind # "place"
  <2>1. \A q \in flight : q.kind = "place" => q.id = pair.place
    BY CalmId
  <2> QED
    BY <1>1, <1>2, <2>1 DEF IInv, Shape, Working
<1>4. \A o \in OpenOrders : o = r.order
  BY <1>2, <1>3, CalmFacts
<1>5. CASE r.answer = "placed" /\ Used(r.order)
  <2>1. /\ pair' = [pair EXCEPT !.state = "EntryWorking", !.place = NoReq, !.order = r.order]
        /\ orders' = [orders EXCEPT ![r.order].early = orders[r.order].filled]
        /\ r.order \in Orders
    BY <1>2, <1>5, TradePairAssumption DEF HandlePlaceAnswer, Used
  <2>2. /\ pair'.state = "EntryWorking" /\ pair'.place = NoReq /\ pair'.order = r.order
        /\ pair'.poll = NoReq /\ pair'.exit = pair.exit /\ pair'.exitCancel = pair.exitCancel
    BY <1>3, <2>1 DEF Pair
  <2>3. orders \in [Orders -> Order]
    BY DEF IInv, OrdersInv
  <2>4. /\ orders' = [orders EXCEPT ![r.order] =
                        [orders[r.order] EXCEPT !.early = orders[r.order].filled]]
    BY <2>1, <2>3
  <2>5. \A o \in Orders :
          /\ orders'[o].size = orders[o].size /\ orders'[o].filled = orders[o].filled
          /\ orders'[o].cancelled <=> orders[o].cancelled
    BY <2>1, <2>3, <2>4 DEF Order
  <2>6. VenueKept /\ OpenOrders' = OpenOrders /\ Used(r.order)'
    BY <1>5, <2>1, <2>5 DEF VenueKept, OpenOrders, Open, Used
  <2>7. ASSUME NEW q \in flight'
        PROVE  CalmRequest(q)'
    <3>1. CalmRequest(q) /\ q.id # NoReq /\ q.kind # "place"
      BY <1>1, <1>3, CalmId
    <3> QED
      BY <2>2, <2>6, <3>1, KeptCalmRequest
  <2>8. CalmPair'
    BY <1>3, <2>2, <2>6 DEF CalmInv, CalmPair
  <2>9. NoOrphans'
    BY <1>4, <2>2, <2>6 DEF NoOrphans
  <2>10. Unique(flight)'
    BY <1>1 DEF CalmInv, Unique
  <2> QED
    BY <1>1, <2>7, <2>8, <2>9, <2>10 DEF CalmInv
<1>6. CASE r.answer = "rejected" /\ r.order = NoOrder
  <2>1. pair' = Cooled([pair EXCEPT !.notional = 0]) /\ orders' = orders
    BY <1>2, <1>6 DEF HandlePlaceAnswer
  <2>2. pair' = [Fresh EXCEPT !.state = "Cooldown", !.notional = 0] /\ 0 \in 0..MaxQty
    BY <1>3, <2>1, CooledZero, SettingType
  <2>3. OpenOrders = {}
    BY <1>4, <1>6, TradePairAssumption DEF OpenOrders
  <2>4. flight' \subseteq flight /\ channel' = channel
    BY <1>1
  <2> QED
    BY <1>3, <2>1, <2>2, <2>3, <2>4, ClosedCalm
<1> QED
  BY <1>1, <1>2, <1>5, <1>6 DEF CalmRequest

(* In calm handle_cancel_response preserves CalmInv: the order it forgets is
   closed. *)
LEMMA HandleCancelAnswerCalm ==
  ASSUME Calm, IInv, CalmInv, NEW r \in flight, HandleCancelAnswer(r)
  PROVE  CalmInv'
<1>1. /\ r.kind = "cancel" /\ flight' = flight \ {r} /\ r.answer # "none"
      /\ UNCHANGED <<setting, orders, channel>>
  BY DEF HandleCancelAnswer
<1>2. /\ r.id # NoReq /\ r.answer = "ok" /\ ~Open(r.order) /\ r.id # pair.place
      /\ \A q \in flight : q.id = r.id => q = r
      /\ pair \in Pair /\ setting \in Settings
  BY <1>1, CalmId DEF CalmRequest, IInv, Shape
<1>3. Unique(flight)'
  BY <1>1 DEF CalmInv, Unique
<1>4. VenueKept /\ OpenOrders' = OpenOrders
  BY <1>1, SameVenueKept
<1>5. CASE r.id \notin {pair.cancelReq, pair.exitCancelReq} /\ pair' = pair
  <2>1. ASSUME NEW q \in flight'
        PROVE  CalmRequest(q)'
    <3>1. CalmRequest(q) /\ (q.kind = "place" => q.id = pair.place)
      BY <1>1, CalmId
    <3> QED
      BY <1>4, <1>5, <3>1, KeptCalmRequest
  <2>2. CalmPair'
    BY <1>1, <1>5 DEF CalmInv, CalmPair, Used
  <2>3. NoOrphans'
    BY <1>1, <1>2, <1>4, <1>5 DEF CalmInv, NoOrphans
  <2> QED
    BY <1>1, <1>3, <2>1, <2>2, <2>3 DEF CalmInv
<1>6. CASE r.id = pair.cancelReq /\ EntryCancelled
  <2>1. pair.state = "EntryWorking" /\ r.order = pair.order
    BY <1>2, <1>6 DEF IInv, Shape, Comes
  <2>2. OpenOrders = {}
    BY <1>2, <2>1, CalmFacts DEF OpenOrders
  <2>3. pair' = [Fresh EXCEPT !.state = "Cooldown", !.notional = 0] /\ 0 \in 0..MaxQty
    BY <1>2, <1>6, CooledZero, SettingType DEF EntryCancelled
  <2>4. \A q \in flight' : q.kind # "place"
    BY <1>1, <2>1, NoPlace
  <2>5. flight' \subseteq flight /\ channel' = channel /\ orders' = orders
    BY <1>1
  <2> QED
    BY <2>2, <2>3, <2>4, <2>5, ClosedCalm
<1>7. CASE r.id = pair.exitCancelReq /\ pair' = ExitCancelled(pair)
  <2>1. pair.state = "ExitWorking" /\ r.order = pair.exit
    <3>1. r.order = pair.exit /\ pair.exitCancel
      BY <1>2, <1>7 DEF IInv, Shape, Comes
    <3> QED
      BY <3>1 DEF CalmInv, CalmPair
  <2>2. OpenOrders = {}
    BY <1>2, <2>1, CalmFacts DEF OpenOrders
  <2>3. /\ pair'.state = pair.state /\ pair'.exit = NoOrder /\ pair'.place = pair.place
        /\ pair'.poll = pair.poll
    BY <1>2, <1>7 DEF ExitCancelled, Pair
  <2>4. ASSUME NEW q \in flight'
        PROVE  CalmRequest(q)'
    <3>1. CalmRequest(q) /\ (q.kind = "place" => q.id = pair.place)
      BY <1>1, CalmId
    <3> QED
      BY <1>4, <2>3, <3>1, KeptCalmRequest
  <2>5. CalmPair'
    BY <2>1, <2>3 DEF CalmPair
  <2>6. NoOrphans'
    BY <1>4, <2>2 DEF NoOrphans
  <2> QED
    BY <1>1, <1>3, <2>4, <2>5, <2>6 DEF CalmInv
<1> QED
  BY <1>2, <1>5, <1>6, <1>7 DEF HandleCancelAnswer

(* In calm handle_fill_response preserves CalmInv: an order that filled is closed. *)
LEMMA HandleFillAnswerCalm ==
  ASSUME Calm, IInv, CalmInv, NEW r \in flight, HandleFillAnswer(r)
  PROVE  CalmInv'
<1> DEFINE rest == flight \ {r}
           p == IF r.id = pair.poll THEN [pair EXCEPT !.poll = NoReq] ELSE pair
           mine == IF r.kind = "entry_fills" THEN p.order ELSE p.exit
           size == IF r.id = pair.poll /\ mine # NoOrder THEN r.trades[mine] ELSE 0
<1>1. /\ r.kind \in {"entry_fills", "exit_fills"} /\ UNCHANGED <<setting, channel, cache>>
      /\ \/ size = 0 /\ pair' = p /\ flight' = rest /\ UNCHANGED <<risk, orders>>
         \/ /\ size > 0 /\ r.kind = "entry_fills"
            /\ CheckExit(EntryFilled(p, size), rest)
            /\ UNCHANGED risk
         \/ /\ size > 0 /\ r.kind = "exit_fills"
            /\ ExitFilled(p) /\ flight' = rest
            /\ UNCHANGED orders
  BY DEF HandleFillAnswer
<1>2. /\ r \in Request /\ r \in TrueRequests /\ r.id # NoReq /\ r.id # pair.place
      /\ CalmRequest(r) /\ setting \in Settings /\ pair \in Pair /\ setting.qty = 1
  BY <1>1, CalmId, CalmFacts DEF IInv, Shape
<1>3. p \in {pair, [pair EXCEPT !.poll = NoReq]} /\ (r.id = pair.poll => p.poll = NoReq)
  BY <1>2 DEF Pair
<1>4. /\ p \in Pair /\ p.state = pair.state /\ p.order = pair.order /\ p.exit = pair.exit
      /\ p.exitCancel = pair.exitCancel /\ p.place = pair.place /\ p.poll \in {pair.poll, NoReq}
  BY <1>3, UnpolledShape
<1>5. size > 0 => mine \in Orders /\ size = 1 /\ orders[mine].filled > 0 /\ r.id = pair.poll
  <2>1. mine \in Orders \cup {NoOrder}
    BY <1>4 DEF Pair
  <2> HIDE DEF mine, p
  <2>2. \A o \in Orders : r.trades[o] \in 0..MaxQty /\ r.trades[o] <= 1
    BY <1>2 DEF Request, Trades, TrueRequests
  <2> QED
    BY <1>2, <2>1, <2>2, CalmFacts DEF TrueRequests
<1> HIDE DEF p, size
<1>6. CASE size = 0 /\ pair' = p /\ flight' = rest /\ UNCHANGED <<risk, orders>>
  <2>1. VenueKept /\ OpenOrders' = OpenOrders
    BY <1>6, SameVenueKept
  <2>2. ASSUME NEW q \in flight'
        PROVE  CalmRequest(q)'
    <3>1. CalmRequest(q) /\ q.id # NoReq /\ (q.kind = "place" => q.id = pair.place)
      BY <1>6, CalmId
    <3> QED
      BY <1>4, <1>6, <2>1, <3>1, KeptCalmRequest
  <2>3. CalmPair'
    BY <1>4, <1>6 DEF CalmInv, CalmPair, Used
  <2>4. NoOrphans'
    BY <1>2, <1>4, <1>6, <2>1 DEF CalmInv, NoOrphans
  <2>5. Unique(flight)'
    BY <1>6 DEF CalmInv, Unique
  <2> QED
    BY <1>1, <2>2, <2>3, <2>4, <2>5 DEF CalmInv
<1>7. CASE size > 0 /\ r.kind = "entry_fills" /\ CheckExit(EntryFilled(p, size), rest)
  <2> DEFINE q == EntryFilled(p, size)
  <2>1. pair.state = "EntryWorking" /\ ~Open(pair.order) /\ p.poll = NoReq
    BY <1>2, <1>3, <1>4, <1>5, <1>7, CalmFacts DEF CalmRequest, mine
  <2>2. OpenOrders = {}
    BY <2>1, CalmFacts DEF OpenOrders
  <2>3. pair.place = NoReq /\ pair.exit = NoOrder /\ ~pair.exitCancel
    BY <2>1, NoPlace DEF CalmInv, CalmPair
  <2>4. /\ q \in Pair /\ q.notional = 1 /\ q.exit = NoOrder /\ ~q.exitCancel /\ q.place = NoReq
        /\ q.poll = NoReq /\ q.state = "PositionOpen"
    <3>1. size = 1 /\ 1 \in 0..MaxQty
      BY <1>5, <1>7, CalmFacts
    <3> QED
      BY <1>4, <2>1, <2>3, <3>1 DEF EntryFilled, Pair, States
  <2>5. CheckExit(q, rest) /\ rest \in SUBSET flight
    BY <1>7
  <2> HIDE DEF q, rest
  <2>6. PlaceExit(q, rest)
    BY <2>4, <2>5 DEF CheckExit, CancelExit, KeepExit
  <2> QED
    BY <1>1, <2>2, <2>3, <2>4, <2>5, <2>6, PlaceExitCalm
<1>8. CASE size > 0 /\ r.kind = "exit_fills" /\ ExitFilled(p) /\ flight' = rest /\ UNCHANGED orders
  <2>1. pair.state = "ExitWorking" /\ ~Open(pair.exit)
    BY <1>2, <1>4, <1>5, <1>8, CalmFacts DEF CalmRequest, mine
  <2>2. OpenOrders = {}
    BY <2>1, CalmFacts DEF OpenOrders
  <2>3. pair' = [Fresh EXCEPT !.state = "Cooldown", !.notional = 0] /\ 0 \in 0..MaxQty
    BY <1>2, <1>4, <1>8, CooledZero, SettingType DEF ExitFilled
  <2>4. flight' \subseteq flight /\ channel' = channel /\ orders' = orders
    BY <1>1, <1>8
  <2>5. \A q \in flight' : q.kind # "place"
    BY <2>1, <2>4, NoPlace
  <2> QED
    BY <2>2, <2>3, <2>4, <2>5, ClosedCalm
<1> QED
  BY <1>1, <1>6, <1>7, <1>8

(* The answer to a request replaces it. *)
LEMMA AnsweredOnce ==
  ASSUME IInv, CalmInv, NEW r \in flight, NEW answer, NEW o, NEW t, Answered(r, answer, o, t)
  PROVE  /\ Unique(flight)'
         /\ \E q : /\ q.id = r.id /\ q.kind = r.kind /\ q.answer = answer /\ q.order = o
                   /\ flight' = (flight \ {r}) \cup {q}
<1> DEFINE q == [r EXCEPT !.answer = answer, !.order = o, !.trades = t]
<1>1. r \in Request
  BY CalmId
<1>2. q.id = r.id /\ q.kind = r.kind /\ q.answer = answer /\ q.order = o
  BY <1>1 DEF Request
<1>3. flight' = (flight \ {r}) \cup {q}
  BY DEF Answered
<1> HIDE DEF q
<1>4. Unique(flight)'
  BY <1>2, <1>3 DEF CalmInv, Unique
<1> QED
  BY <1>2, <1>3, <1>4

(* A step of the venue that opens no order but the one its answer names. *)
LEMMA VenueCalm ==
  ASSUME Calm, IInv, CalmInv, UNCHANGED <<pair, channel>>, VenueKept,
         NEW r \in flight, r.answer = "none", Unique(flight)',
         NEW q, q.id = r.id, flight' = (flight \ {r}) \cup {q}, CalmRequest(q)',
         \A o \in OpenOrders' : o \in OpenOrders \/ (r.kind = "place" /\ o = q.order)
  PROVE  CalmInv'
<1>1. ASSUME NEW s \in flight'
      PROVE  CalmRequest(s)'
  <2>1. CASE s = q
    BY <2>1
  <2>2. CASE s \in flight
    <3>1. CalmRequest(s) /\ (s.kind = "place" => s.id = pair.place)
      BY <2>2, CalmId
    <3> QED
      BY <3>1, KeptCalmRequest
  <2> QED
    BY <2>1, <2>2
<1>2. CalmPair'
  <2>1. \A o : Used(o) => Used(o)'
    BY DEF VenueKept, Used
  <2> QED
    BY <2>1 DEF CalmInv, CalmPair
<1>3. ASSUME NEW o \in OpenOrders'
      PROVE  \/ o = pair.order /\ pair.state = "EntryWorking"
             \/ o = pair.exit /\ pair.state = "ExitWorking"
             \/ \E s \in flight' : s.id = pair.place /\ s.order = o
  <2>1. CASE o \in OpenOrders
    <3>1. r.id = pair.place => r.order = NoOrder
      BY CalmId DEF CalmRequest
    <3>2. o # NoOrder
      BY <2>1, TradePairAssumption DEF OpenOrders
    <3> QED
      BY <2>1, <3>1, <3>2 DEF CalmInv, NoOrphans
  <2>2. CASE r.kind = "place" /\ o = q.order
    BY <2>2, CalmId
  <2> QED
    BY <2>1, <2>2
<1>4. NoOrphans'
  BY <1>3 DEF NoOrphans
<1> QED
  BY <1>1, <1>2, <1>4 DEF CalmInv

(* An order the venue places is on its way to the pair. *)
LEMMA VenuePlacesCalm ==
  ASSUME Calm, IInv, CalmInv, NEW r \in flight, VenuePlaces(r)
  PROVE  CalmInv'
<1>1. /\ r.kind = "place" /\ r.answer = "none" /\ UNCHANGED <<setting, pair, channel>>
      /\ setting.qty = 1 /\ Trouble = {} /\ r.id = pair.place /\ orders \in [Orders -> Order]
  BY CalmFacts, CalmId DEF VenuePlaces, IInv, OrdersInv
<1>2. CASE \E o \in NewOrders :
             orders' = Opened(o, TRUE, setting.qty) /\ Answered(r, "placed", o, NoTrades)
  <2>1. PICK o \in NewOrders :
          orders' = Opened(o, TRUE, setting.qty) /\ Answered(r, "placed", o, NoTrades)
    BY <1>2
  <2>2. /\ o \in Orders /\ orders[o] = Unused
        /\ orders' = [orders EXCEPT ![o] = [orders[o] EXCEPT !.entry = TRUE, !.size = 1]]
    BY <1>1, <2>1 DEF NewOrders, Opened
  <2>3. /\ \A x \in Orders \ {o} : orders'[x] = orders[x]
        /\ orders'[o].size = 1 /\ orders[o].size = 0
    BY <1>1, <2>2 DEF Order, Unused
  <2>4. VenueKept /\ Used(o)' /\ \A x \in OpenOrders' : x \in OpenOrders \/ x = o
    BY <2>2, <2>3 DEF VenueKept, Used, Open, OpenOrders
  <2>5. PICK q : /\ q.id = r.id /\ q.kind = r.kind /\ q.answer = "placed" /\ q.order = o
                 /\ flight' = (flight \ {r}) \cup {q}
    BY <2>1, AnsweredOnce
  <2>6. Unique(flight)'
    BY <2>1, AnsweredOnce
  <2>7. CalmRequest(q)'
    BY <1>1, <2>4, <2>5 DEF CalmRequest
  <2> QED
    BY <1>1, <2>4, <2>5, <2>6, <2>7, VenueCalm
<1>3. CASE Answered(r, "rejected", NoOrder, NoTrades) /\ UNCHANGED orders
  <2>1. VenueKept /\ OpenOrders' = OpenOrders
    BY <1>3, SameVenueKept
  <2>2. PICK q : /\ q.id = r.id /\ q.kind = r.kind /\ q.answer = "rejected" /\ q.order = NoOrder
                 /\ flight' = (flight \ {r}) \cup {q}
    BY <1>3, AnsweredOnce
  <2>3. Unique(flight)'
    BY <1>3, AnsweredOnce
  <2>4. CalmRequest(q)'
    BY <1>1, <2>2 DEF CalmRequest
  <2> QED
    BY <1>1, <2>1, <2>2, <2>3, <2>4, VenueCalm
<1> QED
  BY <1>1, <1>2, <1>3 DEF VenuePlaces

(* A cancellation at the venue opens nothing. *)
LEMMA VenueCancelsCalm ==
  ASSUME Calm, IInv, CalmInv, NEW r \in flight, VenueCancels(r)
  PROVE  CalmInv'
<1>1. /\ r.kind = "cancel" /\ r.answer = "none" /\ UNCHANGED <<setting, pair>>
      /\ Trouble = {} /\ ~UserChannel /\ Used(r.order) /\ r.order \in Orders
      /\ orders \in [Orders -> Order]
  BY CalmFacts, CalmId DEF VenueCancels, IInv, OrdersInv, CalmRequest, Used
<1>2. Answered(r, "ok", r.order, NoTrades) /\ UNCHANGED channel
  BY <1>1 DEF VenueCancels, Report
<1>3. VenueKept /\ OpenOrders' \subseteq OpenOrders /\ ~Open(r.order)'
  <2>1. CASE /\ Open(r.order) /\ orders' = [orders EXCEPT ![r.order].cancelled = TRUE]
    <3>1. orders' = [orders EXCEPT ![r.order] = [orders[r.order] EXCEPT !.cancelled = TRUE]]
      BY <1>1, <2>1
    <3>2. /\ \A x \in Orders \ {r.order} : orders'[x] = orders[x]
          /\ orders'[r.order].size = orders[r.order].size /\ orders'[r.order].cancelled = TRUE
      BY <1>1, <3>1 DEF Order
    <3> QED
      BY <1>1, <2>1, <3>2 DEF VenueKept, Used, Open, OpenOrders
  <2>2. CASE ~Open(r.order) /\ UNCHANGED orders
    BY <2>2, SameVenueKept DEF Open
  <2> QED
    BY <1>1, <2>1, <2>2 DEF VenueCancels
<1>4. PICK q : /\ q.id = r.id /\ q.kind = r.kind /\ q.answer = "ok" /\ q.order = r.order
               /\ flight' = (flight \ {r}) \cup {q}
  BY <1>2, AnsweredOnce
<1>5. Unique(flight)'
  BY <1>2, AnsweredOnce
<1>6. CalmRequest(q)'
  <2>1. Used(r.order)'
    BY <1>1, <1>3 DEF VenueKept
  <2> QED
    BY <1>1, <1>3, <1>4, <2>1 DEF CalmRequest
<1> QED
  BY <1>1, <1>2, <1>3, <1>4, <1>5, <1>6, VenueCalm

(* An answer that lists trades opens nothing. *)
LEMMA VenueListsTradesCalm ==
  ASSUME Calm, IInv, CalmInv, NEW r \in flight, VenueListsTrades(r)
  PROVE  CalmInv'
<1>1. /\ r.kind \in {"entry_fills", "exit_fills"} /\ r.answer = "none"
      /\ UNCHANGED <<pair, orders, channel>> /\ CalmRequest(r)
  BY CalmId DEF VenueListsTrades
<1>2. VenueKept /\ OpenOrders' = OpenOrders
  BY <1>1, SameVenueKept
<1>3. PICK answer, t : Answered(r, answer, NoOrder, t)
  BY DEF VenueListsTrades
<1>4. PICK q : /\ q.id = r.id /\ q.kind = r.kind
               /\ flight' = (flight \ {r}) \cup {q}
  BY <1>3, AnsweredOnce
<1>5. Unique(flight)'
  BY <1>3, AnsweredOnce
<1>6. CalmRequest(q)'
  BY <1>1, <1>4 DEF CalmRequest
<1> QED
  BY <1>1, <1>2, <1>4, <1>5, <1>6, VenueCalm

(* A trade closes the order, since in calm it is for all of it. *)
LEMMA VenueFillsCalm ==
  ASSUME Calm, IInv, CalmInv, NEW o \in Orders, NEW size \in 1..setting.qty, VenueFills(o, size)
  PROVE  CalmInv'
<1>1. /\ Open(o) /\ orders' = [orders EXCEPT ![o].filled = @ + size]
      /\ UNCHANGED <<pair, flight, channel>> /\ orders \in [Orders -> Order]
  BY CalmFacts DEF VenueFills, Report, IInv, OrdersInv
<1>2. orders' = [orders EXCEPT ![o] = [orders[o] EXCEPT !.filled = orders[o].filled + size]]
  BY <1>1
<1>3. /\ \A x \in Orders \ {o} : orders'[x] = orders[x]
      /\ orders'[o].size = orders[o].size
  BY <1>1, <1>2 DEF Order
<1>4. VenueKept /\ OpenOrders' \subseteq OpenOrders
  BY <1>1, <1>3 DEF VenueKept, Used, Open, OpenOrders
<1>5. ASSUME NEW r \in flight'
      PROVE  CalmRequest(r)'
  <2>1. CalmRequest(r) /\ (r.kind = "place" => r.id = pair.place)
    BY <1>1, CalmId
  <2> QED
    BY <1>1, <1>4, <2>1, KeptCalmRequest
<1>6. CalmPair'
  <2>1. \A x : Used(x) => Used(x)'
    BY <1>4 DEF VenueKept, Used
  <2> QED
    BY <1>1, <2>1 DEF CalmInv, CalmPair
<1>7. NoOrphans' /\ Unique(flight)'
  BY <1>1, <1>4 DEF CalmInv, NoOrphans, Unique
<1> QED
  BY <1>1, <1>5, <1>6, <1>7 DEF CalmInv

(* The pair starts with no order to lose. *)
LEMMA CalmInit == IInv /\ Init => CalmInv
<1> SUFFICES ASSUME IInv, Init PROVE CalmInv
  OBVIOUS
<1>1. /\ pair = Fresh /\ flight = {} /\ channel = <<>> /\ OpenOrders = {}
  BY DEF Init, OpenOrders, Open, Unused
<1>2. pair.state = "Idle" /\ pair.exit = NoOrder /\ ~pair.exitCancel
  BY <1>1 DEF Fresh
<1> QED
  BY <1>1, <1>2 DEF CalmInv, CalmPair, Unique, NoOrphans

(* In calm every step preserves CalmInv. *)
LEMMA CalmNext ==
  ASSUME Calm, IInv, CalmInv, [Next]_vars
  PROVE  CalmInv'
<1>1. CASE UNCHANGED vars
  <2>1. VenueKept /\ OpenOrders' = OpenOrders
    BY <1>1, SameVenueKept DEF vars
  <2>2. ASSUME NEW r \in flight'
        PROVE  CalmRequest(r)'
    <3>1. CalmRequest(r) /\ (r.kind = "place" => r.id = pair.place)
      BY <1>1, CalmId DEF vars
    <3> QED
      BY <1>1, <2>1, <3>1, KeptCalmRequest DEF vars
  <2> QED
    BY <1>1, <2>1, <2>2 DEF vars, CalmInv, CalmPair, Used, NoOrphans, Unique
<1>2. ASSUME NEW r \in flight,
             \/ HandlePlaceAnswer(r) \/ HandleCancelAnswer(r) \/ HandleFillAnswer(r)
             \/ VenuePlaces(r) \/ VenueCancels(r) \/ VenueListsTrades(r)
      PROVE  CalmInv'
  BY <1>2, HandlePlaceAnswerCalm, HandleCancelAnswerCalm, HandleFillAnswerCalm,
     VenuePlacesCalm, VenueCancelsCalm, VenueListsTradesCalm
<1>3. ASSUME NEW o \in Orders, NEW size \in 1..setting.qty, VenueFills(o, size)
      PROVE  CalmInv'
  BY <1>3, VenueFillsCalm
<1>4. ~HandleMessage
  BY DEF CalmInv, HandleMessage
<1> QED
  BY <1>1, <1>2, <1>3, <1>4, EnterCalm, RestCalm, CheckEntryCalm, BarChecksExitCalm DEF Next

(* With whole fills that are polled, and a venue that answers every request, no order
   is left behind: whatever the answers overtake, every open order is the one the
   pair works or is about to hear of. *)
THEOREM NoneLeftBehind == ASSUME Calm PROVE Spec => []NoOrphans
<1>1. IInv /\ Init => CalmInv
  BY CalmInit
<1>2. IInv /\ CalmInv /\ [Next]_vars => CalmInv'
  BY CalmNext
<1>3. CalmInv => NoOrphans
  BY DEF CalmInv
<1> QED
  BY <1>1, <1>2, <1>3, Invariance, PTL DEF Spec
==============================================================================
