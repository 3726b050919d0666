--------------------------- MODULE TokenBarsProofs ---------------------------
(***************************************************************************)
(* Proofs about TokenBars, for every set of tokens, late buffer, queue and *)
(* bound.  What holds of a token is stated of its state, its bars and its  *)
(* filed events alone (GoodToken), so that one lemma about closing seconds *)
(* serves events and ticks.                                                *)
(***************************************************************************)
EXTENDS TokenBars, TLAPS, SequenceTheorems

(* The events counted by the bar of second s among the bars b that end at st.flushed. *)
InBarOf(st, b, s) ==
  LET k == s - st.flushed + Len(b) IN
  IF k \in 1..Len(b) THEN b[k].events ELSE 0

GoodToken(st, b, f) ==
  /\ st \in TokenState /\ b \in Seq(Bar) /\ f \in [Seconds -> Nat]
  /\ ~st.known => b = <<>> /\ f = None /\ st.open = None
  /\ st.known =>
       /\ st.watermark \in Seconds /\ st.flushed \in 0..st.watermark
       /\ \A k \in 1..Len(b) : b[k].second = st.flushed - Len(b) + k
       /\ b # <<>> => st.flushed <= Cutoff(st)
       /\ \A s \in Seconds : st.open[s] > 0 => st.flushed < s /\ s <= st.watermark
       /\ \A s \in Seconds : f[s] = st.open[s] + InBarOf(st, b, s)

(* Every second old enough is closed. *)
Settled(st) == Cutoff(st) <= st.flushed

(* The token t between two steps. *)
TokenKept(t) == GoodToken(state[t], bars[t], filed[t]) /\ Settled(state[t])

(* What waits in the queue, and the dirty set. *)
Shard ==
  /\ now \in Start..MaxTime /\ ticked \in Start..now
  /\ queue \in Seq(Message) /\ Len(queue) <= QueueCap
  /\ \A k \in 1..Len(queue) : IsTick(queue[k]) => queue[k].tick <= ticked
  /\ dirty \subseteq {t \in Tokens : state[t].known}
  /\ accepted \in Nat
  /\ state \in [Tokens -> TokenState] /\ bars \in [Tokens -> Seq(Bar)]
  /\ filed \in [Tokens -> [Seconds -> Nat]]

IInv == Shard /\ \A t \in Tokens : TokenKept(t)
-----------------------------------------------------------------------------
(* A function on 1..n is a sequence of length n. *)
LEMMA FunctionIsSeq ==
  ASSUME NEW S, NEW n \in Nat, NEW g \in [1..n -> S]
  PROVE  g \in Seq(S) /\ Len(g) = n
<1>1. g \in Seq(S)
  BY SeqDef
<1>2. Len(g) \in Nat /\ DOMAIN g = 1..Len(g)
  BY <1>1, LenProperties
<1>3. 1..Len(g) = 1..n
  BY <1>2
<1>4. Len(g) = n
  BY <1>2, <1>3
<1> QED BY <1>1, <1>4

(* Closing the seconds up to the cutoff keeps a token in order: the new bars follow
   the old ones without a hole, and take over the counts of their seconds. *)
LEMMA FlushKeeps ==
  ASSUME NEW st, NEW b, NEW f, GoodToken(st, b, f), st.known
  PROVE  LET after == AfterFlush(st)
             all   == IF Cutoff(st) <= st.flushed THEN b ELSE b \o Closed(st)
         IN GoodToken(after, all, f) /\ Settled(after) /\ after.known
<1>1. CASE Cutoff(st) <= st.flushed
  BY <1>1 DEF AfterFlush, Settled
<1>2. CASE ~(Cutoff(st) <= st.flushed)
  <2>a. /\ st \in TokenState /\ b \in Seq(Bar) /\ f \in [Seconds -> Nat]
        /\ st.watermark \in Seconds /\ st.flushed \in 0..st.watermark
        /\ b # <<>> => st.flushed <= Cutoff(st)
    BY DEF GoodToken
  <2>b. \A k \in 1..Len(b) : b[k].second = st.flushed - Len(b) + k
    BY DEF GoodToken
  <2>c. \A s \in Seconds : st.open[s] > 0 => st.flushed < s /\ s <= st.watermark
    BY DEF GoodToken
  <2>d. \A s \in Seconds : f[s] = st.open[s] + InBarOf(st, b, s)
    BY DEF GoodToken
  <2>e. /\ \A s \in Seconds : s \in Int /\ s >= 1 /\ s <= MaxTime + Ahead
        /\ \A s \in Int : s >= 1 /\ s <= MaxTime + Ahead => s \in Seconds
        /\ MaxTime + Ahead \in Nat
    BY BarsBoundAssumption DEF Seconds
  <2> DEFINE after == AfterFlush(st)
             closed == Closed(st)
             all == b \o closed
             n == Cutoff(st) - st.flushed
  <2>1. /\ st.flushed \in Nat /\ st.watermark \in Int /\ Cutoff(st) \in Int /\ n \in Nat
        /\ n > 0 /\ Cutoff(st) <= st.watermark /\ Cutoff(st) = st.flushed + n
        /\ st.watermark <= MaxTime + Ahead
    <3>1. /\ st.watermark \in Int /\ st.flushed \in Int
      BY <2>a DEF TokenState
    <3>2. Cutoff(st) \in Int /\ Cutoff(st) <= st.watermark
      BY <3>1, LateBufferAssumption DEF Cutoff
    <3> QED BY <1>2, <2>a, <2>e, <3>1, <3>2
  <2>2. st.open \in [Seconds -> Nat] /\ Len(b) \in Nat
    BY <2>a DEF TokenState
  <2>3. /\ closed \in Seq(Bar) /\ Len(closed) = n
        /\ \A k \in 1..n : /\ closed[k].second = st.flushed + k
                           /\ closed[k].events = st.open[st.flushed + k]
    <3>1. \A k \in 1..n : st.flushed + k \in Seconds
      BY <2>1, <2>e
    <3>2. closed \in [1..n -> Bar]
      BY <2>2, <3>1 DEF Closed, Bar
    <3>3. closed \in Seq(Bar) /\ Len(closed) = n
      BY <3>2, <2>1, FunctionIsSeq
    <3> QED BY <3>3 DEF Closed
  <2>4. /\ after.flushed = Cutoff(st) /\ after.watermark = st.watermark
        /\ after.known = st.known
        /\ \A s \in Seconds : after.open[s] = IF s <= Cutoff(st) THEN 0 ELSE st.open[s]
        /\ after \in TokenState
    BY <1>2, <2>a, <2>1, <2>2 DEF AfterFlush, TokenState
  <2>5. Cutoff(after) = after.flushed
    BY <2>4 DEF Cutoff
  <2>6. all = IF Cutoff(st) <= st.flushed THEN b ELSE b \o Closed(st)
    BY <1>2
  <2> HIDE DEF n, closed, after
  <2>7. /\ all \in Seq(Bar) /\ Len(all) = Len(b) + n
        /\ \A k \in 1..(Len(b) + n) : all[k] = IF k <= Len(b) THEN b[k] ELSE closed[k - Len(b)]
    BY <2>a, <2>3, ConcatProperties
  <2> HIDE DEF all
  <2>8. \A k \in 1..Len(all) : all[k].second = after.flushed - Len(all) + k
    <3> TAKE k \in 1..Len(all)
    <3>1. CASE k <= Len(b)
      BY <3>1, <2>b, <2>1, <2>2, <2>4, <2>7
    <3>2. CASE ~(k <= Len(b))
      <4>1. k - Len(b) \in 1..n
        BY <3>2, <2>1, <2>2, <2>7
      <4>2. all[k] = closed[k - Len(b)]
        BY <3>2, <2>2, <2>7
      <4>3. all[k].second = st.flushed + (k - Len(b))
        BY <4>1, <4>2, <2>3
      <4> QED BY <4>3, <2>1, <2>2, <2>4, <2>7
    <3> QED BY <3>1, <3>2
  <2>9. \A s \in Seconds : f[s] = after.open[s] + InBarOf(after, all, s)
    <3> TAKE s \in Seconds
    <3> DEFINE k == s - st.flushed + Len(b)
    <3>1. s \in Nat /\ k \in Int /\ s - after.flushed + Len(all) = k
      BY <2>e, <2>1, <2>2, <2>4, <2>7
    <3>2. InBarOf(after, all, s) = IF k \in 1..(Len(b) + n) THEN all[k].events ELSE 0
      BY <3>1, <2>7 DEF InBarOf
    <3>3. InBarOf(st, b, s) = IF k \in 1..Len(b) THEN b[k].events ELSE 0
      BY DEF InBarOf
    <3>4. f[s] = st.open[s] + InBarOf(st, b, s)
      BY <2>d
    <3>5. /\ st.open[s] \in Nat /\ InBarOf(st, b, s) \in Nat
      <4>1. \A l \in 1..Len(b) : b[l].events \in Nat
        <5>1. \A l \in 1..Len(b) : b[l] \in Bar
          BY <2>a, ElementOfSeq
        <5> QED BY <5>1 DEF Bar
      <4> QED BY <2>2, <3>3, <4>1
    <3>6. k <= Len(b) <=> s <= st.flushed
      BY <3>1, <2>1, <2>2
    <3>7. k <= Len(b) + n <=> s <= Cutoff(st)
      BY <3>1, <2>1, <2>2
    <3> HIDE DEF k
    <3>8. CASE s <= st.flushed
      <4>1. s <= Cutoff(st)
        BY <3>8, <3>1, <2>1
      <4>2. st.open[s] = 0 /\ after.open[s] = 0
        <5>1. ~(st.open[s] > 0)
          BY <3>8, <3>1, <2>1, <2>c
        <5>2. after.open[s] = 0
          BY <4>1, <2>4
        <5> QED BY <5>1, <5>2, <3>5
      <4>3. InBarOf(after, all, s) = InBarOf(st, b, s)
        BY <3>8, <3>1, <3>2, <3>3, <3>6, <2>1, <2>2, <2>7
      <4> QED BY <4>2, <4>3, <3>4, <3>5
    <3>9. CASE ~(s <= st.flushed) /\ s <= Cutoff(st)
      <4>1. InBarOf(after, all, s) = st.open[s]
        <5>1. /\ k \in 1..(Len(b) + n) /\ ~(k <= Len(b))
              /\ k - Len(b) = s - st.flushed /\ k - Len(b) \in 1..n
          BY <3>9, <3>1, <3>6, <3>7, <2>1, <2>2 DEF k
        <5>2. all[k] = closed[s - st.flushed]
          BY <5>1, <2>7
        <5>3. st.flushed + (s - st.flushed) = s
          BY <3>1, <2>1
        <5>4. closed[s - st.flushed].events = st.open[s]
          BY <5>1, <5>3, <2>3
        <5> QED BY <5>1, <5>2, <5>4, <3>2
      <4>2. after.open[s] = 0
        BY <3>9, <2>4
      <4>3. InBarOf(st, b, s) = 0
        BY <3>9, <3>1, <3>3, <3>6, <2>2
      <4> QED BY <4>1, <4>2, <4>3, <3>4, <3>5
    <3>10. CASE ~(s <= Cutoff(st))
      <4>1. ~(s <= st.flushed)
        BY <3>10, <3>1, <2>1
      <4>2. InBarOf(after, all, s) = 0 /\ InBarOf(st, b, s) = 0
        BY <3>10, <4>1, <3>1, <3>2, <3>3, <3>6, <3>7, <2>1, <2>2
      <4>3. after.open[s] = st.open[s]
        BY <3>10, <2>4
      <4> QED BY <4>2, <4>3, <3>4, <3>5
    <3> QED BY <3>8, <3>9, <3>10
  <2>10. \A s \in Seconds : after.open[s] > 0 => after.flushed < s /\ s <= after.watermark
    <3> TAKE s \in Seconds
    <3>1. CASE s <= Cutoff(st)
      BY <3>1, <2>4
    <3>2. CASE ~(s <= Cutoff(st))
      BY <3>2, <2>e, <2>c, <2>1, <2>4
    <3> QED BY <3>1, <3>2
  <2>11. after.flushed \in 0..after.watermark
    BY <2>1, <2>4
  <2>12. after.known /\ after.watermark \in Seconds /\ after.flushed <= Cutoff(after)
    BY <2>a, <2>1, <2>4, <2>5
  <2>13. GoodToken(after, all, f)
    BY <2>a, <2>4, <2>7, <2>8, <2>9, <2>10, <2>11, <2>12 DEF GoodToken
  <2>14. Settled(after)
    BY <2>1, <2>4, <2>5 DEF Settled
  <2> QED BY <2>6, <2>12, <2>13, <2>14 DEF after
<1> QED BY <1>1, <1>2
-----------------------------------------------------------------------------
(* No token has been seen. *)
LEMMA InvInit == Init => IInv
<1> SUFFICES ASSUME Init PROVE IInv OBVIOUS
<1>1. Start \in Start..MaxTime /\ Start \in Start..Start
  BY BarsBoundAssumption DEF Start
<1>2. None \in [Seconds -> Nat] /\ \A s \in Seconds : None[s] = 0
  BY DEF None
<1>3. Shard
  BY <1>1, <1>2, BarsBoundAssumption DEF Init, Shard, TokenState
<1>4. ASSUME NEW t \in Tokens PROVE TokenKept(t)
  BY <1>2, LateBufferAssumption DEF Init, TokenKept, GoodToken, Settled, Cutoff, TokenState
<1> QED BY <1>3, <1>4 DEF IInv

(* What the queue delivers. *)
LEMMA QueueHead ==
  ASSUME Shard, queue # <<>>
  PROVE  /\ Head(queue) \in Message
         /\ IsTick(Head(queue)) => Head(queue).tick \in Nat /\ Head(queue).tick <= ticked
         /\ ~IsTick(Head(queue)) => Head(queue).token \in Tokens /\ Head(queue).second \in Seconds
         /\ Tail(queue) \in Seq(Message) /\ Len(Tail(queue)) <= QueueCap
         /\ \A k \in 1..Len(Tail(queue)) :
              IsTick(Tail(queue)[k]) => Tail(queue)[k].tick <= ticked
<1>1. queue \in Seq(Message) /\ Len(queue) \in Nat /\ Len(queue) <= QueueCap
  BY LenProperties DEF Shard
<1>2. Head(queue) \in Message /\ Head(queue) = queue[1] /\ 1 \in 1..Len(queue)
  BY <1>1, HeadTailProperties, EmptySeq
<1>3. /\ Tail(queue) \in Seq(Message) /\ Len(Tail(queue)) = Len(queue) - 1
      /\ \A k \in 1..Len(Tail(queue)) : Tail(queue)[k] = queue[k + 1]
  BY <1>1, HeadTailProperties
<1>4. IsTick(Head(queue)) => Head(queue).tick \in Nat
  BY <1>2 DEF Message, IsTick
<1>5. ~IsTick(Head(queue)) => Head(queue).token \in Tokens /\ Head(queue).second \in Seconds
  BY <1>2 DEF Message, IsTick
<1>6. IsTick(Head(queue)) => Head(queue).tick <= ticked
  BY <1>2 DEF Shard
<1>7. ASSUME NEW k \in 1..Len(Tail(queue)), IsTick(Tail(queue)[k])
      PROVE  Tail(queue)[k].tick <= ticked
  <2>1. k + 1 \in 1..Len(queue)
    BY <1>1, <1>3
  <2> QED BY <2>1, <1>3, <1>7 DEF Shard
<1>8. Len(Tail(queue)) <= QueueCap
  BY <1>1, <1>3, BarsBoundAssumption
<1> QED BY <1>2, <1>3, <1>4, <1>5, <1>6, <1>7, <1>8

(* A message joins the queue. *)
LEMMA QueueAppend ==
  ASSUME Shard, NEW m \in Message, Len(queue) < QueueCap,
         NEW x \in Nat, ticked <= x, IsTick(m) => m.tick <= x
  PROVE  /\ Append(queue, m) \in Seq(Message) /\ Len(Append(queue, m)) <= QueueCap
         /\ \A k \in 1..Len(Append(queue, m)) :
              IsTick(Append(queue, m)[k]) => Append(queue, m)[k].tick <= x
<1> DEFINE q == Append(queue, m)
<1>1. queue \in Seq(Message) /\ Len(queue) \in Nat /\ ticked \in Nat
  BY LenProperties, BarsBoundAssumption DEF Shard, Start
<1>2. /\ q \in Seq(Message) /\ Len(q) = Len(queue) + 1 /\ q[Len(queue) + 1] = m
      /\ \A k \in 1..Len(queue) : q[k] = queue[k]
  BY <1>1, AppendProperties
<1>3. Len(q) <= QueueCap
  BY <1>1, <1>2, BarsBoundAssumption
<1>4. ASSUME NEW k \in 1..Len(q), IsTick(q[k])
      PROVE  q[k].tick <= x
  <2>1. CASE k = Len(queue) + 1
    BY <2>1, <1>2, <1>4
  <2>2. CASE k # Len(queue) + 1
    <3>1. k \in 1..Len(queue) /\ q[k] = queue[k]
      BY <2>2, <1>1, <1>2
    <3>2. queue[k] \in Message
      BY <3>1, <1>1, ElementOfSeq
    <3>3. queue[k].tick \in Nat
      BY <3>1, <3>2, <1>4 DEF Message, IsTick
    <3> QED BY <3>1, <3>3, <1>1, <1>4 DEF Shard
  <2> QED BY <2>1, <2>2
<1> QED BY <1>2, <1>3, <1>4
-----------------------------------------------------------------------------
(* A newer second moves the watermark only. *)
LEMMA MoveKeeps ==
  ASSUME NEW st, NEW b, NEW f, GoodToken(st, b, f), st.known,
         NEW x \in Nat, x <= MaxTime + Ahead
  PROVE  LET moved == [st EXCEPT !.watermark = Later(@, x)] IN
         GoodToken(moved, b, f) /\ moved.known /\ moved.flushed = st.flushed
<1> DEFINE moved == [st EXCEPT !.watermark = Later(@, x)]
<1>1. /\ st \in TokenState /\ st.watermark \in Seconds /\ st.flushed \in 0..st.watermark
      /\ st.open \in [Seconds -> Nat]
  BY DEF GoodToken, TokenState
<1>2. \A s \in Seconds : s \in Int /\ s >= 1 /\ s <= MaxTime + Ahead
  BY BarsBoundAssumption DEF Seconds
<1>3. \A s \in Int : s >= 1 /\ s <= MaxTime + Ahead => s \in Seconds
  BY BarsBoundAssumption DEF Seconds
<1>4. /\ moved.known = st.known /\ moved.flushed = st.flushed /\ moved.open = st.open
      /\ moved.watermark = Later(st.watermark, x)
  BY <1>1 DEF TokenState
<1>5. /\ moved.watermark \in Seconds /\ moved.watermark >= st.watermark
  BY <1>1, <1>2, <1>3, <1>4 DEF Later
<1>6. moved \in TokenState
  BY <1>1, <1>2, <1>5 DEF TokenState
<1> HIDE DEF moved
<1>7. moved.flushed \in 0..moved.watermark
  BY <1>1, <1>2, <1>4, <1>5
<1>8. Cutoff(st) <= Cutoff(moved) /\ Cutoff(st) \in Int /\ Cutoff(moved) \in Int
  BY <1>1, <1>2, <1>5, LateBufferAssumption DEF Cutoff
<1>9. b # <<>> => moved.flushed <= Cutoff(moved)
  BY <1>1, <1>2, <1>4, <1>8 DEF GoodToken
<1>10. \A s \in Seconds : moved.open[s] > 0 => moved.flushed < s /\ s <= moved.watermark
  <2>1. \A s \in Seconds : st.open[s] > 0 => st.flushed < s /\ s <= st.watermark
    BY DEF GoodToken
  <2> QED BY <2>1, <1>1, <1>2, <1>4, <1>5
<1>11. \A s \in Seconds : InBarOf(moved, b, s) = InBarOf(st, b, s)
  BY <1>4 DEF InBarOf
<1> QED
  <2>1. /\ b \in Seq(Bar) /\ f \in [Seconds -> Nat]
        /\ \A k \in 1..Len(b) : b[k].second = moved.flushed - Len(b) + k
        /\ \A s \in Seconds : f[s] = moved.open[s] + InBarOf(moved, b, s)
    BY <1>4, <1>11 DEF GoodToken
  <2>2. moved.known
    BY <1>4
  <2> QED BY <1>4, <1>5, <1>6, <1>7, <1>9, <1>10, <2>1, <2>2 DEF GoodToken, moved

(* An event of an open second is filed under it. *)
LEMMA FileKeeps ==
  ASSUME NEW st, NEW b, NEW f, GoodToken(st, b, f), st.known,
         NEW s \in Seconds, s <= st.watermark, NEW one \in {0, 1}, one = 1 => OnTime(st, s)
  PROVE  LET on == [st EXCEPT !.open[s] = @ + one] IN
         GoodToken(on, b, [f EXCEPT ![s] = @ + one]) /\ on.known
<1> DEFINE on == [st EXCEPT !.open[s] = @ + one]
           g == [f EXCEPT ![s] = @ + one]
<1>1. /\ st \in TokenState /\ st.open \in [Seconds -> Nat] /\ f \in [Seconds -> Nat]
  BY DEF GoodToken, TokenState
<1>2. /\ on.known = st.known /\ on.flushed = st.flushed /\ on.watermark = st.watermark
      /\ on.open = [st.open EXCEPT ![s] = @ + one]
  BY <1>1 DEF TokenState
<1>3. on \in TokenState
  BY <1>1, <1>2 DEF TokenState
<1>4. /\ g \in [Seconds -> Nat] /\ on.open[s] = st.open[s] + one /\ g[s] = f[s] + one
      /\ \A r \in Seconds : r # s => on.open[r] = st.open[r] /\ g[r] = f[r]
  BY <1>1, <1>2
<1> HIDE DEF on, g
<1>5. \A r \in Seconds : on.open[r] > 0 => on.flushed < r /\ r <= on.watermark
  <2> TAKE r \in Seconds
  <2>1. CASE r = s /\ one = 1
    <3>1. s > st.flushed
      BY <2>1 DEF OnTime
    <3>2. st.flushed \in Int /\ s \in Int
      BY <1>1, BarsBoundAssumption DEF TokenState, Seconds
    <3> QED BY <2>1, <3>1, <3>2, <1>2
  <2>2. CASE ~(r = s /\ one = 1)
    <3>1. on.open[r] = st.open[r]
      BY <2>2, <1>1, <1>4
    <3> QED BY <3>1, <1>2 DEF GoodToken
  <2> QED BY <2>1, <2>2
<1>6. \A r \in Seconds : InBarOf(on, b, r) = InBarOf(st, b, r)
  BY <1>2 DEF InBarOf
<1>7. \A r \in Seconds : g[r] = on.open[r] + InBarOf(on, b, r)
  <2> TAKE r \in Seconds
  <2>1. /\ f[r] = st.open[r] + InBarOf(st, b, r)
        /\ f[r] \in Nat /\ st.open[r] \in Nat
    BY <1>1 DEF GoodToken
  <2>2. InBarOf(st, b, r) \in Nat
    <3>1. \A l \in 1..Len(b) : b[l] \in Bar
      BY ElementOfSeq DEF GoodToken
    <3> QED BY <3>1 DEF InBarOf, Bar
  <2> QED BY <2>1, <2>2, <1>4, <1>6
<1>8. Cutoff(on) = Cutoff(st)
  BY <1>2 DEF Cutoff
<1> QED
  <2>1. /\ b \in Seq(Bar) /\ on.watermark \in Seconds /\ on.flushed \in 0..on.watermark
        /\ b # <<>> => on.flushed <= Cutoff(on)
        /\ \A k \in 1..Len(b) : b[k].second = on.flushed - Len(b) + k
    BY <1>2, <1>8 DEF GoodToken
  <2>2. on.known
    BY <1>2
  <2> QED BY <1>3, <1>4, <1>5, <1>7, <2>1, <2>2 DEF GoodToken, on, g

(* The first event of a token. *)
LEMMA NewGood ==
  ASSUME NEW s \in Seconds
  PROVE  GoodToken([known |-> TRUE, watermark |-> s, flushed |-> s - 1, open |-> None], <<>>, None)
<1>1. s \in Nat /\ s >= 1
  BY BarsBoundAssumption DEF Seconds
<1>2. None \in [Seconds -> Nat] /\ \A r \in Seconds : None[r] = 0
  BY DEF None
<1> QED BY <1>1, <1>2 DEF GoodToken, TokenState, InBarOf
-----------------------------------------------------------------------------
(* The clock, and what joins the queue. *)
LEMMA InputKeeps ==
  ASSUME IInv,
         \/ Clock
         \/ \E t \in Tokens, s \in Later(1, now - Behind)..(now + Ahead) : DispatchEvent(t, s)
         \/ \E s \in Seconds : DispatchTick(s)
  PROVE  IInv'
<1> USE DEF IInv
<1>1. /\ now \in Nat /\ ticked \in Nat /\ now <= MaxTime /\ Start <= now /\ ticked <= now
      /\ Start \in Nat /\ Start <= ticked
  BY BarsBoundAssumption DEF Shard, Start
<1>2. UNCHANGED <<state, dirty, bars, filed>>
  BY DEF Clock, DispatchEvent, DispatchTick
<1>3. \A t \in Tokens : TokenKept(t)'
  BY <1>2 DEF TokenKept
<1>4. CASE Clock
  <2>1. now' \in Start..MaxTime /\ ticked' \in Start..now'
    BY <1>1, <1>4, BarsBoundAssumption DEF Clock
  <2> QED BY <2>1, <1>3, <1>4 DEF Clock, Shard
<1>5. ASSUME NEW t \in Tokens, NEW s \in Later(1, now - Behind)..(now + Ahead), DispatchEvent(t, s)
      PROVE  Shard'
  <2> DEFINE m == [token |-> t, second |-> s]
  <2>1. s \in Seconds
    BY <1>1, BarsBoundAssumption DEF Later, Seconds
  <2>2. m \in Message /\ ~IsTick(m)
    BY <2>1 DEF Message, IsTick
  <2>3. queue' = Append(queue, m) /\ Len(queue) < QueueCap /\ UNCHANGED <<now, ticked>>
        /\ accepted' = accepted + 1
    BY <1>5 DEF DispatchEvent
  <2> HIDE DEF m
  <2>4. /\ Append(queue, m) \in Seq(Message) /\ Len(Append(queue, m)) <= QueueCap
        /\ \A k \in 1..Len(Append(queue, m)) :
             IsTick(Append(queue, m)[k]) => Append(queue, m)[k].tick <= ticked
    BY <2>2, <2>3, <1>1, QueueAppend
  <2> QED BY <2>3, <2>4, <1>2 DEF Shard
<1>6. ASSUME NEW s \in Seconds, DispatchTick(s)
      PROVE  Shard'
  <2> DEFINE m == [tick |-> s]
  <2>1. /\ s \in Nat /\ ticked <= s /\ s <= now
    BY <1>1, <1>6 DEF DispatchTick
  <2>2. m \in Message /\ IsTick(m) /\ m.tick = s
    BY <2>1 DEF Message, IsTick
  <2>3. queue' = Append(queue, m) /\ Len(queue) < QueueCap /\ now' = now /\ ticked' = s
        /\ accepted' = accepted
    BY <1>6 DEF DispatchTick
  <2> HIDE DEF m
  <2>4. /\ Append(queue, m) \in Seq(Message) /\ Len(Append(queue, m)) <= QueueCap
        /\ \A k \in 1..Len(Append(queue, m)) :
             IsTick(Append(queue, m)[k]) => Append(queue, m)[k].tick <= s
    BY <2>1, <2>2, <2>3, QueueAppend
  <2>5. ticked' \in Start..now'
    BY <2>1, <2>3, <1>1
  <2> QED BY <2>3, <2>4, <2>5, <1>2 DEF Shard
<1> QED BY <1>3, <1>4, <1>5, <1>6

(* An event: its token is made known, moved on, counted and closed up to its cutoff. *)
LEMMA HandleEventKeeps == IInv /\ HandleEvent => IInv'
<1> SUFFICES ASSUME IInv, HandleEvent PROVE IInv' OBVIOUS
<1> USE DEF IInv
<1> DEFINE t == Head(queue).token
           s == Head(queue).second
           st == Known(t, s)
           one == IF OnTime(st, s) THEN 1 ELSE 0
           moved == [st EXCEPT !.watermark = Later(@, s)]
           on == [moved EXCEPT !.open[s] = @ + one]
           g == [filed[t] EXCEPT ![s] = @ + one]
           all == IF Cutoff(on) <= on.flushed THEN bars[t] ELSE bars[t] \o Closed(on)
<1>1. queue # <<>> /\ ~IsTick(Head(queue)) /\ queue' = Tail(queue)
      /\ UNCHANGED <<now, ticked, accepted>>
  BY DEF HandleEvent
<1>2. t \in Tokens /\ s \in Seconds
  BY <1>1, QueueHead
<1>3. s \in Nat /\ s <= MaxTime + Ahead
  BY <1>2, BarsBoundAssumption DEF Seconds
<1>4. GoodToken(st, bars[t], filed[t]) /\ st.known
  <2>1. CASE state[t].known
    BY <2>1, <1>2 DEF Known, TokenKept
  <2>2. CASE ~state[t].known
    <3>1. bars[t] = <<>> /\ filed[t] = None
      BY <2>2, <1>2 DEF TokenKept, GoodToken
    <3>2. st = [known |-> TRUE, watermark |-> s, flushed |-> s - 1, open |-> None]
      BY <2>2 DEF Known
    <3> HIDE DEF st, s, t
    <3> QED BY <3>1, <3>2, <1>2, NewGood
  <2> QED BY <2>1, <2>2
<1>5. state' = [state EXCEPT ![t] = AfterFlush(on)] /\ bars' = [bars EXCEPT ![t] = all]
      /\ filed' = [filed EXCEPT ![t] = g] /\ dirty' = dirty \cup {t}
  BY DEF HandleEvent, FlushReady
<1>6. one \in {0, 1} /\ (one = 1 => OnTime(st, s))
  OBVIOUS
<1> HIDE DEF st, one, s, t
<1>7. GoodToken(moved, bars[t], filed[t]) /\ moved.known /\ moved.flushed = st.flushed
  BY <1>3, <1>4, MoveKeeps
<1>8. s <= moved.watermark
  <2>1. st.watermark \in Int /\ moved.watermark = Later(st.watermark, s)
    BY <1>4 DEF GoodToken, TokenState
  <2> QED BY <2>1, <1>3 DEF Later
<1>9. one = 1 => OnTime(moved, s)
  BY <1>6, <1>7 DEF OnTime
<1> HIDE DEF moved
<1>10. GoodToken(on, bars[t], g) /\ on.known
  BY <1>2, <1>6, <1>7, <1>8, <1>9, FileKeeps
<1> HIDE DEF on, g
<1>11. GoodToken(AfterFlush(on), all, g) /\ Settled(AfterFlush(on)) /\ AfterFlush(on).known
  BY <1>10, FlushKeeps
<1> HIDE DEF all
<1>12. /\ state \in [Tokens -> TokenState] /\ bars \in [Tokens -> Seq(Bar)]
       /\ filed \in [Tokens -> [Seconds -> Nat]]
  BY DEF Shard
<1>13. /\ AfterFlush(on) \in TokenState /\ all \in Seq(Bar) /\ g \in [Seconds -> Nat]
  BY <1>11 DEF GoodToken
<1>14. /\ state'[t] = AfterFlush(on) /\ bars'[t] = all /\ filed'[t] = g
       /\ \A u \in Tokens : u # t => /\ state'[u] = state[u] /\ bars'[u] = bars[u]
                                     /\ filed'[u] = filed[u]
  BY <1>2, <1>5, <1>12
<1>15. \A u \in Tokens : TokenKept(u)'
  BY <1>11, <1>14 DEF TokenKept
<1>16. dirty' \subseteq {u \in Tokens : state'[u].known}
  BY <1>2, <1>5, <1>11, <1>14 DEF Shard
<1>17. /\ queue' \in Seq(Message) /\ Len(queue') <= QueueCap
       /\ \A k \in 1..Len(queue') : IsTick(queue'[k]) => queue'[k].tick <= ticked
  BY <1>1, QueueHead
<1>18. /\ state' \in [Tokens -> TokenState] /\ bars' \in [Tokens -> Seq(Bar)]
       /\ filed' \in [Tokens -> [Seconds -> Nat]]
  BY <1>5, <1>12, <1>13
<1> QED BY <1>1, <1>15, <1>16, <1>17, <1>18 DEF Shard

(* A tick: every dirty token is moved on and closed up to its cutoff. *)
LEMMA HandleTickKeeps == IInv /\ HandleTick => IInv'
<1> SUFFICES ASSUME IInv, HandleTick PROVE IInv' OBVIOUS
<1> USE DEF IInv
<1> DEFINE x == Head(queue).tick
           moved(t) == [state[t] EXCEPT !.watermark = Later(@, x)]
           all(t) == IF Cutoff(moved(t)) <= moved(t).flushed THEN bars[t]
                     ELSE bars[t] \o Closed(moved(t))
<1>1. queue # <<>> /\ IsTick(Head(queue)) /\ queue' = Tail(queue) /\ dirty' = {}
      /\ UNCHANGED <<now, ticked, filed, accepted>>
  BY DEF HandleTick
<1>2. x \in Nat /\ x <= MaxTime + Ahead
  <2>1. x \in Nat /\ x <= ticked
    BY <1>1, QueueHead
  <2> QED BY <2>1, BarsBoundAssumption DEF Shard, Start
<1>3. /\ state' = [t \in Tokens |-> IF t \in dirty THEN AfterFlush(moved(t)) ELSE state[t]]
      /\ bars' = [t \in Tokens |->
                    IF t \in dirty /\ Cutoff(moved(t)) > state[t].flushed
                    THEN bars[t] \o Closed(moved(t)) ELSE bars[t]]
  BY DEF HandleTick
<1> HIDE DEF x
<1>4. ASSUME NEW t \in Tokens, t \in dirty
      PROVE  /\ GoodToken(state'[t], bars'[t], filed[t]) /\ Settled(state'[t])
  <2>1. GoodToken(state[t], bars[t], filed[t]) /\ state[t].known
    BY <1>4 DEF TokenKept, Shard
  <2>2. GoodToken(moved(t), bars[t], filed[t]) /\ moved(t).known
        /\ moved(t).flushed = state[t].flushed
    BY <2>1, <1>2, MoveKeeps
  <2>3. Cutoff(moved(t)) \in Int /\ state[t].flushed \in Int
    BY <2>1, <2>2, LateBufferAssumption DEF GoodToken, TokenState, Cutoff
  <2>4. state'[t] = AfterFlush(moved(t))
    BY <1>3, <1>4
  <2>5. bars'[t] = all(t)
    BY <1>3, <1>4, <2>2, <2>3
  <2> HIDE DEF moved
  <2>6. GoodToken(AfterFlush(moved(t)), all(t), filed[t]) /\ Settled(AfterFlush(moved(t)))
    BY <2>2, FlushKeeps
  <2> QED BY <2>4, <2>5, <2>6
<1>5. ASSUME NEW t \in Tokens, t \notin dirty
      PROVE  state'[t] = state[t] /\ bars'[t] = bars[t]
  BY <1>3, <1>5
<1>6. \A t \in Tokens : TokenKept(t)'
  <2> TAKE t \in Tokens
  <2>1. CASE t \in dirty
    BY <2>1, <1>1, <1>4 DEF TokenKept
  <2>2. CASE t \notin dirty
    BY <2>2, <1>1, <1>5 DEF TokenKept
  <2> QED BY <2>1, <2>2
<1>7. /\ state' \in [Tokens -> TokenState] /\ bars' \in [Tokens -> Seq(Bar)]
  <2>1. \A t \in Tokens : state'[t] \in TokenState /\ bars'[t] \in Seq(Bar)
    BY <1>6 DEF TokenKept, GoodToken
  <2> HIDE DEF moved
  <2>2. /\ state' = [t \in Tokens |-> state'[t]] /\ bars' = [t \in Tokens |-> bars'[t]]
    BY <1>3
  <2> QED BY <2>1, <2>2
<1>8. /\ queue' \in Seq(Message) /\ Len(queue') <= QueueCap
      /\ \A k \in 1..Len(queue') : IsTick(queue'[k]) => queue'[k].tick <= ticked
  BY <1>1, QueueHead
<1> QED BY <1>1, <1>6, <1>7, <1>8 DEF Shard

(* Every step of the token's worker, and a stuttering step, preserves the
   invariant. *)
LEMMA InvNext == IInv /\ [Next]_vars => IInv'
<1> SUFFICES ASSUME IInv, [Next]_vars PROVE IInv' OBVIOUS
<1>1. CASE UNCHANGED vars
  BY <1>1 DEF vars, IInv, Shard, TokenKept
<1>2. CASE Next
  BY <1>2, InputKeeps, HandleEventKeeps, HandleTickKeeps DEF Next
<1> QED BY <1>1, <1>2

(* The inductive invariant of the token's bars holds in every state of the shard. *)
THEOREM Invariance == Spec => []IInv
<1>1. Init => IInv
  BY InvInit
<1>2. IInv /\ [Next]_vars => IInv'
  BY InvNext
<1> QED BY <1>1, <1>2, PTL DEF Spec
-----------------------------------------------------------------------------
(* Every variable has its type (TypeOK), the tokens' states included. *)
THEOREM TypeCorrect == Spec => []TypeOK
<1>1. IInv => TypeOK
  BY DEF IInv, Shard, TypeOK
<1> QED BY <1>1, Invariance, PTL

(* The bars flush_ready emits for a token are a series without a hole and without a
   repetition, whatever the order of its events and of the ticks (BarsContiguous). *)
THEOREM GaplessBars == Spec => []BarsContiguous
<1>1. IInv => BarsContiguous
  <2> SUFFICES ASSUME IInv, NEW t \in Tokens
               PROVE  /\ \A k \in 1..Len(bars[t]) :
                           bars[t][k].second = state[t].flushed - Len(bars[t]) + k
                      /\ bars[t] # <<>> => state[t].known
    BY DEF BarsContiguous
  <2>1. GoodToken(state[t], bars[t], filed[t])
    BY DEF IInv, TokenKept
  <2>2. CASE state[t].known
    BY <2>1, <2>2 DEF GoodToken
  <2>3. CASE ~state[t].known
    <3>1. bars[t] = <<>>
      BY <2>1, <2>3 DEF GoodToken
    <3> QED BY <3>1
  <2> QED BY <2>2, <2>3
<1> QED BY <1>1, Invariance, PTL

(* A token's accumulators lie in the window between its last closed second and its
   watermark, which is never longer than the late buffer (OpenWindow). *)
THEOREM WindowBounded == Spec => []OpenWindow
<1>1. IInv => OpenWindow
  <2> SUFFICES ASSUME IInv, NEW t \in Tokens, state[t].known
               PROVE  /\ state[t].watermark - state[t].flushed <= LateBuffer
                      /\ \A s \in Seconds : state[t].open[s] > 0 =>
                           state[t].flushed < s /\ s <= state[t].watermark
    BY DEF OpenWindow
  <2>1. GoodToken(state[t], bars[t], filed[t]) /\ Settled(state[t])
    BY DEF IInv, TokenKept
  <2>2. state[t].watermark \in Int /\ state[t].flushed \in Int
    BY <2>1 DEF GoodToken, TokenState
  <2>3. state[t].watermark - state[t].flushed <= LateBuffer
    BY <2>1, <2>2, LateBufferAssumption DEF Settled, Cutoff
  <2> QED BY <2>1, <2>3 DEF GoodToken
<1> QED BY <1>1, Invariance, PTL

(* Every event handle_event files under a second is counted by exactly one bar, that
   of its second, or still waits in that second's accumulator (EventsAccounted). *)
THEOREM EventsCounted == Spec => []EventsAccounted
<1>1. IInv => EventsAccounted
  <2> SUFFICES ASSUME IInv, NEW t \in Tokens, NEW s \in Seconds
               PROVE  filed[t][s] = state[t].open[s] + InBar(t, s)
    BY DEF EventsAccounted
  <2>1. GoodToken(state[t], bars[t], filed[t])
    BY DEF IInv, TokenKept
  <2>2. InBar(t, s) = InBarOf(state[t], bars[t], s)
    BY DEF InBar, InBarOf
  <2>3. CASE state[t].known
    BY <2>1, <2>2, <2>3 DEF GoodToken
  <2>4. CASE ~state[t].known
    <3>1. bars[t] = <<>> /\ filed[t][s] = 0 /\ state[t].open[s] = 0
      BY <2>1, <2>4 DEF GoodToken, None
    <3>2. InBarOf(state[t], bars[t], s) = 0
      BY <3>1 DEF InBarOf
    <3> QED BY <2>2, <3>1, <3>2
  <2> QED BY <2>3, <2>4
<1> QED BY <1>1, Invariance, PTL

(* What a step does to an event that it leaves out of the bars. *)
LateStep ==
  \A t \in Tokens, s \in Seconds :
    queue # <<>> /\ Head(queue) = [token |-> t, second |-> s] /\ queue' = Tail(queue)
    /\ filed'[t][s] = filed[t][s] =>
      /\ state[t].known
      /\ \/ s <= state[t].watermark - LateBuffer
         \/ bars[t] = <<>> /\ s <= state[t].flushed

(* handle_event leaves an event out of the metrics only if it is late by the whole
   buffer, or older than the token's first event (LateOnlyBehindBuffer). *)
THEOREM OnlyLateDropped == Spec => LateOnlyBehindBuffer
<1>1. IInv /\ [Next]_vars => [LateStep]_vars
  <2> SUFFICES ASSUME IInv, Next, NEW t \in Tokens, NEW s \in Seconds, queue # <<>>,
                      Head(queue) = [token |-> t, second |-> s], queue' = Tail(queue),
                      filed'[t][s] = filed[t][s]
               PROVE  /\ state[t].known
                      /\ \/ s <= state[t].watermark - LateBuffer
                         \/ bars[t] = <<>> /\ s <= state[t].flushed
    BY Zenon DEF LateStep
  <2>1. /\ queue \in Seq(Message) /\ Len(Tail(queue)) = Len(queue) - 1 /\ Len(queue) \in Nat
    BY HeadTailProperties, LenProperties DEF IInv, Shard
  <2>2. ~IsTick(Head(queue))
    BY DEF IsTick
  <2>3. HandleEvent
    <3>1. queue' # queue
      <4> DEFINE n == Len(queue)
                 m == Len(queue')
      <4>1. m = n - 1 /\ n \in Nat
        BY <2>1, Zenon
      <4> HIDE DEF n, m
      <4>2. m # n
        BY <4>1
      <4> QED BY <4>2, Zenon DEF n, m
    <3>2. ASSUME NEW m \in Message, queue' = Append(queue, m) PROVE FALSE
      BY <2>1, <3>2, AppendProperties
    <3>3. ASSUME NEW u \in Tokens, NEW r \in Later(1, now - Behind)..(now + Ahead),
                 DispatchEvent(u, r)
          PROVE  FALSE
      <4>1. r \in Seconds
        BY BarsBoundAssumption DEF IInv, Shard, Later, Seconds, Start
      <4>2. [token |-> u, second |-> r] \in Message
        BY <4>1 DEF Message
      <4> QED BY <3>2, <3>3, <4>2 DEF DispatchEvent
    <3>4. ASSUME NEW r \in Seconds, DispatchTick(r) PROVE FALSE
      <4>1. [tick |-> r] \in Message
        BY BarsBoundAssumption DEF Message, Seconds
      <4> QED BY <3>2, <3>4, <4>1 DEF DispatchTick
    <3> QED BY <2>2, <3>1, <3>3, <3>4 DEF Next, Clock, HandleTick
  <2>4. filed' = [filed EXCEPT ![t][s] = @ + IF OnTime(Known(t, s), s) THEN 1 ELSE 0]
    <3>1. Head(queue).token = t /\ Head(queue).second = s
      OBVIOUS
    <3> QED BY <2>3, <3>1, Zenon DEF HandleEvent
  <2>5. filed[t] \in [Seconds -> Nat] /\ filed \in [Tokens -> [Seconds -> Nat]]
    BY DEF IInv, Shard
  <2>6. ~OnTime(Known(t, s), s)
    <3>1. filed'[t][s] = filed[t][s] + IF OnTime(Known(t, s), s) THEN 1 ELSE 0
      BY <2>4, <2>5
    <3>2. filed[t][s] \in Nat
      BY <2>5
    <3> QED BY <3>1, <3>2
  <2>7. GoodToken(state[t], bars[t], filed[t])
    BY DEF IInv, TokenKept
  <2>8. s \in Int
    BY BarsBoundAssumption DEF Seconds
  <2>9. state[t].known
    BY <2>6, <2>8 DEF Known, OnTime
  <2>10. ~(s > state[t].flushed)
    BY <2>6, <2>9 DEF Known, OnTime
  <2>11. /\ state[t].flushed \in Int /\ state[t].watermark \in Int
         /\ bars[t] # <<>> => state[t].flushed <= state[t].watermark - LateBuffer
    BY <2>7, <2>9 DEF GoodToken, TokenState, Cutoff
  <2> QED BY <2>8, <2>9, <2>10, <2>11, LateBufferAssumption
<1>2. LateOnlyBehindBuffer <=> [][LateStep]_vars
  BY Zenon DEF LateOnlyBehindBuffer, LateStep
<1> QED BY <1>1, <1>2, Invariance, PTL DEF Spec
==============================================================================
