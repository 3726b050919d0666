---------------------------- MODULE DbQueueProofs ----------------------------
(***************************************************************************)
(* Proofs about DbQueue, for every value of its constants.  The inductive  *)
(* invariant is Pipeline (what the stages hold, and the counters) and then *)
(* Delivered (what has been written to Postgres), which rests on it.       *)
(***************************************************************************)
EXTENDS DbQueue, TLAPS, FiniteSetTheorems, SequenceTheorems, WellFoundedInduction

(* Rows on their way through the channel and the writer, or acknowledged and not
   yet deleted, are still in the SQLite table. *)
PipelineLive == InChannel \cup writerBuf \cup acks \cup ackBuf \subseteq live

(* Only stored rows are acknowledged, and those whose table is not captured. *)
AckedStored == \A i \in acks \cup ackBuf : stored[i] > 0 \/ log[i] \in Unstorable

Pipeline == TypeOK /\ RetryDequeEmpty /\ HandedOverOnce /\ PipelineLive /\ CountersExact

Delivered == AckedStored /\ QueuedUntilStored

IInv == Pipeline /\ Delivered
-----------------------------------------------------------------------------
(* Every non-empty set of naturals has a least element. *)
LEMMA LeastNat ==
  ASSUME NEW T, T \subseteq Nat, T # {}
  PROVE  \E x \in T : \A y \in T : x <= y
<1>1. PICK x \in T : \A y \in T : ~(<<y, x>> \in OpToRel(<, Nat))
  BY NatLessThanWellFounded, WFMin, Zenon
<1>2. \A y \in T : ~(y < x)
  BY <1>1 DEF OpToRel
<1> QED BY <1>2

(* A non-empty set of naturals below some bound has a largest element. *)
LEMMA LargestNat ==
  ASSUME NEW T, T \subseteq Nat, T # {}, NEW b \in Nat, \A i \in T : i <= b
  PROVE  \E x \in T : \A y \in T : y <= x
<1> DEFINE U == {u \in Nat : \A i \in T : i <= u}
<1>1. PICK u \in U : \A v \in U : u <= v
  <2>1. b \in U /\ U \subseteq Nat OBVIOUS
  <2> QED BY <2>1, LeastNat
<1>2. u \in T
  <2>1. SUFFICES ASSUME u \notin T PROVE FALSE OBVIOUS
  <2>2. PICK i \in T : TRUE OBVIOUS
  <2>3. u - 1 \in Nat /\ \A j \in T : j <= u - 1
    BY <2>1, <2>2
  <2>4. u - 1 \in U BY <2>3
  <2> QED BY <2>4, <1>1
<1> QED BY <1>2

(* The values of a finite sequence of naturals have an upper bound. *)
LEMMA SequenceBounded ==
  ASSUME NEW n \in Nat, NEW f \in [1..n -> Nat]
  PROVE  \E b \in Nat : \A k \in 1..n : f[k] <= b
<1> DEFINE Bad == {m \in 0..n : ~ \E b \in Nat : \A k \in 1..m : f[k] <= b}
<1>1. SUFFICES ASSUME Bad # {} PROVE FALSE
  <2>1. n \in 0..n OBVIOUS
  <2> QED BY <2>1
<1>2. PICK m \in Bad : \A k \in Bad : m <= k
  <2>1. Bad \subseteq Nat OBVIOUS
  <2> QED BY <1>1, <2>1, LeastNat
<1>3. m # 0
  <2>1. \A k \in 1..0 : f[k] <= 0 OBVIOUS
  <2> QED BY <2>1
<1>4. m \in 1..n
  BY <1>3
<1>5. PICK b \in Nat : \A k \in 1..(m - 1) : f[k] <= b
  <2>1. m - 1 \in 0..n BY <1>4
  <2>2. m - 1 \notin Bad
    <3>1. ~(m <= m - 1) BY <1>4
    <3> QED BY <3>1, <1>2, Zenon
  <2> QED BY <2>1, <2>2
<1> DEFINE c == b + f[m]
<1>6. c \in Nat /\ \A k \in 1..m : f[k] <= c
  <2>2. f[m] \in Nat BY <1>4
  <2>3. \A k \in 1..m : k = m \/ k \in 1..(m - 1) OBVIOUS
  <2>4. \A k \in 1..m : f[k] \in Nat BY <1>4
  <2> QED BY <1>4, <1>5, <2>2, <2>3, <2>4
<1> QED BY <1>2, <1>6

(* A function on 1..n is a sequence of length n. *)
LEMMA FunctionIsSeq ==
  ASSUME NEW S, NEW n \in Nat, NEW f \in [1..n -> S]
  PROVE  f \in Seq(S) /\ Len(f) = n
<1>1. f \in Seq(S)
  BY SeqDef
<1>2. Len(f) \in Nat /\ DOMAIN f = 1..Len(f)
  BY <1>1, LenProperties
<1>3. 1..Len(f) = 1..n
  BY <1>2
<1>4. Len(f) = n
  BY <1>2, <1>3
<1> QED BY <1>1, <1>4
-----------------------------------------------------------------------------
(* Every stage is finite. *)
LEMMA StagesFinite ==
  ASSUME TypeOK
  PROVE  /\ Len(log) \in Nat /\ Len(writerCh) \in Nat /\ Len(insertBuf) \in Nat
         /\ IsFiniteSet(live) /\ IsFiniteSet(writerBuf)
         /\ IsFiniteSet(acks) /\ IsFiniteSet(ackBuf)
<1>1. Len(log) \in Nat /\ Len(writerCh) \in Nat /\ Len(insertBuf) \in Nat
  BY LenProperties DEF TypeOK
<1>2. IsFiniteSet(Ids)
  BY <1>1, FS_Interval DEF Ids
<1>3. \A S \in SUBSET Ids : IsFiniteSet(S)
  BY <1>2, FS_Subset
<1> QED BY <1>1, <1>3 DEF TypeOK

(* The initial state. *)
LEMMA PipelineInit == Init => Pipeline
<1> SUFFICES ASSUME Init PROVE Pipeline OBVIOUS
<1> USE DEF Init
<1>1. TypeOK
  BY EmptySeq DEF TypeOK, Ids
<1>2. RetryDequeEmpty /\ HandedOverOnce /\ PipelineLive
  BY CapAssumption DEF RetryDequeEmpty, HandedOverOnce, PipelineLive, InChannel
<1>3. CountersExact
  BY FS_EmptySet DEF CountersExact
<1> QED BY <1>1, <1>2, <1>3 DEF Pipeline

(* Producers touch nothing behind the ingest channel. *)
LEMMA EnqueueKeeps ==
  ASSUME Pipeline, NEW kind \in Kinds, NEW shock \in Nat, Enqueue(kind, shock),
         shockCounter' \in Nat \ {0}, openShocks' \subseteq Nat
  PROVE  Pipeline'
<1> USE DEF Pipeline, Enqueue, spool, stats
<1>1. ingest' \in Seq(Message)
  <2>1. [kind |-> kind, shock |-> shock] \in Message BY DEF Message
  <2> QED BY <2>1, AppendProperties DEF TypeOK
<1>2. TypeOK'
  BY <1>1 DEF TypeOK, Ids
<1>3. (RetryDequeEmpty /\ HandedOverOnce /\ PipelineLive /\ CountersExact)'
  BY DEF RetryDequeEmpty, HandedOverOnce, PipelineLive, CountersExact, InChannel
<1> QED BY <1>2, <1>3

(* The three ways a message is enqueued. *)
LEMMA SendKeeps ==
  ASSUME Pipeline,
         \/ \E kind \in Kinds : SendRow(kind)
         \/ SendShock
         \/ \E id \in openShocks : SendShockUpdate(id)
  PROVE  Pipeline'
<1>1. CASE \E kind \in Kinds : SendRow(kind)
  BY <1>1, EnqueueKeeps DEF SendRow, shocks, Pipeline, TypeOK
<1>2. CASE SendShock
  <2>1. shockCounter \in Nat \ {0} /\ openShocks \subseteq Nat
    BY DEF Pipeline, TypeOK
  <2>2. "shock" \in Kinds /\ Enqueue("shock", shockCounter)
    BY <1>2 DEF SendShock
  <2>3. shockCounter' \in Nat \ {0} /\ openShocks' \subseteq Nat
    BY <1>2, <2>1 DEF SendShock
  <2> QED BY <2>1, <2>2, <2>3, EnqueueKeeps
<1>3. CASE \E id \in openShocks : SendShockUpdate(id)
  BY <1>3, EnqueueKeeps DEF SendShockUpdate, Pipeline, TypeOK
<1> QED BY <1>1, <1>2, <1>3

(* A message moves from the channel into insert_buf. *)
LEMMA RecvIngestKeeps == Pipeline /\ RecvIngest => Pipeline'
<1> SUFFICES ASSUME Pipeline, RecvIngest PROVE Pipeline' OBVIOUS
<1> USE DEF Pipeline, RecvIngest, shocks, bounds
<1>1. Head(ingest) \in Message /\ ingest' \in Seq(Message)
  BY HeadTailProperties DEF TypeOK
<1>2. insertBuf' \in Seq(Message) /\ Len(insertBuf') = Len(insertBuf) + 1
  BY <1>1, AppendProperties DEF TypeOK
<1>3. TypeOK'
  BY <1>1, <1>2 DEF TypeOK, Ids
<1>4. (RetryDequeEmpty /\ HandedOverOnce /\ PipelineLive /\ CountersExact)'
  BY <1>2 DEF RetryDequeEmpty, HandedOverOnce, PipelineLive, CountersExact, InChannel
<1> QED BY <1>3, <1>4

(* A whole buffer becomes rows, after those that are there. *)
LEMMA FlushInsertKeeps == Pipeline /\ FlushInsert => Pipeline'
<1> SUFFICES ASSUME Pipeline, FlushInsert PROVE Pipeline' OBVIOUS
<1> DEFINE n == Len(insertBuf)
           new == (Len(log) + 1)..(Len(log) + n)
<1> USE DEF Pipeline
<1>1. n \in Nat /\ Len(log) \in Nat /\ IsFiniteSet(live)
  BY StagesFinite
<1>2. log' \in Seq(Message) /\ Len(log') = Len(log) + n
  BY ConcatProperties DEF TypeOK, FlushInsert
<1>3. Ids' = Ids \cup new /\ Ids \subseteq Ids' /\ Ids \cap new = {}
  BY <1>1, <1>2 DEF Ids
<1>4. stored' \in [Ids' -> Nat]
  <2>1. stored \in Seq(Nat) /\ Len(stored) = Len(log)
    BY <1>1, FunctionIsSeq DEF TypeOK, Ids
  <2> DEFINE zeros == [k \in 1..n |-> 0]
  <2>2. zeros \in Seq(Nat) /\ Len(zeros) = n
    <3>1. zeros \in [1..n -> Nat] OBVIOUS
    <3> HIDE DEF zeros, n
    <3> QED BY <1>1, <3>1, FunctionIsSeq
  <2>3. stored' = stored \o zeros
    BY DEF FlushInsert
  <2> HIDE DEF zeros, n
  <2>4. stored \o zeros \in Seq(Nat) /\ Len(stored \o zeros) = Len(stored) + Len(zeros)
    BY <2>1, <2>2, ConcatProperties
  <2>5. stored' \in Seq(Nat) /\ Len(stored') = Len(log')
    BY <2>1, <2>2, <2>3, <2>4, <1>2
  <2> QED BY <2>5, LenProperties DEF Ids
<1>5. diskPending' = Cardinality(live')
  <2>1. IsFiniteSet(new) /\ Cardinality(new) = n
    <3> HIDE DEF n
    <3>1. Len(log) + 1 \in Int /\ Len(log) + n \in Int BY <1>1
    <3>2. n = (Len(log) + n) - (Len(log) + 1) + 1 BY <1>1
    <3>3. (Len(log) + 1 > Len(log) + n) => n = 0 BY <1>1
    <3> QED BY <3>1, <3>2, <3>3, FS_Interval
  <2>2. live \cap new = {} BY <1>3 DEF TypeOK
  <2> HIDE DEF new, n
  <2>3. Cardinality(live \cup new) = Cardinality(live) + n - Cardinality(live \cap new)
    BY <1>1, <2>1, FS_Union
  <2>4. Cardinality(live) \in Nat /\ Cardinality({}) = 0
    BY <1>1, FS_EmptySet, FS_CardinalityType
  <2>5. Cardinality(live \cup new) = Cardinality(live) + n
    <3>1. Cardinality(live \cap new) = 0 BY <2>2, <2>4, Zenon
    <3> QED BY <1>1, <2>3, <2>4, <3>1
  <2> QED BY <2>5 DEF FlushInsert, CountersExact, new, n
<1>6. pendingSend' \in Seq(Ids') /\ writerCh' \in Seq(Ids')
  BY <1>3, SeqMonotonic DEF TypeOK, FlushInsert
<1>7. CountersExact'
  BY <1>1, <1>5, EmptySeq DEF CountersExact, FlushInsert
<1>8. TypeOK'
  <2>1. insertBuf' \in Seq(Message) BY EmptySeq DEF FlushInsert
  <2>2. live' \subseteq Ids' BY <1>3 DEF TypeOK, FlushInsert
  <2>3. writerBuf' \subseteq Ids' /\ acks' \subseteq Ids' /\ ackBuf' \subseteq Ids'
    BY <1>3 DEF TypeOK, FlushInsert
  <2>4. inMem' \in Nat /\ diskPending' \in Nat
    BY <1>1 DEF TypeOK, CountersExact, FlushInsert
  <2> QED BY <1>2, <1>4, <1>6, <2>1, <2>2, <2>3, <2>4
          DEF TypeOK, FlushInsert, shocks, bounds
<1>9. (RetryDequeEmpty /\ HandedOverOnce)'
  BY DEF RetryDequeEmpty, HandedOverOnce, InChannel, FlushInsert
<1>10. PipelineLive'
  BY DEF PipelineLive, InChannel, FlushInsert
<1> QED BY <1>7, <1>8, <1>9, <1>10

(* No more rows are fetched than the limit, and none is passed over. *)
LEMMA FetchedWithinLimit ==
  ASSUME Pipeline, NEW limit \in Nat
  PROVE  /\ Fetched(limit) \subseteq live
         /\ \A i \in Fetched(limit) : i > lastSent
         /\ IsFiniteSet(Fetched(limit))
         /\ Cardinality(Fetched(limit)) <= limit
         /\ Fetched(limit) # {} =>
              \E m \in Fetched(limit) : \A i \in Fetched(limit) : i <= m
         /\ \A m \in Fetched(limit), i \in live :
              lastSent < i /\ i <= m => i \in Fetched(limit)
<1> DEFINE rows == Fetched(limit)
<1>1. rows \subseteq live /\ \A i \in rows : i > lastSent
  BY DEF Fetched
<1>2. IsFiniteSet(live) /\ Len(log) \in Nat
  BY StagesFinite DEF Pipeline
<1>3. IsFiniteSet(rows)
  BY <1>1, <1>2, FS_Subset
<1>4. ASSUME rows # {}
      PROVE  \E m \in rows : \A i \in rows : i <= m
  <2>1. rows \subseteq Nat /\ \A i \in rows : i <= Len(log)
    <3>1. live \subseteq 1..Len(log) BY DEF Pipeline, TypeOK, Ids
    <3> HIDE DEF rows
    <3> QED BY <1>1, <1>2, <3>1
  <2> HIDE DEF rows
  <2> QED BY <1>2, <1>4, <2>1, LargestNat
<1>5. Cardinality(rows) <= limit
  <2>1. CASE rows = {}
    BY <2>1, FS_EmptySet
  <2>2. CASE rows # {}
    <3>1. PICK m \in rows : \A i \in rows : i <= m
      BY <1>4, <2>2
    <3> DEFINE upto == {j \in live : j > lastSent /\ j <= m}
    <3>2. Cardinality(upto) <= limit
      BY <3>1 DEF Fetched
    <3>3. IsFiniteSet(upto)
      BY <1>2, FS_Subset
    <3>4. rows \subseteq upto
      BY <1>1, <3>1
    <3>5. Cardinality(rows) <= Cardinality(upto)
      BY <3>3, <3>4, FS_Subset
    <3>6. Cardinality(rows) \in Nat /\ Cardinality(upto) \in Nat
      BY <1>3, <3>3, FS_CardinalityType
    <3> QED BY <3>2, <3>5, <3>6
  <2> QED BY <2>1, <2>2
<1>6. ASSUME NEW m \in rows, NEW i \in live, lastSent < i, i <= m
      PROVE  i \in rows
  <2> DEFINE upto(k) == {j \in live : j > lastSent /\ j <= k}
  <2>1. m \in live /\ Cardinality(upto(m)) <= limit
    BY DEF Fetched
  <2>2. live \subseteq Nat /\ lastSent \in Nat
    BY DEF Pipeline, TypeOK, Ids
  <2>3. upto(i) \subseteq upto(m)
    <3>1. i \in Nat /\ m \in Nat /\ i <= m BY <1>6, <2>1, <2>2
    <3>2. \A j \in live : j <= i => j <= m BY <2>2, <3>1
    <3> QED BY <3>2
  <2>4. IsFiniteSet(upto(m))
    BY <1>2, FS_Subset
  <2>5. Cardinality(upto(i)) <= Cardinality(upto(m)) /\ IsFiniteSet(upto(i))
    BY <2>3, <2>4, FS_Subset
  <2>6. Cardinality(upto(i)) \in Nat /\ Cardinality(upto(m)) \in Nat
    BY <2>4, <2>5, FS_CardinalityType
  <2>7. Cardinality(upto(i)) <= limit
    BY <2>1, <2>5, <2>6
  <2>8. i > lastSent BY <1>6, <2>2
  <2> QED BY <2>7, <2>8 DEF Fetched
<1> QED BY <1>1, <1>3, <1>4, <1>5, <1>6

(* Ascending arranges a finite set of ids in a sequence. *)
LEMMA AscendingProperties ==
  ASSUME NEW S, S \subseteq Nat, IsFiniteSet(S), NEW good \in Ascending(S)
  PROVE  /\ good \in Seq(S) /\ Len(good) = Cardinality(S)
         /\ \A k, l \in 1..Len(good) : k < l => good[k] < good[l]
         /\ \A i \in S : \E k \in 1..Len(good) : good[k] = i
<1> DEFINE n == Cardinality(S)
<1>1. good \in [1..n -> S] /\ n \in Nat /\ \A k, l \in 1..n : k < l => good[k] < good[l]
  BY FS_CardinalityType DEF Ascending
<1> HIDE DEF n
<1>2. good \in Seq(S) /\ Len(good) = n
  BY <1>1, FunctionIsSeq
<1>3. \A i \in S : \E k \in 1..n : good[k] = i
  <2>1. \A k, l \in 1..n : good[k] = good[l] => k = l
    <3>1. \A k \in 1..n : good[k] \in Nat BY <1>1
    <3> QED BY <1>1, <3>1
  <2>2. good \in Injection(1..n, S)
    BY <1>1, <2>1 DEF Injection, IsInjective
  <2>3. IsFiniteSet(1..n) /\ Cardinality(1..n) = n
    BY <1>1, FS_Interval
  <2>4. good \in Surjection(1..n, S)
    BY <2>2, <2>3, FS_Injection DEF n
  <2> QED BY <2>4 DEF Surjection
<1> QED BY <1>1, <1>2, <1>3 DEF n

(* What a pump did: it fetched rows after the cursor, sent those that decode and
   deleted those that do not, or could not delete them. *)
Handover(rows, bad, good, deleted) ==
  /\ rows # {} /\ \A i \in rows : i > lastSent
  /\ \A i \in bad : log[i].kind = "garbled"
  /\ Len(good) <= WriterCap - Len(writerCh)
  /\ writerCh' = writerCh \o good
  /\ pendingSend' = <<>>
  /\ inFlight' = inFlight + Len(good)
  /\ live' = live \ deleted
  /\ diskPending' = diskPending - Cardinality(deleted)
  /\ lastSent' \in rows /\ \A i \in rows : i <= lastSent'
  /\ \A i \in live : lastSent < i /\ i <= lastSent' => i \in rows
  /\ \A i \in rows \ bad : \E k \in 1..Len(good) : good[k] = i

(* A pump that does something, told without the retry deque: the fetched rows
   that decode all fit into the channel. *)
LEMMA PumpSendShape ==
  ASSUME Pipeline, PumpSend
  PROVE  \E rows \in SUBSET live : \E bad \in SUBSET rows :
         \E good \in Ascending(rows \ bad) : \E deleted \in {{}, bad} :
           Handover(rows, bad, good, deleted)
<1> DEFINE room  == WriterCap - Len(writerCh)
           limit == Smaller(FetchBatch, room)
           rows  == Fetched(limit)
           bad   == {i \in rows : log[i].kind = "garbled"}
<1>1. Len(writerCh) \in Nat /\ writerCh \in Seq(Ids) /\ pendingSend = <<>>
  BY StagesFinite DEF Pipeline, TypeOK, RetryDequeEmpty
<1>2. room \in Nat /\ limit \in Nat /\ limit <= room
  BY <1>1, CapAssumption DEF Pipeline, RetryDequeEmpty, Smaller
<1>3. Smaller(Len(pendingSend), room) = 0
  BY <1>1, <1>2, EmptySeq DEF Smaller
<1>4. SubSeq(pendingSend, 1, 0) = <<>> /\ SubSeq(pendingSend, 0 + 1, Len(pendingSend)) = <<>>
  BY <1>1, SubSeqEmpty, EmptySeq
<1>5. writerCh \o SubSeq(pendingSend, 1, 0) = writerCh
  BY <1>1, <1>4, ConcatEmptySeq
<1>6. rows # {}
  BY <1>3, <1>4, <1>5 DEF PumpSend
<1>7. PICK good \in Ascending(rows \ bad), deleted \in {{}, bad} :
        LET queue == <<>> \o good
            fits  == Smaller(Len(queue), room)
        IN
        /\ writerCh' = writerCh \o SubSeq(queue, 1, fits)
        /\ pendingSend' = SubSeq(queue, fits + 1, Len(queue))
        /\ inFlight' = inFlight + 0 + fits
        /\ live' = live \ deleted
        /\ diskPending' = diskPending - Cardinality(deleted)
  BY <1>3, <1>4, <1>5 DEF PumpSend
<1>8. lastSent' = CHOOSE i \in rows : \A j \in rows : j <= i
  BY <1>3, <1>4, <1>5, <1>6 DEF PumpSend
<1> HIDE DEF limit, room
<1>9. /\ rows \subseteq live /\ IsFiniteSet(rows) /\ Cardinality(rows) <= limit
      /\ \A i \in rows : i > lastSent
      /\ \E m \in rows : \A i \in rows : i <= m
      /\ \A m \in rows, i \in live : lastSent < i /\ i <= m => i \in rows
  BY <1>2, <1>6, FetchedWithinLimit
<1> HIDE DEF rows
<1>10. /\ lastSent' \in rows /\ \A i \in rows : i <= lastSent'
       /\ \A i \in live : lastSent < i /\ i <= lastSent' => i \in rows
  BY <1>8, <1>9
<1>11. /\ good \in Seq(rows \ bad) /\ Len(good) \in Nat /\ Len(good) <= room
       /\ good \in Seq(rows)
       /\ \A i \in rows \ bad : \E k \in 1..Len(good) : good[k] = i
  <2> HIDE DEF bad
  <2>1. rows \ bad \subseteq Nat
    <3>1. live \subseteq Nat BY DEF Pipeline, TypeOK, Ids
    <3> QED BY <1>9, <3>1, Zenon
  <2>2. IsFiniteSet(rows \ bad) /\ Cardinality(rows \ bad) <= Cardinality(rows)
    BY <1>9, FS_Subset
  <2>3. /\ good \in Seq(rows \ bad) /\ Len(good) = Cardinality(rows \ bad)
        /\ \A i \in rows \ bad : \E k \in 1..Len(good) : good[k] = i
    BY <2>1, <2>2, AscendingProperties
  <2>4. Cardinality(rows \ bad) \in Nat /\ Cardinality(rows) \in Nat
    BY <1>9, <2>2, FS_CardinalityType
  <2>5. good \in Seq(rows)
    BY <2>3, SeqMonotonic
  <2> QED BY <1>2, <1>9, <2>2, <2>3, <2>4, <2>5
<1>12. <<>> \o good = good /\ Smaller(Len(good), room) = Len(good)
  BY <1>2, <1>11, ConcatEmptySeq DEF Smaller
<1>13. SubSeq(good, 1, Len(good)) = good /\ SubSeq(good, Len(good) + 1, Len(good)) = <<>>
  BY <1>11, SubSeqFull, SubSeqEmpty
<1>14. inFlight' = inFlight + Len(good)
  <2>1. inFlight \in Nat BY DEF Pipeline, TypeOK
  <2>2. inFlight' = inFlight + 0 + Len(good) BY <1>7, <1>12
  <2> QED BY <1>11, <2>1, <2>2
<1>15. \A i \in bad : log[i].kind = "garbled" OBVIOUS
<1>16. bad \in SUBSET rows OBVIOUS
<1>17. /\ writerCh' = writerCh \o good /\ pendingSend' = <<>>
       /\ live' = live \ deleted /\ diskPending' = diskPending - Cardinality(deleted)
  BY <1>7, <1>12, <1>13
<1> HIDE DEF bad
<1>18. Handover(rows, bad, good, deleted)
  BY <1>6, <1>9, <1>10, <1>11, <1>14, <1>15, <1>17 DEF Handover, room
<1> QED BY <1>9, <1>16, <1>18

(* The rows in a sequence of rows. *)
RowsIn(s) == {s[k] : k \in 1..Len(s)}

(* The rows in a concatenation of the channel and newly sent rows. *)
LEMMA ChannelAppend ==
  ASSUME TypeOK, NEW good \in Seq(Ids), writerCh' = writerCh \o good
  PROVE  /\ writerCh' \in Seq(Ids)
         /\ Len(writerCh') = Len(writerCh) + Len(good)
         /\ \A k \in 1..Len(writerCh) : writerCh'[k] = writerCh[k]
         /\ \A k \in 1..Len(good) : writerCh'[Len(writerCh) + k] = good[k]
         /\ \A k \in 1..Len(writerCh') :
              k \in 1..Len(writerCh) \/ k - Len(writerCh) \in 1..Len(good)
         /\ InChannel' = InChannel \cup RowsIn(good)
<1>1. writerCh \in Seq(Ids) BY DEF TypeOK
<1>2. Len(writerCh) \in Nat /\ Len(good) \in Nat BY <1>1, LenProperties
<1>3. /\ writerCh' \in Seq(Ids) /\ Len(writerCh') = Len(writerCh) + Len(good)
      /\ \A k \in 1..Len(writerCh) + Len(good) : writerCh'[k] =
           IF k <= Len(writerCh) THEN writerCh[k] ELSE good[k - Len(writerCh)]
  BY <1>1, ConcatProperties
<1>4. /\ \A k \in 1..Len(writerCh) : writerCh'[k] = writerCh[k]
      /\ \A k \in 1..Len(good) : writerCh'[Len(writerCh) + k] = good[k]
  BY <1>2, <1>3
<1>5. \A k \in 1..Len(writerCh') :
        k \in 1..Len(writerCh) \/ k - Len(writerCh) \in 1..Len(good)
  BY <1>2, <1>3
<1>6. InChannel' = InChannel \cup RowsIn(good)
  <2> DEFINE both == writerCh'
  <2>1. InChannel' = RowsIn(both) /\ InChannel = RowsIn(writerCh)
    BY DEF InChannel, RowsIn
  <2>2. \A k \in 1..Len(both) :
          \/ k \in 1..Len(writerCh) /\ both[k] = writerCh[k]
          \/ k - Len(writerCh) \in 1..Len(good) /\ both[k] = good[k - Len(writerCh)]
    BY <1>2, <1>3, <1>5
  <2>3. \A k \in 1..Len(writerCh) : k \in 1..Len(both) /\ both[k] = writerCh[k]
    BY <1>2, <1>3, <1>4
  <2>4. \A k \in 1..Len(good) :
          Len(writerCh) + k \in 1..Len(both) /\ both[Len(writerCh) + k] = good[k]
    BY <1>2, <1>3, <1>4
  <2> HIDE DEF both
  <2>5. RowsIn(both) \subseteq RowsIn(writerCh) \cup RowsIn(good)
    BY <2>2 DEF RowsIn
  <2>6. RowsIn(writerCh) \subseteq RowsIn(both) /\ RowsIn(good) \subseteq RowsIn(both)
    BY <2>3, <2>4 DEF RowsIn
  <2> QED BY <2>1, <2>5, <2>6
<1> QED BY <1>3, <1>4, <1>5, <1>6

(* The pump hands over rows nobody has seen yet. *)
LEMMA PumpSendKeeps == Pipeline /\ PumpSend => Pipeline'
<1> SUFFICES ASSUME Pipeline, PumpSend PROVE Pipeline' OBVIOUS
<1> USE DEF Pipeline
<1>1. PICK rows \in SUBSET live : \E bad \in SUBSET rows :
         \E good \in Ascending(rows \ bad) : \E deleted \in {{}, bad} :
           Handover(rows, bad, good, deleted)
  BY PumpSendShape
<1>2. PICK bad \in SUBSET rows :
         \E good \in Ascending(rows \ bad) : \E deleted \in {{}, bad} :
           Handover(rows, bad, good, deleted)
  BY <1>1
<1>3. PICK good \in Ascending(rows \ bad), deleted \in {{}, bad} :
           Handover(rows, bad, good, deleted)
  BY <1>2
<1>4. /\ rows # {} /\ \A i \in rows : i > lastSent
      /\ Len(good) <= WriterCap - Len(writerCh)
      /\ writerCh' = writerCh \o good
      /\ pendingSend' = <<>>
      /\ inFlight' = inFlight + Len(good)
      /\ live' = live \ deleted
      /\ diskPending' = diskPending - Cardinality(deleted)
      /\ lastSent' \in rows /\ \A i \in rows : i <= lastSent'
  BY <1>3 DEF Handover
<1>5. /\ UNCHANGED <<ingest, insertBuf, log, writerBuf, acks, ackBuf, stored, inMem>>
      /\ UNCHANGED <<shockCounter, openShocks, sent, restarts, ambiguous>>
  BY DEF PumpSend, shocks, bounds
<1>6. /\ Len(log) \in Nat /\ Len(writerCh) \in Nat
      /\ IsFiniteSet(live) /\ IsFiniteSet(rows \ bad) /\ IsFiniteSet(deleted)
      /\ Cardinality(writerBuf) \in Nat /\ Cardinality(acks) \in Nat
  <2>1. /\ IsFiniteSet(live) /\ IsFiniteSet(writerBuf) /\ IsFiniteSet(acks)
        /\ Len(log) \in Nat /\ Len(writerCh) \in Nat
    BY StagesFinite
  <2>2. \A S \in SUBSET live : IsFiniteSet(S) BY <2>1, FS_Subset
  <2> QED BY <2>1, <2>2, FS_CardinalityType
<1>7. live \subseteq Nat /\ live \subseteq Ids /\ Ids' = Ids /\ lastSent \in Nat
  BY <1>5 DEF TypeOK, Ids
<1>8. /\ good \in Seq(rows \ bad)
      /\ \A k, l \in 1..Len(good) : k < l => good[k] < good[l]
  BY <1>6, <1>7, AscendingProperties
<1>9. good \in Seq(Ids) /\ Len(good) \in Nat
      /\ \A k \in 1..Len(good) : good[k] \in rows /\ good[k] \notin bad
  <2>1. good \in Seq(Ids) BY <1>7, <1>8, SeqMonotonic
  <2> QED BY <2>1, <1>8, LenProperties, ElementOfSeq
<1>10. /\ writerCh' \in Seq(Ids)
       /\ Len(writerCh') = Len(writerCh) + Len(good)
       /\ \A k \in 1..Len(writerCh) : writerCh'[k] = writerCh[k]
       /\ \A k \in 1..Len(good) : writerCh'[Len(writerCh) + k] = good[k]
       /\ \A k \in 1..Len(writerCh') :
            k \in 1..Len(writerCh) \/ k - Len(writerCh) \in 1..Len(good)
       /\ InChannel' = InChannel \cup RowsIn(good)
  BY <1>4, <1>9, ChannelAppend
<1>11. \A i \in InChannel \cup writerBuf \cup acks \cup ackBuf :
        i \in live /\ i <= lastSent /\ i \notin rows
  <2>1. InChannel \cup writerBuf \cup acks \cup ackBuf \subseteq live
    BY DEF PipelineLive
  <2>2. \A i \in InChannel \cup writerBuf \cup acks \cup ackBuf : i <= lastSent
    BY DEF HandedOverOnce
  <2>3. \A i \in rows : ~(i <= lastSent) BY <1>4, <1>7
  <2> QED BY <2>1, <2>2, <2>3
<1>12. RetryDequeEmpty'
  BY <1>4, <1>6, <1>9, <1>10, CapAssumption DEF RetryDequeEmpty
<1>13. CountersExact'
  <2>1. inMem' = Len(insertBuf') BY <1>5 DEF CountersExact
  <2>2. inFlight' = Len(writerCh') + Cardinality(writerBuf') + Cardinality(acks')
    BY <1>4, <1>5, <1>6, <1>9, <1>10 DEF CountersExact
  <2>3. diskPending' = Cardinality(live')
    <3>1. deleted \subseteq live BY <1>4
    <3>2. live \cap deleted = deleted BY <3>1
    <3>3. Cardinality(live \ deleted) = Cardinality(live) - Cardinality(live \cap deleted)
      BY <1>6, FS_Difference
    <3> QED BY <1>4, <3>2, <3>3 DEF CountersExact
  <2> QED BY <2>1, <2>2, <2>3 DEF CountersExact
<1>14. TypeOK'
  <2>1. pendingSend' \in Seq(Ids') BY <1>4, EmptySeq
  <2>2. live' \subseteq Ids' BY <1>4, <1>7
  <2>3. lastSent' \in Nat BY <1>4, <1>7
  <2>4. diskPending' \in Nat
    <3>1. IsFiniteSet(live') BY <1>4, <1>6, FS_Difference
    <3> QED BY <3>1, <1>13, FS_CardinalityType DEF CountersExact
  <2>5. inFlight' \in Nat BY <1>4, <1>9 DEF TypeOK
  <2> QED BY <1>5, <1>7, <1>10, <2>1, <2>2, <2>3, <2>4, <2>5 DEF TypeOK
<1>15. PipelineLive'
  <2>1. \A k \in 1..Len(good) : good[k] \in live' BY <1>4, <1>9
  <2>2. \A i \in InChannel \cup writerBuf \cup acks \cup ackBuf : i \in live'
    BY <1>4, <1>11
  <2>3. \A i \in RowsIn(good) : i \in live' BY <2>1 DEF RowsIn
  <2>4. InChannel' = InChannel \cup RowsIn(good) BY <1>10
  <2> QED BY <1>5, <2>2, <2>3, <2>4 DEF PipelineLive
<1>16. HandedOverOnce'
  <2> DEFINE new == RowsIn(good)
  <2>1. \A i \in new : i \in rows /\ i \in Nat /\ lastSent < i /\ i <= lastSent'
    BY <1>4, <1>7, <1>9 DEF RowsIn
  <2>2. \A i \in InChannel \cup writerBuf \cup acks \cup ackBuf :
          i \in Nat /\ i <= lastSent /\ i <= lastSent' /\ \A j \in new : i < j
    <3>1. lastSent' \in Nat /\ lastSent <= lastSent' BY <1>4, <1>7
    <3>2. \A i \in InChannel \cup writerBuf \cup acks \cup ackBuf : i \in Nat /\ i <= lastSent
      BY <1>7, <1>11
    <3> HIDE DEF new
    <3> QED BY <1>7, <2>1, <3>1, <3>2
  <2>3. ASSUME NEW k \in 1..Len(writerCh'), NEW l \in 1..Len(writerCh'), k < l
        PROVE  writerCh'[k] < writerCh'[l]
    <3>1. CASE l \in 1..Len(writerCh)
      <4>1. k \in 1..Len(writerCh) BY <2>3, <3>1
      <4> QED BY <1>10, <2>3, <3>1, <4>1 DEF HandedOverOnce
    <3>2. CASE k \in 1..Len(writerCh) /\ l - Len(writerCh) \in 1..Len(good)
      <4>1. writerCh'[l] \in new
        <5>1. writerCh'[Len(writerCh) + (l - Len(writerCh))] = good[l - Len(writerCh)]
          BY <1>10, <3>2
        <5>2. Len(writerCh) + (l - Len(writerCh)) = l BY <1>6
        <5> QED BY <3>2, <5>1, <5>2 DEF RowsIn
      <4>2. writerCh'[k] \in InChannel BY <1>10, <3>2 DEF InChannel
      <4> QED BY <2>2, <4>1, <4>2
    <3>3. CASE k - Len(writerCh) \in 1..Len(good) /\ l - Len(writerCh) \in 1..Len(good)
      <4>1. /\ writerCh'[Len(writerCh) + (l - Len(writerCh))] = good[l - Len(writerCh)]
            /\ writerCh'[Len(writerCh) + (k - Len(writerCh))] = good[k - Len(writerCh)]
        <5>1. \A n \in 1..Len(good) : writerCh'[Len(writerCh) + n] = good[n] BY <1>10
        <5> QED BY <3>3, <5>1, Zenon
      <4>2. /\ Len(writerCh) + (l - Len(writerCh)) = l
            /\ Len(writerCh) + (k - Len(writerCh)) = k
            /\ k - Len(writerCh) < l - Len(writerCh)
        BY <1>6, <2>3
      <4> QED BY <1>8, <3>3, <4>1, <4>2
    <3> QED BY <1>10, <3>1, <3>2, <3>3
  <2> HIDE DEF new
  <2>4. InChannel' = InChannel \cup new BY <1>10, Zenon DEF new
  <2>5. InChannel' \cap (writerBuf \cup acks \cup ackBuf)' = {}
    BY <1>5, <2>1, <2>2, <2>4 DEF HandedOverOnce
  <2>6. \A i \in InChannel' : \A j \in (writerBuf \cup acks \cup ackBuf)' : j < i
    BY <1>5, <2>2, <2>4 DEF HandedOverOnce
  <2>7. \A i \in (InChannel \cup writerBuf \cup acks \cup ackBuf)' : i <= lastSent'
    BY <1>5, <2>1, <2>2, <2>4
  <2>8. (writerBuf \cap (acks \cup ackBuf) = {} /\ acks \cap ackBuf = {})'
    BY <1>5 DEF HandedOverOnce
  <2> QED BY <2>3, <2>5, <2>6, <2>7, <2>8 DEF HandedOverOnce
<1> QED BY <1>12, <1>13, <1>14, <1>15, <1>16

(* An acknowledgement moves from the channel into ack_buf. *)
LEMMA RecvAckKeeps ==
  ASSUME Pipeline, NEW i \in acks, RecvAck(i)
  PROVE  Pipeline'
<1> USE DEF Pipeline, RecvAck, shocks, bounds
<1>1. IsFiniteSet(acks) /\ i \in Ids
  BY StagesFinite DEF TypeOK
<1>2. Cardinality(acks \ {i}) = Cardinality(acks) - 1 /\ Cardinality(acks \ {i}) \in Nat
  BY <1>1, FS_RemoveElement, FS_CardinalityType
<1>3. /\ Cardinality(writerBuf) \in Nat /\ Len(writerCh) \in Nat
      /\ Cardinality(acks) \in Nat
  BY <1>1, StagesFinite, FS_CardinalityType
<1>4. CountersExact'
  BY <1>2, <1>3 DEF CountersExact
<1>5. TypeOK'
  <2>1. inFlight' \in Nat BY <1>2, <1>3 DEF CountersExact
  <2> QED BY <1>1, <2>1 DEF TypeOK, Ids
<1>6. (RetryDequeEmpty /\ PipelineLive)'
  BY DEF RetryDequeEmpty, PipelineLive, InChannel
<1>7. HandedOverOnce'
  <2>1. (acks \cup ackBuf)' = acks \cup ackBuf /\ (acks \cap ackBuf)' = {}
    BY DEF HandedOverOnce
  <2>2. InChannel' = InChannel /\ writerCh' = writerCh BY DEF InChannel
  <2> QED BY <2>1, <2>2 DEF HandedOverOnce
<1> QED BY <1>4, <1>5, <1>6, <1>7

(* Acknowledged rows are deleted. *)
LEMMA FlushAckKeeps ==
  ASSUME Pipeline, NEW done \in SUBSET ackBuf, FlushAck(done)
  PROVE  Pipeline'
<1> USE DEF Pipeline, FlushAck, shocks, bounds
<1>1. diskPending' = Cardinality(live') /\ diskPending' \in Nat
  <2>1. IsFiniteSet(live) BY StagesFinite
  <2>2. /\ Cardinality(live \ done) = Cardinality(live) - Cardinality(live \cap done)
        /\ IsFiniteSet(live \ done)
    BY <2>1, FS_Difference
  <2>3. done \cap live = live \cap done OBVIOUS
  <2> QED BY <2>2, <2>3, FS_CardinalityType DEF CountersExact
<1>2. (CountersExact /\ TypeOK)'
  BY <1>1 DEF CountersExact, TypeOK, Ids
<1>3. RetryDequeEmpty'
  BY DEF RetryDequeEmpty
<1>4. PipelineLive'
  <2>1. InChannel' = InChannel BY DEF InChannel
  <2> QED BY <2>1 DEF PipelineLive, HandedOverOnce
<1>5. HandedOverOnce'
  <2>1. InChannel' = InChannel BY DEF InChannel
  <2>2. ackBuf' \subseteq ackBuf OBVIOUS
  <2> QED BY <2>1, <2>2 DEF HandedOverOnce
<1> QED BY <1>2, <1>3, <1>4, <1>5

(* What the writer takes from the channel. *)
LEMMA ChannelHead ==
  ASSUME Pipeline, writerCh # <<>>, writerCh' = Tail(writerCh)
  PROVE  /\ Head(writerCh) \in InChannel /\ Head(writerCh) \in Ids
         /\ writerCh' \in Seq(Ids) /\ Len(writerCh') = Len(writerCh) - 1
         /\ Len(writerCh) \in Nat /\ Len(writerCh') \in Nat
         /\ InChannel' \subseteq InChannel
         /\ \A i \in InChannel' : Head(writerCh) < i
         /\ \A k, l \in 1..Len(writerCh') : k < l => writerCh'[k] < writerCh'[l]
<1>1. writerCh \in Seq(Ids) BY DEF Pipeline, TypeOK
<1>2. /\ Len(writerCh) \in Nat \ {0} /\ Head(writerCh) = writerCh[1]
      /\ writerCh' \in Seq(Ids) /\ Len(writerCh') = Len(writerCh) - 1
      /\ \A k \in 1..Len(writerCh') : writerCh'[k] = writerCh[k + 1]
  BY <1>1, HeadTailProperties, EmptySeq
<1>3. \A k \in 1..Len(writerCh') : k + 1 \in 1..Len(writerCh) /\ 1 < k + 1
  BY <1>2
<1>4. 1 \in 1..Len(writerCh) BY <1>2
<1>5. \A k, l \in 1..Len(writerCh) : k < l => writerCh[k] < writerCh[l]
  BY DEF Pipeline, HandedOverOnce
<1>6. Head(writerCh) \in InChannel /\ Head(writerCh) \in Ids
  BY <1>1, <1>2, <1>4, ElementOfSeq DEF InChannel
<1>7. \A i \in InChannel' : i \in InChannel /\ Head(writerCh) < i
  BY <1>2, <1>3, <1>4, <1>5 DEF InChannel
<1>8. \A k, l \in 1..Len(writerCh') : k < l => writerCh'[k] < writerCh'[l]
  BY <1>2, <1>3, <1>5
<1> QED BY <1>2, <1>6, <1>7, <1>8

(* The writer takes a row from the channel. *)
LEMMA WriterRecvKeeps == Pipeline /\ WriterRecv => Pipeline'
<1> SUFFICES ASSUME Pipeline, WriterRecv PROVE Pipeline' OBVIOUS
<1> DEFINE i == Head(writerCh)
<1> USE DEF Pipeline
<1>1. writerCh # <<>> /\ writerCh' = Tail(writerCh)
  BY DEF WriterRecv
<1>2. \/ acks' = acks \cup {i} /\ writerBuf' = writerBuf
      \/ writerBuf' = writerBuf \cup {i} /\ acks' = acks
  BY DEF WriterRecv
<1>3. /\ UNCHANGED <<ingest, insertBuf, log, live, lastSent, pendingSend, ackBuf, stored>>
      /\ UNCHANGED <<inMem, diskPending, inFlight, shockCounter, openShocks>>
      /\ UNCHANGED <<sent, restarts, ambiguous>>
  BY DEF WriterRecv, spool, stats, shocks, bounds
<1>4. /\ i \in InChannel /\ i \in Ids
      /\ writerCh' \in Seq(Ids) /\ Len(writerCh') = Len(writerCh) - 1
      /\ Len(writerCh) \in Nat /\ Len(writerCh') \in Nat
      /\ InChannel' \subseteq InChannel
      /\ \A j \in InChannel' : i < j
      /\ \A k, l \in 1..Len(writerCh') : k < l => writerCh'[k] < writerCh'[l]
  BY <1>1, ChannelHead
<1> HIDE DEF i
<1>5. /\ i \notin writerBuf \cup acks \cup ackBuf /\ i <= lastSent
      /\ InChannel \cap (writerBuf \cup acks \cup ackBuf) = {}
      /\ \A j \in writerBuf \cup acks \cup ackBuf : j < i
  BY <1>4 DEF HandedOverOnce
<1>6. TypeOK'
  BY <1>2, <1>3, <1>4 DEF TypeOK, Ids
<1>7. (RetryDequeEmpty /\ PipelineLive)'
  <2>1. RetryDequeEmpty' BY <1>3, <1>4, CapAssumption DEF RetryDequeEmpty
  <2>2. PipelineLive' BY <1>2, <1>3, <1>4 DEF PipelineLive
  <2> QED BY <2>1, <2>2
<1>8. CountersExact'
  <2>1. IsFiniteSet(writerBuf) /\ IsFiniteSet(acks) BY StagesFinite
  <2>2. /\ Cardinality(writerBuf \cup {i}) = Cardinality(writerBuf) + 1
        /\ Cardinality(acks \cup {i}) = Cardinality(acks) + 1
        /\ Cardinality(writerBuf) \in Nat /\ Cardinality(acks) \in Nat
    BY <1>5, <2>1, FS_AddElement, FS_CardinalityType
  <2>3. inFlight = Len(writerCh) + Cardinality(writerBuf) + Cardinality(acks)
    BY DEF CountersExact
  <2>4. inFlight' = Len(writerCh') + Cardinality(writerBuf') + Cardinality(acks')
    <3>1. CASE acks' = acks \cup {i} /\ writerBuf' = writerBuf
      BY <1>3, <1>4, <2>2, <2>3, <3>1
    <3>2. CASE writerBuf' = writerBuf \cup {i} /\ acks' = acks
      BY <1>3, <1>4, <2>2, <2>3, <3>2
    <3> QED BY <1>2, <3>1, <3>2
  <2> QED BY <1>3, <2>4 DEF CountersExact
<1>9. HandedOverOnce'
  <2>1. (writerBuf \cup acks \cup ackBuf)' = writerBuf \cup acks \cup ackBuf \cup {i}
    BY <1>2, <1>3
  <2>2. i \notin InChannel'
    <3>1. ~(i < i) BY <1>4 DEF Ids
    <3> QED BY <1>4, <3>1
  <2>3. (InChannel \cap (writerBuf \cup acks \cup ackBuf))' = {}
    BY <1>4, <1>5, <2>1, <2>2
  <2>4. (writerBuf \cap (acks \cup ackBuf) = {} /\ acks \cap ackBuf = {})'
    BY <1>2, <1>3, <1>5 DEF HandedOverOnce
  <2>5. \A j \in InChannel' : \A k \in (writerBuf \cup acks \cup ackBuf)' : k < j
    <3>1. \A j \in InChannel : \A k \in writerBuf \cup acks \cup ackBuf : k < j
      BY DEF HandedOverOnce
    <3> QED BY <1>4, <2>1, <3>1
  <2>6. \A j \in (InChannel \cup writerBuf \cup acks \cup ackBuf)' : j <= lastSent'
    BY <1>3, <1>4, <1>5, <2>1 DEF HandedOverOnce
  <2> QED BY <1>4, <2>3, <2>4, <2>5, <2>6 DEF HandedOverOnce
<1> QED BY <1>6, <1>7, <1>8, <1>9

(* What one transaction does to the table of stored rows. *)
LEMMA StoreBatchTyped ==
  ASSUME TypeOK, StoreBatch
  PROVE  /\ stored' \in [Ids -> Nat]
         /\ \A i \in Ids : stored'[i] >= stored[i]
         /\ \A i \in writerBuf : stored'[i] > 0
BY DEF TypeOK, StoreBatch

(* A confirmed commit acknowledges the batch it stored. *)
LEMMA WriterFlushKeeps == Pipeline /\ WriterFlush => Pipeline'
<1> SUFFICES ASSUME Pipeline, WriterFlush PROVE Pipeline' OBVIOUS
<1> USE DEF Pipeline, WriterFlush, spool, stats, shocks, bounds
<1>1. stored' \in [Ids -> Nat] BY StoreBatchTyped
<1>2. TypeOK'
  BY <1>1 DEF TypeOK, Ids
<1>3. CountersExact'
  <2>1. IsFiniteSet(writerBuf) /\ IsFiniteSet(acks) BY StagesFinite
  <2>2. acks \cap writerBuf = {} BY DEF HandedOverOnce
  <2>3. Cardinality(acks \cup writerBuf) =
          Cardinality(acks) + Cardinality(writerBuf) - Cardinality(acks \cap writerBuf)
    BY <2>1, FS_Union
  <2>4. /\ Cardinality(acks \cap writerBuf) = 0 /\ Cardinality({}) = 0
        /\ Cardinality(acks) \in Nat /\ Cardinality(writerBuf) \in Nat
    BY <2>1, <2>2, FS_EmptySet, FS_CardinalityType
  <2>5. Len(writerCh) \in Nat BY StagesFinite
  <2> QED BY <2>3, <2>4, <2>5 DEF CountersExact
<1>4. (RetryDequeEmpty /\ PipelineLive)'
  BY DEF RetryDequeEmpty, PipelineLive, InChannel
<1>5. HandedOverOnce'
  <2>1. InChannel' = InChannel BY DEF InChannel
  <2>2. (acks \cup ackBuf)' = writerBuf \cup acks \cup ackBuf /\ writerBuf' = {}
    OBVIOUS
  <2>3. (acks \cap ackBuf)' = {} BY DEF HandedOverOnce
  <2> QED BY <2>1, <2>2, <2>3 DEF HandedOverOnce
<1> QED BY <1>2, <1>3, <1>4, <1>5

(* A commit of unknown outcome leaves the batch in the writer's buffers. *)
LEMMA WriterFlushAmbiguousKeeps == Pipeline /\ WriterFlushAmbiguous => Pipeline'
<1> SUFFICES ASSUME Pipeline, WriterFlushAmbiguous PROVE Pipeline' OBVIOUS
<1> USE DEF Pipeline, WriterFlushAmbiguous, spool, stats, shocks
<1>1. stored' \in [Ids -> Nat] BY StoreBatchTyped
<1>2. TypeOK'
  BY <1>1 DEF TypeOK, Ids
<1>3. (RetryDequeEmpty /\ HandedOverOnce /\ PipelineLive /\ CountersExact)'
  BY DEF RetryDequeEmpty, HandedOverOnce, PipelineLive, CountersExact, InChannel
<1> QED BY <1>2, <1>3

(* The process restarts with empty stages and counts the rows left on disk. *)
LEMMA RestartKeeps == Pipeline /\ Restart => Pipeline'
<1> SUFFICES ASSUME Pipeline, Restart PROVE Pipeline' OBVIOUS
<1> USE DEF Pipeline, Restart
<1>1. Len(log) \in Nat /\ IsFiniteSet(live)
  BY StagesFinite
<1>2. shockCounter' \in Nat \ {0}
  <2> DEFINE S == StoredShocks
  <2>1. CASE S = {}
    BY <2>1
  <2>2. CASE S # {}
    <3> DEFINE f == [i \in 1..Len(log) |-> log[i].shock]
    <3>1. f \in [1..Len(log) -> Nat]
      <4>1. \A i \in 1..Len(log) : log[i] \in Message BY ElementOfSeq DEF TypeOK
      <4> QED BY <4>1 DEF Message
    <3>2. PICK b \in Nat : \A k \in 1..Len(log) : f[k] <= b
      <4> HIDE DEF f
      <4> QED BY <1>1, <3>1, SequenceBounded
    <3>3. S \subseteq Nat /\ \A s \in S : s <= b
      <4>1. \A s \in S : \E k \in 1..Len(log) : s = f[k]
        BY DEF StoredShocks, Ids
      <4> HIDE DEF f, S
      <4> QED BY <3>1, <3>2, <4>1
    <3> HIDE DEF S
    <3>4. \E s \in S : \A t \in S : t <= s
      BY <2>2, <3>3, LargestNat
    <3>5. (CHOOSE s \in S : \A t \in S : t <= s) \in Nat
      BY <3>3, <3>4
    <3> QED BY <2>2, <3>5 DEF S
  <2> QED BY <2>1, <2>2
<1>3. TypeOK'
  BY <1>1, <1>2, EmptySeq, FS_CardinalityType DEF TypeOK, Ids
<1>4. CountersExact'
  BY FS_EmptySet, EmptySeq DEF CountersExact
<1>5. (RetryDequeEmpty /\ HandedOverOnce /\ PipelineLive)'
  BY CapAssumption DEF RetryDequeEmpty, HandedOverOnce, PipelineLive, InChannel
<1> QED BY <1>3, <1>4, <1>5

(* Every step of the specification keeps the stages in order. *)
LEMMA PipelineNext == Pipeline /\ [Next]_vars => Pipeline'
<1> SUFFICES ASSUME Pipeline, [Next]_vars PROVE Pipeline' OBVIOUS
<1>1. CASE \/ \E kind \in Kinds : SendRow(kind)
           \/ SendShock
           \/ \E id \in openShocks : SendShockUpdate(id)
  BY <1>1, SendKeeps
<1>2. CASE Spooler
  BY <1>2, RecvIngestKeeps, FlushInsertKeeps, PumpSendKeeps, RecvAckKeeps, FlushAckKeeps
     DEF Spooler
<1>3. CASE WriterRecv
  BY <1>3, WriterRecvKeeps
<1>4. CASE WriterFlush
  BY <1>4, WriterFlushKeeps
<1>5. CASE WriterFlushAmbiguous
  BY <1>5, WriterFlushAmbiguousKeeps
<1>6. CASE Restart
  BY <1>6, RestartKeeps
<1>7. CASE UNCHANGED vars
  BY <1>7 DEF vars, Pipeline, TypeOK, Ids, RetryDequeEmpty, HandedOverOnce,
              PipelineLive, CountersExact, InChannel
<1> QED BY <1>1, <1>2, <1>3, <1>4, <1>5, <1>6, <1>7 DEF Next
-----------------------------------------------------------------------------
(* Every row in Unstorable is one the writer or the decoder lets go. *)
LEMMA UnstorableRows ==
  ASSUME TypeOK, NEW i \in Ids
  PROVE  log[i] \in Unstorable <=> log[i].kind \in {"skip", "garbled"}
<1>1. log[i] \in Message BY ElementOfSeq DEF TypeOK, Ids
<1> QED BY <1>1 DEF Unstorable

(* The step of Delivered for the steps that change neither the rows nor what has
   been stored, acknowledged or deleted. *)
LEMMA DeliveredUnchanged ==
  ASSUME Delivered, UNCHANGED <<log, live, stored>>,
         (acks \cup ackBuf)' \subseteq acks \cup ackBuf
  PROVE  Delivered'
BY DEF Delivered, AckedStored, QueuedUntilStored, Ids

(* New rows follow the old ones, which keep their place, and start unstored. *)
LEMMA FlushInsertCopies ==
  ASSUME Pipeline, FlushInsert
  PROVE  /\ Len(log) \in Nat /\ Len(log') \in Nat /\ Len(log') > Len(log)
         /\ \A i \in Ids : i \in Ids' /\ log'[i] = log[i]
         /\ stored' = [i \in 1..Len(log') |-> IF i \in 1..Len(log) THEN stored[i] ELSE 0]
         /\ live' = live \cup (Len(log) + 1)..Len(log')
<1> DEFINE n == Len(insertBuf)
           zeros == [k \in 1..n |-> 0]
<1>1. Len(log) \in Nat /\ n \in Nat /\ log \in Seq(Message) /\ insertBuf \in Seq(Message)
  BY StagesFinite DEF Pipeline, TypeOK
<1>2. stored \in Seq(Nat) /\ Len(stored) = Len(log)
  BY <1>1, FunctionIsSeq DEF Pipeline, TypeOK, Ids
<1>3. zeros \in Seq(Nat) /\ Len(zeros) = n /\ \A k \in 1..n : zeros[k] = 0
  <2>1. zeros \in [1..n -> Nat] /\ \A k \in 1..n : zeros[k] = 0 OBVIOUS
  <2> HIDE DEF zeros, n
  <2> QED BY <1>1, <2>1, FunctionIsSeq
<1>4. log' = log \o insertBuf /\ stored' = stored \o zeros /\ n > 0
  BY DEF FlushInsert
<1>5. Len(log') = Len(log) + n /\ \A i \in Ids : log'[i] = log[i]
  <2>1. \A i \in 1..Len(log) : i \in 1..Len(log) + Len(insertBuf) /\ i <= Len(log)
    BY <1>1
  <2> QED BY <1>1, <1>4, <2>1, ConcatProperties DEF Ids
<1>6. live' = live \cup (Len(log) + 1)..Len(log')
  BY <1>5 DEF FlushInsert
<1> HIDE DEF zeros, n
<1>7. /\ stored' \in Seq(Nat) /\ Len(stored') = Len(log')
      /\ \A i \in 1..Len(log') : stored'[i] =
           IF i <= Len(log) THEN stored[i] ELSE zeros[i - Len(log)]
  <2>1. /\ stored \o zeros \in Seq(Nat) /\ Len(stored \o zeros) = Len(stored) + Len(zeros)
        /\ \A i \in 1..Len(stored) + Len(zeros) : (stored \o zeros)[i] =
             IF i <= Len(stored) THEN stored[i] ELSE zeros[i - Len(stored)]
    BY <1>2, <1>3, ConcatProperties
  <2> QED BY <1>2, <1>3, <1>4, <1>5, <2>1
<1>8. \A i \in 1..Len(log') :
        i \in 1..Len(log) \/ (~(i <= Len(log)) /\ i - Len(log) \in 1..n)
  BY <1>1, <1>5
<1>9. \A i \in 1..Len(log') : stored'[i] = IF i \in 1..Len(log) THEN stored[i] ELSE 0
  BY <1>1, <1>3, <1>7, <1>8
<1>10. stored' \in [1..Len(log') -> Nat]
  BY <1>7, LenProperties
<1>11. stored' = [i \in 1..Len(log') |-> IF i \in 1..Len(log) THEN stored[i] ELSE 0]
  BY <1>9, <1>10
<1> QED BY <1>1, <1>4, <1>5, <1>6, <1>11 DEF Ids

(* New rows are not yet acknowledged, and the old ones keep their order. *)
LEMMA FlushInsertDelivers == Pipeline /\ Delivered /\ FlushInsert => Delivered'
<1> SUFFICES ASSUME Pipeline, Delivered, FlushInsert PROVE Delivered' OBVIOUS
<1>1. /\ Len(log) \in Nat /\ Len(log') \in Nat
      /\ \A i \in Ids : i \in Ids' /\ log'[i] = log[i]
      /\ stored' = [i \in 1..Len(log') |-> IF i \in 1..Len(log) THEN stored[i] ELSE 0]
      /\ live' = live \cup (Len(log) + 1)..Len(log')
  BY FlushInsertCopies
<1>2. \A i \in Ids : stored'[i] = stored[i]
  BY <1>1 DEF Ids
<1>3. Unstorable' = Unstorable BY DEF Unstorable
<1>4. AckedStored'
  <2>1. acks \cup ackBuf \subseteq Ids BY DEF Pipeline, TypeOK
  <2>2. (acks \cup ackBuf)' = acks \cup ackBuf BY DEF FlushInsert
  <2> QED BY <1>1, <1>2, <1>3, <2>1, <2>2 DEF Delivered, AckedStored
<1>5. QueuedUntilStored'
  <2>1. \A i \in Ids' : i \in Ids \/ i \in (Len(log) + 1)..Len(log')
    BY <1>1 DEF Ids
  <2> QED BY <1>1, <1>2, <1>3, <2>1 DEF Delivered, QueuedUntilStored
<1> QED BY <1>4, <1>5 DEF Delivered

(* Nothing is acknowledged at the start. *)
LEMMA DeliveredInit == Init => Delivered
<1> SUFFICES ASSUME Init PROVE Delivered OBVIOUS
<1>1. Ids = {} /\ acks \cup ackBuf = {}
  BY EmptySeq DEF Init, Ids
<1> QED BY <1>1 DEF Delivered, AckedStored, QueuedUntilStored

(* Rows are acknowledged after their commit and deleted after their
   acknowledgement. *)
LEMMA DeliveredNext == Pipeline /\ Delivered /\ [Next]_vars => Delivered'
<1> SUFFICES ASSUME Pipeline, Delivered, [Next]_vars PROVE Delivered' OBVIOUS
<1>0. TypeOK /\ Unstorable' = Unstorable BY DEF Pipeline, Unstorable
<1>1. CASE \/ \E kind \in Kinds : SendRow(kind)
           \/ SendShock
           \/ \E id \in openShocks : SendShockUpdate(id)
  BY <1>1, DeliveredUnchanged DEF SendRow, SendShock, SendShockUpdate, Enqueue, spool
<1>2. CASE RecvIngest
  BY <1>2, DeliveredUnchanged DEF RecvIngest
<1>3. CASE FlushInsert
  BY <1>3, FlushInsertDelivers
<1>4. CASE PumpSend
  <2>1. PICK rows \in SUBSET live : \E bad \in SUBSET rows :
          \E good \in Ascending(rows \ bad) : \E deleted \in {{}, bad} :
            Handover(rows, bad, good, deleted)
    BY <1>4, PumpSendShape
  <2>2. PICK bad \in SUBSET rows : \E good \in Ascending(rows \ bad) :
          \E deleted \in {{}, bad} : Handover(rows, bad, good, deleted)
    BY <2>1
  <2>3. PICK deleted \in {{}, bad} : live' = live \ deleted
    BY <2>2 DEF Handover
  <2>4. \A i \in bad : log[i].kind = "garbled"
    BY <2>2 DEF Handover
  <2>5. \A i \in deleted : log[i] \in Unstorable
    BY <1>0, <2>3, <2>4, UnstorableRows DEF TypeOK
  <2>6. UNCHANGED <<log, acks, ackBuf, stored>>
    BY <1>4 DEF PumpSend
  <2> QED BY <1>0, <2>3, <2>5, <2>6
          DEF Delivered, AckedStored, QueuedUntilStored, Ids
<1>5. CASE \E i \in acks : RecvAck(i)
  BY <1>5, DeliveredUnchanged DEF RecvAck
<1>6. CASE \E done \in SUBSET ackBuf : FlushAck(done)
  BY <1>0, <1>6 DEF FlushAck, Delivered, AckedStored, QueuedUntilStored, Ids
<1>7. CASE WriterRecv
  <2> DEFINE i == Head(writerCh)
  <2>1. i \in Ids BY <1>7, ChannelHead DEF WriterRecv
  <2>2. UNCHANGED <<log, live, ackBuf, stored>> BY <1>7 DEF WriterRecv, spool
  <2>3. acks' = acks \/ (acks' = acks \cup {i} /\ log[i].kind = "skip")
    BY <1>7 DEF WriterRecv
  <2>4. log[i].kind = "skip" => log[i] \in Unstorable
    BY <1>0, <2>1, UnstorableRows
  <2> HIDE DEF i
  <2> QED BY <1>0, <2>2, <2>3, <2>4 DEF Delivered, AckedStored, QueuedUntilStored, Ids
<1>8. CASE WriterFlush \/ WriterFlushAmbiguous
  <2>1. /\ stored' \in [Ids -> Nat]
        /\ \A i \in Ids : stored'[i] >= stored[i]
        /\ \A i \in writerBuf : stored'[i] > 0
    BY <1>0, <1>8, StoreBatchTyped DEF WriterFlush, WriterFlushAmbiguous
  <2>2. \A i \in Ids : stored[i] > 0 => stored'[i] > 0
    BY <1>0, <2>1 DEF TypeOK
  <2>3. UNCHANGED <<log, live, ackBuf>> /\ acks' \subseteq acks \cup writerBuf
    BY <1>8 DEF WriterFlush, WriterFlushAmbiguous, spool
  <2>4. acks \cup ackBuf \subseteq Ids BY <1>0 DEF TypeOK
  <2> QED BY <1>0, <2>1, <2>2, <2>3, <2>4 DEF Delivered, AckedStored, QueuedUntilStored, Ids
<1>9. CASE Restart
  BY <1>9, DeliveredUnchanged DEF Restart
<1>10. CASE UNCHANGED vars
  BY <1>10, DeliveredUnchanged DEF vars
<1> QED BY <1>1, <1>2, <1>3, <1>4, <1>5, <1>6, <1>7, <1>8, <1>9, <1>10 DEF Next, Spooler
-----------------------------------------------------------------------------
(* The inductive invariant holds of every behaviour. *)
THEOREM Invariance == Spec => []IInv
<1>1. Init => IInv
  BY PipelineInit, DeliveredInit DEF IInv
<1>2. IInv /\ [Next]_vars => IInv'
  BY PipelineNext, DeliveredNext DEF IInv
<1> QED BY <1>1, <1>2, PTL DEF Spec

(* Every variable keeps its type, and the pending and in-flight counters, unsigned
   in DbQueueStats, never go below zero. *)
THEOREM TypeCorrect == Spec => []TypeOK
<1>1. IInv => TypeOK BY DEF IInv, Pipeline
<1> QED BY <1>1, Invariance, PTL

(* flush_ack and pump_send delete a row from the disk queue only when a committed
   Postgres transaction wrote it, or when none ever will. *)
THEOREM NothingLost == Spec => []QueuedUntilStored
<1>1. IInv => QueuedUntilStored BY DEF IInv, Delivered
<1> QED BY <1>1, Invariance, PTL

(* pump_send hands every row over once between two restarts. *)
THEOREM OneHandover == Spec => []HandedOverOnce
<1>1. IInv => HandedOverOnce BY DEF IInv, Pipeline
<1> QED BY <1>1, Invariance, PTL

(* The retry deque of pump_send is never used. *)
THEOREM NoRetry == Spec => []RetryDequeEmpty
<1>1. IInv => RetryDequeEmpty BY DEF IInv, Pipeline
<1> QED BY <1>1, Invariance, PTL

(* DbQueueStats count what is there. *)
THEOREM CountersCorrect == Spec => []CountersExact
<1>1. IInv => CountersExact BY DEF IInv, Pipeline
<1> QED BY <1>1, Invariance, PTL
-----------------------------------------------------------------------------
(* Rows the writer has not acknowledged since they were last fetched have been
   stored at most once per restart and per commit of unknown outcome. *)
UnackedCopies ==
  \A i \in Ids : i > lastSent \/ i \in InChannel \cup writerBuf =>
    stored[i] <= restarts + ambiguous

(* The strengthening of CopiesBounded: an unacknowledged row may be written once more. *)
Copies == CopiesBounded /\ UnackedCopies

(* The step of Copies for the steps that store nothing. *)
LEMMA CopiesUnchanged ==
  ASSUME Copies, UNCHANGED <<log, stored, restarts, ambiguous, lastSent>>,
         (InChannel \cup writerBuf)' \subseteq InChannel \cup writerBuf
  PROVE  Copies'
BY DEF Copies, CopiesBounded, UnackedCopies, Ids

(* There are no rows at the start. *)
LEMMA CopiesInit == Init => Copies
<1> SUFFICES ASSUME Init PROVE Copies OBVIOUS
<1>1. Ids = {} BY EmptySeq DEF Init, Ids
<1> QED BY <1>1 DEF Copies, CopiesBounded, UnackedCopies

(* A row is stored again only after a restart or an ambiguous commit. *)
LEMMA CopiesNext == Pipeline /\ Copies /\ [Next]_vars => Copies'
<1> SUFFICES ASSUME Pipeline, Copies, [Next]_vars PROVE Copies' OBVIOUS
<1>0. /\ TypeOK /\ Ids \subseteq Nat /\ stored \in [Ids -> Nat] /\ lastSent \in Nat
      /\ restarts \in Nat /\ ambiguous \in Nat
  BY DEF Pipeline, TypeOK, Ids
<1>1. CASE \/ \E kind \in Kinds : SendRow(kind)
           \/ SendShock
           \/ \E id \in openShocks : SendShockUpdate(id)
  <2>1. UNCHANGED <<log, stored, restarts, ambiguous, lastSent, writerCh, writerBuf>>
    BY <1>1 DEF SendRow, SendShock, SendShockUpdate, Enqueue, spool
  <2> QED BY <2>1, CopiesUnchanged DEF InChannel
<1>2. CASE RecvIngest \/ (\E i \in acks : RecvAck(i)) \/ (\E done \in SUBSET ackBuf : FlushAck(done))
  <2>1. UNCHANGED <<log, stored, restarts, ambiguous, lastSent, writerCh, writerBuf>>
    BY <1>2 DEF RecvIngest, RecvAck, FlushAck, bounds
  <2> QED BY <2>1, CopiesUnchanged DEF InChannel
<1>3. CASE FlushInsert
  <2>1. UNCHANGED <<writerCh, writerBuf, lastSent, restarts, ambiguous>>
    BY <1>3 DEF FlushInsert, bounds
  <2>2. \A i \in Ids' : (i \in Ids /\ stored'[i] = stored[i]) \/ stored'[i] = 0
    BY <1>0, <1>3, FlushInsertCopies DEF Ids
  <2>3. InChannel' = InChannel BY <2>1 DEF InChannel
  <2>4. CopiesBounded'
    <3> SUFFICES ASSUME NEW i \in Ids' PROVE stored'[i] <= (1 + restarts + ambiguous)'
      BY DEF CopiesBounded
    <3>1. CASE i \in Ids /\ stored'[i] = stored[i]
      BY <2>1, <3>1 DEF Copies, CopiesBounded
    <3>2. CASE stored'[i] = 0
      BY <1>0, <2>1, <3>2
    <3> QED BY <2>2, <3>1, <3>2
  <2>5. UnackedCopies'
    <3> SUFFICES ASSUME NEW i \in Ids', (i > lastSent \/ i \in InChannel \cup writerBuf)'
                 PROVE  stored'[i] <= (restarts + ambiguous)'
      BY DEF UnackedCopies
    <3>1. CASE i \in Ids /\ stored'[i] = stored[i]
      BY <2>1, <2>3, <3>1 DEF Copies, UnackedCopies
    <3>2. CASE stored'[i] = 0
      BY <1>0, <2>1, <3>2
    <3> QED BY <2>2, <3>1, <3>2
  <2> QED BY <2>4, <2>5 DEF Copies
<1>4. CASE PumpSend
  <2>1. PICK rows \in SUBSET live : \E bad \in SUBSET rows :
          \E good \in Ascending(rows \ bad) : \E deleted \in {{}, bad} :
            Handover(rows, bad, good, deleted)
    BY <1>4, PumpSendShape
  <2>2. PICK bad \in SUBSET rows : \E good \in Ascending(rows \ bad) :
          \E deleted \in {{}, bad} : Handover(rows, bad, good, deleted)
    BY <2>1
  <2>3. PICK good \in Ascending(rows \ bad) : \E deleted \in {{}, bad} :
          Handover(rows, bad, good, deleted)
    BY <2>2
  <2>4. /\ \A i \in rows : i > lastSent
        /\ writerCh' = writerCh \o good /\ lastSent' \in rows
    BY <2>3 DEF Handover
  <2>5. rows \subseteq Ids /\ IsFiniteSet(rows \ bad)
    <3>1. IsFiniteSet(live) BY <1>0, StagesFinite
    <3>2. rows \ bad \in SUBSET live OBVIOUS
    <3> QED BY <1>0, <3>1, <3>2, FS_Subset DEF TypeOK
  <2>6. good \in Seq(rows \ bad)
    <3>1. rows \ bad \subseteq Nat BY <1>0, <2>5
    <3> QED BY <2>5, <3>1, AscendingProperties
  <2>7. good \in Seq(Ids) /\ \A k \in 1..Len(good) : good[k] \in rows
    <3>1. rows \ bad \subseteq Ids BY <2>5
    <3> QED BY <2>6, <3>1, SeqMonotonic, ElementOfSeq
  <2>8. InChannel' = InChannel \cup RowsIn(good) /\ RowsIn(good) \subseteq rows
    BY <1>0, <2>4, <2>7, ChannelAppend DEF RowsIn
  <2>9. UNCHANGED <<log, stored, restarts, ambiguous, writerBuf>>
    BY <1>4 DEF PumpSend, bounds
  <2>10. \A i \in Ids : i > lastSent' => i > lastSent
    BY <1>0, <2>4, <2>5
  <2> QED BY <2>4, <2>8, <2>9, <2>10 DEF Copies, CopiesBounded, UnackedCopies, Ids
<1>5. CASE WriterRecv
  <2>1. writerCh # <<>> /\ writerCh' = Tail(writerCh)
        /\ writerBuf' \subseteq writerBuf \cup {Head(writerCh)}
    BY <1>5 DEF WriterRecv
  <2>2. Head(writerCh) \in InChannel /\ InChannel' \subseteq InChannel
    BY <2>1, ChannelHead
  <2>3. UNCHANGED <<log, stored, restarts, ambiguous, lastSent>>
    BY <1>5 DEF WriterRecv, spool, bounds
  <2> QED BY <2>1, <2>2, <2>3, CopiesUnchanged
<1>6. CASE WriterFlush
  <2>1. /\ stored' = [i \in Ids |-> IF i \in writerBuf THEN stored[i] + 1 ELSE stored[i]]
        /\ writerBuf' = {} /\ UNCHANGED <<log, lastSent, writerCh, restarts, ambiguous>>
    BY <1>6 DEF WriterFlush, StoreBatch, spool, bounds
  <2>2. \A i \in writerBuf : ~(i > lastSent) /\ i \notin InChannel
    <3>1. \A i \in writerBuf : i \in Nat /\ i <= lastSent /\ i \notin InChannel
      BY <1>0 DEF Pipeline, HandedOverOnce, TypeOK
    <3> QED BY <1>0, <3>1
  <2>3. CopiesBounded'
    BY <1>0, <2>1 DEF Copies, CopiesBounded, UnackedCopies, Ids
  <2>4. UnackedCopies'
    BY <1>0, <2>1, <2>2 DEF Copies, UnackedCopies, Ids, InChannel
  <2> QED BY <2>3, <2>4 DEF Copies
<1>7. CASE WriterFlushAmbiguous
  <2>1. /\ stored' = [i \in Ids |-> IF i \in writerBuf THEN stored[i] + 1 ELSE stored[i]]
        /\ ambiguous' = ambiguous + 1
        /\ UNCHANGED <<log, lastSent, writerCh, writerBuf, restarts>>
    BY <1>7 DEF WriterFlushAmbiguous, StoreBatch, spool
  <2> QED BY <1>0, <2>1 DEF Copies, CopiesBounded, UnackedCopies, Ids, InChannel
<1>8. CASE Restart
  <2>1. UNCHANGED <<log, stored, ambiguous>> /\ restarts' = restarts + 1
    BY <1>8 DEF Restart
  <2> QED BY <1>0, <2>1 DEF Copies, CopiesBounded, UnackedCopies, Ids
<1>9. CASE UNCHANGED vars
  BY <1>9, CopiesUnchanged DEF vars, InChannel
<1> QED BY <1>1, <1>2, <1>3, <1>4, <1>5, <1>6, <1>7, <1>8, <1>9 DEF Next, Spooler

(* Delivery is at least once, and only a restart or a commit whose outcome was
   not known makes the writer store a row again. *)
THEOREM FewCopies == Spec => []CopiesBounded
<1>1. Init => Pipeline /\ Copies
  BY PipelineInit, CopiesInit
<1>2. (Pipeline /\ Copies) /\ [Next]_vars => (Pipeline /\ Copies)'
  BY PipelineNext, CopiesNext
<1>3. Pipeline /\ Copies => CopiesBounded
  BY DEF Copies
<1> QED BY <1>1, <1>2, <1>3, PTL DEF Spec
-----------------------------------------------------------------------------
(* The pipeline takes only steps its promise allows. *)
LEMMA DeliveryStep ==
  Pipeline /\ Delivered /\ [Next]_vars => [Delivery!Next]_(Delivery!dvars)
<1> SUFFICES ASSUME Pipeline, Delivered, [Next]_vars
             PROVE  Delivery!Next \/ UNCHANGED Delivery!dvars
  OBVIOUS
<1> USE DEF Delivery!dvars
<1>0. TypeOK /\ IInv BY DEF Pipeline, IInv
<1>1. CASE \/ \E kind \in Kinds : SendRow(kind)
           \/ SendShock
           \/ \E id \in openShocks : SendShockUpdate(id)
  BY <1>1 DEF SendRow, SendShock, SendShockUpdate, Enqueue
<1>2. CASE RecvIngest \/ (\E i \in acks : RecvAck(i)) \/ WriterRecv \/ Restart \/ UNCHANGED vars
  BY <1>2 DEF RecvIngest, RecvAck, WriterRecv, Restart, vars
<1>3. CASE FlushInsert
  <2>1. /\ Len(log') > Len(log) /\ \A i \in 1..Len(log) : log'[i] = log[i]
        /\ stored' = [i \in 1..Len(log') |-> IF i \in 1..Len(log) THEN stored[i] ELSE 0]
        /\ live' = live \cup (Len(log) + 1)..Len(log')
    BY <1>3, FlushInsertCopies DEF Ids
  <2> QED BY <2>1 DEF Delivery!Next, Delivery!Accept
<1>4. CASE PumpSend
  <2>1. PICK rows \in SUBSET live : \E bad \in SUBSET rows :
          \E good \in Ascending(rows \ bad) : \E deleted \in {{}, bad} :
            Handover(rows, bad, good, deleted)
    BY <1>4, PumpSendShape
  <2>2. PICK bad \in SUBSET rows : \E good \in Ascending(rows \ bad) :
          \E deleted \in {{}, bad} : Handover(rows, bad, good, deleted)
    BY <2>1
  <2>3. PICK deleted \in {{}, bad} : live' = live \ deleted
    BY <2>2 DEF Handover
  <2>4. \A i \in bad : log[i].kind = "garbled"
    BY <2>2 DEF Handover
  <2>5. \A i \in deleted : log[i] \in Unstorable
    BY <1>0, <2>3, <2>4, UnstorableRows DEF TypeOK
  <2>6. UNCHANGED <<log, stored>>
    BY <1>4 DEF PumpSend
  <2>7. deleted \in SUBSET live OBVIOUS
  <2> QED BY <2>3, <2>5, <2>6, <2>7 DEF Delivery!Next, Delivery!Release
<1>5. CASE \E done \in SUBSET ackBuf : FlushAck(done)
  <2>1. PICK done \in SUBSET ackBuf : FlushAck(done) BY <1>5
  <2>2. live' = live \ done /\ UNCHANGED <<log, stored>>
    BY <2>1 DEF FlushAck
  <2>3. \A i \in done : stored[i] > 0 \/ log[i] \in Unstorable
    BY DEF Delivered, AckedStored
  <2>4. done \in SUBSET live BY DEF Pipeline, PipelineLive
  <2> QED BY <2>2, <2>3, <2>4 DEF Delivery!Next, Delivery!Release
<1>6. CASE WriterFlush \/ WriterFlushAmbiguous
  <2>1. StoreBatch /\ UNCHANGED <<log, live>>
    BY <1>6 DEF WriterFlush, WriterFlushAmbiguous
  <2>2. writerBuf \in SUBSET live BY DEF Pipeline, PipelineLive
  <2> QED BY <2>1, <2>2 DEF StoreBatch, Ids, Delivery!Next, Delivery!Deliver
<1> QED BY <1>1, <1>2, <1>3, <1>4, <1>5, <1>6 DEF Next, Spooler

(* db_queue.rs and db_writer.rs together implement at-least-once delivery: rows are
   retained until a transaction that wrote them has committed. *)
THEOREM Implements == Spec => DeliversDurably
<1>1. Init => Delivery!Init
  BY DEF Init, Delivery!Init
<1>2. IInv /\ [Next]_vars => [Delivery!Next]_(Delivery!dvars)
  BY DeliveryStep DEF IInv
<1> QED BY <1>1, <1>2, Invariance, PTL DEF Spec, DeliversDurably, Delivery!Spec
-----------------------------------------------------------------------------
(* The messages sent, in order: those on disk, in insert_buf and in the channel. *)
Messages == (log \o insertBuf) \o ingest

(* The insert of shock id is among the first n messages of s. *)
Inserted(s, n, id) == \E j \in 1..n : s[j].kind = "shock" /\ s[j].shock = id

(* Every update in s follows the insert of its shock. *)
Announcing(s) ==
  \A i \in 1..Len(s) : s[i].kind = "update" => Inserted(s, i - 1, s[i].shock)

(* The updates sent, and those still to come, follow the insert of their shock. *)
Announced ==
  /\ Announcing(Messages)
  /\ \A id \in openShocks : Inserted(Messages, Len(Messages), id)

(* The pump leaves no row behind that it can decode. *)
NoneSkipped ==
  /\ lastSent <= Len(log)
  /\ \A i \in live : i <= lastSent =>
       i \in InChannel \cup writerBuf \cup acks \cup ackBuf \/ log[i].kind = "garbled"

(* What UpdateAfterInsert rests on, besides IInv. *)
Ordered == Announced /\ NoneSkipped /\ UpdateAfterInsert

(* A message may be sent next unless it is an update whose shock was not sent. *)
LEMMA AnnouncingAppend ==
  ASSUME NEW s \in Seq(Message), NEW m \in Message, Announcing(s),
         m.kind = "update" => Inserted(s, Len(s), m.shock)
  PROVE  /\ Announcing(Append(s, m))
         /\ \A id : Inserted(s, Len(s), id) => Inserted(Append(s, m), Len(Append(s, m)), id)
         /\ m.kind = "shock" => Inserted(Append(s, m), Len(Append(s, m)), m.shock)
<1> DEFINE t == Append(s, m)
<1>1. Len(s) \in Nat BY LenProperties
<1>2. /\ t \in Seq(Message) /\ Len(t) = Len(s) + 1
      /\ \A i \in 1..Len(s) : t[i] = s[i]
      /\ t[Len(s) + 1] = m
  BY AppendProperties
<1> HIDE DEF t
<1>3. \A n \in 0..Len(s) : \A id : Inserted(s, n, id) => Inserted(t, n, id)
  BY <1>1, <1>2 DEF Inserted
<1>4. \A id : Inserted(t, Len(s), id) => Inserted(t, Len(t), id)
  BY <1>1, <1>2 DEF Inserted
<1>5. m.kind = "shock" => Inserted(t, Len(t), m.shock)
  BY <1>1, <1>2 DEF Inserted
<1>6. Announcing(t)
  <2> SUFFICES ASSUME NEW i \in 1..Len(t), t[i].kind = "update"
               PROVE  Inserted(t, i - 1, t[i].shock)
    BY DEF Announcing
  <2>1. CASE i \in 1..Len(s)
    <3>1. t[i] = s[i] /\ i - 1 \in 0..Len(s) BY <1>1, <1>2, <2>1
    <3>2. Inserted(s, i - 1, s[i].shock) BY <2>1, <3>1 DEF Announcing
    <3> QED BY <1>3, <3>1, <3>2
  <2>2. CASE i = Len(s) + 1
    <3>1. t[i] = m /\ i - 1 = Len(s) /\ Len(s) \in 0..Len(s) BY <1>1, <1>2, <2>2
    <3> QED BY <1>3, <3>1
  <2> QED BY <1>1, <1>2, <2>1, <2>2
<1>7. \A id : Inserted(s, Len(s), id) => Inserted(t, Len(t), id)
  <2>1. Len(s) \in 0..Len(s) BY <1>1
  <2> QED BY <1>3, <1>4, <2>1
<1> QED BY <1>5, <1>6, <1>7 DEF t

(* The messages that survive a restart are the first ones sent. *)
LEMMA AnnouncingPrefix ==
  ASSUME NEW s \in Seq(Message), NEW t \in Seq(Message), Announcing(s \o t)
  PROVE  Announcing(s)
<1> DEFINE u == s \o t
<1>1. Len(s) \in Nat /\ Len(t) \in Nat BY LenProperties
<1>2. Len(u) = Len(s) + Len(t) /\ \A i \in 1..Len(s) : u[i] = s[i]
  <2>1. \A i \in 1..Len(s) : i \in 1..Len(s) + Len(t) /\ i <= Len(s) BY <1>1
  <2> QED BY <2>1, ConcatProperties
<1>3. Announcing(u) OBVIOUS
<1> HIDE DEF u
<1> SUFFICES ASSUME NEW i \in 1..Len(s), s[i].kind = "update"
             PROVE  Inserted(s, i - 1, s[i].shock)
  BY DEF Announcing
<1>4. i \in 1..Len(u) /\ u[i] = s[i] BY <1>1, <1>2
<1>5. PICK j \in 1..(i - 1) : u[j].kind = "shock" /\ u[j].shock = s[i].shock
  BY <1>3, <1>4 DEF Announcing, Inserted
<1>6. j \in 1..Len(s) BY <1>1
<1> QED BY <1>2, <1>5, <1>6 DEF Inserted

(* The messages sent are a sequence of messages, that starts with the rows. *)
LEMMA MessagesTyped ==
  ASSUME TypeOK
  PROVE  /\ log \in Seq(Message) /\ insertBuf \in Seq(Message) /\ ingest \in Seq(Message)
         /\ log \o insertBuf \in Seq(Message) /\ Messages \in Seq(Message)
<1>1. log \in Seq(Message) /\ insertBuf \in Seq(Message) /\ ingest \in Seq(Message)
  BY DEF TypeOK
<1>2. log \o insertBuf \in Seq(Message)
  BY <1>1, ConcatProperties
<1> QED BY <1>1, <1>2, ConcatProperties DEF Messages

(* The updates on disk follow the inserts of their shocks. *)
LEMMA AnnouncedOnDisk ==
  ASSUME TypeOK, Announced
  PROVE  Announcing(log)
BY MessagesTyped, AnnouncingPrefix DEF Announced, Messages

(* No message has been sent at the start. *)
LEMMA AnnouncedInit == Init => Announced
<1> SUFFICES ASSUME Init PROVE Announced OBVIOUS
<1>1. Messages = <<>>
  BY EmptySeq, ConcatEmptySeq DEF Init, Messages
<1> QED BY <1>1 DEF Init, Announced, Announcing

(* A message sent is the last one. *)
LEMMA EnqueueAppends ==
  ASSUME TypeOK, NEW m \in Message, ingest' = Append(ingest, m), UNCHANGED <<log, insertBuf>>
  PROVE  Messages' = Append(Messages, m)
<1>1. log \o insertBuf \in Seq(Message) /\ ingest \in Seq(Message) /\ Messages \in Seq(Message)
  BY MessagesTyped
<1>2. <<m>> \in Seq(Message) OBVIOUS
<1>3. ((log \o insertBuf) \o ingest) \o <<m>> = (log \o insertBuf) \o (ingest \o <<m>>)
  BY <1>1, <1>2, ConcatAssociative
<1>4. Append(ingest, m) = ingest \o <<m>> /\ Append(Messages, m) = Messages \o <<m>>
  BY <1>1, AppendIsConcat
<1> QED BY <1>3, <1>4 DEF Messages

(* A message received stays where it is in the order sent. *)
LEMMA RecvIngestOrder == TypeOK /\ RecvIngest => Messages' = Messages
<1> SUFFICES ASSUME TypeOK, RecvIngest PROVE Messages' = Messages OBVIOUS
<1> DEFINE m == Head(ingest)
           rest == Tail(ingest)
<1>1. /\ log \in Seq(Message) /\ insertBuf \in Seq(Message) /\ ingest \in Seq(Message)
      /\ log \o insertBuf \in Seq(Message) /\ ingest # <<>>
  BY MessagesTyped DEF RecvIngest
<1>2. m \in Message /\ rest \in Seq(Message)
  BY <1>1, HeadTailProperties
<1>3. <<m>> \in Seq(Message) BY <1>2
<1>4. ingest = <<m>> \o rest
  <2>1. /\ Len(ingest) \in Nat \ {0} /\ Len(rest) = Len(ingest) - 1 /\ m = ingest[1]
        /\ \A i \in 1..Len(rest) : rest[i] = ingest[i + 1]
    BY <1>1, HeadTailProperties, EmptySeq
  <2>2. Len(<<m>>) = 1 /\ <<m>>[1] = m OBVIOUS
  <2>3. /\ <<m>> \o rest \in Seq(Message) /\ Len(<<m>> \o rest) = Len(ingest)
        /\ \A i \in 1..1 + Len(rest) :
             (<<m>> \o rest)[i] = IF i <= 1 THEN <<m>>[i] ELSE rest[i - 1]
    <3>1. /\ <<m>> \o rest \in Seq(Message) /\ Len(<<m>> \o rest) = Len(<<m>>) + Len(rest)
          /\ \A i \in 1..Len(<<m>>) + Len(rest) :
               (<<m>> \o rest)[i] = IF i <= Len(<<m>>) THEN <<m>>[i] ELSE rest[i - Len(<<m>>)]
      BY <1>2, <1>3, ConcatProperties
    <3> HIDE DEF m, rest
    <3> QED BY <2>1, <2>2, <3>1
  <2> HIDE DEF m, rest
  <2>4. \A i \in 1..Len(ingest) : ingest[i] = (<<m>> \o rest)[i]
    <3> SUFFICES ASSUME NEW i \in 1..Len(ingest) PROVE ingest[i] = (<<m>> \o rest)[i]
      OBVIOUS
    <3>1. i \in 1..1 + Len(rest) BY <2>1
    <3>2. CASE i = 1 BY <2>1, <2>2, <2>3, <3>1, <3>2
    <3>3. CASE i # 1
      <4>1. i - 1 \in 1..Len(rest) /\ ~(i <= 1) /\ (i - 1) + 1 = i BY <2>1, <3>3
      <4> QED BY <2>1, <2>3, <3>1, <4>1
    <3> QED BY <3>2, <3>3
  <2> QED BY <1>1, <2>3, <2>4, SeqEqual
<1>5. insertBuf' = insertBuf \o <<m>> /\ ingest' = rest /\ log' = log
  BY <1>1, <1>2, AppendIsConcat DEF RecvIngest
<1> HIDE DEF m, rest
<1>6. log \o (insertBuf \o <<m>>) = (log \o insertBuf) \o <<m>>
  BY <1>1, <1>3, ConcatAssociative
<1>7. ((log \o insertBuf) \o <<m>>) \o rest = (log \o insertBuf) \o (<<m>> \o rest)
  BY <1>1, <1>2, <1>3, ConcatAssociative
<1> QED BY <1>4, <1>5, <1>6, <1>7 DEF Messages

(* A flush leaves the messages in the order they were sent. *)
LEMMA FlushInsertOrder == TypeOK /\ FlushInsert => Messages' = Messages
<1> SUFFICES ASSUME TypeOK, FlushInsert PROVE Messages' = Messages OBVIOUS
<1>1. (log \o insertBuf) \o <<>> = log \o insertBuf
  BY MessagesTyped, ConcatEmptySeq
<1> QED BY <1>1 DEF FlushInsert, Messages

(* After a restart the messages are the rows. *)
LEMMA RestartOrder ==
  ASSUME TypeOK, Announced, Restart
  PROVE  Announced'
<1>1. Messages' = log
  <2>1. log \o <<>> = log BY MessagesTyped, ConcatEmptySeq
  <2> QED BY <2>1 DEF Restart, Messages
<1> QED BY <1>1, AnnouncedOnDisk DEF Announced, Restart

(* An update is sent only for a shock whose insert was sent before. *)
LEMMA AnnouncedNext == TypeOK /\ Announced /\ [Next]_vars => Announced'
<1> SUFFICES ASSUME TypeOK, Announced, [Next]_vars PROVE Announced' OBVIOUS
<1>0. Messages \in Seq(Message) /\ Announcing(Messages)
  BY MessagesTyped DEF Announced
<1>1. CASE \E kind \in Kinds : SendRow(kind)
  <2>1. PICK kind \in Kinds : SendRow(kind) BY <1>1
  <2> DEFINE m == [kind |-> kind, shock |-> 0]
  <2>2. m \in Message /\ m.kind # "update" BY <2>1 DEF SendRow, Message
  <2>3. ingest' = Append(ingest, m) /\ UNCHANGED <<log, insertBuf, openShocks>>
    BY <2>1 DEF SendRow, Enqueue, spool, shocks
  <2> HIDE DEF m
  <2>4. Messages' = Append(Messages, m) BY <2>2, <2>3, EnqueueAppends
  <2> QED BY <1>0, <2>2, <2>3, <2>4, AnnouncingAppend DEF Announced
<1>2. CASE SendShock
  <2> DEFINE m == [kind |-> "shock", shock |-> shockCounter]
  <2>2. m \in Message /\ m.kind = "shock" /\ m.shock = shockCounter
    BY <1>2 DEF SendShock, Message, TypeOK
  <2>3. /\ ingest' = Append(ingest, m) /\ UNCHANGED <<log, insertBuf>>
        /\ openShocks' = openShocks \cup {shockCounter}
    BY <1>2 DEF SendShock, Enqueue, spool
  <2> HIDE DEF m
  <2>4. Messages' = Append(Messages, m) BY <2>2, <2>3, EnqueueAppends
  <2> QED BY <1>0, <2>2, <2>3, <2>4, AnnouncingAppend DEF Announced
<1>3. CASE \E id \in openShocks : SendShockUpdate(id)
  <2>1. PICK id \in openShocks : SendShockUpdate(id) BY <1>3
  <2> DEFINE m == [kind |-> "update", shock |-> id]
  <2>2. m \in Message /\ m.kind = "update" /\ m.shock = id
    BY <2>1 DEF SendShockUpdate, Message, TypeOK
  <2>3. /\ ingest' = Append(ingest, m) /\ UNCHANGED <<log, insertBuf>>
        /\ openShocks' \subseteq openShocks
    BY <2>1 DEF SendShockUpdate, Enqueue, spool
  <2> HIDE DEF m
  <2>4. Messages' = Append(Messages, m) BY <2>2, <2>3, EnqueueAppends
  <2>5. Inserted(Messages, Len(Messages), m.shock) BY <2>2 DEF Announced
  <2> QED BY <1>0, <2>2, <2>3, <2>4, <2>5, AnnouncingAppend DEF Announced
<1>4. CASE RecvIngest
  BY <1>4, RecvIngestOrder DEF Announced, RecvIngest, shocks
<1>5. CASE FlushInsert
  BY <1>5, FlushInsertOrder DEF Announced, FlushInsert, shocks
<1>6. CASE Restart
  BY <1>6, RestartOrder
<1>7. CASE \/ PumpSend \/ WriterRecv \/ WriterFlush \/ WriterFlushAmbiguous \/ UNCHANGED vars
           \/ (\E i \in acks : RecvAck(i)) \/ (\E done \in SUBSET ackBuf : FlushAck(done))
  <2>1. UNCHANGED <<log, insertBuf, ingest, openShocks>>
    BY <1>7 DEF PumpSend, WriterRecv, WriterFlush, WriterFlushAmbiguous, RecvAck, FlushAck,
                spool, shocks, vars
  <2>2. Messages' = Messages BY <2>1 DEF Messages
  <2> QED BY <2>1, <2>2 DEF Announced
<1> QED BY <1>1, <1>2, <1>3, <1>4, <1>5, <1>6, <1>7 DEF Next, Spooler
-----------------------------------------------------------------------------
(* The step of NoneSkipped for the steps that only move rows along. *)
LEMMA NoneSkippedMoved ==
  ASSUME NoneSkipped, UNCHANGED <<log, lastSent>>, live' \subseteq live,
         \A i \in live' : i \in InChannel \cup writerBuf \cup acks \cup ackBuf =>
                            i \in (InChannel \cup writerBuf \cup acks \cup ackBuf)'
  PROVE  NoneSkipped'
BY DEF NoneSkipped

(* There are no rows at the start. *)
LEMMA NoneSkippedInit == Init => NoneSkipped
BY EmptySeq DEF Init, NoneSkipped

(* A pump takes all it can decode up to its cursor. *)
LEMMA PumpSkipsNone == Pipeline /\ NoneSkipped /\ PumpSend => NoneSkipped'
<1> SUFFICES ASSUME Pipeline, NoneSkipped, PumpSend PROVE NoneSkipped' OBVIOUS
<1>0. TypeOK /\ live \subseteq Ids /\ Ids \subseteq Nat /\ lastSent \in Nat /\ Len(log) \in Nat
  BY StagesFinite DEF Pipeline, TypeOK, Ids
<1>1. PICK rows \in SUBSET live : \E bad \in SUBSET rows :
        \E good \in Ascending(rows \ bad) : \E deleted \in {{}, bad} :
          Handover(rows, bad, good, deleted)
  BY PumpSendShape
<1>2. PICK bad \in SUBSET rows : \E good \in Ascending(rows \ bad) :
        \E deleted \in {{}, bad} : Handover(rows, bad, good, deleted)
  BY <1>1
<1>3. PICK good \in Ascending(rows \ bad) : \E deleted \in {{}, bad} :
        Handover(rows, bad, good, deleted)
  BY <1>2
<1>4. /\ \A i \in bad : log[i].kind = "garbled"
      /\ writerCh' = writerCh \o good /\ live' \subseteq live /\ lastSent' \in rows
      /\ \A i \in live : lastSent < i /\ i <= lastSent' => i \in rows
      /\ \A i \in rows \ bad : \E k \in 1..Len(good) : good[k] = i
  BY <1>3 DEF Handover
<1>5. good \in Seq(Ids)
  <2>1. IsFiniteSet(live) /\ rows \ bad \in SUBSET live BY <1>0, StagesFinite
  <2>2. IsFiniteSet(rows \ bad) /\ rows \ bad \subseteq Nat /\ rows \ bad \subseteq Ids
    BY <1>0, <2>1, FS_Subset
  <2>3. good \in Seq(rows \ bad) BY <2>2, AscendingProperties
  <2> QED BY <2>2, <2>3, SeqMonotonic
<1>6. InChannel' = InChannel \cup RowsIn(good)
  BY <1>0, <1>4, <1>5, ChannelAppend
<1>7. rows \ bad \subseteq RowsIn(good)
  BY <1>4 DEF RowsIn
<1>8. UNCHANGED <<log, writerBuf, acks, ackBuf>>
  BY DEF PumpSend
<1>9. ASSUME NEW i \in live', i <= lastSent'
      PROVE  i \in (InChannel \cup writerBuf \cup acks \cup ackBuf)' \/ log'[i].kind = "garbled"
  <2>0. i \in live /\ i \in Nat BY <1>0, <1>4
  <2>1. CASE i <= lastSent
    BY <1>6, <1>8, <2>0, <2>1 DEF NoneSkipped
  <2>2. CASE lastSent < i
    <3>1. i \in rows BY <1>4, <1>9, <2>0, <2>2
    <3> QED BY <1>4, <1>6, <1>7, <1>8, <3>1
  <2> QED BY <1>0, <2>0, <2>1, <2>2
<1>10. lastSent' <= Len(log')
  BY <1>0, <1>4, <1>8 DEF Ids
<1> QED BY <1>9, <1>10 DEF NoneSkipped

(* Rows behind the cursor are in a stage of the pipeline, or do not decode. *)
LEMMA NoneSkippedNext == Pipeline /\ NoneSkipped /\ [Next]_vars => NoneSkipped'
<1> SUFFICES ASSUME Pipeline, NoneSkipped, [Next]_vars PROVE NoneSkipped' OBVIOUS
<1>0. TypeOK /\ live \subseteq Ids /\ Ids \subseteq Nat /\ lastSent \in Nat /\ Len(log) \in Nat
  BY StagesFinite DEF Pipeline, TypeOK, Ids
<1>1. CASE \/ \E kind \in Kinds : SendRow(kind)
           \/ SendShock
           \/ \E id \in openShocks : SendShockUpdate(id)
           \/ RecvIngest \/ UNCHANGED vars
  <2>1. UNCHANGED <<log, live, lastSent, writerCh, writerBuf, acks, ackBuf>>
    BY <1>1 DEF SendRow, SendShock, SendShockUpdate, Enqueue, RecvIngest, spool, vars
  <2> QED BY <2>1, NoneSkippedMoved DEF InChannel
<1>2. CASE \E i \in acks : RecvAck(i)
  BY <1>2, NoneSkippedMoved DEF RecvAck, InChannel
<1>3. CASE \E done \in SUBSET ackBuf : FlushAck(done)
  BY <1>3, NoneSkippedMoved DEF FlushAck, InChannel
<1>4. CASE FlushInsert
  <2>1. /\ Len(log') \in Nat /\ Len(log') > Len(log)
        /\ \A i \in Ids : log'[i] = log[i]
        /\ live' = live \cup (Len(log) + 1)..Len(log')
    BY <1>4, FlushInsertCopies
  <2>2. UNCHANGED <<lastSent, writerCh, writerBuf, acks, ackBuf>>
    BY <1>4 DEF FlushInsert
  <2>3. lastSent' <= Len(log')
    BY <1>0, <2>1, <2>2 DEF NoneSkipped
  <2>4. \A i \in live' : i <= lastSent => i \in live /\ log'[i] = log[i]
    BY <1>0, <2>1 DEF NoneSkipped
  <2> QED BY <2>2, <2>3, <2>4 DEF NoneSkipped, InChannel
<1>5. CASE PumpSend
  BY <1>5, PumpSkipsNone
<1>6. CASE WriterRecv
  <2> DEFINE h == Head(writerCh)
  <2>1. writerCh # <<>> /\ writerCh' = Tail(writerCh) BY <1>6 DEF WriterRecv
  <2>2. writerCh \in Seq(Ids) /\ h = writerCh[1] /\ Len(writerCh) \in Nat \ {0}
        /\ Len(writerCh') = Len(writerCh) - 1
        /\ \A k \in 1..Len(writerCh') : writerCh'[k] = writerCh[k + 1]
    BY <1>0, <2>1, HeadTailProperties, EmptySeq DEF TypeOK
  <2> HIDE DEF h
  <2>3. InChannel \subseteq InChannel' \cup {h}
    <3> SUFFICES ASSUME NEW k \in 1..Len(writerCh)
                 PROVE  writerCh[k] \in InChannel' \cup {h}
      BY DEF InChannel
    <3>1. CASE k = 1 BY <2>2, <3>1
    <3>2. CASE k # 1
      <4>1. k - 1 \in 1..Len(writerCh') /\ (k - 1) + 1 = k BY <2>2, <3>2
      <4>2. writerCh'[k - 1] = writerCh[k] BY <2>2, <4>1
      <4> QED BY <4>1, <4>2 DEF InChannel
    <3> QED BY <3>1, <3>2
  <2>4. h \in writerBuf' \cup acks' /\ writerBuf \subseteq writerBuf' /\ acks \subseteq acks'
    BY <1>6 DEF WriterRecv, h
  <2>5. UNCHANGED <<log, live, lastSent, ackBuf>> BY <1>6 DEF WriterRecv, spool
  <2> QED BY <2>3, <2>4, <2>5, NoneSkippedMoved
<1>7. CASE WriterFlush \/ WriterFlushAmbiguous
  <2>1. UNCHANGED <<log, live, lastSent, writerCh, ackBuf>>
        /\ writerBuf \cup acks \subseteq writerBuf' \cup acks'
    BY <1>7 DEF WriterFlush, WriterFlushAmbiguous, spool
  <2> QED BY <2>1, NoneSkippedMoved DEF InChannel
<1>8. CASE Restart
  <2>1. UNCHANGED <<log, live>> /\ lastSent' = 0 BY <1>8 DEF Restart
  <2>2. \A i \in live : ~(i <= 0) BY <1>0 DEF Ids
  <2> QED BY <1>0, <2>1, <2>2 DEF NoneSkipped
<1> QED BY <1>1, <1>2, <1>3, <1>4, <1>5, <1>6, <1>7, <1>8 DEF Next, Spooler
-----------------------------------------------------------------------------
(* Row j is the insert nearest before i of the shock of row i. *)
LatestInsert(s, j, i) ==
  /\ s[j].kind = "shock" /\ s[j].shock = s[i].shock
  /\ \A k \in (j + 1)..(i - 1) : ~(s[k].kind = "shock" /\ s[k].shock = s[i].shock)

(* An update on disk has a nearest insert before it. *)
LEMMA LatestInsertExists ==
  ASSUME NEW i \in Nat, Inserted(log, i - 1, log[i].shock)
  PROVE  \E j \in 1..(i - 1) : LatestInsert(log, j, i)
<1> DEFINE T == {j \in 1..(i - 1) : log[j].kind = "shock" /\ log[j].shock = log[i].shock}
<1>1. T # {} /\ T \subseteq Nat /\ \A j \in T : j <= i
  BY DEF Inserted
<1>2. PICK j \in T : \A k \in T : k <= j
  <2> HIDE DEF T
  <2> QED BY <1>1, LargestNat
<1>3. \A k \in (j + 1)..(i - 1) : k \in 1..(i - 1) /\ ~(k <= j)
  OBVIOUS
<1> QED BY <1>2, <1>3 DEF LatestInsert

(* When the writer holds a row, the rows of shocks before it have been stored or
   are in the same batch. *)
LEMMA EarlierShocksStored ==
  ASSUME IInv, NoneSkipped, NEW i \in writerBuf, NEW j \in Ids, j < i, log[j].kind = "shock"
  PROVE  stored[j] > 0 \/ j \in writerBuf
<1>0. TypeOK /\ writerBuf \subseteq Ids /\ Ids \subseteq Nat /\ lastSent \in Nat
  BY DEF IInv, Pipeline, TypeOK, Ids
<1>1. log[j] \notin Unstorable
  BY <1>0, UnstorableRows
<1>2. CASE j \notin live
  BY <1>1, <1>2 DEF IInv, Delivered, QueuedUntilStored
<1>3. CASE j \in live
  <2>1. i <= lastSent /\ i \in Nat /\ j \in Nat
    BY <1>0 DEF IInv, Pipeline, HandedOverOnce
  <2>2. j <= lastSent BY <1>0, <2>1
  <2>3. j \in InChannel \cup writerBuf \cup acks \cup ackBuf
    BY <1>3, <2>2 DEF NoneSkipped
  <2>4. j \notin InChannel
    <3>1. j \in InChannel => i < j BY DEF IInv, Pipeline, HandedOverOnce
    <3> QED BY <2>1, <3>1
  <2>5. j \in acks \cup ackBuf => stored[j] > 0
    BY <1>1 DEF IInv, Delivered, AckedStored
  <2> QED BY <2>3, <2>4, <2>5
<1> QED BY <1>2, <1>3

(* An update is stored with or after the insert it belongs to. *)
LEMMA UpdateAfterInsertNext == IInv /\ Ordered /\ [Next]_vars => UpdateAfterInsert'
<1> SUFFICES ASSUME IInv, Ordered, [Next]_vars PROVE UpdateAfterInsert' OBVIOUS
<1>0. TypeOK /\ Ids \subseteq Nat /\ Len(log) \in Nat /\ stored \in [Ids -> Nat]
  BY StagesFinite DEF IInv, Pipeline, TypeOK, Ids
<1>1. ASSUME NEW i \in Ids, log[i].kind = "update", stored[i] > 0
      PROVE  \E j \in 1..(i - 1) : LatestInsert(log, j, i) /\ stored[j] > 0
  BY <1>1 DEF Ordered, UpdateAfterInsert, LatestInsert
<1>2. CASE WriterFlush \/ WriterFlushAmbiguous
  <2>1. /\ stored' \in [Ids -> Nat]
        /\ \A i \in Ids : stored'[i] >= stored[i]
        /\ \A i \in writerBuf : stored'[i] > 0
        /\ \A i \in Ids \ writerBuf : stored'[i] = stored[i]
    BY <1>0, <1>2, StoreBatchTyped DEF WriterFlush, WriterFlushAmbiguous, StoreBatch
  <2>2. \A i \in Ids : stored[i] > 0 => stored'[i] > 0
    BY <1>0, <2>1
  <2>3. log' = log BY <1>2 DEF WriterFlush, WriterFlushAmbiguous
  <2>4. ASSUME NEW i \in Ids, log[i].kind = "update", stored'[i] > 0
        PROVE  \E j \in 1..(i - 1) : LatestInsert(log, j, i) /\ stored'[j] > 0
    <3>0. \A j \in 1..(i - 1) : j \in Ids /\ j < i BY <1>0 DEF Ids
    <3>1. CASE i \in writerBuf
      <4>1. Announcing(log) BY <1>0, AnnouncedOnDisk DEF Ordered
      <4>2. Inserted(log, i - 1, log[i].shock) BY <2>4, <4>1 DEF Announcing, Ids
      <4>3. PICK j \in 1..(i - 1) : LatestInsert(log, j, i)
        BY <1>0, <4>2, LatestInsertExists
      <4>4. stored[j] > 0 \/ j \in writerBuf
        BY <3>0, <3>1, <4>3, EarlierShocksStored DEF Ordered, LatestInsert
      <4> QED BY <2>1, <2>2, <3>0, <4>3, <4>4
    <3>2. CASE i \notin writerBuf
      <4>1. stored[i] > 0 BY <2>1, <2>4, <3>2
      <4>2. PICK j \in 1..(i - 1) : LatestInsert(log, j, i) /\ stored[j] > 0
        BY <1>1, <2>4, <4>1
      <4> QED BY <2>2, <3>0, <4>2
    <3> QED BY <3>1, <3>2
  <2> QED BY <2>3, <2>4 DEF UpdateAfterInsert, LatestInsert, Ids
<1>3. CASE FlushInsert
  <2>1. /\ Len(log') \in Nat /\ Len(log') > Len(log)
        /\ \A i \in Ids : log'[i] = log[i]
        /\ stored' = [i \in 1..Len(log') |-> IF i \in 1..Len(log) THEN stored[i] ELSE 0]
    BY <1>3, FlushInsertCopies DEF IInv
  <2>2. \A i \in Ids : i \in 1..Len(log') /\ stored'[i] = stored[i]
    BY <1>0, <2>1 DEF Ids
  <2>3. ASSUME NEW i \in Ids', log'[i].kind = "update", stored'[i] > 0
        PROVE  \E j \in 1..(i - 1) : LatestInsert(log', j, i) /\ stored'[j] > 0
    <3>1. i \in Ids
      <4>1. i \notin Ids => stored'[i] = 0 BY <2>1 DEF Ids
      <4> QED BY <2>3, <4>1
    <3>2. log'[i] = log[i] /\ stored'[i] = stored[i] BY <2>1, <2>2, <3>1
    <3>3. PICK j \in 1..(i - 1) : LatestInsert(log, j, i) /\ stored[j] > 0
      BY <1>1, <2>3, <3>1, <3>2
    <3>4. \A k \in 1..(i - 1) : k \in Ids BY <1>0, <3>1 DEF Ids
    <3>5. \A k \in (j + 1)..(i - 1) : k \in Ids BY <3>4
    <3>6. LatestInsert(log', j, i)
      BY <2>1, <3>2, <3>3, <3>4, <3>5 DEF LatestInsert
    <3> QED BY <2>2, <3>3, <3>4, <3>6
  <2> QED BY <2>3 DEF UpdateAfterInsert, LatestInsert
<1>4. CASE \/ \E kind \in Kinds : SendRow(kind)
           \/ SendShock
           \/ \E id \in openShocks : SendShockUpdate(id)
           \/ RecvIngest \/ PumpSend \/ WriterRecv \/ Restart \/ UNCHANGED vars
           \/ (\E i \in acks : RecvAck(i)) \/ (\E done \in SUBSET ackBuf : FlushAck(done))
  <2>1. UNCHANGED <<log, stored>>
    BY <1>4 DEF SendRow, SendShock, SendShockUpdate, Enqueue, RecvIngest, PumpSend,
                WriterRecv, Restart, RecvAck, FlushAck, vars
  <2> QED BY <2>1 DEF Ordered, UpdateAfterInsert, Ids
<1> QED BY <1>2, <1>3, <1>4 DEF Next, Spooler

(* flush_buffers never runs the UPDATE that finalises a shock before the INSERT of
   that shock has been committed, or in the same transaction. *)
THEOREM UpdatesInOrder == Spec => []UpdateAfterInsert
<1>1. Init => IInv /\ Ordered
  <2>1. Init => UpdateAfterInsert
    BY EmptySeq DEF Init, UpdateAfterInsert, Ids
  <2> QED BY <2>1, PipelineInit, DeliveredInit, AnnouncedInit, NoneSkippedInit DEF IInv, Ordered
<1>2. (IInv /\ Ordered) /\ [Next]_vars => (IInv /\ Ordered)'
  <2>1. IInv => TypeOK /\ Pipeline BY DEF IInv, Pipeline
  <2> QED BY <2>1, PipelineNext, DeliveredNext, AnnouncedNext, NoneSkippedNext,
             UpdateAfterInsertNext DEF IInv, Ordered
<1>3. IInv /\ Ordered => UpdateAfterInsert
  BY DEF Ordered
<1> QED BY <1>1, <1>2, <1>3, PTL DEF Spec
==============================================================================
