------------------------------- MODULE DbQueue -------------------------------
(***************************************************************************)
(* The durable path of every database row (db_queue.rs, db_writer.rs).     *)
(*                                                                         *)
(* Producers call try_send_db.  The spooler task moves messages from the   *)
(* ingest channel through an in-memory buffer into the SQLite table        *)
(* db_queue, pumps its rows in id order into a bounded channel, and        *)
(* deletes a row once the writer task has acknowledged it.  The writer     *)
(* stores everything it holds in one Postgres transaction, all or nothing, *)
(* and keeps the whole batch for the next flush when the transaction       *)
(* fails.  A restart loses everything but the two databases.               *)
(*                                                                         *)
(* Steps of the code that fail and put everything back where it was (a     *)
(* SQLite insert, select or delete error, a Postgres begin or statement    *)
(* error) are stuttering steps here: they need no action.                  *)
(***************************************************************************)
EXTENDS Naturals, Sequences, FiniteSets

CONSTANTS
  Kinds,         \* the kinds of message the producers send
  WriterCap,     \* capacity of the channel to the writer
  FetchBatch,    \* most rows one pump fetches
  MaxMsgs,       \* bound: messages sent over the whole behaviour
  MaxRestarts,   \* bound: restarts of the process
  MaxAmbiguous   \* bound: commits that took effect but reported an error

(***************************************************************************)
(* "bar"     a 1s token bar: plain INSERT under a primary key, deduplicated *)
(*           inside one batch; the key is unique to the message            *)
(* "shock"   a shock event: plain INSERT under its shock_id                *)
(* "update"  the UPDATE that finalises the shock with that shock_id        *)
(* "upsert"  INSERT ... ON CONFLICT DO UPDATE                              *)
(* "append"  INSERT under a generated id                                   *)
(* "skip"    acknowledged but not stored (alpha_capture_enabled is off)    *)
(* "garbled" its stored payload does not decode                            *)
(***************************************************************************)
AllKinds == {"bar", "shock", "update", "upsert", "append", "skip", "garbled"}

ASSUME KindsAssumption == Kinds \subseteq AllKinds
ASSUME CapAssumption == WriterCap \in Nat \ {0} /\ FetchBatch \in Nat \ {0}
ASSUME BoundAssumption == MaxMsgs \in Nat /\ MaxRestarts \in Nat /\ MaxAmbiguous \in Nat

VARIABLES
  ingest, insertBuf,        \* messages not yet on disk: the channel, insert_buf
  log, live,                \* the SQLite table: every row ever, the rows not deleted
  lastSent, pendingSend,    \* the pump's cursor last_sent_id and its retry deque
  writerCh, writerBuf,      \* the bounded channel, the writer's table buffers
  acks, ackBuf,             \* acknowledged ids in the channel, in ack_buf
  stored,                   \* stored[id]: committed transactions that wrote id
  inMem, diskPending, inFlight,   \* DbQueueStats
  shockCounter, openShocks, \* SHOCK_COUNTER, shocks awaiting their final update
  sent, restarts, ambiguous \* counters of the bounded events

spool == <<insertBuf, lastSent, pendingSend, ackBuf>>
stats == <<inMem, diskPending, inFlight>>
shocks == <<shockCounter, openShocks>>
bounds == <<sent, restarts, ambiguous>>
vars == <<ingest, insertBuf, log, live, lastSent, pendingSend, writerCh, writerBuf,
          acks, ackBuf, stored, inMem, diskPending, inFlight, shockCounter,
          openShocks, sent, restarts, ambiguous>>

Message == [kind : Kinds, shock : Nat]
Ids == 1..Len(log)

Smaller(a, b) == IF a <= b THEN a ELSE b

(* Faulty: the rows of one fetch in any order (no ORDER BY). *)
AnyOrder(S) ==
  {s \in [1..Cardinality(S) -> S] : \A a, b \in 1..Cardinality(S) : a # b => s[a] # s[b]}

(* The elements of a finite set of ids in increasing order (ORDER BY id). *)
Ascending(S) ==
  {s \in [1..Cardinality(S) -> S] : \A a, b \in 1..Cardinality(S) : a < b => s[a] < s[b]}

-----------------------------------------------------------------------------
Init ==
  /\ ingest = <<>> /\ insertBuf = <<>>
  /\ log = <<>> /\ live = {}
  /\ lastSent = 0 /\ pendingSend = <<>>
  /\ writerCh = <<>> /\ writerBuf = {}
  /\ acks = {} /\ ackBuf = {}
  /\ stored = <<>>
  /\ inMem = 0 /\ diskPending = 0 /\ inFlight = 0
  /\ shockCounter = 1 /\ openShocks = {}
  /\ sent = 0 /\ restarts = 0 /\ ambiguous = 0

(* try_send_db: the ingest channel is unbounded, so a send always succeeds. *)
Enqueue(kind, shock) ==
  /\ sent < MaxMsgs
  /\ sent' = sent + 1
  /\ ingest' = Append(ingest, [kind |-> kind, shock |-> shock])
  /\ UNCHANGED <<spool, log, live, writerCh, writerBuf, acks, stored, stats,
                 restarts, ambiguous>>

(* Any producer but the shock detector. *)
SendRow(kind) ==
  /\ kind \in Kinds \ {"shock", "update"}
  /\ Enqueue(kind, 0)
  /\ UNCHANGED shocks

(* emit_result, a pending shock: it takes the next shock id and is remembered
   until it is final. *)
SendShock ==
  /\ "shock" \in Kinds
  /\ Enqueue("shock", shockCounter)
  /\ shockCounter' = shockCounter + 1
  /\ openShocks' = openShocks \cup {shockCounter}

(* emit_result, a final shock: the update carries the id it was given. *)
SendShockUpdate(id) ==
  /\ "update" \in Kinds
  /\ id \in openShocks
  /\ Enqueue("update", id)
  /\ openShocks' = openShocks \ {id}
  /\ UNCHANGED shockCounter
-----------------------------------------------------------------------------
(* run_db_spooler: a message from the ingest channel joins insert_buf. *)
RecvIngest ==
  /\ ingest # <<>>
  /\ ingest' = Tail(ingest)
  /\ insertBuf' = Append(insertBuf, Head(ingest))
  /\ inMem' = inMem + 1
  /\ UNCHANGED <<log, live, lastSent, pendingSend, writerCh, writerBuf, acks, ackBuf,
                 stored, diskPending, inFlight, shocks, bounds>>

(* flush_insert: the whole buffer becomes rows in one statement. *)
FlushInsert ==
  LET n == Len(insertBuf) IN
  /\ n > 0
  /\ insertBuf' = <<>>
  /\ log' = log \o insertBuf
  /\ live' = live \cup (Len(log) + 1)..(Len(log) + n)
  /\ stored' = stored \o [k \in 1..n |-> 0]
  /\ inMem' = inMem - n
  /\ diskPending' = diskPending + n
  /\ UNCHANGED <<ingest, lastSent, pendingSend, writerCh, writerBuf, acks, ackBuf,
                 inFlight, shocks, bounds>>

(* Faulty: the fetch starts from the oldest row, not after last_sent_id. *)
FetchedFromStart(limit) ==
  {i \in live : Cardinality({j \in live : j <= i}) <= limit}

(* Faulty: the fetch does not limit the rows to the room in the channel. *)
FetchedUnlimited(limit) == {i \in live : i > lastSent /\ limit > 0}

(* SELECT ... WHERE id > last_sent_id ORDER BY id LIMIT limit *)
Fetched(limit) ==
  {i \in live : /\ i > lastSent
                /\ Cardinality({j \in live : j > lastSent /\ j <= i}) <= limit}

(* pump_send: the retry deque is drained into the writer's channel; when that
   leaves it empty, as many rows as the channel has room for are fetched, the
   ones that do not decode are deleted, and the rest are sent. *)
PumpSend ==
  LET fit      == Smaller(Len(pendingSend), WriterCap - Len(writerCh))
      drained  == writerCh \o SubSeq(pendingSend, 1, fit)
      left     == SubSeq(pendingSend, fit + 1, Len(pendingSend))
      capacity == WriterCap - Len(drained)
      limit    == IF left # <<>> THEN 0 ELSE Smaller(FetchBatch, capacity)
      rows     == Fetched(limit)
      bad      == {i \in rows : log[i].kind = "garbled"}
  IN
  /\ fit > 0 \/ rows # {}
  /\ \E good \in Ascending(rows \ bad), deleted \in {{}, bad} :
       LET queue == left \o good
           room  == Smaller(Len(queue), capacity)
       IN
       /\ writerCh' = drained \o SubSeq(queue, 1, room)
       /\ pendingSend' = SubSeq(queue, room + 1, Len(queue))
       /\ inFlight' = inFlight + fit + room
       /\ live' = live \ deleted
       /\ diskPending' = diskPending - Cardinality(deleted)
  /\ lastSent' = IF rows = {} THEN lastSent
                 ELSE CHOOSE i \in rows : \A j \in rows : j <= i
  /\ UNCHANGED <<ingest, insertBuf, log, writerBuf, acks, ackBuf, stored, inMem,
                 shocks, bounds>>

(* run_db_spooler: an acknowledgement joins ack_buf.  Acknowledged ids are a
   set: flush_ack sorts and deduplicates them before it uses them. *)
RecvAck(i) ==
  /\ i \in acks
  /\ acks' = acks \ {i}
  /\ ackBuf' = ackBuf \cup {i}
  /\ inFlight' = inFlight - 1
  /\ UNCHANGED <<ingest, insertBuf, log, live, lastSent, pendingSend, writerCh,
                 writerBuf, stored, inMem, diskPending, shocks, bounds>>

(* flush_ack: the acknowledged ids are deleted chunk by chunk; a chunk whose
   delete fails, or that deletes no row, stays in ack_buf. *)
FlushAck(done) ==
  LET deleted == done \cap live IN
  /\ done \subseteq ackBuf
  /\ deleted # {}
  /\ live' = live \ done
  /\ ackBuf' = ackBuf \ done
  /\ diskPending' = diskPending - Cardinality(deleted)
  /\ UNCHANGED <<ingest, insertBuf, log, lastSent, pendingSend, writerCh, writerBuf,
                 acks, stored, inMem, inFlight, shocks, bounds>>
-----------------------------------------------------------------------------
(* Faulty: a message is acknowledged when it is received, before it is stored. *)
WriterRecvAcksEarly ==
  /\ writerCh # <<>>
  /\ writerCh' = Tail(writerCh)
  /\ acks' = acks \cup {Head(writerCh)}
  /\ writerBuf' = writerBuf \cup {Head(writerCh)}
  /\ UNCHANGED <<ingest, spool, log, live, stored, stats, shocks, bounds>>

(* run_db_writer: a message joins its table's buffer, or is acknowledged at
   once when its table is not captured. *)
WriterRecv ==
  LET i == Head(writerCh) IN
  /\ writerCh # <<>>
  /\ writerCh' = Tail(writerCh)
  /\ IF log[i].kind = "skip"
     THEN acks' = acks \cup {i} /\ UNCHANGED writerBuf
     ELSE writerBuf' = writerBuf \cup {i} /\ UNCHANGED acks
  /\ UNCHANGED <<ingest, spool, log, live, stored, stats, shocks, bounds>>

(* A plain INSERT meets its primary key: a bar stored before, or a shock whose
   id is in the table or twice in the batch. *)
Conflicts(batch) ==
  \/ \E i \in batch : log[i].kind = "bar" /\ stored[i] > 0
  \/ \E i \in batch, j \in Ids :
       /\ log[i].kind = "shock" /\ log[j].kind = "shock"
       /\ log[i].shock = log[j].shock
       /\ stored[j] > 0 \/ (j \in batch /\ i # j)

StoreBatch ==
  stored' = [i \in Ids |-> IF i \in writerBuf THEN stored[i] + 1 ELSE stored[i]]

(* flush_buffers: every statement succeeds and the commit is confirmed. *)
WriterFlush ==
  /\ writerBuf # {} /\ ~Conflicts(writerBuf)
  /\ StoreBatch
  /\ acks' = acks \cup writerBuf
  /\ writerBuf' = {}
  /\ UNCHANGED <<ingest, spool, log, live, writerCh, stats, shocks, bounds>>

(* flush_buffers: the commit takes effect but reports an error, so every stage
   goes back into its buffer. *)
WriterFlushAmbiguous ==
  /\ ambiguous < MaxAmbiguous
  /\ ambiguous' = ambiguous + 1
  /\ writerBuf # {} /\ ~Conflicts(writerBuf)
  /\ StoreBatch
  /\ UNCHANGED <<ingest, spool, log, live, writerCh, writerBuf, acks, stats, shocks,
                 sent, restarts>>
-----------------------------------------------------------------------------
StoredShocks == {log[i].shock : i \in {j \in Ids : log[j].kind = "shock" /\ stored[j] > 0}}

(* Faulty: the cursor survives the restart that emptied the channel. *)
RestartKeepsCursor ==
  /\ restarts < MaxRestarts
  /\ restarts' = restarts + 1
  /\ ingest' = <<>> /\ insertBuf' = <<>>
  /\ pendingSend' = <<>> /\ writerCh' = <<>> /\ writerBuf' = {}
  /\ acks' = {} /\ ackBuf' = {}
  /\ inMem' = 0 /\ inFlight' = 0
  /\ openShocks' = {}
  /\ UNCHANGED <<log, live, lastSent, diskPending, stored, shockCounter, sent, ambiguous>>

(* Faulty: disk_pending starts from zero instead of the rows left on disk. *)
RestartCountsNothing ==
  /\ restarts < MaxRestarts
  /\ restarts' = restarts + 1
  /\ ingest' = <<>> /\ insertBuf' = <<>>
  /\ lastSent' = 0
  /\ pendingSend' = <<>> /\ writerCh' = <<>> /\ writerBuf' = {}
  /\ acks' = {} /\ ackBuf' = {}
  /\ inMem' = 0 /\ diskPending' = 0 /\ inFlight' = 0
  /\ openShocks' = {}
  /\ UNCHANGED <<log, live, stored, shockCounter, sent, ambiguous>>

(* The process dies and starts again (spawn_db_queue, main): only the databases
   survive, disk_pending is counted, and the shock counter continues after the
   largest shock_id in Postgres. *)
Restart ==
  /\ restarts < MaxRestarts
  /\ restarts' = restarts + 1
  /\ ingest' = <<>> /\ insertBuf' = <<>>
  /\ lastSent' = 0 /\ pendingSend' = <<>>
  /\ writerCh' = <<>> /\ writerBuf' = {}
  /\ acks' = {} /\ ackBuf' = {}
  /\ inMem' = 0 /\ diskPending' = Cardinality(live) /\ inFlight' = 0
  /\ shockCounter' = 1 + (IF StoredShocks = {} THEN 0
                          ELSE CHOOSE s \in StoredShocks : \A t \in StoredShocks : t <= s)
  /\ openShocks' = {}
  /\ UNCHANGED <<log, live, stored, sent, ambiguous>>

Spooler ==
  \/ RecvIngest
  \/ FlushInsert
  \/ PumpSend
  \/ \E i \in acks : RecvAck(i)
  \/ \E done \in SUBSET ackBuf : FlushAck(done)

Next ==
  \/ \E kind \in Kinds : SendRow(kind)
  \/ SendShock
  \/ \E id \in openShocks : SendShockUpdate(id)
  \/ Spooler
  \/ WriterRecv
  \/ WriterFlush
  \/ WriterFlushAmbiguous
  \/ Restart

Spec == Init /\ [][Next]_vars

(* The spooler's timers and channel arms, and the writer's, are polled for
   ever; SQLite and Postgres accept in the end what they can accept. *)
Fairness ==
  /\ WF_vars(RecvIngest) /\ WF_vars(FlushInsert) /\ WF_vars(PumpSend)
  /\ WF_vars(\E i \in acks : RecvAck(i))
  /\ WF_vars(\E done \in SUBSET ackBuf : FlushAck(done))
  /\ WF_vars(WriterRecv) /\ WF_vars(WriterFlush)

FairSpec == Spec /\ Fairness
-----------------------------------------------------------------------------
(* Every variable keeps its type; the three counters, usize in the code, never
   go below zero. *)
TypeOK ==
  /\ ingest \in Seq(Message) /\ insertBuf \in Seq(Message) /\ log \in Seq(Message)
  /\ live \subseteq Ids
  /\ stored \in [Ids -> Nat]
  /\ lastSent \in Nat
  /\ pendingSend \in Seq(Ids) /\ writerCh \in Seq(Ids)
  /\ writerBuf \subseteq Ids /\ acks \subseteq Ids /\ ackBuf \subseteq Ids
  /\ inMem \in Nat /\ diskPending \in Nat /\ inFlight \in Nat
  /\ shockCounter \in Nat \ {0} /\ openShocks \subseteq Nat
  /\ sent \in Nat /\ restarts \in Nat /\ ambiguous \in Nat

InChannel == {writerCh[k] : k \in 1..Len(writerCh)}
InDeque == {pendingSend[k] : k \in 1..Len(pendingSend)}

(* The rows of whom no transaction is expected. *)
Unstorable == {m \in Message : m.kind \in {"skip", "garbled"}}

(* A row leaves the SQLite queue only after a Postgres transaction that wrote it
   has committed (the delete in flush_ack against the commit in flush_buffers),
   across restarts, retries and commits of unknown outcome. *)
QueuedUntilStored ==
  \A i \in Ids : i \in live \/ stored[i] > 0 \/ log[i] \in Unstorable

(* Between two restarts pump_send hands each row over once: a row is in one
   stage of the pipeline at most, the channel is in id order, everything handed
   over is at or below last_sent_id and the writer is behind the channel. *)
HandedOverOnce ==
  /\ \A k, l \in 1..Len(writerCh) : k < l => writerCh[k] < writerCh[l]
  /\ InChannel \cap (writerBuf \cup acks \cup ackBuf) = {}
  /\ writerBuf \cap (acks \cup ackBuf) = {} /\ acks \cap ackBuf = {}
  /\ \A i \in InChannel : \A j \in writerBuf \cup acks \cup ackBuf : j < i
  /\ \A i \in InChannel \cup writerBuf \cup acks \cup ackBuf : i <= lastSent

(* pump_send fetches no more rows than the channel has room for and nobody else
   sends on it, so its retry deque is empty whenever the spooler is idle. *)
RetryDequeEmpty == pendingSend = <<>> /\ Len(writerCh) <= WriterCap

(* DbQueueStats are exact: what health and memory reports call pending and in
   flight is the number of messages there, also after a restart or a failed
   delete. *)
CountersExact ==
  /\ inMem = Len(insertBuf)
  /\ diskPending = Cardinality(live)
  /\ inFlight = Len(writerCh) + Cardinality(writerBuf) + Cardinality(acks)

(* Delivery is at least once, and a row is written again only because a restart
   or a commit of unknown outcome intervened. *)
CopiesBounded == \A i \in Ids : stored[i] <= 1 + restarts + ambiguous

(* The update that finalises a shock never reaches Postgres before the insert of
   that very shock, though they wait in different buffers of the writer and
   may be retried: an UPDATE that comes first would match no row and be lost. *)
UpdateAfterInsert ==
  \A i \in Ids : log[i].kind = "update" /\ stored[i] > 0 =>
    \E j \in 1..(i - 1) :
      /\ log[j].kind = "shock" /\ log[j].shock = log[i].shock /\ stored[j] > 0
      /\ \A k \in (j + 1)..(i - 1) :
           ~(log[k].kind = "shock" /\ log[k].shock = log[i].shock)

(* A row that reached the disk queue leaves it in the end, past failed flushes and
   restarts, unless a primary key blocks the writer.  A row that does not decode may
   stay until the next restart: its deletion is tried once. *)
RowsLeaveUnlessBlocked ==
  \A i \in 1..MaxMsgs :
    (i \in live /\ log[i].kind # "garbled") ~> (i \notin live \/ Conflicts(writerBuf))

(* A row that reached the disk queue leaves it in the end. *)
RowsLeave == \A i \in 1..MaxMsgs : i \in live ~> i \notin live

(* poly_shock_events.shock_id is a primary key (sql/schema_pg.sql): no two shock
   events are given the same id by next_shock_id. *)
ShockIdsUnique ==
  \A i, j \in Ids :
    log[i].kind = "shock" /\ log[j].kind = "shock" /\ log[i].shock = log[j].shock => i = j

Delivery == INSTANCE DurableDelivery WITH
  Discardable <- Unstorable, accepted <- log, retained <- live, delivered <- stored

(* The pipeline implements the abstract promise: accepted messages are retained
   until delivered, batches are delivered whole, nothing released comes back. *)
DeliversDurably == Delivery!Spec
==============================================================================
