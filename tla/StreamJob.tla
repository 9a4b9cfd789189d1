------------------------------ MODULE StreamJob ------------------------------
(***************************************************************************)
(* One Spark Structured Streaming job of the platform: it reads a Kafka    *)
(* topic, drops invalid events, deduplicates event_ids within a watermark, *)
(* explodes every event into rows and writes each micro-batch to a staging *)
(* table with one PostgreSQL transaction per partition of the batch.       *)
(*                                                                         *)
(* The three jobs (vehicle_state, route_reliability, service_alert) are    *)
(* this module with different Width: 1 for vehicles, any number of stops   *)
(* for trip updates, at least 1 for alerts.                                *)
(***************************************************************************)
EXTENDS Integers, Sequences

CONSTANTS
    Partition,      \* partitions of the Kafka topic
    Task,           \* partitions of a batch after coalesce
    Event,          \* event_id values
    Record,         \* distinct record contents; an event may have several
    IdOf,           \* Record -> Event
    PartitionOf,    \* Event -> Partition: equal ids have equal Kafka keys
    TimeOf,         \* Event -> source_timestamp, which is part of the id
    Width,          \* Record -> number of rows it explodes into
    Valid,          \* records the quality filter accepts
    Poison,         \* valid records with a row that PostgreSQL or the
                    \* ANSI date conversion refuses
    Delay,          \* watermark delay ("2 minutes")
    FromEarliest,   \* KAFKA_STARTING_OFFSETS = "earliest"
    MaxLog,         \* bound: records in a partition of the topic
    MaxFailures,    \* bound: crashes and lost task attempts
    None

ASSUME ConstantsAssumption ==
    /\ IdOf \in [Record -> Event]
    /\ PartitionOf \in [Event -> Partition]
    /\ TimeOf \in [Event -> Nat \ {0}]
    /\ Width \in [Record -> Nat]
    /\ Valid \subseteq Record
    /\ Poison \subseteq {r \in Valid : Width[r] > 0}
    /\ Delay \in Nat
    /\ FromEarliest \in BOOLEAN
    /\ MaxLog \in Nat
    /\ MaxFailures \in Nat
    /\ None \notin Record

VARIABLES
    log,            \* the topic: partition -> sequence of records
    started,        \* the checkpoint exists
    base,           \* checkpoint: initial offsets
    planned,        \* checkpoint: end offsets of the newest planned batch
    open,           \* checkpoint: that batch is planned but not committed
    committed,      \* checkpoint: end offsets of the newest committed batch
    watermark,      \* checkpoint: watermark of the planned or next batch
    lateWatermark,  \* checkpoint: watermark of the batch before it
    seen,           \* checkpoint: deduplication state after that batch
    phase,          \* the driver: "down", "idle" or "run"
    tasks,          \* task -> event -> record still to be written
    orphans,        \* task attempts the driver no longer waits for
    table,          \* rows of the staging table
    failures        \* bound counter

ckptVars == <<started, base, planned, open, committed,
              watermark, lateWatermark, seen>>
vars == <<log, ckptVars, phase, tasks, orphans, table, failures>>

Attempt == UNION {[S -> Record] : S \in SUBSET Event}
NoAttempt == [e \in {} |-> None]
Row == [event : Event, index : Nat, from : Record]

-----------------------------------------------------------------------------
(* The contents of a batch. *)

BatchOffsets(p) == (committed[p] + 1) .. planned[p]

\* The quality filter.
ValidOffsets(p) == {i \in BatchOffsets(p) : log[p][i] \in Valid}

\* Valid offsets of the batch whose record carries event e.
OffsetsOf(e) ==
    {i \in ValidOffsets(PartitionOf[e]) : IdOf[log[PartitionOf[e]][i]] = e}

ValidTimes ==
    UNION {{TimeOf[IdOf[log[p][i]]] : i \in ValidOffsets(p)} : p \in Partition}

NeverLate(e) == FALSE       \* faulty: state expires, but no late filter
LateInBatch(e) ==           \* faulty: the batch's own times make it late
    \E m \in ValidTimes : TimeOf[e] + Delay <= m
Late(e) == TimeOf[e] <= lateWatermark

\* Events that pass the quality filter, the late filter and the state lookup.
Eligible == {e \in Event : OffsetsOf(e) # {} /\ ~Late(e) /\ e \notin seen}

\* Of equal ids in a batch the first offset survives: they share a partition
\* and so one map task, whose output keeps the offset order.
LastSurvives(e, r) ==       \* faulty: the last offset replaces the others
    \E i \in OffsetsOf(e) :
        /\ \A j \in OffsetsOf(e) : j <= i
        /\ r = log[PartitionOf[e]][i]
Survives(e, r) ==
    \E i \in OffsetsOf(e) :
        /\ \A j \in OffsetsOf(e) : i <= j
        /\ r = log[PartitionOf[e]][i]

ExpiresEarly(e) == TimeOf[e] <= watermark + Delay      \* faulty: wrong side
Expired(e) == TimeOf[e] + Delay <= watermark

(* The rows of a batch and their insertion. *)

ExpandFromMinusOne(r) ==    \* faulty: shifts a zero-based index again
    {[event |-> IdOf[r], index |-> i, from |-> r] : i \in -1 .. (Width[r] - 2)}
Expand(r) ==
    {[event |-> IdOf[r], index |-> i, from |-> r] : i \in 0 .. (Width[r] - 1)}

RowsOf(a) == UNION {Expand(a[e]) : e \in DOMAIN a}

\* INSERT ... ON CONFLICT DO NOTHING under the key (event_id, index).
Insert(a) ==
    table \cup {x \in RowsOf(a) :
        \A y \in table : ~(y.event = x.event /\ y.index = x.index)}

WritesAnything(a) == TRUE   \* faulty: no constraint, no ANSI conversion
Writable(a) == \A e \in DOMAIN a : a[e] \notin Poison

SomeWritten == \E t \in Task : DOMAIN tasks[t] = {}      \* faulty: any for all
AllWritten == \A t \in Task : DOMAIN tasks[t] = {}

DataEverywhere == \A p \in Partition : committed[p] < Len(log[p])   \* faulty
NewData == \E p \in Partition : committed[p] < Len(log[p])

InFlight == {tasks[t] : t \in {u \in Task : DOMAIN tasks[u] # {}}}

-----------------------------------------------------------------------------
Init ==
    /\ log = [p \in Partition |-> <<>>]
    /\ started = FALSE
    /\ base = [p \in Partition |-> 0]
    /\ planned = [p \in Partition |-> 0]
    /\ open = FALSE
    /\ committed = [p \in Partition |-> 0]
    /\ watermark = 0
    /\ lateWatermark = 0
    /\ seen = {}
    /\ phase = "down"
    /\ tasks = [t \in Task |-> NoAttempt]
    /\ orphans = {}
    /\ table = {}
    /\ failures = 0

\* The producer appends a record to the partition its key selects.
Publish(r) ==
    LET p == PartitionOf[IdOf[r]] IN
    /\ Len(log[p]) < MaxLog
    /\ log' = [log EXCEPT ![p] = Append(@, r)]
    /\ UNCHANGED <<ckptVars, phase, tasks, orphans, table, failures>>

\* The container (re)starts.  The starting offsets count only when there is
\* no checkpoint.
StartQuery ==
    /\ phase = "down"
    /\ phase' = "idle"
    /\ started' = TRUE
    /\ IF started \/ FromEarliest
       THEN UNCHANGED <<base, planned, committed>>
       ELSE /\ base' = [p \in Partition |-> Len(log[p])]
            /\ planned' = base'
            /\ committed' = base'
    /\ UNCHANGED <<log, open, watermark, lateWatermark, seen, tasks, orphans,
                   table, failures>>

\* The range of the next batch is written ahead to the offset log.  A batch
\* without data runs when the watermark moved, to evict expired state.
PlanBatch ==
    /\ phase = "idle"
    /\ ~open
    /\ NewData \/ lateWatermark < watermark
    /\ planned' = [p \in Partition |-> Len(log[p])]
    /\ open' = TRUE
    /\ UNCHANGED <<log, started, base, committed, watermark, lateWatermark,
                   seen, phase, tasks, orphans, table, failures>>

\* foreachBatch starts, also again after a restart: the deduplicated events
\* are dealt out to the coalesced partitions, all rows of an event to one.
RunBatch ==
    /\ phase = "idle"
    /\ open
    /\ \E kept \in [Eligible -> Valid] :
          /\ \A e \in Eligible : Survives(e, kept[e])
          /\ \E on \in [Eligible -> Task] :
                tasks' = [t \in Task |->
                            [e \in {d \in DOMAIN kept : on[d] = t} |-> kept[e]]]
    /\ phase' = "run"
    /\ UNCHANGED <<log, ckptVars, orphans, table, failures>>

\* write_partition commits its transaction and the driver learns of it.
WritePartition(t) ==
    /\ phase = "run"
    /\ DOMAIN tasks[t] # {}
    /\ Writable(tasks[t])
    /\ table' = Insert(tasks[t])
    /\ tasks' = [tasks EXCEPT ![t] = NoAttempt]
    /\ UNCHANGED <<log, ckptVars, phase, orphans, failures>>

\* Every partition is written: state and commit log are saved, the watermark
\* of the next batch is derived from the newest event time of this one.
CommitBatch ==
    /\ phase = "run"
    /\ AllWritten
    /\ committed' = planned
    /\ open' = FALSE
    /\ \E w \in {watermark} \cup {m - Delay : m \in ValidTimes} :
          /\ watermark <= w
          /\ \A m \in ValidTimes : m - Delay <= w
          /\ watermark' = w
    /\ lateWatermark' = watermark
    /\ seen' = {e \in seen \cup Eligible : ~Expired(e)}
    /\ phase' = "idle"
    /\ UNCHANGED <<log, started, base, planned, tasks, orphans, table, failures>>

\* The driver stops in whatever it does; its running attempts lose their
\* driver but may still reach PostgreSQL before their executors are killed.
Terminate ==
    /\ phase' = "down"
    /\ orphans' = orphans \cup InFlight
    /\ tasks' = [t \in Task |-> NoAttempt]
    /\ UNCHANGED <<log, ckptVars, table>>

Crash ==
    /\ phase # "down"
    /\ failures < MaxFailures
    /\ failures' = failures + 1
    /\ Terminate

\* A task that can never succeed exhausts its retries: the query fails and
\* awaitTermination raises.
FailQuery ==
    /\ phase = "run"
    /\ \E t \in Task : ~Writable(tasks[t])
    /\ Terminate
    /\ UNCHANGED failures

\* The executor of a task is lost, or only its answer: the driver launches
\* the task again while the first attempt may still commit.
RetryTask(t) ==
    /\ phase = "run"
    /\ DOMAIN tasks[t] # {}
    /\ failures < MaxFailures
    /\ failures' = failures + 1
    /\ orphans' = orphans \cup {tasks[t]}
    /\ UNCHANGED <<log, ckptVars, phase, tasks, table>>

OrphanCommits(a) ==
    /\ a \in orphans
    /\ Writable(a)
    /\ table' = Insert(a)
    /\ orphans' = orphans \ {a}
    /\ UNCHANGED <<log, ckptVars, phase, tasks, failures>>

OrphanDies(a) ==
    /\ a \in orphans
    /\ orphans' = orphans \ {a}
    /\ UNCHANGED <<log, ckptVars, phase, tasks, table, failures>>

Next ==
    \/ \E r \in Record : Publish(r)
    \/ StartQuery
    \/ PlanBatch
    \/ RunBatch
    \/ \E t \in Task : WritePartition(t) \/ RetryTask(t)
    \/ CommitBatch
    \/ Crash
    \/ FailQuery
    \/ \E a \in orphans : OrphanCommits(a) \/ OrphanDies(a)

Spec == Init /\ [][Next]_vars

\* Docker restarts the container, and an idle or running query moves on.
Fairness ==
    /\ WF_vars(StartQuery)
    /\ WF_vars(PlanBatch)
    /\ WF_vars(RunBatch)
    /\ \A t \in Task : WF_vars(WritePartition(t))
    /\ WF_vars(CommitBatch)

FairSpec == Spec /\ Fairness

-----------------------------------------------------------------------------
\* Every variable has its type; in particular a row has the index that
\* posexplode gives it (transform_trip_update, transform_service_alert).
TypeOK ==
    /\ log \in [Partition -> Seq(Record)]
    /\ started \in BOOLEAN
    /\ base \in [Partition -> Nat]
    /\ planned \in [Partition -> Nat]
    /\ open \in BOOLEAN
    /\ committed \in [Partition -> Nat]
    /\ watermark \in Int
    /\ lateWatermark \in Int
    /\ seen \subseteq Event
    /\ phase \in {"down", "idle", "run"}
    /\ tasks \in [Task -> Attempt]
    /\ orphans \subseteq Attempt
    /\ table \subseteq Row
    /\ failures \in 0 .. MaxFailures

Rows(e) == {x \in table : x.event = e}

\* The valid records between the initial offsets and the given end offsets.
Taken(end) ==
    Valid \cap UNION {{log[p][i] : i \in (base[p] + 1) .. end[p]} : p \in Partition}

\* The table holds exactly the rows of one record taken up to `end`.
Represented(e, end) == \E r \in Taken(end) : IdOf[r] = e /\ Rows(e) = Expand(r)

\* No event is torn: whatever crashes, retries and stray attempts did, the
\* table holds no row of an event or all rows of exactly one of its valid
\* records, and the offset log already covered that record.  This is what
\* coalesce before foreachPartition, one transaction per partition and
\* ON CONFLICT DO NOTHING have to achieve together.
NoTornEvent == \A e \in Event : Rows(e) = {} \/ Represented(e, planned)

\* An event may be missing only because a valid event at least Delay newer
\* was consumed: every valid record that the commit log covers is in the
\* table under its event_id, or was overtaken by the watermark.
Overtaken(e) == \E r \in Taken(committed) : TimeOf[e] + Delay <= TimeOf[IdOf[r]]

NoSilentLoss ==
    \A r \in Taken(committed) :
        Represented(IdOf[r], committed) \/ Overtaken(IdOf[r])

\* Records are lost to the watermark of earlier batches only: when a batch is
\* committed, every valid record up to its end is in the table, or a record
\* committed before that batch is at least Delay newer.  So the burst that
\* piled up while the job was down keeps its old events however far it
\* reaches (withWatermark: the filter uses the previous batch's watermark).
BurstKept ==
    [][started /\ committed' # committed =>
         \A r \in Taken(committed)' :
            Represented(IdOf[r], committed)' \/ Overtaken(IdOf[r])]_vars

\* The valid records of event e from the initial offsets on, by offset.
ValidAt(e) ==
    {i \in (base[PartitionOf[e]] + 1) .. Len(log[PartitionOf[e]]) :
        log[PartitionOf[e]][i] \in Valid /\ IdOf[log[PartitionOf[e]][i]] = e}

First(e, r) ==
    \E i \in ValidAt(e) :
        (\A j \in ValidAt(e) : i <= j) /\ r = log[PartitionOf[e]][i]

\* What the table holds of an event is fixed by the topic, not by how the
\* batches fell or what failed: the rows of the first valid record with its
\* id.  A later record of the same id, in this batch or another, before or
\* after a restart, is never the one that is stored.
FirstRecordWins ==
    \A e \in Event :
        Rows(e) = {} \/ \E r \in Record : First(e, r) /\ Rows(e) = Expand(r)

\* Between batches the table stands still: whatever a stray attempt of an
\* earlier batch still commits, no row of it is new.
QuietBetweenBatches == [][~open => table' = table]_vars

\* Refinement: the staging table is an EventStore.
Stored(e) ==
    IF Rows(e) = {} THEN None
    ELSE IF \E r \in Record : Rows(e) = Expand(r)
         THEN CHOOSE r \in Record : Rows(e) = Expand(r)
         ELSE Rows(e)

Store == INSTANCE EventStore WITH
    topic  <- UNION {{log[p][i] : i \in DOMAIN log[p]} : p \in Partition},
    stored <- [e \in Event |-> Stored(e)]

\* The staging table behaves as EventStore says: rows of an event appear in
\* one step, from one valid published record, and never change.
ImplementsEventStore == Store!Spec

\* A poison record survived the filter and the deduplication.
PoisonPlanned == \E e \in Eligible : \E r \in Poison : Survives(e, r)

\* Once the failures stop and the topic falls silent, the commit log reaches
\* the end of the topic, unless a poison record is in the way: every record
\* is passed, and with NoSilentLoss its event reaches the table unless the
\* watermark overtook it.
EventuallyConsumed ==
    <>[](PoisonPlanned \/ \A p \in Partition : committed[p] = Len(log[p]))

\* A poison record that survived filter and deduplication blocks its batch
\* for good: no restart gets the commit log past it.
PoisonBlocks == [][PoisonPlanned => committed' = committed]_vars

-----------------------------------------------------------------------------
(***************************************************************************)
(* The inductive invariant behind NoTornEvent and NoSilentLoss.            *)
(***************************************************************************)

\* Record r is what the open batch writes for event e, now and on replay.
Current(e, r) == e \in Eligible /\ Survives(e, r)

\* Event e went through the commit log and its rows are those of record r.
Done(e, r) == r \in Taken(committed) /\ IdOf[r] = e /\ Rows(e) = Expand(r)

OffsetsOrdered ==
    /\ \A p \in Partition :
          base[p] <= committed[p] /\ committed[p] <= planned[p] /\ planned[p] <= Len(log[p])
    /\ ~open => planned = committed
    /\ ~started => /\ base = committed /\ ~open /\ phase = "down"
                   /\ table = {} /\ seen = {} /\ orphans = {} /\ watermark = 0

Keyed ==
    \A p \in Partition : \A i \in 1 .. Len(log[p]) : PartitionOf[IdOf[log[p][i]]] = p

\* A watermark is justified by a consumed event.
Reached(w) == w = 0 \/ \E r \in Taken(committed) : w + Delay <= TimeOf[IdOf[r]]

WatermarksReached ==
    /\ Reached(watermark) /\ Reached(lateWatermark)
    /\ 0 <= lateWatermark /\ lateWatermark <= watermark

TasksCurrent ==
    /\ phase = "run" => open
    /\ \A t \in Task : \A e \in DOMAIN tasks[t] :
          phase = "run" /\ Current(e, tasks[t][e])

\* A stray attempt repeats what the open batch writes or what is done.
OrphansHarmless ==
    \A a \in orphans : \A e \in DOMAIN a : Current(e, a[e]) \/ Done(e, a[e])

RowsExplained ==
    \A e \in Event :
        Rows(e) = {} \/ \E r \in Record : Rows(e) = Expand(r) /\ (Current(e, r) \/ Done(e, r))

\* An event leaves the deduplication state only when the late filter holds.
ConsumedSettled == \A r \in Taken(committed) : IdOf[r] \in seen \/ Late(IdOf[r])

SeenDone == \A e \in seen : \E r \in Record : Done(e, r)

\* What the running batch no longer has to write is written.
RunCovers ==
    phase = "run" =>
        \A e \in Eligible : \/ \E t \in Task : e \in DOMAIN tasks[t]
                            \/ \E r \in Record : Survives(e, r) /\ Rows(e) = Expand(r)

\* The conjunction is inductive: a replayed batch, a retried task and a stray
\* attempt can only write what the first run of the batch would have written.
IInv ==
    /\ OffsetsOrdered /\ Keyed /\ WatermarksReached /\ TasksCurrent
    /\ OrphansHarmless /\ RowsExplained /\ ConsumedSettled /\ SeenDone
    /\ RunCovers /\ NoSilentLoss
=============================================================================
