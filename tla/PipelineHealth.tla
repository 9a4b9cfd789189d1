--------------------------- MODULE PipelineHealth ---------------------------
(***************************************************************************)
(* How the health of one Spark job reaches the operator: the driver's      *)
(* metrics listener stores query events in the ops tables, and the         *)
(* dashboard page combines these rows with Kafka's end offsets.            *)
(*                                                                         *)
(* Listener events are delivered asynchronously, a handler that cannot     *)
(* write is ignored, and the listener is removed in the job's finally      *)
(* block, so that rows may be missing or old at any time.  A job has one   *)
(* topic partition here; the page treats each partition in the same way.   *)
(***************************************************************************)
EXTENDS Integers, SequencesExt

CONSTANTS
    StaleAfter,     \* stale_after_seconds, in ticks of the clock
    Retention,      \* retention_rows
    MaxLog,         \* bound: records in the partition
    MaxBatch,       \* bound: batches
    MaxBus,         \* bound: undelivered events
    None

ASSUME ConstantsAssumption ==
    /\ StaleAfter \in Nat
    /\ Retention \in Nat \ {0}
    /\ MaxLog \in Nat
    /\ MaxBatch \in Nat
    /\ MaxBus \in Nat \ {0}
    /\ None \notin Nat

VARIABLES
    high,           \* end offset of the partition
    done,           \* offset that the checkpoint has committed
    batch,          \* batches committed so far
    quiet,          \* ticks since the last commit
    driver,         \* "down", "up", or "ended": the query is over and the
                    \* finally block has not been reached
    bus,            \* events the listener has not handled yet
    app,            \* row of spark_application_status, or None
    rows,           \* spark_streaming_progress, oldest row first
    page            \* the dashboard's newest reading

job == <<high, done, batch, quiet, driver>>
ops == <<app, rows>>
vars == <<job, bus, ops, page>>

\* Ages count ticks and stay at the first one beyond the threshold.
Age == 0 .. StaleAfter + 1
Older(a) == IF a = StaleAfter + 1 THEN a ELSE a + 1

Status == {"running", "idle", "terminated", "failed"}
Progress == [batch : 1 .. MaxBatch, offset : 0 .. MaxLog]

\* What a query reports: of a batch, the Kafka source's end offset and the
\* latest offset it knew, and the age of the trigger that started the batch.
QueryEvent == [kind : {"progress"}, batch : 1 .. MaxBatch, age : Age,
               endOffset : 0 .. MaxLog, latestOffset : 0 .. MaxLog]
         \cup [kind : {"idle", "terminated", "failed"}]
App == [status : Status, updated : Age, lastBatch : (1 .. MaxBatch) \cup {None},
        lastProgress : Age]

ASSUME NoneAssumption == None \notin App

NoPage == [at |-> "start", processed |-> None, backlog |-> None, actual |-> 0]

-----------------------------------------------------------------------------
Init ==
    /\ high = 0
    /\ done = 0
    /\ batch = 0
    /\ quiet = StaleAfter + 1
    /\ driver = "down"
    /\ bus = <<>>
    /\ app = None
    /\ rows = <<>>
    /\ page = NoPage

Publish ==
    /\ high < MaxLog
    /\ high' = high + 1
    /\ UNCHANGED <<done, batch, quiet, driver, bus, ops, page>>

\* _write_status: the row keeps what it knows of the last progress.
WriteStatus(status) ==
    app' = [status |-> status,
            updated |-> 0,
            lastBatch |-> IF app = None THEN None ELSE app.lastBatch,
            lastProgress |-> IF app = None THEN StaleAfter + 1 ELSE app.lastProgress]

\* The job registers its listener and starts the query, which calls
\* onQueryStarted synchronously.
StartQuery ==
    /\ driver = "down"
    /\ driver' = "up"
    /\ WriteStatus("running") \/ UNCHANGED app
    /\ UNCHANGED <<high, done, batch, quiet, bus, rows, page>>

Post(event) ==
    /\ Len(bus) < MaxBus
    /\ bus' = Append(bus, event)

\* A batch, planned at its trigger up to some end offset, is committed; it
\* may carry no data and take any time.
CompleteBatch(end, took) ==
    /\ driver = "up"
    /\ batch < MaxBatch
    /\ done' = end
    /\ batch' = batch + 1
    /\ quiet' = 0
    /\ \E latest \in end .. high :
          Post([kind |-> "progress", batch |-> batch + 1, age |-> took,
                endOffset |-> end, latestOffset |-> latest])
    /\ UNCHANGED <<high, driver, ops, page>>

QueryIdle ==
    /\ driver = "up"
    /\ high = done
    /\ Post([kind |-> "idle"])
    /\ UNCHANGED <<job, ops, page>>

\* The query stops or fails, and awaitTermination returns or raises.
QueryTerminates ==
    /\ driver = "up"
    /\ driver' = "ended"
    /\ \E kind \in {"terminated", "failed"} : Post([kind |-> kind])
    /\ UNCHANGED <<high, done, batch, quiet, ops, page>>

\* The finally block removes the listener: pending events are dropped.
RemoveListener ==
    /\ driver = "ended"
    /\ driver' = "down"
    /\ bus' = <<>>
    /\ UNCHANGED <<high, done, batch, quiet, ops, page>>

Crash ==
    /\ driver # "down"
    /\ driver' = "down"
    /\ bus' = <<>>
    /\ UNCHANGED <<high, done, batch, quiet, ops, page>>

-----------------------------------------------------------------------------
(* PostgresStreamingMetricsListener *)

\* _offsets_from_sources
LatestOffset(event) == event.latestOffset   \* faulty: the wrong field
SourceOffset(event) == event.endOffset

\* progress_timestamp is the event's own, not the time of writing.
WritingTime(event) == 0                     \* faulty
ProgressAge(event) == event.age

\* DELETE ... ORDER BY progress_timestamp DESC OFFSET retention_rows
Kept(s) == IF Len(s) < Retention THEN Len(s) ELSE Retention
KeepAll(s) == s                             \* faulty: no retention
KeepOldest(s) == SubSeq(s, 1, Kept(s))      \* faulty: ascending order
Newest(s) == SubSeq(s, Len(s) - Kept(s) + 1, Len(s))

\* _write_progress: row, status and retention in one transaction.
WriteProgress(event) ==
    /\ rows' = Newest(Append(rows, [batch |-> event.batch, offset |-> SourceOffset(event)]))
    /\ app' = [status |-> "running", updated |-> 0,
               lastBatch |-> event.batch, lastProgress |-> ProgressAge(event)]

Handle(event) ==
    IF event.kind = "progress"
    THEN WriteProgress(event)
    ELSE WriteStatus(event.kind) /\ UNCHANGED rows

\* The bus delivers in order; a handler's exception is only logged.
Deliver ==
    /\ bus # <<>>
    /\ bus' = Tail(bus)
    /\ Handle(Head(bus)) \/ UNCHANGED ops
    /\ UNCHANGED <<job, page>>

Tick ==
    /\ quiet' = Older(quiet)
    /\ bus' = [i \in DOMAIN bus |->
                IF bus[i].kind = "progress" THEN [bus[i] EXCEPT !.age = Older(@)] ELSE bus[i]]
    /\ app' = IF app = None THEN None
              ELSE [app EXCEPT !.updated = Older(@), !.lastProgress = Older(@)]
    /\ UNCHANGED <<high, done, batch, driver, rows, page>>

-----------------------------------------------------------------------------
(* The dashboard page *)

NeverStale(a) == FALSE                      \* faulty: the age is not looked at
TooOld(a) == a > StaleAfter

DisplayStatus ==
    IF app = None THEN "Unknown"
    ELSE IF app.status = "failed" THEN "Failed"
    ELSE IF app.status = "terminated" THEN "Stopped"
    ELSE IF app.lastBatch = None THEN "Unknown"
    ELSE IF TooOld(app.lastProgress) THEN "Stale"
    ELSE IF app.status = "idle" THEN "Idle" ELSE "Running"

ProcessedOffset == IF rows = <<>> THEN None ELSE Last(rows).offset

Backlog(end, processed) ==
    IF processed = None THEN None
    ELSE IF end < processed THEN 0 ELSE end - processed

\* get_spark_health
ReadDatabase ==
    /\ page.at # "database"
    /\ page' = [NoPage EXCEPT !.at = "database", !.processed = ProcessedOffset]
    /\ UNCHANGED <<job, bus, ops>>

\* get_kafka_watermarks, then calculate_kafka_backlog.
ReadWatermarks ==
    /\ page.at = "database"
    /\ page' = [page EXCEPT !.at = "shown", !.backlog = Backlog(high, page.processed),
                            !.actual = high - done]
    /\ UNCHANGED <<job, bus, ops>>

\* The database or the broker does not answer, and the page says so.
Unavailable ==
    /\ page # NoPage
    /\ page' = NoPage
    /\ UNCHANGED <<job, bus, ops>>

Next ==
    \/ Publish
    \/ StartQuery
    \/ \E end \in done .. high, took \in Age : CompleteBatch(end, took)
    \/ QueryIdle \/ QueryTerminates \/ RemoveListener \/ Crash
    \/ Deliver
    \/ Tick
    \/ ReadDatabase \/ ReadWatermarks \/ Unavailable

Spec == Init /\ [][Next]_vars

\* Time passes.
FairSpec == Spec /\ WF_vars(Tick)

-----------------------------------------------------------------------------
\* Every variable has its type (streaming_listener.py, migration 007).
TypeOK ==
    /\ high \in 0 .. MaxLog
    /\ done \in 0 .. high
    /\ batch \in 0 .. MaxBatch
    /\ quiet \in Age
    /\ driver \in {"down", "up", "ended"}
    /\ bus \in Seq(QueryEvent) /\ Len(bus) \in 0 .. MaxBus
    /\ app \in App \cup {None}
    /\ rows \in Seq(Progress) /\ Len(rows) \in 0 .. Retention
    /\ page \in [at : {"start", "database", "shown"}, processed : (0 .. MaxLog) \cup {None},
                 backlog : (0 .. MaxLog) \cup {None}, actual : 0 .. MaxLog]

\* The page never shows less backlog than the checkpoint really leaves,
\* although rows come late or are lost, the job restarts, and the database
\* is read before the broker (calculate_kafka_backlog).
BacklogNotUnderstated ==
    page.at = "shown" /\ page.backlog # None => page.backlog >= page.actual

\* The status row names the newest batch among the retained rows, and these
\* are in the order of their batches, whatever writes failed and whatever
\* events a restart dropped (_write_progress).
ProgressConsistent ==
    /\ \A i, j \in DOMAIN rows : i < j => rows[i].batch < rows[j].batch
    /\ rows # <<>> => app # None /\ app.lastBatch = Last(rows).batch

\* The newest stored progress never disappears and never runs backwards,
\* neither by retention nor over lost events, failed writes and restarts:
\* a later batch is stored with offsets at least as large (_write_progress).
ProgressNeverBackwards ==
    [][rows # <<>> => /\ rows' # <<>>
                      /\ Last(rows').batch >= Last(rows).batch
                      /\ Last(rows').offset >= Last(rows).offset]_rows

\* A page that shows Running or Idle has the evidence of a batch committed
\* within the threshold: neither a restart, nor an idle event, nor an event
\* that the listener handles late revives the label (display_status; the
\* caption of 4_pipeline_health.py, lines 72-73).
RunningMeansRecent ==
    DisplayStatus \in {"Running", "Idle"} => ~TooOld(quiet)

\* A job that is killed for good is in the end never shown as alive
\* (docs/dashboard-operations.md, lines 296-297).
CrashDegrades ==
    <>[](driver = "down") => <>[](DisplayStatus \in {"Stale", "Failed", "Stopped", "Unknown"})

\* docs/dashboard-operations.md, line 167: the label is Idle when Spark
\* emitted a recent idle event.  The code does not look at the age of the
\* idle event but at that of the last progress event.
RecentIdleShown ==
    app # None /\ app.status = "idle" /\ app.lastBatch # None /\ ~TooOld(app.updated)
    => DisplayStatus = "Idle"
=============================================================================
