--------------------------- MODULE StreamJobProofs ---------------------------
(***************************************************************************)
(* Proofs about StreamJob, for every topic, every number of partitions and *)
(* tasks, and every number of crashes, retries and records.                *)
(***************************************************************************)
EXTENDS StreamJob, TLAPS

(* Attempts are functions on sets of events. *)

LEMMA EmptyAttempt == NoAttempt \in Attempt /\ DOMAIN NoAttempt = {}
  <1>1. NoAttempt \in [{} -> Record]
    BY DEF NoAttempt
  <1>2. QED
    BY <1>1 DEF Attempt, NoAttempt

LEMMA AttemptType ==
  ASSUME NEW a \in Attempt
  PROVE  DOMAIN a \subseteq Event /\ \A e \in DOMAIN a : a[e] \in Record
  BY DEF Attempt

LEMMA ExpandType ==
  ASSUME NEW r \in Record
  PROVE  Expand(r) \subseteq Row /\ \A x \in Expand(r) : x.event = IdOf[r]
  BY ConstantsAssumption DEF Expand, Row

LEMMA InsertType ==
  ASSUME TypeOK, NEW a \in Attempt
  PROVE  Insert(a) \subseteq Row
  BY AttemptType, ExpandType DEF TypeOK, Insert, RowsOf

LEMMA ValidTimesType == ValidTimes \subseteq Nat \ {0}
  <1> SUFFICES ASSUME NEW m \in ValidTimes PROVE m \in Nat \ {0}
    OBVIOUS
  <1>1. PICK p \in Partition :
            \E i \in {j \in BatchOffsets(p) : log[p][j] \in Valid} : m = TimeOf[IdOf[log[p][i]]]
    BY DEF ValidTimes, ValidOffsets
  <1>2. PICK r \in Valid : m = TimeOf[IdOf[r]]
    BY <1>1
  <1>3. QED
    BY <1>2, ConstantsAssumption

-----------------------------------------------------------------------------
\* The type invariant of a streaming job: checkpoint, running tasks, stray
\* attempts and staging rows always have their declared shape.
THEOREM StreamJobTypes == Spec => []TypeOK
<1>1. Init => TypeOK
  <2> SUFFICES ASSUME Init PROVE TypeOK
    OBVIOUS
  <2>1. log \in [Partition -> Seq(Record)]
    <3>1. <<>> \in Seq(Record)
      OBVIOUS
    <3>2. QED
      BY <3>1 DEF Init
  <2>2. tasks \in [Task -> Attempt]
    BY EmptyAttempt DEF Init
  <2>3. failures \in 0 .. MaxFailures
    BY ConstantsAssumption DEF Init
  <2>4a. started \in BOOLEAN /\ open \in BOOLEAN
    BY DEF Init
  <2>4b. watermark \in Int /\ lateWatermark \in Int
    BY DEF Init
  <2>4c. phase \in {"down", "idle", "run"}
    BY DEF Init
  <2>5. /\ base \in [Partition -> Nat]
        /\ planned \in [Partition -> Nat]
        /\ committed \in [Partition -> Nat]
    BY DEF Init
  <2>6. seen \subseteq Event /\ orphans \subseteq Attempt /\ table \subseteq Row
    BY DEF Init
  <2>7. QED
    BY <2>1, <2>2, <2>3, <2>4a, <2>4b, <2>4c, <2>5, <2>6 DEF TypeOK
<1>2. TypeOK /\ [Next]_vars => TypeOK'
  <2> SUFFICES ASSUME TypeOK, [Next]_vars PROVE TypeOK'
    OBVIOUS
  <2> USE ConstantsAssumption DEF TypeOK, ckptVars
  <2>1. ASSUME NEW r \in Record, Publish(r) PROVE TypeOK'
    BY <2>1 DEF Publish
  <2>2. CASE StartQuery
    BY <2>2 DEF StartQuery
  <2>3. CASE PlanBatch
    BY <2>3 DEF PlanBatch
  <2>4. CASE RunBatch
    <3>1. Eligible \subseteq Event
      BY DEF Eligible
    <3>2. PICK kept \in [Eligible -> Valid], on \in [Eligible -> Task] :
              tasks' = [t \in Task |-> [e \in {d \in DOMAIN kept : on[d] = t} |-> kept[e]]]
      BY <2>4 DEF RunBatch
    <3>3. kept \in [Eligible -> Record] /\ DOMAIN kept = Eligible
      OBVIOUS
    <3>4. ASSUME NEW t \in Task
          PROVE  [e \in {d \in DOMAIN kept : on[d] = t} |-> kept[e]] \in Attempt
      <4> DEFINE D == {d \in DOMAIN kept : on[d] = t}
      <4>1. D \in SUBSET Eligible
        BY <3>3
      <4>2. D \in SUBSET Event /\ [e \in D |-> kept[e]] \in [D -> Record]
        BY <3>1, <3>3, <4>1
      <4>3. QED
        BY <4>2 DEF Attempt
    <3>5. tasks' \in [Task -> Attempt]
      BY <3>2, <3>4
    <3>6. QED
      BY <2>4, <3>5 DEF RunBatch
  <2>5. ASSUME NEW t \in Task, WritePartition(t) PROVE TypeOK'
    <3>1. table' \subseteq Row
      BY <2>5, InsertType DEF WritePartition
    <3>2. tasks' \in [Task -> Attempt]
      BY <2>5, EmptyAttempt DEF WritePartition
    <3>3. QED
      BY <2>5, <3>1, <3>2 DEF WritePartition
  <2>6. ASSUME NEW t \in Task, RetryTask(t) PROVE TypeOK'
    BY <2>6 DEF RetryTask
  <2>7. CASE CommitBatch
    <3>1. watermark' \in Int
      <4>1. PICK w \in {watermark} \cup {m - Delay : m \in ValidTimes} : watermark' = w
        BY <2>7 DEF CommitBatch
      <4>2. QED
        BY <4>1, ValidTimesType
    <3>2. seen' \subseteq Event
      BY <2>7 DEF CommitBatch, Eligible
    <3>3. QED
      BY <2>7, <3>1, <3>2 DEF CommitBatch
  <2>8. ASSUME Terminate PROVE tasks' \in [Task -> Attempt] /\ orphans' \subseteq Attempt
    BY <2>8, EmptyAttempt DEF Terminate, InFlight
  <2>9. CASE Crash
    BY <2>8, <2>9 DEF Crash, Terminate
  <2>10. CASE FailQuery
    BY <2>8, <2>10 DEF FailQuery, Terminate
  <2>11. ASSUME NEW a \in orphans, OrphanCommits(a) PROVE TypeOK'
    <3>1. table' \subseteq Row
      BY <2>11, InsertType DEF OrphanCommits
    <3>2. QED
      BY <2>11, <3>1 DEF OrphanCommits
  <2>12. ASSUME NEW a \in orphans, OrphanDies(a) PROVE TypeOK'
    BY <2>12 DEF OrphanDies
  <2>13. CASE UNCHANGED vars
    BY <2>13 DEF vars
  <2>14. QED
    BY <2>1, <2>2, <2>3, <2>4, <2>5, <2>6, <2>7, <2>9, <2>10, <2>11, <2>12, <2>13 DEF Next
<1>3. QED
  BY <1>1, <1>2, PTL DEF Spec

-----------------------------------------------------------------------------
(* The batch that the checkpoint describes. *)

\* The parts of the state that determine what the open batch writes.
batchVars == <<log, base, planned, committed, seen, lateWatermark>>

SameBatch ==
    /\ Eligible' = Eligible
    /\ \A e \in Event, r \in Record : Survives(e, r)' <=> Survives(e, r)
    /\ Taken(committed)' = Taken(committed)

LEMMA UnchangedBatch ==
  ASSUME UNCHANGED batchVars
  PROVE  SameBatch
  BY DEF batchVars, SameBatch, Eligible, Survives, OffsetsOf, ValidOffsets, BatchOffsets, Late, Taken

LEMMA SurvivesOne ==
  ASSUME NEW e, NEW r, NEW q, Survives(e, r), Survives(e, q)
  PROVE  r = q
  <1>1. OffsetsOf(e) \subseteq Int
    BY DEF OffsetsOf, ValidOffsets, BatchOffsets
  <1>2. PICK i \in OffsetsOf(e) :
            (\A j \in OffsetsOf(e) : i <= j) /\ r = log[PartitionOf[e]][i]
    BY DEF Survives
  <1>3. PICK k \in OffsetsOf(e) :
            (\A j \in OffsetsOf(e) : k <= j) /\ q = log[PartitionOf[e]][k]
    BY DEF Survives
  <1>4. i = k
    BY <1>1, <1>2, <1>3
  <1>5. QED
    BY <1>2, <1>3, <1>4

LEMMA SurvivesValid ==
  ASSUME NEW e, NEW r, Survives(e, r)
  PROVE  r \in Valid /\ r \in Record /\ IdOf[r] = e
  BY ConstantsAssumption DEF Survives, OffsetsOf, ValidOffsets

\* The offsets of the checkpoint are ordered numbers within the topic.
LEMMA OffsetFacts ==
  ASSUME TypeOK, IInv
  PROVE  \A p \in Partition : /\ base[p] \in Nat /\ committed[p] \in Nat /\ planned[p] \in Nat
                              /\ log[p] \in Seq(Record) /\ Len(log[p]) \in Nat
                              /\ base[p] <= committed[p] /\ committed[p] <= planned[p]
                              /\ planned[p] <= Len(log[p])
  <1>1. \A p \in Partition : base[p] \in Nat /\ committed[p] \in Nat /\ planned[p] \in Nat
    BY DEF TypeOK
  <1>2. \A p \in Partition : log[p] \in Seq(Record)
    BY DEF TypeOK
  <1>3. ASSUME NEW p \in Partition PROVE Len(log[p]) \in Nat
    <2>1. log[p] \in Seq(Record)
      BY <1>2
    <2>2. QED
      BY <2>1
  <1>4. OffsetsOrdered
    BY DEF IInv
  <1>4a. \A p \in Partition : /\ base[p] <= committed[p] /\ committed[p] <= planned[p]
                              /\ planned[p] <= Len(log[p])
    BY <1>4 DEF OffsetsOrdered
  <1>5. QED
    BY <1>1, <1>2, <1>3, <1>4a

\* No event that the commit log covers can be written again.
LEMMA DoneNotCurrent ==
  ASSUME IInv, NEW e, NEW r, Done(e, r)
  PROVE  e \notin Eligible
  BY DEF IInv, ConsumedSettled, Done, Eligible

\* Publishing changes nothing about the open batch: its range is fixed.
LEMMA PublishBatch ==
  ASSUME TypeOK, IInv, NEW r \in Record, Publish(r)
  PROVE  /\ SameBatch
         /\ \A p \in Partition :
              /\ Len(log[p]) <= Len(log'[p])
              /\ \A i \in 1 .. Len(log[p]) : log'[p][i] = log[p][i]
         /\ Keyed'
  <1> DEFINE q == PartitionOf[IdOf[r]]
  <1>0. q \in Partition
    BY ConstantsAssumption
  <1>1. log[q] \in Seq(Record) /\ log' = [log EXCEPT ![q] = Append(log[q], r)]
    BY <1>0 DEF TypeOK, Publish
  <1>2. /\ Len(log'[q]) = Len(log[q]) + 1
        /\ \A i \in 1 .. Len(log[q]) : log'[q][i] = log[q][i]
        /\ log'[q][Len(log[q]) + 1] = r
    BY <1>0, <1>1 DEF TypeOK
  <1>3. \A p \in Partition : p # q => log'[p] = log[p]
    BY <1>1 DEF TypeOK
  <1>3a. \A p \in Partition : Len(log[p]) \in Nat
    BY DEF TypeOK
  <1>4. \A p \in Partition :
          /\ Len(log[p]) <= Len(log'[p])
          /\ \A i \in 1 .. Len(log[p]) : log'[p][i] = log[p][i]
    BY <1>2, <1>3, <1>3a
  <1>5. UNCHANGED <<base, planned, committed, seen, lateWatermark>>
    BY DEF Publish, ckptVars
  <1>6. \A p \in Partition : \A i \in 1 .. planned[p] : log'[p][i] = log[p][i]
    BY <1>4, <1>3a DEF IInv, OffsetsOrdered, TypeOK
  <1>7. \A p \in Partition : /\ committed[p] <= planned[p] /\ committed[p] \in Nat
                             /\ planned[p] \in Nat /\ base[p] \in Nat
    BY DEF IInv, OffsetsOrdered, TypeOK
  <1>8. \A e \in Event : OffsetsOf(e)' = OffsetsOf(e)
    <2> SUFFICES ASSUME NEW e \in Event PROVE OffsetsOf(e)' = OffsetsOf(e)
      OBVIOUS
    <2>1. PartitionOf[e] \in Partition
      BY ConstantsAssumption
    <2>2. \A i \in BatchOffsets(PartitionOf[e]) :
              log'[PartitionOf[e]][i] = log[PartitionOf[e]][i]
      BY <1>6, <1>7, <2>1 DEF BatchOffsets
    <2>3. BatchOffsets(PartitionOf[e])' = BatchOffsets(PartitionOf[e])
      BY <1>5 DEF BatchOffsets
    <2>4. QED
      BY <2>2, <2>3 DEF OffsetsOf, ValidOffsets
  <1>9. Eligible' = Eligible
    BY <1>5, <1>8 DEF Eligible, Late
  <1>10. ASSUME NEW e \in Event, NEW x \in Record
         PROVE  Survives(e, x)' <=> Survives(e, x)
    <2>1. PartitionOf[e] \in Partition
      BY ConstantsAssumption
    <2>2. \A i \in OffsetsOf(e) : log'[PartitionOf[e]][i] = log[PartitionOf[e]][i]
      BY <1>6, <1>7, <2>1 DEF OffsetsOf, ValidOffsets, BatchOffsets
    <2>3. QED
      BY <1>8, <2>2 DEF Survives
  <1>11. Taken(committed)' = Taken(committed)
    <2>1. \A p \in Partition : \A i \in (base[p] + 1) .. committed[p] : log'[p][i] = log[p][i]
      BY <1>6, <1>7
    <2>2. QED
      BY <1>5, <2>1 DEF Taken
  <1>12. Keyed'
    <2>1. SUFFICES ASSUME NEW p \in Partition, NEW i \in 1 .. Len(log'[p])
                   PROVE  PartitionOf[IdOf[log'[p][i]]] = p
      BY DEF Keyed
    <2>2. CASE i \in 1 .. Len(log[p])
      BY <1>4, <2>2 DEF IInv, Keyed
    <2>3. CASE i \notin 1 .. Len(log[p])
      <3>1. p = q /\ i = Len(log[q]) + 1
        BY <1>2, <1>3, <1>3a, <2>3
      <3>2. QED
        BY <1>2, <3>1
    <2>4. QED
      BY <2>2, <2>3
  <1>13. QED
    BY <1>4, <1>9, <1>10, <1>11, <1>12 DEF SameBatch

-----------------------------------------------------------------------------
(* One transaction against the staging table. *)

\* INSERT ... ON CONFLICT DO NOTHING adds exactly the rows of the attempt's
\* events, provided that none of them is there under another record.
LEMMA InsertRows ==
  ASSUME TypeOK, NEW a \in Attempt, table' = Insert(a),
         \A e \in DOMAIN a : /\ IdOf[a[e]] = e
                             /\ Rows(e) = {} \/ Rows(e) = Expand(a[e])
  PROVE  \A e \in Event : Rows(e)' = IF e \in DOMAIN a THEN Expand(a[e]) ELSE Rows(e)
  <1> SUFFICES ASSUME NEW e \in Event
               PROVE  Rows(e)' = IF e \in DOMAIN a THEN Expand(a[e]) ELSE Rows(e)
    OBVIOUS
  <1>0. \A d \in DOMAIN a : a[d] \in Record
    BY AttemptType
  <1>1. ASSUME NEW d \in DOMAIN a
        PROVE  \A x \in Expand(a[d]) : x.event = d
    <2>1. \A x \in Expand(a[d]) : x.event = IdOf[a[d]]
      BY <1>0, ExpandType
    <2>2. IdOf[a[d]] = d
      OBVIOUS
    <2>3. QED
      BY <2>1, <2>2
  <1>2. Rows(e)' = Rows(e) \cup {x \in RowsOf(a) :
            x.event = e /\ \A y \in table : ~(y.event = x.event /\ y.index = x.index)}
    BY DEF Rows, Insert
  <1>3. CASE e \notin DOMAIN a
    <2>1. \A x \in RowsOf(a) : x.event # e
      BY <1>1, <1>3 DEF RowsOf
    <2>2. QED
      BY <1>2, <1>3, <2>1
  <1>4. CASE e \in DOMAIN a
    <2>1. \A x \in RowsOf(a) : x.event = e <=> x \in Expand(a[e])
      BY <1>1, <1>4 DEF RowsOf
    <2>2. Expand(a[e]) \subseteq RowsOf(a)
      BY <1>4 DEF RowsOf
    <2>3. CASE Rows(e) = {}
      <3>1. \A x \in RowsOf(a) : x.event = e =>
                \A y \in table : ~(y.event = x.event /\ y.index = x.index)
        BY <2>3 DEF Rows
      <3>2. QED
        BY <1>2, <1>4, <2>1, <2>2, <2>3, <3>1
    <2>4. CASE Rows(e) = Expand(a[e])
      BY <1>2, <1>4, <2>1, <2>4
    <2>5. QED
      BY <1>4, <2>3, <2>4
  <1>5. QED
    BY <1>3, <1>4

\* Such a transaction preserves what the invariant says of the table.
LEMMA WriteStep ==
  ASSUME TypeOK, IInv, NEW a \in Attempt, table' = Insert(a),
         UNCHANGED batchVars, UNCHANGED watermark,
         \A e \in DOMAIN a : Current(e, a[e]) \/ Done(e, a[e])
  PROVE  /\ \A e \in Event : Rows(e)' = IF e \in DOMAIN a THEN Expand(a[e]) ELSE Rows(e)
         /\ \A e \in Event : \A r : Done(e, r) => Done(e, r)'
         /\ SameBatch
         /\ Keyed' /\ WatermarksReached' /\ RowsExplained' /\ ConsumedSettled'
         /\ SeenDone' /\ NoSilentLoss'
  <1>1. SameBatch
    BY UnchangedBatch
  <1>2. DOMAIN a \subseteq Event /\ \A e \in DOMAIN a : a[e] \in Record
    BY AttemptType
  <1>3. ASSUME NEW e \in DOMAIN a
        PROVE  IdOf[a[e]] = e /\ (Rows(e) = {} \/ Rows(e) = Expand(a[e]))
    <2>1. CASE Current(e, a[e])
      <3>1. IdOf[a[e]] = e
        BY <2>1, SurvivesValid DEF Current
      <3>2. Rows(e) = {} \/ \E r \in Record : Rows(e) = Expand(r) /\ (Current(e, r) \/ Done(e, r))
        BY <1>2, <1>3 DEF IInv, RowsExplained
      <3>3. \A r \in Record : ~Done(e, r)
        BY <2>1, DoneNotCurrent DEF Current
      <3>4. \A r \in Record : Current(e, r) => r = a[e]
        BY <2>1, SurvivesOne DEF Current
      <3>5. QED
        BY <3>1, <3>2, <3>3, <3>4
    <2>2. CASE Done(e, a[e])
      BY <2>2 DEF Done
    <2>3. QED
      BY <1>3, <2>1, <2>2
  <1>4. \A e \in Event : Rows(e)' = IF e \in DOMAIN a THEN Expand(a[e]) ELSE Rows(e)
    BY <1>3, InsertRows
  <1>5. ASSUME NEW e \in Event, NEW r, Done(e, r)
        PROVE  Done(e, r)'
    <2>1. Taken(committed)' = Taken(committed)
      BY <1>1 DEF SameBatch
    <2>2. Rows(e)' = Rows(e)
      <3>1. CASE e \in DOMAIN a
        <4>1. ~Current(e, a[e])
          BY <1>5, DoneNotCurrent DEF Current
        <4>2. Rows(e) = Expand(a[e])
          BY <3>1, <4>1 DEF Done
        <4>3. QED
          BY <1>4, <3>1, <4>2
      <3>2. CASE e \notin DOMAIN a
        BY <1>4, <3>2
      <3>3. QED
        BY <3>1, <3>2
    <2>3. QED
      BY <1>5, <2>1, <2>2 DEF Done
  <1>6. Keyed'
    BY DEF IInv, Keyed, batchVars
  <1>7. WatermarksReached'
    BY DEF IInv, WatermarksReached, Reached, Taken, batchVars
  <1>8. ConsumedSettled'
    BY DEF IInv, ConsumedSettled, Taken, Late, batchVars
  <1>9. ASSUME NEW e \in Event, NEW r \in Record, Current(e, r)
        PROVE  Current(e, r)'
    BY <1>1, <1>9 DEF Current, SameBatch
  <1>10. RowsExplained'
    <2> SUFFICES ASSUME NEW e \in Event, (Rows(e) # {})'
                 PROVE  \E r \in Record : (Rows(e) = Expand(r))' /\ (Current(e, r)' \/ Done(e, r)')
      BY DEF RowsExplained
    <2>1. CASE e \in DOMAIN a
      <3>1. a[e] \in Record /\ (Current(e, a[e])' \/ Done(e, a[e])')
        BY <1>2, <1>5, <1>9, <2>1
      <3>2. (Rows(e) = Expand(a[e]))'
        BY <1>4, <2>1 DEF Expand
      <3>3. QED
        BY <3>1, <3>2
    <2>2. CASE e \notin DOMAIN a
      <3>1. Rows(e)' = Rows(e)
        BY <1>4, <2>2
      <3>2. PICK r \in Record : Rows(e) = Expand(r) /\ (Current(e, r) \/ Done(e, r))
        BY <3>1 DEF IInv, RowsExplained
      <3>3. (Rows(e) = Expand(r))'
        BY <3>1, <3>2 DEF Expand
      <3>4. QED
        BY <1>5, <1>9, <3>2, <3>3
    <2>3. QED
      BY <2>1, <2>2
  <1>11. SeenDone'
    <2> SUFFICES ASSUME NEW e \in seen PROVE \E r \in Record : Done(e, r)'
      BY DEF SeenDone, batchVars
    <2>1. e \in Event
      BY DEF TypeOK
    <2>2. PICK r \in Record : Done(e, r)
      BY DEF IInv, SeenDone
    <2>3. QED
      BY <1>5, <2>1, <2>2
  <1>12. NoSilentLoss'
    <2> SUFFICES ASSUME NEW r \in Taken(committed), ~Overtaken(IdOf[r])'
                 PROVE  Represented(IdOf[r], committed)'
      BY <1>1 DEF NoSilentLoss, SameBatch
    <2>1. r \in Record /\ IdOf[r] \in Event
      BY ConstantsAssumption DEF Taken
    <2>2. ~Overtaken(IdOf[r])
      BY <1>1 DEF Overtaken, SameBatch
    <2>3. PICK q : Done(IdOf[r], q)
      BY <2>2 DEF IInv, NoSilentLoss, Represented, Done
    <2>4. Done(IdOf[r], q)'
      BY <1>5, <2>1, <2>3
    <2>5. QED
      BY <2>4 DEF Done, Represented
  <1>13. QED
    BY <1>1, <1>4, <1>5, <1>6, <1>7, <1>8, <1>10, <1>11, <1>12

\* What the invariant says of the table survives every step that leaves the
\* table and the open batch alone.
LEMMA QuietStep ==
  ASSUME TypeOK, IInv, SameBatch, UNCHANGED <<table, seen, watermark, lateWatermark>>
  PROVE  /\ \A e \in Event, r \in Record : Current(e, r) => Current(e, r)'
         /\ \A e \in Event, r \in Record : Done(e, r) => Done(e, r)'
         /\ WatermarksReached' /\ RowsExplained' /\ ConsumedSettled'
         /\ SeenDone' /\ NoSilentLoss'
  <1>1. \A e \in Event, r \in Record : Current(e, r) => Current(e, r)'
    BY DEF SameBatch, Current
  <1>2. \A e : Rows(e)' = Rows(e)
    BY DEF Rows
  <1>3. \A e \in Event, r \in Record : Done(e, r) => Done(e, r)'
    BY <1>2 DEF SameBatch, Done, Expand
  <1>4. WatermarksReached'
    BY DEF IInv, WatermarksReached, Reached, SameBatch
  <1>5. RowsExplained'
    <2> SUFFICES ASSUME NEW e \in Event, (Rows(e) # {})'
                 PROVE  \E r \in Record : (Rows(e) = Expand(r))' /\ (Current(e, r)' \/ Done(e, r)')
      BY DEF RowsExplained
    <2>1. PICK r \in Record : Rows(e) = Expand(r) /\ (Current(e, r) \/ Done(e, r))
      BY <1>2 DEF IInv, RowsExplained
    <2>2. (Rows(e) = Expand(r))'
      BY <1>2, <2>1 DEF Expand
    <2>3. QED
      BY <1>1, <1>3, <2>1, <2>2
  <1>6. ConsumedSettled'
    BY DEF IInv, ConsumedSettled, SameBatch, Late
  <1>7. SeenDone'
    BY <1>3 DEF IInv, SeenDone, TypeOK
  <1>8. NoSilentLoss'
    <2> SUFFICES ASSUME NEW r \in Taken(committed), ~Overtaken(IdOf[r])'
                 PROVE  Represented(IdOf[r], committed)'
      BY DEF NoSilentLoss, SameBatch
    <2>1. ~Overtaken(IdOf[r])
      BY DEF Overtaken, SameBatch
    <2>2. PICK q \in Taken(committed) : IdOf[q] = IdOf[r] /\ Rows(IdOf[r]) = Expand(q)
      BY <2>1 DEF IInv, NoSilentLoss, Represented
    <2>3. (Rows(IdOf[r]) = Expand(q))'
      BY <1>2, <2>2 DEF Expand
    <2>4. QED
      BY <2>2, <2>3 DEF SameBatch, Represented
  <1>9. QED
    BY <1>1, <1>3, <1>4, <1>5, <1>6, <1>7, <1>8

-----------------------------------------------------------------------------
(* The inductive invariant, action by action. *)

LEMMA InitIInv == Init => IInv
  <1> SUFFICES ASSUME Init PROVE IInv
    OBVIOUS
  <1>1. \A p \in Partition : base[p] = 0 /\ committed[p] = 0 /\ planned[p] = 0 /\ log[p] = <<>>
    BY DEF Init
  <1>2. Taken(committed) = {}
    BY <1>1 DEF Taken
  <1>3. \A e : Rows(e) = {}
    BY DEF Init, Rows
  <1>4. OffsetsOrdered
    BY <1>1 DEF Init, OffsetsOrdered
  <1>5. Keyed
    BY <1>1 DEF Keyed
  <1>6. WatermarksReached
    BY DEF Init, WatermarksReached, Reached
  <1>7. TasksCurrent
    BY EmptyAttempt DEF Init, TasksCurrent
  <1>8. OrphansHarmless /\ SeenDone /\ RunCovers
    BY DEF Init, OrphansHarmless, SeenDone, RunCovers
  <1>9. QED
    BY <1>2, <1>3, <1>4, <1>5, <1>6, <1>7, <1>8
       DEF IInv, RowsExplained, ConsumedSettled, NoSilentLoss

LEMMA PublishIInv ==
  ASSUME TypeOK, TypeOK', IInv, NEW r \in Record, Publish(r)
  PROVE  IInv'
  <1>1. UNCHANGED <<ckptVars, phase, tasks, orphans, table>>
    BY DEF Publish
  <1>2. /\ SameBatch /\ Keyed'
        /\ \A p \in Partition : Len(log[p]) <= Len(log'[p])
    BY PublishBatch
  <1>3. /\ \A e \in Event, x \in Record : Current(e, x) => Current(e, x)'
        /\ \A e \in Event, x \in Record : Done(e, x) => Done(e, x)'
        /\ WatermarksReached' /\ RowsExplained' /\ ConsumedSettled'
        /\ SeenDone' /\ NoSilentLoss'
    BY <1>1, <1>2, QuietStep DEF ckptVars
  <1>4. OffsetsOrdered'
    <2>1. \A p \in Partition : planned[p] \in Nat /\ Len(log[p]) \in Nat /\ Len(log'[p]) \in Nat
      BY DEF TypeOK
    <2>2. \A p \in Partition : planned[p] <= Len(log'[p])
      BY <1>2, <2>1 DEF IInv, OffsetsOrdered
    <2>3. QED
      BY <1>1, <2>2 DEF IInv, OffsetsOrdered, ckptVars
  <1>5. TasksCurrent'
    BY <1>1, <1>3 DEF IInv, TasksCurrent, TypeOK, ckptVars, Attempt
  <1>6. OrphansHarmless'
    BY <1>1, <1>3 DEF IInv, OrphansHarmless, TypeOK, Attempt
  <1>7. RunCovers'
    BY <1>1, <1>2 DEF IInv, RunCovers, SameBatch, Rows, Expand, Eligible
  <1>8. QED
    BY <1>2, <1>3, <1>4, <1>5, <1>6, <1>7 DEF IInv

LEMMA StartQueryIInv ==
  ASSUME TypeOK, TypeOK', IInv, StartQuery
  PROVE  IInv'
  <1>1. /\ UNCHANGED <<log, open, watermark, lateWatermark, seen, tasks, orphans, table>>
        /\ phase' = "idle" /\ started' = TRUE
        /\ \A t \in Task : DOMAIN tasks[t] = {}
    BY DEF StartQuery, IInv, TasksCurrent
  <1>2. Keyed' /\ TasksCurrent' /\ RunCovers'
    BY <1>1 DEF IInv, Keyed, TasksCurrent, RunCovers
  <1>3. CASE UNCHANGED <<base, planned, committed>>
    <2>1. SameBatch
      BY <1>1, <1>3, UnchangedBatch DEF batchVars
    <2>2. /\ \A e \in Event, x \in Record : Current(e, x) => Current(e, x)'
          /\ \A e \in Event, x \in Record : Done(e, x) => Done(e, x)'
          /\ WatermarksReached' /\ RowsExplained' /\ ConsumedSettled'
          /\ SeenDone' /\ NoSilentLoss'
      BY <1>1, <2>1, QuietStep
    <2>3. OffsetsOrdered'
      BY <1>1, <1>3 DEF IInv, OffsetsOrdered
    <2>4. OrphansHarmless'
      BY <1>1, <2>2 DEF IInv, OrphansHarmless, TypeOK, Attempt
    <2>5. QED
      BY <1>2, <2>2, <2>3, <2>4 DEF IInv
  <1>4. CASE ~started /\ base' = [p \in Partition |-> Len(log[p])]
                      /\ planned' = base' /\ committed' = base'
    <2>1. ~open /\ table = {} /\ seen = {} /\ orphans = {} /\ watermark = 0
      BY <1>4 DEF IInv, OffsetsOrdered
    <2>2. \A p \in Partition : /\ base'[p] = Len(log[p]) /\ committed'[p] = Len(log[p])
                               /\ planned'[p] = Len(log[p]) /\ Len(log[p]) \in Nat
      BY <1>4 DEF TypeOK
    <2>3. OffsetsOrdered'
      BY <1>1, <1>4, <2>2 DEF OffsetsOrdered
    <2>4. Taken(committed)' = {}
      BY <2>2 DEF Taken
    <2>5. \A e : Rows(e)' = {}
      BY <1>1, <2>1 DEF Rows
    <2>6. WatermarksReached'
      BY <1>1, <2>1 DEF IInv, WatermarksReached, Reached, TypeOK
    <2>7. OrphansHarmless' /\ SeenDone'
      BY <1>1, <2>1 DEF OrphansHarmless, SeenDone
    <2>8. RowsExplained' /\ ConsumedSettled' /\ NoSilentLoss'
      BY <2>4, <2>5 DEF RowsExplained, ConsumedSettled, NoSilentLoss
    <2>9. QED
      BY <1>2, <2>3, <2>6, <2>7, <2>8 DEF IInv
  <1>5. QED
    BY <1>3, <1>4 DEF StartQuery

\* Between batches the range is empty, so nothing is Current: all the rows
\* and stray attempts there are belong to committed batches.
LEMMA BetweenBatches ==
  ASSUME TypeOK, IInv, ~open
  PROVE  Eligible = {}
  <1>1. \A p \in Partition : BatchOffsets(p) = {}
    <2>1. planned = committed
      BY DEF IInv, OffsetsOrdered
    <2>2. \A p \in Partition : committed[p] \in Nat
      BY DEF TypeOK
    <2>3. \A n \in Nat : \A i : i \notin (n + 1) .. n
      OBVIOUS
    <2>4. QED
      BY <2>1, <2>2, <2>3 DEF BatchOffsets
  <1>2. QED
    BY <1>1, ConstantsAssumption DEF Eligible, OffsetsOf, ValidOffsets

LEMMA PlanBatchIInv ==
  ASSUME TypeOK, TypeOK', IInv, PlanBatch
  PROVE  IInv'
  <1>1. /\ UNCHANGED <<log, started, base, committed, watermark, lateWatermark,
                       seen, phase, tasks, orphans, table>>
        /\ phase = "idle" /\ ~open /\ open'
        /\ planned' = [p \in Partition |-> Len(log[p])]
    BY DEF PlanBatch
  <1>2. Eligible = {}
    BY <1>1, BetweenBatches
  <1>3. \A e, x : ~Current(e, x)
    BY <1>2 DEF Current
  <1>4. Taken(committed)' = Taken(committed)
    BY <1>1 DEF Taken
  <1>5. \A e : Rows(e)' = Rows(e)
    BY <1>1 DEF Rows
  <1>6. \A e, x : Done(e, x) => Done(e, x)'
    BY <1>4, <1>5 DEF Done, Expand
  <1>7. OffsetsOrdered'
    BY <1>1 DEF IInv, OffsetsOrdered, TypeOK
  <1>8. Keyed' /\ WatermarksReached' /\ TasksCurrent' /\ RunCovers'
    BY <1>1, <1>4 DEF IInv, Keyed, WatermarksReached, Reached, TasksCurrent, RunCovers
  <1>9. OrphansHarmless'
    BY <1>1, <1>3, <1>6 DEF IInv, OrphansHarmless
  <1>10. RowsExplained'
    <2> SUFFICES ASSUME NEW e \in Event, (Rows(e) # {})'
                 PROVE  \E r \in Record : (Rows(e) = Expand(r))' /\ (Current(e, r)' \/ Done(e, r)')
      BY DEF RowsExplained
    <2>1. PICK r \in Record : Rows(e) = Expand(r) /\ Done(e, r)
      BY <1>3, <1>5 DEF IInv, RowsExplained
    <2>2. (Rows(e) = Expand(r))'
      BY <1>5, <2>1 DEF Expand
    <2>3. QED
      BY <1>6, <2>1, <2>2
  <1>11. ConsumedSettled' /\ SeenDone'
    BY <1>1, <1>4, <1>6 DEF IInv, ConsumedSettled, SeenDone, Late
  <1>12. NoSilentLoss'
    BY <1>4, <1>5 DEF IInv, NoSilentLoss, Represented, Overtaken, Expand
  <1>13. QED
    BY <1>7, <1>8, <1>9, <1>10, <1>11, <1>12 DEF IInv

LEMMA RunBatchIInv ==
  ASSUME TypeOK, TypeOK', IInv, RunBatch
  PROVE  IInv'
  <1>1. /\ UNCHANGED <<log, ckptVars, orphans, table>>
        /\ open /\ phase' = "run"
    BY DEF RunBatch
  <1>2. SameBatch
    BY <1>1, UnchangedBatch DEF batchVars, ckptVars
  <1>3. /\ \A e \in Event, x \in Record : Current(e, x) => Current(e, x)'
        /\ \A e \in Event, x \in Record : Done(e, x) => Done(e, x)'
        /\ WatermarksReached' /\ RowsExplained' /\ ConsumedSettled'
        /\ SeenDone' /\ NoSilentLoss'
    BY <1>1, <1>2, QuietStep DEF ckptVars
  <1>4. OffsetsOrdered' /\ Keyed'
    BY <1>1 DEF IInv, OffsetsOrdered, Keyed, ckptVars
  <1>5. PICK kept \in [Eligible -> Valid] :
            /\ \A e \in Eligible : Survives(e, kept[e])
            /\ \E on \in [Eligible -> Task] :
                  tasks' = [t \in Task |-> [e \in {d \in DOMAIN kept : on[d] = t} |-> kept[e]]]
    BY DEF RunBatch
  <1>6. PICK on \in [Eligible -> Task] :
            tasks' = [t \in Task |-> [e \in {d \in DOMAIN kept : on[d] = t} |-> kept[e]]]
    BY <1>5
  <1>7. \A t \in Task : /\ DOMAIN tasks'[t] = {d \in Eligible : on[d] = t}
                        /\ \A e \in DOMAIN tasks'[t] : tasks'[t][e] = kept[e]
    BY <1>6
  <1>8. \A e \in Eligible : e \in Event /\ kept[e] \in Record /\ Current(e, kept[e])
    BY <1>5, SurvivesValid DEF Current, Eligible
  <1>9. TasksCurrent'
    <2> SUFFICES ASSUME NEW t \in Task, NEW e \in DOMAIN tasks'[t]
                 PROVE  /\ e \in Eligible'
                        /\ \E i \in OffsetsOf(e)' :
                              /\ \A j \in OffsetsOf(e)' : i <= j
                              /\ tasks'[t][e] = log'[PartitionOf[e]][i]
      BY <1>1 DEF TasksCurrent, Current, Survives, ckptVars
    <2>1. e \in Eligible /\ tasks'[t][e] = kept[e]
      BY <1>7
    <2>2. Current(e, kept[e])'
      BY <1>3, <1>8, <2>1
    <2>3. QED
      BY <2>1, <2>2 DEF Current, Survives
  <1>10. OrphansHarmless'
    BY <1>1, <1>3 DEF IInv, OrphansHarmless, TypeOK, Attempt
  <1>11. RunCovers'
    <2> SUFFICES ASSUME NEW e \in Eligible PROVE \E t \in Task : e \in DOMAIN tasks'[t]
      BY <1>2 DEF RunCovers, SameBatch
    <2>1. on[e] \in Task /\ e \in DOMAIN tasks'[on[e]]
      BY <1>7
    <2>2. QED
      BY <2>1
  <1>12. QED
    BY <1>3, <1>4, <1>9, <1>10, <1>11 DEF IInv

LEMMA WritePartitionIInv ==
  ASSUME TypeOK, TypeOK', IInv, NEW t \in Task, WritePartition(t)
  PROVE  IInv'
  <1>0. PICK a \in Attempt : a = tasks[t]
    BY DEF TypeOK
  <1>1. /\ UNCHANGED <<log, ckptVars, phase, orphans>>
        /\ table' = Insert(a) /\ phase = "run"
        /\ tasks' = [tasks EXCEPT ![t] = NoAttempt]
    BY <1>0 DEF WritePartition
  <1>2. \A e \in DOMAIN a : Current(e, a[e])
    BY <1>0 DEF IInv, TasksCurrent
  <1>3. UNCHANGED batchVars /\ UNCHANGED watermark
    BY <1>1 DEF batchVars, ckptVars
  <1>4. /\ \A e \in Event : Rows(e)' = IF e \in DOMAIN a THEN Expand(a[e]) ELSE Rows(e)
        /\ \A e \in Event : \A r : Done(e, r) => Done(e, r)'
        /\ SameBatch
        /\ Keyed' /\ WatermarksReached' /\ RowsExplained' /\ ConsumedSettled'
        /\ SeenDone' /\ NoSilentLoss'
    BY <1>1, <1>2, <1>3, WriteStep
  <1>5. OffsetsOrdered'
    BY <1>1 DEF IInv, OffsetsOrdered, ckptVars
  <1>6. /\ DOMAIN tasks'[t] = {}
        /\ \A u \in Task : u # t => tasks'[u] = tasks[u]
    BY <1>1, EmptyAttempt DEF TypeOK
  <1>7. \A e \in Event, r \in Record : Current(e, r) => Current(e, r)'
    BY <1>4 DEF Current, SameBatch
  <1>8. TasksCurrent'
    <2> SUFFICES ASSUME NEW u \in Task, NEW e \in DOMAIN tasks'[u]
                 PROVE  /\ e \in Eligible'
                        /\ \E i \in OffsetsOf(e)' :
                              /\ \A j \in OffsetsOf(e)' : i <= j
                              /\ tasks'[u][e] = log'[PartitionOf[e]][i]
      BY <1>1 DEF TasksCurrent, Current, Survives, IInv, ckptVars
    <2>1. u # t /\ tasks'[u] = tasks[u]
      BY <1>6
    <2>2. PICK x \in Record : x = tasks[u][e] /\ e \in Event /\ Current(e, x)
      BY <2>1, AttemptType DEF TypeOK, IInv, TasksCurrent
    <2>3. Current(e, x)'
      BY <1>7, <2>2
    <2>4. QED
      BY <2>1, <2>2, <2>3 DEF Current, Survives
  <1>9. OrphansHarmless'
    BY <1>1, <1>4, <1>7 DEF IInv, OrphansHarmless, TypeOK, Attempt
  <1>10. RunCovers'
    <2> SUFFICES ASSUME NEW e \in Eligible
                 PROVE  \/ \E u \in Task : e \in DOMAIN tasks'[u]
                        \/ \E r \in Record : Survives(e, r)' /\ (Rows(e) = Expand(r))'
      BY <1>4 DEF RunCovers, SameBatch
    <2>0. e \in Event
      BY DEF Eligible
    <2>1. CASE e \in DOMAIN a
      <3>1. a[e] \in Record /\ Survives(e, a[e])
        BY <1>2, <2>1, AttemptType DEF Current
      <3>2. Survives(e, a[e])'
        BY <1>4, <2>0, <3>1 DEF SameBatch
      <3>3. (Rows(e) = Expand(a[e]))'
        BY <1>4, <2>0, <2>1 DEF Expand
      <3>4. QED
        BY <3>1, <3>2, <3>3
    <2>2. CASE \E u \in Task : e \in DOMAIN tasks[u] /\ u # t
      BY <1>6, <2>2
    <2>3. CASE e \notin DOMAIN a /\ \E r \in Record : Survives(e, r) /\ Rows(e) = Expand(r)
      <3>1. PICK r \in Record : Survives(e, r) /\ Rows(e) = Expand(r)
        BY <2>3
      <3>2. Survives(e, r)' /\ (Rows(e) = Expand(r))'
        BY <1>4, <2>0, <2>3, <3>1 DEF SameBatch, Expand
      <3>3. QED
        BY <3>2
    <2>4. QED
      BY <1>0, <1>1, <2>1, <2>2, <2>3 DEF IInv, RunCovers
  <1>11. QED
    BY <1>4, <1>5, <1>8, <1>9, <1>10 DEF IInv

\* What a commit does to the records: those of the batch are done, were done
\* already, or were late, and what makes them late was committed before.
LEMMA CommitFacts ==
  ASSUME TypeOK, IInv, CommitBatch
  PROVE  /\ \A r : r \in Taken(committed) => r \in Taken(committed)'
         /\ \A e, r : Done(e, r) => Done(e, r)'
         /\ \A e \in Eligible : \E r \in Record : Survives(e, r) /\ Done(e, r)'
         /\ \A e \in Event : Late(e) => Overtaken(e)
         /\ \A r \in Taken(committed)' :
               r \notin Taken(committed) => OffsetsOf(IdOf[r]) # {} /\ IdOf[r] \in Event
  <1>1. /\ UNCHANGED <<log, started, base, planned, tasks, orphans, table>>
        /\ phase = "run" /\ open /\ phase' = "idle" /\ ~open'
        /\ committed' = planned /\ lateWatermark' = watermark
        /\ \A t \in Task : DOMAIN tasks[t] = {}
    BY DEF CommitBatch, AllWritten, IInv, TasksCurrent
  <1>2. \A p \in Partition : /\ base[p] \in Nat /\ committed[p] \in Nat /\ planned[p] \in Nat
                             /\ Len(log[p]) \in Nat
                             /\ base[p] <= committed[p] /\ committed[p] <= planned[p]
                             /\ planned[p] <= Len(log[p])
    BY OffsetFacts
  <1>3. \A e : Rows(e)' = Rows(e)
    BY <1>1 DEF Rows
  <1>4. \A r : r \in Taken(committed)' <=>
            r \in Valid /\ \E p \in Partition : \E i \in (base[p] + 1) .. planned[p] : r = log[p][i]
    BY <1>1 DEF Taken
  <1>5. \A r : r \in Taken(committed) => r \in Taken(committed)'
    <2> SUFFICES ASSUME NEW r \in Taken(committed) PROVE r \in Taken(committed)'
      OBVIOUS
    <2>1. PICK p \in Partition : \E i \in (base[p] + 1) .. committed[p] : r = log[p][i]
      BY DEF Taken
    <2>2. PICK i \in (base[p] + 1) .. committed[p] : r = log[p][i]
      BY <2>1
    <2>3. i \in (base[p] + 1) .. planned[p]
      BY <1>2
    <2>4. QED
      BY <1>4, <2>2, <2>3 DEF Taken
  <1>6. \A e \in Event : \A r : Survives(e, r) => r \in Taken(committed)'
    <2> SUFFICES ASSUME NEW e \in Event, NEW r, Survives(e, r) PROVE r \in Taken(committed)'
      OBVIOUS
    <2>1. PICK i \in OffsetsOf(e) : r = log[PartitionOf[e]][i]
      BY DEF Survives
    <2>2. PartitionOf[e] \in Partition /\ i \in BatchOffsets(PartitionOf[e]) /\ r \in Valid
      BY <2>1, ConstantsAssumption DEF OffsetsOf, ValidOffsets
    <2>3. i \in (base[PartitionOf[e]] + 1) .. planned[PartitionOf[e]]
      BY <1>2, <2>2 DEF BatchOffsets
    <2>4. QED
      BY <1>4, <2>1, <2>2, <2>3
  <1>7. \A e, r : Done(e, r) => Done(e, r)'
    BY <1>3, <1>5 DEF Done, Expand
  <1>8. ASSUME NEW e \in Eligible
        PROVE  \E r \in Record : Survives(e, r) /\ Done(e, r)'
    <2>1. PICK r \in Record : Survives(e, r) /\ Rows(e) = Expand(r)
      BY <1>1 DEF IInv, RunCovers
    <2>2. IdOf[r] = e /\ r \in Taken(committed)'
      BY <1>6, <2>1, SurvivesValid DEF Eligible
    <2>3. QED
      BY <1>3, <2>1, <2>2 DEF Done, Expand
  <1>10. \A e \in Event : Late(e) => Overtaken(e)
    <2> SUFFICES ASSUME NEW e \in Event, Late(e) PROVE Overtaken(e)
      OBVIOUS
    <2>1. TimeOf[e] \in Nat /\ TimeOf[e] # 0 /\ Delay \in Nat
      BY ConstantsAssumption
    <2>2. lateWatermark # 0 /\ lateWatermark \in Int /\ TimeOf[e] <= lateWatermark
      BY <2>1 DEF Late, TypeOK
    <2>3. PICK r \in Taken(committed) : lateWatermark + Delay <= TimeOf[IdOf[r]]
      BY <2>2 DEF IInv, WatermarksReached, Reached
    <2>4. TimeOf[IdOf[r]] \in Nat
      BY ConstantsAssumption DEF Taken
    <2>5. QED
      BY <2>1, <2>2, <2>3, <2>4 DEF Overtaken
  <1>12. ASSUME NEW r \in Taken(committed)', r \notin Taken(committed)
         PROVE  OffsetsOf(IdOf[r]) # {} /\ IdOf[r] \in Event
    <2>1. PICK p \in Partition : \E i \in (base[p] + 1) .. planned[p] : r = log[p][i]
      BY <1>4
    <2>2. PICK i \in (base[p] + 1) .. planned[p] : r = log[p][i]
      BY <2>1
    <2>3. r \in Valid /\ IdOf[r] \in Event
      BY <1>4, ConstantsAssumption
    <2>4. i \notin (base[p] + 1) .. committed[p]
      BY <1>12, <2>2, <2>3 DEF Taken
    <2>5. i \in BatchOffsets(p)
      BY <1>2, <2>4 DEF BatchOffsets
    <2>6. PartitionOf[IdOf[r]] = p
      BY <1>2, <2>2 DEF IInv, Keyed
    <2>7. QED
      BY <2>2, <2>3, <2>5, <2>6 DEF OffsetsOf, ValidOffsets
  <1>13. QED
    BY <1>5, <1>7, <1>8, <1>10, <1>12

\* Committing a batch: its survivors are done, its duplicates are settled,
\* its late events were overtaken.
LEMMA CommitBatchIInv ==
  ASSUME TypeOK, TypeOK', IInv, CommitBatch
  PROVE  IInv'
  <1>1. /\ UNCHANGED <<log, started, base, planned, tasks, orphans, table>>
        /\ phase = "run" /\ open /\ phase' = "idle" /\ ~open'
        /\ committed' = planned /\ lateWatermark' = watermark
        /\ \A t \in Task : DOMAIN tasks[t] = {}
    BY DEF CommitBatch, AllWritten, IInv, TasksCurrent
  <1>2. \A p \in Partition : /\ base[p] \in Nat /\ committed[p] \in Nat /\ planned[p] \in Nat
                             /\ Len(log[p]) \in Nat
                             /\ base[p] <= committed[p] /\ committed[p] <= planned[p]
                             /\ planned[p] <= Len(log[p])
    BY OffsetFacts
  <1>3. \A e : Rows(e)' = Rows(e)
    BY <1>1 DEF Rows
  <1>4. \A r : r \in Taken(committed)' <=>
            r \in Valid /\ \E p \in Partition : \E i \in (base[p] + 1) .. planned[p] : r = log[p][i]
    BY <1>1 DEF Taken
  <1>5. \A r : r \in Taken(committed) => r \in Taken(committed)'
    BY CommitFacts
  <1>7. \A e, r : Done(e, r) => Done(e, r)'
    BY CommitFacts
  <1>8. \A e \in Eligible : \E r \in Record : Survives(e, r) /\ Done(e, r)'
    BY CommitFacts
  <1>9. \A e \in Event : \A r : Current(e, r) => Done(e, r)'
    BY <1>8, SurvivesOne DEF Current
  <1>10. \A e \in Event : Late(e) => Overtaken(e)
    BY CommitFacts
  <1>11. \A e : Overtaken(e) => Overtaken(e)'
    BY <1>5 DEF Overtaken
  <1>12. \A r \in Taken(committed)' :
            r \notin Taken(committed) => OffsetsOf(IdOf[r]) # {} /\ IdOf[r] \in Event
    BY CommitFacts
  <1>13. watermark <= watermark' /\ Reached(watermark)'
    <2>1. PICK w \in {watermark} \cup {m - Delay : m \in ValidTimes} :
              watermark <= w /\ watermark' = w
      BY DEF CommitBatch
    <2>2. CASE w = watermark
      <3>1. Reached(watermark)
        BY DEF IInv, WatermarksReached
      <3>2. QED
        BY <1>5, <2>1, <2>2, <3>1 DEF Reached
    <2>3. CASE \E m \in ValidTimes : w = m - Delay
      <3>1. PICK m \in ValidTimes : w = m - Delay
        BY <2>3
      <3>2. PICK p \in Partition : \E i \in BatchOffsets(p) :
                log[p][i] \in Valid /\ m = TimeOf[IdOf[log[p][i]]]
        BY DEF ValidTimes, ValidOffsets
      <3>3. PICK i \in BatchOffsets(p) : log[p][i] \in Valid /\ m = TimeOf[IdOf[log[p][i]]]
        BY <3>2
      <3>4. i \in (base[p] + 1) .. planned[p]
        BY <1>2 DEF BatchOffsets
      <3>5. log[p][i] \in Taken(committed)'
        BY <1>4, <3>3, <3>4
      <3>6. m \in Nat /\ Delay \in Nat
        BY ValidTimesType, ConstantsAssumption
      <3>7. watermark' + Delay <= m
        BY <2>1, <3>1, <3>6
      <3>8. PICK r : r = log[p][i]
        OBVIOUS
      <3>9. r \in Taken(committed)' /\ watermark' + Delay <= TimeOf[IdOf[r]]
        BY <3>3, <3>5, <3>7, <3>8
      <3>10. QED
        BY <2>1, <3>9 DEF Reached
    <2>4. QED
      BY <2>1, <2>2, <2>3
  <1>14. WatermarksReached'
    <2>1. Reached(lateWatermark)'
      <3>1. Reached(watermark)
        BY DEF IInv, WatermarksReached
      <3>2. QED
        BY <1>1, <1>5, <3>1 DEF Reached
    <2>2. 0 <= watermark
      BY DEF IInv, WatermarksReached, TypeOK
    <2>3. QED
      BY <1>1, <1>13, <2>1, <2>2 DEF WatermarksReached
  <1>15. OffsetsOrdered'
    BY <1>1, <1>2 DEF IInv, OffsetsOrdered
  <1>16. Keyed' /\ TasksCurrent' /\ RunCovers'
    BY <1>1 DEF IInv, Keyed, TasksCurrent, RunCovers
  <1>17. OrphansHarmless'
    BY <1>1, <1>7, <1>9 DEF IInv, OrphansHarmless, TypeOK, Attempt
  <1>18. RowsExplained'
    <2> SUFFICES ASSUME NEW e \in Event, (Rows(e) # {})'
                 PROVE  \E r \in Record : (Rows(e) = Expand(r))' /\ (Current(e, r)' \/ Done(e, r)')
      BY DEF RowsExplained
    <2>1. PICK r \in Record : Rows(e) = Expand(r) /\ (Current(e, r) \/ Done(e, r))
      BY <1>3 DEF IInv, RowsExplained
    <2>2. (Rows(e) = Expand(r))'
      BY <1>3, <2>1 DEF Expand
    <2>3. QED
      BY <1>7, <1>9, <2>1, <2>2
  <1>19. SeenDone'
    <2> SUFFICES ASSUME NEW e \in seen' PROVE \E r \in Record : Done(e, r)'
      BY DEF SeenDone
    <2>1. e \in seen \/ e \in Eligible
      BY DEF CommitBatch
    <2>2. QED
      BY <1>7, <1>8, <2>1 DEF IInv, SeenDone
  <1>20. ASSUME NEW e \in Event, Late(e)
         PROVE  Late(e)'
    <2>1. TimeOf[e] \in Nat /\ lateWatermark \in Int /\ watermark \in Int
      BY ConstantsAssumption DEF TypeOK
    <2>2. TimeOf[e] <= lateWatermark /\ lateWatermark <= watermark
      BY <1>20 DEF Late, IInv, WatermarksReached
    <2>3. TimeOf[e] <= watermark
      BY <2>1, <2>2
    <2>4. QED
      BY <1>1, <2>3 DEF Late
  <1>21. ASSUME NEW e \in Event, e \in seen \cup Eligible
         PROVE  e \in seen' \/ Late(e)'
    <2>1. CASE Expired(e)
      <3>1. TimeOf[e] \in Nat /\ Delay \in Nat /\ watermark \in Int
        BY ConstantsAssumption DEF TypeOK
      <3>2. TimeOf[e] <= watermark
        BY <2>1, <3>1 DEF Expired
      <3>3. QED
        BY <1>1, <3>2 DEF Late
    <2>2. CASE ~Expired(e)
      BY <1>21, <2>2 DEF CommitBatch
    <2>3. QED
      BY <2>1, <2>2
  <1>22. ConsumedSettled'
    <2> SUFFICES ASSUME NEW r \in Taken(committed)'
                 PROVE  IdOf[r] \in seen' \/ Late(IdOf[r])'
      BY DEF ConsumedSettled
    <2>1. IdOf[r] \in Event
      BY <1>4, ConstantsAssumption
    <2>2. CASE r \in Taken(committed)
      BY <1>20, <1>21, <2>1, <2>2 DEF IInv, ConsumedSettled
    <2>3. CASE r \notin Taken(committed)
      BY <1>12, <1>20, <1>21, <2>1, <2>3 DEF Eligible
    <2>4. QED
      BY <2>2, <2>3
  <1>23. NoSilentLoss'
    <2> SUFFICES ASSUME NEW r \in Taken(committed)', ~Overtaken(IdOf[r])'
                 PROVE  \E q : Done(IdOf[r], q)'
      BY DEF NoSilentLoss, Represented, Done
    <2>1. CASE r \in Taken(committed)
      <3>1. PICK q : Done(IdOf[r], q)
        BY <1>11, <2>1 DEF IInv, NoSilentLoss, Represented, Done
      <3>2. QED
        BY <1>7, <3>1
    <2>2. CASE r \notin Taken(committed)
      <3>1. IdOf[r] \in Event /\ ~Late(IdOf[r])
        BY <1>10, <1>11, <1>12, <2>2
      <3>2. IdOf[r] \in Eligible \/ IdOf[r] \in seen
        BY <1>12, <2>2, <3>1 DEF Eligible
      <3>3. QED
        BY <1>7, <1>8, <3>2 DEF IInv, SeenDone
    <2>3. QED
      BY <2>1, <2>2
  <1>24. QED
    BY <1>14, <1>15, <1>16, <1>17, <1>18, <1>19, <1>22, <1>23 DEF IInv

\* Steps that touch neither the table nor the checkpoint: the driver stops or
\* a task attempt becomes or ceases to be an orphan.
LEMMA AttemptStep ==
  ASSUME TypeOK, TypeOK', IInv, UNCHANGED <<log, ckptVars, table>>,
         orphans' \subseteq orphans \cup InFlight,
         \/ UNCHANGED <<phase, tasks>>
         \/ phase' = "down" /\ \A t \in Task : DOMAIN tasks'[t] = {},
         ~started => UNCHANGED phase /\ orphans' = {}
  PROVE  IInv'
  <1>1. SameBatch
    BY UnchangedBatch DEF batchVars, ckptVars
  <1>2. /\ \A e \in Event, x \in Record : Current(e, x) => Current(e, x)'
        /\ \A e \in Event, x \in Record : Done(e, x) => Done(e, x)'
        /\ WatermarksReached' /\ RowsExplained' /\ ConsumedSettled'
        /\ SeenDone' /\ NoSilentLoss'
    BY <1>1, QuietStep DEF ckptVars
  <1>3. OffsetsOrdered' /\ Keyed'
    BY DEF IInv, OffsetsOrdered, Keyed, ckptVars
  <1>4. OrphansHarmless'
    <2> SUFFICES ASSUME NEW a \in orphans', NEW e \in DOMAIN a
                 PROVE  Current(e, a[e])' \/ Done(e, a[e])'
      BY DEF OrphansHarmless
    <2>1. Current(e, a[e]) \/ Done(e, a[e])
      BY DEF IInv, OrphansHarmless, TasksCurrent, InFlight
    <2>2. e \in Event /\ a[e] \in Record
      BY AttemptType DEF TypeOK
    <2>3. QED
      BY <1>2, <2>1, <2>2
  <1>5. TasksCurrent' /\ RunCovers'
    <2>1. CASE UNCHANGED <<phase, tasks>>
      <3>1. TasksCurrent'
        BY <2>1 DEF IInv, TasksCurrent, Current, Survives, Eligible, OffsetsOf, ValidOffsets,
                    BatchOffsets, Late, ckptVars
      <3>2. RunCovers'
        BY <2>1 DEF IInv, RunCovers, Survives, Eligible, OffsetsOf, ValidOffsets, BatchOffsets,
                    Late, Rows, Expand, ckptVars
      <3>3. QED
        BY <3>1, <3>2
    <2>2. CASE phase' = "down" /\ \A t \in Task : DOMAIN tasks'[t] = {}
      BY <2>2 DEF TasksCurrent, RunCovers
    <2>3. QED
      BY <2>1, <2>2
  <1>6. QED
    BY <1>2, <1>3, <1>4, <1>5 DEF IInv

LEMMA OrphanCommitsIInv ==
  ASSUME TypeOK, TypeOK', IInv, NEW a \in orphans, OrphanCommits(a)
  PROVE  IInv'
  <1>1. /\ UNCHANGED <<log, ckptVars, phase, tasks>>
        /\ table' = Insert(a) /\ orphans' = orphans \ {a}
    BY DEF OrphanCommits
  <1>2. a \in Attempt /\ \A e \in DOMAIN a : Current(e, a[e]) \/ Done(e, a[e])
    BY DEF TypeOK, IInv, OrphansHarmless
  <1>3. UNCHANGED batchVars /\ UNCHANGED watermark
    BY <1>1 DEF batchVars, ckptVars
  <1>4. /\ \A e \in Event : Rows(e)' = IF e \in DOMAIN a THEN Expand(a[e]) ELSE Rows(e)
        /\ \A e \in Event : \A r : Done(e, r) => Done(e, r)'
        /\ SameBatch
        /\ Keyed' /\ WatermarksReached' /\ RowsExplained' /\ ConsumedSettled'
        /\ SeenDone' /\ NoSilentLoss'
    BY <1>1, <1>2, <1>3, WriteStep
  <1>5. started
    BY DEF IInv, OffsetsOrdered
  <1>6. OffsetsOrdered'
    BY <1>1, <1>5 DEF IInv, OffsetsOrdered, ckptVars
  <1>7. \A e \in Event, r \in Record : Current(e, r) => Current(e, r)'
    BY <1>4 DEF Current, SameBatch
  <1>8. TasksCurrent'
    BY <1>1 DEF IInv, TasksCurrent, Current, Survives, Eligible, OffsetsOf, ValidOffsets,
                BatchOffsets, Late, ckptVars
  <1>9. OrphansHarmless'
    BY <1>1, <1>4, <1>7 DEF IInv, OrphansHarmless, TypeOK, Attempt
  <1>10. RunCovers'
    <2> SUFFICES ASSUME phase = "run", NEW e \in Eligible, \A t \in Task : e \notin DOMAIN tasks[t]
                 PROVE  \E r \in Record : Survives(e, r)' /\ (Rows(e) = Expand(r))'
      BY <1>1, <1>4 DEF RunCovers, SameBatch
    <2>1. e \in Event
      BY DEF Eligible
    <2>2. PICK r \in Record : Survives(e, r) /\ Rows(e) = Expand(r)
      BY DEF IInv, RunCovers
    <2>3. Survives(e, r)'
      BY <1>4, <2>1, <2>2 DEF SameBatch
    <2>4. e \in DOMAIN a => a[e] = r
      <3>1. \A x : ~Done(e, x)
        BY DoneNotCurrent
      <3>2. QED
        BY <1>2, <2>2, <3>1, SurvivesOne DEF Current
    <2>5. (Rows(e) = Expand(r))'
      BY <1>4, <2>1, <2>2, <2>4 DEF Expand
    <2>6. QED
      BY <2>3, <2>5
  <1>11. QED
    BY <1>4, <1>6, <1>8, <1>9, <1>10 DEF IInv

LEMMA NextIInv == TypeOK /\ TypeOK' /\ IInv /\ [Next]_vars => IInv'
  <1> SUFFICES ASSUME TypeOK, TypeOK', IInv, [Next]_vars PROVE IInv'
    OBVIOUS
  <1>1. phase # "down" => started
    BY DEF IInv, OffsetsOrdered
  <1>2. ASSUME Terminate, phase # "down" PROVE IInv'
    <2>1. \A t \in Task : DOMAIN tasks'[t] = {}
      BY <1>2, EmptyAttempt DEF Terminate
    <2>2. QED
      BY <1>1, <1>2, <2>1, AttemptStep DEF Terminate
  <1>3. ASSUME NEW t \in Task, WritePartition(t) PROVE IInv'
    BY <1>3, WritePartitionIInv
  <1>4. ASSUME NEW t \in Task, RetryTask(t) PROVE IInv'
    <2>1. orphans' \subseteq orphans \cup InFlight /\ started
      BY <1>1, <1>4 DEF RetryTask, InFlight
    <2>2. QED
      BY <1>4, <2>1, AttemptStep DEF RetryTask
  <1>5. CASE Crash
    BY <1>2, <1>5 DEF Crash
  <1>6. CASE FailQuery
    BY <1>2, <1>6 DEF FailQuery
  <1>7. ASSUME NEW a \in orphans, OrphanDies(a) PROVE IInv'
    <2>1. started
      BY DEF IInv, OffsetsOrdered
    <2>2. QED
      BY <1>7, <2>1, AttemptStep DEF OrphanDies
  <1>8. ASSUME NEW a \in orphans, OrphanCommits(a) PROVE IInv'
    BY <1>8, OrphanCommitsIInv
  <1>9. CASE UNCHANGED vars
    BY <1>9, AttemptStep DEF vars, IInv, OffsetsOrdered
  <1>10. CASE Next
    BY <1>3, <1>4, <1>5, <1>6, <1>7, <1>8, <1>10, PublishIInv, StartQueryIInv,
       PlanBatchIInv, RunBatchIInv, CommitBatchIInv DEF Next
  <1>11. QED
    BY <1>9, <1>10

-----------------------------------------------------------------------------
\* The inductive invariant holds of a streaming job, however often it
\* crashes, retries tasks and leaves stray attempts behind.
THEOREM StreamJobInvariant == Spec => []IInv
<1>1. TypeOK /\ TypeOK' /\ IInv /\ [Next]_vars => IInv'
  BY NextIInv
<1>2. QED
  BY <1>1, InitIInv, StreamJobTypes, PTL DEF Spec

\* No crash, replay, retry or stray attempt of write_postgres_batch leaves an
\* event torn: its rows are those of one record of the planned range.
THEOREM StreamJobNoTornEvent == Spec => []NoTornEvent
<1>1. TypeOK /\ IInv => NoTornEvent
  <2> SUFFICES ASSUME TypeOK, IInv, NEW e \in Event, Rows(e) # {}
               PROVE  Represented(e, planned)
    BY DEF NoTornEvent
  <2>1. PICK r \in Record : Rows(e) = Expand(r) /\ (Current(e, r) \/ Done(e, r))
    BY DEF IInv, RowsExplained
  <2>2. \A p \in Partition : /\ base[p] \in Nat /\ committed[p] \in Nat /\ planned[p] \in Nat
                             /\ base[p] <= committed[p] /\ committed[p] <= planned[p]
    BY DEF TypeOK, IInv, OffsetsOrdered
  <2>3. CASE Current(e, r)
    <3>1. PICK i \in OffsetsOf(e) : r = log[PartitionOf[e]][i]
      BY <2>3 DEF Current, Survives
    <3>2. PartitionOf[e] \in Partition /\ r \in Valid /\ IdOf[r] = e
          /\ i \in BatchOffsets(PartitionOf[e])
      BY <3>1, ConstantsAssumption DEF OffsetsOf, ValidOffsets
    <3>3. i \in (base[PartitionOf[e]] + 1) .. planned[PartitionOf[e]]
      BY <2>2, <3>2 DEF BatchOffsets
    <3>4. r \in Taken(planned)
      BY <3>1, <3>2, <3>3 DEF Taken
    <3>5. QED
      BY <2>1, <3>2, <3>4 DEF Represented
  <2>4. CASE Done(e, r)
    <3>1. PICK p \in Partition : \E i \in (base[p] + 1) .. committed[p] : r = log[p][i]
      BY <2>4 DEF Done, Taken
    <3>2. PICK i \in (base[p] + 1) .. committed[p] : r = log[p][i]
      BY <3>1
    <3>3. i \in (base[p] + 1) .. planned[p]
      BY <2>2
    <3>4. r \in Taken(planned)
      BY <2>4, <3>2, <3>3 DEF Done, Taken
    <3>5. QED
      BY <2>4, <3>4 DEF Done, Represented
  <2>5. QED
    BY <2>1, <2>3, <2>4
<1>2. QED
  BY <1>1, StreamJobTypes, StreamJobInvariant, PTL

\* Every valid record that the commit log covers is in the table under its
\* event_id, or an event at least Delay newer was consumed.
THEOREM StreamJobNoSilentLoss == Spec => []NoSilentLoss
<1>1. IInv => NoSilentLoss
  BY DEF IInv
<1>2. QED
  BY <1>1, StreamJobInvariant, PTL

\* The table never refuses what it holds.
NoPoisonRows == \A x \in table : x.from \notin Poison

LEMMA InsertWritable ==
  ASSUME NoPoisonRows, NEW a, Writable(a), table' = Insert(a)
  PROVE  NoPoisonRows'
<1> SUFFICES ASSUME NEW x \in RowsOf(a) PROVE x.from \notin Poison
  BY DEF NoPoisonRows, Insert
<1>1. PICK e \in DOMAIN a : x \in Expand(a[e])
  BY DEF RowsOf
<1>2. QED
  BY <1>1 DEF Expand, Writable

LEMMA PoisonStaysOut == Spec => []NoPoisonRows
<1>1. Init => NoPoisonRows
  BY DEF Init, NoPoisonRows
<1>2. NoPoisonRows /\ [Next]_vars => NoPoisonRows'
  <2> SUFFICES ASSUME NoPoisonRows, [Next]_vars PROVE NoPoisonRows'
    OBVIOUS
  <2>1. ASSUME NEW t \in Task, WritePartition(t) PROVE NoPoisonRows'
    BY <2>1, InsertWritable DEF WritePartition
  <2>2. ASSUME NEW a \in orphans, OrphanCommits(a) PROVE NoPoisonRows'
    BY <2>2, InsertWritable DEF OrphanCommits
  <2>3. CASE UNCHANGED table
    BY <2>3 DEF NoPoisonRows
  <2>4. QED
    BY <2>1, <2>2, <2>3 DEF Next, Publish, StartQuery, PlanBatch, RunBatch, RetryTask, CommitBatch,
       Crash, FailQuery, Terminate, OrphanDies, vars
<1>3. QED
  BY <1>1, <1>2, PTL DEF Spec

\* A poison record that survives the filter and the deduplication stops the
\* commit log for good: its partition is never written, and no restart or
\* replay skips the batch (foreachBatch, write_partition).
THEOREM StreamJobPoisonBlocks == Spec => PoisonBlocks
<1>1. ASSUME TypeOK, IInv, NoPoisonRows, [Next]_vars, PoisonPlanned
      PROVE  committed' = committed
  <2>1. PICK e \in Eligible, r \in Poison : Survives(e, r)
    BY <1>1 DEF PoisonPlanned
  <2>2. e \in Event /\ OffsetsOf(e) # {}
    BY DEF Eligible
  <2>3. ~CommitBatch
    <3> SUFFICES ASSUME CommitBatch PROVE FALSE
      OBVIOUS
    <3>1. \E q \in Record : Survives(e, q) /\ Rows(e) = Expand(q)
      BY <1>1 DEF IInv, RunCovers, CommitBatch, AllWritten
    <3>2. Rows(e) = Expand(r)
      BY <2>1, <3>1, SurvivesOne
    <3>3. Width[r] > 0 /\ Width[r] \in Nat
      BY ConstantsAssumption
    <3>4. [event |-> IdOf[r], index |-> 0, from |-> r] \in Expand(r)
      BY <3>3 DEF Expand
    <3>5. QED
      BY <1>1, <3>2, <3>4 DEF NoPoisonRows, Rows
  <2>4. StartQuery => UNCHANGED committed
    <3>1. PICK i \in OffsetsOf(e) : TRUE
      BY <2>2
    <3>2. PartitionOf[e] \in Partition /\ i \in BatchOffsets(PartitionOf[e])
      BY <2>2, <3>1, ConstantsAssumption DEF OffsetsOf, ValidOffsets
    <3>3. committed[PartitionOf[e]] \in Nat /\ planned[PartitionOf[e]] \in Nat
      BY <1>1, <3>2 DEF TypeOK
    <3>4. committed # planned
      BY <3>2, <3>3 DEF BatchOffsets
    <3>5. started
      BY <1>1, <3>4 DEF IInv, OffsetsOrdered
    <3>6. QED
      BY <3>5 DEF StartQuery
  <2>5. QED
    BY <1>1, <2>3, <2>4 DEF Next, Publish, PlanBatch, RunBatch, WritePartition, RetryTask,
       Crash, FailQuery, Terminate, OrphanCommits, OrphanDies, ckptVars, vars
<1>2. TypeOK /\ IInv /\ NoPoisonRows /\ [Next]_vars
        => [PoisonPlanned => committed' = committed]_vars
  BY <1>1
<1>3. QED
  BY <1>2, StreamJobTypes, StreamJobInvariant, PoisonStaysOut, PTL DEF Spec, PoisonBlocks

\* A record is lost to the watermark of an earlier batch only: what a commit
\* adds to the consumed records is in the table, or something committed
\* before overtook it.
THEOREM StreamJobBurstKept == Spec => BurstKept
<1>1. ASSUME TypeOK, IInv, CommitBatch, NEW r \in Taken(committed)', ~Overtaken(IdOf[r])
      PROVE  Represented(IdOf[r], committed)'
  <2>1. SUFFICES \E q : Done(IdOf[r], q)'
    BY DEF Represented, Done
  <2>2. CASE r \in Taken(committed)
    <3>1. PICK q : Done(IdOf[r], q)
      BY <1>1, <2>2 DEF IInv, NoSilentLoss, Represented, Done
    <3>2. QED
      BY <1>1, <3>1, CommitFacts
  <2>3. CASE r \notin Taken(committed)
    <3>1. OffsetsOf(IdOf[r]) # {} /\ IdOf[r] \in Event /\ ~Late(IdOf[r])
      BY <1>1, <2>3, CommitFacts
    <3>2. IdOf[r] \in Eligible \/ IdOf[r] \in seen
      BY <3>1 DEF Eligible
    <3>3. CASE IdOf[r] \in Eligible
      BY <1>1, <3>3, CommitFacts
    <3>4. CASE IdOf[r] \in seen
      <4>1. PICK q : Done(IdOf[r], q)
        BY <1>1, <3>4 DEF IInv, SeenDone
      <4>2. QED
        BY <1>1, <4>1, CommitFacts
    <3>5. QED
      BY <3>2, <3>3, <3>4
  <2>4. QED
    BY <2>2, <2>3
<1>2. ASSUME [Next]_vars, started, committed' # committed
      PROVE  CommitBatch
  BY <1>2 DEF Next, Publish, StartQuery, PlanBatch, RunBatch, WritePartition, RetryTask,
     Crash, FailQuery, Terminate, OrphanCommits, OrphanDies, ckptVars, vars
<1>3. TypeOK /\ IInv /\ [Next]_vars
        => [started /\ committed' # committed =>
              \A r \in Taken(committed)' :
                 Represented(IdOf[r], committed)' \/ Overtaken(IdOf[r])]_vars
  BY <1>1, <1>2
<1>4. QED
  BY <1>3, StreamJobTypes, StreamJobInvariant, PTL DEF Spec, BurstKept

-----------------------------------------------------------------------------
(* The topic decides what the table holds. *)

\* What the open batch writes for an event is the event's first record: an
\* earlier one would have been consumed and, by ConsumedSettled, would keep
\* the event out of the batch.
LEMMA CurrentIsFirst ==
  ASSUME TypeOK, IInv, NEW e \in Event, NEW r, Current(e, r)
  PROVE  First(e, r)
<1> DEFINE p == PartitionOf[e]
<1>1. p \in Partition
  BY ConstantsAssumption
<1>2. /\ base[p] \in Nat /\ committed[p] \in Nat /\ planned[p] \in Nat /\ Len(log[p]) \in Nat
      /\ base[p] <= committed[p] /\ committed[p] <= planned[p] /\ planned[p] <= Len(log[p])
  BY <1>1, OffsetFacts
<1>3. PICK i \in OffsetsOf(e) : (\A j \in OffsetsOf(e) : i <= j) /\ r = log[p][i]
  BY DEF Current, Survives
<1>4. i \in (committed[p] + 1) .. planned[p] /\ log[p][i] \in Valid /\ IdOf[log[p][i]] = e
  BY <1>3 DEF OffsetsOf, ValidOffsets, BatchOffsets
<1>5. i \in ValidAt(e)
  BY <1>2, <1>4 DEF ValidAt
<1>6. ASSUME NEW j \in ValidAt(e), ~(i <= j)
      PROVE  FALSE
  <2>1. j \in (base[p] + 1) .. Len(log[p]) /\ log[p][j] \in Valid /\ IdOf[log[p][j]] = e
    BY DEF ValidAt
  <2>2. j \notin OffsetsOf(e)
    BY <1>3, <1>6
  <2>3. j \notin (committed[p] + 1) .. planned[p]
    BY <2>1, <2>2 DEF OffsetsOf, ValidOffsets, BatchOffsets
  <2>4. j \in (base[p] + 1) .. committed[p]
    BY <1>2, <1>4, <1>6, <2>1, <2>3
  <2>5. log[p][j] \in Taken(committed)
    BY <1>1, <2>1, <2>4 DEF Taken
  <2>6. e \in seen \/ Late(e)
    BY <2>1, <2>5 DEF IInv, ConsumedSettled
  <2>7. QED
    BY <2>6 DEF Current, Eligible
<1>7. QED
  BY <1>3, <1>5, <1>6 DEF First

\* The first record of an event stays the first while the topic grows.
LEMMA FirstStays ==
  ASSUME TypeOK, NEW q \in Record, Publish(q), NEW e \in Event, NEW r, First(e, r)
  PROVE  First(e, r)'
<1> DEFINE p == PartitionOf[e]
           k == PartitionOf[IdOf[q]]
<1>1. p \in Partition /\ k \in Partition
  BY ConstantsAssumption
<1>2. log[p] \in Seq(Record) /\ base[p] \in Nat /\ base' = base
      /\ log' = [log EXCEPT ![k] = Append(log[k], q)]
  BY <1>1 DEF TypeOK, Publish, ckptVars
<1>3. Len(log[p]) \in Nat /\ Len(log'[p]) \in {Len(log[p]), Len(log[p]) + 1}
      /\ \A i \in 1 .. Len(log[p]) : log'[p][i] = log[p][i]
  <2>1. CASE p = k
    <3>1. log'[p] = Append(log[p], q)
      BY <1>1, <1>2, <2>1 DEF TypeOK
    <3> HIDE DEF p, k
    <3>2. QED
      BY <1>2, <3>1
  <2>2. CASE p # k
    <3>1. log'[p] = log[p]
      BY <1>1, <1>2, <2>2 DEF TypeOK
    <3> HIDE DEF p, k
    <3>2. QED
      BY <1>2, <3>1
  <2>3. QED
    BY <2>1, <2>2
<1>4. PICK i \in ValidAt(e) : (\A j \in ValidAt(e) : i <= j) /\ r = log[p][i]
  BY DEF First
<1>5. i \in (base[p] + 1) .. Len(log[p]) /\ log[p][i] \in Valid /\ IdOf[log[p][i]] = e
  BY <1>4 DEF ValidAt
<1>6. i \in ValidAt(e)' /\ r = log'[p][i]
  BY <1>2, <1>3, <1>4, <1>5 DEF ValidAt
<1>7. ASSUME NEW j \in ValidAt(e)'
      PROVE  i <= j
  <2>1. j \in (base[p] + 1) .. Len(log'[p]) /\ log'[p][j] \in Valid /\ IdOf[log'[p][j]] = e
    BY <1>2, <1>7 DEF ValidAt
  <2>2. CASE j \in 1 .. Len(log[p])
    <3>1. j \in ValidAt(e)
      BY <1>2, <1>3, <2>1, <2>2 DEF ValidAt
    <3>2. QED
      BY <1>4, <3>1
  <2>3. CASE j \notin 1 .. Len(log[p])
    BY <1>2, <1>3, <1>5, <2>1, <2>3
  <2>4. QED
    BY <2>2, <2>3
<1>8. QED
  BY <1>6, <1>7 DEF First

\* A transaction adds rows of first records only.
LEMMA WritesFirst ==
  ASSUME TypeOK, IInv, FirstRecordWins, NEW a \in Attempt, table' = Insert(a),
         UNCHANGED batchVars, UNCHANGED watermark,
         \A e \in DOMAIN a : Current(e, a[e]) \/ Done(e, a[e])
  PROVE  FirstRecordWins'
<1> SUFFICES ASSUME NEW e \in Event, (Rows(e) # {})'
             PROVE  \E r \in Record : First(e, r)' /\ (Rows(e) = Expand(r))'
  BY DEF FirstRecordWins
<1>1. Rows(e)' = IF e \in DOMAIN a THEN Expand(a[e]) ELSE Rows(e)
  BY WriteStep
<1>2. \A r : First(e, r)' <=> First(e, r)
  BY DEF First, ValidAt, batchVars
<1>3. CASE e \in DOMAIN a /\ Current(e, a[e])
  <2>1. First(e, a[e])' /\ a[e] \in Record
    BY <1>2, <1>3, CurrentIsFirst, AttemptType
  <2>2. (Rows(e) = Expand(a[e]))'
    BY <1>1, <1>3 DEF Expand
  <2>3. QED
    BY <2>1, <2>2
<1>4. CASE e \notin DOMAIN a \/ Done(e, a[e])
  <2>1. Rows(e)' = Rows(e)
    BY <1>1, <1>4 DEF Done
  <2>2. PICK r \in Record : First(e, r) /\ Rows(e) = Expand(r)
    BY <2>1 DEF FirstRecordWins
  <2>3. (Rows(e) = Expand(r))'
    BY <2>1, <2>2 DEF Expand
  <2>4. QED
    BY <1>2, <2>2, <2>3
<1>5. QED
  BY <1>3, <1>4

\* The rows of an event are those of its first valid record in the topic,
\* however the batches fell and whatever was replayed or left behind
\* (dropDuplicatesWithinWatermark, then ON CONFLICT DO NOTHING).
THEOREM StreamJobFirstRecordWins == Spec => []FirstRecordWins
<1>1. Init => FirstRecordWins
  BY DEF Init, FirstRecordWins, Rows
<1>2. TypeOK /\ IInv /\ FirstRecordWins /\ [Next]_vars => FirstRecordWins'
  <2> SUFFICES ASSUME TypeOK, IInv, FirstRecordWins, [Next]_vars PROVE FirstRecordWins'
    OBVIOUS
  <2>1. ASSUME NEW q \in Record, Publish(q) PROVE FirstRecordWins'
    <3> SUFFICES ASSUME NEW e \in Event, (Rows(e) # {})'
                 PROVE  \E r \in Record : First(e, r)' /\ (Rows(e) = Expand(r))'
      BY DEF FirstRecordWins
    <3>1. Rows(e)' = Rows(e)
      BY <2>1 DEF Publish, Rows
    <3>2. PICK r \in Record : First(e, r) /\ Rows(e) = Expand(r)
      BY <3>1 DEF FirstRecordWins
    <3>3. First(e, r)' /\ (Rows(e) = Expand(r))'
      BY <2>1, <3>1, <3>2, FirstStays DEF Expand
    <3>4. QED
      BY <3>3
  <2>2. CASE StartQuery
    <3>1. CASE started
      BY <2>2, <3>1 DEF StartQuery, FirstRecordWins, Rows, First, ValidAt, Expand
    <3>2. CASE ~started
      BY <2>2, <3>2 DEF StartQuery, IInv, OffsetsOrdered, FirstRecordWins, Rows
    <3>3. QED
      BY <3>1, <3>2
  <2>3. ASSUME NEW t \in Task, WritePartition(t) PROVE FirstRecordWins'
    <3>1. PICK a \in Attempt : a = tasks[t]
      BY DEF TypeOK
    <3>2. table' = Insert(a) /\ UNCHANGED batchVars /\ UNCHANGED watermark
      BY <2>3, <3>1 DEF WritePartition, ckptVars, batchVars
    <3>3. \A e \in DOMAIN a : Current(e, a[e])
      BY <3>1 DEF IInv, TasksCurrent
    <3>4. QED
      BY <3>2, <3>3, WritesFirst
  <2>4. ASSUME NEW a \in orphans, OrphanCommits(a) PROVE FirstRecordWins'
    <3>1. a \in Attempt /\ \A e \in DOMAIN a : Current(e, a[e]) \/ Done(e, a[e])
      BY DEF TypeOK, IInv, OrphansHarmless
    <3>2. table' = Insert(a) /\ UNCHANGED batchVars /\ UNCHANGED watermark
      BY <2>4 DEF OrphanCommits, ckptVars, batchVars
    <3>3. QED
      BY <3>1, <3>2, WritesFirst
  <2>5. CASE UNCHANGED <<log, base, table>>
    BY <2>5 DEF FirstRecordWins, Rows, First, ValidAt, Expand
  <2>6. QED
    BY <2>1, <2>2, <2>3, <2>4, <2>5 DEF Next, PlanBatch, RunBatch, RetryTask, CommitBatch,
       Crash, FailQuery, Terminate, OrphanDies, ckptVars, vars
<1>3. QED
  BY <1>1, <1>2, StreamJobTypes, StreamJobInvariant, PTL DEF Spec

\* Between batches no attempt changes the table: a stray attempt of an
\* earlier batch repeats rows that are there (foreachBatch, write_partition).
THEOREM StreamJobQuietBetweenBatches == Spec => QuietBetweenBatches
<1>1. ASSUME TypeOK, IInv, [Next]_vars, ~open
      PROVE  table' = table
  <2>1. ASSUME NEW a \in orphans, OrphanCommits(a) PROVE table' = table
    <3>1. Eligible = {}
      BY <1>1, BetweenBatches
    <3>2. ASSUME NEW x \in RowsOf(a)
          PROVE  x \in table
      <4>1. PICK e \in DOMAIN a : x \in Expand(a[e])
        BY <3>2 DEF RowsOf
      <4>2. Done(e, a[e])
        BY <1>1, <2>1, <3>1 DEF IInv, OrphansHarmless, Current
      <4>3. QED
        BY <4>1, <4>2 DEF Done, Rows
    <3>3. QED
      BY <2>1, <3>2 DEF OrphanCommits, Insert
  <2>2. ASSUME NEW t \in Task, WritePartition(t) PROVE FALSE
    BY <1>1, <2>2 DEF WritePartition, IInv, TasksCurrent
  <2>3. QED
    BY <1>1, <2>1, <2>2 DEF Next, Publish, StartQuery, PlanBatch, RunBatch, RetryTask, CommitBatch,
       Crash, FailQuery, Terminate, OrphanDies, vars
<1>2. TypeOK /\ IInv /\ [Next]_vars => [~open => table' = table]_vars
  BY <1>1
<1>3. QED
  BY <1>2, StreamJobTypes, StreamJobInvariant, PTL DEF Spec, QuietBetweenBatches
-----------------------------------------------------------------------------
(* The refinement of EventStore: the initial states map to initial states,  *)
(* and every step of the job, of a stray attempt or of the producer maps to *)
(* a step of EventStore or to a stutter.  LiveOperations and Marts read     *)
(* tables that are EventStores.                                             *)

\* The two variables of EventStore.
Published == UNION {{log[p][i] : i \in DOMAIN log[p]} : p \in Partition}
Shown == [e \in Event |-> Stored(e)]

LEMMA ExpandFrom ==
  ASSUME NEW r \in Record, NEW x \in Expand(r)
  PROVE  x.from = r
  BY DEF Expand

\* A record is recovered from its rows, if it has any.
LEMMA StoredRecord ==
  ASSUME NEW e, NEW r \in Record, Rows(e) = Expand(r), Expand(r) # {}
  PROVE  Stored(e) = r
<1>1. PICK x \in Expand(r) : TRUE
  OBVIOUS
<1>2. \A q \in Record : Rows(e) = Expand(q) => q = r
  BY <1>1, ExpandFrom
<1> QED
  BY <1>2 DEF Stored

\* The same rows are the same record.
LEMMA SameStored ==
  ASSUME NEW e, Rows(e)' = Rows(e)
  PROVE  Stored(e)' = Stored(e)
<1>1. \A r : Expand(r)' = Expand(r)
  BY DEF Expand
<1> QED
  BY <1>1 DEF Stored

-----------------------------------------------------------------------------
(* Steps *)

\* Appending to a partition publishes the record and nothing else.
LEMMA PublishAdds ==
  ASSUME TypeOK, NEW r \in Record, Publish(r)
  PROVE  Published' = Published \cup {r}
<1> DEFINE q == PartitionOf[IdOf[r]]
<1>1. q \in Partition
  BY ConstantsAssumption
<1>2. log[q] \in Seq(Record) /\ log' = [log EXCEPT ![q] = Append(log[q], r)]
  BY <1>1 DEF TypeOK, Publish
<1>3. \A p \in Partition : p # q => log'[p] = log[p]
  BY <1>2 DEF TypeOK
<1>4. /\ DOMAIN log'[q] = (DOMAIN log[q]) \cup {Len(log[q]) + 1}
      /\ \A i \in DOMAIN log[q] : log'[q][i] = log[q][i]
      /\ log'[q][Len(log[q]) + 1] = r
  BY <1>1, <1>2 DEF TypeOK
<1> DEFINE In(p) == {log[p][i] : i \in DOMAIN log[p]}
<1>5. In(q)' = In(q) \cup {r}
  BY <1>4
<1>6. \A p \in Partition : p # q => In(p)' = In(p)
  BY <1>3
<1>7. Published = UNION {In(p) : p \in Partition}
      /\ Published' = UNION {In(p)' : p \in Partition}
  BY DEF Published
<1> HIDE DEF In, q
<1> QED
  BY <1>1, <1>5, <1>6, <1>7

\* What the open batch writes, or has written, was published and is valid.
LEMMA WrittenIsPublished ==
  ASSUME TypeOK, IInv, NEW e \in Event, NEW r \in Record, Current(e, r) \/ Done(e, r)
  PROVE  r \in Published /\ r \in Valid /\ IdOf[r] = e
<1>1. \A p \in Partition :
        /\ log[p] \in Seq(Record) /\ Len(log[p]) \in Nat
        /\ base[p] \in Nat /\ committed[p] \in Nat /\ planned[p] \in Nat
        /\ base[p] <= committed[p] /\ committed[p] <= planned[p] /\ planned[p] <= Len(log[p])
  BY OffsetFacts
<1>2. CASE Current(e, r)
  <2>1. r \in Valid /\ IdOf[r] = e
    BY <1>2, SurvivesValid DEF Current
  <2>2. PICK i \in OffsetsOf(e) : r = log[PartitionOf[e]][i]
    BY <1>2 DEF Current, Survives
  <2>3. PartitionOf[e] \in Partition /\ i \in BatchOffsets(PartitionOf[e])
    BY <2>2, ConstantsAssumption DEF OffsetsOf, ValidOffsets
  <2>4. i \in 1 .. Len(log[PartitionOf[e]])
    BY <1>1, <2>3 DEF BatchOffsets
  <2>5. i \in DOMAIN log[PartitionOf[e]]
    BY <1>1, <2>3, <2>4
  <2> QED
    BY <2>1, <2>2, <2>3, <2>5 DEF Published
<1>3. CASE Done(e, r)
  <2>1. r \in Valid /\ IdOf[r] = e
    BY <1>3 DEF Done, Taken
  <2>2. PICK p \in Partition : \E i \in (base[p] + 1) .. committed[p] : r = log[p][i]
    BY <1>3 DEF Done, Taken
  <2>3. PICK i \in (base[p] + 1) .. committed[p] : r = log[p][i]
    BY <2>2
  <2>4. i \in 1 .. Len(log[p])
    BY <1>1
  <2>5. i \in DOMAIN log[p]
    BY <1>1, <2>4
  <2> QED
    BY <2>1, <2>3, <2>5 DEF Published
<1> QED
  BY <1>2, <1>3

\* A transaction of write_partition, also of a stray attempt, stores a set of
\* new events and leaves those that are there as they are.
LEMMA InsertStores ==
  ASSUME TypeOK, IInv, NEW a \in Attempt, table' = Insert(a),
         UNCHANGED batchVars, UNCHANGED watermark,
         \A e \in DOMAIN a : Current(e, a[e]) \/ Done(e, a[e])
  PROVE  \E S \in SUBSET Event : Store!Store(S)
<1> DEFINE S == {e \in DOMAIN a : Rows(e) = {} /\ Expand(a[e]) # {}}
           f == [e \in S |-> a[e]]
<1>1. DOMAIN a \subseteq Event /\ \A e \in DOMAIN a : a[e] \in Record
  BY AttemptType
<1>2. \A e \in Event : Rows(e)' = IF e \in DOMAIN a THEN Expand(a[e]) ELSE Rows(e)
  BY WriteStep
<1>3. \A e \in DOMAIN a : a[e] \in Published /\ a[e] \in Valid /\ IdOf[a[e]] = e
  BY <1>1, WrittenIsPublished
<1>4. f \in [S -> Published \cap Valid] /\ \A e \in S : f[e] = a[e]
  BY <1>3
<1>5. ASSUME NEW e \in S
      PROVE  Stored(e) = None /\ Stored(e)' = a[e]
  <2>1. e \in Event /\ e \in DOMAIN a /\ a[e] \in Record
    BY <1>1
  <2>2. Rows(e)' = Expand(a[e]) /\ Expand(a[e])' = Expand(a[e])
    BY <1>2, <2>1 DEF Expand
  <2>3. PICK x \in Expand(a[e]) : TRUE
    BY <2>2
  <2>4. \A q \in Record : Expand(a[e]) = Expand(q) => q = a[e]
    BY <2>1, <2>3, ExpandFrom
  <2>5. \A q : Expand(q)' = Expand(q)
    BY DEF Expand
  <2>6. Stored(e)' = a[e]
    BY <2>1, <2>2, <2>3, <2>4, <2>5 DEF Stored
  <2> QED
    BY <2>6 DEF Stored
<1>6. ASSUME NEW e \in Event, e \notin S
      PROVE  Stored(e)' = Stored(e)
  <2>1. CASE e \notin DOMAIN a
    BY <1>2, <2>1, SameStored
  <2>2. CASE e \in DOMAIN a /\ Expand(a[e]) = {}
    <3>1. Rows(e)' = {}
      BY <1>2, <2>2
    <3>2. Rows(e) \subseteq Rows(e)'
      BY DEF Rows, Insert
    <3> QED
      BY <3>1, <3>2, SameStored
  <2>3. CASE e \in DOMAIN a /\ Rows(e) # {}
    <3>1. PICK r \in Record : Rows(e) = Expand(r)
      BY <2>3 DEF IInv, RowsExplained
    <3>2. Rows(e) \subseteq Rows(e)'
      BY DEF Rows, Insert
    <3>3. PICK x \in Rows(e) : x \in Expand(a[e])
      BY <1>2, <2>3, <3>2
    <3>4. r = a[e]
      BY <1>1, <2>3, <3>1, <3>3, ExpandFrom
    <3>5. Rows(e)' = Rows(e)
      BY <1>2, <2>3, <3>1, <3>4
    <3> QED
      BY <3>5, SameStored
  <2> QED
    BY <1>6, <2>1, <2>2, <2>3
<1>7. Shown' = [e \in Event |-> IF e \in S THEN f[e] ELSE Shown[e]]
  BY <1>4, <1>5, <1>6 DEF Shown
<1>8. Published' = Published
  BY DEF Published, batchVars
<1>9. S \in SUBSET Event /\ (\A e \in S : Shown[e] = None) /\ \A e \in S : IdOf[f[e]] = e
  BY <1>1, <1>3, <1>4, <1>5 DEF Shown
<1> HIDE DEF S, f
<1> QED
  BY <1>4, <1>7, <1>8, <1>9 DEF Store!Store, Published, Shown

\* Nothing else in the job touches the topic or the table.
LEMMA QuietStutters ==
  ASSUME UNCHANGED <<log, table>>
  PROVE  UNCHANGED <<Published, Shown>>
<1>1. \A e \in Event : Rows(e)' = Rows(e)
  BY DEF Rows
<1>2. \A e \in Event : Stored(e)' = Stored(e)
  BY <1>1, SameStored
<1> QED
  BY <1>2 DEF Published, Shown

LEMMA StepRefines ==
  ASSUME TypeOK, IInv, [Next]_vars
  PROVE  (\E r \in Record : Store!Publish(r)) \/ (\E S \in SUBSET Event : Store!Store(S))
         \/ UNCHANGED <<Published, Shown>>
<1>1. ASSUME NEW r \in Record, Publish(r) PROVE Store!Publish(r)
  <2>1. Published' = Published \cup {r}
    BY <1>1, PublishAdds
  <2>2. \A e \in Event : Stored(e)' = Stored(e)
    BY <1>1, SameStored DEF Publish, Rows
  <2>3. Shown' = Shown
    BY <2>2 DEF Shown
  <2> QED
    BY <2>1, <2>3 DEF Store!Publish, Published, Shown
<1>2. ASSUME NEW t \in Task, WritePartition(t) PROVE \E S \in SUBSET Event : Store!Store(S)
  <2>1. PICK a \in Attempt : a = tasks[t]
    BY DEF TypeOK
  <2>2. table' = Insert(a) /\ UNCHANGED batchVars /\ UNCHANGED watermark
    BY <1>2, <2>1 DEF WritePartition, ckptVars, batchVars
  <2>3. \A e \in DOMAIN a : Current(e, a[e])
    BY <2>1 DEF IInv, TasksCurrent
  <2> QED
    BY <2>2, <2>3, InsertStores
<1>3. ASSUME NEW a \in orphans, OrphanCommits(a) PROVE \E S \in SUBSET Event : Store!Store(S)
  <2>1. a \in Attempt /\ \A e \in DOMAIN a : Current(e, a[e]) \/ Done(e, a[e])
    BY DEF TypeOK, IInv, OrphansHarmless
  <2>2. table' = Insert(a) /\ UNCHANGED batchVars /\ UNCHANGED watermark
    BY <1>3 DEF OrphanCommits, ckptVars, batchVars
  <2> QED
    BY <2>1, <2>2, InsertStores
<1>4. CASE StartQuery \/ PlanBatch \/ RunBatch \/ CommitBatch
  BY <1>4, QuietStutters DEF StartQuery, PlanBatch, RunBatch, CommitBatch
<1>5. CASE Crash \/ FailQuery
  BY <1>5, QuietStutters DEF Crash, FailQuery, Terminate
<1>6. ASSUME NEW t \in Task, RetryTask(t) PROVE UNCHANGED <<Published, Shown>>
  BY <1>6, QuietStutters DEF RetryTask
<1>7. ASSUME NEW a \in orphans, OrphanDies(a) PROVE UNCHANGED <<Published, Shown>>
  BY <1>7, QuietStutters DEF OrphanDies
<1>8. CASE UNCHANGED vars
  BY <1>8, QuietStutters DEF vars
<1> QED
  BY <1>1, <1>2, <1>3, <1>4, <1>5, <1>6, <1>7, <1>8 DEF Next

-----------------------------------------------------------------------------
\* The staging table of a streaming job is an EventStore: the rows of an
\* event appear in one step, come from one valid published record and never
\* change, whatever crashes, replays and stray attempts of foreachBatch did.
THEOREM StreamJobImplements == Spec => ImplementsEventStore
<1>1. Init => Store!Init
  <2> SUFFICES ASSUME Init PROVE Store!Init
    OBVIOUS
  <2>1. Published = {}
    BY DEF Init, Published
  <2>2. \A e \in Event : Stored(e) = None
    BY DEF Init, Stored, Rows
  <2> QED
    BY <2>1, <2>2 DEF Store!Init, Published
<1>2. TypeOK /\ IInv /\ [Next]_vars => [Store!Next]_<<Published, Shown>>
  BY StepRefines DEF Store!Next
<1>3. Spec => Store!Spec
  BY <1>1, <1>2, StreamJobTypes, StreamJobInvariant, PTL
  DEF Spec, Store!Spec, Published, Shown
<1> QED
  BY <1>3 DEF ImplementsEventStore
=============================================================================
