------------------------- MODULE PipelineHealthProofs -------------------------
(***************************************************************************)
(* Proofs about PipelineHealth, for every threshold, retention and bound.  *)
(***************************************************************************)
EXTENDS PipelineHealth, SequenceTheorems, TLAPS

IsProgress(e) == e.kind = "progress"

\* A report of a query is about something that happened.
Reported(e) ==
    IsProgress(e) => e.endOffset <= done /\ e.batch <= batch /\ quiet <= e.age

BusTrue == \A i \in DOMAIN bus : Reported(bus[i])
RowsTrue == \A i \in DOMAIN rows : rows[i].offset <= done /\ rows[i].batch <= batch
AppTrue == app # None => quiet <= app.lastProgress
PageTrue == page.at = "database" /\ page.processed # None => page.processed <= done

\* Batches are reported in their order, with offsets that do not decrease,
\* and what is stored was reported before everything that is still under way.
BusOrdered ==
    \A i, j \in DOMAIN bus :
        i < j /\ IsProgress(bus[i]) /\ IsProgress(bus[j]) =>
            bus[i].batch < bus[j].batch /\ bus[i].endOffset <= bus[j].endOffset
RowsBeforeBus ==
    \A i \in DOMAIN rows, j \in DOMAIN bus :
        IsProgress(bus[j]) =>
            rows[i].batch < bus[j].batch /\ rows[i].offset <= bus[j].endOffset

OpsInv ==
    /\ BusTrue /\ RowsTrue /\ AppTrue
    /\ BusOrdered /\ RowsBeforeBus /\ ProgressConsistent
ShownInv == PageTrue /\ BacklogNotUnderstated

IInv == TypeOK /\ OpsInv /\ ShownInv

-----------------------------------------------------------------------------
(* Types *)

LEMMA OlderAge ==
  ASSUME NEW a \in Age
  PROVE  Older(a) \in Age /\ a <= Older(a)
  BY ConstantsAssumption DEF Age, Older

LEMMA OlderMonotonic ==
  ASSUME NEW a \in Age, NEW b \in Age, a <= b
  PROVE  Older(a) <= Older(b)
  BY ConstantsAssumption DEF Age, Older

LEMMA EventType ==
  ASSUME NEW e \in QueryEvent
  PROVE  /\ IsProgress(e) => /\ e.batch \in 1 .. MaxBatch /\ e.age \in Age
                             /\ e.endOffset \in 0 .. MaxLog
         /\ ~IsProgress(e) => e.kind \in Status
  BY DEF QueryEvent, IsProgress, Status

LEMMA RowType ==
  ASSUME TypeOK, NEW i \in DOMAIN rows
  PROVE  rows[i] \in Progress /\ rows[i].batch \in Nat /\ rows[i].offset \in Nat
<1>1. rows \in Seq(Progress)
  BY DEF TypeOK
<1>2. rows[i] \in Progress
  BY <1>1
<1> QED
  BY <1>2, ConstantsAssumption DEF Progress

\* Retention keeps the newest rows, at least one of them.
LEMMA NewestRows ==
  ASSUME NEW s \in Seq(Progress), Len(s) > 0
  PROVE  /\ Newest(s) \in Seq(Progress) /\ Newest(s) # <<>>
         /\ Len(Newest(s)) \in 1 .. Retention /\ Len(Newest(s)) <= Len(s)
         /\ \A i \in 1 .. Len(Newest(s)) : Newest(s)[i] = s[i + Len(s) - Len(Newest(s))]
<1>1. Len(s) \in Nat /\ \A i \in 1 .. Len(s) : s[i] \in Progress
  OBVIOUS
<1>2. Kept(s) \in 1 .. Retention /\ Kept(s) <= Len(s)
  BY <1>1, ConstantsAssumption DEF Kept
<1> DEFINE m == Len(s) - Kept(s) + 1
<1>3. m \in 1 .. Len(s) /\ Len(s) - m + 1 = Kept(s)
  BY <1>1, <1>2
<1>4. /\ SubSeq(s, m, Len(s)) \in Seq(Progress)
      /\ Len(SubSeq(s, m, Len(s))) = Kept(s)
      /\ \A i \in 1 .. Kept(s) : SubSeq(s, m, Len(s))[i] = s[m + i - 1]
  <2>1. m \in Int /\ Len(s) \in Int /\ \A i \in m .. Len(s) : s[i] \in Progress
    BY <1>1, <1>3
  <2>2. /\ SubSeq(s, m, Len(s)) \in Seq(Progress)
        /\ Len(SubSeq(s, m, Len(s))) = IF m <= Len(s) THEN Len(s) - m + 1 ELSE 0
        /\ \A i \in 1 .. Len(s) - m + 1 : SubSeq(s, m, Len(s))[i] = s[m + i - 1]
    BY <2>1, SubSeqProperties
  <2> QED
    BY <1>1, <1>3, <2>2
<1>5. \A i \in 1 .. Kept(s) : m + i - 1 = i + Len(s) - Kept(s)
  BY <1>1, <1>2
<1>6. Newest(s) = SubSeq(s, m, Len(s))
  BY DEF Newest
<1>7. Newest(s) # <<>>
  BY <1>2, <1>4, <1>6, EmptySeq
<1> HIDE DEF m
<1> QED
  BY <1>2, <1>4, <1>5, <1>6, <1>7

-----------------------------------------------------------------------------
(* The job *)

\* The parts of the state that most steps leave alone.
OpsFrame == <<done, batch, quiet, bus, ops>>
ShownFrame == <<done, page>>

LEMMA OpsStays ==
  ASSUME OpsInv, UNCHANGED OpsFrame
  PROVE  OpsInv'
  BY DEF OpsInv, OpsFrame, BusTrue, RowsTrue, AppTrue, BusOrdered, RowsBeforeBus,
     ProgressConsistent, Reported, IsProgress, Last, ops

LEMMA ShownStays ==
  ASSUME ShownInv, UNCHANGED ShownFrame
  PROVE  ShownInv'
  BY DEF ShownInv, ShownFrame, PageTrue, BacklogNotUnderstated

LEMMA PublishStep ==
  ASSUME IInv, Publish
  PROVE  IInv'
<1>1. TypeOK'
  BY ConstantsAssumption DEF IInv, TypeOK, Publish, ops
<1> QED
  BY <1>1, OpsStays, ShownStays DEF IInv, Publish, OpsFrame, ShownFrame

LEMMA StatusTypes ==
  ASSUME TypeOK, NEW s \in Status, WriteStatus(s)
  PROVE  /\ app' \in App
         /\ app # None => app'.lastBatch = app.lastBatch /\ app'.lastProgress = app.lastProgress
         /\ app = None => app'.lastProgress = StaleAfter + 1
<1>1. 0 \in Age /\ StaleAfter + 1 \in Age
  BY ConstantsAssumption DEF Age
<1>2. CASE app = None
  BY <1>1, <1>2 DEF WriteStatus, App
<1>3. CASE app # None
  <2>1. app \in App
    BY <1>3 DEF TypeOK
  <2>2. app.lastBatch \in (1 .. MaxBatch) \cup {None} /\ app.lastProgress \in Age
    BY <2>1 DEF App
  <2> QED
    BY <1>1, <1>3, <2>2 DEF WriteStatus, App
<1> QED
  BY <1>2, <1>3

\* A status keeps what the row knows of the last progress.
LEMMA StatusStep ==
  ASSUME IInv, NEW s \in Status, WriteStatus(s), UNCHANGED <<done, batch, quiet, rows>>
  PROVE  RowsTrue' /\ AppTrue' /\ ProgressConsistent'
<1>1. RowsTrue'
  BY DEF IInv, OpsInv, RowsTrue
<1>2. quiet \in Age /\ quiet <= StaleAfter + 1
  BY ConstantsAssumption DEF IInv, TypeOK, Age
<1>3. AppTrue'
  BY <1>2, StatusTypes DEF IInv, OpsInv, AppTrue
<1>4. ProgressConsistent'
  <2>1. rows # <<>> => app # None /\ app.lastBatch = Last(rows).batch
    BY DEF IInv, OpsInv, ProgressConsistent
  <2>2. app # None => app'.lastBatch = app.lastBatch
    BY StatusTypes DEF IInv
  <2>3. app' # None
    BY StatusTypes, NoneAssumption DEF IInv
  <2> QED
    BY <2>1, <2>2, <2>3 DEF IInv, OpsInv, ProgressConsistent, Last
<1> QED
  BY <1>1, <1>3, <1>4

LEMMA StartQueryStep ==
  ASSUME IInv, StartQuery
  PROVE  IInv'
<1>1. UNCHANGED <<high, done, batch, quiet, bus, rows, page>> /\ driver' = "up"
  BY DEF StartQuery
<1>2. BusTrue' /\ BusOrdered' /\ RowsBeforeBus'
  BY <1>1 DEF IInv, OpsInv, BusTrue, BusOrdered, RowsBeforeBus, Reported, IsProgress
<1>3. ShownInv'
  BY <1>1, ShownStays DEF IInv, ShownFrame
<1>4. "running" \in Status
  BY DEF Status
<1>5. CASE WriteStatus("running")
  <2>1. app' \in App
    BY <1>4, <1>5, StatusTypes DEF IInv
  <2>2. TypeOK'
    BY <1>1, <2>1 DEF IInv, TypeOK
  <2>3. RowsTrue' /\ AppTrue' /\ ProgressConsistent'
    BY <1>1, <1>4, <1>5, StatusStep
  <2> QED
    BY <1>2, <1>3, <2>2, <2>3 DEF IInv, OpsInv
<1>6. CASE UNCHANGED app
  <2>1. TypeOK'
    BY <1>1, <1>6 DEF IInv, TypeOK
  <2> QED
    BY <1>1, <1>3, <1>6, <2>1, OpsStays DEF IInv, OpsFrame, ops
<1> QED
  BY <1>5, <1>6 DEF StartQuery

\* A new report is the newest one on the bus.
LEMMA PostStep ==
  ASSUME IInv, NEW e \in QueryEvent, Post(e),
         UNCHANGED <<ops, page>>,
         done' \in done .. MaxLog,
         \/ batch' = batch /\ quiet' = quiet /\ ~IsProgress(e)
         \/ /\ batch' = batch + 1 /\ quiet' = 0 /\ IsProgress(e)
            /\ e.batch = batch + 1 /\ e.endOffset = done'
  PROVE  /\ OpsInv' /\ ShownInv'
         /\ bus' \in Seq(QueryEvent) /\ Len(bus') \in 0 .. MaxBus
<1>1. TypeOK /\ OpsInv /\ ShownInv
  BY DEF IInv
<1>2. bus \in Seq(QueryEvent) /\ Len(bus) \in Nat /\ Len(bus) < MaxBus /\ bus' = Append(bus, e)
  BY <1>1 DEF TypeOK, Post
<1>3. /\ bus' \in Seq(QueryEvent) /\ Len(bus') = Len(bus) + 1
      /\ DOMAIN bus' = 1 .. (Len(bus) + 1) /\ DOMAIN bus = 1 .. Len(bus)
      /\ \A i \in 1 .. Len(bus) : bus'[i] = bus[i] /\ bus[i] \in QueryEvent
      /\ bus'[Len(bus) + 1] = e
  BY <1>2, AppendProperties, LenProperties
<1>4. /\ batch \in Nat /\ quiet \in Age /\ done \in Nat /\ done' \in Nat
      /\ batch <= batch' /\ quiet' <= quiet /\ done <= done'
  BY <1>1, ConstantsAssumption DEF TypeOK, Age
<1>5. IsProgress(e) => Reported(e)'
  <2>1. Reported(e)' <=> (IsProgress(e) => e.endOffset <= done' /\ e.batch <= batch' /\ quiet' <= e.age)
    BY DEF Reported, IsProgress
  <2> QED
    BY <1>4, <2>1, EventType, ConstantsAssumption DEF Age
<1>6. BusTrue'
  <2> SUFFICES ASSUME NEW i \in DOMAIN bus', IsProgress(bus'[i])
               PROVE  bus'[i].endOffset <= done' /\ bus'[i].batch <= batch' /\ quiet' <= bus'[i].age
    BY DEF BusTrue, Reported, IsProgress
  <2>1. CASE i \in 1 .. Len(bus)
    <3>1. Reported(bus[i]) /\ bus'[i] = bus[i] /\ bus[i] \in QueryEvent
      BY <1>1, <1>3, <2>1 DEF OpsInv, BusTrue
    <3> QED
      BY <1>4, <3>1, EventType DEF Reported, Age
  <2>2. CASE i = Len(bus) + 1
    BY <1>3, <1>5, <2>2 DEF Reported, IsProgress
  <2> QED
    BY <1>2, <1>3, <2>1, <2>2
<1>7. RowsTrue'
  BY <1>1, <1>4, RowType DEF OpsInv, RowsTrue, ops
<1>8. AppTrue'
  <2>1. app # None => app.lastProgress \in Age
    BY <1>1 DEF TypeOK, App
  <2> QED
    BY <1>1, <1>4, <2>1 DEF OpsInv, AppTrue, ops, Age
<1>9. BusOrdered'
  <2> SUFFICES ASSUME NEW i \in DOMAIN bus', NEW j \in DOMAIN bus', i < j,
                      IsProgress(bus'[i]), IsProgress(bus'[j])
               PROVE  bus'[i].batch < bus'[j].batch /\ bus'[i].endOffset <= bus'[j].endOffset
    BY DEF BusOrdered, IsProgress
  <2>1. i \in 1 .. Len(bus) /\ bus'[i] = bus[i] /\ bus[i] \in QueryEvent
    BY <1>2, <1>3
  <2>2. CASE j \in 1 .. Len(bus)
    BY <1>1, <1>3, <2>1, <2>2 DEF OpsInv, BusOrdered
  <2>3. CASE j = Len(bus) + 1
    <3>1. /\ bus[i].batch <= batch /\ bus[i].batch \in Nat
          /\ bus[i].endOffset <= done /\ bus[i].endOffset \in Nat
      BY <1>1, <1>3, <2>1, EventType DEF OpsInv, BusTrue, Reported
    <3>2. e.batch = batch + 1 /\ e.endOffset = done'
      BY <1>3, <2>3
    <3> QED
      BY <1>3, <1>4, <2>1, <2>3, <3>1, <3>2
  <2> QED
    BY <1>2, <1>3, <2>2, <2>3
<1>10. RowsBeforeBus'
  <2> SUFFICES ASSUME NEW i \in DOMAIN rows, NEW j \in DOMAIN bus', IsProgress(bus'[j])
               PROVE  rows[i].batch < bus'[j].batch /\ rows[i].offset <= bus'[j].endOffset
    BY DEF RowsBeforeBus, IsProgress, ops
  <2>1. CASE j \in 1 .. Len(bus)
    BY <1>1, <1>3, <2>1 DEF OpsInv, RowsBeforeBus
  <2>2. CASE j = Len(bus) + 1
    <3>1. /\ rows[i].batch <= batch /\ rows[i].batch \in Nat
          /\ rows[i].offset <= done /\ rows[i].offset \in Nat
      BY <1>1, RowType DEF OpsInv, RowsTrue
    <3> QED
      BY <1>3, <1>4, <2>2, <3>1
  <2> QED
    BY <1>2, <1>3, <2>1, <2>2
<1>11. ProgressConsistent'
  BY <1>1 DEF OpsInv, ProgressConsistent, ops, Last
<1>12. ShownInv'
  <2>1. page.processed # None => page.processed \in Nat
    BY <1>1 DEF TypeOK
  <2> QED
    BY <1>1, <1>4, <2>1 DEF ShownInv, PageTrue, BacklogNotUnderstated
<1>13. Len(bus') \in 0 .. MaxBus
  BY <1>2, <1>3, ConstantsAssumption
<1> QED
  BY <1>3, <1>6, <1>7, <1>8, <1>9, <1>10, <1>11, <1>12, <1>13 DEF OpsInv

LEMMA CompleteBatchStep ==
  ASSUME IInv, NEW end \in done .. high, NEW took \in Age, CompleteBatch(end, took)
  PROVE  IInv'
<1>1. PICK latest \in end .. high :
        Post([kind |-> "progress", batch |-> batch + 1, age |-> took,
              endOffset |-> end, latestOffset |-> latest])
  BY DEF CompleteBatch
<1> DEFINE e == [kind |-> "progress", batch |-> batch + 1, age |-> took,
                 endOffset |-> end, latestOffset |-> latest]
<1>2. /\ high \in 0 .. MaxLog /\ done \in 0 .. high /\ batch \in 0 .. MaxBatch
      /\ batch < MaxBatch
  BY DEF IInv, TypeOK, CompleteBatch
<1>3. end \in 0 .. MaxLog /\ latest \in 0 .. MaxLog /\ batch + 1 \in 1 .. MaxBatch
      /\ end \in done .. MaxLog /\ end \in 0 .. high
  BY <1>2, ConstantsAssumption
<1>4. e \in QueryEvent
  BY <1>3 DEF QueryEvent
<1>5. IsProgress(e) /\ e.batch = batch + 1 /\ e.endOffset = end
  BY DEF IsProgress
<1>6. /\ done' = end /\ batch' = batch + 1 /\ quiet' = 0
      /\ UNCHANGED <<high, driver, ops, page>>
  BY DEF CompleteBatch
<1> HIDE DEF e
<1>7. OpsInv' /\ ShownInv' /\ bus' \in Seq(QueryEvent) /\ Len(bus') \in 0 .. MaxBus
  BY <1>1, <1>3, <1>4, <1>5, <1>6, PostStep DEF e
<1>8. TypeOK'
  BY <1>2, <1>3, <1>6, <1>7, ConstantsAssumption DEF IInv, TypeOK, ops, Age
<1> QED
  BY <1>7, <1>8 DEF IInv

LEMMA PostStatusStep ==
  ASSUME IInv, NEW k \in {"idle", "terminated", "failed"}, Post([kind |-> k]),
         UNCHANGED <<high, done, batch, quiet, ops, page>>, driver' \in {"up", "ended"}
  PROVE  IInv'
<1>1. [kind |-> k] \in QueryEvent /\ ~IsProgress([kind |-> k])
  BY DEF QueryEvent, IsProgress
<1>2. done' \in done .. MaxLog
  BY ConstantsAssumption DEF IInv, TypeOK
<1>3. OpsInv' /\ ShownInv' /\ bus' \in Seq(QueryEvent) /\ Len(bus') \in 0 .. MaxBus
  BY <1>1, <1>2, PostStep
<1>4. TypeOK'
  BY <1>3 DEF IInv, TypeOK, ops
<1> QED
  BY <1>3, <1>4 DEF IInv

\* The listener is gone: what is under way is dropped.
LEMMA DropStep ==
  ASSUME IInv, bus' = <<>>, driver' = "down",
         UNCHANGED <<high, done, batch, quiet, ops, page>>
  PROVE  IInv'
<1>1. bus' \in Seq(QueryEvent) /\ Len(bus') = 0 /\ DOMAIN bus' = {}
  OBVIOUS
<1>2. TypeOK'
  BY <1>1, ConstantsAssumption DEF IInv, TypeOK, ops
<1>3. BusTrue' /\ BusOrdered' /\ RowsBeforeBus'
  BY <1>1 DEF BusTrue, BusOrdered, RowsBeforeBus
<1>4. RowsTrue' /\ AppTrue' /\ ProgressConsistent'
  BY DEF IInv, OpsInv, RowsTrue, AppTrue, ProgressConsistent, Last, ops
<1>5. ShownInv'
  BY ShownStays DEF IInv, ShownFrame
<1> QED
  BY <1>2, <1>3, <1>4, <1>5 DEF IInv, OpsInv

-----------------------------------------------------------------------------
(* The listener *)

LEMMA TailOfBus ==
  ASSUME IInv, bus # <<>>, bus' = Tail(bus), UNCHANGED <<done, batch, quiet>>
  PROVE  /\ bus' \in Seq(QueryEvent) /\ Len(bus') \in 0 .. MaxBus
         /\ bus[1] = Head(bus) /\ bus[1] \in QueryEvent /\ Reported(bus[1]) /\ 1 \in DOMAIN bus
         /\ \A j \in DOMAIN bus' : /\ j + 1 \in DOMAIN bus /\ 1 < j + 1
                                   /\ bus'[j] = bus[j + 1]
         /\ BusTrue' /\ BusOrdered'
<1>1. bus \in Seq(QueryEvent) /\ Len(bus) \in Nat /\ Len(bus) > 0 /\ Len(bus) <= MaxBus
      /\ DOMAIN bus = 1 .. Len(bus)
  BY EmptySeq, LenProperties DEF IInv, TypeOK
<1>2. /\ bus' \in Seq(QueryEvent) /\ Len(bus') = Len(bus) - 1
      /\ \A j \in 1 .. Len(bus') : bus'[j] = bus[j + 1]
      /\ DOMAIN bus' = 1 .. Len(bus')
  BY <1>1, HeadTailProperties, LenProperties
<1>3. bus[1] = Head(bus) /\ bus[1] \in QueryEvent /\ 1 \in DOMAIN bus
  BY <1>1
<1>4. \A j \in DOMAIN bus' : j \in Int /\ j + 1 \in DOMAIN bus /\ 1 < j + 1 /\ bus'[j] = bus[j + 1]
  BY <1>1, <1>2
<1>5. BusTrue'
  BY <1>4 DEF IInv, OpsInv, BusTrue, Reported, IsProgress
<1>6. BusOrdered'
  <2> SUFFICES ASSUME NEW i \in DOMAIN bus', NEW j \in DOMAIN bus', i < j,
                      IsProgress(bus'[i]), IsProgress(bus'[j])
               PROVE  bus'[i].batch < bus'[j].batch /\ bus'[i].endOffset <= bus'[j].endOffset
    BY DEF BusOrdered, IsProgress
  <2>1. i + 1 < j + 1
    BY <1>4
  <2> QED
    BY <1>4, <2>1 DEF IInv, OpsInv, BusOrdered
<1>7. Len(bus') \in 0 .. MaxBus
  BY <1>1, <1>2, ConstantsAssumption
<1> QED
  BY <1>2, <1>3, <1>4, <1>5, <1>6, <1>7 DEF IInv, OpsInv, BusTrue

\* The transaction of a progress event: its row becomes the newest one.
LEMMA WriteProgressStep ==
  ASSUME IInv, bus # <<>>, bus' = Tail(bus), UNCHANGED <<done, batch, quiet>>,
         IsProgress(Head(bus)), WriteProgress(Head(bus))
  PROVE  /\ app' \in App /\ rows' \in Seq(Progress) /\ Len(rows') \in 0 .. Retention
         /\ rows' # <<>> /\ OpsInv'
         /\ Last(rows') = [batch |-> Head(bus).batch, offset |-> Head(bus).endOffset]
<1> DEFINE e == bus[1]
           row == [batch |-> e.batch, offset |-> e.endOffset]
           s == Append(rows, row)
<1>1. /\ e \in QueryEvent /\ Head(bus) = e /\ Reported(e) /\ IsProgress(e) /\ 1 \in DOMAIN bus
      /\ BusTrue' /\ BusOrdered'
      /\ \A j \in DOMAIN bus' : j + 1 \in DOMAIN bus /\ 1 < j + 1 /\ bus'[j] = bus[j + 1]
  BY TailOfBus
<1>2. e.batch \in 1 .. MaxBatch /\ e.age \in Age /\ e.endOffset \in 0 .. MaxLog
  BY <1>1, EventType
<1>3. row \in Progress
  BY <1>2 DEF Progress
<1>4. rows \in Seq(Progress) /\ Len(rows) \in Nat /\ DOMAIN rows = 1 .. Len(rows)
  BY LenProperties DEF IInv, TypeOK
<1>5. /\ s \in Seq(Progress) /\ Len(s) = Len(rows) + 1
      /\ \A i \in 1 .. Len(rows) : s[i] = rows[i] /\ rows[i] \in Progress
      /\ s[Len(rows) + 1] = row
  BY <1>3, <1>4, AppendProperties
<1>6. rows' = Newest(s) /\ app' = [status |-> "running", updated |-> 0,
                                   lastBatch |-> e.batch, lastProgress |-> e.age]
  BY <1>1 DEF WriteProgress, SourceOffset, ProgressAge
<1>7. row.batch = e.batch /\ row.offset = e.endOffset
  OBVIOUS
<1> HIDE DEF s, row, e
<1>8. /\ rows' \in Seq(Progress) /\ rows' # <<>> /\ Len(rows') \in 1 .. Retention
      /\ Len(rows') <= Len(s)
      /\ \A i \in 1 .. Len(rows') : rows'[i] = s[i + Len(s) - Len(rows')]
      /\ DOMAIN rows' = 1 .. Len(rows')
  <2>1. Len(s) > 0
    BY <1>4, <1>5
  <2>2. /\ rows' \in Seq(Progress) /\ rows' # <<>> /\ Len(rows') \in 1 .. Retention
        /\ Len(rows') <= Len(s)
        /\ \A i \in 1 .. Len(rows') : rows'[i] = s[i + Len(s) - Len(rows')]
    BY <1>5, <1>6, <2>1, NewestRows
  <2> QED
    BY <2>2, LenProperties
<1>9. app' \in App
  <2>1. 0 \in Age
    BY ConstantsAssumption DEF Age
  <2> QED
    BY <1>2, <1>6, <2>1 DEF App, Status
<1>10. \A i \in 1 .. Len(rows) : /\ rows[i].offset <= done /\ rows[i].batch <= batch
                                 /\ rows[i].batch < e.batch
                                 /\ rows[i].offset <= e.endOffset
  BY <1>1, <1>4 DEF IInv, OpsInv, RowsTrue, RowsBeforeBus, e
<1>11. e.batch <= batch /\ e.endOffset <= done /\ quiet <= e.age
  BY <1>1 DEF Reported
\* Every row that is kept is an old one or the new one.
<1> DEFINE at(i) == i + Len(s) - Len(rows')
<1>12. \A i \in DOMAIN rows' : at(i) \in 1 .. Len(rows) + 1 /\ rows'[i] = s[at(i)]
  BY <1>4, <1>5, <1>8, ConstantsAssumption
<1>13. RowsTrue'
  <2> SUFFICES ASSUME NEW i \in DOMAIN rows'
               PROVE  rows'[i].offset <= done /\ rows'[i].batch <= batch
    BY DEF RowsTrue
  <2>1. CASE at(i) \in 1 .. Len(rows)
    BY <1>5, <1>10, <1>12, <2>1
  <2>2. CASE at(i) = Len(rows) + 1
    BY <1>5, <1>7, <1>11, <1>12, <2>2
  <2> QED
    BY <1>4, <1>12, <2>1, <2>2
<1>14. AppTrue'
  BY <1>6, <1>11 DEF AppTrue
<1>15. \A i \in DOMAIN rows' : rows'[i].batch <= e.batch /\ rows'[i].offset <= e.endOffset
  <2> SUFFICES ASSUME NEW i \in DOMAIN rows'
               PROVE  rows'[i].batch <= e.batch /\ rows'[i].offset <= e.endOffset
    OBVIOUS
  <2>1. CASE at(i) \in 1 .. Len(rows)
    <3>1. s[at(i)] \in Progress /\ s[at(i)].batch < e.batch /\ s[at(i)].offset <= e.endOffset
      BY <1>5, <1>10, <2>1
    <3> QED
      BY <1>2, <1>12, <3>1 DEF Progress
  <2>2. CASE at(i) = Len(rows) + 1
    BY <1>2, <1>5, <1>7, <1>12, <2>2
  <2> QED
    BY <1>4, <1>12, <2>1, <2>2
<1>16. RowsBeforeBus'
  <2> SUFFICES ASSUME NEW i \in DOMAIN rows', NEW j \in DOMAIN bus', IsProgress(bus'[j])
               PROVE  rows'[i].batch < bus'[j].batch /\ rows'[i].offset <= bus'[j].endOffset
    BY DEF RowsBeforeBus, IsProgress
  <2>1. e.batch < bus'[j].batch /\ e.endOffset <= bus'[j].endOffset
    BY <1>1 DEF IInv, OpsInv, BusOrdered, e
  <2>2. /\ bus'[j].batch \in Nat /\ rows'[i].batch \in Nat
        /\ bus'[j].endOffset \in Nat /\ rows'[i].offset \in Nat
    <3>1. bus[j + 1] \in QueryEvent
      BY <1>1 DEF IInv, TypeOK
    <3>2. rows'[i] \in Progress
      BY <1>8
    <3> QED
      BY <1>1, <3>1, <3>2, EventType DEF Progress
  <2> QED
    BY <1>2, <1>15, <2>1, <2>2
<1>17. Last(rows') = row
  <2>1. Len(rows') \in DOMAIN rows' /\ at(Len(rows')) = Len(rows) + 1
    BY <1>4, <1>5, <1>8
  <2> QED
    BY <1>5, <1>12, <2>1 DEF Last
<1>18. ProgressConsistent'
  <2>1. ASSUME NEW i \in DOMAIN rows', NEW j \in DOMAIN rows', i < j
        PROVE  rows'[i].batch < rows'[j].batch
    <3>1. /\ at(i) < at(j) /\ at(i) \in 1 .. Len(rows)
          /\ rows'[i] = s[at(i)] /\ rows'[j] = s[at(j)] /\ at(j) \in 1 .. Len(rows) + 1
      BY <1>4, <1>5, <1>8, <1>12, <2>1
    <3>2. CASE at(j) \in 1 .. Len(rows)
      BY <1>4, <1>5, <3>1, <3>2 DEF IInv, OpsInv, ProgressConsistent
    <3>3. CASE at(j) = Len(rows) + 1
      BY <1>5, <1>7, <1>10, <3>1, <3>3
    <3> QED
      BY <1>4, <3>1, <3>2, <3>3
  <2>2. app' # None /\ app'.lastBatch = row.batch
    BY <1>6, <1>7, <1>9, NoneAssumption
  <2> QED
    BY <1>17, <2>1, <2>2 DEF ProgressConsistent, Last
<1>19. row = [batch |-> Head(bus).batch, offset |-> Head(bus).endOffset]
  BY DEF row, e
<1> QED
  BY <1>1, <1>8, <1>9, <1>13, <1>14, <1>16, <1>17, <1>18, <1>19, ConstantsAssumption DEF OpsInv

LEMMA DeliverStep ==
  ASSUME IInv, Deliver
  PROVE  IInv'
<1>1. /\ bus # <<>> /\ bus' = Tail(bus)
      /\ UNCHANGED <<high, done, batch, quiet, driver, page>>
  BY DEF Deliver, job
<1>2. /\ bus' \in Seq(QueryEvent) /\ Len(bus') \in 0 .. MaxBus
      /\ bus[1] = Head(bus) /\ bus[1] \in QueryEvent
      /\ \A j \in DOMAIN bus' : j + 1 \in DOMAIN bus /\ bus'[j] = bus[j + 1]
      /\ BusTrue' /\ BusOrdered'
  BY <1>1, TailOfBus
<1>3. ShownInv'
  BY <1>1, ShownStays DEF IInv, ShownFrame
<1>4. CASE IsProgress(Head(bus)) /\ WriteProgress(Head(bus))
  <2>1. app' \in App /\ rows' \in Seq(Progress) /\ Len(rows') \in 0 .. Retention /\ OpsInv'
    BY <1>1, <1>4, WriteProgressStep
  <2>2. TypeOK'
    BY <1>1, <1>2, <2>1 DEF IInv, TypeOK
  <2> QED
    BY <1>3, <2>1, <2>2 DEF IInv
<1>5. ASSUME UNCHANGED rows
      PROVE  RowsBeforeBus'
  BY <1>2, <1>5 DEF IInv, OpsInv, RowsBeforeBus, IsProgress
<1>6. CASE ~IsProgress(Head(bus)) /\ WriteStatus(Head(bus).kind) /\ UNCHANGED rows
  <2>1. Head(bus).kind \in Status
    BY <1>2, <1>6, EventType
  <2>2. app' \in App
    BY <1>6, <2>1, StatusTypes DEF IInv
  <2>3. RowsTrue' /\ AppTrue' /\ ProgressConsistent'
    BY <1>1, <1>6, <2>1, StatusStep
  <2>4. TypeOK'
    BY <1>1, <1>2, <1>6, <2>2 DEF IInv, TypeOK
  <2> QED
    BY <1>2, <1>3, <1>5, <1>6, <2>3, <2>4 DEF IInv, OpsInv
<1>7. CASE UNCHANGED ops
  <2>1. TypeOK'
    BY <1>1, <1>2, <1>7 DEF IInv, TypeOK, ops
  <2>2. RowsTrue' /\ AppTrue' /\ ProgressConsistent'
    BY <1>1, <1>7 DEF IInv, OpsInv, RowsTrue, AppTrue, ProgressConsistent, Last, ops
  <2> QED
    BY <1>2, <1>3, <1>5, <1>7, <2>1, <2>2 DEF IInv, OpsInv, ops
<1> QED
  BY <1>4, <1>6, <1>7 DEF Deliver, Handle, IsProgress

\* Time passes for the last commit and for every report of one alike.
LEMMA TickStep ==
  ASSUME IInv, Tick
  PROVE  IInv'
<1>1. /\ quiet' = Older(quiet) /\ UNCHANGED <<high, done, batch, driver, rows, page>>
      /\ bus' = [i \in DOMAIN bus |->
                   IF bus[i].kind = "progress" THEN [bus[i] EXCEPT !.age = Older(@)] ELSE bus[i]]
      /\ app' = IF app = None THEN None
                ELSE [app EXCEPT !.updated = Older(@), !.lastProgress = Older(@)]
  BY DEF Tick
<1>2. quiet \in Age /\ quiet' \in Age
  BY <1>1, OlderAge DEF IInv, TypeOK
<1>3. bus \in Seq(QueryEvent) /\ Len(bus) \in Nat /\ DOMAIN bus = 1 .. Len(bus)
      /\ \A i \in DOMAIN bus : bus[i] \in QueryEvent
  BY LenProperties DEF IInv, TypeOK
<1>4. ASSUME NEW i \in DOMAIN bus
      PROVE  /\ bus'[i] \in QueryEvent
             /\ IsProgress(bus'[i]) <=> IsProgress(bus[i])
             /\ IsProgress(bus[i]) => /\ bus'[i].batch = bus[i].batch
                                      /\ bus'[i].endOffset = bus[i].endOffset
                                      /\ bus'[i].age = Older(bus[i].age)
  <2>1. CASE IsProgress(bus[i])
    <3>1. bus'[i] = [bus[i] EXCEPT !.age = Older(bus[i].age)]
      BY <1>1, <2>1 DEF IsProgress
    <3>2. bus[i] \in [kind : {"progress"}, batch : 1 .. MaxBatch, age : Age,
                      endOffset : 0 .. MaxLog, latestOffset : 0 .. MaxLog]
      BY <1>3, <2>1 DEF QueryEvent, IsProgress
    <3>3. Older(bus[i].age) \in Age
      BY <3>2, OlderAge
    <3>4. bus'[i] \in [kind : {"progress"}, batch : 1 .. MaxBatch, age : Age,
                       endOffset : 0 .. MaxLog, latestOffset : 0 .. MaxLog]
      BY <3>1, <3>2, <3>3
    <3> QED
      BY <2>1, <3>1, <3>2, <3>4 DEF QueryEvent, IsProgress
  <2>2. CASE ~IsProgress(bus[i])
    <3>1. bus'[i] = bus[i]
      BY <1>1, <2>2 DEF IsProgress
    <3> QED
      BY <1>3, <2>2, <3>1 DEF IsProgress
  <2> QED
    BY <2>1, <2>2
<1>5. DOMAIN bus' = DOMAIN bus /\ bus' \in Seq(QueryEvent) /\ Len(bus') = Len(bus)
  <2>1. bus' \in [1 .. Len(bus) -> QueryEvent]
    BY <1>1, <1>3, <1>4
  <2>2. bus' \in Seq(QueryEvent)
    BY <1>3, <2>1
  <2> QED
    BY <1>1, <1>3, <2>1, <2>2, LenProperties
<1>6. app # None => /\ app' \in App /\ app'.lastBatch = app.lastBatch
                    /\ app'.lastProgress = Older(app.lastProgress)
                    /\ app.lastProgress \in Age
  <2> SUFFICES ASSUME app # None
               PROVE  /\ app' \in App /\ app'.lastBatch = app.lastBatch
                      /\ app'.lastProgress = Older(app.lastProgress)
                      /\ app.lastProgress \in Age
    OBVIOUS
  <2>1. app \in App
    BY DEF IInv, TypeOK
  <2>2. app' = [app EXCEPT !.updated = Older(app.updated), !.lastProgress = Older(app.lastProgress)]
    BY <1>1
  <2>3. app.updated \in Age /\ app.lastProgress \in Age
    BY <2>1 DEF App
  <2>4. Older(app.updated) \in Age /\ Older(app.lastProgress) \in Age
    BY <2>3, OlderAge
  <2> QED
    BY <2>1, <2>2, <2>3, <2>4 DEF App
<1>7. app = None => app' = None
  BY <1>1
<1>8. TypeOK'
  BY <1>1, <1>2, <1>5, <1>6, <1>7 DEF IInv, TypeOK
<1>9. BusTrue'
  <2> SUFFICES ASSUME NEW i \in DOMAIN bus, IsProgress(bus[i])
               PROVE  /\ bus'[i].endOffset <= done' /\ bus'[i].batch <= batch'
                      /\ quiet' <= bus'[i].age
    BY <1>4, <1>5 DEF BusTrue, Reported, IsProgress
  <2>1. bus[i].endOffset <= done /\ bus[i].batch <= batch /\ quiet <= bus[i].age
        /\ bus[i].age \in Age
    BY <1>3, EventType DEF IInv, OpsInv, BusTrue, Reported
  <2> QED
    BY <1>1, <1>2, <1>4, <2>1, OlderMonotonic
<1>10. AppTrue'
  BY <1>1, <1>2, <1>6, <1>7, OlderMonotonic DEF IInv, OpsInv, AppTrue
<1>11. BusOrdered' /\ RowsBeforeBus'
  BY <1>1, <1>4, <1>5 DEF IInv, OpsInv, BusOrdered, RowsBeforeBus, IsProgress
<1>12. RowsTrue' /\ ProgressConsistent'
  <2>1. rows # <<>> => app # None /\ app'.lastBatch = app.lastBatch /\ app' # None
    BY <1>6, NoneAssumption DEF IInv, OpsInv, ProgressConsistent
  <2> QED
    BY <1>1, <2>1 DEF IInv, OpsInv, RowsTrue, ProgressConsistent, Last
<1>13. ShownInv'
  BY <1>1, ShownStays DEF IInv, ShownFrame
<1> QED
  BY <1>8, <1>9, <1>10, <1>11, <1>12, <1>13 DEF IInv, OpsInv

-----------------------------------------------------------------------------
(* The page *)

LEMMA PageStep ==
  ASSUME IInv, UNCHANGED <<job, bus, ops>>, ShownInv',
         page' \in [at : {"start", "database", "shown"}, processed : (0 .. MaxLog) \cup {None},
                    backlog : (0 .. MaxLog) \cup {None}, actual : 0 .. MaxLog]
  PROVE  IInv'
<1>1. TypeOK'
  BY DEF IInv, TypeOK, job, ops
<1>2. OpsInv'
  BY OpsStays DEF IInv, OpsFrame, job
<1> QED
  BY <1>1, <1>2 DEF IInv

\* The offset that is shown was committed before.
LEMMA ReadDatabaseStep ==
  ASSUME IInv, ReadDatabase
  PROVE  IInv'
<1>1. page' = [NoPage EXCEPT !.at = "database", !.processed = ProcessedOffset]
      /\ UNCHANGED <<job, bus, ops>>
  BY DEF ReadDatabase
<1>2. /\ ProcessedOffset \in (0 .. MaxLog) \cup {None}
      /\ ProcessedOffset # None => ProcessedOffset <= done
  <2>1. CASE rows = <<>>
    BY <2>1 DEF ProcessedOffset
  <2>2. CASE rows # <<>>
    <3>1. Len(rows) \in DOMAIN rows
      BY <2>2, EmptySeq, LenProperties DEF IInv, TypeOK
    <3>2. rows[Len(rows)] \in Progress /\ rows[Len(rows)].offset <= done
      BY <3>1, RowType DEF IInv, OpsInv, RowsTrue
    <3> QED
      BY <2>2, <3>2 DEF ProcessedOffset, Last, Progress
  <2> QED
    BY <2>1, <2>2
<1>3. page' = [at |-> "database", processed |-> ProcessedOffset, backlog |-> None, actual |-> 0]
  BY <1>1 DEF NoPage
<1>4. ShownInv'
  BY <1>1, <1>2, <1>3 DEF ShownInv, PageTrue, BacklogNotUnderstated, job
<1>5. page' \in [at : {"start", "database", "shown"}, processed : (0 .. MaxLog) \cup {None},
                 backlog : (0 .. MaxLog) \cup {None}, actual : 0 .. MaxLog]
  BY <1>2, <1>3, ConstantsAssumption
<1> QED
  BY <1>1, <1>4, <1>5, PageStep

LEMMA ReadWatermarksStep ==
  ASSUME IInv, ReadWatermarks
  PROVE  IInv'
<1>1. page.at = "database" /\ UNCHANGED <<job, bus, ops>>
      /\ page' = [page EXCEPT !.at = "shown", !.backlog = Backlog(high, page.processed),
                              !.actual = high - done]
  BY DEF ReadWatermarks
<1>2. /\ page.processed \in (0 .. MaxLog) \cup {None}
      /\ page.processed # None => page.processed <= done
      /\ high \in 0 .. MaxLog /\ done \in 0 .. high
  BY <1>1 DEF IInv, TypeOK, ShownInv, PageTrue
<1> DEFINE b == Backlog(high, page.processed)
<1>3. b \in (0 .. MaxLog) \cup {None} /\ (b # None => b >= high - done)
      /\ high - done \in 0 .. MaxLog
  BY <1>2, ConstantsAssumption DEF Backlog
<1> HIDE DEF b
<1>4. page' = [page EXCEPT !.at = "shown", !.backlog = b, !.actual = high - done]
  BY <1>1 DEF b
<1>5. page' \in [at : {"start", "database", "shown"}, processed : (0 .. MaxLog) \cup {None},
                 backlog : (0 .. MaxLog) \cup {None}, actual : 0 .. MaxLog]
      /\ page'.at = "shown" /\ page'.backlog = b /\ page'.actual = high - done
  BY <1>3, <1>4 DEF IInv, TypeOK
<1>6. ShownInv'
  BY <1>3, <1>5 DEF ShownInv, PageTrue, BacklogNotUnderstated
<1> QED
  BY <1>1, <1>5, <1>6, PageStep

LEMMA UnavailableStep ==
  ASSUME IInv, Unavailable
  PROVE  IInv'
<1>1. ShownInv'
  BY DEF Unavailable, NoPage, ShownInv, PageTrue, BacklogNotUnderstated
<1>2. page' \in [at : {"start", "database", "shown"}, processed : (0 .. MaxLog) \cup {None},
                 backlog : (0 .. MaxLog) \cup {None}, actual : 0 .. MaxLog]
  BY ConstantsAssumption DEF Unavailable, NoPage
<1> QED
  BY <1>1, <1>2, PageStep DEF Unavailable

-----------------------------------------------------------------------------
LEMMA InitInvariant == Init => IInv
<1> SUFFICES ASSUME Init PROVE IInv
  OBVIOUS
<1>1. /\ bus \in Seq(QueryEvent) /\ Len(bus) = 0 /\ DOMAIN bus = {}
      /\ rows \in Seq(Progress) /\ Len(rows) = 0 /\ DOMAIN rows = {}
  BY DEF Init
<1>2. TypeOK
  BY <1>1, ConstantsAssumption DEF Init, TypeOK, NoPage, Age
<1>3. OpsInv
  BY <1>1 DEF Init, OpsInv, BusTrue, RowsTrue, AppTrue, BusOrdered, RowsBeforeBus, ProgressConsistent
<1>4. ShownInv
  BY DEF Init, NoPage, ShownInv, PageTrue, BacklogNotUnderstated
<1> QED
  BY <1>2, <1>3, <1>4 DEF IInv

LEMMA NextInvariant == IInv /\ [Next]_vars => IInv'
<1> SUFFICES ASSUME IInv, [Next]_vars PROVE IInv'
  OBVIOUS
<1>1. CASE QueryIdle
  BY <1>1, PostStatusStep DEF QueryIdle, job
<1>2. CASE QueryTerminates
  BY <1>2, PostStatusStep DEF QueryTerminates
<1>3. CASE RemoveListener
  BY <1>3, DropStep DEF RemoveListener
<1>4. CASE Crash
  BY <1>4, DropStep DEF Crash
<1>5. CASE UNCHANGED vars
  BY <1>5, OpsStays, ShownStays DEF IInv, TypeOK, vars, job, ops, OpsFrame, ShownFrame
<1> QED
  BY <1>1, <1>2, <1>3, <1>4, <1>5, PublishStep, StartQueryStep, CompleteBatchStep, DeliverStep,
     TickStep, ReadDatabaseStep, ReadWatermarksStep, UnavailableStep DEF Next

\* A row becomes the newest one only when its event is handled.
LEMMA RowsStep ==
  ASSUME IInv, [Next]_vars, rows' # rows
  PROVE  /\ bus # <<>> /\ IsProgress(Head(bus)) /\ rows' # <<>>
         /\ Last(rows') = [batch |-> Head(bus).batch, offset |-> Head(bus).endOffset]
<1>1. Deliver
  BY DEF Next, Publish, StartQuery, CompleteBatch, QueryIdle, QueryTerminates, RemoveListener,
     Crash, Tick, ReadDatabase, ReadWatermarks, Unavailable, ops, vars
<1>2. /\ bus # <<>> /\ bus' = Tail(bus) /\ UNCHANGED <<done, batch, quiet>>
      /\ IsProgress(Head(bus)) /\ WriteProgress(Head(bus))
  BY <1>1 DEF Deliver, Handle, IsProgress, ops, job
<1> QED
  BY <1>2, WriteProgressStep

\* What is under way was reported after what is stored.
LEMMA ProgressAdvances ==
  ASSUME IInv, [Next]_vars, rows # <<>>, rows' # rows
  PROVE  /\ rows' # <<>>
         /\ Last(rows').batch >= Last(rows).batch
         /\ Last(rows').offset >= Last(rows).offset
<1>1. /\ bus # <<>> /\ IsProgress(Head(bus)) /\ rows' # <<>>
      /\ Last(rows') = [batch |-> Head(bus).batch, offset |-> Head(bus).endOffset]
  BY RowsStep
<1>2. 1 \in DOMAIN bus /\ bus[1] = Head(bus) /\ bus[1] \in QueryEvent
  BY <1>1, EmptySeq, LenProperties DEF IInv, TypeOK
<1>3. Len(rows) \in DOMAIN rows /\ Last(rows) = rows[Len(rows)]
  BY EmptySeq, LenProperties DEF IInv, TypeOK, Last
<1>4. Last(rows).batch < Head(bus).batch /\ Last(rows).offset <= Head(bus).endOffset
  BY <1>1, <1>2, <1>3 DEF IInv, OpsInv, RowsBeforeBus
<1>5. /\ Last(rows).batch \in Nat /\ Last(rows).offset \in Nat
      /\ Head(bus).batch \in Nat /\ Head(bus).endOffset \in Nat
  BY <1>1, <1>2, <1>3, RowType, EventType DEF IInv
<1> QED
  BY <1>1, <1>4, <1>5

\* The inductive invariant of listener and page.
THEOREM HealthInvariant == Spec => []IInv
  BY InitInvariant, NextInvariant, PTL DEF Spec

\* The ops tables, the listener bus and the page have their declared shape.
THEOREM HealthTypes == Spec => []TypeOK
<1>1. IInv => TypeOK
  BY DEF IInv
<1> QED
  BY <1>1, HealthInvariant, PTL

\* The page never shows less backlog than there is: a stored offset was
\* committed, and the broker is asked after the database
\* (calculate_kafka_backlog).
THEOREM HealthBacklogNotUnderstated == Spec => []BacklogNotUnderstated
<1>1. IInv => BacklogNotUnderstated
  BY DEF IInv, ShownInv
<1> QED
  BY <1>1, HealthInvariant, PTL

\* The status row names the newest batch among the rows that retention kept
\* (_write_progress).
THEOREM HealthProgressConsistent == Spec => []ProgressConsistent
<1>1. IInv => ProgressConsistent
  BY DEF IInv, OpsInv
<1> QED
  BY <1>1, HealthInvariant, PTL

\* The stored progress never runs backwards: rows are written in the order of
\* the batches, whose offsets do not decrease (_write_progress).
THEOREM HealthProgressNeverBackwards == Spec => ProgressNeverBackwards
<1>1. IInv /\ [Next]_vars =>
        [rows # <<>> => /\ rows' # <<>>
                        /\ Last(rows').batch >= Last(rows).batch
                        /\ Last(rows').offset >= Last(rows).offset]_rows
  BY ProgressAdvances
<1> QED
  BY <1>1, HealthInvariant, PTL DEF Spec, ProgressNeverBackwards

\* Running and Idle are shown only within the threshold after a commit
\* (display_status).
THEOREM HealthRunningMeansRecent == Spec => []RunningMeansRecent
<1>1. IInv => RunningMeansRecent
  <2> SUFFICES ASSUME IInv, DisplayStatus \in {"Running", "Idle"} PROVE ~TooOld(quiet)
    BY DEF RunningMeansRecent
  <2>1. app # None /\ ~TooOld(app.lastProgress)
    BY DEF DisplayStatus
  <2>2. app.lastProgress \in Age /\ quiet \in Age /\ quiet <= app.lastProgress
    BY <2>1 DEF IInv, OpsInv, AppTrue, TypeOK, App
  <2> QED
    BY <2>1, <2>2, ConstantsAssumption DEF TooOld, Age
<1> QED
  BY <1>1, HealthInvariant, PTL
=============================================================================
