----------------------- MODULE RouteReliabilityProofs -----------------------
(***************************************************************************)
(* What the trip samples and the Route Reliability page keep, for every    *)
(* set of trip updates, feeds, schedules and thresholds.                   *)
(***************************************************************************)
EXTENDS RouteReliability, FiniteOrders, FiniteSetTheorems, TLAPS

OneEach(S) == \A r, s \in S : SameSample(r, s) => r = s
NotOlder(r, s) == SameSample(r, s) /\ TimeOf[s] >= TimeOf[r]
Covers(T, S) == \A r \in S : \E s \in T : NotOlder(r, s)

\* Records lie in the table under their ids, and none is of the future.
StoredKeyed == \A e \in Event : updates[e] # None => IdOf[updates[e]] = e
StoredPast == \A r \in Stored : TimeOf[r] <= now

\* What has been computed from the table is still there.
RowsStored == samples.rows \subseteq Stored
HealthStored == \A h \in health : \E r \in Stored : BucketOf(r) = h.bucket
LatestStored == page.latest # None => \E r \in Stored : BucketOf(r) = page.latest

\* The table under construction has a successor of each sample.
CreatedCovers ==
    build = "samples" =>
        /\ created \in Table /\ created.rows \subseteq Stored
        /\ OneEach(created.rows) /\ Covers(created.rows, samples.rows)

\* The route health was computed from samples that the visible ones cover,
\* from these themselves when the last build was completed.
Behind(t) ==
    /\ t \in Table /\ OneEach(t.rows)
    /\ health = HealthOf(t)
    /\ Covers(samples.rows, t.rows)
HealthBehind == \E t : Behind(t)
HealthCurrent == build = "done" => health = HealthOf(samples)

MartsInv ==
    /\ MartsTypeOK
    /\ StoredKeyed /\ StoredPast
    /\ RowsStored /\ HealthStored
    /\ CreatedCovers
    /\ HealthBehind /\ HealthCurrent

\* Each sample counted for the current window has a successor among the
\* samples that the query for the previous window reads.
CurrentCovered ==
    page.at = "current" =>
        /\ \A r \in page.current : TimeOf[r] >= Start
        /\ Covers(samples.rows, page.current)

Cleared ==
    /\ page.at \notin {"current", "previous"} => page.current = {}
    /\ page.at # "previous" => page.previous = {}

PageTyped == page \in Page /\ Cardinality(page.details.rows) <= SampleLimit

PageInv ==
    /\ PageTyped
    /\ LatestStored /\ CurrentCovered /\ Cleared
    /\ NoDoubleCount /\ UnwarnedMeansRecent

IInv == MartsInv /\ PageInv

-----------------------------------------------------------------------------
(* Buckets and the order of the updates. *)

\* A bucket begins before the times that lie in it.
LEMMA BucketBegins ==
    ASSUME NEW t \in Nat, NEW b \in Nat \ {0}
    PROVE  t \div b \in Nat /\ (t \div b) * b <= t
<1> DEFINE q == t \div b
           m == t % b
<1>1. q \in Int /\ m \in 0 .. (b - 1) /\ t = b * q + m
  BY SMT
<1>2. b * q <= t
  BY <1>1
<1> HIDE DEF q, m
<1>3. q \in Nat
  <2> SUFFICES ASSUME q <= -1 PROVE FALSE
    BY <1>1
  <2>1. b * (q + 1) <= 0
    BY <1>1
  <2>2. b * (q + 1) = b * q + b
    BY <1>1
  <2> QED
    BY <1>1, <2>1, <2>2
<1>4. q * b = b * q
  BY <1>3
<1> QED
  BY <1>2, <1>3, <1>4 DEF q

-----------------------------------------------------------------------------
(* The query of the trip samples. *)

LEMMA RecordsTyped ==
    \A r \in Record : /\ IdOf[r] \in Event /\ IdRank[IdOf[r]] \in Nat
                      /\ TimeOf[r] \in Nat /\ BucketOf(r) \in Nat
                      /\ BucketOf(r) * Bucket <= TimeOf[r]
BY BucketBegins, MartsAssumption DEF MartsAssumption, BucketOf

\* The newest event of a trip and a bucket is unique.
LEMMA SampledOneEach == OneEach(Sampled)
<1> SUFFICES ASSUME NEW r \in Sampled, NEW s \in Sampled, SameSample(r, s), r # s
             PROVE  FALSE
  BY DEF OneEach
<1>1. Precedes(r, s) /\ Precedes(s, r)
  BY DEF Sampled, SameSample
<1>2. r \in Record /\ s \in Record
  BY DEF Sampled, Stored
<1> QED
  BY <1>1, <1>2, RecordsTyped DEF Precedes

\* Each event with an upcoming stop has a sample that is not older.
LEMMA SampledCovers ==
    ASSUME StoredKeyed
    PROVE  Covers(Sampled, Stored \cap Observed)
<1> SUFFICES ASSUME NEW r \in Stored \cap Observed
             PROVE  \E s \in Sampled : NotOlder(r, s)
  BY DEF Covers
<1> DEFINE S == {s \in Stored \cap Observed : NotOlder(r, s)}
           R == {p \in Record \X Record : Precedes(p[1], p[2])}
<1>1. S \subseteq Record /\ r \in S
  BY RecordsTyped DEF Stored, NotOlder, SameSample
<1>2. IsFiniteSet(S)
  BY <1>1, FS_Subset, MartsAssumption DEF MartsAssumption
<1>3. \A x, y \in Record : <<x, y>> \in R <=> Precedes(x, y)
  OBVIOUS
<1>4. PICK s \in S : \A t \in S : <<t, s>> \notin R
  <2>1. \A x \in S : <<x, x>> \notin R
    BY <1>1, <1>3, RecordsTyped DEF Precedes
  <2>2. \A x, y, z \in S : <<x, y>> \in R /\ <<y, z>> \in R => <<x, z>> \in R
    <3> SUFFICES ASSUME NEW x \in Record, NEW y \in Record, NEW z \in Record,
                        Precedes(x, y), Precedes(y, z)
                 PROVE  Precedes(x, z)
      BY <1>1, <1>3
    <3> QED
      BY RecordsTyped DEF Precedes
  <2> HIDE DEF S, R
  <2> QED
    BY <1>1, <1>2, <2>1, <2>2, FirstExists
<1>5. ASSUME NEW t \in Stored \cap Observed, SameSample(s, t), t # s
      PROVE  Precedes(s, t)
  <2>1. t \in Record /\ s \in Record
    BY <1>1 DEF Stored
  <2>2. IdOf[s] # IdOf[t]
    <3>1. PICK d \in Event : updates[d] = s
      BY DEF Stored
    <3>2. PICK e \in Event : updates[e] = t
      BY DEF Stored
    <3>3. s # None /\ t # None
      BY <2>1, MartsAssumption DEF MartsAssumption
    <3> QED
      BY <1>5, <3>1, <3>2, <3>3 DEF StoredKeyed
  <2>3. IdRank[IdOf[s]] # IdRank[IdOf[t]]
    BY <2>1, <2>2, RecordsTyped, MartsAssumption DEF MartsAssumption
  <2>4. Precedes(s, t) \/ Precedes(t, s)
    BY <2>1, <2>3, RecordsTyped DEF Precedes
  <2>5. ASSUME Precedes(t, s) PROVE FALSE
    <3>1. TimeOf[t] >= TimeOf[s]
      BY <2>1, <2>5, RecordsTyped DEF Precedes
    <3>2. NotOlder(r, t)
      BY <1>1, <1>5, <2>1, <3>1, RecordsTyped DEF NotOlder, SameSample
    <3> QED
      BY <1>3, <1>4, <2>1, <2>5, <3>2
  <2> QED
    BY <2>4, <2>5
<1>6. s \in Sampled
  BY <1>5 DEF Sampled
<1> QED
  BY <1>6

LEMMA SampledTyped == Sampled \subseteq Stored \cap Observed
BY DEF Sampled

LEMMA CoversTransitive ==
    ASSUME NEW A \in SUBSET Record, NEW B \in SUBSET Record, NEW C \in SUBSET Record,
           Covers(B, A), Covers(C, B)
    PROVE  Covers(C, A)
<1> SUFFICES ASSUME NEW r \in A PROVE \E t \in C : NotOlder(r, t)
  BY DEF Covers
<1>1. PICK s \in B : NotOlder(r, s)
  BY DEF Covers
<1>2. PICK t \in C : NotOlder(s, t)
  BY DEF Covers
<1>3. NotOlder(r, t)
  BY <1>1, <1>2, RecordsTyped DEF NotOlder, SameSample
<1> QED
  BY <1>3

\* Every sample is its own successor.
LEMMA CoversItself ==
    ASSUME NEW S \in SUBSET Record
    PROVE  Covers(S, S)
BY RecordsTyped DEF Covers, NotOlder, SameSample

\* Samples that others cover are, in each bucket, not more than these: their
\* successors are of the same trip and bucket, hence different ones.
LEMMA CoveredAreFewer ==
    ASSUME NEW S \in SUBSET Record, NEW T \in SUBSET Record, OneEach(S), Covers(T, S),
           NEW b, NEW G \in SUBSET S, \A r \in G : BucketOf(r) = b
    PROVE  Cardinality(G) <= Cardinality({r \in T : BucketOf(r) = b})
<1> DEFINE U == {r \in T : BucketOf(r) = b}
           f == [r \in G |-> CHOOSE s \in T : NotOlder(r, s)]
<1>1. \A r \in G : f[r] \in T /\ NotOlder(r, f[r])
  BY DEF Covers
<1>2. \A r \in G : f[r] \in U
  BY <1>1 DEF NotOlder, SameSample
<1>3. \A r, s \in G : f[r] = f[s] => r = s
  <2> SUFFICES ASSUME NEW r \in G, NEW s \in G, f[r] = f[s] PROVE r = s
    OBVIOUS
  <2>1. SameSample(r, f[r]) /\ SameSample(s, f[r])
    BY <1>1 DEF NotOlder
  <2>2. SameSample(r, s)
    BY <2>1 DEF SameSample
  <2> QED
    BY <2>2 DEF OneEach
<1>4. IsFiniteSet(U)
  BY FS_Subset, MartsAssumption DEF MartsAssumption
<1> HIDE DEF U
<1>5. f \in Injection(G, U)
  <2>1. f \in [G -> U]
    BY <1>2
  <2> HIDE DEF f
  <2> QED
    BY <1>3, <2>1 DEF Injection, IsInjective
<1> HIDE DEF f
<1>6. Cardinality(G) <= Cardinality(U)
  BY <1>4, <1>5, FS_Injection
<1> QED
  BY <1>6 DEF U

\* The aggregate of covered samples is not ahead of those that cover them.
LEMMA BehindIsNotAhead ==
    ASSUME NEW t, Behind(t), samples.rows \subseteq Record, NEW h \in health
    PROVE  h.observed <= Cardinality(SamplesIn(h.bucket))
<1>1. PICK r \in BusRows(t) : h = HealthRow(t, r)
  BY DEF Behind, HealthOf
<1>2. h.observed = Cardinality(GroupOf(t, r)) /\ h.bucket = BucketOf(r)
  BY <1>1 DEF HealthRow
<1>3. t.rows \subseteq Record
  BY DEF Behind, Table, Observed
<1>4. GroupOf(t, r) \subseteq t.rows /\ \A s \in GroupOf(t, r) : BucketOf(s) = BucketOf(r)
  BY DEF GroupOf, BusRows
<1> QED
  BY <1>2, <1>3, <1>4, CoveredAreFewer DEF Behind, SamplesIn

\* While the health stays, samples that cover the former ones are ahead of it.
LEMMA StaysBehind ==
    ASSUME HealthBehind, samples.rows \subseteq Record, samples'.rows \subseteq Record,
           Covers(samples'.rows, samples.rows), UNCHANGED health
    PROVE  HealthBehind'
<1>1. PICK t : Behind(t)
  BY DEF HealthBehind
<1>2. t.rows \subseteq Record
  BY <1>1 DEF Behind, Table, Observed
<1>3. Covers(samples'.rows, t.rows)
  BY <1>1, <1>2, CoversTransitive DEF Behind
<1>4. Behind(t)'
  BY <1>1, <1>3
  DEF Behind, Covers, NotOlder, SameSample, OneEach, HealthOf, HealthRow, GroupOf, RouteIn, BusRows
<1> QED
  BY <1>4 DEF HealthBehind

-----------------------------------------------------------------------------
(* The steps of the marts. *)

LEMMA MartsInitInvariant == MartsInit => MartsInv
<1> SUFFICES ASSUME MartsInit PROVE MartsInv
  OBVIOUS
<1> USE MartsAssumption DEF MartsAssumption, MartsInit
<1>1. Stored = {}
  BY DEF Stored
<1>2. samples \in Table /\ samples.rows = {} /\ samples.feed \in Feed
  BY DEF Table
<1>3. HealthOf(samples) = {}
  BY <1>2 DEF HealthOf, HealthRow, GroupOf, RouteIn, BusRows
<1>4. MartsTypeOK
  BY <1>2 DEF MartsTypeOK, Optional
<1>5. Behind(samples)
  BY <1>2, <1>3 DEF Behind, OneEach, Covers
<1> QED
  BY <1>1, <1>2, <1>3, <1>4, <1>5
  DEF MartsInv, StoredKeyed, StoredPast, RowsStored, HealthStored, CreatedCovers,
      HealthBehind, HealthCurrent

\* Time passes, and records are stored under their ids for ever.
SourcesGrow ==
    /\ now' \in 0 .. MaxNow /\ now' >= now
    /\ updates' \in [Event -> Optional(Record)]
    /\ Stored \subseteq Stored'
    /\ StoredKeyed' /\ StoredPast'

LEMMA SourcesStep ==
    ASSUME MartsInv, Tick \/ StoreUpdates \/ UNCHANGED <<now, updates>>
    PROVE  SourcesGrow
<1> USE DEF MartsInv, MartsTypeOK
<1>1. CASE Tick
  <2>1. now' \in 0 .. MaxNow /\ now' >= now /\ UNCHANGED updates
    BY <1>1, MartsAssumption DEF Tick, MartsAssumption
  <2>2. \A r \in Stored : TimeOf[r] <= now'
    BY <2>1, RecordsTyped DEF StoredPast, Stored
  <2> QED
    BY <2>1, <2>2 DEF SourcesGrow, Stored, StoredKeyed, StoredPast
<1>2. CASE StoreUpdates
  <2>1. PICK S \in SUBSET Event : Updates!Store(S)
    BY <1>2 DEF StoreUpdates
  <2>2. PICK f \in [S -> Published \cap Record] :
          /\ \A e \in S : IdOf[f[e]] = e
          /\ updates' = [e \in Event |-> IF e \in S THEN f[e] ELSE updates[e]]
    BY <2>1 DEF Updates!Store
  <2>3. \A e \in S : updates[e] = None
    BY <2>1 DEF Updates!Store
  <2>4. Published \subseteq Record
    BY DEF Published
  <2>5. updates' \in [Event -> Optional(Record)] /\ StoredKeyed'
    BY <2>2, <2>4 DEF Optional, StoredKeyed
  <2>6. Stored \subseteq Stored'
    BY <2>2, <2>3, MartsAssumption DEF Stored, MartsAssumption
  <2>7. StoredPast'
    <3> SUFFICES ASSUME NEW r \in Record, NEW e \in Event, updates'[e] = r
                 PROVE  TimeOf[r] <= now
      BY <1>2 DEF StoredPast, Stored, StoreUpdates
    <3>1. CASE e \in S
      BY <2>2, <3>1 DEF Published
    <3>2. CASE e \notin S
      BY <2>2, <3>2 DEF StoredPast, Stored
    <3> QED
      BY <3>1, <3>2
  <2> QED
    BY <1>2, <2>5, <2>6, <2>7 DEF SourcesGrow, StoreUpdates
<1>3. CASE UNCHANGED <<now, updates>>
  BY <1>3 DEF SourcesGrow, Stored, StoredKeyed, StoredPast
<1> QED
  BY <1>1, <1>2, <1>3

LEMMA RowsRecorded == MartsInv => samples.rows \subseteq Record
BY DEF MartsInv, RowsStored, Stored

\* Steps that leave the marts alone.
LEMMA SourcesInvariant ==
    ASSUME MartsInv, SourcesGrow, UNCHANGED marts, gtfs' \in Feed
    PROVE  MartsInv'
<1>1. MartsTypeOK'
  BY DEF MartsInv, MartsTypeOK, SourcesGrow, marts, SameSample, BucketOf
<1>2. HealthCurrent'
  BY DEF MartsInv, HealthCurrent, HealthOf, HealthRow, GroupOf, RouteIn, BusRows, marts
<1>3. RowsStored' /\ HealthStored' /\ CreatedCovers'
  BY DEF MartsInv, RowsStored, HealthStored, CreatedCovers, SourcesGrow, marts
<1>4. HealthBehind'
  BY RowsRecorded, CoversItself, StaysBehind DEF MartsInv, marts
<1> QED
  BY <1>1, <1>2, <1>3, <1>4 DEF MartsInv, SourcesGrow

LEMMA StartSamplesStep ==
    ASSUME MartsInv, StartSamples
    PROVE  MartsInv'
<1>1. SourcesGrow /\ gtfs' = gtfs /\ UNCHANGED <<samples, health>> /\ Stored' = Stored
  BY SourcesStep DEF StartSamples, sources, Stored
<1>2. created' = [feed |-> gtfs, rows |-> Sampled] /\ build' = "samples"
  BY DEF StartSamples
<1>3. created' \in Table /\ created'.rows = Sampled
  BY <1>2, SampledTyped DEF Table, MartsInv, MartsTypeOK
<1>4. Covers(Sampled, samples.rows)
  <2>1. samples.rows \subseteq Stored \cap Observed
    BY DEF MartsInv, RowsStored, MartsTypeOK, Table
  <2>2. Covers(Sampled, Stored \cap Observed)
    BY SampledCovers DEF MartsInv
  <2> QED
    BY <2>1, <2>2 DEF Covers
<1>5. CreatedCovers'
  BY <1>1, <1>3, <1>4, SampledTyped, SampledOneEach DEF CreatedCovers
<1>6. MartsTypeOK'
  BY <1>1, <1>2, <1>3 DEF MartsInv, MartsTypeOK, SourcesGrow, Optional
<1>7. HealthBehind'
  BY <1>1, RowsRecorded, CoversItself, StaysBehind DEF MartsInv
<1> QED
  BY <1>1, <1>2, <1>5, <1>6, <1>7
  DEF MartsInv, SourcesGrow, RowsStored, HealthStored, HealthCurrent

LEMMA SwapSamplesStep ==
    ASSUME MartsInv, SwapSamples
    PROVE  MartsInv' /\ Covers(samples'.rows, samples.rows)
<1>1. SourcesGrow /\ gtfs' = gtfs /\ UNCHANGED health /\ Stored' = Stored
  BY SourcesStep DEF SwapSamples, sources, Stored
<1>2. /\ build = "samples" /\ build' = "health"
      /\ samples' = created /\ created' = None
  BY DEF SwapSamples
<1>3. /\ created \in Table /\ created.rows \subseteq Stored
      /\ OneEach(created.rows) /\ Covers(created.rows, samples.rows)
  BY <1>2 DEF MartsInv, CreatedCovers
<1>4. MartsTypeOK'
  BY <1>1, <1>2, <1>3 DEF MartsInv, MartsTypeOK, SourcesGrow, OneEach, Optional
<1>5. samples'.rows \subseteq Record /\ Covers(samples'.rows, samples.rows)
  BY <1>2, <1>3 DEF Stored
<1>6. HealthBehind'
  BY <1>1, <1>5, RowsRecorded, StaysBehind DEF MartsInv
<1> QED
  BY <1>1, <1>2, <1>3, <1>4, <1>5, <1>6
  DEF MartsInv, SourcesGrow, RowsStored, HealthStored, CreatedCovers, HealthCurrent

LEMMA BuildHealthStep ==
    ASSUME MartsInv, BuildHealth
    PROVE  MartsInv'
<1>1. /\ SourcesGrow /\ gtfs' = gtfs /\ UNCHANGED <<created, samples>> /\ Stored' = Stored
      /\ build' = "done" /\ health' = HealthOf(samples)
  BY SourcesStep DEF BuildHealth, sources, Stored, HealthSource
<1>2. health' = HealthOf(samples)'
  BY <1>1 DEF HealthOf, HealthRow, GroupOf, RouteIn, BusRows
<1>3. \A h \in HealthOf(samples) : \E r \in Stored : BucketOf(r) = h.bucket
  <2>1. ASSUME NEW r \in BusRows(samples)
        PROVE  r \in Stored /\ HealthRow(samples, r).bucket = BucketOf(r)
    BY DEF BusRows, MartsInv, RowsStored, HealthRow
  <2> QED
    BY <2>1 DEF HealthOf
<1>4. HealthStored'
  BY <1>1, <1>3 DEF HealthStored
<1>5. Behind(samples)'
  BY <1>1, <1>2, RowsRecorded, CoversItself
  DEF Behind, MartsInv, MartsTypeOK, OneEach, Covers, NotOlder, SameSample
<1> QED
  BY <1>1, <1>2, <1>4, <1>5
  DEF MartsInv, MartsTypeOK, SourcesGrow, RowsStored, CreatedCovers, HealthBehind, HealthCurrent

LEMMA StopBuildStep ==
    ASSUME MartsInv, StopBuild
    PROVE  MartsInv'
<1>1. /\ SourcesGrow /\ gtfs' = gtfs /\ UNCHANGED <<samples, health>> /\ Stored' = Stored
      /\ build' = "idle" /\ created' = None
  BY SourcesStep DEF StopBuild, sources, Stored
<1>2. HealthBehind'
  BY <1>1, RowsRecorded, CoversItself, StaysBehind DEF MartsInv
<1> QED
  BY <1>1, <1>2
  DEF MartsInv, MartsTypeOK, Optional, SourcesGrow, RowsStored, HealthStored, CreatedCovers,
      HealthCurrent

\* Every step of the marts keeps the invariant and covers the samples.
LEMMA MartsSteps ==
    ASSUME MartsInv, MartsNext \/ UNCHANGED <<sources, marts>>
    PROVE  MartsInv' /\ SourcesGrow /\ Covers(samples'.rows, samples.rows)
<1>1. samples.rows \subseteq Record
  BY DEF MartsInv, RowsStored, Stored
<1>2. UNCHANGED samples => Covers(samples'.rows, samples.rows)
  BY <1>1, RecordsTyped DEF Covers, NotOlder, SameSample
<1>3. CASE Tick \/ StoreUpdates
  BY <1>2, <1>3, SourcesStep, SourcesInvariant
  DEF Tick, StoreUpdates, marts, MartsInv, MartsTypeOK
<1>4. CASE \E f \in Feed : LoadGtfs(f)
  BY <1>2, <1>4, SourcesStep, SourcesInvariant DEF LoadGtfs, Gtfs!Load, marts
<1>5. CASE StartSamples
  BY <1>2, <1>5, SourcesStep, StartSamplesStep DEF StartSamples, sources
<1>6. CASE SwapSamples
  BY <1>6, SourcesStep, SwapSamplesStep DEF SwapSamples, sources
<1>7. CASE BuildHealth
  BY <1>2, <1>7, SourcesStep, BuildHealthStep DEF BuildHealth, sources
<1>8. CASE StopBuild
  BY <1>2, <1>8, SourcesStep, StopBuildStep DEF StopBuild, sources
<1>9. CASE UNCHANGED <<sources, marts>>
  BY <1>2, <1>9, SourcesStep, SourcesInvariant DEF sources, marts, MartsInv, MartsTypeOK
<1> QED
  BY <1>3, <1>4, <1>5, <1>6, <1>7, <1>8, <1>9 DEF MartsNext

-----------------------------------------------------------------------------
(* The steps of the page. *)

LEMMA NoPageTyped ==
    /\ NoPage \in Page /\ Cardinality(NoPage.details.rows) <= SampleLimit
    /\ NoPage.at = "start" /\ NoPage.latest = None
    /\ NoPage.current = {} /\ NoPage.previous = {}
<1>1. Cardinality({}) = 0
  BY FS_EmptySet
<1>2. 0 \in 0 .. MaxNow /\ SampleLimit \in Nat
  BY MartsAssumption, PageAssumption DEF MartsAssumption, PageAssumption
<1>3. NoRows \in [feed : Optional(Feed), rows : SUBSET Record]
  BY DEF NoRows, Optional
<1>4. None \in Optional(Times)
  BY DEF Optional
<1>5. NoPage \in Page
  BY <1>2, <1>3, <1>4 DEF NoPage, Page
<1>6. NoPage.details.rows = {}
  BY DEF NoPage, NoRows
<1> QED
  BY <1>1, <1>2, <1>5, <1>6 DEF NoPage

LEMMA InitInvariant == Init => IInv
<1> SUFFICES ASSUME Init PROVE IInv
  OBVIOUS
<1>1. PageInv
  BY NoPageTyped
  DEF Init, PageInv, PageTyped, LatestStored, CurrentCovered, Cleared, NoDoubleCount,
      UnwarnedMeansRecent
<1> QED
  BY <1>1, MartsInitInvariant DEF Init, IInv

\* Whatever happens to the marts, the page stays right.
LEMMA MartsStepInvariant ==
    ASSUME IInv, MartsStep \/ UNCHANGED vars
    PROVE  IInv'
<1>1. MartsInv' /\ SourcesGrow /\ Covers(samples'.rows, samples.rows) /\ page' = page
  BY MartsSteps DEF IInv, MartsStep, vars
<1>2. CurrentCovered'
  <2> SUFFICES ASSUME page.at = "current" PROVE Covers(samples'.rows, page.current)
    BY <1>1 DEF IInv, PageInv, CurrentCovered, Start
  <2>1. page.current \subseteq Record
    BY DEF IInv, PageInv, PageTyped, Page
  <2>2. samples.rows \subseteq Record /\ samples'.rows \subseteq Record
    BY <1>1 DEF IInv, MartsInv, RowsStored, Stored
  <2> QED
    BY <1>1, <2>1, <2>2, CoversTransitive DEF IInv, PageInv, CurrentCovered
<1>3. LatestStored'
  BY <1>1 DEF SourcesGrow, IInv, PageInv, LatestStored
<1>4. UnwarnedMeansRecent'
  BY <1>1 DEF SourcesGrow, IInv, PageInv, UnwarnedMeansRecent, Stale
<1> QED
  BY <1>1, <1>2, <1>3, <1>4 DEF IInv, PageInv, PageTyped, Cleared, NoDoubleCount

\* A step that only reads leaves the marts as they are.
LEMMA ReadingKeepsMarts ==
    ASSUME IInv, UNCHANGED <<sources, marts>>
    PROVE  MartsInv' /\ Stored' = Stored /\ samples' = samples /\ now' = now
<1>1. MartsInv'
  BY MartsSteps DEF IInv
<1> QED
  BY <1>1 DEF sources, marts, Stored

LEMMA LatestStep ==
    ASSUME IInv, ReadLatest
    PROVE  IInv'
<1>1. MartsInv' /\ Stored' = Stored /\ samples' = samples
  BY ReadingKeepsMarts DEF ReadLatest
<1> DEFINE B == {h.bucket : h \in health}
           latest == IF health = {} THEN None
                     ELSE CHOOSE b \in B : \A h \in health : h.bucket <= b
<1>2. \A b \in B : \E r \in Stored : BucketOf(r) = b
  BY DEF IInv, MartsInv, HealthStored
<1>3. Times \subseteq Nat /\ IsFiniteSet(Times)
  <2>1. IsFiniteSet(Times)
    <3> DEFINE f == [r \in Record |-> TimeOf[r] \div Bucket]
    <3>1. f \in Surjection(Record, Times)
      BY DEF Surjection, Times
    <3> QED
      BY <3>1, FS_Surjection, MartsAssumption DEF MartsAssumption
  <2> QED
    BY <2>1, RecordsTyped DEF Times, BucketOf
<1>4. B \subseteq Times
  BY <1>2 DEF Times, BucketOf, Stored
<1>5. latest = None \/ latest \in B
  <2> SUFFICES ASSUME health # {} PROVE latest \in B
    OBVIOUS
  <2>1. PICK b \in B : \A c \in B : c <= b
    <3> HIDE DEF B
    <3>1. B # {} /\ IsFiniteSet(B) /\ B \subseteq Nat
      <4>1. B # {}
        BY DEF B
      <4> QED
        BY <1>3, <1>4, <4>1, FS_Subset
    <3> QED
      BY <3>1, LargestExists
  <2> QED
    BY <2>1
<1>6. page' = [NoPage EXCEPT !.at = "latest", !.end = now, !.latest = latest]
  BY DEF ReadLatest
<1> HIDE DEF latest, B
<1>7. latest # None => \E r \in Stored : BucketOf(r) = latest
  BY <1>2, <1>5
<1>8. /\ page' \in Page /\ page'.details = NoPage.details
      /\ page'.at = "latest" /\ page'.latest = latest
      /\ page'.current = {} /\ page'.previous = {}
  <2>1. latest \in Optional(Times)
    BY <1>4, <1>5 DEF Optional
  <2>2. now \in 0 .. MaxNow
    BY DEF IInv, MartsInv, MartsTypeOK
  <2> QED
    BY <1>6, <2>1, <2>2, NoPageTyped DEF Page, NoPage
<1> QED
  BY <1>1, <1>7, <1>8, NoPageTyped
  DEF IInv, PageInv, PageTyped, LatestStored, CurrentCovered, Cleared, NoDoubleCount,
      UnwarnedMeansRecent

LEMMA TrendStep ==
    ASSUME IInv, ReadTrend
    PROVE  IInv'
<1>1. MartsInv' /\ Stored' = Stored /\ samples' = samples
  BY ReadingKeepsMarts DEF ReadTrend
<1>2. ShownBuckets \subseteq Times
  <2>1. \A h \in health : h.bucket \in Times
    BY DEF IInv, MartsInv, HealthStored, Stored, Times, BucketOf
  <2> QED
    BY <2>1 DEF ShownBuckets
<1>3. /\ page' \in Page /\ page'.details = page.details
      /\ page'.at = "trend" /\ page'.latest = page.latest
      /\ page'.current = {} /\ page'.previous = {}
  BY <1>2 DEF ReadTrend, IInv, PageInv, PageTyped, Page, Cleared
<1> QED
  BY <1>1, <1>3
  DEF IInv, PageInv, PageTyped, LatestStored, CurrentCovered, Cleared, NoDoubleCount,
      UnwarnedMeansRecent

LEMMA CurrentStep ==
    ASSUME IInv, ReadCurrent
    PROVE  IInv'
<1>1. MartsInv' /\ Stored' = Stored /\ samples' = samples
  BY ReadingKeepsMarts DEF ReadCurrent
<1>2. /\ CurrentWindow \subseteq samples.rows
      /\ \A r \in CurrentWindow : TimeOf[r] >= Start
  <2> SUFFICES ASSUME NEW r \in CurrentWindow
               PROVE  r \in samples.rows /\ Within(TimeOf[r], Start, page.end)
    <3>1. \A r \in Record : TimeOf[r] \in Nat
      BY RecordsTyped
    <3>2. samples.rows \subseteq Record
      BY DEF IInv, MartsInv, RowsStored, Stored
    <3>3. Start \in Int
      BY PageAssumption, MartsAssumption
      DEF Start, IInv, PageInv, PageTyped, Page, PageAssumption, MartsAssumption
    <3> QED
      BY <3>1, <3>2, <3>3 DEF Within
  <2> QED
    BY DEF CurrentWindow, PeriodSummary
<1>3. samples.rows \subseteq Record
  BY DEF IInv, MartsInv, RowsStored, Stored
<1>4. Covers(samples.rows, CurrentWindow)
  BY <1>2, <1>3, RecordsTyped DEF Covers, NotOlder, SameSample
<1>5. /\ page' \in Page /\ page'.details = page.details /\ page'.end = page.end
      /\ page'.at = "current" /\ page'.latest = page.latest
      /\ page'.current = CurrentWindow /\ page'.previous = {}
  BY <1>2, <1>3 DEF ReadCurrent, IInv, PageInv, PageTyped, Page, Cleared
<1> QED
  BY <1>1, <1>2, <1>4, <1>5
  DEF IInv, PageInv, PageTyped, LatestStored, CurrentCovered, Cleared, NoDoubleCount,
      UnwarnedMeansRecent, Start

\* The sample of the current window has a successor in the table, and only
\* that one is a sample of its trip and bucket: it is not in the window before.
LEMMA PreviousStep ==
    ASSUME IInv, ReadPrevious
    PROVE  IInv'
<1>1. MartsInv' /\ Stored' = Stored /\ samples' = samples
  BY ReadingKeepsMarts DEF ReadPrevious
<1>2. samples.rows \subseteq Record /\ page.current \subseteq Record
  BY DEF IInv, MartsInv, RowsStored, Stored, PageInv, PageTyped, Page
<1>3. \A s \in PreviousWindow : s \in samples.rows /\ TimeOf[s] < Start
  BY DEF PreviousWindow, PeriodSummary, Within
<1>4. ASSUME NEW r \in page.current, NEW s \in PreviousWindow, SameSample(r, s)
      PROVE  FALSE
  <2>1. TimeOf[r] >= Start
    BY DEF IInv, PageInv, CurrentCovered, ReadPrevious
  <2>2. PICK t \in samples.rows : NotOlder(r, t)
    BY DEF IInv, PageInv, CurrentCovered, ReadPrevious, Covers
  <2>3. SameSample(s, t)
    BY <1>4, <2>2 DEF NotOlder, SameSample
  <2>4. s = t
    BY <1>3, <2>3 DEF IInv, MartsInv, MartsTypeOK
  <2>5. Start \in Int
    BY PageAssumption, MartsAssumption
    DEF Start, IInv, PageInv, PageTyped, Page, PageAssumption, MartsAssumption
  <2> QED
    BY <1>2, <1>3, <2>1, <2>2, <2>4, <2>5, RecordsTyped DEF NotOlder
<1>5. /\ page' \in Page /\ page'.details = page.details
      /\ page'.at = "previous" /\ page'.latest = page.latest
      /\ page'.current = page.current /\ page'.previous = PreviousWindow
  BY <1>2, <1>3 DEF ReadPrevious, IInv, PageInv, PageTyped, Page
<1>6. NoDoubleCount'
  BY <1>4, <1>5 DEF NoDoubleCount, SameSample, BucketOf
<1> QED
  BY <1>1, <1>5, <1>6
  DEF IInv, PageInv, PageTyped, LatestStored, CurrentCovered, Cleared, UnwarnedMeansRecent

\* A bucket that is not stale holds a stored update that is not older than it.
LEMMA ComparisonStep ==
    ASSUME IInv, ReadComparison
    PROVE  IInv'
<1>1. MartsInv' /\ Stored' = Stored /\ samples' = samples
  BY ReadingKeepsMarts DEF ReadComparison
<1>2. /\ page' \in Page /\ page'.details = page.details
      /\ page'.at = "metrics" /\ page'.latest = page.latest /\ page'.rendered = now
      /\ page'.current = {} /\ page'.previous = {}
  BY DEF ReadComparison, IInv, MartsInv, MartsTypeOK, PageInv, PageTyped, Page, Cleared
<1>3. UnwarnedMeansRecent'
  <2> SUFFICES ASSUME page.latest # None, ~(now - page.latest * Bucket > StaleAfter)
               PROVE  \E r \in Stored : Within(TimeOf[r], now - StaleAfter, now + 1)
    BY <1>1, <1>2 DEF UnwarnedMeansRecent, Stale
  <2>1. PICK r \in Stored : BucketOf(r) = page.latest
    BY DEF IInv, PageInv, LatestStored
  <2>2. r \in Record /\ TimeOf[r] <= now /\ now \in Nat
    BY DEF Stored, IInv, MartsInv, StoredPast, MartsTypeOK
  <2>3. /\ page.latest * Bucket <= TimeOf[r] /\ TimeOf[r] \in Nat
        /\ page.latest * Bucket \in Nat
    BY <2>1, <2>2, RecordsTyped, MartsAssumption DEF MartsAssumption
  <2>4. TimeOf[r] >= now - StaleAfter
    BY <2>2, <2>3, PageAssumption DEF PageAssumption
  <2> QED
    BY <2>2, <2>3, <2>4 DEF Within
<1> QED
  BY <1>1, <1>2, <1>3
  DEF IInv, PageInv, PageTyped, LatestStored, CurrentCovered, Cleared, NoDoubleCount

LEMMA DetailsStep ==
    ASSUME IInv, ReadDetails
    PROVE  IInv'
<1>1. PICK sort \in {"latest", "largest_delay"}, bucket \in Optional(page.trend) :
        ReadSamples(sort, bucket)
  BY DEF ReadDetails
<1>2. MartsInv' /\ Stored' = Stored /\ samples' = samples
  BY <1>1, ReadingKeepsMarts DEF ReadSamples
<1>3. PICK S \in SUBSET samples.rows : \E T \in FirstRows(S, sort, samples.feed) :
        page' = [NoPage EXCEPT !.at = "shown", !.sort = sort, !.cut = S \ T,
                               !.details = [feed |-> samples.feed, rows |-> T]]
  BY <1>1 DEF ReadSamples
<1>4. PICK T \in FirstRows(S, sort, samples.feed) :
        page' = [NoPage EXCEPT !.at = "shown", !.sort = sort, !.cut = S \ T,
                               !.details = [feed |-> samples.feed, rows |-> T]]
  BY <1>3
<1>5. samples.rows \subseteq Record /\ samples.feed \in Feed
  BY DEF IInv, MartsInv, RowsStored, Stored, MartsTypeOK, Table
<1>6. T \subseteq S /\ Cardinality(T) <= SampleLimit
  <2>1. Cardinality(S) \in Nat
    BY <1>5, FS_Subset, FS_CardinalityType, MartsAssumption DEF MartsAssumption
  <2> QED
    BY <2>1, PageAssumption DEF FirstRows, PageAssumption
<1>7. /\ page' \in Page /\ page'.at = "shown" /\ page'.latest = None
      /\ page'.details.rows = T
      /\ page'.current = {} /\ page'.previous = {}
  BY <1>4, <1>5, <1>6, NoPageTyped DEF Page, NoPage, Optional
<1> QED
  BY <1>2, <1>6, <1>7
  DEF IInv, PageInv, PageTyped, LatestStored, CurrentCovered, Cleared, NoDoubleCount,
      UnwarnedMeansRecent

\* Every step keeps the invariant.
LEMMA NextInvariant == IInv /\ [Next]_vars => IInv'
<1> SUFFICES ASSUME IInv, [Next]_vars PROVE IInv'
  OBVIOUS
<1>1. CASE ReadFails
  <2>1. MartsInv' /\ page' = NoPage
    BY <1>1, ReadingKeepsMarts DEF ReadFails
  <2> QED
    BY <2>1, NoPageTyped
    DEF IInv, PageInv, PageTyped, LatestStored, CurrentCovered, Cleared, NoDoubleCount,
        UnwarnedMeansRecent
<1> QED
  BY <1>1, MartsStepInvariant, LatestStep, TrendStep, CurrentStep, PreviousStep,
     ComparisonStep, DetailsStep DEF Next

-----------------------------------------------------------------------------
\* Every reachable state meets the invariant.
LEMMA PageInvariant == Spec => []IInv
BY InitInvariant, NextInvariant, PTL DEF Spec

\* The marts and what the page reads are well typed, with one sample for a
\* trip and a bucket and no more details than the limit.
THEOREM PageTypes == Spec => []TypeOK
<1>1. IInv => TypeOK
  BY DEF IInv, MartsInv, PageInv, PageTyped, TypeOK
<1> QED
  BY <1>1, PageInvariant, PTL

\* The route health of a completed build is that of the visible samples, and
\* that of an unfinished one is never ahead of them (route_health_5m.sql).
THEOREM PageHealthFollowsSamples == Spec => []HealthFollowsSamples
<1>1. ASSUME MartsInv PROVE HealthFollowsSamples
  <2>1. PICK t : Behind(t)
    BY <1>1 DEF MartsInv, HealthBehind
  <2>2. samples.rows \subseteq Record
    BY <1>1 DEF MartsInv, RowsStored, Stored
  <2> QED
    BY <1>1, <2>1, <2>2, BehindIsNotAhead DEF MartsInv, HealthCurrent, HealthFollowsSamples
<1>2. IInv => HealthFollowsSamples
  BY <1>1 DEF IInv
<1> QED
  BY <1>2, PageInvariant, PTL

\* No trip's sample is counted in both windows, wherever builds end between
\* the queries (2_route_reliability.py).
THEOREM PageNoDoubleCount == Spec => []NoDoubleCount
<1>1. IInv => NoDoubleCount
  BY DEF IInv, PageInv
<1> QED
  BY <1>1, PageInvariant, PTL

\* Without the warning the latest bucket holds a recent update
\* (2_route_reliability.py, lines 121-126).
THEOREM PageUnwarnedMeansRecent == Spec => []UnwarnedMeansRecent
<1>1. IInv => UnwarnedMeansRecent
  BY DEF IInv, PageInv
<1> QED
  BY <1>1, PageInvariant, PTL

\* No build replaces a sample by an older one or drops it, whatever is stored
\* while it runs (fct_trip_monitoring_samples.sql).
THEOREM PageSamplesNeverBackwards == Spec => SamplesNeverBackwards
<1> DEFINE Forwards ==
        \A r \in samples.rows :
            \E s \in samples'.rows : SameSample(r, s) /\ TimeOf[s] >= TimeOf[r]
<1>1. IInv /\ [Next]_vars => [Forwards]_samples
  <2> SUFFICES ASSUME IInv, [Next]_vars, samples' # samples PROVE Forwards
    OBVIOUS
  <2>1. MartsNext
    BY DEF Next, MartsStep, ReadLatest, ReadTrend, ReadCurrent, ReadPrevious,
       ReadComparison, ReadDetails, ReadSamples, ReadFails, vars, marts
  <2>2. Covers(samples'.rows, samples.rows)
    BY <2>1, MartsSteps DEF IInv
  <2> QED
    BY <2>2 DEF Covers, NotOlder
<1> QED
  BY <1>1, PageInvariant, PTL DEF Spec, SamplesNeverBackwards
=============================================================================
