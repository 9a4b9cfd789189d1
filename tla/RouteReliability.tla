-------------------------- MODULE RouteReliability --------------------------
(***************************************************************************)
(* The Route Reliability page over the trip monitoring marts: six queries  *)
(* in a row, each of which sees the marts as they are at its own time.     *)
(* The page is shown for all routes and directions.                        *)
(***************************************************************************)
EXTENDS Marts

CONSTANTS
    Window,         \* length of the selected time window
    StaleAfter,     \* 15 minutes
    SampleLimit     \* limit of get_trip_samples

ASSUME PageAssumption ==
    /\ Window \in Nat \ {0}
    /\ StaleAfter \in Nat
    /\ SampleLimit \in Nat \ {0}

VARIABLE page       \* what one run of the page has read so far

vars == <<sources, marts, page>>

NoRows == [feed |-> None, rows |-> {}]

\* end: end_time.  rendered: when the metrics were.  Of the details, cut are
\* the rows that matched and LIMIT left out.  What a step of the page has
\* rendered and no later step uses is not kept.
NoPage == [at |-> "start", end |-> 0, latest |-> None, trend |-> {},
           current |-> {}, previous |-> {}, rendered |-> 0,
           sort |-> None, details |-> NoRows, cut |-> {}]

Times == {TimeOf[r] \div Bucket : r \in Record}
Page == [at : {"start", "latest", "trend", "current", "previous", "metrics", "shown"},
         end : 0 .. MaxNow, latest : Optional(Times), trend : SUBSET Times,
         current : SUBSET Record, previous : SUBSET Record,
         rendered : 0 .. MaxNow, sort : {None, "latest", "largest_delay"},
         details : [feed : Optional(Feed), rows : SUBSET Record], cut : SUBSET Record]

-----------------------------------------------------------------------------
(* The queries *)

Start == page.end - Window
Within(t, since, until) == since <= t /\ t < until
ShownBuckets == {h.bucket : h \in {x \in health : Within(x.bucket * Bucket, Start, page.end)}}

\* get_period_summary: by event_timestamp, from the samples.
OlderWindow(since, until) ==    \* faulty: the bounds overlap
    {r \in samples.rows : OnBus[samples.feed][r] /\ since <= TimeOf[r] /\ TimeOf[r] <= until}
PeriodSummary(since, until) ==
    {r \in samples.rows : OnBus[samples.feed][r] /\ Within(TimeOf[r], since, until)}

NoTrend == page.trend = {}      \* faulty: only warns when there is nothing
Stale == page.rendered - page.latest * Bucket > StaleAfter

\* ORDER BY predicted_delay_seconds DESC: NULL comes first in PostgreSQL.
LargerDelay(r, s, f) ==
    \/ Delay[f][r] = None /\ Delay[f][s] # None
    \/ Delay[f][r] # None /\ Delay[f][s] # None /\ Delay[f][r] > Delay[f][s]

\* The rows of get_trip_samples that come before the others; ties that the
\* further sort keys decide are left open.
Comes(sort, r, s, f) ==
    IF sort = "latest"
    THEN \/ BucketOf(r) > BucketOf(s)
         \/ BucketOf(r) = BucketOf(s) /\ TimeOf[r] > TimeOf[s]
    ELSE LargerDelay(r, s, f)

FirstRows(S, sort, f) ==
    {T \in SUBSET S :
        /\ Cardinality(T) = IF Cardinality(S) < SampleLimit THEN Cardinality(S) ELSE SampleLimit
        /\ \A r \in T, s \in S \ T : ~Comes(sort, s, r, f)}

-----------------------------------------------------------------------------
Init ==
    /\ MartsInit
    /\ page = NoPage

MartsStep == MartsNext /\ UNCHANGED page

\* show_route_reliability begins or is run again: end_time, get_latest_bucket.
ReadLatest ==
    /\ page.at \in {"start", "metrics", "shown"}
    /\ page.at = "metrics" => page.trend = {}
    /\ page' = [NoPage EXCEPT
                  !.at = "latest", !.end = now,
                  !.latest = IF health = {} THEN None
                             ELSE CHOOSE b \in {h.bucket : h \in health} :
                                    \A h \in health : h.bucket <= b]
    /\ UNCHANGED <<sources, marts>>

ReadTrend ==
    /\ page.at = "latest"
    /\ page' = [page EXCEPT !.at = "trend", !.trend = ShownBuckets]
    /\ UNCHANGED <<sources, marts>>

\* The current window is read first, then the one before it.
PreviousWindow == PeriodSummary(Start - Window, Start)
CurrentWindow == PeriodSummary(Start, page.end)

ReadCurrent ==
    /\ page.at = "trend"
    /\ page' = [page EXCEPT !.at = "current", !.current = CurrentWindow]
    /\ UNCHANGED <<sources, marts>>

ReadPrevious ==
    /\ page.at = "current"
    /\ page' = [page EXCEPT !.at = "previous", !.previous = PreviousWindow]
    /\ UNCHANGED <<sources, marts>>

\* get_route_comparison, unless the trend is empty; the metrics are rendered.
ReadComparison ==
    /\ page.at = "previous"
    /\ page' = [page EXCEPT !.at = "metrics", !.rendered = now,
                            !.current = {}, !.previous = {}]
    /\ UNCHANGED <<sources, marts>>

\* get_trip_samples for all buckets of the window, or for a selected one.
ReadSamples(sort, bucket) ==
    /\ page.at = "metrics"
    /\ page.trend # {}
    /\ LET S == {r \in samples.rows :
                    /\ OnBus[samples.feed][r]
                    /\ BucketOf(r) * Bucket >= Start
                    /\ bucket # None => BucketOf(r) = bucket}
       IN \E T \in FirstRows(S, sort, samples.feed) :
             page' = [NoPage EXCEPT !.at = "shown", !.sort = sort, !.cut = S \ T,
                                    !.details = [feed |-> samples.feed, rows |-> T]]
    /\ UNCHANGED <<sources, marts>>

\* PostgreSQL does not answer and the page shows an error, or the user's
\* input interrupts this run of the page.
ReadFails ==
    /\ page # NoPage
    /\ page' = NoPage
    /\ UNCHANGED <<sources, marts>>

ReadDetails ==
    \E sort \in {"latest", "largest_delay"}, bucket \in Optional(page.trend) :
        ReadSamples(sort, bucket)

ShowPage ==
    ReadLatest \/ ReadTrend \/ ReadCurrent \/ ReadPrevious \/ ReadComparison \/ ReadDetails

Next ==
    \/ MartsStep
    \/ ReadLatest \/ ReadTrend \/ ReadCurrent \/ ReadPrevious \/ ReadComparison
    \/ ReadDetails
    \/ ReadFails

Spec == Init /\ [][Next]_vars

\* Time passes, and the fragment runs every 30 seconds.  Nothing runs dbt.
FairSpec == Spec /\ WF_vars(Tick /\ UNCHANGED page) /\ WF_vars(ShowPage)

-----------------------------------------------------------------------------
\* Every variable has its type; LIMIT bounds the details.
TypeOK ==
    /\ MartsTypeOK
    /\ page \in Page
    /\ Cardinality(page.details.rows) <= SampleLimit

\* The two windows that the deltas compare never count a trip's sample
\* twice, although a build may end between their queries and move a sample
\* from one window to the other (2_route_reliability.py, lines 90-105).
NoDoubleCount ==
    \A r \in page.current, s \in page.previous : ~SameSample(r, s)

\* A page without the warning that the data are stale rests on a trip update
\* that was at most StaleAfter old when the page was rendered: neither a
\* rebuild nor late updates make old data look fresh (lines 121-126).
UnwarnedMeansRecent ==
    page.at = "metrics" /\ page.latest # None /\ ~Stale
    => \E r \in Stored : Within(TimeOf[r], page.rendered - StaleAfter, page.rendered + 1)

\* When updates or builds stop, the page in the end says that its data are
\* stale, or that there are none.
StoppedDataShown == <>[](page.at = "metrics" => page.latest = None \/ Stale)

\* dashboard/components/filters.py, line 41: with the order "Largest
\* predicted delay" no row with a delay is left out for one without.
LargestDelayShown ==
    page.sort = "largest_delay"
    => \A r \in page.cut, s \in page.details.rows :
          Delay[page.details.feed][r] # None => Delay[page.details.feed][s] # None
=============================================================================
