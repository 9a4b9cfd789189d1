--------------------------- MODULE TripDelayProofs ---------------------------
(***************************************************************************)
(* The delay of a trip sample is the one from the nearest scheduled        *)
(* instant, for every length of a day, every time of day and every change  *)
(* of the clock that is not near the prediction.                           *)
(***************************************************************************)
EXTENDS RouteReliabilityProofs

(* Division *)

LEMMA Quotient ==
    ASSUME NEW a \in Int, NEW b \in Nat \ {0}
    PROVE  a \div b \in Int
  BY SMT

LEMMA Remainder ==
    ASSUME NEW a \in Int, NEW b \in Nat \ {0}
    PROVE  a % b \in 0 .. b - 1
  BY SMT

LEMMA Division ==
    ASSUME NEW a \in Int, NEW b \in Nat \ {0}
    PROVE  a = b * (a \div b) + (a % b)
  BY Z3

LEMMA RemainderOf ==
    ASSUME NEW b \in Nat \ {0}, NEW k \in Int, NEW a \in Int, NEW r \in 0 .. b - 1,
           a = b * k + r
    PROVE  a % b = r
  BY SMT

LEMMA QuotientOf ==
    ASSUME NEW b \in Nat \ {0}, NEW k \in Int, NEW a \in Int, NEW r \in 0 .. b - 1,
           a = b * k + r
    PROVE  a \div b = k
  BY SMT

\* A multiple of a day is no day or at least one.
LEMMA WholeDays ==
    ASSUME NEW b \in Nat \ {0}, NEW k \in Int
    PROVE  b * k \in Int /\ (k = 0 \/ b * k >= b \/ b * k <= -b)
  BY SMT

LEMMA Products ==
    ASSUME NEW b \in Int, NEW i \in Int, NEW j \in Int
    PROVE  /\ b * i \in Int /\ i * b = b * i
           /\ b * (i + j) = b * i + b * j /\ b * (i - j) = b * i - b * j
  BY SMT

-----------------------------------------------------------------------------
(* The nearest day *)

\* ROUND leaves at most half a day, when there were less than a whole one.
LEMMA NearestDaysRound ==
    ASSUME NEW d \in Int, -Day < d, d < Day
    PROVE  /\ NearestDays(d) \in Int
           /\ d - NearestDays(d) * Day \in Int
           /\ 2 * (d - NearestDays(d) * Day) <= Day
           /\ 2 * (d - NearestDays(d) * Day) >= -Day
<1>1. Day \in Nat \ {0} /\ 2 * Day \in Nat \ {0}
  BY TripDelayAssumption
<1>2. CASE d >= 0 /\ 2 * d < Day
  <2>1. (2 * d + Day) \div (2 * Day) = 0
    <3>1. 2 * d + Day \in 0 .. 2 * Day - 1 /\ 2 * d + Day = (2 * Day) * 0 + (2 * d + Day)
      BY <1>1, <1>2
    <3> QED
      BY <1>1, <3>1, QuotientOf
  <2> QED
    BY <1>1, <1>2, <2>1 DEF NearestDays
<1>3. CASE d >= 0 /\ 2 * d >= Day
  <2>1. (2 * d + Day) \div (2 * Day) = 1
    <3>1. 2 * d - Day \in 0 .. 2 * Day - 1 /\ 2 * d + Day = (2 * Day) * 1 + (2 * d - Day)
      BY <1>1, <1>3
    <3>2. 2 * d + Day \in Int
      BY <1>1
    <3> QED
      BY <1>1, <3>1, <3>2, QuotientOf
  <2> QED
    BY <1>1, <1>3, <2>1 DEF NearestDays
<1>4. CASE d < 0 /\ -2 * d < Day
  <2>1. (Day - 2 * d) \div (2 * Day) = 0
    <3>1. Day - 2 * d \in 0 .. 2 * Day - 1 /\ Day - 2 * d = (2 * Day) * 0 + (Day - 2 * d)
      BY <1>1, <1>4
    <3> QED
      BY <1>1, <3>1, QuotientOf
  <2> QED
    BY <1>1, <1>4, <2>1 DEF NearestDays
<1>5. CASE d < 0 /\ -2 * d >= Day
  <2>1. (Day - 2 * d) \div (2 * Day) = 1
    <3>1. -2 * d - Day \in 0 .. 2 * Day - 1 /\ Day - 2 * d = (2 * Day) * 1 + (-2 * d - Day)
      BY <1>1, <1>5
    <3>2. Day - 2 * d \in Int
      BY <1>1
    <3> QED
      BY <1>1, <3>1, <3>2, QuotientOf
  <2> QED
    BY <1>1, <1>5, <2>1 DEF NearestDays
<1> QED
  BY <1>1, <1>2, <1>3, <1>4, <1>5

\* The offset at an instant.
OffsetAt(t) == IF t < Change THEN OffsetBefore ELSE OffsetAfter

\* Within a day and the change of the offset of an instant that is not near
\* the change, the offset is the same one.
LEMMA FarFromChange ==
    ASSUME NEW p \in Int, ~NearChange(p), NEW t \in Int, Distance(p, t) <= Day
    PROVE  LocalOf(t) = t + OffsetAt(p)
  BY TripDelayAssumption DEF NearChange, Distance, LocalOf, OffsetAt

LEMMA ReadBack ==
    ASSUME NEW p \in Int, ~NearChange(p), NEW t \in Int, Distance(p, t) <= Day
    PROVE  InstantOf(t + OffsetAt(p)) = t
<1>1. /\ Day \in Nat \ {0} /\ Change \in Nat /\ OffsetBefore \in Int /\ OffsetAfter \in Int
  BY TripDelayAssumption
<1>2. CASE p < Change
  <2>1. OffsetAt(p) = OffsetBefore
    BY <1>2 DEF OffsetAt
  <2>2. t < Change /\ t + OffsetBefore - OffsetAfter < Change
    BY <1>1, <1>2 DEF NearChange, Distance
  <2>3. t + OffsetBefore - OffsetBefore = t
    BY <1>1
  <2>4. t + OffsetBefore - OffsetAfter \in Int
    BY <1>1
  <2> QED
    BY <1>1, <2>1, <2>2, <2>3, <2>4 DEF InstantOf
<1>3. CASE ~(p < Change)
  <2>1. OffsetAt(p) = OffsetAfter
    BY <1>3 DEF OffsetAt
  <2>2. t > Change /\ t + OffsetAfter - OffsetBefore > Change
    BY <1>1, <1>3 DEF NearChange, Distance
  <2>3. t + OffsetAfter - OffsetAfter = t
    BY <1>1
  <2>4. t + OffsetAfter - OffsetBefore \in Int
    BY <1>1
  <2> QED
    BY <1>1, <2>1, <2>2, <2>3, <2>4 DEF InstantOf
<1> QED
  BY <1>2, <1>3

\* The delay that the model measures and where its scheduled instant lies.
LEMMA DelayFromNearest ==
    ASSUME NEW p \in Int, NEW s \in Int, ~NearChange(p)
    PROVE  IsNearest(DelayFrom(p, s), p, s)
<1> DEFINE o == OffsetAt(p)
           l == p + o
           q == l \div Day
           m == l % Day
           r == s % Day
           c == q * Day + r
           k == NearestDays(l - c)
           x == (l - c) - k * Day
<1>1. Day \in Nat \ {0} /\ o \in Int /\ l \in Int
  BY TripDelayAssumption DEF OffsetAt
<1>2. LocalOf(p) = l
  BY <1>1, FarFromChange DEF Distance
<1>3. q \in Int /\ r \in 0 .. Day - 1 /\ m \in 0 .. Day - 1 /\ l = Day * q + m
  BY <1>1, Quotient, Remainder, Division
<1>4. Candidate(p, s) = c
  BY <1>2 DEF Candidate
<1>5. Day * q \in Int /\ c = Day * q + r
  <2>1. c = q * Day + r
    OBVIOUS
  <2> HIDE DEF c, q, r, l, m
  <2>2. q * Day = Day * q /\ Day * q \in Int
    BY <1>1, <1>3, Products
  <2> QED
    BY <2>1, <2>2
<1>6. c \in Int /\ l - c \in Int /\ -Day < l - c /\ l - c < Day
  <2> HIDE DEF c, l, q, m, r
  <2>1. l - c = m - r
    BY <1>3, <1>5
  <2> QED
    BY <1>1, <1>3, <1>5, <2>1
<1>7. k \in Int /\ x \in Int /\ 2 * x <= Day /\ 2 * x >= -Day
  BY <1>6, NearestDaysRound
<1>8. k * Day \in Int /\ k * Day = Day * k
  BY <1>1, <1>7, Products
<1>9. c + k * Day = (p - x) + o /\ p - x \in Int /\ Distance(p, p - x) <= Day
  <2>1. x = (l - c) - k * Day /\ l = p + o
    OBVIOUS
  <2> HIDE DEF x, k, c, l
  <2> QED
    BY <1>1, <1>6, <1>7, <1>8, <2>1 DEF Distance
<1>10. DelayFrom(p, s) = x /\ p - (p - x) = x
  <2>1. ScheduledInstant(p, s) = InstantOf(c + k * Day)
    BY <1>2, <1>4 DEF ScheduledInstant
  <2>2. InstantOf((p - x) + o) = p - x
    BY <1>9, ReadBack
  <2> HIDE DEF x, k, c, l, o
  <2>3. ScheduledInstant(p, s) = p - x
    BY <1>9, <2>1, <2>2
  <2> QED
    BY <1>7, <2>3 DEF DelayFrom
<1> HIDE DEF x, k, c, m, q, l
<1>11. (p - x) + o = Day * (q + k) + r /\ q + k \in Int
  <2>1. Day * (q + k) = Day * q + Day * k
    BY <1>1, <1>3, <1>7, Products
  <2> HIDE DEF r, o
  <2> QED
    BY <1>1, <1>3, <1>5, <1>7, <1>8, <1>9, <2>1
<1> HIDE DEF o
<1>12. p - x \in Matching(p, s)
  <2>1. LocalOf(p - x) = (p - x) + o
    BY <1>9, FarFromChange DEF o
  <2>2. ((p - x) + o) % Day = r
    <3>1. (p - x) + o \in Int
      BY <1>1, <1>9
    <3> QED
      BY <1>1, <1>3, <1>11, <3>1, RemainderOf
  <2>3. p - x \in (p - Day) .. (p + Day)
    BY <1>1, <1>7
  <2> QED
    BY <2>1, <2>2, <2>3 DEF Matching
<1>13. ASSUME NEW t \in Matching(p, s)
       PROVE  Distance(p, p - x) <= Distance(p, t)
  <2>1. t \in Int /\ Distance(p, t) <= Day /\ LocalOf(t) % Day = s % Day
    BY <1>1, <1>13 DEF Matching, Distance
  <2>2. LocalOf(t) = t + o /\ t + o \in Int
    BY <1>1, <2>1, FarFromChange DEF o
  <2> DEFINE j == (t + o) \div Day
             n == j - (q + k)
  <2>3. j \in Int /\ t + o = Day * j + r
    BY <1>1, <2>1, <2>2, Quotient, Division
  <2>4. n \in Int /\ t = (p - x) + Day * n
    <3> DEFINE N == Day * n
               J == Day * j
               Q == Day * (q + k)
    <3>1. n \in Int
      BY <1>11, <2>3
    <3>2. N = J - Q /\ J \in Int /\ Q \in Int
      BY <1>1, <1>11, <2>3, Products
    <3>3. t + o = J + r /\ (p - x) + o = Q + r
      BY <1>11, <2>3
    <3> HIDE DEF N, J, Q, r
    <3>4. t = (p - x) + N
      <4> DEFINE y == p - x
      <4>1. y \in Int /\ r \in Int /\ o \in Int /\ t \in Int /\ y + o = Q + r
        BY <1>1, <1>3, <1>9, <2>1, <3>3
      <4> HIDE DEF y
      <4>2. t = y + N
        BY <3>2, <3>3, <4>1
      <4> QED
        BY <4>2 DEF y
    <3> QED
      BY <3>1, <3>4 DEF N
  <2> HIDE DEF n, j
  <2>5. Day * n \in Int /\ (n = 0 \/ Day * n >= Day \/ Day * n <= -Day)
    BY <1>1, <2>4, WholeDays
  <2>6. CASE n = 0
    <3>1. Day * n = 0
      BY <1>1, <2>6
    <3>2. t = p - x
      BY <1>7, <2>4, <3>1
    <3> QED
      BY <1>7, <3>2 DEF Distance
  <2>7. CASE Day * n >= Day \/ Day * n <= -Day
    BY <1>1, <1>7, <2>1, <2>4, <2>5, <2>7 DEF Distance
  <2> QED
    BY <2>5, <2>6, <2>7
<1> QED
  BY <1>10, <1>12, <1>13 DEF IsNearest

-----------------------------------------------------------------------------
(* What a sample compares *)

LEMMA UpcomingTyped ==
    ASSUME NEW r \in Record
    PROVE  /\ IsFiniteSet(Upcoming(r))
           /\ \A i \in Upcoming(r) : /\ i \in Nat /\ StopsOf[r][i] \in StopUpdate
                                     /\ StopsOf[r][i].stop \in Nat
                                     /\ Prediction(StopsOf[r][i]) \in Nat
<1>1. StopsOf[r] \in Seq(StopUpdate)
  BY MartsAssumption
<1>2. Len(StopsOf[r]) \in Nat /\ DOMAIN StopsOf[r] = 1 .. Len(StopsOf[r])
      /\ \A i \in 1 .. Len(StopsOf[r]) : StopsOf[r][i] \in StopUpdate
  BY <1>1
<1>3. Upcoming(r) \subseteq 1 .. Len(StopsOf[r])
  BY <1>2 DEF Upcoming
<1>4. IsFiniteSet(Upcoming(r))
  <2>1. Len(StopsOf[r]) \in Int /\ 1 \in Int
    BY <1>2
  <2>2. IsFiniteSet(1 .. Len(StopsOf[r]))
    BY <2>1, FS_Interval
  <2>3. Upcoming(r) \in SUBSET (1 .. Len(StopsOf[r]))
    BY <1>3
  <2> QED
    BY <2>2, <2>3, FS_Subset
<1>5. \A i \in Upcoming(r) : Prediction(StopsOf[r][i]) \in Nat
  BY <1>2, <1>3 DEF Upcoming, Prediction, StopUpdate, Optional
<1> QED
  BY <1>2, <1>3, <1>4, <1>5 DEF StopUpdate

\* An event with an upcoming stop has a next one.
LEMMA NextStopTyped ==
    ASSUME NEW r \in Observed
    PROVE  NextStop[r] \in StopUpdate
<1> DEFINE U == Upcoming(r)
           R == {x \in U \X U : Sooner(r, x[1], x[2])}
<1>1. r \in Record /\ U # {}
  BY DEF Observed
<1>2. IsFiniteSet(U) /\ \A i \in U : /\ i \in Nat /\ StopsOf[r][i] \in StopUpdate
                                     /\ StopsOf[r][i].stop \in Nat
                                     /\ Prediction(StopsOf[r][i]) \in Nat
  BY <1>1, UpcomingTyped
<1>3. \A i, j \in U : <<i, j>> \in R <=> Sooner(r, i, j)
  OBVIOUS
<1> HIDE DEF R
<1>4. \A i \in U : <<i, i>> \notin R
  BY <1>2, <1>3 DEF Sooner
<1>5. \A i, j, k \in U : <<i, j>> \in R /\ <<j, k>> \in R => <<i, k>> \in R
  BY <1>2, <1>3 DEF Sooner
<1>6. PICK i \in U : \A j \in U : <<j, i>> \notin R
  <2> HIDE DEF U
  <2> QED
    BY <1>1, <1>2, <1>4, <1>5, FirstExists
<1>7. \A j \in U : j = i \/ Sooner(r, i, j)
  <2> SUFFICES ASSUME NEW j \in U, j # i
               PROVE  Sooner(r, i, j)
    OBVIOUS
  <2>1. ~Sooner(r, j, i)
    BY <1>3, <1>6
  <2> DEFINE u == StopsOf[r][i]
             v == StopsOf[r][j]
             p == Prediction(u)
             q == Prediction(v)
  <2>2. /\ i \in Nat /\ u.stop \in Nat /\ p \in Nat
        /\ j \in Nat /\ v.stop \in Nat /\ q \in Nat
    BY <1>2
  <2>3. ~(\/ q < p
          \/ q = p /\ v.stop < u.stop
          \/ q = p /\ v.stop = u.stop /\ j < i)
    BY <2>1 DEF Sooner
  <2>4. \/ p < q
        \/ p = q /\ u.stop < v.stop
        \/ p = q /\ u.stop = v.stop /\ i < j
    <3> HIDE DEF u, v, p, q, U
    <3> QED
      BY <2>2, <2>3
  <2> QED
    BY <2>4 DEF Sooner
<1> DEFINE first == CHOOSE n \in U : \A j \in U : j = n \/ Sooner(r, n, j)
<1>8. first \in U
  <2> HIDE DEF U
  <2> QED
    BY <1>7
<1>9. NextStop[r] = StopsOf[r][first]
  BY DEF NextStop
<1> HIDE DEF first, U
<1> QED
  BY <1>2, <1>8, <1>9

\* The trip and the stop name at most one entry of the schedule, and either
\* its arrival or its departure is what the prediction is compared with.
LEMMA OneBasis ==
    ASSUME NEW r \in Observed, NEW f \in Feed, NEW b \in Bases(r, f)
    PROVE  /\ b.predicted \in Int /\ b.scheduled \in Int
           /\ \A c \in Bases(r, f) : c = b
<1>1. NextStop[r] \in StopUpdate
  BY NextStopTyped
<1>2. /\ Schedule[f] \subseteq Entry({e.route : e \in Schedule[f]})
      /\ \A d, e \in Schedule[f] : d.trip = e.trip /\ d.stop = e.stop => d = e
  BY MartsAssumption
<1>3. \A d, e \in Scheduled(r, f) : d = e
  BY <1>2 DEF Scheduled
<1>4. \A e \in Scheduled(r, f) : e.arrival \in Optional(Nat) /\ e.departure \in Optional(Nat)
  BY <1>2 DEF Scheduled, Entry
<1>5. NextStop[r].arrival \in Optional(Nat) /\ NextStop[r].departure \in Optional(Nat)
  BY <1>1 DEF StopUpdate
<1>6. b.predicted \in Int /\ b.scheduled \in Int
  BY <1>4, <1>5 DEF Bases, Optional
<1>7. \A c \in Bases(r, f) : c = b
  BY <1>3 DEF Bases
<1> QED
  BY <1>6, <1>7

\* The delay of a sample is the difference to the nearest instant at which
\* the clock shows the scheduled time, on whatever service day, unless the
\* clock is changed near the prediction (predicted_delay_seconds in
\* fct_trip_monitoring_samples.sql).
THEOREM PageDelayTrue == Spec => []DelayTrue
<1>1. ASSUME TypeOK PROVE DelayTrue
  <2> SUFFICES ASSUME NEW r \in samples.rows, NEW b \in Bases(r, samples.feed),
                      ~NearChange(b.predicted)
               PROVE  IsNearest(Delay[samples.feed][r], b.predicted, b.scheduled)
    BY DEF DelayTrue
  <2>1. r \in Observed /\ samples.feed \in Feed
    BY <1>1 DEF TypeOK, MartsTypeOK, Table
  <2>2. /\ b.predicted \in Int /\ b.scheduled \in Int
        /\ \A c \in Bases(r, samples.feed) : c = b
    BY <2>1, OneBasis
  <2>3. (CHOOSE c \in Bases(r, samples.feed) : TRUE) = b
    BY <2>2
  <2>4. Delay[samples.feed][r] = DelayFrom(b.predicted, b.scheduled)
    <3>1. Delay[samples.feed][r] = DelayIn(r, samples.feed)
      BY <2>1 DEF Delay
    <3>2. Bases(r, samples.feed) # {}
      OBVIOUS
    <3> QED
      BY <2>3, <3>1, <3>2 DEF DelayIn
  <2> QED
    BY <2>2, <2>4, DelayFromNearest
<1> QED
  BY <1>1, PageTypes, PTL
=============================================================================
