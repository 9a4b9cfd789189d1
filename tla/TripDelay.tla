------------------------------ MODULE TripDelay ------------------------------
(***************************************************************************)
(* How the marts turn a predicted instant and a GTFS time of day into a    *)
(* delay (fct_trip_monitoring_samples.sql).  An instant is a point of UTC, *)
(* a local time is a reading of the wall clock in the project's time zone, *)
(* whose offset changes once: forward in spring, or back in autumn.        *)
(***************************************************************************)
EXTENDS Integers

CONSTANTS
    Day,            \* length of a day
    Change,         \* the instant at which the offset changes
    OffsetBefore,   \* offset from UTC until then
    OffsetAfter     \* offset from UTC since then

ASSUME TripDelayAssumption ==
    /\ Day \in Nat \ {0}
    /\ Change \in Nat
    /\ OffsetBefore \in Int
    /\ OffsetAfter \in Int

\* timestamptz AT TIME ZONE
LocalOf(t) == t + (IF t < Change THEN OffsetBefore ELSE OffsetAfter)

\* timestamp AT TIME ZONE.  PostgreSQL reads a local time that never was with
\* the old offset, and one that was twice with the new offset.
InstantOf(local) ==
    LET before == local - OffsetBefore
        after == local - OffsetAfter
    IN IF \/ before < Change /\ after < Change
          \/ before > after /\ (before <= Change \/ after < Change)
       THEN before ELSE after

\* ROUND: half away from zero.
NoDays(difference) == 0             \* faulty: the prediction's own day
NearestDays(difference) ==
    IF difference >= 0
    THEN (2 * difference + Day) \div (2 * Day)
    ELSE -((Day - 2 * difference) \div (2 * Day))

\* scheduled_local_candidate; GTFS times of day may pass midnight.
Candidate(predicted, scheduled) ==
    (LocalOf(predicted) \div Day) * Day + (scheduled % Day)

\* scheduled_prediction_timestamp
ScheduledInstant(predicted, scheduled) ==
    LET candidate == Candidate(predicted, scheduled)
    IN InstantOf(candidate + NearestDays(LocalOf(predicted) - candidate) * Day)

\* predicted_delay_seconds
DelayFrom(predicted, scheduled) == predicted - ScheduledInstant(predicted, scheduled)

-----------------------------------------------------------------------------
(* What the documentation calls the nearest matching scheduled timestamp. *)

Distance(t, u) == IF t < u THEN u - t ELSE t - u

\* Instants around a prediction at which the clock shows the scheduled time.
Matching(predicted, scheduled) ==
    {t \in (predicted - Day) .. (predicted + Day) : LocalOf(t) % Day = scheduled % Day}

IsNearest(delay, predicted, scheduled) ==
    /\ predicted - delay \in Matching(predicted, scheduled)
    /\ \A t \in Matching(predicted, scheduled) :
          Distance(predicted, predicted - delay) <= Distance(predicted, t)

\* The offset changes within a day of the prediction.
NearChange(predicted) == Distance(predicted, Change) <= Day + Distance(OffsetBefore, OffsetAfter)
=============================================================================
