----------------------------- MODULE FeedStore -----------------------------
(***************************************************************************)
(* What the six GTFS tables promise to their readers (the dbt models):     *)
(* seen together they are empty or hold one sound feed, another feed takes *)
(* its place in one step, and they are never emptied again.  GtfsRefresh   *)
(* implements this module, and Marts reads tables that behave like it.     *)
(***************************************************************************)
CONSTANTS
    Feed,       \* feeds whose rows and references are intact
    None        \* "nothing loaded yet"

VARIABLE
    feed        \* the feed whose rows all the tables hold, or None

Init == feed = None

\* One transaction replaces all the tables, perhaps by what they hold.
Load(f) == feed' = f

Next == \E f \in Feed : Load(f)

Spec == Init /\ [][Next]_feed
=============================================================================
