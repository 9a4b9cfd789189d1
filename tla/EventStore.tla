----------------------------- MODULE EventStore -----------------------------
(***************************************************************************)
(* What one staging table of the platform promises to its readers (the dbt *)
(* models and the dashboard): an event of the topic appears at most once,  *)
(* all its rows appear together, they come from one valid record, and they *)
(* are never changed afterwards.  StreamJob implements this module.        *)
(***************************************************************************)
CONSTANTS
    Event,      \* event_id values
    Record,     \* record contents that producers publish
    IdOf,       \* event_id of a record
    Valid,      \* records accepted by the quality filter
    None        \* "no rows yet"

VARIABLES
    topic,      \* records published so far
    stored      \* event -> the record whose rows the table holds, or None

Init ==
    /\ topic = {}
    /\ stored = [e \in Event |-> None]

Publish(r) ==
    /\ topic' = topic \cup {r}
    /\ UNCHANGED stored

\* One transaction makes the rows of a set of new events visible.
Store(S) ==
    /\ \A e \in S : stored[e] = None
    /\ \E f \in [S -> topic \cap Valid] :
          /\ \A e \in S : IdOf[f[e]] = e
          /\ stored' = [e \in Event |-> IF e \in S THEN f[e] ELSE stored[e]]
    /\ UNCHANGED topic

Next ==
    \/ \E r \in Record : Publish(r)
    \/ \E S \in SUBSET Event : Store(S)

Spec == Init /\ [][Next]_<<topic, stored>>
=============================================================================
