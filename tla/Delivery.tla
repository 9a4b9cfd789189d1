------------------------------ MODULE Delivery ------------------------------
(***************************************************************************)
(* What the producer promises to those who read its topics and its log:    *)
(* responses make it owe messages, which become durable one by one, in any *)
(* order or never; a cycle is reported at most once, when all it owes is   *)
(* durable, with the true totals; from then on nothing of it changes.      *)
(* Producer implements this module.                                        *)
(***************************************************************************)
EXTENDS FiniteSets

CONSTANTS
    Cycle,      \* names of cycles, reused in turn
    Response(_),\* sets of messages that one response of a cycle may become
    DLQ         \* the dead-letter topic

VARIABLES
    owed,       \* cycle -> messages that its responses became
    durable,    \* cycle -> those that Kafka has stored
    lines       \* cycle -> printed lines: <<published, rejected>>

state == <<owed, durable, lines>>

Init ==
    /\ owed = [c \in Cycle |-> {}]
    /\ durable = [c \in Cycle |-> {}]
    /\ lines = [c \in Cycle |-> {}]

\* The name is taken by a new cycle.
Begin(c) ==
    /\ owed' = [owed EXCEPT ![c] = {}]
    /\ durable' = [durable EXCEPT ![c] = {}]
    /\ lines' = [lines EXCEPT ![c] = {}]

Fetch(c) ==
    /\ lines[c] = {}
    /\ \E S \in Response(c) : owed' = [owed EXCEPT ![c] = @ \cup S]
    /\ UNCHANGED <<durable, lines>>

Deliver(c) ==
    /\ \E m \in owed[c] \ durable[c] : durable' = [durable EXCEPT ![c] = @ \cup {m}]
    /\ UNCHANGED <<owed, lines>>

Report(c) ==
    /\ lines[c] = {}
    /\ durable[c] = owed[c]
    /\ lines' = [lines EXCEPT ![c] =
                    {<<Cardinality({m \in owed[c] : m.topic # DLQ}),
                       Cardinality({m \in owed[c] : m.topic = DLQ})>>}]
    /\ UNCHANGED <<owed, durable>>

Next == \E c \in Cycle : Begin(c) \/ Fetch(c) \/ Deliver(c) \/ Report(c)

Spec == Init /\ [][Next]_state
=============================================================================
