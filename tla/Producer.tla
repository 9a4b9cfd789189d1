------------------------------ MODULE Producer ------------------------------
(***************************************************************************)
(* The producer process: every cycle it fetches the three MBTA feeds in    *)
(* order, validates each parsed event against its contract, hands the      *)
(* event to the asynchronous Kafka client (or a dead-letter envelope when  *)
(* the contract rejects it), flushes, and prints how many events of the    *)
(* cycle were published.  Any exception ends the process after a last      *)
(* flush, and Docker starts it again.                                      *)
(*                                                                         *)
(* Cycles are named 1 .. Cycles and the names are reused in turn, so that  *)
(* the model tells the newest Cycles cycles apart and never stops.         *)
(***************************************************************************)
EXTENDS Integers, FiniteSets

CONSTANTS
    FeedCount,      \* length of FEEDS
    Event,          \* entities a feed may contain
    Accepted,       \* those whose parsed event satisfies the contract
    DLQ,            \* the dead-letter topic
    Cycles,         \* bound: cycles told apart
    FeedSize,       \* bound: entities in a response
    QueueSize,      \* capacity of the client's local queue
    MaxFailures     \* bound: failures of every kind

ASSUME ConstantsAssumption ==
    /\ FeedCount \in Nat \ {0}
    /\ IsFiniteSet(Event)
    /\ Accepted \subseteq Event
    /\ DLQ \notin 1 .. FeedCount
    /\ Cycles \in Nat \ {0, 1}
    /\ FeedSize \in Nat
    /\ QueueSize \in Nat
    /\ MaxFailures \in Nat

VARIABLES
    pc,             \* "fetch", "publish", "flush", "sleep", "close" or "down"
    cycle,          \* the running or newest cycle
    feed,           \* position in FEEDS
    todo,           \* events of the response not yet published
    published,      \* published_total of the cycle
    rejected,       \* rejected_total of the cycle
    queue,          \* client: accepted messages whose outcome is open
    acked,          \* client: delivered, delivery report not served yet
    expired,        \* client: failed, delivery report not served yet
    errors,         \* _delivery_errors, by message
    wire,           \* messages a request to the broker may still deliver
    topic,          \* messages that are durable in Kafka
    fetched,        \* what MBTA answered: <<cycle, feed, event>>
    reported,       \* the printed lines: <<cycle, published, rejected>>
    failures        \* bound counter

position == <<pc, cycle, feed, todo>>
totals == <<published, rejected>>
client == <<queue, acked, expired, errors>>
vars == <<position, totals, client, wire, topic, fetched, reported, failures>>

Feed == 1 .. FeedCount
Message == [cycle : 1 .. Cycles, feed : Feed, event : Event, topic : Feed \cup {DLQ}]

\* What a parser makes of a response: a list of events, with distinct ids.
Responses == {S \in SUBSET Event : Cardinality(S) <= FeedSize}

\* SchemaValidator.validate does not raise.
Conforms(e) == e \in Accepted

\* A rejected event goes to the dead-letter topic in an envelope.
Destination(f, e) == IF Conforms(e) THEN f ELSE DLQ

MessageOf(c, f, e) ==
    [cycle |-> c, feed |-> f, event |-> e, topic |-> Destination(f, e)]

HoldsOpen == queue                  \* faulty: forgets unserved reports
Held == queue \cup acked \cup expired

-----------------------------------------------------------------------------
Init ==
    /\ pc = "down"
    /\ cycle = Cycles
    /\ feed = 1
    /\ todo = {}
    /\ published = 0
    /\ rejected = 0
    /\ queue = {}
    /\ acked = {}
    /\ expired = {}
    /\ errors = {}
    /\ wire = {}
    /\ topic = {}
    /\ fetched = {}
    /\ reported = {}
    /\ failures = 0

Fail ==
    /\ failures < MaxFailures
    /\ failures' = failures + 1

\* run_once begins; the cycle that had the same name before is forgotten.
NewCycle ==
    LET c == (cycle % Cycles) + 1 IN
    /\ pc' = "fetch"
    /\ cycle' = c
    /\ feed' = 1
    /\ todo' = {}
    /\ published' = 0
    /\ rejected' = 0
    /\ wire' = {m \in wire : m.cycle # c}
    /\ topic' = {m \in topic : m.cycle # c}
    /\ fetched' = {x \in fetched : x[1] # c}
    /\ reported' = {x \in reported : x[1] # c}
    /\ UNCHANGED <<client, failures>>

Wake == pc = "sleep" /\ NewCycle

\* The container starts, also again after a failure.
StartOnce == pc = "down" /\ fetched = {} /\ NewCycle    \* faulty: no restart
Restart == pc = "down" /\ NewCycle

\* fetch_feed and the parser succeed.
FetchFeed(S) ==
    /\ pc = "fetch"
    /\ pc' = "publish"
    /\ todo' = S
    /\ fetched' = fetched \cup {<<cycle, feed, e>> : e \in S}
    /\ UNCHANGED <<cycle, feed, totals, client, wire, topic, reported, failures>>

\* The request, the response or a feed header is faulty: the exception
\* leaves run_once, although earlier feeds are already enqueued.
FetchFails ==
    /\ pc = "fetch"
    /\ Fail
    /\ pc' = "close"
    /\ UNCHANGED <<cycle, feed, todo, totals, client, wire, topic, fetched, reported>>

\* produce accepts the message, then poll(0) serves the reports at hand.
Enqueue(m) ==
    /\ queue' = queue \cup {m}
    /\ wire' = wire \cup {m}
    /\ errors' = errors \cup expired
    /\ acked' = {}
    /\ expired' = {}

\* publish_events on one event: to its topic, or its envelope to the DLQ.
PublishEvent(e) ==
    /\ pc = "publish"
    /\ e \in todo
    /\ Cardinality(Held) < QueueSize
    /\ Enqueue(MessageOf(cycle, feed, e))
    /\ todo' = todo \ {e}
    /\ IF Conforms(e)
       THEN published' = published + 1 /\ UNCHANGED rejected
       ELSE rejected' = rejected + 1 /\ UNCHANGED published
    /\ UNCHANGED <<pc, cycle, feed, topic, fetched, reported, failures>>

\* produce raises BufferError: messages count until their report is served,
\* and the producer polls only after a successful produce.
QueueFull ==
    /\ pc = "publish"
    /\ todo # {}
    /\ Cardinality(Held) >= QueueSize
    /\ pc' = "close"
    /\ UNCHANGED <<cycle, feed, todo, totals, client, wire, topic, fetched, reported, failures>>

\* produce or poll raises KafkaException.
ProduceFails ==
    /\ pc = "publish"
    /\ todo # {}
    /\ Fail
    /\ pc' = "close"
    /\ UNCHANGED <<cycle, feed, todo, totals, client, wire, topic, fetched, reported>>

PastLastFeed == feed > FeedCount    \* faulty: one feed too many
LastFeed == feed = FeedCount

NextFeed ==
    /\ pc = "publish"
    /\ todo = {}
    /\ IF LastFeed
       THEN pc' = "flush" /\ UNCHANGED feed
       ELSE pc' = "fetch" /\ feed' = feed + 1
    /\ UNCHANGED <<cycle, todo, totals, client, wire, topic, fetched, reported, failures>>

\* While flush waits it serves delivery reports.
ServeReports ==
    /\ pc \in {"flush", "close"}
    /\ acked \cup expired # {}
    /\ acked' = {}
    /\ expired' = {}
    /\ errors' = errors \cup expired
    /\ UNCHANGED <<position, totals, queue, wire, topic, fetched, reported, failures>>

\* flush finds nothing left: the cycle is reported, or the errors raise.
FlushIgnoringErrors ==              \* faulty: only `remaining` is checked
    /\ pc' = "sleep"
    /\ reported' = reported \cup {<<cycle, published, rejected>>}
    /\ errors' = {}

FlushResult ==
    IF errors = {}
    THEN /\ pc' = "sleep"
         /\ reported' = reported \cup {<<cycle, published, rejected>>}
         /\ UNCHANGED errors
    ELSE /\ pc' = "close"
         /\ errors' = {}
         /\ UNCHANGED reported

FlushReturns ==
    /\ pc = "flush"
    /\ Held = {}
    /\ FlushResult
    /\ UNCHANGED <<cycle, feed, todo, totals, queue, acked, expired, wire, topic,
                   fetched, failures>>

\* The ten seconds are over and messages remain.
FlushTimesOut ==
    /\ pc = "flush"
    /\ Held # {}
    /\ Fail
    /\ pc' = "close"
    /\ UNCHANGED <<cycle, feed, todo, totals, client, wire, topic, fetched, reported>>

\* The process ends: what its client still holds is lost unless a request
\* for it is already under way.
Terminate ==
    /\ pc' = "down"
    /\ queue' = {}
    /\ acked' = {}
    /\ expired' = {}
    /\ errors' = {}
    /\ wire' \in SUBSET wire
    /\ UNCHANGED <<cycle, feed, todo, totals, topic, fetched, reported>>

\* The flush in the finally block has returned or raised.
Exit ==
    /\ pc = "close"
    /\ Terminate
    /\ UNCHANGED failures

Crash ==
    /\ pc # "down"
    /\ Fail
    /\ Terminate

-----------------------------------------------------------------------------
(* The Kafka client's background thread and the broker. *)

Append(m) ==
    /\ m \in wire
    /\ wire' = wire \ {m}
    /\ topic' = topic \cup {m}
    /\ UNCHANGED <<position, totals, client, fetched, reported, failures>>

Acknowledge(m) ==
    /\ m \in queue
    /\ m \in topic
    /\ queue' = queue \ {m}
    /\ acked' = acked \cup {m}
    /\ UNCHANGED <<position, totals, expired, errors, wire, topic, fetched, reported, failures>>

\* delivery.timeout.ms is over or the broker refuses: the message may be in
\* the topic nevertheless, or still arrive there.
Expire(m) ==
    /\ m \in queue
    /\ Fail
    /\ queue' = queue \ {m}
    /\ expired' = expired \cup {m}
    /\ wire' \in {wire, wire \ {m}}
    /\ UNCHANGED <<position, totals, acked, errors, topic, fetched, reported>>

Next ==
    \/ Wake \/ Restart
    \/ \E S \in Responses : FetchFeed(S)
    \/ FetchFails
    \/ \E e \in Event : PublishEvent(e)
    \/ QueueFull \/ ProduceFails
    \/ NextFeed
    \/ ServeReports \/ FlushReturns \/ FlushTimesOut
    \/ Exit \/ Crash
    \/ \E m \in wire : Append(m)
    \/ \E m \in queue : Acknowledge(m) \/ Expire(m)

Spec == Init /\ [][Next]_vars

\* The process runs, MBTA answers, the broker accepts and acknowledges.
Fairness ==
    /\ WF_vars(Wake)
    /\ WF_vars(Restart)
    /\ WF_vars(\E S \in Responses : FetchFeed(S))
    /\ WF_vars(\E e \in Event : PublishEvent(e))
    /\ WF_vars(NextFeed)
    /\ WF_vars(ServeReports)
    /\ WF_vars(FlushReturns)
    /\ WF_vars(Exit)
    /\ WF_vars(\E m \in wire : Append(m))
    /\ WF_vars(\E m \in queue : Acknowledge(m))

FairSpec == Spec /\ Fairness

-----------------------------------------------------------------------------
\* Every variable has its type: run_once stays within FEEDS and the client
\* holds only messages that publish_events made.
TypeOK ==
    /\ pc \in {"fetch", "publish", "flush", "sleep", "close", "down"}
    /\ cycle \in 1 .. Cycles
    /\ feed \in Feed
    /\ todo \subseteq Event
    /\ published \in Nat
    /\ rejected \in Nat
    /\ queue \subseteq Message
    /\ acked \subseteq Message
    /\ expired \subseteq Message
    /\ errors \subseteq Message
    /\ wire \subseteq Message
    /\ topic \subseteq Message
    /\ fetched \subseteq (1 .. Cycles) \X Feed \X Event
    /\ reported \subseteq (1 .. Cycles) \X Nat \X Nat
    /\ failures \in 0 .. MaxFailures

\* The messages a cycle owes Kafka, and the durable ones.
Owed(c) == {MessageOf(c, x[2], x[3]) : x \in {y \in fetched : y[1] = c}}
Durable(c) == {m \in topic : m.cycle = c}

\* The printed line tells the truth: every entity of every feed of that
\* cycle is durable, in its topic when the contract accepts it and in the
\* dead-letter topic otherwise, nothing else is, and the two totals count
\* exactly these messages.  Deliveries are asynchronous, so this rests on
\* flush, the delivery reports and the exceptions together.
ReportTrue ==
    \A x \in reported :
        /\ Durable(x[1]) = Owed(x[1])
        /\ x[2] = Cardinality({m \in Durable(x[1]) : m.topic # DLQ})
        /\ x[3] = Cardinality({m \in Durable(x[1]) : m.topic = DLQ})

\* A delivery failure is charged to the cycle that sent the message: the
\* client never holds a message, a report or an error of an earlier cycle.
NothingCarriedOver == \A m \in Held \cup errors : m.cycle = cycle

\* Refinement: the topics and the printed lines are a Delivery.
OwedBy == [c \in 1 .. Cycles |-> Owed(c)]
DurableBy == [c \in 1 .. Cycles |-> Durable(c)]
LinesOf == [c \in 1 .. Cycles |-> {<<x[2], x[3]>> : x \in {y \in reported : y[1] = c}}]

Answers(c) == {{MessageOf(c, f, e) : e \in S} : f \in Feed, S \in Responses}

Promise == INSTANCE Delivery WITH
    Cycle    <- 1 .. Cycles,
    Response <- Answers,
    owed     <- OwedBy,
    durable  <- DurableBy,
    lines    <- LinesOf

\* Seen from outside, every step of the process, of the client's thread and
\* of the broker is one that Delivery allows: Kafka gets only what was
\* fetched, a cycle is reported at most once and only when complete, and a
\* delivery that outlives its process never changes a cycle once reported.
ImplementsDelivery == Promise!Spec

\* Once the failures stop, cycles are reported again and again, unless cycles
\* keep coming that are larger than the client's local queue.
CycleFits == Cardinality({x \in fetched : x[1] = cycle}) <= QueueSize
KeepsReporting == <>[]CycleFits => []<>(pc = "sleep")
=============================================================================
