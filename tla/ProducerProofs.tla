--------------------------- MODULE ProducerProofs ---------------------------
(***************************************************************************)
(* The producer's printed line is true, for every number of feeds, every   *)
(* feed content and every capacity of the client's queue.                  *)
(***************************************************************************)
EXTENDS Producer, FiniteSetTheorems, TLAPS

Working == pc \in {"fetch", "publish", "flush"}

\* The entities of the running cycle that publish_events is done with.
Taken == {x \in fetched : x[1] = cycle /\ ~(x[2] = feed /\ x[3] \in todo)}
Sent == {MessageOf(cycle, x[2], x[3]) : x \in Taken}

\* Between two cycles the client holds nothing.
ClientEmpty == pc \in {"sleep", "down"} => Held \cup errors = {}

\* Whatever reaches Kafka was fetched in the cycle it is charged to.
MessagesOwed == \A m \in wire \cup topic : m \in Owed(m.cycle)

\* FEEDS are processed in order, and each response before the next one.
FeedsInOrder ==
    Working =>
        /\ \A x \in fetched : x[1] = cycle => x[2] < feed \/ (x[2] = feed /\ pc # "fetch")
        /\ \A e \in todo : <<cycle, feed, e>> \in fetched
        /\ pc # "publish" => todo = {}

\* What was handed to the client is durable, still open or known to have failed.
SentKept == Working => Sent \subseteq queue \cup expired \cup errors \cup topic
AckedDurable == acked \subseteq topic

Counted(S, p, r) ==
    /\ IsFiniteSet(S)
    /\ p = Cardinality({m \in S : m.topic # DLQ})
    /\ r = Cardinality({m \in S : m.topic = DLQ})
TotalsTrue == Working => Counted(Sent, published, rejected)

NotYetReported == Working => \A x \in reported : x[1] # cycle

IInv ==
    /\ TypeOK
    /\ ClientEmpty /\ NothingCarriedOver
    /\ MessagesOwed /\ FeedsInOrder
    /\ SentKept /\ AckedDurable
    /\ TotalsTrue /\ NotYetReported
    /\ ReportTrue

-----------------------------------------------------------------------------
(* The messages. *)

LEMMA MessageTyped ==
    ASSUME NEW c \in 1 .. Cycles, NEW f \in Feed, NEW e \in Event
    PROVE  /\ MessageOf(c, f, e) \in Message
           /\ MessageOf(c, f, e).cycle = c
           /\ MessageOf(c, f, e).feed = f
           /\ MessageOf(c, f, e).event = e
           /\ MessageOf(c, f, e).topic = DLQ <=> ~Conforms(e)
BY ConstantsAssumption
DEF MessageOf, Message, Destination, Conforms, Feed, ConstantsAssumption

LEMMA OwedTyped ==
    ASSUME TypeOK, NEW c, NEW m \in Owed(c)
    PROVE  m \in Message /\ m.cycle = c
<1>1. PICK x \in fetched : x[1] = c /\ m = MessageOf(c, x[2], x[3])
  BY DEF Owed
<1>2. x[1] \in 1 .. Cycles /\ x[2] \in Feed /\ x[3] \in Event
  BY DEF TypeOK
<1> QED
  BY <1>1, <1>2, MessageTyped

\* Another message changes one of the totals.
LEMMA CountedNext ==
    ASSUME NEW S \in SUBSET Message, NEW p \in Nat, NEW r \in Nat, Counted(S, p, r),
           NEW m \in Message, m \notin S
    PROVE  Counted(S \cup {m}, IF m.topic # DLQ THEN p + 1 ELSE p,
                               IF m.topic = DLQ THEN r + 1 ELSE r)
<1> DEFINE P == {x \in S : x.topic # DLQ}
           R == {x \in S : x.topic = DLQ}
           PP == {x \in S \cup {m} : x.topic # DLQ}
           RR == {x \in S \cup {m} : x.topic = DLQ}
<1>1. IsFiniteSet(S) /\ IsFiniteSet(P) /\ IsFiniteSet(R) /\ IsFiniteSet(S \cup {m})
  <2>1. IsFiniteSet(S)
    BY DEF Counted
  <2>2. P \in SUBSET S /\ R \in SUBSET S
    OBVIOUS
  <2> HIDE DEF P, R
  <2> QED
    BY <2>1, <2>2, FS_Subset, FS_AddElement
<1>2. p = Cardinality(P) /\ r = Cardinality(R)
  BY DEF Counted
<1>3. CASE m.topic # DLQ
  <2>1. PP = P \cup {m} /\ RR = R /\ m \notin P
    BY <1>3
  <2> HIDE DEF P, R, PP, RR
  <2>2. Cardinality(PP) = p + 1 /\ Cardinality(RR) = r
    BY <1>1, <1>2, <2>1, FS_AddElement
  <2> QED
    BY <1>1, <1>3, <2>2 DEF Counted, PP, RR
<1>4. CASE m.topic = DLQ
  <2>1. PP = P /\ RR = R \cup {m} /\ m \notin R
    BY <1>4
  <2> HIDE DEF P, R, PP, RR
  <2>2. Cardinality(PP) = p /\ Cardinality(RR) = r + 1
    BY <1>1, <1>2, <2>1, FS_AddElement
  <2> QED
    BY <1>1, <1>4, <2>2 DEF Counted, PP, RR
<1> QED
  BY <1>3, <1>4

-----------------------------------------------------------------------------
LEMMA InitInvariant == Init => IInv
<1> SUFFICES ASSUME Init PROVE IInv
  OBVIOUS
<1>1. TypeOK
  BY ConstantsAssumption DEF Init, TypeOK, Feed, ConstantsAssumption
<1> QED
  BY <1>1
  DEF Init, IInv, ClientEmpty, NothingCarriedOver, Held, MessagesOwed, FeedsInOrder, SentKept,
      AckedDurable, TotalsTrue, NotYetReported, ReportTrue, Working

\* What is reported stays true while nothing of these cycles is fetched and
\* Kafka forgets nothing.
LEMMA ReportStaysTrue ==
    ASSUME IInv, UNCHANGED <<fetched, reported>>,
           topic \subseteq topic', \A m \in topic' \ topic : m \in wire
    PROVE  ReportTrue'
<1> SUFFICES ASSUME NEW x \in reported
             PROVE  Durable(x[1])' = Durable(x[1])
  BY DEF IInv, ReportTrue, Owed
<1>1. Durable(x[1]) = Owed(x[1])
  BY DEF IInv, ReportTrue
<1>2. ASSUME NEW m \in topic' \ topic, m.cycle = x[1]
      PROVE  FALSE
  <2>1. m \in Owed(x[1])
    BY <1>2 DEF IInv, MessagesOwed
  <2> QED
    BY <1>1, <1>2, <2>1 DEF Durable
<1> QED
  BY <1>2 DEF Durable

LEMMA NewCycleStep ==
    ASSUME IInv, pc \in {"sleep", "down"}, NewCycle
    PROVE  IInv'
<1> DEFINE c == (cycle % Cycles) + 1
<1>1. /\ pc' = "fetch" /\ cycle' = c /\ feed' = 1 /\ todo' = {}
      /\ published' = 0 /\ rejected' = 0
      /\ wire' = {m \in wire : m.cycle # c} /\ topic' = {m \in topic : m.cycle # c}
      /\ fetched' = {x \in fetched : x[1] # c} /\ reported' = {x \in reported : x[1] # c}
      /\ UNCHANGED <<client, failures>>
  BY DEF NewCycle
<1>2. c \in 1 .. Cycles
  BY ConstantsAssumption DEF IInv, TypeOK, ConstantsAssumption
<1> HIDE DEF c
<1>3. /\ queue = {} /\ acked = {} /\ expired = {} /\ errors = {}
      /\ queue' = {} /\ acked' = {} /\ expired' = {} /\ errors' = {}
  BY <1>1 DEF IInv, ClientEmpty, Held, client
<1>4. TypeOK'
  BY <1>1, <1>2, <1>3, ConstantsAssumption DEF IInv, TypeOK, Feed, ConstantsAssumption, client
<1>5. \A d : d # c => Owed(d)' = Owed(d)
  <2> SUFFICES ASSUME NEW d, d # c
               PROVE  {y \in fetched' : y[1] = d} = {y \in fetched : y[1] = d}
    BY DEF Owed, MessageOf, Destination, Conforms
  <2> QED
    BY <1>1
<1>6. MessagesOwed'
  BY <1>1, <1>5 DEF IInv, MessagesOwed
<1>7. ReportTrue'
  <2> SUFFICES ASSUME NEW x \in reported, x[1] # c
               PROVE  Durable(x[1])' = Durable(x[1])
    BY <1>1, <1>5 DEF IInv, ReportTrue
  <2> QED
    BY <1>1 DEF Durable
<1>8. Taken' = {}
  BY <1>1 DEF Taken
<1>9. TotalsTrue'
  <2>1. Sent' = {}
    BY <1>8 DEF Sent
  <2>2. IsFiniteSet({}) /\ Cardinality({}) = 0
    BY FS_EmptySet
  <2>3. {m \in {} : m.topic # DLQ} = {} /\ {m \in {} : m.topic = DLQ} = {}
    OBVIOUS
  <2> QED
    BY <1>1, <2>1, <2>2, <2>3 DEF TotalsTrue, Counted
<1> QED
  BY <1>1, <1>3, <1>4, <1>6, <1>7, <1>8, <1>9
  DEF IInv, ClientEmpty, NothingCarriedOver, Held, FeedsInOrder, SentKept, Sent, AckedDurable,
      NotYetReported

\* The response is remembered; nothing of it is sent yet.
LEMMA FetchStep ==
    ASSUME IInv, NEW S \in Responses, FetchFeed(S)
    PROVE  IInv'
<1>1. /\ pc = "fetch" /\ pc' = "publish" /\ todo' = S /\ S \subseteq Event
      /\ fetched' = fetched \cup {<<cycle, feed, e>> : e \in S}
      /\ UNCHANGED <<cycle, feed, published, rejected, client, wire, topic, reported, failures>>
  BY DEF FetchFeed, totals, Responses
<1>2. TypeOK'
  BY <1>1 DEF IInv, TypeOK, client
<1>3. \A x \in fetched : x[1] = cycle => x[2] < feed
  BY <1>1 DEF IInv, FeedsInOrder, Working
<1>4. feed \in Nat /\ cycle \in Nat
  BY ConstantsAssumption DEF IInv, TypeOK, Feed, ConstantsAssumption
<1>5. Sent' = Sent
  <2>1. Taken' = Taken
    <3>1. \A x \in fetched : x[1] = cycle => x[2] # feed
      BY <1>3, <1>4
    <3> QED
      BY <1>1, <3>1 DEF Taken
  <2> QED
    BY <1>1, <2>1 DEF Sent, MessageOf, Destination, Conforms
<1>6. \A d : d # cycle => Owed(d)' = Owed(d)
  <2> SUFFICES ASSUME NEW d, d # cycle
               PROVE  {y \in fetched' : y[1] = d} = {y \in fetched : y[1] = d}
    BY DEF Owed, MessageOf, Destination, Conforms
  <2> QED
    BY <1>1
<1>7. \A d : Owed(d) \subseteq Owed(d)'
  BY <1>1 DEF Owed, MessageOf, Destination, Conforms
<1>8. ReportTrue'
  BY <1>1, <1>6 DEF IInv, ReportTrue, Durable, NotYetReported, Working
<1>9. FeedsInOrder'
  <2>1. \A x \in fetched' : x[1] = cycle => x[2] < feed \/ x[2] = feed
    BY <1>1, <1>3
  <2> QED
    BY <1>1, <2>1 DEF FeedsInOrder, Working
<1> QED
  BY <1>1, <1>2, <1>5, <1>7, <1>8, <1>9
  DEF IInv, ClientEmpty, NothingCarriedOver, Held, MessagesOwed, SentKept, AckedDurable,
      TotalsTrue, NotYetReported, Working, client

\* The process leaves the cycle, and the client may forget everything.
LEMMA LeaveStep ==
    ASSUME IInv, pc' \in {"close", "down"},
           UNCHANGED <<cycle, feed, todo, published, rejected, topic, fetched, reported>>,
           wire' \subseteq wire, failures' \in 0 .. MaxFailures,
           IF pc' = "down" THEN queue' = {} /\ acked' = {} /\ expired' = {} /\ errors' = {}
                           ELSE UNCHANGED <<queue, acked, expired>> /\ errors' \subseteq errors
    PROVE  IInv'
<1>1. ReportTrue'
  BY ReportStaysTrue
<1>2. MessagesOwed'
  BY DEF IInv, MessagesOwed, Owed, MessageOf, Destination, Conforms
<1>3. TypeOK'
  BY DEF IInv, TypeOK
<1> QED
  BY <1>1, <1>2, <1>3
  DEF IInv, ClientEmpty, NothingCarriedOver, Held, FeedsInOrder, SentKept, AckedDurable,
      TotalsTrue, NotYetReported, Working

LEMMA PublishStep ==
    ASSUME IInv, NEW e \in Event, PublishEvent(e)
    PROVE  IInv'
<1> DEFINE m == MessageOf(cycle, feed, e)
<1>1. /\ pc = "publish" /\ pc' = "publish" /\ e \in todo /\ todo' = todo \ {e}
      /\ queue' = queue \cup {m} /\ wire' = wire \cup {m}
      /\ errors' = errors \cup expired /\ acked' = {} /\ expired' = {}
      /\ UNCHANGED <<cycle, feed, topic, fetched, reported, failures>>
  BY DEF PublishEvent, Enqueue
<1>2. /\ Conforms(e) => published' = published + 1 /\ rejected' = rejected
      /\ ~Conforms(e) => published' = published /\ rejected' = rejected + 1
  BY DEF PublishEvent
<1>3. cycle \in 1 .. Cycles /\ feed \in Feed
  BY DEF IInv, TypeOK
<1>4. /\ m \in Message /\ m.cycle = cycle /\ m.feed = feed /\ m.event = e
      /\ m.topic = DLQ <=> ~Conforms(e)
  BY <1>3, MessageTyped
<1> HIDE DEF m
<1>5. TypeOK'
  BY <1>1, <1>2, <1>4 DEF IInv, TypeOK
<1>6. m \in Owed(cycle)
  <2>1. <<cycle, feed, e>> \in fetched
    BY <1>1 DEF IInv, FeedsInOrder, Working
  <2> QED
    BY <2>1 DEF Owed, m
<1>7. MessagesOwed'
  <2>1. \A d : Owed(d)' = Owed(d)
    BY <1>1 DEF Owed, MessageOf, Destination, Conforms
  <2> QED
    BY <1>1, <1>4, <1>6, <2>1 DEF IInv, MessagesOwed
<1>8. Taken' = Taken \cup {<<cycle, feed, e>>}
  <2>1. <<cycle, feed, e>> \in fetched
    BY <1>1 DEF IInv, FeedsInOrder, Working
  <2>2. \A x \in fetched : x = <<x[1], x[2], x[3]>>
    BY DEF IInv, TypeOK
  <2>3. \A x \in fetched : x[1] = cycle /\ x[2] = feed /\ x[3] = e <=> x = <<cycle, feed, e>>
    BY <2>2
  <2> QED
    BY <1>1, <2>1, <2>3 DEF Taken
<1>9. Sent' = Sent \cup {m}
  <2> DEFINE M(x) == MessageOf(cycle, x[2], x[3])
  <2>1. Sent' = {M(x) : x \in Taken'}
    BY <1>1 DEF Sent, MessageOf, Destination, Conforms
  <2>2. Sent = {M(x) : x \in Taken}
    BY DEF Sent
  <2>3. M(<<cycle, feed, e>>) = m
    BY DEF m
  <2> HIDE DEF M, m
  <2>4. {M(x) : x \in Taken \cup {<<cycle, feed, e>>}}
           = {M(x) : x \in Taken} \cup {M(<<cycle, feed, e>>)}
    OBVIOUS
  <2> QED
    BY <1>8, <2>1, <2>2, <2>3, <2>4
<1>10. Sent \subseteq Message /\ m \notin Sent
  <2> SUFFICES ASSUME NEW x \in Taken
               PROVE  /\ MessageOf(cycle, x[2], x[3]) \in Message
                      /\ MessageOf(cycle, x[2], x[3]) # m
    BY DEF Sent
  <2>1. x[2] \in Feed /\ x[3] \in Event /\ ~(x[2] = feed /\ x[3] = e)
    BY <1>1 DEF Taken, IInv, TypeOK
  <2> QED
    BY <1>3, <1>4, <2>1, MessageTyped
<1>11. TotalsTrue'
  <2>1. Counted(Sent, published, rejected)
    BY <1>1 DEF IInv, TotalsTrue, Working
  <2>2. Counted(Sent \cup {m}, published', rejected')
    <3>1. published \in Nat /\ rejected \in Nat
      BY DEF IInv, TypeOK
    <3> QED
      BY <1>2, <1>4, <1>10, <2>1, <3>1, CountedNext
  <2> QED
    BY <1>9, <2>2 DEF TotalsTrue, Counted
<1>12. ReportTrue'
  BY <1>1, ReportStaysTrue
<1>13. FeedsInOrder'
  BY <1>1 DEF IInv, FeedsInOrder, Working
<1>14. SentKept'
  BY <1>1, <1>9 DEF IInv, SentKept, Working
<1> QED
  BY <1>1, <1>4, <1>5, <1>7, <1>11, <1>12, <1>13, <1>14
  DEF IInv, ClientEmpty, NothingCarriedOver, Held, AckedDurable, NotYetReported, Working

\* A feed without a rest is done with.
LEMMA NextFeedStep ==
    ASSUME IInv, NextFeed
    PROVE  IInv'
<1>1. /\ pc = "publish" /\ todo = {} /\ todo' = {}
      /\ UNCHANGED <<cycle, published, rejected, client, wire, topic, fetched, reported, failures>>
      /\ \/ pc' = "flush" /\ feed' = feed
         \/ feed # FeedCount /\ pc' = "fetch" /\ feed' = feed + 1
  BY DEF NextFeed, LastFeed, totals
<1>2. feed \in Feed /\ feed' \in Feed /\ feed \in Nat
  BY <1>1, ConstantsAssumption DEF IInv, TypeOK, Feed, ConstantsAssumption
<1>3. TypeOK'
  BY <1>1, <1>2 DEF IInv, TypeOK, client
<1>4. Sent' = Sent
  <2>1. Taken' = Taken
    BY <1>1 DEF Taken
  <2> QED
    BY <1>1, <2>1 DEF Sent, MessageOf, Destination, Conforms
<1>5. FeedsInOrder'
  <2>1. \A x \in fetched : x[1] = cycle => x[2] < feed \/ x[2] = feed
    BY <1>1 DEF IInv, FeedsInOrder, Working
  <2>2. \A x \in fetched : x[2] \in Nat
    BY DEF IInv, TypeOK, Feed
  <2>3. \A x \in fetched : x[1] = cycle => x[2] < feed + 1
    BY <1>2, <2>1, <2>2
  <2>4. CASE feed # FeedCount /\ pc' = "fetch" /\ feed' = feed + 1
    <3>1. \A x \in fetched' : x[1] = cycle' => x[2] < feed'
      BY <1>1, <2>3, <2>4
    <3>2. todo' = {}
      BY <1>1
    <3> QED
      BY <3>1, <3>2 DEF FeedsInOrder
  <2>5. CASE pc' = "flush" /\ feed' = feed
    <3>1. \A x \in fetched' : x[1] = cycle' => x[2] < feed' \/ x[2] = feed'
      BY <1>1, <2>1, <2>5
    <3>2. todo' = {} /\ pc' # "fetch"
      BY <1>1, <2>5
    <3> QED
      BY <3>1, <3>2 DEF FeedsInOrder
  <2> QED
    BY <1>1, <2>4, <2>5
<1>6. ReportTrue'
  BY <1>1, ReportStaysTrue
<1> QED
  BY <1>1, <1>3, <1>4, <1>5, <1>6
  DEF IInv, ClientEmpty, NothingCarriedOver, Held, MessagesOwed, Owed, MessageOf, Destination,
      Conforms, SentKept, AckedDurable, TotalsTrue, NotYetReported, Working, client

\* Steps of the client's thread and of the broker, and a flush that waits.
LEMMA ClientStep ==
    ASSUME IInv,
           UNCHANGED <<position, totals, fetched, reported>>,
           pc \notin {"sleep", "down"} \/ UNCHANGED client,
           TypeOK', topic \subseteq topic', \A m \in topic' \ topic : m \in wire,
           wire' \subseteq wire, acked' \subseteq topic',
           Held' \cup errors' \subseteq Held \cup errors,
           queue \cup expired \cup errors \subseteq queue' \cup expired' \cup errors' \cup topic'
    PROVE  IInv'
<1>1. /\ Sent' = Sent /\ (\A d : Owed(d)' = Owed(d))
      /\ UNCHANGED <<pc, cycle, feed, todo, published, rejected>>
  BY DEF position, totals, Sent, Taken, Owed, MessageOf, Destination, Conforms
<1>2. ReportTrue'
  BY ReportStaysTrue
<1>3. MessagesOwed'
  BY <1>1 DEF IInv, MessagesOwed
<1>4. SentKept'
  BY <1>1 DEF IInv, SentKept, Working
<1>5. ClientEmpty' /\ NothingCarriedOver'
  BY <1>1 DEF IInv, ClientEmpty, NothingCarriedOver, Held, client
<1> QED
  BY <1>1, <1>2, <1>3, <1>4, <1>5
  DEF IInv, FeedsInOrder, AckedDurable, TotalsTrue, NotYetReported, Working

LEMMA ClientSteps ==
    ASSUME IInv,
           \/ ServeReports
           \/ \E m \in wire : Append(m)
           \/ \E m \in queue : Acknowledge(m) \/ Expire(m)
           \/ UNCHANGED vars
    PROVE  IInv'
<1>1. CASE ServeReports
  <2>1. TypeOK'
    BY <1>1 DEF IInv, TypeOK, ServeReports, position, totals
  <2> QED
    BY <1>1, <2>1, ClientStep DEF ServeReports, Held, position
<1>2. ASSUME NEW m \in wire, Append(m) PROVE IInv'
  <2>1. TypeOK'
    BY <1>2 DEF IInv, TypeOK, Append, position, totals, client
  <2> QED
    BY <1>2, <2>1, ClientStep DEF Append, Held, client, IInv, AckedDurable
<1>3. ASSUME NEW m \in queue, Acknowledge(m) PROVE IInv'
  <2>1. TypeOK'
    BY <1>3 DEF IInv, TypeOK, Acknowledge, position, totals
  <2>2. pc \notin {"sleep", "down"}
    BY <1>3 DEF IInv, ClientEmpty, Held
  <2> QED
    BY <1>3, <2>1, <2>2, ClientStep DEF Acknowledge, Held, IInv, AckedDurable
<1>4. ASSUME NEW m \in queue, Expire(m) PROVE IInv'
  <2>1. TypeOK'
    BY <1>4, ConstantsAssumption
    DEF IInv, TypeOK, Expire, Fail, position, totals, ConstantsAssumption
  <2>2. pc \notin {"sleep", "down"}
    BY <1>4 DEF IInv, ClientEmpty, Held
  <2> QED
    BY <1>4, <2>1, <2>2, ClientStep DEF Expire, Held, IInv, AckedDurable
<1>5. CASE UNCHANGED vars
  <2>1. TypeOK'
    BY <1>5 DEF IInv, TypeOK, vars, position, totals, client
  <2> QED
    BY <1>5, <2>1, ClientStep DEF vars, Held, client, IInv, AckedDurable
<1> QED
  BY <1>1, <1>2, <1>3, <1>4, <1>5

\* flush has returned 0 without an error: all that was sent is durable, and
\* all that was fetched was sent.
LEMMA FlushStep ==
    ASSUME IInv, FlushReturns
    PROVE  IInv'
<1>1. /\ pc = "flush" /\ queue = {} /\ acked = {} /\ expired = {}
      /\ UNCHANGED <<cycle, feed, todo, published, rejected, queue, acked, expired, wire,
                     topic, fetched, failures>>
  BY DEF FlushReturns, Held, totals
<1>2. CASE errors # {}
  BY <1>1, <1>2, LeaveStep DEF FlushReturns, FlushResult, IInv, TypeOK
<1>3. CASE errors = {}
  <2>1. /\ pc' = "sleep" /\ errors' = {}
        /\ reported' = reported \cup {<<cycle, published, rejected>>}
    BY <1>3 DEF FlushReturns, FlushResult
  <2>2. Sent = Owed(cycle)
    <3>1. todo = {}
      BY <1>1 DEF IInv, FeedsInOrder, Working
    <3> QED
      BY <3>1 DEF Sent, Taken, Owed
  <2>3. Durable(cycle) = Sent
    <3>1. Sent \subseteq topic
      BY <1>1, <1>3 DEF IInv, SentKept, Working
    <3>2. \A m \in Sent : m.cycle = cycle
      BY <2>2, OwedTyped DEF IInv
    <3>3. Durable(cycle) \subseteq Sent
      BY <2>2 DEF Durable, IInv, MessagesOwed
    <3> QED
      BY <3>1, <3>2, <3>3 DEF Durable
  <2>4. Counted(Durable(cycle), published, rejected)
    BY <1>1, <2>3 DEF IInv, TotalsTrue, Working
  <2>5. \A d : Durable(d)' = Durable(d) /\ Owed(d)' = Owed(d)
    BY <1>1 DEF Durable, Owed, MessageOf, Destination, Conforms
  <2>6. ReportTrue'
    <3> SUFFICES ASSUME NEW x \in reported'
                 PROVE  /\ Durable(x[1]) = Owed(x[1])
                        /\ x[2] = Cardinality({m \in Durable(x[1]) : m.topic # DLQ})
                        /\ x[3] = Cardinality({m \in Durable(x[1]) : m.topic = DLQ})
      BY <2>5 DEF ReportTrue
    <3>1. CASE x \in reported
      BY <3>1 DEF IInv, ReportTrue
    <3>2. CASE x = <<cycle, published, rejected>>
      <4>1. x[1] = cycle /\ x[2] = published /\ x[3] = rejected
        BY <3>2
      <4> QED
        BY <2>2, <2>3, <2>4, <4>1 DEF Counted
    <3> QED
      BY <2>1, <3>1, <3>2
  <2>7. TypeOK'
    BY <1>1, <2>1 DEF IInv, TypeOK
  <2>8. MessagesOwed'
    BY <1>1, <2>5 DEF IInv, MessagesOwed
  <2> QED
    BY <1>1, <2>1, <2>6, <2>7, <2>8
    DEF IInv, ClientEmpty, NothingCarriedOver, Held, FeedsInOrder, SentKept, AckedDurable,
        TotalsTrue, NotYetReported, Working
<1> QED
  BY <1>2, <1>3

\* Every step keeps the invariant.
LEMMA NextInvariant == IInv /\ [Next]_vars => IInv'
<1> SUFFICES ASSUME IInv, [Next]_vars PROVE IInv'
  OBVIOUS
<1>1. failures \in 0 .. MaxFailures /\ MaxFailures \in Nat
  BY ConstantsAssumption DEF IInv, TypeOK, ConstantsAssumption
<1>2. CASE Wake \/ Restart
  BY <1>2, NewCycleStep DEF Wake, Restart
<1>3. CASE FetchFails \/ QueueFull \/ ProduceFails \/ FlushTimesOut
  BY <1>1, <1>3, LeaveStep DEF FetchFails, QueueFull, ProduceFails, FlushTimesOut, Fail,
     totals, client
<1>4. CASE Exit \/ Crash
  BY <1>1, <1>4, LeaveStep DEF Exit, Crash, Terminate, Fail, totals
<1> QED
  BY <1>2, <1>3, <1>4, FetchStep, PublishStep, NextFeedStep, FlushStep, ClientSteps DEF Next

-----------------------------------------------------------------------------
\* Every reachable state meets the invariant.
LEMMA ProducerInvariant == Spec => []IInv
BY InitInvariant, NextInvariant, PTL DEF Spec

\* The producer stays within FEEDS and its client holds its own messages.
THEOREM ProducerTypes == Spec => []TypeOK
<1>1. IInv => TypeOK
  BY DEF IInv
<1> QED
  BY <1>1, ProducerInvariant, PTL

\* No message, delivery report or error of one cycle is left to the next
\* (KafkaPublisher.flush, main).
THEOREM ProducerNothingCarriedOver == Spec => []NothingCarriedOver
<1>1. IInv => NothingCarriedOver
  BY DEF IInv
<1> QED
  BY <1>1, ProducerInvariant, PTL

\* The printed line of a cycle is true (run_once, main).
THEOREM ProducerReportTrue == Spec => []ReportTrue
<1>1. IInv => ReportTrue
  BY DEF IInv
<1> QED
  BY <1>1, ProducerInvariant, PTL

-----------------------------------------------------------------------------
(* Refinement of Delivery *)

\* Only the topic, the fetched entities and the printed lines are seen.
LEMMA UnseenStep ==
    ASSUME UNCHANGED <<topic, fetched, reported>>
    PROVE  UNCHANGED <<OwedBy, DurableBy, LinesOf>>
BY DEF OwedBy, DurableBy, LinesOf, Owed, Durable, MessageOf, Destination, Conforms

LEMMA NewCycleBegins ==
    ASSUME IInv, NewCycle
    PROVE  \E c \in 1 .. Cycles : Promise!Begin(c)
<1> DEFINE c == (cycle % Cycles) + 1
<1>1. /\ topic' = {m \in topic : m.cycle # c}
      /\ fetched' = {x \in fetched : x[1] # c}
      /\ reported' = {x \in reported : x[1] # c}
  BY DEF NewCycle
<1>2. c \in 1 .. Cycles
  BY ConstantsAssumption DEF IInv, TypeOK, ConstantsAssumption
<1> HIDE DEF c
<1>3. \A d \in 1 .. Cycles : {y \in fetched' : y[1] = d} = IF d = c THEN {} ELSE {y \in fetched : y[1] = d}
  BY <1>1
<1>4. OwedBy' = [OwedBy EXCEPT ![c] = {}]
  <2>1. \A d \in 1 .. Cycles : Owed(d)' = IF d = c THEN {} ELSE Owed(d)
    BY <1>3 DEF Owed, MessageOf, Destination, Conforms
  <2> QED
    BY <2>1 DEF OwedBy
<1>5. DurableBy' = [DurableBy EXCEPT ![c] = {}]
  BY <1>1 DEF DurableBy, Durable
<1>6. LinesOf' = [LinesOf EXCEPT ![c] = {}]
  <2>1. \A d \in 1 .. Cycles :
            {y \in reported' : y[1] = d} = IF d = c THEN {} ELSE {y \in reported : y[1] = d}
    BY <1>1
  <2> QED
    BY <2>1 DEF LinesOf
<1> QED
  BY <1>2, <1>4, <1>5, <1>6 DEF Promise!Begin

LEMMA FetchFetches ==
    ASSUME IInv, NEW S \in Responses, FetchFeed(S)
    PROVE  Promise!Fetch(cycle)
<1> DEFINE M == {MessageOf(cycle, feed, e) : e \in S}
<1>1. /\ fetched' = fetched \cup {<<cycle, feed, e>> : e \in S}
      /\ UNCHANGED <<topic, reported>>
      /\ cycle \in 1 .. Cycles /\ feed \in Feed
      /\ \A x \in reported : x[1] # cycle
  BY DEF FetchFeed, IInv, TypeOK, NotYetReported, Working
<1>2. LinesOf[cycle] = {}
  BY <1>1 DEF LinesOf
<1>3. OwedBy' = [OwedBy EXCEPT ![cycle] = @ \cup M]
  <2>1. \A d \in 1 .. Cycles : Owed(d)' = IF d = cycle THEN Owed(d) \cup M ELSE Owed(d)
    <3> SUFFICES ASSUME NEW d \in 1 .. Cycles
                 PROVE  Owed(d)' = IF d = cycle THEN Owed(d) \cup M ELSE Owed(d)
      OBVIOUS
    <3>1. {y \in fetched' : y[1] = d} =
             {y \in fetched : y[1] = d} \cup (IF d = cycle THEN {<<cycle, feed, e>> : e \in S} ELSE {})
      BY <1>1
    <3>2. CASE d # cycle
      BY <3>1, <3>2 DEF Owed, MessageOf, Destination, Conforms
    <3>3. CASE d = cycle
      <4> DEFINE G(y) == MessageOf(cycle, y[2], y[3])
                 T == {<<cycle, feed, e>> : e \in S}
                 U == {y \in fetched : y[1] = d}
      <4>1. Owed(d)' = {G(y) : y \in {z \in fetched' : z[1] = d}}
        BY <3>3, <1>1 DEF Owed, MessageOf, Destination, Conforms
      <4>2. Owed(d) = {G(y) : y \in U}
        BY <3>3 DEF Owed
      <4>3. M = {G(y) : y \in T}
        <5>1. \A e \in S : G(<<cycle, feed, e>>) = MessageOf(cycle, feed, e)
          OBVIOUS
        <5> HIDE DEF G
        <5>2. M \subseteq {G(y) : y \in T}
          BY <5>1
        <5>3. {G(y) : y \in T} \subseteq M
          BY <5>1
        <5> QED
          BY <5>2, <5>3
      <4>4. {z \in fetched' : z[1] = d} = U \cup T
        BY <3>1, <3>3
      <4> HIDE DEF G, T, U, M
      <4>5. {G(y) : y \in U \cup T} = {G(y) : y \in U} \cup {G(y) : y \in T}
        OBVIOUS
      <4> QED
        BY <3>3, <4>1, <4>2, <4>3, <4>4, <4>5
    <3> QED
      BY <3>2, <3>3
  <2> HIDE DEF M
  <2> QED
    BY <1>1, <2>1 DEF OwedBy
<1>4. M \in Answers(cycle)
  BY <1>1 DEF Answers
<1>5. UNCHANGED <<DurableBy, LinesOf>>
  BY <1>1 DEF DurableBy, Durable, LinesOf
<1> HIDE DEF M
<1> QED
  BY <1>2, <1>3, <1>4, <1>5 DEF Promise!Fetch

LEMMA AppendDelivers ==
    ASSUME IInv, NEW m \in wire, Append(m), m \notin topic
    PROVE  m.cycle \in 1 .. Cycles /\ Promise!Deliver(m.cycle)
<1>1. topic' = topic \cup {m} /\ UNCHANGED <<fetched, reported>>
  BY DEF Append
<1>2. m.cycle \in 1 .. Cycles /\ m \in Owed(m.cycle)
  BY DEF IInv, TypeOK, Message, MessagesOwed
<1>3. m \in OwedBy[m.cycle] \ DurableBy[m.cycle]
  BY <1>2 DEF OwedBy, DurableBy, Durable
<1>4. DurableBy' = [DurableBy EXCEPT ![m.cycle] = @ \cup {m}]
  <2>1. \A d \in 1 .. Cycles : Durable(d)' = IF d = m.cycle THEN Durable(d) \cup {m} ELSE Durable(d)
    BY <1>1 DEF Durable
  <2> QED
    BY <1>2, <2>1 DEF DurableBy
<1>5. UNCHANGED <<OwedBy, LinesOf>>
  BY <1>1 DEF OwedBy, Owed, LinesOf, MessageOf, Destination, Conforms
<1> QED
  BY <1>2, <1>3, <1>4, <1>5 DEF Promise!Deliver

LEMMA FlushReports ==
    ASSUME IInv, IInv', FlushReturns, errors = {}
    PROVE  Promise!Report(cycle)
<1>1. /\ reported' = reported \cup {<<cycle, published, rejected>>}
      /\ UNCHANGED <<topic, fetched>>
      /\ cycle \in 1 .. Cycles
      /\ \A x \in reported : x[1] # cycle
  BY DEF FlushReturns, FlushResult, IInv, TypeOK, NotYetReported, Working
<1>2. LinesOf[cycle] = {}
  BY <1>1 DEF LinesOf
<1>3. \A d : Owed(d)' = Owed(d) /\ Durable(d)' = Durable(d)
  BY <1>1 DEF Owed, Durable, MessageOf, Destination, Conforms
<1>4. /\ Durable(cycle) = Owed(cycle)
      /\ published = Cardinality({m \in Durable(cycle) : m.topic # DLQ})
      /\ rejected = Cardinality({m \in Durable(cycle) : m.topic = DLQ})
  <2> DEFINE x == <<cycle, published, rejected>>
  <2>1. x \in reported' /\ x[1] = cycle /\ x[2] = published /\ x[3] = rejected
    BY <1>1
  <2> QED
    BY <1>3, <2>1 DEF IInv, ReportTrue
<1>5. LinesOf' = [LinesOf EXCEPT ![cycle] = {<<published, rejected>>}]
  <2>1. \A d \in 1 .. Cycles :
            {y \in reported' : y[1] = d} = IF d = cycle THEN {<<cycle, published, rejected>>}
                                                        ELSE {y \in reported : y[1] = d}
    BY <1>1
  <2>2. \A d \in 1 .. Cycles :
            LinesOf'[d] = IF d = cycle THEN {<<published, rejected>>} ELSE LinesOf[d]
    <3> SUFFICES ASSUME NEW d \in 1 .. Cycles
                 PROVE  LinesOf'[d] = IF d = cycle THEN {<<published, rejected>>} ELSE LinesOf[d]
      OBVIOUS
    <3>1. LinesOf'[d] = {<<x[2], x[3]>> : x \in {y \in reported' : y[1] = d}}
      BY DEF LinesOf
    <3>2. CASE d = cycle
      <4>1. {y \in reported' : y[1] = d} = {<<cycle, published, rejected>>}
        BY <2>1, <3>2
      <4>2. {<<x[2], x[3]>> : x \in {<<cycle, published, rejected>>}} = {<<published, rejected>>}
        OBVIOUS
      <4> QED
        BY <3>1, <3>2, <4>1, <4>2
    <3>3. CASE d # cycle
      <4>1. {y \in reported' : y[1] = d} = {y \in reported : y[1] = d}
        BY <2>1, <3>3
      <4> QED
        BY <3>1, <3>3, <4>1 DEF LinesOf
    <3> QED
      BY <3>2, <3>3
  <2> QED
    BY <1>1, <2>2 DEF LinesOf
<1>6. UNCHANGED <<OwedBy, DurableBy>>
  BY <1>3 DEF OwedBy, DurableBy
<1>7. OwedBy[cycle] = Owed(cycle) /\ DurableBy[cycle] = Durable(cycle)
  BY <1>1 DEF OwedBy, DurableBy
<1>8. LinesOf' = [LinesOf EXCEPT ![cycle] =
                     {<<Cardinality({m \in OwedBy[cycle] : m.topic # DLQ}),
                        Cardinality({m \in OwedBy[cycle] : m.topic = DLQ})>>}]
  BY <1>4, <1>5, <1>7
<1> QED
  BY <1>2, <1>4, <1>6, <1>7, <1>8 DEF Promise!Report, Promise!Cardinality, Cardinality

\* The topics and the printed lines behave as Delivery says: what outlives a
\* crash, a timeout or a lost answer never spoils a line that was printed.
THEOREM ProducerImplements == Spec => ImplementsDelivery
<1>1. Init => Promise!Init
  BY DEF Init, Promise!Init, OwedBy, DurableBy, LinesOf, Owed, Durable
<1>2. ASSUME IInv, IInv', [Next]_vars
      PROVE  [Promise!Next]_<<OwedBy, DurableBy, LinesOf>>
  <2>1. CASE Wake \/ Restart
    BY <1>2, <2>1, NewCycleBegins DEF Wake, Restart, Promise!Next
  <2>2. ASSUME NEW S \in Responses, FetchFeed(S)
        PROVE  Promise!Next
    BY <1>2, <2>2, FetchFetches DEF Promise!Next, IInv, TypeOK
  <2>3. ASSUME NEW m \in wire, Append(m)
        PROVE  Promise!Next \/ UNCHANGED <<OwedBy, DurableBy, LinesOf>>
    <3>1. CASE m \in topic
      BY <2>3, <3>1, UnseenStep DEF Append
    <3>2. CASE m \notin topic
      BY <1>2, <2>3, <3>2, AppendDelivers DEF Promise!Next
    <3> QED
      BY <3>1, <3>2
  <2>4. CASE FlushReturns
    <3>1. CASE errors = {}
      BY <1>2, <2>4, <3>1, FlushReports DEF Promise!Next, IInv, TypeOK
    <3>2. CASE errors # {}
      BY <2>4, <3>2, UnseenStep DEF FlushReturns, FlushResult
    <3> QED
      BY <3>1, <3>2
  <2>5. CASE UNCHANGED <<topic, fetched, reported>>
    BY <2>5, UnseenStep
  <2> QED
    BY <1>2, <2>1, <2>2, <2>3, <2>4, <2>5
    DEF Next, FetchFails, PublishEvent, QueueFull, ProduceFails, NextFeed, ServeReports,
        FlushTimesOut, Exit, Crash, Terminate, Acknowledge, Expire, vars
<1>3. IInv /\ IInv' /\ [Next]_vars => [Promise!Next]_<<OwedBy, DurableBy, LinesOf>>
  BY <1>2
<1> QED
  BY <1>1, <1>3, ProducerInvariant, PTL
  DEF Spec, Promise!Spec, Promise!state, ImplementsDelivery
=============================================================================
