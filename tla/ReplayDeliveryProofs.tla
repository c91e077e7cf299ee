-------------------------- MODULE ReplayDeliveryProofs --------------------------
(***************************************************************************)
(* What the replay of ReplayDelivery promises, for a feed of any length and any  *)
(* number of requests, starts and failures.                                    *)
(*                                                                         *)
(* The argument for the exact replay: an event is counted as acknowledged at      *)
(* most once and only when the topic holds it (CountInv), so the report bounds    *)
(* the different events in the topic from below; what the step loads of it bounds   *)
(* the events among the records up to the end it reads at that moment, and a        *)
(* prefix of the topic never changes (ExactInv); and no producer is running when     *)
(* the step goes on to its receipt (ProducerInv).                              *)
(***************************************************************************)
EXTENDS ReplayDelivery, FiniteSetTheorems, SequenceTheorems, TLAPS

ProducerAt == {"none", "start", "sending", "flush", "reconcile", "report", "exited"}
FutureState == {"none", "waiting", "answered", "acked", "failed"}
StepAt == {"idle", "resume offsets", "fresh offsets", "query", "launch", "watch",
           "stop", "reap", "confirm", "completed", "failed", "dead"}

Producers == [at : ProducerAt, crashed : BOOLEAN, errors : BOOLEAN,
              code : {None, 0 - 1, 0, 1}]
Futures == [Events -> [state : FutureState, tries : Nat]]
Counts == [attempted : Nat, acked : Nat, failed : Int, final : BOOLEAN]
Reports == [attempted : Nat, acked : Nat, failed : Int]
Queries == [active : BOOLEAN, consumed : Nat, reported : Nat \cup {None}]
Steps == [at : StepAt, starts : Nat, start : Nat, delivery : Reports \cup {None},
          terminal : Nat, ok : BOOLEAN]

(* The types of the state. *)
TypeInv ==
    /\ log \in Seq(Events)
    /\ \A request \in wire : request.event \in Events
    /\ producer \in Producers /\ future \in Futures /\ count \in Counts
    /\ report \in Reports \cup {None}
    /\ query \in Queries
    /\ step \in Steps
    /\ receipt # None => receipt.consumed \in Nat

Before == {"resume offsets", "fresh offsets", "query", "launch"}

(* Only a step that watches, or is about to reap it, has a running producer, and     *)
(* a delivery is only loaded from one that has ended.                           *)
ProducerInv ==
    /\ Alive => step.at \in {"watch", "stop", "reap"}
    /\ Alive /\ step.at = "stop" => ~step.ok
    /\ producer.code # None => producer.at = "exited"
    /\ step.at \in Before => step.delivery = None
    /\ step.at = "watch" /\ step.delivery # None => producer.code = 0

AckedEvents == {e \in Events : future[e].state = "acked"}

(* What is acknowledged is in the topic; what was not attempted was not sent; the   *)
(* counts add up from the moment they are closed.                               *)
CountInv ==
    /\ \A e \in Events : future[e].state \in {"answered", "acked"} => e \in ToSet(log)
    /\ \A e \in Events : e > count.attempted => future[e].state = "none"
    /\ count.acked <= Cardinality(AckedEvents)
    /\ producer.at \in {"start", "sending", "flush", "reconcile"} => ~count.final
    /\ producer.at = "report" => count.final
    /\ count.final => count.acked + count.failed = count.attempted

Exact == Expected <= Len(log) /\ ToSet(SubSeq(log, 1, Expected)) = Events

(* From the loaded delivery to the receipt: what is known of the records consumed.   *)
ExactInv ==
    /\ query.consumed <= Len(log)
    /\ query.reported # None => query.reported <= query.consumed
    /\ step.at = "watch" /\ step.delivery # None =>
          /\ step.terminal <= Len(log)
          /\ step.delivery.acked <= Cardinality(ToSet(SubSeq(log, 1, step.terminal)))
    /\ (step.at = "stop" /\ step.ok) \/ step.at = "confirm" =>
          step.terminal = Expected /\ Expected <= query.consumed /\ Exact
    /\ receipt # None =>
          receipt.consumed = Expected /\ Expected <= query.consumed /\ Exact

IInv == TypeInv /\ ProducerInv /\ CountInv /\ ReportTruthful /\ ExactInv

--------------------------------------------------------------------------------
(* Facts about the data. *)

LEMMA EventsFinite == IsFiniteSet(Events) /\ Cardinality(Events) = Expected
<1>1. 1 \in Int /\ Expected \in Int
    BY ReplayConstants
<1> QED
    BY <1>1, FS_Interval, ReplayConstants DEF Events

LEMMA AppendFacts ==
    ASSUME NEW s \in Seq(Events), NEW e \in Events
    PROVE  /\ Append(s, e) \in Seq(Events) /\ Len(Append(s, e)) = Len(s) + 1
           /\ ToSet(Append(s, e)) = ToSet(s) \cup {e}
<1>1. /\ Append(s, e) \in Seq(Events) /\ Len(Append(s, e)) = Len(s) + 1 /\ Len(s) \in Nat
      /\ DOMAIN s = 1 .. Len(s) /\ DOMAIN Append(s, e) = 1 .. Len(s) + 1
      /\ \A i \in 1 .. Len(s) : Append(s, e)[i] = s[i]
      /\ Append(s, e)[Len(s) + 1] = e
    OBVIOUS
<1>2. \A i \in 1 .. Len(s) + 1 : i \in 1 .. Len(s) \/ i = Len(s) + 1
    BY <1>1
<1>3. \A i \in 1 .. Len(s) : i \in 1 .. Len(s) + 1
    BY <1>1
<1>4. Len(s) + 1 \in 1 .. Len(s) + 1
    BY <1>1
<1>5. ASSUME NEW x \in ToSet(Append(s, e)) PROVE x \in ToSet(s) \cup {e}
    BY <1>1, <1>2, <1>5 DEF ToSet
<1>6. ASSUME NEW x \in ToSet(s) \cup {e} PROVE x \in ToSet(Append(s, e))
    BY <1>1, <1>3, <1>4, <1>6 DEF ToSet
<1> QED
    BY <1>1, <1>5, <1>6

(* A prefix of the topic stays what it is. *)
LEMMA PrefixKept ==
    ASSUME NEW s \in Seq(Events), NEW e \in Events, NEW n \in Nat, n <= Len(s)
    PROVE  SubSeq(Append(s, e), 1, n) = SubSeq(s, 1, n)
<1>1. Append(s, e) \in Seq(Events) /\ Len(Append(s, e)) = Len(s) + 1 /\ Len(s) \in Nat
    BY AppendFacts
<1>2. \A i \in 1 .. n : Append(s, e)[i] = s[i]
    OBVIOUS
<1> QED
    BY <1>1, <1>2

LEMMA WholePrefix ==
    ASSUME NEW s \in Seq(Events)
    PROVE  SubSeq(s, 1, Len(s)) = s
    OBVIOUS

LEMMA SetOfPrefix ==
    ASSUME NEW s \in Seq(Events), NEW n \in Nat, n <= Len(s)
    PROVE  ToSet(SubSeq(s, 1, n)) \subseteq Events
<1>1. SubSeq(s, 1, n) \in Seq(Events)
    OBVIOUS
<1> QED
    BY <1>1 DEF ToSet

(* Records of as many different events as the feed has are all its events. *)
LEMMA AllEvents ==
    ASSUME NEW S \in SUBSET Events, Expected <= Cardinality(S)
    PROVE  S = Events
<1>1. IsFiniteSet(S) /\ Cardinality(S) <= Cardinality(Events)
      /\ (Cardinality(Events) = Cardinality(S) => Events = S)
    BY EventsFinite, FS_Subset
<1>2. Cardinality(S) \in Nat
    BY <1>1, FS_CardinalityType
<1> QED
    BY <1>1, <1>2, EventsFinite, ReplayConstants

LEMMA MoreEvents ==
    ASSUME NEW S \in SUBSET Events, NEW T \in SUBSET S
    PROVE  /\ Cardinality(T) <= Cardinality(S)
           /\ Cardinality(T) \in Nat /\ Cardinality(S) \in Nat
<1>1. IsFiniteSet(S)
    BY EventsFinite, FS_Subset
<1>2. IsFiniteSet(T) /\ Cardinality(T) <= Cardinality(S)
    BY <1>1, FS_Subset
<1> QED
    BY <1>1, <1>2, FS_CardinalityType

LEMMA OneMoreEvent ==
    ASSUME NEW S \in SUBSET Events, NEW e \in Events, e \notin S
    PROVE  Cardinality(S \cup {e}) = Cardinality(S) + 1
<1>1. IsFiniteSet(S)
    BY EventsFinite, FS_Subset
<1> QED
    BY <1>1, FS_AddElement

--------------------------------------------------------------------------------
(* Types. *)

LEMMA NewTypes ==
    /\ NewProducer \in Producers /\ NewFutures \in Futures /\ NoCount \in Counts
    /\ \A code \in {0 - 1, 0, 1} : Exited(code) \in Producers
<1>1. NewProducer \in Producers
    BY DEF NewProducer, Producers, ProducerAt
<1>2. NewFutures \in Futures
    BY DEF NewFutures, Futures, FutureState
<1>3. NoCount \in Counts
    BY DEF NoCount, Counts
<1>4. ASSUME NEW code \in {0 - 1, 0, 1} PROVE Exited(code) \in Producers
    BY <1>1, <1>4 DEF Exited, Producers, ProducerAt
<1> QED
    BY <1>1, <1>2, <1>3, <1>4

LEMMA CountTypes ==
    ASSUME NEW c \in Counts
    PROVE  /\ Attempted(c) \in Counts /\ Acked(c) \in Counts /\ Failed(c) \in Counts
           /\ Closed(c) \in Counts
<1>1. Attempted(c) \in Counts
    BY DEF Counts, Attempted
<1>2. Acked(c) \in Counts
    BY DEF Counts, Acked
<1>3. Failed(c) \in Counts
    BY DEF Counts, Failed
<1>4. Closed(c) \in Counts
    <2> DEFINE d == [c EXCEPT !.final = TRUE]
    <2>3. c.attempted - c.acked \in Int
        BY DEF Counts
    <2>1. d \in Counts
        BY DEF Counts
    <2>2. Closed(c) = [d EXCEPT !.failed = c.attempted - c.acked]
        BY DEF Closed
    <2> HIDE DEF d
    <2> QED
        BY <2>1, <2>2, <2>3 DEF Counts
<1> QED
    BY <1>1, <1>2, <1>3, <1>4

LEMMA FutureTypes ==
    ASSUME future \in Futures, NEW e \in Events, NEW s \in FutureState
    PROVE  /\ [future EXCEPT ![e].state = s] \in Futures
           /\ [future EXCEPT ![e].state = s, ![e].tries = @ + 1] \in Futures
           /\ [future EXCEPT ![e] = [state |-> s, tries |-> 1]] \in Futures
<1> DEFINE Future == [state : FutureState, tries : Nat]
<1>1. future[e] \in Future
    BY DEF Futures
<1>2. [future[e] EXCEPT !.state = s] \in Future
    BY <1>1
<1>3. [future[e] EXCEPT !.state = s, !.tries = @ + 1] \in Future
    <2> DEFINE f == [future[e] EXCEPT !.state = s]
               t == future[e].tries + 1
    <2>1. f \in Future /\ t \in Nat
        BY <1>1, <1>2
    <2>2. [future[e] EXCEPT !.state = s, !.tries = @ + 1] = [f EXCEPT !.tries = t]
        OBVIOUS
    <2> HIDE DEF f, t
    <2> QED
        BY <2>1, <2>2
<1>4. [state |-> s, tries |-> 1] \in Future
    OBVIOUS
<1> HIDE DEF Future
<1>5. ASSUME NEW f \in Future PROVE [future EXCEPT ![e] = f] \in Futures
    BY <1>5 DEF Futures, Future
<1> QED
    BY <1>2, <1>3, <1>4, <1>5

LEMMA InitTypes == Init => TypeInv
<1> SUFFICES ASSUME Init PROVE TypeInv
    OBVIOUS
<1>1. producer \in Producers
    BY NewTypes DEF Init, Producers, ProducerAt
<1>2. query \in Queries
    BY DEF Init, Queries
<1>3. step \in Steps
    BY DEF Init, Steps, StepAt
<1> QED
    BY <1>1, <1>2, <1>3, NewTypes DEF Init, TypeInv

LEMMA ProduceTypes ==
    ASSUME TypeInv, Produce
    PROVE  TypeInv'
<1>1. CASE Connect
    <2>1. producer' \in Producers
        BY <1>1, NewTypes DEF Connect, TypeInv, ProducerGoes, Producers, ProducerAt
    <2> QED
        BY <1>1, <2>1 DEF Connect, TypeInv, broker
<1>2. CASE Send
    <2> DEFINE e == count.attempted + 1
    <2>1. count' \in Counts
        BY <1>2, CountTypes DEF Send, TypeInv
    <2>2. e \in Events
        BY <1>2 DEF Send
    <2>3. future' \in Futures
        <3>1. "waiting" \in FutureState /\ future \in Futures
            BY DEF FutureState, TypeInv
        <3> QED
            BY <1>2, <2>2, <3>1, FutureTypes DEF Send
    <2>4. \A request \in wire' : request.event \in Events
        BY <1>2, <2>2 DEF Send, TypeInv, Request
    <2> QED
        BY <1>2, <2>1, <2>3, <2>4 DEF Send, TypeInv
<1>3. CASE FeedEnds
    <2>1. producer' \in Producers
        BY <1>3 DEF FeedEnds, TypeInv, ProducerGoes, Producers, ProducerAt
    <2> QED
        BY <1>3, <2>1 DEF FeedEnds, TypeInv, broker
<1>4. CASE FlushAndClose
    <2>1. producer' \in Producers
        BY <1>4 DEF FlushAndClose, TypeInv, ProducerGoes, Producers, ProducerAt
    <2> QED
        BY <1>4, <2>1 DEF FlushAndClose, TypeInv, broker
<1>5. CASE ReconcileUnconfirmed
    <2>1. producer' \in Producers
        BY <1>5, NewTypes
        DEF ReconcileUnconfirmed, TypeInv, ProducerGoes, Producers, ProducerAt
    <2> QED
        BY <1>5, <2>1, CountTypes DEF ReconcileUnconfirmed, TypeInv, broker
<1>6. CASE Report
    <2>1. producer' \in Producers
        BY <1>6, NewTypes DEF Report, ProducerGoes
    <2>2. report' \in Reports
        BY <1>6 DEF Report, TypeInv, Counts, Reports
    <2> QED
        BY <1>6, <2>1, <2>2 DEF Report, TypeInv, broker
<1>7. ASSUME NEW e \in Events, Retry(e) PROVE TypeInv'
    <2>1. "waiting" \in FutureState /\ future \in Futures
        BY DEF FutureState, TypeInv
    <2>2. future' \in Futures
        BY <1>7, <2>1, FutureTypes DEF Retry
    <2>3. \A request \in wire' : request.event \in Events
        BY <1>7 DEF Retry, TypeInv, Request
    <2> QED
        BY <1>7, <2>2, <2>3 DEF Retry, TypeInv
<1>8. ASSUME NEW e \in Events, GiveUp(e) PROVE TypeInv'
    <2>1. "failed" \in FutureState /\ future \in Futures
        BY DEF FutureState, TypeInv
    <2>2. future' \in Futures
        BY <1>8, <2>1, FutureTypes DEF GiveUp
    <2> QED
        BY <1>8, <2>2, CountTypes DEF GiveUp, TypeInv, broker
<1>9. ASSUME NEW e \in Events, Acknowledge(e) PROVE TypeInv'
    <2>1. "acked" \in FutureState /\ future \in Futures
        BY DEF FutureState, TypeInv
    <2>2. future' \in Futures
        BY <1>9, <2>1, FutureTypes DEF Acknowledge
    <2> QED
        BY <1>9, <2>2, CountTypes DEF Acknowledge, TypeInv, broker
<1> QED
    BY <1>1, <1>2, <1>3, <1>4, <1>5, <1>6, <1>7, <1>8, <1>9 DEF Produce

LEMMA OutsideTypes ==
    ASSUME TypeInv, Outside
    PROVE  TypeInv'
<1>1. ASSUME NEW request \in wire, BrokerAppends(request) PROVE TypeInv'
    <2>1. request.event \in Events /\ log' \in Seq(Events)
        BY <1>1, AppendFacts DEF BrokerAppends, TypeInv
    <2>2. "answered" \in FutureState /\ future \in Futures
        BY DEF FutureState, TypeInv
    <2>3. future' \in Futures
        BY <1>1, <2>1, <2>2, FutureTypes DEF BrokerAppends
    <2> QED
        BY <1>1, <2>1, <2>3 DEF BrokerAppends, TypeInv
<1>2. CASE CommitBatch
    <2>2. query \in Queries /\ Len(log) \in Nat
        BY DEF TypeInv
    <2>1. query' \in Queries
        BY <1>2, <2>2 DEF CommitBatch, Queries
    <2> QED
        BY <1>2, <2>1 DEF CommitBatch, TypeInv, broker, sender
<1>3. CASE QueryFails
    <2>1. query' \in Queries
        BY <1>3 DEF QueryFails, TypeInv, Queries
    <2> QED
        BY <1>3, <2>1 DEF QueryFails, TypeInv, broker, sender
<1> QED
    BY <1>1, <1>2, <1>3 DEF Outside

LEMMA StepTypes ==
    ASSUME TypeInv, Step
    PROVE  TypeInv'
<1> USE DEF broker, sender
<1>1. ASSUME NEW resumes \in BOOLEAN, Start(resumes) PROVE TypeInv'
    <2> DEFINE to == IF resumes THEN "resume offsets" ELSE "fresh offsets"
    <2>2. to \in StepAt /\ step \in Steps
        BY DEF StepAt, TypeInv
    <2>3. step' = [step EXCEPT !.at = to, !.starts = @ + 1, !.ok = TRUE,
                               !.delivery = None, !.terminal = 0]
        BY <1>1 DEF Start
    <2> HIDE DEF to
    <2> DEFINE r == [step EXCEPT !.at = to]
               n == step.starts + 1
    <2>4. r \in Steps /\ n \in Nat
        BY <2>2 DEF Steps
    <2>5. step' = [r EXCEPT !.starts = n, !.ok = TRUE, !.delivery = None, !.terminal = 0]
        BY <2>3
    <2> HIDE DEF r, n
    <2>1. step' \in Steps
        BY <2>4, <2>5 DEF Steps
    <2> QED
        BY <1>1, <2>1 DEF Start, TypeInv
<1>2. CASE ReadStartOffset
    <2>2. PICK to \in {"query", "failed"} :
             step' = [step EXCEPT !.start = Len(log), !.at = to]
        BY <1>2 DEF ReadStartOffset
    <2>5. to \in StepAt
        BY <2>2 DEF StepAt
    <2>3. Len(log) \in Nat /\ step \in Steps /\ to \in StepAt
        BY <2>5 DEF TypeInv
    <2>4. [step EXCEPT !.start = Len(log)] \in Steps
        BY <2>3 DEF Steps
    <2>1. step' \in Steps
        BY <2>2, <2>3, <2>4 DEF Steps
    <2> QED
        BY <1>2, <2>1 DEF ReadStartOffset, TypeInv
<1>3. CASE StartQuery
    <2>1. step' \in Steps
        BY <1>3 DEF StartQuery, Goes, TypeInv, Steps, StepAt
    <2>2. query' \in Queries
        BY <1>3 DEF StartQuery, TypeInv, Queries
    <2> QED
        BY <1>3, <2>1, <2>2 DEF StartQuery, TypeInv
<1>4. CASE Launch
    <2>1. step' \in Steps
        BY <1>4 DEF Launch, Goes, TypeInv, Steps, StepAt
    <2> QED
        BY <1>4, <2>1, NewTypes DEF Launch, TypeInv
<1>5. CASE SetUpFails
    <2>1. step' \in Steps
        BY <1>5 DEF SetUpFails, Fails, TypeInv, Steps, StepAt
    <2> QED
        BY <1>5, <2>1 DEF SetUpFails, TypeInv
<1>6. CASE GiveUpWatch
    <2>1. step' \in Steps
        BY <1>6 DEF GiveUpWatch, Fails, TypeInv, Steps, StepAt
    <2> QED
        BY <1>6, <2>1 DEF GiveUpWatch, TypeInv
<1>7. CASE LoadDelivery
    <2>2. Len(log) \in Nat /\ step \in Steps /\ report \in Reports \cup {None}
        BY DEF TypeInv
    <2>1. step' \in Steps
        BY <1>7, <2>2 DEF LoadDelivery, Steps
    <2> QED
        BY <1>7, <2>1 DEF LoadDelivery, TypeInv
<1>8. CASE Complete
    <2>1. query.reported \in Nat
        BY <1>8 DEF Complete, Drained, TypeInv, Queries
    <2>2. step' \in Steps
        BY <1>8, <2>1 DEF Complete, Fails, TypeInv, Steps, StepAt
    <2> QED
        BY <1>8, <2>2 DEF Complete, TypeInv
<1>9. CASE StopQuery
    <2>1. step' \in Steps
        BY <1>9 DEF StopQuery, Goes, Fails, TypeInv, Steps, StepAt
    <2>2. query' \in Queries
        BY <1>9 DEF StopQuery, TypeInv, Queries
    <2> QED
        BY <1>9, <2>1, <2>2 DEF StopQuery, TypeInv
<1>10. CASE Reap
    <2>1. step' \in Steps
        BY <1>10 DEF Reap, Goes, TypeInv, Steps, StepAt
    <2> QED
        BY <1>10, <2>1, NewTypes DEF Reap, Reaped, TypeInv
<1>11. CASE Confirm
    <2>1. step' \in Steps
        BY <1>11 DEF Confirm, Goes, TypeInv, Steps, StepAt
    <2>3. receipt' # None => receipt'.consumed \in Nat
        BY <1>11 DEF Confirm, TypeInv, Steps
    <2> QED
        BY <1>11, <2>1, <2>3 DEF Confirm, TypeInv
<1>12. CASE Die
    <2>1. step' \in Steps
        BY <1>12 DEF Die, TypeInv, Steps, StepAt
    <2>2. query' \in Queries
        BY <1>12 DEF Die, TypeInv, Queries
    <2> QED
        BY <1>12, <2>1, <2>2, NewTypes DEF Die, Reaped, TypeInv
<1> QED
    BY <1>1, <1>2, <1>3, <1>4, <1>5, <1>6, <1>7, <1>8, <1>9, <1>10, <1>11, <1>12
    DEF Step, Proceed

--------------------------------------------------------------------------------
(* The producer and the step. *)

LEMMA ProducerStep ==
    ASSUME IInv, [Next]_vars
    PROVE  ProducerInv'
<1>1. /\ ProducerInv /\ producer \in Producers /\ step \in Steps /\ query \in Queries
      /\ None # 0
    BY ReplayConstants DEF IInv, TypeInv
<1>2. CASE Produce
    <2>1. step' = step
        BY <1>2
        DEF Produce, Connect, Send, FeedEnds, FlushAndClose, ReconcileUnconfirmed, Report,
            Retry, GiveUp, Acknowledge
    <2>2. CASE producer' = producer
        BY <1>1, <2>1, <2>2 DEF ProducerInv, Alive
    <2>3. ASSUME NEW from \in {"start", "sending", "flush", "reconcile", "report"},
                 producer.at = from,
                 \/ producer' \in Producers /\ producer'.code = producer.code
                 \/ \E code \in {0, 1} : producer' = Exited(code)
          PROVE  ProducerInv'
        <3>1. producer.code = None /\ Alive
            BY <1>1, <2>3 DEF ProducerInv, Alive
        <3>2. step.at = "watch" => step.delivery = None
            BY <1>1, <3>1 DEF ProducerInv
        <3>3. producer'.code # None => producer'.at = "exited"
            BY <1>1, <2>3, <3>1 DEF Exited, NewProducer
        <3> QED
            BY <1>1, <2>1, <3>1, <3>2, <3>3 DEF ProducerInv
    <2>4. CASE Connect
        BY <1>1, <2>3, <2>4 DEF Connect, ProducerGoes, Producers, ProducerAt
    <2>5. CASE FeedEnds
        BY <1>1, <2>3, <2>5 DEF FeedEnds, ProducerGoes, Producers, ProducerAt
    <2>6. CASE FlushAndClose
        BY <1>1, <2>3, <2>6 DEF FlushAndClose, ProducerGoes, Producers, ProducerAt
    <2>7. CASE ReconcileUnconfirmed
        BY <1>1, <2>3, <2>7 DEF ReconcileUnconfirmed, ProducerGoes, Producers, ProducerAt
    <2>8. CASE Report
        BY <1>1, <2>3, <2>8 DEF Report, ProducerGoes
    <2> QED
        BY <1>2, <2>2, <2>4, <2>5, <2>6, <2>7, <2>8
        DEF Produce, Send, Retry, GiveUp, Acknowledge
<1>3. CASE Outside \/ UNCHANGED vars
    <2>1. UNCHANGED <<producer, step>>
        BY <1>3 DEF Outside, BrokerAppends, CommitBatch, QueryFails, sender, vars
    <2> QED
        BY <1>1, <2>1 DEF ProducerInv, Alive
<1>4. CASE Step
    <2> USE <1>1 DEF ProducerInv, Before, sender
    <2>1. ASSUME NEW resumes \in BOOLEAN, Start(resumes) PROVE ProducerInv'
        BY <2>1 DEF Start, Ended, Alive, Steps
    <2>2. CASE ReadStartOffset
        BY <2>2 DEF ReadStartOffset, AtOffsets, Alive, Steps
    <2>3. CASE StartQuery
        BY <2>3 DEF StartQuery, Goes, Alive, Steps
    <2>4. CASE Launch
        BY <2>4 DEF Launch, Goes, NewProducer, Alive, Steps
    <2>5. CASE SetUpFails
        BY <2>5 DEF SetUpFails, AtOffsets, Fails, Alive, Steps
    <2>6. CASE GiveUpWatch
        BY <2>6 DEF GiveUpWatch, Fails, Alive, Steps
    <2>7. CASE LoadDelivery
        BY <2>7 DEF LoadDelivery, Alive, Steps
    <2>8. CASE Complete
        BY <2>8 DEF Complete, Fails, Alive, Steps
    <2>9. CASE StopQuery
        BY <2>9 DEF StopQuery, Goes, Fails, Alive, Steps
    <2>10. CASE Reap
        <3>1. producer'.at \in {"none", "exited"}
              /\ (producer'.code # None => producer'.at = "exited")
            BY <2>10 DEF Reap, Reaped, Exited, NewProducer, Alive
        <3> QED
            BY <2>10, <3>1 DEF Reap, Goes, Alive, Steps
    <2>11. CASE Confirm
        BY <2>11 DEF Confirm, Goes, Alive, Steps
    <2>12. CASE Die
        <3>1. producer'.at \in {"none", "exited"}
              /\ (producer'.code # None => producer'.at = "exited")
            BY <2>12 DEF Die, Reaped, Exited, NewProducer, Alive
        <3> QED
            BY <2>12, <3>1 DEF Die, Alive, Steps
    <2> QED
        BY <1>4, <2>1, <2>2, <2>3, <2>4, <2>5, <2>6, <2>7, <2>8, <2>9, <2>10, <2>11, <2>12
        DEF Step, Proceed
<1> QED
    BY <1>2, <1>3, <1>4 DEF Next

--------------------------------------------------------------------------------
(* The counts and the topic. *)

LEMMA FreshCount ==
    ASSUME count' = NoCount, future' = NewFutures,
           producer'.at \in {"none", "start", "exited"}
    PROVE  CountInv'
<1>1. \A e \in Events : future'[e].state = "none"
    BY DEF NewFutures
<1>2. AckedEvents' = {}
    BY <1>1 DEF AckedEvents
<1>3. Cardinality(AckedEvents') = 0
    BY <1>2, FS_EmptySet
<1> QED
    BY <1>1, <1>3 DEF CountInv, NoCount

LEMMA CountStep ==
    ASSUME IInv, [Next]_vars
    PROVE  CountInv'
<1>1. /\ CountInv /\ TypeInv /\ log \in Seq(Events) /\ future \in Futures /\ count \in Counts
      /\ producer \in Producers
    BY DEF IInv, TypeInv
<1>2. AckedEvents \subseteq Events /\ Cardinality(AckedEvents) \in Nat
    BY MoreEvents DEF AckedEvents
<1>3. CASE Send
    <2> DEFINE e == count.attempted + 1
    <2>1. /\ e \in Events /\ producer.at = "sending" /\ ~count.final
          /\ UNCHANGED <<log, producer>>
        BY <1>1, <1>3 DEF Send, CountInv
    <2>2. future[e].state = "none"
        BY <1>1, <2>1 DEF CountInv, Counts, Events
    <2>3. /\ count'.attempted = e /\ count'.acked = count.acked /\ ~count'.final
          /\ e \in Nat /\ count.attempted \in Nat
        <3> DEFINE c == Attempted(count)
        <3>1. /\ c.attempted = e /\ c.acked = count.acked /\ ~c.final /\ c \in Counts
              /\ e \in Nat /\ count.attempted \in Nat
            BY <1>1, <2>1, CountTypes DEF Attempted, Counts
        <3>2. count' = c \/ count' = Failed(c)
            BY <1>3 DEF Send
        <3> HIDE DEF c
        <3>3. /\ Failed(c).attempted = c.attempted /\ Failed(c).acked = c.acked
              /\ Failed(c).final = c.final
            BY <3>1 DEF Failed, Counts
        <3> HIDE DEF e
        <3> QED
            BY <3>1, <3>2, <3>3
    <2>4. /\ \A x \in Events : x # e => future'[x] = future[x]
          /\ future'[e].state \in {"none", "waiting"}
        BY <1>1, <1>3, <2>1, <2>2 DEF Send, Futures
    <2> HIDE DEF e
    <2>5. AckedEvents' = AckedEvents
        BY <2>2, <2>4 DEF AckedEvents
    <2>6. \A x \in Events : x > count'.attempted => future'[x].state = "none"
        <3> SUFFICES ASSUME NEW x \in Events, x > e PROVE future'[x].state = "none"
            BY <2>3
        <3>1. x # e /\ x > count.attempted
            BY <2>3 DEF e, Events
        <3> QED
            BY <1>1, <2>4, <3>1 DEF CountInv
    <2> QED
        BY <1>1, <2>1, <2>3, <2>4, <2>5, <2>6 DEF CountInv
<1>4. ASSUME NEW e \in Events, Retry(e) PROVE CountInv'
    <2>1. /\ UNCHANGED <<log, producer, count>> /\ future[e].state \in {"waiting", "answered"}
          /\ \A x \in Events : x # e => future'[x] = future[x]
          /\ future'[e].state = "waiting"
        BY <1>1, <1>4 DEF Retry, Waiting, Futures
    <2>2. AckedEvents' = AckedEvents
        BY <2>1 DEF AckedEvents
    <2> QED
        BY <1>1, <2>1, <2>2 DEF CountInv
<1>5. ASSUME NEW e \in Events, GiveUp(e) PROVE CountInv'
    <2>1. /\ UNCHANGED <<log, producer>> /\ future[e].state \in {"waiting", "answered"}
          /\ \A x \in Events : x # e => future'[x] = future[x]
          /\ future'[e].state = "failed"
        BY <1>1, <1>5 DEF GiveUp, Waiting, Futures, broker
    <2>2. AckedEvents' = AckedEvents
        BY <2>1 DEF AckedEvents
    <2>3. /\ count'.attempted = count.attempted /\ count'.acked = count.acked
          /\ count'.final = count.final /\ (count.final => count'.failed = count.failed)
        BY <1>1, <1>5 DEF GiveUp, Failed, Counts
    <2>4. future[e].state # "none"
        BY <2>1
    <2> QED
        BY <1>1, <2>1, <2>2, <2>3, <2>4 DEF CountInv
<1>6. ASSUME NEW e \in Events, Acknowledge(e) PROVE CountInv'
    <2>1. /\ UNCHANGED <<log, producer>> /\ future[e].state = "answered"
          /\ \A x \in Events : x # e => future'[x] = future[x]
          /\ future'[e].state = "acked"
        BY <1>1, <1>6 DEF Acknowledge, Waiting, Futures, broker
    <2>2. AckedEvents' = AckedEvents \cup {e} /\ e \notin AckedEvents
        BY <2>1 DEF AckedEvents
    <2>3. Cardinality(AckedEvents') = Cardinality(AckedEvents) + 1
        BY <1>2, <2>2, OneMoreEvent
    <2>4. /\ count'.attempted = count.attempted /\ count'.failed = count.failed
          /\ count'.acked \in {count.acked, count.acked + 1}
          /\ count'.final = count.final /\ (count.final => count'.acked = count.acked)
        BY <1>1, <1>6 DEF Acknowledge, Acked, Counts
    <2>5. count'.acked <= Cardinality(AckedEvents')
        <3>1. count.acked <= Cardinality(AckedEvents) /\ count.acked \in Nat
            BY <1>1 DEF CountInv, Counts
        <3> QED
            BY <1>2, <2>3, <2>4, <3>1
    <2>6. future[e].state # "none"
        BY <2>1
    <2> QED
        BY <1>1, <2>1, <2>4, <2>5, <2>6 DEF CountInv
<1>7. CASE ReconcileUnconfirmed
    <2>1. /\ UNCHANGED <<log, future>> /\ count' = Closed(count)
          /\ producer'.at \in {"exited", "report"}
        BY <1>1, <1>7
        DEF ReconcileUnconfirmed, ProducerGoes, Exited, NewProducer, broker, Producers
    <2>2. /\ count'.attempted = count.attempted /\ count'.acked = count.acked /\ count'.final
          /\ count'.failed = count.attempted - count.acked
        BY <1>1, <2>1 DEF Closed, Counts
    <2>3. count'.acked + count'.failed = count'.attempted
        BY <1>1, <2>2 DEF Counts
    <2>4. AckedEvents' = AckedEvents
        BY <2>1 DEF AckedEvents
    <2> QED
        BY <1>1, <2>1, <2>2, <2>3, <2>4 DEF CountInv
<1>8. CASE Connect \/ FeedEnds \/ FlushAndClose \/ Report
    <2>1. UNCHANGED <<log, future, count>>
        BY <1>8 DEF Connect, FeedEnds, FlushAndClose, Report, broker
    <2>2. \/ /\ producer.at \in {"start", "sending", "flush"}
             /\ producer'.at \in {"sending", "flush", "reconcile", "exited"}
          \/ producer'.at = "exited"
        BY <1>1, <1>8
        DEF Connect, FeedEnds, FlushAndClose, Report, ProducerGoes, Exited, NewProducer,
            Producers
    <2>3. AckedEvents' = AckedEvents
        BY <2>1 DEF AckedEvents
    <2> QED
        BY <1>1, <2>1, <2>2, <2>3 DEF CountInv
<1>9. ASSUME NEW request \in wire, BrokerAppends(request) PROVE CountInv'
    <2> DEFINE e == request.event
    <2>1. e \in Events /\ UNCHANGED <<producer, count>> /\ ToSet(log') = ToSet(log) \cup {e}
        BY <1>1, <1>9, AppendFacts DEF BrokerAppends, TypeInv
    <2>2. \/ UNCHANGED future
          \/ /\ future[e].state \in {"waiting", "answered"}
             /\ \A x \in Events : x # e => future'[x] = future[x]
             /\ future'[e].state = "answered"
        BY <1>1, <1>9, <2>1 DEF BrokerAppends, Waiting, Futures
    <2> HIDE DEF e
    <2>3. AckedEvents' = AckedEvents
        BY <2>1, <2>2 DEF AckedEvents
    <2>4. \A x \in Events : future'[x].state \in {"answered", "acked"} => x \in ToSet(log')
        BY <1>1, <2>1, <2>2 DEF CountInv
    <2>5. \A x \in Events : x > count'.attempted => future'[x].state = "none"
        <3>1. CASE UNCHANGED future
            BY <1>1, <2>1, <3>1 DEF CountInv
        <3>2. CASE future[e].state \in {"waiting", "answered"}
                   /\ \A x \in Events : x # e => future'[x] = future[x]
            <4>1. future[e].state # "none"
                BY <3>2
            <4> QED
                BY <1>1, <2>1, <3>2, <4>1 DEF CountInv
        <3> QED
            BY <2>2, <3>1, <3>2
    <2> QED
        BY <1>1, <2>1, <2>3, <2>4, <2>5 DEF CountInv
<1>10. CASE Launch \/ Reap \/ Die
    <2>1. count' = NoCount /\ future' = NewFutures
        BY <1>10 DEF Launch, Reap, Die
    <2>2. producer'.at \in {"none", "start", "exited"}
        <3>1. CASE Launch
            BY <3>1 DEF Launch, NewProducer
        <3>2. CASE producer' = Reaped
            BY <3>2 DEF Reaped, Exited, NewProducer, Alive
        <3> QED
            BY <1>10, <3>1, <3>2 DEF Reap, Die
    <2> QED
        BY <2>1, <2>2, FreshCount
<1>11. CASE UNCHANGED <<log, producer, future, count>>
    <2>1. AckedEvents' = AckedEvents
        BY <1>11 DEF AckedEvents
    <2> QED
        BY <1>1, <1>11, <2>1 DEF CountInv
<1> QED
    BY <1>3, <1>4, <1>5, <1>6, <1>7, <1>8, <1>9, <1>10, <1>11
    DEF Next, Produce, Outside, CommitBatch, QueryFails, Step, Proceed, Start,
        ReadStartOffset, StartQuery, SetUpFails, GiveUpWatch, LoadDelivery, Complete,
        StopQuery, Confirm, broker, sender, vars

LEMMA ReportStep ==
    ASSUME IInv, [Next]_vars
    PROVE  ReportTruthful'
<1>1. /\ CountInv /\ ReportTruthful /\ log \in Seq(Events) /\ count \in Counts
      /\ report \in Reports \cup {None}
    BY DEF IInv, TypeInv
<1>2. ToSet(log) \subseteq Events
    BY <1>1 DEF ToSet
<1>3. CASE Report
    <2>1. /\ report' = [attempted |-> count.attempted, acked |-> count.acked,
                        failed |-> count.failed]
          /\ log' = log /\ producer.at = "report"
        BY <1>3 DEF Report, ProducerGoes, broker
    <2>2. AckedEvents \subseteq ToSet(log)
        BY <1>1 DEF CountInv, AckedEvents
    <2>3. /\ Cardinality(AckedEvents) <= Cardinality(ToSet(log))
          /\ Cardinality(AckedEvents) \in Nat /\ Cardinality(ToSet(log)) \in Nat
        BY <1>2, <2>2, MoreEvents
    <2>4. count.acked \in Nat /\ count.acked <= Cardinality(AckedEvents)
        BY <1>1 DEF CountInv, Counts
    <2>5. count.acked + count.failed = count.attempted
        BY <1>1, <2>1 DEF CountInv
    <2> QED
        BY <2>1, <2>3, <2>4, <2>5 DEF ReportTruthful
<1>4. ASSUME NEW request \in wire, BrokerAppends(request) PROVE ReportTruthful'
    <2>1. /\ request.event \in Events /\ report' = report
          /\ ToSet(log') = ToSet(log) \cup {request.event}
        BY <1>1, <1>4, AppendFacts DEF BrokerAppends, TypeInv, IInv
    <2>2. ToSet(log') \subseteq Events /\ ToSet(log) \subseteq ToSet(log')
        BY <1>2, <2>1
    <2>3. /\ Cardinality(ToSet(log)) <= Cardinality(ToSet(log'))
          /\ Cardinality(ToSet(log)) \in Nat /\ Cardinality(ToSet(log')) \in Nat
        BY <2>2, MoreEvents
    <2>4. report # None => report.acked \in Nat
        BY <1>1 DEF Reports
    <2> QED
        BY <1>1, <2>1, <2>3, <2>4 DEF ReportTruthful
<1>5. CASE UNCHANGED <<report, log>>
    BY <1>1, <1>5 DEF ReportTruthful
<1> QED
    BY <1>3, <1>4, <1>5
    DEF Next, Produce, Connect, Send, FeedEnds, FlushAndClose, ReconcileUnconfirmed, Retry,
        GiveUp, Acknowledge, Outside, CommitBatch, QueryFails, Step, Proceed, Start,
        ReadStartOffset, StartQuery, Launch, SetUpFails, GiveUpWatch, LoadDelivery,
        Complete, StopQuery, Reap, Confirm, Die, broker, sender, vars

--------------------------------------------------------------------------------
(* The receipt and the records consumed. *)

LEMMA ExactStep ==
    ASSUME IInv, [Next]_vars
    PROVE  ExactInv'
<1>1. /\ ExactInv /\ ReportTruthful /\ ProducerInv /\ log \in Seq(Events) /\ Len(log) \in Nat
      /\ query \in Queries /\ step \in Steps /\ report \in Reports \cup {None}
    BY DEF IInv, TypeInv
<1>2. /\ query.consumed \in Nat /\ query.reported \in Nat \cup {None} /\ step.terminal \in Nat
      /\ Expected \in Nat
    BY <1>1, ReplayConstants DEF Queries, Steps
<1>3. ASSUME NEW request \in wire, BrokerAppends(request) PROVE ExactInv'
    <2>1. /\ request.event \in Events /\ log' = Append(log, request.event)
          /\ UNCHANGED <<query, step, receipt>>
        BY <1>3 DEF BrokerAppends, IInv, TypeInv
    <2>2. Len(log') = Len(log) + 1
        BY <1>1, <2>1, AppendFacts
    <2>3. \A n \in Nat : n <= Len(log) => SubSeq(log', 1, n) = SubSeq(log, 1, n)
        BY <1>1, <2>1, PrefixKept
    <2>4. Exact => Exact'
        <3> SUFFICES ASSUME Exact PROVE Exact'
            OBVIOUS
        <3>1. Expected <= Len(log) /\ Expected <= Len(log')
            BY <1>1, <1>2, <2>2 DEF Exact
        <3>2. SubSeq(log', 1, Expected) = SubSeq(log, 1, Expected)
            BY <1>2, <2>3, <3>1
        <3> QED
            BY <3>1, <3>2 DEF Exact
    <2>5. query.consumed <= Len(log')
        BY <1>1, <1>2, <2>2 DEF ExactInv
    <2>6. step.at = "watch" /\ step.delivery # None =>
             /\ step.terminal <= Len(log')
             /\ step.delivery.acked <= Cardinality(ToSet(SubSeq(log', 1, step.terminal)))
        <3> SUFFICES ASSUME step.at = "watch", step.delivery # None
                     PROVE  /\ step.terminal <= Len(log')
                            /\ step.delivery.acked
                                 <= Cardinality(ToSet(SubSeq(log', 1, step.terminal)))
            OBVIOUS
        <3>1. /\ step.terminal <= Len(log)
              /\ step.delivery.acked <= Cardinality(ToSet(SubSeq(log, 1, step.terminal)))
            BY <1>1 DEF ExactInv
        <3>2. SubSeq(log', 1, step.terminal) = SubSeq(log, 1, step.terminal)
            BY <1>2, <2>3, <3>1
        <3>3. step.terminal <= Len(log')
            BY <1>1, <1>2, <2>2, <3>1
        <3> QED
            BY <3>1, <3>2, <3>3
    <2> QED
        BY <1>1, <2>1, <2>4, <2>5, <2>6 DEF ExactInv
<1>4. CASE CommitBatch
    <2>1. /\ query'.consumed = Len(log) /\ query'.reported = Len(log)
          /\ UNCHANGED <<log, step, receipt>>
        BY <1>1, <1>4 DEF CommitBatch, Queries, broker
    <2>2. Exact => Expected <= query'.consumed
        BY <2>1 DEF Exact
    <2>3. Exact' = Exact
        BY <2>1 DEF Exact
    <2> QED
        BY <1>1, <2>1, <2>2, <2>3 DEF ExactInv
<1>5. CASE LoadDelivery
    <2>1. /\ step'.at = "watch" /\ step'.delivery = report /\ step'.terminal = Len(log)
          /\ UNCHANGED <<log, query, receipt>>
        BY <1>1, <1>5 DEF LoadDelivery, Steps, broker
    <2>2. SubSeq(log, 1, Len(log)) = log
        BY <1>1, WholePrefix
    <2>3. Exact' = Exact
        BY <2>1 DEF Exact
    <2>4. report # None => report.acked <= Cardinality(ToSet(log))
        BY <1>1 DEF ReportTruthful
    <2>5. step'.at = "watch" /\ step'.delivery # None =>
             /\ step'.terminal <= Len(log')
             /\ step'.delivery.acked <= Cardinality(ToSet(SubSeq(log', 1, step'.terminal)))
        <3>1. SubSeq(log', 1, step'.terminal) = log
            BY <2>1, <2>2
        <3>2. step'.terminal <= Len(log')
            BY <1>1, <2>1
        <3>3. step'.delivery # None => step'.delivery.acked <= Cardinality(ToSet(log))
            BY <2>1, <2>4
        <3> QED
            BY <3>1, <3>2, <3>3
    <2> QED
        BY <1>1, <2>1, <2>3, <2>5 DEF ExactInv
<1>6. CASE Complete
    <2>1. UNCHANGED <<log, query, receipt>>
        BY <1>6 DEF Complete, broker
    <2>2. Exact' = Exact
        BY <2>1 DEF Exact
    <2>3. CASE Reconciles(step.delivery)
        <3>1. /\ step.at = "watch" /\ step.delivery # None /\ query.reported # None
              /\ step.delivery.acked = Expected /\ query.reported = Expected
              /\ step.terminal = Expected
            BY <1>6, <2>3 DEF Complete, Reconciles, Drained
        <3>2. step'.at = "stop" /\ step'.terminal = Expected
            BY <1>1, <1>6, <2>3, <3>1 DEF Complete, Steps
        <3>3. /\ Expected <= Len(log)
              /\ Expected <= Cardinality(ToSet(SubSeq(log, 1, Expected)))
            BY <1>1, <3>1 DEF ExactInv
        <3>4. ToSet(SubSeq(log, 1, Expected)) = Events
            BY <1>1, <1>2, <3>3, SetOfPrefix, AllEvents
        <3>5. Expected <= query.consumed
            BY <1>1, <3>1 DEF ExactInv
        <3> QED
            BY <1>1, <2>1, <2>2, <3>2, <3>3, <3>4, <3>5 DEF ExactInv, Exact
    <2>4. CASE ~Reconciles(step.delivery)
        <3>1. step'.at = "stop" /\ ~step'.ok
            BY <1>1, <1>6, <2>4 DEF Complete, Fails, Steps
        <3> QED
            BY <1>1, <2>1, <2>2, <3>1 DEF ExactInv
    <2> QED
        BY <2>3, <2>4
<1>7. CASE Confirm
    <2>1. UNCHANGED <<log, query>> /\ step.at = "confirm"
        BY <1>7 DEF Confirm, broker
    <2>2. Exact' = Exact
        BY <2>1 DEF Exact
    <2>3. step.terminal = Expected /\ Expected <= query.consumed /\ Exact
        BY <1>1, <2>1 DEF ExactInv
    <2>4. step'.at \in {"completed", "failed"}
        BY <1>1, <1>7 DEF Confirm, Goes, Steps
    <2>5. receipt' = receipt \/ receipt'.consumed = Expected
        BY <1>7, <2>3 DEF Confirm
    <2> QED
        BY <1>1, <2>1, <2>2, <2>3, <2>4, <2>5 DEF ExactInv
<1>8. CASE StartQuery
    <2>1. /\ query'.consumed = query.consumed /\ query'.reported = None
          /\ UNCHANGED <<log, receipt>> /\ step'.at = "launch"
        BY <1>1, <1>8 DEF StartQuery, Goes, Queries, Steps, broker
    <2>2. Exact' = Exact
        BY <2>1 DEF Exact
    <2> QED
        BY <1>1, <2>1, <2>2 DEF ExactInv
<1>9. CASE StopQuery
    <2>1. /\ query'.consumed = query.consumed /\ query'.reported = query.reported
          /\ UNCHANGED <<log, receipt>> /\ step'.terminal = step.terminal
          /\ (step'.at = "confirm" /\ step.at = "stop" /\ step.ok) \/ step'.at = "reap"
        BY <1>1, <1>9 DEF StopQuery, Goes, Fails, Queries, Steps, broker
    <2>2. Exact' = Exact
        BY <2>1 DEF Exact
    <2> QED
        BY <1>1, <2>1, <2>2 DEF ExactInv
<1>10. CASE QueryFails \/ Die
    <2>1. /\ query'.consumed = query.consumed /\ query'.reported = query.reported
          /\ UNCHANGED <<log, receipt>>
          /\ step' = step \/ step'.at = "dead"
        BY <1>1, <1>10 DEF QueryFails, Die, Queries, Steps, broker
    <2>2. Exact' = Exact
        BY <2>1 DEF Exact
    <2> QED
        BY <1>1, <2>1, <2>2 DEF ExactInv
<1>11. ASSUME UNCHANGED <<log, query, receipt>>,
              \/ step'.at \notin {"watch", "stop", "confirm"}
              \/ step'.at = "stop" /\ ~step'.ok
              \/ step'.at = "watch" /\ step'.delivery = None
              \/ step' = step
       PROVE  ExactInv'
    <2>1. Exact' = Exact
        BY <1>11 DEF Exact
    <2> QED
        BY <1>1, <1>11, <2>1 DEF ExactInv
<1>12. CASE Produce \/ UNCHANGED vars
    <2>1. UNCHANGED <<log, query, receipt, step>>
        BY <1>12
        DEF Produce, Connect, Send, FeedEnds, FlushAndClose, ReconcileUnconfirmed, Report,
            Retry, GiveUp, Acknowledge, broker, vars
    <2> QED
        BY <1>11, <2>1
<1>13. ASSUME NEW resumes \in BOOLEAN, Start(resumes) PROVE ExactInv'
    <2>1. step'.at \in {"resume offsets", "fresh offsets"} /\ UNCHANGED <<log, query, receipt>>
        BY <1>1, <1>13 DEF Start, Steps, broker
    <2> QED
        BY <1>11, <2>1
<1>14. CASE ReadStartOffset
    <2>1. step'.at \in {"query", "failed"} /\ UNCHANGED <<log, query, receipt>>
        BY <1>1, <1>14 DEF ReadStartOffset, Steps, broker
    <2> QED
        BY <1>11, <2>1
<1>15. CASE Launch
    <2>1. step'.at = "watch" /\ step'.delivery = None /\ UNCHANGED <<log, query, receipt>>
        BY <1>1, <1>15 DEF Launch, Goes, Steps, broker, ProducerInv, Before
    <2> QED
        BY <1>11, <2>1
<1>16. CASE SetUpFails \/ GiveUpWatch
    <2>1. /\ UNCHANGED <<log, query, receipt>>
          /\ step'.at = "failed" \/ (step'.at = "stop" /\ ~step'.ok)
        BY <1>1, <1>16 DEF SetUpFails, GiveUpWatch, Fails, AtOffsets, Steps, broker
    <2> QED
        BY <1>11, <2>1
<1>17. CASE Reap
    <2>1. step'.at = "failed" /\ UNCHANGED <<log, query, receipt>>
        BY <1>1, <1>17 DEF Reap, Goes, Steps, broker
    <2> QED
        BY <1>11, <2>1
<1> QED
    BY <1>3, <1>4, <1>5, <1>6, <1>7, <1>8, <1>9, <1>10, <1>12, <1>13, <1>14, <1>15,
       <1>16, <1>17
    DEF Next, Outside, Step, Proceed

--------------------------------------------------------------------------------

LEMMA Inductive == Spec => []IInv
<1>1. Init => IInv
    <2> SUFFICES ASSUME Init PROVE IInv
        OBVIOUS
    <2>1. ProducerInv
        BY DEF Init, ProducerInv, NewProducer, Alive
    <2>2. CountInv
        <3>1. AckedEvents = {}
            BY DEF Init, NewFutures, AckedEvents
        <3>2. Cardinality(AckedEvents) = 0
            BY <3>1, FS_EmptySet
        <3> QED
            BY <3>2 DEF Init, CountInv, NewFutures, NoCount, NewProducer
    <2>3. ReportTruthful
        BY DEF Init, ReportTruthful
    <2>4. ExactInv
        BY DEF Init, ExactInv
    <2> QED
        BY <2>1, <2>2, <2>3, <2>4, InitTypes DEF IInv
<1>2. IInv /\ [Next]_vars => IInv'
    <2> SUFFICES ASSUME IInv, [Next]_vars PROVE IInv'
        OBVIOUS
    <2>1. TypeInv'
        <3>1. CASE UNCHANGED vars
            BY <3>1 DEF IInv, TypeInv, vars, broker, sender
        <3> QED
            BY <3>1, ProduceTypes, OutsideTypes, StepTypes DEF IInv, Next
    <2> QED
        BY <2>1, ProducerStep, CountStep, ReportStep, ExactStep DEF IInv
<1> QED
    BY <1>1, <1>2, PTL DEF Spec

(* A completed replay consumed every event of the feed exactly once, for a feed of *)
(* any length and any number of retries, starts and failures: what the producer     *)
(* counts as acknowledged is in the topic, and a topic with as many records as the   *)
(* feed has events, all of them acknowledged, has each one once                    *)
(* (replay.py validate_replay_completion).                                        *)
THEOREM CompletedReplayIsExact == Spec => []CompletedIsExact
<1>1. IInv => CompletedIsExact
    BY DEF IInv, ExactInv, Exact, CompletedIsExact
<1> QED
    BY <1>1, Inductive, PTL

(* The producer's report adds up, and acknowledges no more events than the topic    *)
(* holds, whichever callbacks come after the counts are closed                     *)
(* (producer.py DeliveryAccounting).                                             *)
THEOREM ProducerReportIsTruthful == Spec => []ReportTruthful
<1>1. IInv => ReportTruthful
    BY DEF IInv
<1> QED
    BY <1>1, Inductive, PTL

(* No producer outlives the step that launched it (pipeline_task.py step_replay).    *)
THEOREM NoProducerLeft == Spec => []ProducerReaped
<1>1. IInv => ProducerReaped
    BY DEF IInv, ProducerInv, ProducerReaped, Ended
<1> QED
    BY <1>1, Inductive, PTL
================================================================================
