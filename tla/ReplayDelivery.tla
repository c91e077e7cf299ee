----------------------------- MODULE ReplayDelivery -----------------------------
(***************************************************************************)
(* The replay step of the pipeline (pipeline_task.py step_replay): a producer   *)
(* process (module1/producer.py) sends the feed to a topic of the run while the  *)
(* step watches a streaming query consume it, until replay.py finds that what    *)
(* was sent, what the topic holds and what was consumed agree.                 *)
(*                                                                         *)
(* The producer is not idempotent: a request whose answer is lost is sent again  *)
(* and both may be appended, the first even after its process has ended.         *)
(* The answers come in a thread of their own, also while the counts are closed.  *)
(* A step that failed may be started again with the topic, the checkpoint and    *)
(* the files of the last start.                                               *)
(*                                                                         *)
(* The topic has one partition, so that an offset is a number of records.  What  *)
(* run_stream does besides watching is in StreamTelemetry.                     *)
(***************************************************************************)
EXTENDS Integers, FiniteSets, Sequences, SequencesExt

CONSTANTS
    Expected,     \* the number of events of the feed
    MaxTries,     \* bound: requests for one event (1 + KAFKA_RETRIES)
    MaxStarts,    \* bound: starts of the step
    MaxFaults,    \* bound: failures of any kind
    None

Events == 1..Expected

ASSUME ReplayConstants ==
    Expected \in Nat \ {0} /\ MaxTries \in Nat /\ MaxStarts \in Nat /\ None # 0

VARIABLES
    log,          \* the records of the topic
    wire,         \* requests on their way to the broker
    producer,     \* the producer process: [at, crashed, errors, code]
    future,       \* what its client knows of each event: [state, tries]
    count,        \* DeliveryAccounting
    report,       \* producer-receipt.json
    query,        \* the streaming query: [active, consumed, reported]
    step,         \* the step: [at, starts, start, delivery, terminal, ok]
    receipt,      \* replay-receipt.json
    faults

broker == <<log, wire>>
sender == <<producer, future, count, report>>
vars == <<broker, sender, query, step, receipt, faults>>

Fault == faults > 0 /\ faults' = faults - 1

--------------------------------------------------------------------------------
(* DeliveryAccounting.  Once it is closed, late callbacks do not count.            *)

NoCount == [attempted |-> 0, acked |-> 0, failed |-> 0, final |-> FALSE]
Attempted(c) == [c EXCEPT !.attempted = @ + 1]
(* Mutated: late callbacks count too.                                          *)
Acked_Late(c) == [c EXCEPT !.acked = @ + 1]
Acked(c) == IF c.final THEN c ELSE [c EXCEPT !.acked = @ + 1]
Failed(c) == IF c.final THEN c ELSE [c EXCEPT !.failed = @ + 1]
Closed(c) == [c EXCEPT !.final = TRUE, !.failed = c.attempted - c.acked]

--------------------------------------------------------------------------------
(* The producer process.                                                      *)

Alive == producer.at \notin {"none", "exited"}
ProducerGoes(from, record) == producer.at = from /\ producer' = record
NewProducer == [at |-> "start", crashed |-> FALSE, errors |-> FALSE, code |-> None]
NewFutures == [e \in Events |-> [state |-> "none", tries |-> 0]]
Exited(code) == [NewProducer EXCEPT !.at = "exited", !.code = code]
Request(e, try) == [by |-> step.starts, event |-> e, try |-> try]
Waiting(e) == Alive /\ future[e].state \in {"waiting", "answered"}

Connect ==
    /\ \/ ProducerGoes("start", [producer EXCEPT !.at = "sending"]) /\ UNCHANGED faults
       \/ ProducerGoes("start", Exited(1)) /\ Fault
    /\ UNCHANGED <<broker, future, count, report, query, step, receipt>>

(* send_tracked: the event is handed to the client, or send() raises.             *)
Send ==
    LET e == count.attempted + 1 IN
    /\ producer.at = "sending" /\ e \in Events
    /\ \/ /\ future' = [future EXCEPT ![e] = [state |-> "waiting", tries |-> 1]]
          /\ wire' = wire \cup {Request(e, 1)}
          /\ count' = Attempted(count)
          /\ UNCHANGED faults
       \/ /\ Fault /\ count' = Failed(Attempted(count))
          /\ UNCHANGED <<future, wire>>
    /\ UNCHANGED <<log, producer, report, query, step, receipt>>

(* The feed ends, or cannot be read on: then the client is flushed all the same.  *)
FeedEnds ==
    /\ \/ /\ count.attempted = Expected
          /\ ProducerGoes("sending", [producer EXCEPT !.at = "flush"])
          /\ UNCHANGED faults
       \/ /\ ProducerGoes("sending", [producer EXCEPT !.at = "flush", !.crashed = TRUE])
          /\ Fault
    /\ UNCHANGED <<broker, future, count, report, query, step, receipt>>

(* The client's own thread: a request is sent again, or given up, or answered.    *)
Retry(e) ==
    /\ Waiting(e) /\ future[e].tries < MaxTries /\ Fault
    /\ future' = [future EXCEPT ![e].state = "waiting", ![e].tries = @ + 1]
    /\ wire' = wire \cup {Request(e, future[e].tries + 1)}
    /\ UNCHANGED <<log, producer, count, report, query, step, receipt>>

GiveUp(e) ==
    /\ Waiting(e) /\ Fault
    /\ future' = [future EXCEPT ![e].state = "failed"]
    /\ count' = Failed(count)
    /\ UNCHANGED <<broker, producer, report, query, step, receipt>>

Acknowledge(e) ==
    /\ Waiting(e) /\ future[e].state = "answered"
    /\ future' = [future EXCEPT ![e].state = "acked"]
    /\ count' = Acked(count)
    /\ UNCHANGED <<broker, producer, report, query, step, receipt, faults>>

(* flush and close wait for every answer, or one of them runs into its timeout.     *)
FlushAndClose ==
    /\ \/ /\ \A e \in Events : ~Waiting(e)
          /\ ProducerGoes("flush", [producer EXCEPT !.at = "reconcile"]) /\ UNCHANGED faults
       \/ /\ ProducerGoes("flush", [producer EXCEPT !.at = "reconcile", !.errors = TRUE])
          /\ Fault
    /\ UNCHANGED <<broker, future, count, report, query, step, receipt>>

ReconcileUnconfirmed ==
    /\ ProducerGoes("reconcile", IF producer.crashed THEN Exited(1)
                                 ELSE [producer EXCEPT !.at = "report"])
    /\ count' = Closed(count)
    /\ UNCHANGED <<broker, future, report, query, step, receipt, faults>>

Report ==
    /\ ProducerGoes("report", Exited(IF count.failed > 0 \/ producer.errors THEN 1 ELSE 0))
    /\ report' = [attempted |-> count.attempted, acked |-> count.acked,
                  failed |-> count.failed]
    /\ UNCHANGED <<broker, future, count, query, step, receipt, faults>>

Produce == \/ Connect \/ Send \/ FeedEnds \/ FlushAndClose
           \/ ReconcileUnconfirmed \/ Report
           \/ \E e \in Events : Retry(e) \/ GiveUp(e) \/ Acknowledge(e)

--------------------------------------------------------------------------------
(* The broker appends what arrives.  Its answer reaches the client if that still    *)
(* waits for this request; it may be late, or never be handled.                   *)
BrokerAppends(request) ==
    LET e == request.event IN
    /\ request \in wire
    /\ wire' = wire \ {request}
    /\ log' = Append(log, e)
    /\ IF Waiting(e) /\ request = Request(e, future[e].tries)
       THEN future' = [future EXCEPT ![e].state = "answered"]
       ELSE UNCHANGED future
    /\ UNCHANGED <<producer, count, report, query, step, receipt, faults>>

(* The query commits a batch and posts its progress; an idle one posts it too.     *)
CommitBatch ==
    /\ query.active
    /\ query' = [query EXCEPT !.consumed = Len(log), !.reported = Len(log)]
    /\ UNCHANGED <<broker, sender, step, receipt, faults>>

QueryFails ==
    /\ query.active /\ Fault
    /\ query' = [query EXCEPT !.active = FALSE]
    /\ UNCHANGED <<broker, sender, step, receipt>>

Outside == \/ \E request \in wire : BrokerAppends(request)
           \/ CommitBatch \/ QueryFails

--------------------------------------------------------------------------------
(* The step.                                                                  *)

Ended == {"completed", "failed", "dead"}
Goes(from, to) == step.at = from /\ step' = [step EXCEPT !.at = to]
Fails(from, to) == step.at = from /\ step' = [step EXCEPT !.at = to, !.ok = FALSE]

(* The policy may allow to resume: then a completed receipt is handed out again,    *)
(* and the topic need not be empty.                                            *)
Start(resumes) ==
    /\ step.at \in Ended \cup {"idle"} /\ step.starts < MaxStarts
    /\ ~(resumes /\ receipt # None)
    /\ step' = [step EXCEPT !.at = IF resumes THEN "resume offsets" ELSE "fresh offsets",
                            !.starts = @ + 1, !.ok = TRUE,
                            !.delivery = None, !.terminal = 0]
    /\ UNCHANGED <<broker, sender, query, receipt, faults>>

(* The topic is there, and where it ends now.                                   *)
AtOffsets == step.at \in {"resume offsets", "fresh offsets"}
ReadStartOffset ==
    /\ AtOffsets
    /\ step' = [step EXCEPT !.start = Len(log),
                            !.at = IF step.at = "resume offsets" \/ Len(log) = 0
                                   THEN "query" ELSE "failed"]
    /\ UNCHANGED <<broker, sender, query, receipt, faults>>

StartQuery ==
    /\ Goes("query", "launch")
    /\ query' = [query EXCEPT !.active = TRUE, !.reported = None]
    /\ UNCHANGED <<broker, sender, receipt, faults>>

Launch ==
    /\ Goes("launch", "watch")
    /\ producer' = NewProducer /\ future' = NewFutures /\ count' = NoCount
    /\ UNCHANGED <<broker, report, query, receipt, faults>>

(* A call of these steps raises.                                               *)
SetUpFails ==
    /\ (AtOffsets /\ Fails(step.at, "failed")) \/ Fails("query", "failed") \/ Fails("launch", "stop")
    /\ Fault
    /\ UNCHANGED <<broker, sender, query, receipt>>

(* wait_for_replay, each time it looks: the query has stopped, the deadline has    *)
(* passed, the producer has failed.  Mutated: there is no deadline.              *)
WatchEnds_NoDeadline == ~query.active \/ producer.code \notin {None, 0}
WatchEnds == TRUE
GiveUpWatch ==
    /\ WatchEnds
    /\ Fails("watch", "stop")
    /\ UNCHANGED <<broker, sender, query, receipt, faults>>

(* The producer has succeeded: its report and the topic's end are read once.      *)
LoadDelivery ==
    /\ step.at = "watch" /\ producer.code = 0 /\ step.delivery = None
    /\ step' = [step EXCEPT !.delivery = report, !.terminal = Len(log)]
    /\ UNCHANGED <<broker, sender, query, receipt, faults>>

Drained == query.reported # None /\ query.reported >= step.terminal

(* validate_replay_completion.  Mutated: the producer's counts are enough.        *)
Reconciles_Delivered(d) ==
    d.attempted = Expected /\ d.acked = Expected /\ d.failed = 0
Reconciles(d) ==
    /\ d.attempted = Expected /\ d.acked = Expected /\ d.failed = 0
    /\ step.start = 0 /\ query.reported = step.terminal /\ step.terminal = Expected

Complete ==
    /\ step.at = "watch" /\ query.active /\ step.delivery # None /\ Drained
    /\ IF Reconciles(step.delivery)
       THEN step' = [step EXCEPT !.at = "stop", !.terminal = query.reported]
       ELSE Fails("watch", "stop")
    /\ UNCHANGED <<broker, sender, query, receipt, faults>>

(* run_stream's finally clause; what the logger found is raised after it.          *)
StopQuery ==
    /\ \/ Goes("stop", IF step.ok THEN "confirm" ELSE "reap") /\ UNCHANGED faults
       \/ Fails("stop", "reap") /\ Fault
    /\ query' = [query EXCEPT !.active = FALSE]
    /\ UNCHANGED <<broker, sender, receipt>>

(* The except clause: a producer that still runs is terminated, or killed.
   Mutated: it is left alone.                                                 *)
Reaped_LeftAlone == producer
Reaped == IF Alive THEN Exited(0 - 1) ELSE producer
Reap ==
    /\ Goes("reap", "failed")
    /\ producer' = Reaped /\ future' = NewFutures /\ count' = NoCount
    /\ UNCHANGED <<broker, report, query, receipt, faults>>

(* The report on disk is read once more, and the receipt is written.             *)
Confirm ==
    /\ step.at = "confirm"
    /\ IF report.failed = 0 /\ report.acked = report.attempted
       THEN /\ Goes("confirm", "completed")
            /\ receipt' = [consumed |-> step.terminal, acked |-> report.acked]
       ELSE Goes("confirm", "failed") /\ UNCHANGED receipt
    /\ UNCHANGED <<broker, sender, query, faults>>

(* The container dies, and with it the producer and the query.                    *)
Die ==
    /\ step.at \notin Ended \cup {"idle"} /\ Fault
    /\ step' = [step EXCEPT !.at = "dead"]
    /\ producer' = Reaped /\ future' = NewFutures /\ count' = NoCount
    /\ query' = [query EXCEPT !.active = FALSE]
    /\ UNCHANGED <<broker, report, receipt>>

Proceed == \/ ReadStartOffset \/ StartQuery \/ Launch
           \/ GiveUpWatch \/ LoadDelivery \/ Complete
           \/ StopQuery \/ Reap \/ Confirm
Step == (\E resumes \in BOOLEAN : Start(resumes)) \/ Proceed \/ SetUpFails \/ Die

--------------------------------------------------------------------------------
Init ==
    /\ log = <<>> /\ wire = {}
    /\ producer = [NewProducer EXCEPT !.at = "none"] /\ future = NewFutures
    /\ count = NoCount /\ report = None
    /\ query = [active |-> FALSE, consumed |-> 0, reported |-> None]
    /\ step = [at |-> "idle", starts |-> 0, start |-> 0,
               delivery |-> None, terminal |-> 0, ok |-> TRUE]
    /\ receipt = None
    /\ faults = MaxFaults

Next == Produce \/ Outside \/ Step

Spec == Init /\ [][Next]_vars

(* The step is one thread that goes on while it is not stopped; the deadline of    *)
(* the watch is a fixed one.  Nothing is assumed of the producer, the broker or    *)
(* the query, but that query.stop() returns.                                    *)
FairSpec == Spec /\ WF_vars(Proceed)

--------------------------------------------------------------------------------
(* Properties.                                                              *)

(* A completed replay delivered every event of the feed exactly once: the records  *)
(* it reports as consumed are the events, each one once, whatever was sent twice,   *)
(* answered late or left by an earlier start (replay.py validate_replay_completion, *)
(* ReplayCompletion).                                                         *)
CompletedIsExact ==
    receipt # None =>
        /\ receipt.consumed = Expected /\ receipt.consumed <= query.consumed
        /\ ToSet(SubSeq(log, 1, receipt.consumed)) = Events

(* The producer's report counts every attempt once, and as acknowledged only what  *)
(* the topic holds, although callbacks may still run while it is written           *)
(* (producer.py DeliveryAccounting).                                           *)
ReportTruthful ==
    report # None => /\ report.acked + report.failed = report.attempted
                     /\ report.acked <= Cardinality(ToSet(log))

(* No producer goes on sending to the topic of a step that has ended.             *)
ProducerReaped == step.at \in Ended => ~Alive

(* The step ends, if nothing it waits for ever does (replay.py wait_for_replay).    *)
StepEnds == AtOffsets ~> step.at \in Ended
================================================================================
