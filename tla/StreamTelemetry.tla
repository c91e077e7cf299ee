---------------------------- MODULE StreamTelemetry ----------------------------
(***************************************************************************)
(* Completed-batch telemetry of the streaming job.  Three threads share a    *)
(* query: Spark's execution thread runs micro-batches and calls _foreach      *)
(* (src/module3/stream.py), which registers a receipt of the sink's result     *)
(* with the CompletedBatchPublisher and blocks while too many are pending;     *)
(* the progress logger (src/module3/progress_log.py) polls Spark's bounded     *)
(* ring of progress events and publishes each executed batch with its          *)
(* receipt; the owner, run_stream, watches both and shuts them down.           *)
(*                                                                         *)
(* A progress event is [batch, executed]: an idle observation carries the     *)
(* number of the batch to come and has no addBatch duration.  What a batch     *)
(* contains is left out.  One query runs a batch once, so the branch of        *)
(* record_sink_result for a duplicate receipt can not be reached.             *)
(***************************************************************************)
EXTENDS Naturals, Sequences, FiniteSets

CONSTANTS
    MaxBatch,     \* bound of the model: batches the query may execute
    MaxIdle,      \* bound: idle observations posted while a batch is unpublished
    MaxPending,   \* MAX_PENDING_SINK_RESULTS
    Retained      \* progress events Spark keeps (numRecentProgressUpdates)

ASSUME TelemetryConstants ==
    /\ MaxBatch \in Nat /\ MaxIdle \in Nat
    /\ MaxPending \in Nat \ {0} /\ Retained \in Nat \ {0}

(* Spark keeps 100 events and 16 receipts may be pending: this leaves room for  *)
(* 84 idle observations while the logger is behind.  Spark posts one at most    *)
(* every ten seconds, and the logger looks every two.                         *)
ASSUME RoomForPending == MaxPending + MaxIdle <= Retained

VARIABLES
    exec,        \* the execution thread: where it is in a batch, or ended
    batch,       \* the batch it runs or runs next
    idles,       \* idle observations posted while the logger has been behind
    ring,        \* query.recentProgress
    receipts,    \* _sink_results of the publisher: batches with a receipt
    failure,     \* _failure of the publisher
    logger,      \* where the logger thread is
    todo,        \* what is left of the recentProgress it is going through
    final,       \* it is past its loop, in the last _drain
    last,        \* the batch published last, by the logger and the publisher
    published,   \* the snapshots published, in order
    stopEvent,   \* the event that ends the logger's loop
    owner,       \* where run_stream is
    raising      \* it is leaving with an exception

sparkVars == <<exec, batch, idles, ring>>
loggerVars == <<logger, todo, final, last, published>>
ownerVars == <<stopEvent, owner, raising>>
vars == <<exec, batch, idles, ring, receipts, failure, logger, todo, final, last,
          published, stopEvent, owner, raising>>

Batches == 1 .. MaxBatch
Event == [batch : 1 .. MaxBatch + 1, executed : BOOLEAN]

TelemetryTypeOK ==
    /\ exec \in {"idle", "sink", "record", "post", "ended", "broken"}
    /\ batch \in 1 .. MaxBatch + 1
    /\ idles \in 0 .. MaxIdle
    /\ ring \in Seq(Event) /\ Len(ring) <= Retained
    /\ receipts \subseteq Batches /\ Cardinality(receipts) <= MaxPending
    /\ failure \in {"none", "lost", "unmatched", "publication", "logger"}
    /\ logger \in {"wait", "read", "publish", "exited"}
    /\ todo \in Seq(Event) /\ Len(todo) <= Retained
    /\ final \in BOOLEAN
    /\ last \in 0 .. MaxBatch
    /\ published \in Seq(Batches)
    /\ stopEvent \in BOOLEAN
    /\ owner \in {"watching", "stopping", "joining", "returned", "raised"}
    /\ raising \in BOOLEAN

Init ==
    /\ exec = "idle" /\ batch = 1 /\ idles = 0 /\ ring = <<>>
    /\ receipts = {} /\ failure = "none"
    /\ logger = "wait" /\ todo = <<>> /\ final = FALSE /\ last = 0 /\ published = <<>>
    /\ stopEvent = FALSE /\ owner = "watching" /\ raising = FALSE

--------------------------------------------------------------------------------
(* Spark's execution thread. *)

Stopped == owner # "watching"       \* query.stop() has been called

Live == exec \notin {"ended", "broken"}

(* A batch whose progress was posted is not published yet.                    *)
Behind == last + 1 < batch

(* A progress event enters the ring, and the oldest makes room.                *)
Push(event) ==
    IF Len(ring) < Retained THEN Append(ring, event) ELSE Append(Tail(ring), event)

StartBatch ==
    /\ exec = "idle" /\ ~Stopped
    /\ batch <= MaxBatch
    /\ exec' = "sink"
    /\ UNCHANGED <<batch, idles, ring, receipts, failure, loggerVars, ownerVars>>

ObserveIdle ==
    /\ exec = "idle" /\ ~Stopped
    /\ Behind => idles < MaxIdle
    /\ idles' = IF Behind THEN idles + 1 ELSE 0
    /\ ring' = Push([batch |-> batch, executed |-> FALSE])
    /\ UNCHANGED <<exec, batch, receipts, failure, loggerVars, ownerVars>>

(* _foreach_batch: the sinks and the sink log, or an exception from them. *)
SinkWrites ==
    /\ exec = "sink"
    /\ exec' \in {"record", "broken"}
    /\ UNCHANGED <<batch, idles, ring, receipts, failure, loggerVars, ownerVars>>

(* record_sink_result: the receipt is registered, after a wait while           *)
(* MaxPending others are pending.  Mutated: it is registered at once.         *)
Record_NoBackpressure ==
    /\ exec = "record" /\ failure = "none"
    /\ exec' = "post"
    /\ receipts' = receipts \cup {batch}
    /\ UNCHANGED <<batch, idles, ring, failure, loggerVars, ownerVars>>
Record ==
    /\ exec = "record" /\ failure = "none"
    /\ Cardinality(receipts) < MaxPending
    /\ exec' = "post"
    /\ receipts' = receipts \cup {batch}
    /\ UNCHANGED <<batch, idles, ring, failure, loggerVars, ownerVars>>

(* A failed publisher wakes it up: the callback raises and the query ends. *)
RecordRaises ==
    /\ exec = "record" /\ failure # "none"
    /\ exec' = "broken"
    /\ UNCHANGED <<batch, idles, ring, receipts, failure, loggerVars, ownerVars>>

(* addBatch is over: the batch is committed and its progress is posted. *)
PostProgress ==
    /\ exec = "post"
    /\ exec' = "idle"
    /\ ring' = Push([batch |-> batch, executed |-> TRUE])
    /\ batch' = batch + 1
    /\ idles' = IF Behind THEN idles ELSE 0
    /\ UNCHANGED <<receipts, failure, loggerVars, ownerVars>>

(* A stop request ends the thread, between batches or before the commit. *)
ObserveStop ==
    /\ exec \in {"idle", "post"} /\ Stopped
    /\ exec' = "ended"
    /\ UNCHANGED <<batch, idles, ring, receipts, failure, loggerVars, ownerVars>>

SparkNext ==
    \/ StartBatch \/ ObserveIdle \/ SinkWrites
    \/ Record \/ RecordRaises \/ PostProgress \/ ObserveStop

--------------------------------------------------------------------------------
(* The progress logger. *)

(* is_executed_batch.  Mutated: every event with a batch number counts. *)
Executed_AnyProgress(event) == TRUE
Executed(event) == event.executed

(* The poll interval is over or the event is set: which of the two decides     *)
(* whether the next _drain is the last.                                       *)
LoggerWakes ==
    /\ logger = "wait"
    /\ logger' = "read"
    /\ final' = stopEvent
    /\ UNCHANGED <<sparkVars, receipts, failure, todo, last, published, ownerVars>>

LoggerReads ==
    /\ logger = "read"
    /\ logger' = "publish"
    /\ todo' = ring
    /\ UNCHANGED <<sparkVars, receipts, failure, final, last, published, ownerVars>>

Seen(event) == ~Executed(event) \/ event.batch <= last
Gap(event) == last # 0 /\ event.batch # last + 1

LoggerSkips ==
    /\ logger = "publish" /\ todo # <<>>
    /\ Seen(Head(todo))
    /\ todo' = Tail(todo)
    /\ UNCHANGED <<sparkVars, receipts, failure, logger, final, last, published,
                   ownerVars>>

(* The event is paired with its receipt and published. *)
LoggerPublishes ==
    /\ logger = "publish" /\ todo # <<>>
    /\ LET event == Head(todo)
       IN  /\ ~Seen(event) /\ ~Gap(event)
           /\ event.batch \in receipts
           /\ failure = "none"
           /\ last' = event.batch
           /\ receipts' = receipts \ {event.batch}
           /\ published' = Append(published, event.batch)
    /\ todo' = Tail(todo)
    /\ UNCHANGED <<sparkVars, failure, logger, final, ownerVars>>

(* A batch is missing, has no receipt, or could not be logged or published: the *)
(* error is recorded, on_error wakes a blocked callback, and the thread ends.   *)
(* The publication may have taken place.  Mutated: nobody is woken.           *)
Trouble(event) ==
    IF Gap(event) THEN "lost"
    ELSE IF event.batch \notin receipts THEN "unmatched" ELSE "publication"
LoggerFails_NobodyWoken ==
    /\ logger = "publish" /\ todo # <<>> /\ ~Seen(Head(todo))
    /\ logger' = "exited"
    /\ todo' = <<>>
    /\ UNCHANGED <<sparkVars, receipts, failure, final, last, published, ownerVars>>
LoggerFails ==
    /\ logger = "publish" /\ todo # <<>> /\ ~Seen(Head(todo))
    /\ logger' = "exited"
    /\ failure' = Trouble(Head(todo))
    /\ \/ UNCHANGED published
       \/ /\ failure' = "publication"
          /\ published' = Append(published, Head(todo).batch)
    /\ todo' = <<>>
    /\ UNCHANGED <<sparkVars, receipts, final, last, ownerVars>>

(* The log can not be opened, query.recentProgress raises, or the last flush    *)
(* does: the same handling, with no batch at hand.                            *)
LoggerBreaks ==
    /\ \/ logger = "read"
       \/ logger = "publish" /\ todo = <<>> /\ final
    /\ logger' = "exited"
    /\ failure' = "logger"
    /\ todo' = <<>>
    /\ UNCHANGED <<sparkVars, receipts, final, last, published, ownerVars>>

(* The end of a _drain: of the last one, or of one in the loop. *)
LoggerDrained ==
    /\ logger = "publish" /\ todo = <<>>
    /\ logger' = IF final THEN "exited" ELSE "wait"
    /\ UNCHANGED <<sparkVars, receipts, failure, todo, final, last, published, ownerVars>>

LoggerNext ==
    \/ LoggerWakes \/ LoggerReads \/ LoggerSkips \/ LoggerPublishes
    \/ LoggerFails \/ LoggerBreaks \/ LoggerDrained

--------------------------------------------------------------------------------
(* run_stream. *)

(* metrics_errors is not empty: the logger ended on an error. *)
MetricsError == failure # "none"

(* The deadline, a completed replay or an interrupt ends the watch, and so does *)
(* an error of the logger or of the query; whether it ends with an exception    *)
(* depends on which of them the loop meets first, and a replay that missed its  *)
(* deadline always does.  Mutated: the logger is told to finish before the      *)
(* query is stopped.                                                          *)
OwnerStops_LoggerFirst ==
    /\ owner = "watching"
    /\ owner' = "stopping"
    /\ raising' \in BOOLEAN
    /\ stopEvent' = TRUE
    /\ UNCHANGED <<sparkVars, receipts, failure, loggerVars>>
OwnerStops ==
    /\ owner = "watching"
    /\ owner' = "stopping"
    /\ raising' \in BOOLEAN
    /\ UNCHANGED <<sparkVars, receipts, failure, loggerVars, stopEvent>>

(* query.stop() returns when the execution thread has ended. *)
StopReturns ==
    /\ owner = "stopping"
    /\ ~Live
    /\ owner' = "joining"
    /\ stopEvent' = TRUE
    /\ UNCHANGED <<sparkVars, receipts, failure, loggerVars, raising>>

(* It raises instead; the logger is told to finish and joined all the same. *)
StopRaises ==
    /\ owner = "stopping"
    /\ owner' = "joining"
    /\ stopEvent' = TRUE
    /\ raising' = TRUE
    /\ UNCHANGED <<sparkVars, receipts, failure, loggerVars>>

(* The logger has been joined. *)
OwnerEnds ==
    /\ owner = "joining"
    /\ logger = "exited"
    /\ owner' = IF raising \/ MetricsError THEN "raised" ELSE "returned"
    /\ UNCHANGED <<sparkVars, receipts, failure, loggerVars, stopEvent, raising>>

(* Every watching loop polls the query and the logger's errors within a second. *)
OwnerNotices == OwnerStops /\ (MetricsError \/ ~Live)

OwnerNext == OwnerStops \/ StopReturns \/ StopRaises \/ OwnerEnds

Next == SparkNext \/ LoggerNext \/ OwnerNext

Spec == Init /\ [][Next]_vars

(* Each thread keeps running: a batch's sink write and a publication end, in    *)
(* success or failure.  The sinks' client limits only the selection of a server, *)
(* so this presumes that a call to a selected one returns.  The owner stops       *)
(* watching when something failed; nothing else makes it stop, and nothing       *)
(* starts another batch.                                                       *)
FairSpec ==
    /\ Spec
    /\ WF_vars(SinkWrites) /\ WF_vars(Record) /\ WF_vars(RecordRaises)
    /\ WF_vars(PostProgress) /\ WF_vars(ObserveStop)
    /\ WF_vars(LoggerNext)
    /\ WF_vars(OwnerNotices)
    /\ WF_vars(StopReturns) /\ WF_vars(OwnerEnds)

--------------------------------------------------------------------------------
Posted == 1 .. batch - 1

(* "applying backpressure instead of evicting evidence"                        *)
(* (docs/module3-contracts.md:206): while the logger runs, every batch whose     *)
(* progress was posted is published, or still in reach of the logger.          *)
InReach(b) ==
    \/ b <= last
    \/ \E i \in DOMAIN ring : ring[i] = [batch |-> b, executed |-> TRUE]
    \/ \E i \in DOMAIN todo : todo[i] = [batch |-> b, executed |-> TRUE]

NothingEvicted == logger # "exited" => \A b \in Posted : InReach(b)

(* The logger raises no false alarm: what it meets is a failed publication or   *)
(* its own file's or Spark's failure, never a lost batch or a missing receipt,  *)
(* although receipts, progress and idle observations come from another thread. *)
NoFalseAlarm == failure \in {"none", "publication", "logger"}

(* A run that returns normally has published a snapshot of every batch whose    *)
(* progress was posted, once, in order.  It rests on the logger being told to   *)
(* finish only after query.stop() has returned.                               *)
ReturnIsComplete == owner = "returned" => published = [b \in Posted |-> b]

(* Shutdown ends, and a failure of the query or of the logger leads to it:      *)
(* neither query.stop(), which waits for a callback that may be waiting for     *)
(* room among the receipts, nor the join can hang.                            *)
ShutdownEnds ==
    (owner = "stopping" \/ exec = "broken" \/ MetricsError)
        ~> owner \in {"returned", "raised"}
================================================================================
