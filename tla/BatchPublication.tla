--------------------------- MODULE BatchPublication ---------------------------
(***************************************************************************)
(* Publication of one Module 4 generation (src/module4/cli.py, main) and the *)
(* two readers of the active A/B pair: the Hybrid source capture, under the   *)
(* publication lock (src/module4/hybrid/data.py), and the dashboard API's ALS *)
(* reader, which takes no lock (src/module4/dashboard/readers.py).            *)
(*                                                                         *)
(* A generation is one batch run: its model_version and graph_version are     *)
(* derived from its run_id.  A collection holds the snapshot of one run, the  *)
(* one renamed over it last.  Of a snapshot's rows the model keeps what a     *)
(* reader of one user can tell apart: does the run recommend anything to that *)
(* user (Warm), and does the catalog it reads belong to the same run.         *)
(***************************************************************************)
EXTENDS PublicationLock

CONSTANTS
    Writers,     \* batch runs, each published by one process, once
    Captures,    \* Hybrid requests that capture the active sources
    Readers,     \* dashboard API requests for the stored ALS list
    Tasks,       \* what each run publishes: "als", "graph" or both
    Warm,        \* runs whose ALS snapshot has rows for the user read here
    WithTrend,   \* captures that ask the catalog about trend products too
    NoWriter     \* no run

Parts == {"als", "graph"}

ASSUME BatchConstants ==
    /\ Procs = Writers \cup Captures
    /\ Writers \cap Captures = {}
    /\ Tasks \in [Writers -> SUBSET Parts \ {{}}]
    /\ Warm \subseteq Writers
    /\ WithTrend \subseteq Captures
    /\ NoWriter \notin Writers

VARIABLES
    active,      \* active[part]: the run whose snapshot is in the collection
    readiness,   \* the readiness document _id "active"
    pc,          \* where each process is in its publication_lock section
    published,   \* published[w]: parts the run validated after promotion
    capture,     \* what each capture has read and concluded
    api          \* what each API request has read and concluded

dataVars == <<active, readiness, pc, published, capture, api>>
batchVars == <<lock, section, holder, active, readiness, pc, published, capture, api>>

ReadinessDoc ==
    [status : {"absent", "publishing", "ready", "single_snapshot_ready", "failed"},
     run : Writers \cup {NoWriter}, als : BOOLEAN, graph : BOOLEAN]

(* What a reader found: "rows" or "none" for the user's ALS rows; "names",    *)
(* "missing" or "skipped" for the catalog rows of the products it asked for.   *)
ReadRecord ==
    [run : Writers \cup {NoWriter},
     als : {"unread", "rows", "none"},
     catalog : {"unread", "names", "missing", "skipped"},
     at : {"first", "als", "catalog", "recheck", "end"},
     outcome : {"pending", "accepted", "rejected"}]

NothingRead ==
    [run |-> NoWriter, als |-> "unread", catalog |-> "unread",
     at |-> "first", outcome |-> "pending"]

BatchTypeOK ==
    /\ LockTypeOK
    /\ active \in [Parts -> Writers \cup {NoWriter}]
    /\ readiness \in ReadinessDoc
    /\ pc \in [Writers -> {"start", "publishing", "promote", "validate",
                           "report", "failing", "leave", "done"}]
    /\ published \in [Writers -> SUBSET Parts]
    /\ capture \in [Captures -> ReadRecord]
    /\ api \in [Readers -> ReadRecord]

BatchInit ==
    /\ LockInit
    /\ active = [part \in Parts |-> NoWriter]
    /\ readiness = [status |-> "absent", run |-> NoWriter, als |-> FALSE, graph |-> FALSE]
    /\ pc = [w \in Writers |-> "start"]
    /\ published = [w \in Writers |-> {}]
    /\ capture = [c \in Captures |-> NothingRead]
    /\ api = [r \in Readers |-> NothingRead]

--------------------------------------------------------------------------------
(* The batch writer.  Every step inside the section needs a live process.     *)

Step(w, from, to) ==
    /\ Inside(w)
    /\ pc[w] = from
    /\ pc' = [pc EXCEPT ![w] = to]
    /\ UNCHANGED <<lock, section, holder, capture, api>>

ReadinessFor(w, status, parts) ==
    [status |-> status, run |-> w, als |-> "als" \in parts, graph |-> "graph" \in parts]

(* als is published before graph. *)
CurrentPart(w) == IF "als" \in Tasks[w] \ published[w] THEN "als" ELSE "graph"

(* with publication_lock(config, run_id) *)
WriterEnters(w) ==
    /\ pc[w] = "start"
    /\ Acquire(w)
    /\ pc' = [pc EXCEPT ![w] = "publishing"]
    /\ UNCHANGED <<active, readiness, published, capture, api>>

(* The lock is held: the run fails at once, with nothing published. *)
WriterRefused(w) ==
    /\ pc[w] = "start"
    /\ Refused(w)
    /\ pc' = [pc EXCEPT ![w] = "done"]
    /\ UNCHANGED <<active, readiness, published, capture, api>>

(* The gate is closed before either collection is touched.  Mutated: the gate *)
(* is left as the last publication left it.                                   *)
MarkPublishing_GateLeftOpen(w) ==
    /\ Step(w, "publishing", "promote")
    /\ UNCHANGED <<active, readiness, published>>
MarkPublishing(w) ==
    /\ Step(w, "publishing", "promote")
    /\ readiness' = ReadinessFor(w, "publishing", {})
    /\ UNCHANGED <<active, published>>

(* The same call raises, outside the try: the section is left.  The           *)
(* replacement may have been applied before the connection was lost.          *)
MarkPublishingFails(w) ==
    /\ Step(w, "publishing", "leave")
    /\ readiness' \in {readiness, ReadinessFor(w, "publishing", {})}
    /\ UNCHANGED <<active, published>>

(* _write_snapshot: the validated staging collection is renamed over the      *)
(* active one.  Staging is private to the run until then.                     *)
Promote(w) ==
    /\ Step(w, "promote", "validate")
    /\ active' = [active EXCEPT ![CurrentPart(w)] = w]
    /\ UNCHANGED <<readiness, published>>

(* Input checks, staging, its validation or the rename raise.  A rename whose *)
(* acknowledgement is lost has replaced the collection all the same.          *)
PromoteFails(w) ==
    /\ Step(w, "promote", "failing")
    /\ active' \in {active, [active EXCEPT ![CurrentPart(w)] = w]}
    /\ UNCHANGED <<readiness, published>>

(* snapshot_validation of the promoted collection finds the run's rows. *)
Validate(w) ==
    LET parts == published[w] \cup {CurrentPart(w)}
    IN  /\ active[CurrentPart(w)] = w
        /\ Step(w, "validate", IF parts = Tasks[w] THEN "report" ELSE "promote")
        /\ published' = [published EXCEPT ![w] = parts]
        /\ UNCHANGED <<active, readiness>>

(* It does not, or the query raises. *)
ValidateFails(w) ==
    /\ Step(w, "validate", "failing")
    /\ UNCHANGED <<active, readiness, published>>

(* The document of the except clause.  Mutated: it reports what was requested *)
(* instead of what was validated.                                             *)
FailedDoc_Requested(w) == ReadinessFor(w, "failed", Tasks[w])
FailedDoc(w) == ReadinessFor(w, "failed", published[w])

(* The except clause records the partial publication; it may raise as well. *)
RecordFailure(w) ==
    /\ Step(w, "failing", "leave")
    /\ readiness' \in {FailedDoc(w), readiness}
    /\ UNCHANGED <<active, published>>

(* Both parts requested and published open the gate. *)
FinalDoc(w) ==
    ReadinessFor(w, IF published[w] = Parts THEN "ready" ELSE "single_snapshot_ready",
                 published[w])

Report(w) ==
    /\ Step(w, "report", "leave")
    /\ readiness' = FinalDoc(w)
    /\ UNCHANGED <<active, published>>

(* The final update raises, applied or not. *)
ReportFails(w) ==
    /\ Step(w, "report", "leave")
    /\ readiness' \in {readiness, FinalDoc(w)}
    /\ UNCHANGED <<active, published>>

WriterLeaves(w) ==
    /\ pc[w] = "leave"
    /\ Release(w)
    /\ pc' = [pc EXCEPT ![w] = "done"]
    /\ UNCHANGED <<active, readiness, published, capture, api>>

--------------------------------------------------------------------------------
(* Reads of the active pair, shared by both readers. *)

(* readiness_identity and _active_als_identity accept the document. *)
PairReady(doc) == doc.status = "ready" /\ doc.als /\ doc.graph

(* The rows found by a query on the identity's versions and run_id. *)
AlsFound(run) == IF active["als"] = run /\ run \in Warm THEN "rows" ELSE "none"
CatalogFound(run) == IF active["graph"] = run THEN "names" ELSE "missing"

(* The Hybrid source capture. *)
CaptureStep(c, record) ==
    /\ Inside(c)
    /\ capture' = [capture EXCEPT ![c] = record]
    /\ UNCHANGED <<lock, section, holder, active, readiness, pc, published, api>>

CaptureEnters(c) ==
    /\ capture[c].at = "first"
    /\ Acquire(c)
    /\ UNCHANGED dataVars

CaptureRefused(c) ==
    /\ capture[c].at = "first"
    /\ Refused(c)
    /\ capture' = [capture EXCEPT ![c].at = "end", ![c].outcome = "rejected"]
    /\ UNCHANGED <<active, readiness, pc, published, api>>

Rejected(record) == [record EXCEPT !.at = "end", !.outcome = "rejected"]

CaptureIdentity(c) ==
    /\ capture[c].at = "first"
    /\ CaptureStep(c, IF PairReady(readiness)
                      THEN [capture[c] EXCEPT !.run = readiness.run, !.at = "als"]
                      ELSE Rejected(capture[c]))

CaptureAls(c) ==
    /\ capture[c].at = "als"
    /\ CaptureStep(c, [capture[c] EXCEPT !.als = AlsFound(capture[c].run),
                                         !.at = "catalog"])

(* Products asked for: those of the ALS rows and the trend's.  An ALS product *)
(* without metadata is an error; a trend product without it is only reported. *)
CaptureCatalog(c) ==
    LET run == capture[c].run
        rows == capture[c].als = "rows"
        asked == rows \/ c \in WithTrend
    IN  /\ capture[c].at = "catalog"
        /\ CaptureStep(c,
             IF ~asked THEN [capture[c] EXCEPT !.catalog = "skipped", !.at = "recheck"]
             ELSE IF rows /\ CatalogFound(run) = "missing" THEN Rejected(capture[c])
             ELSE [capture[c] EXCEPT !.catalog = CatalogFound(run), !.at = "recheck"])

(* The identity is read again and compared. *)
CaptureConfirm(c) ==
    /\ capture[c].at = "recheck"
    /\ CaptureStep(c, IF PairReady(readiness) /\ readiness.run = capture[c].run
                      THEN [capture[c] EXCEPT !.at = "end"]
                      ELSE Rejected(capture[c]))

(* A query raises. *)
CaptureFails(c) ==
    /\ capture[c].at \in {"first", "als", "catalog", "recheck"}
    /\ CaptureStep(c, Rejected(capture[c]))

(* The section ends; a capture that was confirmed is returned unless the lock *)
(* turns out to have been lost.                                               *)
CaptureLeaves(c) ==
    /\ capture[c].at = "end"
    /\ Release(c)
    /\ capture' = [capture EXCEPT ![c].outcome =
                       IF @ = "rejected" \/ OwnershipLost(c) THEN "rejected" ELSE "accepted"]
    /\ UNCHANGED <<active, readiness, pc, published, api>>

--------------------------------------------------------------------------------
(* The dashboard's read_als_snapshot takes no lock. *)
ApiStep(r, record) ==
    /\ api' = [api EXCEPT ![r] = record]
    /\ UNCHANGED <<lock, section, holder, active, readiness, pc, published, capture>>

ApiIdentity(r) ==
    /\ api[r].at = "first"
    /\ ApiStep(r, IF PairReady(readiness)
                  THEN [api[r] EXCEPT !.run = readiness.run, !.at = "als"]
                  ELSE Rejected(api[r]))

ApiRows(r) ==
    /\ api[r].at = "als"
    /\ ApiStep(r, [api[r] EXCEPT !.als = AlsFound(api[r].run), !.at = "catalog"])

(* Names are looked up for the rows found; a product without one is served *)
(* with a null name.                                                        *)
ApiCatalog(r) ==
    /\ api[r].at = "catalog"
    /\ ApiStep(r, [api[r] EXCEPT !.at = "recheck",
                     !.catalog = IF api[r].als = "rows" THEN CatalogFound(api[r].run)
                                                        ELSE "skipped"])

(* The mutated form answers without the second look at the identity. *)
ApiRecheck_Skipped(r) ==
    /\ api[r].at = "recheck"
    /\ ApiStep(r, [api[r] EXCEPT !.at = "end", !.outcome = "accepted"])
ApiRecheck(r) ==
    /\ api[r].at = "recheck"
    /\ ApiStep(r, IF PairReady(readiness) /\ readiness.run = api[r].run
                  THEN [api[r] EXCEPT !.at = "end", !.outcome = "accepted"]
                  ELSE Rejected(api[r]))

--------------------------------------------------------------------------------
DieInSection(p) == Die(p) /\ UNCHANGED dataVars

ClockTicks == Tick /\ UNCHANGED dataVars

WriterNext(w) ==
    \/ WriterEnters(w) \/ WriterRefused(w)
    \/ MarkPublishing(w) \/ MarkPublishingFails(w)
    \/ Promote(w) \/ PromoteFails(w)
    \/ Validate(w) \/ ValidateFails(w)
    \/ RecordFailure(w)
    \/ Report(w) \/ ReportFails(w)
    \/ WriterLeaves(w)

CaptureNext(c) ==
    \/ CaptureEnters(c) \/ CaptureRefused(c)
    \/ CaptureIdentity(c) \/ CaptureAls(c) \/ CaptureCatalog(c) \/ CaptureConfirm(c)
    \/ CaptureFails(c) \/ CaptureLeaves(c)

ApiNext(r) == ApiIdentity(r) \/ ApiRows(r) \/ ApiCatalog(r) \/ ApiRecheck(r)

BatchNext ==
    \/ \E w \in Writers : WriterNext(w)
    \/ \E c \in Captures : CaptureNext(c)
    \/ \E r \in Readers : ApiNext(r)
    \/ \E p \in Procs : DieInSection(p)
    \/ ClockTicks

BatchSpec == BatchInit /\ [][BatchNext]_batchVars

--------------------------------------------------------------------------------
(* The readiness document never claims more than the collections hold: a part *)
(* it calls published is the named run's snapshot, and "ready" means both      *)
(* are.  Crashes, lost acknowledgements and failed updates included.          *)
ReadinessTruthful ==
    /\ readiness.als => active["als"] = readiness.run
    /\ readiness.graph => active["graph"] = readiness.run
    /\ readiness.status = "ready" => readiness.als /\ readiness.graph

(* "Write the consumer gate only after both versioned snapshots are checked"    *)
(* (src/module4/sink_mongo.py:259): whenever the gate says "ready", both        *)
(* collections hold the snapshots of the run it names.  This is what readers   *)
(* take "ready" for; it rests on RespectLease as well.                         *)
ReadyPairIsWhole ==
    readiness.status = "ready" => \A part \in Parts : active[part] = readiness.run

(* A capture that is returned describes one generation: the user's ALS rows    *)
(* are there exactly when that generation has some, and no product was looked  *)
(* up in another generation's catalog.                                        *)
Faithful(record) ==
    record.outcome = "accepted" =>
        /\ record.als = "rows" <=> record.run \in Warm
        /\ record.catalog # "missing"

CaptureFaithful == \A c \in Captures : Faithful(capture[c])

(* So does an answer of the API, which reads the pair without the lock and     *)
(* relies on the two looks at the identity only.                              *)
ApiAnswerFaithful == \A r \in Readers : Faithful(api[r])

(* The readiness document implements the register of ServingPair. *)
Offered == IF readiness.status = "ready" THEN readiness.run ELSE NoWriter
Retired == {w \in Writers : pc[w] \in {"leave", "done"}}

Serving == INSTANCE ServingPair WITH
            Generations <- Writers, None <- NoWriter,
            offered <- Offered, retired <- Retired

(* Generations are offered one at a time, never exchanged without a closed     *)
(* gate in between, and never offered again.                                  *)
ImplementsServingPair == Serving!Spec
================================================================================
