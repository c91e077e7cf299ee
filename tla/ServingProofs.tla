----------------------------- MODULE ServingProofs -----------------------------
(***************************************************************************)
(* From the publication of a generation to the page that shows it: proofs     *)
(* about BatchPublication and about DashboardSession, for every set of runs,   *)
(* captures, requests and clicks.  What the first proves of the readiness       *)
(* document, that it implements ServingPair, is what the second assumes of it.  *)
(*                                                                         *)
(* The publication rests on one inductive invariant (BatchInv): while a run is  *)
(* between its "publishing" and its final readiness update, the gate is closed  *)
(* in its name; a capture that holds the lock sees the gate stay as it found    *)
(* it; and an API request that still finds its first identity at the recheck    *)
(* has read what that identity's collections held all along, because a run      *)
(* that was ready once can not become ready again.                            *)
(*                                                                         *)
(* The session rests on another (SessionInv, in the second half of the module).       *)
(***************************************************************************)
EXTENDS BatchPublication, PublicationLockProofs, DashboardSession,
        SequenceTheorems, FiniteSetTheorems, TLAPS

Working(w) == Inside(w) /\ pc[w] \in {"promote", "validate", "report", "failing"}
Finished(w) == pc[w] \in {"leave", "done"}

(* What a run has validated is its own, and is still in place while the run   *)
(* holds the lock with the gate closed.                                       *)
WriterInv(w) ==
    /\ Inside(w) => pc[w] \notin {"start", "done"}
    /\ pc[w] \in {"start", "publishing"} => published[w] = {}
    /\ Working(w) =>
           /\ readiness = ReadinessFor(w, "publishing", {})
           /\ \A part \in published[w] : active[part] = w

(* The gate still names the run a reader found when it started. *)
SameOffer(record) == PairReady(readiness) /\ readiness.run = record.run

(* What the reader has seen so far is what that run's collections hold. *)
ReadsFaithful(record) ==
    /\ record.at \in {"catalog", "recheck", "end"} =>
           (record.als = "rows" <=> record.run \in Warm)
    /\ record.at \in {"recheck", "end"} => record.catalog # "missing"

CaptureInv(c) ==
    /\ Faithful(capture[c])
    /\ capture[c].at # "end" => capture[c].outcome = "pending"
    /\ Inside(c) /\ capture[c].outcome = "pending" /\ capture[c].at # "first" =>
           SameOffer(capture[c]) /\ ReadsFaithful(capture[c])

ApiInv(r) ==
    /\ Faithful(api[r])
    /\ api[r].at # "end" => api[r].outcome = "pending"
    /\ api[r].outcome = "pending" /\ api[r].at # "first" =>
           /\ api[r].run \in Writers
           /\ Finished(api[r].run)
           /\ SameOffer(api[r]) => ReadsFaithful(api[r])

OfferInv ==
    readiness.status = "ready" => readiness.run \in Writers /\ Finished(readiness.run)

ReadInv ==
    /\ ReadinessTruthful
    /\ OfferInv
    /\ \A w \in Writers : WriterInv(w)
    /\ \A c \in Captures : CaptureInv(c)
    /\ \A r \in Readers : ApiInv(r)

BatchInv == BatchTypeOK /\ LockInv /\ ReadInv

--------------------------------------------------------------------------------
(* A step of the batch system is a step of the lock, or leaves it alone. *)
LEMMA BatchLockStep == [BatchNext]_batchVars => [LockNext]_lockVars
<1> SUFFICES ASSUME [BatchNext]_batchVars PROVE [LockNext]_lockVars
  OBVIOUS
<1> USE BatchConstants DEF lockVars
<1>1. ASSUME NEW w \in Writers, WriterNext(w) PROVE [LockNext]_lockVars
  <2>1. CASE WriterEnters(w)
    BY <2>1 DEF WriterEnters, LockNext
  <2>2. CASE WriterRefused(w)
    BY <2>2 DEF WriterRefused, LockNext
  <2>3. CASE WriterLeaves(w)
    BY <2>3 DEF WriterLeaves, LockNext
  <2> QED
    BY <1>1, <2>1, <2>2, <2>3
    DEF WriterNext, MarkPublishing, MarkPublishingFails, Promote, PromoteFails,
        Validate, ValidateFails, RecordFailure, Report, ReportFails, Step
<1>2. ASSUME NEW c \in Captures, CaptureNext(c) PROVE [LockNext]_lockVars
  <2>1. CASE CaptureEnters(c)
    BY <2>1 DEF CaptureEnters, LockNext
  <2>2. CASE CaptureRefused(c)
    BY <2>2 DEF CaptureRefused, LockNext
  <2>3. CASE CaptureLeaves(c)
    BY <2>3 DEF CaptureLeaves, LockNext
  <2> QED
    BY <1>2, <2>1, <2>2, <2>3
    DEF CaptureNext, CaptureIdentity, CaptureAls, CaptureCatalog, CaptureConfirm,
        CaptureFails, CaptureStep
<1>3. ASSUME NEW r \in Readers, ApiNext(r) PROVE [LockNext]_lockVars
  BY <1>3 DEF ApiNext, ApiIdentity, ApiRows, ApiCatalog, ApiRecheck, ApiStep
<1>4. ASSUME NEW p \in Procs, DieInSection(p) PROVE [LockNext]_lockVars
  BY <1>4 DEF DieInSection, LockNext
<1>5. CASE ClockTicks
  BY <1>5 DEF ClockTicks, LockNext
<1>6. CASE UNCHANGED batchVars
  BY <1>6 DEF batchVars
<1> QED
  BY <1>1, <1>2, <1>3, <1>4, <1>5, <1>6 DEF BatchNext

(* What a query can find. *)
LEMMA FoundTypes ==
  ASSUME NEW run
  PROVE  /\ AlsFound(run) \in {"rows", "none"}
         /\ CatalogFound(run) \in {"names", "missing"}
  BY DEF AlsFound, CatalogFound

(* The initial state satisfies every part of the invariant. *)
LEMMA BatchInitInv == BatchInit => BatchInv
<1> SUFFICES ASSUME BatchInit PROVE BatchInv
  OBVIOUS
<1> USE BatchConstants DEF BatchInit
<1>1. LockInv
  BY LockInitInv
<1>2. BatchTypeOK
  BY <1>1 DEF LockInv, BatchTypeOK, ReadinessDoc, ReadRecord, NothingRead, Parts
<1>3. ReadInv
  BY DEF ReadInv, ReadinessTruthful, OfferInv, WriterInv, Working, Inside, LockInit,
         CaptureInv, ApiInv, Faithful, NothingRead
<1> QED
  BY <1>1, <1>2, <1>3 DEF BatchInv

(* A document written by run w is a readiness document. *)
LEMMA ReadinessForType ==
  ASSUME NEW w \in Writers, NEW parts,
         NEW status \in {"publishing", "ready", "single_snapshot_ready", "failed"}
  PROVE  ReadinessFor(w, status, parts) \in ReadinessDoc
  BY DEF ReadinessFor, ReadinessDoc

(* Every step keeps the types of the collections, documents and readers. *)
LEMMA BatchTypeStep == BatchTypeOK /\ [BatchNext]_batchVars => BatchTypeOK'
<1> SUFFICES ASSUME BatchTypeOK, [BatchNext]_batchVars PROVE BatchTypeOK'
  OBVIOUS
<1>0. LockTypeOK'
  BY BatchLockStep, LockTypeStep DEF BatchTypeOK
<1> USE BatchConstants, <1>0 DEF BatchTypeOK
<1>1. ASSUME NEW w \in Writers, WriterNext(w) PROVE BatchTypeOK'
  <2>1. CurrentPart(w) \in Parts
    BY DEF CurrentPart, Parts
  <2>2. \A parts : /\ ReadinessFor(w, "publishing", parts) \in ReadinessDoc
                   /\ ReadinessFor(w, "failed", parts) \in ReadinessDoc
    BY ReadinessForType
  <2>3. FinalDoc(w) \in ReadinessDoc
    BY ReadinessForType DEF FinalDoc
  <2>4. CASE WriterEnters(w)
    BY <2>4 DEF WriterEnters
  <2>5. CASE WriterRefused(w)
    BY <2>5 DEF WriterRefused
  <2>6. CASE MarkPublishing(w)
    BY <2>2, <2>6 DEF MarkPublishing, Step
  <2>7. CASE MarkPublishingFails(w)
    BY <2>2, <2>7 DEF MarkPublishingFails, Step
  <2>8. CASE Promote(w)
    BY <2>1, <2>8 DEF Promote, Step
  <2>9. CASE PromoteFails(w)
    BY <2>1, <2>9 DEF PromoteFails, Step
  <2>10. CASE Validate(w)
    BY <2>1, <2>10 DEF Validate, Step
  <2>11. CASE ValidateFails(w)
    BY <2>11 DEF ValidateFails, Step
  <2>12. CASE RecordFailure(w)
    BY <2>2, <2>12 DEF RecordFailure, FailedDoc, Step
  <2>13. CASE Report(w)
    BY <2>3, <2>13 DEF Report, Step
  <2>14. CASE ReportFails(w)
    BY <2>3, <2>14 DEF ReportFails, Step
  <2>15. CASE WriterLeaves(w)
    BY <2>15 DEF WriterLeaves
  <2> QED
    BY <1>1, <2>4, <2>5, <2>6, <2>7, <2>8, <2>9, <2>10, <2>11, <2>12, <2>13, <2>14,
       <2>15 DEF WriterNext
<1>2. ASSUME NEW c \in Captures, CaptureNext(c) PROVE BatchTypeOK'
  <2>1. capture[c] \in ReadRecord /\ readiness \in ReadinessDoc
    OBVIOUS
  <2>2. Rejected(capture[c]) \in ReadRecord
    BY <2>1 DEF Rejected, ReadRecord
  <2>3. ASSUME NEW record \in ReadRecord, CaptureStep(c, record) PROVE BatchTypeOK'
    BY <2>3 DEF CaptureStep
  <2>4. CASE CaptureEnters(c)
    BY <2>4 DEF CaptureEnters, dataVars
  <2>5. CASE CaptureRefused(c)
    BY <2>1, <2>5, ZenonT(60) DEF CaptureRefused, ReadRecord
  <2>6. CASE CaptureIdentity(c)
    <3>1. [capture[c] EXCEPT !.run = readiness.run, !.at = "als"] \in ReadRecord
      BY <2>1 DEF ReadRecord, ReadinessDoc
    <3> QED
      BY <2>2, <2>3, <2>6, <3>1 DEF CaptureIdentity
  <2>7. CASE CaptureAls(c)
    <3>1. [capture[c] EXCEPT !.als = AlsFound(capture[c].run), !.at = "catalog"]
              \in ReadRecord
      BY <2>1, FoundTypes DEF ReadRecord
    <3> QED
      BY <2>3, <2>7, <3>1 DEF CaptureAls
  <2>8. CASE CaptureCatalog(c)
    <3>1. [capture[c] EXCEPT !.catalog = "skipped", !.at = "recheck"] \in ReadRecord
      BY <2>1 DEF ReadRecord
    <3>2. [capture[c] EXCEPT !.catalog = CatalogFound(capture[c].run), !.at = "recheck"]
              \in ReadRecord
      BY <2>1, FoundTypes DEF ReadRecord
    <3> QED
      BY <2>2, <2>3, <2>8, <3>1, <3>2 DEF CaptureCatalog
  <2>9. CASE CaptureConfirm(c)
    <3>1. [capture[c] EXCEPT !.at = "end"] \in ReadRecord
      BY <2>1 DEF ReadRecord
    <3> QED
      BY <2>2, <2>3, <2>9, <3>1 DEF CaptureConfirm
  <2>10. CASE CaptureFails(c)
    BY <2>2, <2>3, <2>10 DEF CaptureFails
  <2>11. CASE CaptureLeaves(c)
    BY <2>1, <2>11 DEF CaptureLeaves, ReadRecord
  <2> QED
    BY <1>2, <2>4, <2>5, <2>6, <2>7, <2>8, <2>9, <2>10, <2>11 DEF CaptureNext
<1>3. ASSUME NEW r \in Readers, ApiNext(r) PROVE BatchTypeOK'
  <2>1. api[r] \in ReadRecord /\ readiness \in ReadinessDoc
    OBVIOUS
  <2>2. Rejected(api[r]) \in ReadRecord
    BY <2>1 DEF Rejected, ReadRecord
  <2>3. ASSUME NEW record \in ReadRecord, ApiStep(r, record) PROVE BatchTypeOK'
    BY <2>3, <1>0 DEF ApiStep
  <2>4. CASE ApiIdentity(r)
    <3>1. [api[r] EXCEPT !.run = readiness.run, !.at = "als"] \in ReadRecord
      BY <2>1 DEF ReadRecord, ReadinessDoc
    <3> QED
      BY <2>2, <2>3, <2>4, <3>1 DEF ApiIdentity
  <2>5. CASE ApiRows(r)
    <3>1. [api[r] EXCEPT !.als = AlsFound(api[r].run), !.at = "catalog"] \in ReadRecord
      BY <2>1, FoundTypes DEF ReadRecord
    <3> QED
      BY <2>3, <2>5, <3>1 DEF ApiRows
  <2>6. CASE ApiCatalog(r)
    <3>1. [api[r] EXCEPT !.at = "recheck",
             !.catalog = IF api[r].als = "rows" THEN CatalogFound(api[r].run)
                                                ELSE "skipped"] \in ReadRecord
      BY <2>1, FoundTypes DEF ReadRecord
    <3> QED
      BY <2>3, <2>6, <3>1 DEF ApiCatalog
  <2>7. CASE ApiRecheck(r)
    <3>1. [api[r] EXCEPT !.at = "end", !.outcome = "accepted"] \in ReadRecord
      BY <2>1 DEF ReadRecord
    <3> QED
      BY <2>2, <2>3, <2>7, <3>1 DEF ApiRecheck
  <2> QED
    BY <1>3, <2>4, <2>5, <2>6, <2>7 DEF ApiNext
<1>4. ASSUME NEW p \in Procs, DieInSection(p) PROVE BatchTypeOK'
  BY <1>4 DEF DieInSection, dataVars
<1>5. CASE ClockTicks
  BY <1>5 DEF ClockTicks, dataVars
<1>6. CASE UNCHANGED batchVars
  BY <1>6 DEF batchVars
<1> QED
  BY <1>1, <1>2, <1>3, <1>4, <1>5, <1>6 DEF BatchNext

--------------------------------------------------------------------------------
(* Only one process is inside the section. *)
LEMMA Alone ==
  ASSUME RespectLease, BatchInv, NEW p \in Procs, Inside(p)
  PROVE  \A q \in Procs : Inside(q) => q = p
  BY DEF BatchInv, LockInv, MutualExclusion

(* Nobody is inside when the lease can be taken. *)
LEMMA Empty ==
  ASSUME RespectLease, BatchInv, LockFree
  PROVE  \A q \in Procs : ~Inside(q)
  BY LockConstants DEF BatchInv, LockInv, LockFree, HoldsLease, LockTypeOK, LockDoc

(* A step of run w inside its section keeps the invariant when it keeps the    *)
(* gate honest, keeps w's own promises, and opens the gate for nobody but w.   *)
LEMMA WriterStepInv ==
  ASSUME RespectLease, BatchInv,
         NEW w \in Writers, NEW from, NEW to,
         from \notin {"leave", "done"}, to \notin {"start", "done"},
         Step(w, from, to),
         ReadinessTruthful', WriterInv(w)', OfferInv',
         published' = published \/ \E S : published' = [published EXCEPT ![w] = S],
         \/ readiness' = readiness /\ active' = active
         \/ readiness'.status # "ready"
         \/ readiness'.run = w
  PROVE  ReadInv'
<1>0. /\ w \in Procs
      /\ Inside(w) /\ pc[w] = from
      /\ BatchTypeOK /\ ReadInv
  BY BatchConstants DEF Step, BatchInv
<1>1. \A q \in Procs : Inside(q) => q = w
  BY <1>0, Alone
<1>2. ASSUME NEW v \in Writers, v # w PROVE WriterInv(v)'
  <2>1. /\ ~Inside(v)'
        /\ pc'[v] = pc[v] /\ published'[v] = published[v]
    BY <1>0, <1>1, <1>2, BatchConstants DEF Step, Inside, BatchTypeOK
  <2> QED
    BY <1>0, <2>1 DEF WriterInv, Working, ReadInv
<1>3. ASSUME NEW c \in Captures PROVE CaptureInv(c)'
  <2>1. ~Inside(c)' /\ capture'[c] = capture[c]
    BY <1>0, <1>1, BatchConstants DEF Step, Inside
  <2> QED
    BY <1>0, <2>1 DEF CaptureInv, Faithful, ReadInv
<1>4. ASSUME NEW r \in Readers PROVE ApiInv(r)'
  <2>1. api'[r] = api[r] /\ ApiInv(r)
    BY <1>0 DEF Step, ReadInv
  <2>2. ASSUME api[r].outcome = "pending", api[r].at # "first"
        PROVE  /\ api[r].run \in Writers
               /\ (pc'[api[r].run] \in {"leave", "done"})
               /\ SameOffer(api[r])' => ReadsFaithful(api[r])
    <3>1. api[r].run \in Writers /\ Finished(api[r].run)
      BY <2>1, <2>2 DEF ApiInv
    <3>2. api[r].run # w
      BY <1>0, <3>1 DEF Finished
    <3>3. pc'[api[r].run] = pc[api[r].run]
      BY <1>0, <3>1, <3>2 DEF Step, BatchTypeOK
    <3>4. ASSUME SameOffer(api[r])' PROVE ReadsFaithful(api[r])
      <4>1. readiness'.status = "ready" /\ readiness'.run # w
        BY <2>1, <3>2, <3>4 DEF SameOffer, PairReady
      <4>2. readiness' = readiness
        BY <4>1
      <4>3. SameOffer(api[r])
        BY <2>1, <3>4, <4>2 DEF SameOffer, PairReady
      <4> QED
        BY <2>1, <2>2, <4>3 DEF ApiInv
    <3> QED
      BY <3>1, <3>3, <3>4 DEF Finished
  <2> QED
    BY <2>1, <2>2 DEF ApiInv, Finished, Faithful, ReadsFaithful
<1> QED
  BY <1>2, <1>3, <1>4 DEF ReadInv

(* Every step of a run inside its section keeps the invariant. *)
LEMMA WriterInsideInv ==
  ASSUME RespectLease, BatchInv, NEW w \in Writers, WriterNext(w),
         ~WriterEnters(w), ~WriterRefused(w), ~WriterLeaves(w)
  PROVE  ReadInv'
<1>0. /\ BatchTypeOK /\ ReadInv /\ WriterInv(w)
  BY DEF BatchInv, ReadInv
<1>1. CurrentPart(w) \in Parts
  BY DEF CurrentPart, Parts
<1> DEFINE Part == CurrentPart(w)
<1> USE BatchConstants
<1>2. CASE MarkPublishing(w)
  <2>1. readiness' = ReadinessFor(w, "publishing", {}) /\ published[w] = {}
    BY <1>0, <1>2 DEF MarkPublishing, Step, WriterInv
  <2>2. ReadinessTruthful' /\ OfferInv'
    BY <2>1 DEF ReadinessTruthful, OfferInv, ReadinessFor
  <2>3. WriterInv(w)'
    BY <1>0, <1>2, <2>1
    DEF MarkPublishing, Step, WriterInv, Working, BatchTypeOK, ReadinessFor
  <2> QED
    BY <1>2, <2>1, <2>2, <2>3, WriterStepInv DEF MarkPublishing, ReadinessFor
<1>3. CASE MarkPublishingFails(w)
  <2>1. /\ readiness' = readiness \/ readiness' = ReadinessFor(w, "publishing", {})
        /\ active' = active /\ published' = published
        /\ Step(w, "publishing", "leave")
    BY <1>3 DEF MarkPublishingFails
  <2>2. ReadinessTruthful'
    <3>1. CASE readiness' = readiness
      BY <1>0, <2>1, <3>1 DEF ReadinessTruthful, ReadInv
    <3>2. CASE readiness' = ReadinessFor(w, "publishing", {})
      BY <3>2 DEF ReadinessTruthful, ReadinessFor
    <3> QED
      BY <2>1, <3>1, <3>2
  <2>3. OfferInv' /\ WriterInv(w)'
    BY <1>0, <2>1
    DEF OfferInv, ReadinessFor, ReadInv, Step, Finished, WriterInv, Working, BatchTypeOK
  <2> QED
    BY <2>1, <2>2, <2>3, WriterStepInv DEF ReadinessFor
<1>4. CASE Promote(w) \/ PromoteFails(w)
  <2>1. /\ pc[w] = "promote" /\ Inside(w)
        /\ readiness' = readiness /\ published' = published
        /\ active' = active \/ active' = [active EXCEPT ![Part] = w]
        /\ Step(w, "promote", "validate") \/ Step(w, "promote", "failing")
    BY <1>4 DEF Promote, PromoteFails, Step
  <2>2. readiness = ReadinessFor(w, "publishing", {})
    BY <1>0, <2>1 DEF WriterInv, Working
  <2>3. ReadinessTruthful' /\ OfferInv'
    BY <2>1, <2>2 DEF ReadinessTruthful, OfferInv, ReadinessFor
  <2>4. \A part \in published[w] : active'[part] = w
    BY <1>0, <1>1, <2>1 DEF WriterInv, Working, BatchTypeOK
  <2>5. WriterInv(w)'
    BY <1>0, <2>1, <2>2, <2>4 DEF WriterInv, Working, Step, BatchTypeOK, ReadinessFor
  <2> QED
    BY <2>1, <2>2, <2>3, <2>5, WriterStepInv DEF ReadinessFor
<1>5. CASE Validate(w)
  <2> DEFINE to == IF published[w] \cup {Part} = Tasks[w] THEN "report" ELSE "promote"
  <2>1. /\ active' = active /\ readiness' = readiness /\ active[Part] = w
        /\ published' = [published EXCEPT ![w] = published[w] \cup {Part}]
        /\ Step(w, "validate", to) /\ to \in {"report", "promote"}
    BY <1>5 DEF Validate
  <2>2. Working(w)
    BY <2>1 DEF Step, Working
  <2>3. ReadinessTruthful' /\ OfferInv'
    BY <1>0, <2>1, <2>2
    DEF ReadinessTruthful, OfferInv, ReadInv, WriterInv, ReadinessFor
  <2>4. WriterInv(w)'
    BY <1>0, <2>1, <2>2 DEF WriterInv, Working, Step, BatchTypeOK, ReadinessFor
  <2> HIDE DEF to
  <2> QED
    BY <2>1, <2>3, <2>4, WriterStepInv
<1>6. CASE ValidateFails(w)
  <2>1. /\ active' = active /\ readiness' = readiness /\ published' = published
        /\ Step(w, "validate", "failing")
    BY <1>6 DEF ValidateFails
  <2>2. ReadinessTruthful' /\ OfferInv' /\ WriterInv(w)'
    BY <1>0, <2>1
    DEF ReadinessTruthful, OfferInv, ReadInv, WriterInv, Working, Step, BatchTypeOK,
        Finished, ReadinessFor
  <2> QED
    BY <2>1, <2>2, WriterStepInv
<1>7. CASE RecordFailure(w)
  <2>1. /\ active' = active /\ published' = published
        /\ readiness' = readiness \/ readiness' = ReadinessFor(w, "failed", published[w])
        /\ Step(w, "failing", "leave")
    BY <1>7 DEF RecordFailure, FailedDoc
  <2>2. Working(w)
    BY <2>1 DEF Step, Working
  <2>3. ReadinessTruthful' /\ OfferInv'
    BY <1>0, <2>1, <2>2
    DEF ReadinessTruthful, OfferInv, ReadInv, WriterInv, ReadinessFor
  <2>4. WriterInv(w)'
    BY <1>0, <2>1 DEF WriterInv, Working, Step, BatchTypeOK
  <2> QED
    BY <2>1, <2>3, <2>4, WriterStepInv DEF ReadinessFor
<1>8. CASE Report(w) \/ ReportFails(w)
  <2>1. /\ active' = active /\ published' = published
        /\ readiness' = readiness \/ readiness' = FinalDoc(w)
        /\ Step(w, "report", "leave")
    BY <1>8 DEF Report, ReportFails
  <2>2. Working(w)
    BY <2>1 DEF Step, Working
  <2>3. /\ FinalDoc(w).run = w
        /\ FinalDoc(w).als => "als" \in published[w]
        /\ FinalDoc(w).graph => "graph" \in published[w]
        /\ FinalDoc(w).status = "ready" => published[w] = Parts
        /\ published[w] = Parts => FinalDoc(w).als /\ FinalDoc(w).graph
    BY DEF FinalDoc, ReadinessFor, Parts
  <2>4. ReadinessTruthful'
    BY <1>0, <2>1, <2>2, <2>3 DEF ReadinessTruthful, ReadInv, WriterInv
  <2>5. OfferInv' /\ WriterInv(w)'
    BY <1>0, <2>1, <2>2, <2>3
    DEF OfferInv, ReadInv, WriterInv, Working, Step, BatchTypeOK, Finished, ReadinessFor
  <2> QED
    BY <2>1, <2>3, <2>4, <2>5, WriterStepInv
<1> QED
  BY <1>2, <1>3, <1>4, <1>5, <1>6, <1>7, <1>8 DEF WriterNext

(* So does entering the section, being refused, and leaving it. *)
LEMMA WriterBoundaryInv ==
  ASSUME RespectLease, BatchInv, NEW w \in Writers,
         WriterEnters(w) \/ WriterRefused(w) \/ WriterLeaves(w)
  PROVE  ReadInv'
<1>0. BatchTypeOK /\ ReadInv /\ WriterInv(w) /\ w \in Procs
  BY BatchConstants DEF BatchInv, ReadInv
<1>1. /\ readiness' = readiness /\ active' = active /\ published' = published
      /\ capture' = capture /\ api' = api
  BY DEF WriterEnters, WriterRefused, WriterLeaves
<1>2. /\ \A v \in Writers : v # w => pc'[v] = pc[v]
      /\ Finished(w) => Finished(w)'
  BY <1>0 DEF WriterEnters, WriterRefused, WriterLeaves, BatchTypeOK, Finished
<1>3. \A v \in Writers : Finished(v) => Finished(v)'
  BY <1>2 DEF Finished
<1>4. \A q \in Procs : Inside(q)' => q = w \/ Inside(q)
  BY <1>0 DEF WriterEnters, WriterRefused, WriterLeaves, Acquire, Refused, Release,
              Inside, lockVars, BatchTypeOK, LockTypeOK
<1>5. ReadinessTruthful' /\ OfferInv'
  BY <1>0, <1>1, <1>3 DEF ReadInv, ReadinessTruthful, OfferInv
<1>6. ASSUME NEW v \in Writers PROVE WriterInv(v)'
  <2>1. CASE v = w
    <3>1. CASE WriterEnters(w)
      BY <1>0, <1>1, <2>1, <3>1
      DEF WriterEnters, WriterInv, Working, BatchTypeOK
    <3>2. CASE WriterRefused(w)
      BY <1>0, <1>1, <2>1, <3>2
      DEF WriterRefused, Refused, lockVars, WriterInv, Working, Inside, BatchTypeOK
    <3>3. CASE WriterLeaves(w)
      BY <1>0, <1>1, <2>1, <3>3
      DEF WriterLeaves, Release, WriterInv, Working, Inside, BatchTypeOK, LockTypeOK
    <3> QED
      BY <3>1, <3>2, <3>3
  <2>2. CASE v # w
    <3>1. WriterInv(v) /\ pc'[v] = pc[v] /\ (Inside(v)' => Inside(v))
      BY <1>0, <1>2, <1>4, <2>2, BatchConstants DEF ReadInv
    <3> QED
      BY <1>1, <3>1 DEF WriterInv, Working
  <2> QED
    BY <2>1, <2>2
<1>7. ASSUME NEW c \in Captures PROVE CaptureInv(c)'
  <2>1. CaptureInv(c) /\ (Inside(c)' => Inside(c))
    BY <1>0, <1>4, BatchConstants DEF ReadInv
  <2> QED
    BY <1>1, <2>1 DEF CaptureInv, Faithful, SameOffer, PairReady, ReadsFaithful
<1>8. ASSUME NEW r \in Readers PROVE ApiInv(r)'
  BY <1>0, <1>1, <1>3
  DEF ReadInv, ApiInv, Faithful, SameOffer, PairReady, ReadsFaithful
<1> QED
  BY <1>5, <1>6, <1>7, <1>8 DEF ReadInv

(* A step that leaves the collections, the gate and the API alone, and lets no *)
(* run in, has only its captures to answer for.                               *)
LEMMA OutsideWritersInv ==
  ASSUME ReadInv,
         UNCHANGED <<active, readiness, pc, published, api>>,
         \A w \in Writers : Inside(w)' => Inside(w),
         \A c \in Captures : CaptureInv(c)'
  PROVE  ReadInv'
<1>1. ReadinessTruthful' /\ OfferInv'
  BY DEF ReadInv, ReadinessTruthful, OfferInv, Finished
<1>2. ASSUME NEW w \in Writers PROVE WriterInv(w)'
  BY DEF ReadInv, WriterInv, Working
<1>3. ASSUME NEW r \in Readers PROVE ApiInv(r)'
  BY DEF ReadInv, ApiInv, Faithful, SameOffer, PairReady, ReadsFaithful, Finished
<1> QED
  BY <1>1, <1>2, <1>3 DEF ReadInv

(* Every step of a capture keeps the invariant: what it reads under the lock  *)
(* is what the generation it was shown at first holds.                        *)
LEMMA CaptureInvStep ==
  ASSUME RespectLease, BatchInv, NEW c \in Captures, CaptureNext(c)
  PROVE  ReadInv'
<1>0. BatchTypeOK /\ ReadInv /\ CaptureInv(c) /\ capture[c] \in ReadRecord
  BY DEF BatchInv, ReadInv, BatchTypeOK
<1>1. c \in Procs /\ c \notin Writers
  BY BatchConstants
<1>2. UNCHANGED <<active, readiness, pc, published, api>>
  BY DEF CaptureNext, CaptureEnters, CaptureRefused, CaptureIdentity, CaptureAls,
         CaptureCatalog, CaptureConfirm, CaptureFails, CaptureLeaves, CaptureStep,
         dataVars
<1>3. \A q \in Procs : q # c => (Inside(q)' <=> Inside(q))
  BY <1>0, <1>1
  DEF CaptureNext, CaptureEnters, CaptureRefused, CaptureIdentity, CaptureAls,
      CaptureCatalog, CaptureConfirm, CaptureFails, CaptureLeaves, CaptureStep,
      Acquire, Refused, Release, Inside, lockVars, BatchTypeOK, LockTypeOK
<1>4. \A d \in Captures : d # c => capture'[d] = capture[d]
  BY <1>0
  DEF CaptureNext, CaptureEnters, CaptureRefused, CaptureIdentity, CaptureAls,
      CaptureCatalog, CaptureConfirm, CaptureFails, CaptureLeaves, CaptureStep,
      dataVars, BatchTypeOK
<1>5. ASSUME NEW d \in Captures, d # c PROVE CaptureInv(d)'
  <2>1. CaptureInv(d) /\ (Inside(d)' <=> Inside(d)) /\ capture'[d] = capture[d]
    BY <1>0, <1>3, <1>4, <1>5, BatchConstants DEF ReadInv
  <2> QED
    BY <1>2, <2>1 DEF CaptureInv, Faithful, SameOffer, PairReady, ReadsFaithful
<1>6. CaptureInv(c)'
  <2>1. CASE CaptureEnters(c)
    BY <1>0, <2>1
    DEF CaptureEnters, dataVars, CaptureInv, Faithful
  <2>2. CASE CaptureRefused(c)
    BY <1>0, <2>2 DEF CaptureRefused, BatchTypeOK, CaptureInv, Faithful, ReadRecord
  <2>3. ASSUME NEW record, CaptureStep(c, record),
               Faithful(record), record.at # "end" => record.outcome = "pending",
               record.outcome = "pending" /\ record.at # "first" =>
                   SameOffer(record) /\ ReadsFaithful(record)
        PROVE  CaptureInv(c)'
    <3>1. capture'[c] = record
      BY <1>0, <2>3 DEF CaptureStep, BatchTypeOK
    <3> QED
      BY <1>2, <2>3, <3>1 DEF CaptureInv, Faithful, SameOffer, PairReady, ReadsFaithful
  <2>4. /\ Faithful(Rejected(capture[c]))
        /\ Rejected(capture[c]).outcome = "rejected" /\ Rejected(capture[c]).at = "end"
    BY <1>0 DEF Rejected, Faithful, ReadRecord
  <2>5. CASE CaptureFails(c)
    BY <2>3, <2>4, <2>5 DEF CaptureFails
  <2>6. CASE CaptureIdentity(c)
    <3>1. CASE PairReady(readiness)
      <4> DEFINE record == [capture[c] EXCEPT !.run = readiness.run, !.at = "als"]
      <4>1. /\ record.run = readiness.run /\ record.at = "als"
            /\ record.outcome = capture[c].outcome
        BY <1>0 DEF ReadRecord
      <4>2. CaptureStep(c, record) /\ Inside(c)
        BY <2>6, <3>1 DEF CaptureIdentity, CaptureStep
      <4>3. capture[c].at = "first"
        BY <2>6 DEF CaptureIdentity
      <4> QED
        BY <1>0, <2>3, <2>6, <3>1, <4>1, <4>2, <4>3
        DEF CaptureInv, Faithful, SameOffer, PairReady, ReadsFaithful, ReadRecord
    <3>2. CASE ~PairReady(readiness)
      BY <2>3, <2>4, <2>6, <3>2 DEF CaptureIdentity
    <3> QED
      BY <3>1, <3>2
  <2>8. CASE CaptureAls(c)
    <3> DEFINE record == [capture[c] EXCEPT !.als = AlsFound(capture[c].run),
                                            !.at = "catalog"]
    <3>1. /\ record.run = capture[c].run /\ record.at = "catalog"
          /\ record.als = AlsFound(capture[c].run)
          /\ record.outcome = capture[c].outcome
      BY <1>0 DEF ReadRecord
    <3>2. capture[c].at = "als" /\ CaptureStep(c, record) /\ Inside(c)
      BY <2>8 DEF CaptureAls, CaptureStep
    <3>3. capture[c].outcome = "pending" /\ SameOffer(capture[c])
      BY <1>0, <3>2 DEF CaptureInv
    <3>4. record.als = "rows" <=> record.run \in Warm
      BY <1>0, <3>1, <3>3
      DEF AlsFound, SameOffer, PairReady, ReadInv, ReadinessTruthful
    <3> QED
      BY <2>3, <3>1, <3>2, <3>3, <3>4 DEF Faithful, SameOffer, ReadsFaithful
  <2>9. CASE CaptureCatalog(c)
    <3> DEFINE skipped == [capture[c] EXCEPT !.catalog = "skipped", !.at = "recheck"]
               found == [capture[c] EXCEPT !.catalog = CatalogFound(capture[c].run),
                                           !.at = "recheck"]
    <3>1. capture[c].at = "catalog" /\ Inside(c)
      BY <2>9 DEF CaptureCatalog, CaptureStep
    <3>2. /\ capture[c].outcome = "pending" /\ SameOffer(capture[c])
          /\ capture[c].als = "rows" <=> capture[c].run \in Warm
      BY <1>0, <3>1 DEF CaptureInv, ReadsFaithful
    <3>3. CatalogFound(capture[c].run) = "names"
      BY <1>0, <3>2 DEF CatalogFound, SameOffer, PairReady, ReadInv, ReadinessTruthful
    <3>4. ASSUME NEW record \in {skipped, found}
          PROVE  /\ record.run = capture[c].run /\ record.als = capture[c].als
                 /\ record.at = "recheck" /\ record.outcome = "pending"
                 /\ record.catalog # "missing"
      BY <1>0, <3>2, <3>3 DEF ReadRecord
    <3>5. ASSUME NEW record \in {skipped, found}, CaptureStep(c, record)
          PROVE  CaptureInv(c)'
      <4> HIDE DEF skipped, found
      <4> QED
        BY <2>3, <3>2, <3>4, <3>5 DEF Faithful, SameOffer, ReadsFaithful
    <3>6. \E record \in {skipped, found, Rejected(capture[c])} : CaptureStep(c, record)
      BY <2>9 DEF CaptureCatalog
    <3> HIDE DEF skipped, found
    <3>7. ASSUME CaptureStep(c, Rejected(capture[c])) PROVE CaptureInv(c)'
      BY <2>3, <2>4, <3>7
    <3> QED
      BY <3>5, <3>6, <3>7
  <2>10. CASE CaptureConfirm(c)
    <3> DEFINE record == [capture[c] EXCEPT !.at = "end"]
    <3>1. capture[c].at = "recheck" /\ Inside(c)
      BY <2>10 DEF CaptureConfirm, CaptureStep
    <3>2. capture[c].outcome = "pending" /\ SameOffer(capture[c])
          /\ ReadsFaithful(capture[c])
      BY <1>0, <3>1 DEF CaptureInv
    <3>3. /\ record.run = capture[c].run /\ record.als = capture[c].als
          /\ record.at = "end" /\ record.outcome = capture[c].outcome
          /\ record.catalog = capture[c].catalog
      BY <1>0 DEF ReadRecord
    <3>4. CaptureStep(c, record)
      BY <2>10, <3>2 DEF CaptureConfirm, SameOffer
    <3> QED
      BY <2>3, <3>1, <3>2, <3>3, <3>4 DEF Faithful, SameOffer, ReadsFaithful
  <2>7. CASE CaptureLeaves(c)
    BY <1>0, <1>1, <2>7
    DEF CaptureLeaves, Release, Inside, CaptureInv, Faithful, ReadsFaithful,
        BatchTypeOK, LockTypeOK, ReadRecord
  <2> QED
    BY <2>1, <2>2, <2>5, <2>6, <2>7, <2>8, <2>9, <2>10 DEF CaptureNext
<1>7. \A w \in Writers : Inside(w)' => Inside(w)
  BY <1>1, <1>3, BatchConstants
<1>8. \A d \in Captures : CaptureInv(d)'
  BY <1>5, <1>6
<1> QED
  BY <1>0, <1>2, <1>7, <1>8, OutsideWritersInv

(* Every step of an API request keeps the invariant: if the gate still names   *)
(* the run the request found first, its collections have not been replaced.   *)
LEMMA ApiInvStep ==
  ASSUME BatchInv, NEW r \in Readers, ApiNext(r)
  PROVE  ReadInv'
<1>0. BatchTypeOK /\ ReadInv /\ ApiInv(r) /\ api[r] \in ReadRecord
  BY DEF BatchInv, ReadInv, BatchTypeOK
<1>1. UNCHANGED <<lock, section, holder, active, readiness, pc, published, capture>>
  BY DEF ApiNext, ApiIdentity, ApiRows, ApiCatalog, ApiRecheck, ApiStep
<1>2. \A q \in Readers : q # r => api'[q] = api[q]
  BY <1>0 DEF ApiNext, ApiIdentity, ApiRows, ApiCatalog, ApiRecheck, ApiStep, BatchTypeOK
<1>3. ReadinessTruthful' /\ OfferInv' /\ \A w \in Writers : WriterInv(w)'
  BY <1>0, <1>1
  DEF ReadInv, ReadinessTruthful, OfferInv, Finished, WriterInv, Working, Inside
<1>4. \A c \in Captures : CaptureInv(c)'
  BY <1>0, <1>1
  DEF ReadInv, CaptureInv, Faithful, SameOffer, PairReady, ReadsFaithful, Inside
<1>5. ASSUME NEW q \in Readers, q # r PROVE ApiInv(q)'
  BY <1>0, <1>1, <1>2, <1>5
  DEF ReadInv, ApiInv, Faithful, SameOffer, PairReady, ReadsFaithful, Finished
<1>6. ApiInv(r)'
  <2>1. ASSUME NEW record, ApiStep(r, record),
               Faithful(record), record.at # "end" => record.outcome = "pending",
               record.outcome = "pending" /\ record.at # "first" =>
                   /\ record.run \in Writers
                   /\ Finished(record.run)
                   /\ SameOffer(record) => ReadsFaithful(record)
        PROVE  ApiInv(r)'
    <3>1. api'[r] = record
      BY <1>0, <2>1 DEF ApiStep, BatchTypeOK
    <3> QED
      BY <1>1, <2>1, <3>1
      DEF ApiInv, Faithful, SameOffer, PairReady, ReadsFaithful, Finished
  <2>2. /\ Faithful(Rejected(api[r]))
        /\ Rejected(api[r]).outcome = "rejected" /\ Rejected(api[r]).at = "end"
    BY <1>0 DEF Rejected, Faithful, ReadRecord
  <2>3. ASSUME ApiStep(r, Rejected(api[r])) PROVE ApiInv(r)'
    BY <2>1, <2>2, <2>3
  <2>4. CASE ApiIdentity(r)
    <3> DEFINE record == [api[r] EXCEPT !.run = readiness.run, !.at = "als"]
    <3>1. CASE PairReady(readiness)
      <4>1. /\ record.run = readiness.run /\ record.at = "als"
            /\ record.outcome = api[r].outcome
        BY <1>0 DEF ReadRecord
      <4>2. ApiStep(r, record) /\ api[r].at = "first"
        BY <2>4, <3>1 DEF ApiIdentity
      <4>3. record.run \in Writers /\ Finished(record.run)
        BY <1>0, <3>1, <4>1 DEF PairReady, ReadInv, OfferInv
      <4>4. record.outcome = "pending"
        BY <1>0, <4>1, <4>2 DEF ApiInv
      <4> QED
        BY <2>1, <4>1, <4>2, <4>3, <4>4 DEF Faithful, ReadsFaithful
    <3>2. CASE ~PairReady(readiness)
      BY <2>3, <2>4, <3>2 DEF ApiIdentity
    <3> QED
      BY <3>1, <3>2
  <2>5. CASE ApiRows(r)
    <3> DEFINE record == [api[r] EXCEPT !.als = AlsFound(api[r].run), !.at = "catalog"]
    <3>1. /\ record.run = api[r].run /\ record.at = "catalog"
          /\ record.als = AlsFound(api[r].run)
          /\ record.outcome = api[r].outcome
      BY <1>0 DEF ReadRecord
    <3>2. api[r].at = "als" /\ ApiStep(r, record)
      BY <2>5 DEF ApiRows
    <3>3. /\ api[r].outcome = "pending"
          /\ record.run \in Writers /\ Finished(record.run)
      BY <1>0, <3>1, <3>2 DEF ApiInv
    <3>4. SameOffer(record) => (record.als = "rows" <=> record.run \in Warm)
      BY <1>0, <3>1 DEF AlsFound, SameOffer, PairReady, ReadInv, ReadinessTruthful
    <3> QED
      BY <2>1, <3>1, <3>2, <3>3, <3>4 DEF Faithful, ReadsFaithful
  <2>6. CASE ApiCatalog(r)
    <3> DEFINE found == IF api[r].als = "rows" THEN CatalogFound(api[r].run) ELSE "skipped"
               record == [api[r] EXCEPT !.at = "recheck", !.catalog = found]
    <3>1. /\ record.run = api[r].run /\ record.at = "recheck"
          /\ record.als = api[r].als /\ record.catalog = found
          /\ record.outcome = api[r].outcome
      BY <1>0 DEF ReadRecord
    <3>2. api[r].at = "catalog" /\ ApiStep(r, record)
      BY <2>6 DEF ApiCatalog
    <3>3. /\ api[r].outcome = "pending"
          /\ record.run \in Writers /\ Finished(record.run)
          /\ SameOffer(record) => (record.als = "rows" <=> record.run \in Warm)
      BY <1>0, <3>1, <3>2 DEF ApiInv, ReadsFaithful, SameOffer
    <3>4. SameOffer(record) => record.catalog # "missing"
      BY <1>0, <3>1 DEF CatalogFound, SameOffer, PairReady, ReadInv, ReadinessTruthful
    <3> QED
      BY <2>1, <3>1, <3>2, <3>3, <3>4 DEF Faithful, ReadsFaithful
  <2>7. CASE ApiRecheck(r)
    <3> DEFINE record == [api[r] EXCEPT !.at = "end", !.outcome = "accepted"]
    <3>1. CASE PairReady(readiness) /\ readiness.run = api[r].run
      <4>1. /\ record.run = api[r].run /\ record.als = api[r].als
            /\ record.at = "end" /\ record.outcome = "accepted"
            /\ record.catalog = api[r].catalog
        BY <1>0 DEF ReadRecord
      <4>2. api[r].at = "recheck" /\ ApiStep(r, record)
        BY <2>7, <3>1 DEF ApiRecheck
      <4>3. ReadsFaithful(api[r])
        BY <1>0, <3>1, <4>2 DEF ApiInv, SameOffer
      <4> QED
        BY <2>1, <4>1, <4>2, <4>3 DEF Faithful, ReadsFaithful
    <3>2. CASE ~(PairReady(readiness) /\ readiness.run = api[r].run)
      BY <2>3, <2>7, <3>2 DEF ApiRecheck
    <3> QED
      BY <3>1, <3>2
  <2> QED
    BY <2>4, <2>5, <2>6, <2>7 DEF ApiNext
<1> QED
  BY <1>3, <1>4, <1>5, <1>6 DEF ReadInv

(* Every step of the batch system preserves the inductive invariant. *)
LEMMA BatchStepInv ==
  ASSUME RespectLease, BatchInv, [BatchNext]_batchVars
  PROVE  BatchInv'
<1>1. LockInv'
  BY BatchLockStep, LockStepInv DEF BatchInv
<1>2. BatchTypeOK'
  BY BatchTypeStep DEF BatchInv
<1>3. ReadInv'
  <2>1. ASSUME NEW w \in Writers, WriterNext(w) PROVE ReadInv'
    BY <2>1, WriterInsideInv, WriterBoundaryInv
  <2>2. ASSUME NEW c \in Captures, CaptureNext(c) PROVE ReadInv'
    BY <2>2, CaptureInvStep
  <2>3. ASSUME NEW r \in Readers, ApiNext(r) PROVE ReadInv'
    BY <2>3, ApiInvStep
  <2>4. ASSUME UNCHANGED dataVars, \A q \in Procs : Inside(q)' => Inside(q)
        PROVE  ReadInv'
    <3>1. ReadInv
      BY DEF BatchInv
    <3>2. \A c \in Captures : CaptureInv(c)'
      BY <2>4, <3>1, BatchConstants
      DEF ReadInv, CaptureInv, Faithful, SameOffer, PairReady, ReadsFaithful, dataVars
    <3>3. /\ UNCHANGED <<active, readiness, pc, published, api>>
          /\ \A w \in Writers : Inside(w)' => Inside(w)
      BY <2>4, BatchConstants DEF dataVars
    <3> QED
      BY <3>1, <3>2, <3>3, OutsideWritersInv
  <2>5. ASSUME NEW p \in Procs, DieInSection(p) PROVE ReadInv'
    <3>1. \A q \in Procs : Inside(q)' => Inside(q)
      BY <2>5 DEF BatchInv, BatchTypeOK, LockTypeOK, DieInSection, Die, Inside
    <3> QED
      BY <2>4, <2>5, <3>1 DEF DieInSection
  <2>6. CASE ClockTicks
    BY <2>4, <2>6 DEF ClockTicks, Tick, Inside
  <2>7. CASE UNCHANGED batchVars
    BY <2>4, <2>7 DEF batchVars, dataVars, Inside
  <2> QED
    BY <2>1, <2>2, <2>3, <2>5, <2>6, <2>7 DEF BatchNext
<1> QED
  BY <1>1, <1>2, <1>3 DEF BatchInv

--------------------------------------------------------------------------------
(* The documents, collections, runs and readers keep their types. *)
THEOREM BatchTyping == BatchSpec => []BatchTypeOK
<1>1. BatchInit => BatchTypeOK
  BY BatchInitInv DEF BatchInv
<1> QED
  BY <1>1, BatchTypeStep, PTL DEF BatchSpec

(* The batch system uses the lease as PublicationLock describes it, so what is *)
(* proved of the lock holds of the publication.                               *)
THEOREM BatchImplementsLock == BatchSpec => LockSpec
<1>1. BatchInit => LockInit
  BY DEF BatchInit
<1> QED
  BY <1>1, BatchLockStep, PTL DEF BatchSpec, LockSpec

(* The inductive invariant holds of every behaviour. *)
LEMMA BatchInvariance == RespectLease /\ BatchSpec => []BatchInv
<1>1. RespectLease /\ BatchInv /\ [BatchNext]_batchVars => BatchInv'
  BY BatchStepInv
<1>2. CASE RespectLease
  <2>1. BatchInv /\ [BatchNext]_batchVars => BatchInv'
    BY <1>1, <1>2
  <2> QED
    BY <2>1, BatchInitInv, PTL DEF BatchSpec
<1>3. CASE ~RespectLease
  BY <1>3
<1> QED
  BY <1>2, <1>3

(* With no section outlasting its lease, the readiness document never claims  *)
(* more than the collections hold, whatever crashes, fails or is lost.        *)
THEOREM BatchReadinessTruthful == RespectLease /\ BatchSpec => []ReadinessTruthful
<1>1. BatchInv => ReadinessTruthful
  BY DEF BatchInv, ReadInv
<1> QED
  BY <1>1, BatchInvariance, PTL

(* So a gate that says "ready" stands over one run's pair of collections: what  *)
(* a section that outlasts its lease breaks.                                   *)
THEOREM BatchReadyPairWhole == RespectLease /\ BatchSpec => []ReadyPairIsWhole
<1>1. BatchInv => ReadyPairIsWhole
  BY DEF BatchInv, ReadInv, ReadinessTruthful, ReadyPairIsWhole, Parts
<1> QED
  BY <1>1, BatchInvariance, PTL

(* A returned source capture describes one generation. *)
THEOREM BatchCaptureFaithful == RespectLease /\ BatchSpec => []CaptureFaithful
<1>1. BatchInv => CaptureFaithful
  BY DEF BatchInv, ReadInv, CaptureInv, CaptureFaithful
<1> QED
  BY <1>1, BatchInvariance, PTL

(* So does an answer of the API, which never takes the lock. *)
THEOREM BatchApiFaithful == RespectLease /\ BatchSpec => []ApiAnswerFaithful
<1>1. BatchInv => ApiAnswerFaithful
  BY DEF BatchInv, ReadInv, ApiInv, ApiAnswerFaithful
<1> QED
  BY <1>1, BatchInvariance, PTL

--------------------------------------------------------------------------------
(* A run that has finished stays finished. *)
LEMMA RetiredGrows ==
  ASSUME BatchTypeOK, [BatchNext]_batchVars
  PROVE  Retired \subseteq Retired' /\ Retired' \subseteq Writers
<1>1. ASSUME NEW w \in Writers, WriterNext(w) PROVE Retired \subseteq Retired'
  BY <1>1
  DEF BatchTypeOK, Retired, WriterNext, WriterEnters, WriterRefused, WriterLeaves, Step,
      MarkPublishing, MarkPublishingFails, Promote, PromoteFails, Validate,
      ValidateFails, RecordFailure, Report, ReportFails
<1>2. ASSUME NEW c \in Captures, CaptureNext(c) PROVE Retired \subseteq Retired'
  BY <1>2
  DEF Retired, CaptureNext, CaptureEnters, CaptureRefused, CaptureIdentity, CaptureAls,
      CaptureCatalog, CaptureConfirm, CaptureFails, CaptureLeaves, CaptureStep, dataVars
<1>3. ASSUME NEW r \in Readers, ApiNext(r) PROVE Retired \subseteq Retired'
  BY <1>3 DEF Retired, ApiNext, ApiIdentity, ApiRows, ApiCatalog, ApiRecheck, ApiStep
<1>4. ASSUME NEW p \in Procs, DieInSection(p) PROVE Retired \subseteq Retired'
  BY <1>4 DEF Retired, DieInSection, dataVars
<1>5. CASE ClockTicks
  BY <1>5 DEF Retired, ClockTicks, dataVars
<1>6. CASE UNCHANGED batchVars
  BY <1>6 DEF Retired, batchVars
<1>7. Retired' \subseteq Writers
  BY DEF Retired
<1> QED
  BY <1>1, <1>2, <1>3, <1>4, <1>5, <1>6, <1>7 DEF BatchNext

(* Only the final readiness update of a run offers it, and only from a closed  *)
(* gate; every other step leaves the offer or withdraws it.                   *)
LEMMA OfferStep ==
  ASSUME BatchInv, [BatchNext]_batchVars
  PROVE  \/ Offered' \in {Offered, NoWriter}
         \/ \E w \in Writers : /\ Offered = NoWriter /\ w \notin Retired
                               /\ Offered' = w /\ Retired' = Retired \cup {w}
<1>0. BatchTypeOK /\ ReadInv
  BY DEF BatchInv
<1>1. CASE readiness' = readiness
  BY <1>1 DEF Offered
<1>2. ASSUME NEW w \in Writers, Report(w) \/ ReportFails(w), readiness' # readiness
      PROVE  \/ Offered' \in {Offered, NoWriter}
             \/ \E v \in Writers : /\ Offered = NoWriter /\ v \notin Retired
                                   /\ Offered' = v /\ Retired' = Retired \cup {v}
  <2>1. Step(w, "report", "leave") /\ readiness' = FinalDoc(w)
    BY <1>2 DEF Report, ReportFails
  <2>2. readiness = ReadinessFor(w, "publishing", {})
    BY <1>0, <2>1 DEF Step, ReadInv, WriterInv, Working
  <2>3. Offered = NoWriter
    BY <2>2 DEF Offered, ReadinessFor
  <2>4. Offered' \in {w, NoWriter}
    BY <2>1 DEF Offered, FinalDoc, ReadinessFor
  <2>5. w \notin Retired /\ Retired' = Retired \cup {w}
    BY <1>0, <2>1 DEF Step, Retired, BatchTypeOK
  <2> QED
    BY <2>3, <2>4, <2>5
<1>3. ASSUME NEW w \in Writers, WriterNext(w), ~Report(w), ~ReportFails(w)
      PROVE  Offered' \in {Offered, NoWriter}
  <2>1. \/ readiness' = readiness
        \/ readiness' = ReadinessFor(w, "publishing", {})
        \/ readiness' = ReadinessFor(w, "failed", published[w])
    BY <1>3
    DEF WriterNext, WriterEnters, WriterRefused, WriterLeaves, MarkPublishing,
        MarkPublishingFails, Promote, PromoteFails, Validate, ValidateFails,
        RecordFailure, FailedDoc
  <2> QED
    BY <2>1 DEF Offered, ReadinessFor
<1>4. ASSUME NEW c \in Captures, CaptureNext(c) PROVE readiness' = readiness
  BY <1>4
  DEF CaptureNext, CaptureEnters, CaptureRefused, CaptureIdentity, CaptureAls,
      CaptureCatalog, CaptureConfirm, CaptureFails, CaptureLeaves, CaptureStep, dataVars
<1>5. ASSUME NEW r \in Readers, ApiNext(r) PROVE readiness' = readiness
  BY <1>5 DEF ApiNext, ApiIdentity, ApiRows, ApiCatalog, ApiRecheck, ApiStep
<1>6. ASSUME NEW p \in Procs, DieInSection(p) PROVE readiness' = readiness
  BY <1>6 DEF DieInSection, dataVars
<1>7. ClockTicks \/ UNCHANGED batchVars => readiness' = readiness
  BY DEF ClockTicks, dataVars, batchVars
<1> QED
  BY <1>1, <1>2, <1>3, <1>4, <1>5, <1>6, <1>7 DEF BatchNext

(* The publication implements the abstract register: one generation offered   *)
(* at a time, a closed gate between two, and no generation offered twice.      *)
THEOREM BatchImplementsPair == RespectLease /\ BatchSpec => ImplementsServingPair
<1>1. BatchInit => Serving!Init
  BY DEF BatchInit, Serving!Init, Offered, Retired
<1>2. ASSUME BatchInv, [BatchNext]_batchVars
      PROVE  [Serving!Next]_<<Offered, Retired>>
  <2>1. Retired' = Retired \cup Retired' /\ Retired' \in SUBSET Writers
    BY <1>2, RetiredGrows DEF BatchInv
  <2>2. CASE Offered' \in {Offered, NoWriter}
    <3>1. Serving!Retire(Retired')
      BY <2>1, <2>2 DEF Serving!Retire
    <3> QED
      BY <2>1, <3>1 DEF Serving!Next
  <2>3. ASSUME NEW w \in Writers,
               Offered = NoWriter, w \notin Retired, Offered' = w,
               Retired' = Retired \cup {w}
        PROVE  Serving!Next
    BY <2>3 DEF Serving!Next, Serving!Offer
  <2> QED
    BY <1>2, <2>2, <2>3, OfferStep
<1>3. BatchInv /\ [BatchNext]_batchVars => [Serving!Next]_<<Offered, Retired>>
  BY <1>2
<1> QED
  BY <1>1, <1>3, BatchInvariance, PTL DEF BatchSpec, ImplementsServingPair, Serving!Spec

--------------------------------------------------------------------------------
(***************************************************************************)
(* The session.  SessionInv relates what is on its way to what is kept and shown: an  *)
(* A/B pair a request has seen is retired, so if it is still offered at the     *)
(* second look it was offered all the while (RequestOK); the dict holds nothing  *)
(* asked for before it was made, each key once (CacheInv); what a live run has   *)
(* read, and the answer it waits for, is of its page, its filters and after the  *)
(* last clearing (RunInv); and so is what the analytics page keeps between       *)
(* submissions (LastInv).  ScreenInv, what is shown, follows at each Show.      *)
(***************************************************************************)

(* What a request may carry, and what an answer may be. *)
Args == {None, "first"} \cup Orders \cup Callers \cup 1..3
Answers == [source : Sources, arg : Args, rows : Generations \cup {None},
            named : Generations \cup {None}, error : {None} \cup Errors]
Requests == [at : {"idle", "look", "rows", "again", "once", "answered"},
             source : Sources, arg : Args,
             seen : Generations \cup Versions \cup {None},
             rows : Generations \cup {None}, answer : Answers]

(* The rows of an accepted answer are of the generation it names. *)
Consistent(a) == a.error = None /\ a.source \in Bracketed => a.rows = a.named

(* An A/B pair a request has seen is not offered a second time: if it still is, *)
(* it was all the while, and the rows read are its own.                        *)
RequestOK(q) ==
    /\ q.at \in {"look", "rows", "again"} => q.source \in Bracketed
    /\ q.at \in {"rows", "again"} =>
           IF q.source = "hybrid" THEN q.seen \in Versions
           ELSE q.seen \in Generations /\ q.seen \in retired
    /\ q.at = "again" => IF q.source = "hybrid" THEN q.rows = GenOf[q.seen]
                         ELSE q.rows = q.seen \/ offered # q.seen
    /\ Consistent(q.answer)

RequestsInv ==
    /\ offered \in Generations \cup {None} /\ retired \subseteq Generations
    /\ offered # None => offered \in retired
    /\ current \in Versions \cup {None} /\ failures \in Nat
    /\ request \in [Callers -> Requests]
    /\ \A c \in Callers : RequestOK(request[c])

--------------------------------------------------------------------------------
Payloads == {p \in [run : Callers, answer : Answers] :
                p.answer.error = None /\ Consistent(p.answer)}
Entries == {e \in [key : Sources \X Args, payload : Payloads] :
                e.key = KeyOf(e.payload.answer)}
Items == [source : Sources, arg : Args, refresh : BOOLEAN]

(* What a page may show: both lists on one page only, and on the analytics page  *)
(* the ranking that was chosen.                                               *)
Belongs(page, order, source, arg) ==
    /\ page # "recommendations" => source \notin Bracketed
    /\ page = "analytics" /\ source = "products" => arg = order

PageItems(page, order) == {item \in Items : Belongs(page, order, item.source, item.arg)}
PagePayloads(page, order) ==
    {p \in Payloads : /\ p.run >= cleared
                      /\ Belongs(page, order, p.answer.source, p.answer.arg)}

Runs == [at : {"none", "top", "reading", "asking"}, page : Pages \cup {None},
         event : {"clear", "submit", "refresh", "retry", "other", None},
         order : Orders \cup {None}, todo : Seq(Items), dict : Nat,
         got : SUBSET Payloads, changed : BOOLEAN]
Filters == [order : Orders \cup {None}, got : SUBSET Payloads]
Sessions == [active : BOOLEAN, refresh : BOOLEAN, retry : BOOLEAN, last : Filters]
Screens == [run : Nat, page : Pages, got : SUBSET Payloads,
            order : Orders \cup {None}, retry : BOOLEAN, warned : BOOLEAN]

UiTypes ==
    /\ script \in [Callers -> Runs]
    /\ now \in 0..Cardinality(Callers)
    /\ session \in Sessions
    /\ screen \in Screens
    /\ cleared \in Nat /\ cleared <= now

(* The dict holds what was asked for after it was made, each key once. *)
KeptEntries == {e \in Entries : e.payload.run >= cleared}
Distinct(s) == \A i, j \in 1..Len(s) : s[i].key = s[j].key => i = j
CacheInv == cache \in Seq(KeptEntries) /\ Distinct(cache) /\ Len(cache) <= MaxCached

(* What the live run has asked for, and the answer it waits for, is its page's. *)
PendingOK(r) ==
    /\ Busy(r) => Belongs(script[r].page, script[r].order,
                          request[r].source, request[r].arg)
    /\ request[r].at = "answered" /\ request[r].answer.error = None =>
           Belongs(script[r].page, script[r].order,
                   request[r].answer.source, request[r].answer.arg)

RunInv(r) ==
    /\ script[r].at = "asking" => script[r].dict <= r
    /\ Live(r) =>
           /\ script[r].at # "none" => screen.run < r /\ script[r].page \in Pages
           /\ script[r].at = "top" => script[r].got = {}
           /\ script[r].at \in {"reading", "asking"} =>
                  script[r].todo \in Seq(PageItems(script[r].page, script[r].order))
           /\ script[r].at = "asking" => PendingOK(r)
           /\ script[r].got \subseteq PagePayloads(script[r].page, script[r].order)

LastInv == session.last.got \subseteq PagePayloads("analytics", session.last.order)

ScreenInv ==
    /\ screen.run <= now
    /\ ClearedIsFresh /\ ComparisonHonest /\ FiltersMatch

SessionInv ==
    /\ RequestsInv /\ UiTypes /\ CacheInv
    /\ \A r \in Callers : RunInv(r)
    /\ LastInv /\ ScreenInv

(* A function on 1..n is a sequence of length n. *)
LEMMA SeqFromFunction ==
  ASSUME NEW S, NEW n \in Nat, NEW f \in [1..n -> S]
  PROVE  f \in Seq(S) /\ Len(f) = n
  BY SMT

--------------------------------------------------------------------------------
(* The dict: what the operators that make a new one return. *)

(* A sequence without its i-th element. *)
LEMMA RemoveFacts ==
  ASSUME NEW S, NEW s \in Seq(S), NEW i \in 1..Len(s)
  PROVE  /\ RemoveAt(s, i) \in Seq(S)
         /\ Len(RemoveAt(s, i)) = Len(s) - 1
         /\ \A j \in 1..Len(s) - 1 :
                RemoveAt(s, i)[j] = s[IF j < i THEN j ELSE j + 1]
<1> DEFINE before == SubSeq(s, 1, i - 1)
           after == SubSeq(s, i + 1, Len(s))
<1>0. Len(s) \in Nat /\ i \in Nat /\ i >= 1 /\ i <= Len(s)
  BY LenProperties
<1>1. \A j \in 1..Len(s) : s[j] \in S
  BY ElementOfSeq
<1>2. /\ before \in Seq(S) /\ Len(before) = i - 1
      /\ \A j \in 1..i - 1 : before[j] = s[j]
  <2>1. \A j \in 1..i - 1 : s[j] \in S
    BY <1>0, <1>1
  <2>2. /\ before \in Seq(S)
        /\ Len(before) = IF 1 <= i - 1 THEN (i - 1) - 1 + 1 ELSE 0
        /\ \A j \in 1..(i - 1) - 1 + 1 : before[j] = s[1 + j - 1]
    BY <1>0, <2>1, SubSeqProperties
  <2> HIDE DEF before
  <2> QED
    BY <1>0, <2>2
<1>3. /\ after \in Seq(S) /\ Len(after) = Len(s) - i
      /\ \A j \in 1..Len(s) - i : after[j] = s[i + j]
  <2>1. \A j \in i + 1..Len(s) : s[j] \in S
    BY <1>0, <1>1
  <2>2. /\ after \in Seq(S)
        /\ Len(after) = IF i + 1 <= Len(s) THEN Len(s) - (i + 1) + 1 ELSE 0
        /\ \A j \in 1..Len(s) - (i + 1) + 1 : after[j] = s[(i + 1) + j - 1]
    BY <1>0, <2>1, SubSeqProperties
  <2> HIDE DEF after
  <2>3. Len(after) = Len(s) - i
    BY <1>0, <2>2
  <2>4. ASSUME NEW j \in 1..Len(s) - i PROVE after[j] = s[i + j]
    <3>1. j \in 1..Len(s) - (i + 1) + 1 /\ (i + 1) + j - 1 = i + j
      BY <1>0
    <3> QED
      BY <2>2, <3>1
  <2> QED
    BY <2>2, <2>3, <2>4
<1>4. RemoveAt(s, i) = before \o after
  BY DEF RemoveAt
<1> HIDE DEF before, after
<1>5. /\ before \o after \in Seq(S)
      /\ Len(before \o after) = Len(before) + Len(after)
      /\ \A j \in 1..Len(before) + Len(after) :
             (before \o after)[j] = IF j <= Len(before) THEN before[j]
                                    ELSE after[j - Len(before)]
  BY <1>2, <1>3, ConcatProperties
<1>6. ASSUME NEW j \in 1..Len(s) - 1
      PROVE  (before \o after)[j] = s[IF j < i THEN j ELSE j + 1]
  <2>1. (before \o after)[j] = IF j <= i - 1 THEN before[j] ELSE after[j - (i - 1)]
    BY <1>0, <1>2, <1>3, <1>5
  <2>2. CASE j < i
    <3>1. j <= i - 1 /\ j \in 1..i - 1
      BY <1>0, <2>2
    <3> QED
      BY <1>2, <2>1, <2>2, <3>1
  <2>3. CASE ~(j < i)
    <3>1. ~(j <= i - 1) /\ j - (i - 1) \in 1..Len(s) - i /\ i + (j - (i - 1)) = j + 1
      BY <1>0, <2>3
    <3> QED
      BY <1>3, <2>1, <2>3, <3>1
  <2> QED
    BY <2>2, <2>3
<1>7. Len(before) + Len(after) = Len(s) - 1
  BY <1>0, <1>2, <1>3
<1> QED
  BY <1>4, <1>5, <1>6, <1>7

(* Without an entry each key is still there once. *)
LEMMA RemoveKeeps ==
  ASSUME NEW S, NEW s \in Seq(S), Distinct(s), NEW i \in 1..Len(s)
  PROVE  Distinct(RemoveAt(s, i))
<1> DEFINE t == RemoveAt(s, i)
           at(j) == IF j < i THEN j ELSE j + 1
<1>0. Len(s) \in Nat /\ i \in Nat
  BY LenProperties
<1>1. Len(t) = Len(s) - 1 /\ \A j \in 1..Len(s) - 1 : t[j] = s[at(j)]
  BY RemoveFacts
<1> HIDE DEF t
<1>2. ASSUME NEW j \in 1..Len(t), NEW k \in 1..Len(t), t[j].key = t[k].key PROVE j = k
  <2>1. at(j) \in 1..Len(s) /\ at(k) \in 1..Len(s)
    BY <1>0, <1>1
  <2>2. s[at(j)].key = s[at(k)].key
    BY <1>1, <1>2
  <2>3. at(j) = at(k)
    BY <2>1, <2>2 DEF Distinct
  <2> QED
    BY <1>0, <1>1, <2>3
<1>3. Distinct(t)
  BY <1>2 DEF Distinct
<1> QED
  BY <1>3 DEF t

(* The oldest entry goes. *)
LEMMA TailKeeps ==
  ASSUME NEW S, NEW s \in Seq(S), Distinct(s), s # <<>>
  PROVE  Tail(s) \in Seq(S) /\ Len(Tail(s)) = Len(s) - 1 /\ Distinct(Tail(s))
<1> DEFINE t == Tail(s)
<1>1. t \in Seq(S) /\ Len(t) = Len(s) - 1 /\ \A i \in 1..Len(t) : t[i] = s[i + 1]
  BY HeadTailProperties
<1>2. Len(s) \in Nat
  BY LenProperties
<1> HIDE DEF t
<1>3. ASSUME NEW j \in 1..Len(t), NEW k \in 1..Len(t), t[j].key = t[k].key PROVE j = k
  <2>1. j + 1 \in 1..Len(s) /\ k + 1 \in 1..Len(s)
    BY <1>1, <1>2
  <2>2. s[j + 1].key = s[k + 1].key
    BY <1>1, <1>3
  <2>3. j + 1 = k + 1
    BY <2>1, <2>2 DEF Distinct
  <2> QED
    BY <1>2, <2>3
<1>4. Distinct(t)
  BY <1>3 DEF Distinct
<1> QED
  BY <1>1, <1>4 DEF t

(* An entry of a key that is not there. *)
LEMMA AppendKeeps ==
  ASSUME NEW S, NEW s \in Seq(S), Distinct(s), NEW e \in S,
         \A i \in 1..Len(s) : s[i].key # e.key
  PROVE  Append(s, e) \in Seq(S) /\ Len(Append(s, e)) = Len(s) + 1
         /\ Distinct(Append(s, e))
<1> DEFINE t == Append(s, e)
<1>1. /\ t \in Seq(S) /\ Len(t) = Len(s) + 1 /\ t[Len(s) + 1] = e
      /\ \A i \in 1..Len(s) : t[i] = s[i]
  BY AppendProperties
<1>2. Len(s) \in Nat
  BY LenProperties
<1> HIDE DEF t
<1>3. ASSUME NEW j \in 1..Len(t), NEW k \in 1..Len(t), t[j].key = t[k].key PROVE j = k
  <2>1. \A i \in 1..Len(t) : i \in 1..Len(s) \/ i = Len(s) + 1
    BY <1>1, <1>2
  <2>2. CASE j \in 1..Len(s) /\ k \in 1..Len(s)
    BY <1>1, <1>3, <2>2 DEF Distinct
  <2>3. CASE j = Len(s) + 1 \/ k = Len(s) + 1
    BY <1>1, <1>3, <2>1, <2>3
  <2> QED
    BY <2>1, <2>2, <2>3
<1>4. Distinct(t)
  BY <1>3 DEF Distinct
<1> QED
  BY <1>1, <1>4 DEF t

(* Put keeps a dict a dict, within its bound. *)
LEMMA PutKeeps ==
  ASSUME NEW S, cache \in Seq(S), Distinct(cache), Len(cache) <= MaxCached, NEW e \in S
  PROVE  Put(e) \in Seq(S) /\ Distinct(Put(e)) /\ Len(Put(e)) <= MaxCached
<1> DEFINE at == {i \in DOMAIN cache : cache[i].key = e.key}
           replaced == [i \in DOMAIN cache |-> IF i \in at THEN e ELSE cache[i]]
           with == IF at = {} THEN Append(cache, e) ELSE replaced
<1>0. DOMAIN cache = 1..Len(cache) /\ Len(cache) \in Nat /\ MaxCached \in Nat
  BY LenProperties, SessionConstants
<1>1. with \in Seq(S) /\ Distinct(with) /\ Len(with) <= MaxCached + 1
  <2>1. CASE at = {}
    <3>1. \A i \in 1..Len(cache) : cache[i].key # e.key
      BY <1>0, <2>1
    <3>2. /\ Append(cache, e) \in Seq(S) /\ Len(Append(cache, e)) = Len(cache) + 1
          /\ Distinct(Append(cache, e))
      BY <3>1, AppendKeeps
    <3>3. with = Append(cache, e)
      BY <2>1
    <3> HIDE DEF with
    <3> QED
      BY <1>0, <3>2, <3>3
  <2>2. CASE at # {}
    <3>1. \A i \in 1..Len(cache) : cache[i] \in S
      BY ElementOfSeq
    <3>2. replaced \in [1..Len(cache) -> S]
      BY <1>0, <3>1
    <3>3. replaced \in Seq(S) /\ Len(replaced) = Len(cache)
      BY <1>0, <3>2, SeqFromFunction
    <3>4. \A i \in 1..Len(cache) : replaced[i].key = cache[i].key
      BY <1>0
    <3>5. with = replaced
      BY <2>2
    <3> HIDE DEF with, replaced
    <3>6. Distinct(replaced)
      BY <3>3, <3>4 DEF Distinct
    <3> QED
      BY <1>0, <3>3, <3>5, <3>6
  <2> QED
    BY <2>1, <2>2
<1>2. Put(e) = IF Len(with) > MaxCached THEN Tail(with) ELSE with
  BY DEF Put
<1> HIDE DEF with
<1>3. CASE Len(with) > MaxCached
  <2>1. with # <<>>
    BY <1>0, <1>3, EmptySeq
  <2>2. Tail(with) \in Seq(S) /\ Len(Tail(with)) = Len(with) - 1 /\ Distinct(Tail(with))
    BY <1>1, <2>1, TailKeeps
  <2>3. Len(with) \in Nat
    BY <1>1, LenProperties
  <2> QED
    BY <1>0, <1>1, <1>2, <1>3, <2>2, <2>3
<1>4. CASE ~(Len(with) > MaxCached)
  <2>1. Len(with) \in Nat
    BY <1>1, LenProperties
  <2> QED
    BY <1>0, <1>1, <1>2, <1>4, <2>1
<1> QED
  BY <1>3, <1>4

(* So does dropping the entry of an item. *)
LEMMA WithoutKeeps ==
  ASSUME NEW S, cache \in Seq(S), Distinct(cache), Len(cache) <= MaxCached, NEW item
  PROVE  /\ Without(item) \in Seq(S) /\ Distinct(Without(item))
         /\ Len(Without(item)) <= MaxCached
<1>1. CASE Cached(item) = {}
  BY <1>1 DEF Without
<1>2. CASE Cached(item) # {}
  <2>0. DOMAIN cache = 1..Len(cache) /\ Len(cache) \in Nat /\ MaxCached \in Nat
    BY LenProperties, SessionConstants
  <2>1. PICK i \in 1..Len(cache) : Without(item) = RemoveAt(cache, i)
    BY <1>2, <2>0 DEF Without, Cached
  <2>2. RemoveAt(cache, i) \in Seq(S) /\ Len(RemoveAt(cache, i)) = Len(cache) - 1
    BY RemoveFacts
  <2>3. Distinct(RemoveAt(cache, i))
    BY RemoveKeeps
  <2> QED
    BY <2>0, <2>1, <2>2, <2>3
<1> QED
  BY <1>1, <1>2

--------------------------------------------------------------------------------
(* The API: what the steps of a request make of it. *)

LEMMA AnswerFacts ==
  ASSUME NEW source \in Sources, NEW arg \in Args, NEW rows \in Generations \cup {None},
         NEW named \in Generations \cup {None}
  PROVE  /\ Answer(source, arg, rows, named) \in Answers
         /\ Answer(source, arg, rows, named).source = source
         /\ Answer(source, arg, rows, named).arg = arg
         /\ Answer(source, arg, rows, named).error = None
         /\ Answer(source, arg, rows, named).rows = rows
         /\ Answer(source, arg, rows, named).named = named
  BY DEF Answer, Answers

LEMMA RefusalFacts ==
  ASSUME NEW source \in Sources, NEW error \in Errors
  PROVE  /\ Refusal(source, error) \in Answers
         /\ Refusal(source, error).source = source
         /\ Refusal(source, error).error = error
         /\ Refusal(source, error).error # None
         /\ Consistent(Refusal(source, error))
<1>1. None \in Args /\ error # None
  BY ApiConstants DEF Args
<1>2. Answer(source, None, None, None) \in Answers
  BY <1>1, AnswerFacts
<1>3. /\ Refusal(source, error) \in Answers
      /\ Refusal(source, error).source = source
      /\ Refusal(source, error).error = error
  BY <1>2 DEF Refusal, Answers, Answer
<1> QED
  BY <1>1, <1>3 DEF Consistent

LEMMA SourceKinds ==
  /\ Bracketed \subseteq Sources /\ Metrics \subseteq Sources /\ Archived \subseteq Sources
  /\ "health" \in Sources
  BY DEF Bracketed, Metrics, Archived, Sources

LEMMA QuietFacts ==
  /\ Quiet \in Requests /\ Quiet.at = "idle" /\ RequestOK(Quiet)
<1>1. Refusal("health", "none") \in Answers /\ Consistent(Refusal("health", "none"))
  BY RefusalFacts, SourceKinds DEF Errors
<1>2. None \in Args
  BY DEF Args
<1> DEFINE refusal == Refusal("health", "none")
<1> HIDE DEF refusal
<1>3. Quiet = [at |-> "idle", source |-> "health", arg |-> None, seen |-> None,
               rows |-> None, answer |-> refusal]
  BY DEF Quiet, refusal
<1>4. refusal \in Answers /\ Consistent(refusal)
  BY <1>1 DEF refusal
<1> QED
  BY <1>2, <1>3, <1>4, SourceKinds DEF Requests, RequestOK

(* A request becomes another record, and nothing else of the API changes. *)
LEMMA RequestPut ==
  ASSUME RequestsInv, NEW c \in Callers, NEW q \in Requests, RequestOK(q),
         request' = [request EXCEPT ![c] = q], UNCHANGED stores, failures' \in Nat
  PROVE  RequestsInv'
<1>1. offered' = offered /\ retired' = retired /\ current' = current
  BY DEF stores
<1>2. \A r : RequestOK(r) => RequestOK(r)'
  BY <1>1 DEF RequestOK
<1>3. request' \in [Callers -> Requests]
  BY DEF RequestsInv
<1>4. ASSUME NEW r \in Callers PROVE RequestOK(request[r])'
  <2>1. request'[r] = q \/ request'[r] = request[r]
    BY DEF RequestsInv
  <2>2. RequestOK(request[r]) /\ RequestOK(q)
    BY DEF RequestsInv
  <2>3. RequestOK(request'[r])
    BY <2>1, <2>2
  <2> QED
    BY <1>1, <2>3 DEF RequestOK
<1> QED
  BY <1>1, <1>3, <1>4 DEF RequestsInv

(* A step of the API on a request: it reads on, or it is answered, with an error *)
(* or for the source and the parameter that were asked for.                    *)
ReadsOn(q, r) ==
    \/ r.at \in {"rows", "again"} /\ r.source = q.source /\ r.arg = q.arg
    \/ /\ r.at = "answered"
       /\ r.answer.error = None =>
              /\ r.answer.source = q.source
              /\ q.source \in Bracketed \/ r.answer.arg = q.arg

ReadTo(c, q) ==
    /\ Busy(c)
    /\ q \in Requests /\ RequestOK(q) /\ ReadsOn(request[c], q)
    /\ request' = [request EXCEPT ![c] = q]
    /\ UNCHANGED stores /\ failures' \in Nat

(* An answer that is consistent ends a request. *)
LEMMA Responds ==
  ASSUME NEW c \in Callers, NEW a \in Answers, Consistent(a), Busy(c), Respond(c, a),
         UNCHANGED stores, failures' \in Nat,
         a.error = None => /\ a.source = request[c].source
                           /\ request[c].source \in Bracketed \/ a.arg = request[c].arg
  PROVE  \E q : ReadTo(c, q)
<1> DEFINE q == [Quiet EXCEPT !.at = "answered", !.answer = a]
<1>1. q \in Requests /\ q.at = "answered" /\ q.answer = a
  BY QuietFacts DEF Requests
<1>2. request' = [request EXCEPT ![c] = q]
  BY DEF Respond
<1> HIDE DEF q
<1>3. RequestOK(q) /\ ReadsOn(request[c], q)
  BY <1>1 DEF RequestOK, ReadsOn
<1>4. ReadTo(c, q)
  BY <1>1, <1>2, <1>3 DEF ReadTo
<1> QED
  BY <1>4

LEMMA Refuses ==
  ASSUME RequestsInv, NEW c \in Callers, NEW e \in Errors, Busy(c), Refuse(c, e),
         UNCHANGED stores, failures' \in Nat
  PROVE  \E q : ReadTo(c, q)
<1>1. request[c].source \in Sources
  BY DEF RequestsInv, Requests
<1> DEFINE a == Refusal(request[c].source, e)
<1>2. a \in Answers /\ Consistent(a) /\ a.error # None
  BY <1>1, RefusalFacts
<1>3. Respond(c, a)
  BY DEF Refuse
<1> HIDE DEF a
<1> QED
  BY <1>2, <1>3, Responds

(* Every step of the API on a request is of that kind. *)
LEMMA ReadStep ==
  ASSUME RequestsInv, NEW c \in Callers, Read(c)
  PROVE  \E q : ReadTo(c, q)
<1> DEFINE q == request[c]
<1>0. /\ q \in Requests /\ q.source \in Sources /\ q.arg \in Args /\ RequestOK(q)
      /\ failures \in Nat
  BY DEF RequestsInv, Requests
<1>1. ASSUME NEW S, Fails(c, S) PROVE \E r : ReadTo(c, r)
  <2>1. failures' \in Nat
    BY <1>0, <1>1 DEF Fails
  <2> QED
    BY <1>1, <2>1, Refuses DEF Fails, Errors
<1>2. ASSUME NEW S, ReadOnce(c, S) PROVE \E r : ReadTo(c, r)
  <2> DEFINE a == Answer(q.source, q.arg, None, None)
  <2>1. /\ a \in Answers /\ a.source = q.source /\ a.arg = q.arg
        /\ a.rows = None /\ a.named = None
    <3>1. None \in Generations \cup {None}
      OBVIOUS
    <3>2. q.source \in Sources /\ q.arg \in Args
      BY <1>0
    <3> HIDE DEF q
    <3> QED
      BY <3>1, <3>2 DEF Answer, Answers
  <2>2. Respond(c, a) /\ UNCHANGED <<stores, failures>> /\ Busy(c)
    BY <1>2 DEF ReadOnce, Busy
  <2> HIDE DEF a
  <2>3. Consistent(a)
    BY <2>1 DEF Consistent
  <2> QED
    BY <1>0, <2>1, <2>2, <2>3, Responds
<1>3. CASE Look(c)
  <2>0. Busy(c) /\ UNCHANGED stores /\ failures' \in Nat /\ q.source \in Bracketed
    BY <1>0, <1>3 DEF Look, Busy, RequestOK
  <2>1. CASE Identity(q.source) = None
    <3>1. Refuse(c, "not_published")
      BY <1>3, <2>1 DEF Look
    <3> QED
      BY <2>0, <3>1, Refuses DEF Errors
  <2>2. CASE Identity(q.source) # None
    <3> DEFINE found == Identity(q.source)
               r == [q EXCEPT !.at = "rows", !.seen = found, !.rows = None]
    <3>1. request' = [request EXCEPT ![c].at = "rows", ![c].seen = found,
                                     ![c].rows = None]
      BY <1>3, <2>2 DEF Look, Advance
    <3>2. request' = [request EXCEPT ![c] = r]
      BY <3>1 DEF RequestsInv
    <3>3. IF q.source = "hybrid" THEN found \in Versions
          ELSE found \in Generations /\ found \in retired
      BY <2>2 DEF Identity, RequestsInv
    <3>4. found \in Generations \cup Versions \cup {None}
      BY <3>3
    <3> HIDE DEF found
    <3>5. /\ r \in Requests /\ r.at = "rows" /\ r.seen = found /\ r.source = q.source
          /\ r.arg = q.arg /\ r.answer = q.answer
      BY <1>0, <3>4 DEF Requests
    <3> HIDE DEF r
    <3>6. RequestOK(r) /\ ReadsOn(q, r)
      BY <1>0, <2>0, <3>3, <3>5 DEF RequestOK, ReadsOn
    <3> QED
      BY <2>0, <3>2, <3>5, <3>6 DEF ReadTo
  <2> QED
    BY <2>1, <2>2
<1>4. CASE ReadRows(c)
  <2>0. /\ Busy(c) /\ UNCHANGED stores /\ failures' \in Nat /\ q.source \in Bracketed
        /\ q.at = "rows"
    BY <1>0, <1>4 DEF ReadRows, Busy, RequestOK
  <2>1. PICK g \in RowsFound(c) : Advance(c, "again", q.seen, g)
    BY <1>4 DEF ReadRows
  <2> DEFINE r == [q EXCEPT !.at = "again", !.seen = q.seen, !.rows = g]
  <2>2. request' = [request EXCEPT ![c] = r]
    BY <2>1 DEF Advance, RequestsInv
  <2>3. /\ g \in Generations \cup {None}
        /\ IF q.source = "hybrid" THEN g = GenOf[q.seen]
           ELSE g = q.seen \/ offered # q.seen
    <3>1. CASE q.source = "hybrid"
      <4>1. g = GenOf[q.seen] /\ q.seen \in Versions
        BY <1>0, <2>0, <2>1, <3>1 DEF RowsFound, RequestOK
      <4> QED
        BY <3>1, <4>1, ApiConstants
    <3>2. CASE q.source # "hybrid"
      <4>1. q.seen \in Generations /\ q.seen # None
        BY <1>0, <2>0, <3>2, ApiConstants DEF RequestOK
      <4> QED
        BY <2>1, <3>2, <4>1 DEF RowsFound, RequestsInv
    <3> QED
      BY <3>1, <3>2
  <2>5. /\ r \in Requests /\ r.at = "again" /\ r.seen = q.seen /\ r.source = q.source
        /\ r.arg = q.arg /\ r.answer = q.answer /\ r.rows = g
    BY <1>0, <2>3 DEF Requests
  <2> HIDE DEF r
  <2>6. RequestOK(r) /\ ReadsOn(q, r)
    BY <1>0, <2>0, <2>3, <2>5 DEF RequestOK, ReadsOn
  <2> QED
    BY <2>0, <2>2, <2>5, <2>6 DEF ReadTo
<1>5. CASE LookAgain(c)
  <2>0. /\ Busy(c) /\ UNCHANGED stores /\ failures' \in Nat /\ q.source \in Bracketed
        /\ q.at = "again"
    BY <1>0, <1>5 DEF LookAgain, Busy, RequestOK
  <2>1. CASE ~Unchanged(c)
    <3>1. Refuse(c, "snapshot_changed")
      BY <1>5, <2>1 DEF LookAgain
    <3> QED
      BY <2>0, <3>1, Refuses DEF Errors
  <2>2. CASE Unchanged(c)
    <3> DEFINE a == Answer(q.source, None, q.rows, Named(c))
    <3>1. Named(c) \in Generations /\ q.rows = Named(c)
      <4>1. CASE q.source = "hybrid"
        BY <1>0, <2>0, <4>1, ApiConstants DEF Named, RequestOK
      <4>2. CASE q.source # "hybrid"
        <5>1. offered = q.seen
          BY <2>2, <4>2 DEF Unchanged, Identity
        <5> QED
          BY <1>0, <2>0, <4>2, <5>1 DEF Named, RequestOK
      <4> QED
        BY <4>1, <4>2
    <3>2. None \in Args
      BY DEF Args
    <3>3. /\ a \in Answers /\ a.source = q.source /\ a.rows = q.rows
          /\ a.named = Named(c)
      BY <1>0, <3>1, <3>2, AnswerFacts
    <3>4. Respond(c, a)
      BY <1>5, <2>2 DEF LookAgain
    <3> HIDE DEF a
    <3>5. Consistent(a)
      BY <3>1, <3>3 DEF Consistent
    <3> QED
      BY <2>0, <3>3, <3>4, <3>5, Responds
  <2> QED
    BY <2>1, <2>2
<1>6. CASE Failing(c)
  BY <1>1, <1>6
  DEF Failing, StoreFails, SourceInvalid, ResponseInvalid, NoResponse, OffContract,
      DatabaseFails, ArtifactFails, RowsInvalid, MetricsInvalid, OrdersInvalid,
      EvaluationInvalid, EvidenceInvalid, OffSnapshot, OffMetrics, OffEvaluation,
      OffEvidence
<1>7. CASE ReadHealth(c) \/ ReadMetrics(c) \/ ReadArchived(c)
  BY <1>2, <1>7
  DEF ReadHealth, ReadMetrics, ReadArchived, ReadProducts, ReadDepartments, ReadTrends,
      ReadStreaming
<1> HIDE DEF q
<1> QED
  BY <1>3, <1>4, <1>5, <1>6, <1>7 DEF Read, ReadSnapshot

(* A publication leaves what requests rely on: a pair is offered once. *)
LEMMA PublishStep ==
  ASSUME RequestsInv, Publish
  PROVE  RequestsInv' /\ request' = request
<1>1. /\ request' = request /\ failures' = failures
      /\ current' \in Versions \cup {None}
      /\ offered' \in Generations \cup {None} /\ retired' \subseteq Generations
      /\ offered' # None => offered' \in retired'
      /\ retired \subseteq retired'
      /\ \A g \in retired : offered' = g => offered = g
  <2>1. CASE PublishPair /\ Offer
    BY <2>1 DEF PublishPair, Offer, Pair!Offer, RequestsInv
  <2>2. CASE PublishPair /\ Withdraw
    <3>1. None \notin Generations
      BY ApiConstants
    <3> QED
      BY <2>2, <3>1 DEF PublishPair, Withdraw, Pair!Retire, RequestsInv
  <2>3. CASE PublishHybrid
    BY <2>3 DEF PublishHybrid, Pointer!Advance, RequestsInv
  <2> QED
    BY <2>1, <2>2, <2>3 DEF Publish, PublishPair
<1>2. ASSUME NEW c \in Callers PROVE RequestOK(request[c])'
  <2>1. RequestOK(request[c]) /\ request[c]' = request[c]
    BY <1>1 DEF RequestsInv
  <2>2. request[c].at \in {"rows", "again"} /\ request[c].source # "hybrid"
            => request[c].seen \in retired' /\ (offered' = request[c].seen
                                                   => offered = request[c].seen)
    BY <1>1, <2>1 DEF RequestOK
  <2> QED
    BY <2>1, <2>2 DEF RequestOK
<1> QED
  BY <1>1, <1>2 DEF RequestsInv

--------------------------------------------------------------------------------
(* What a page reads belongs to it. *)

LEMMA Tuples ==
  ASSUME NEW S, NEW a \in S, NEW b \in S, NEW c \in S, NEW d \in S, NEW e \in S, NEW f \in S
  PROVE  /\ <<>> \in Seq(S) /\ <<a, b>> \in Seq(S) /\ <<a, b, c, d>> \in Seq(S)
         /\ <<a, b, c, d, e, f>> \in Seq(S)
  OBVIOUS

LEMMA ItemIn ==
  ASSUME NEW page, NEW order, NEW source \in Sources, NEW arg \in Args,
         NEW refresh \in BOOLEAN, Belongs(page, order, source, arg)
  PROVE  Item(source, arg, refresh) \in PageItems(page, order)
  BY DEF Item, Items, PageItems

LEMMA OverviewIn ==
  ASSUME NEW r \in Callers, NEW event
  PROVE  Overview(r, event) \in Seq(PageItems("overview", None))
<1> DEFINE S == PageItems("overview", None)
<1>1. {None, "first", r} \subseteq Args
  BY DEF Args
<1>2. {"health", "products", "departments", "trends", "registry", "streaming"}
          \subseteq Sources \ Bracketed
  BY DEF Sources, Metrics, Archived, Bracketed
<1>3. \A source \in Sources \ Bracketed, arg \in Args, refresh \in BOOLEAN :
          Item(source, arg, refresh) \in S
  BY ItemIn DEF Belongs
<1> HIDE DEF S
<1>4. /\ Item("health", None, FALSE) \in S /\ Item("products", "first", FALSE) \in S
      /\ Item("departments", None, FALSE) \in S /\ Item("trends", r, FALSE) \in S
      /\ Item("registry", None, FALSE) \in S
      /\ Item("streaming", None, event = "refresh") \in S
  BY <1>1, <1>2, <1>3
<1>5. Overview(r, event) \in Seq(S)
  BY <1>4, Tuples DEF Overview
<1> QED
  BY <1>5 DEF S

LEMMA AnalyticsIn ==
  ASSUME NEW event, NEW order \in Orders \cup {None}
  PROVE  Analytics(event, order) \in Seq(PageItems("analytics", order))
<1> DEFINE S == PageItems("analytics", order)
<1>1. {None, order} \subseteq Args
  BY DEF Args
<1>2. {"products", "departments", "trends", "orders"} \subseteq Sources \ Bracketed
  BY DEF Sources, Metrics, Archived, Bracketed
<1>3. \A source \in Sources \ Bracketed, arg \in Args :
          (source = "products" => arg = order) => Item(source, arg, TRUE) \in S
  BY ItemIn DEF Belongs
<1> HIDE DEF S
<1>4. /\ Item("trends", None, TRUE) \in S /\ Item("products", order, TRUE) \in S
      /\ Item("departments", None, TRUE) \in S /\ Item("orders", None, TRUE) \in S
  BY <1>1, <1>2, <1>3
<1>5. Analytics(event, order) \in Seq(S)
  <2>1. CASE event = "submit"
    <3> DEFINE a == Item("trends", None, TRUE)
               b == Item("products", order, TRUE)
               c == Item("departments", None, TRUE)
               d == Item("orders", None, TRUE)
    <3>1. a \in S /\ b \in S /\ c \in S /\ d \in S
      BY <1>4
    <3>2. Analytics(event, order) = <<a, b, c, d>>
      BY <2>1 DEF Analytics
    <3> HIDE DEF a, b, c, d
    <3> QED
      BY <3>1, <3>2, Tuples
  <2>2. CASE event # "submit"
    BY <1>4, <2>2, Tuples DEF Analytics
  <2> QED
    BY <2>1, <2>2
<1> QED
  BY <1>5 DEF S

LEMMA RecommendationsIn ==
  ASSUME NEW begun \in BOOLEAN, NEW again \in BOOLEAN, NEW order
  PROVE  Recommendations(begun, again) \in Seq(PageItems("recommendations", order))
<1> DEFINE S == PageItems("recommendations", order)
<1>1. None \in Args
  BY DEF Args
<1>2. {"hybrid", "als"} \subseteq Sources
  BY DEF Sources
<1>3. \A source \in Sources, arg \in Args : Item(source, arg, again) \in S
  BY ItemIn DEF Belongs
<1> HIDE DEF S
<1>4. Item("hybrid", None, again) \in S /\ Item("als", None, again) \in S
  BY <1>1, <1>2, <1>3
<1>5. Recommendations(begun, again) \in Seq(S)
  BY <1>4, Tuples DEF Recommendations
<1> QED
  BY <1>5 DEF S

LEMMA EvaluationIn ==
  ASSUME NEW event
  PROVE  Evaluation(event) \in Seq(PageItems("evaluation", None))
<1> DEFINE S == PageItems("evaluation", None)
           again == event = "refresh"
           one == <<Item("registry", None, again), Item("evaluation", None, again)>>
           three == [i \in 1..3 |-> Item("evidence", i, again)]
<1>1. None \in Args /\ 1..3 \subseteq Args
  BY DEF Args
<1>2. {"registry", "evaluation", "evidence"} \subseteq Sources \ Bracketed
  BY DEF Sources, Archived, Bracketed
<1>3. \A source \in Sources \ Bracketed, arg \in Args : Item(source, arg, again) \in S
  BY ItemIn DEF Belongs
<1> HIDE DEF S
<1>4. one \in Seq(S)
  BY <1>1, <1>2, <1>3, Tuples
<1>5. three \in Seq(S)
  <2>1. three \in [1..3 -> S]
    BY <1>1, <1>2, <1>3
  <2> HIDE DEF three
  <2> QED
    BY <2>1, SeqFromFunction
<1>6. Evaluation(event) = one \o three
  BY DEF Evaluation
<1> HIDE DEF one, three
<1>7. Evaluation(event) \in Seq(S)
  BY <1>4, <1>5, <1>6, ConcatProperties
<1> QED
  BY <1>7 DEF S

(* What belongs to no ranking belongs to whatever ranking is chosen elsewhere. *)
LEMMA OrderFree ==
  ASSUME NEW page, page # "analytics", NEW o, NEW p
  PROVE  PageItems(page, o) = PageItems(page, p)
  BY DEF PageItems, Belongs

LEMMA PlanIn ==
  ASSUME UiTypes, NEW r \in Callers, script[r].page \in Pages,
         NEW begun \in BOOLEAN, NEW again \in BOOLEAN
  PROVE  PlanOf(r, begun, again) \in Seq(PageItems(script[r].page, script[r].order))
<1> DEFINE page == script[r].page
           order == script[r].order
           event == script[r].event
<1>1. order \in Orders \cup {None}
  BY DEF UiTypes, Runs
<1>2. page \in {"overview", "analytics", "recommendations", "evaluation"}
  BY DEF Pages
<1>3. CASE page = "overview"
  <2>1. PlanOf(r, begun, again) = Overview(r, event)
    BY <1>3 DEF PlanOf
  <2> QED
    BY <1>3, <2>1, OverviewIn, OrderFree
<1>4. CASE page = "analytics"
  <2>1. PlanOf(r, begun, again) = Analytics(event, order)
    BY <1>4 DEF PlanOf
  <2> QED
    BY <1>1, <1>4, <2>1, AnalyticsIn
<1>5. CASE page = "recommendations"
  <2>1. PlanOf(r, begun, again) = Recommendations(begun, again)
    BY <1>5 DEF PlanOf
  <2> QED
    BY <1>5, <2>1, RecommendationsIn
<1>6. CASE page = "evaluation"
  <2>1. PlanOf(r, begun, again) = Evaluation(event)
    BY <1>6 DEF PlanOf
  <2> QED
    BY <1>6, <2>1, EvaluationIn, OrderFree
<1> QED
  BY <1>2, <1>3, <1>4, <1>5, <1>6

--------------------------------------------------------------------------------
(* What a step leaves alone keeps what is known of it. *)

LEMMA CacheSame ==
  ASSUME CacheInv, cache' = cache, cleared' = cleared PROVE CacheInv'
  BY DEF CacheInv, KeptEntries, Distinct

LEMMA LastSame ==
  ASSUME LastInv, session'.last = session.last, cleared' = cleared PROVE LastInv'
  BY DEF LastInv, PagePayloads

LEMMA ScreenSame ==
  ASSUME UiTypes, ScreenInv, screen' = screen, cleared' = cleared, now' \in Nat, now <= now'
  PROVE  ScreenInv'
<1>1. screen.run \in Nat /\ now \in Nat
  BY DEF UiTypes, Screens
<1> QED
  BY <1>1 DEF ScreenInv, ClearedIsFresh, ComparisonHonest, FiltersMatch, Of

(* A run that is not touched, and whose request is not. *)
LEMMA RunSame ==
  ASSUME NEW r \in Callers, RunInv(r), script'[r] = script[r], request'[r] = request[r],
         now' = now, Live(r) => cleared' = cleared /\ screen' = screen
  PROVE  RunInv(r)'
<1>1. Live(r)' = Live(r)
  BY DEF Live
<1>2. PendingOK(r)' = PendingOK(r)
  BY DEF PendingOK, Busy
<1> QED
  BY <1>1, <1>2 DEF RunInv, PagePayloads, PageItems

(* A run becomes another record; the others are as before. *)
LEMMA RunPut ==
  ASSUME UiTypes, NEW r \in Callers, NEW run \in Runs,
         script' = [script EXCEPT ![r] = run], RunInv(r)',
         \A q \in Callers \ {r} : RunInv(q) /\ request'[q] = request[q],
         now' = now, \A q \in Callers \ {r} : Live(q) => cleared' = cleared /\ screen' = screen
  PROVE  script' \in [Callers -> Runs] /\ \A q \in Callers : RunInv(q)'
<1>1. script' \in [Callers -> Runs]
  BY DEF UiTypes
<1>2. ASSUME NEW q \in Callers \ {r} PROVE RunInv(q)'
  <2>1. script'[q] = script[q]
    BY DEF UiTypes
  <2> QED
    BY <2>1, RunSame
<1> QED
  BY <1>1, <1>2

(* The numbers of runs are numbers. *)
LEMMA Numbers ==
  ASSUME UiTypes
  PROVE  /\ Cardinality(Callers) \in Nat /\ now \in Nat /\ cleared \in Nat /\ cleared <= now
         /\ \A r \in Callers : r \in Nat /\ r >= 1
         /\ screen.run \in Nat
<1>1. Cardinality(Callers) \in Nat
  BY SessionConstants, FS_CardinalityType
<1>2. \A r \in Callers : r \in Nat /\ r >= 1
  BY <1>1, SessionConstants
<1> QED
  BY <1>1, <1>2 DEF UiTypes, Screens

LEMMA NoRunFacts ==
  /\ NoRun \in Runs /\ NoRun.at = "none" /\ NoRun.got = {}
<1> <<>> \in Seq(Items)
  BY EmptySeq
<1> QED
  BY DEF NoRun, Runs

(* The record of a run that a click begins. *)
Top(page, order, event) ==
    [NoRun EXCEPT !.at = "top", !.page = page, !.event = event, !.order = order]

LEMMA TopRun ==
  ASSUME NEW page \in Pages, NEW order \in Orders \cup {None},
         NEW event \in {"clear", "submit", "refresh", "retry", "other"}
  PROVE  /\ Top(page, order, event) \in Runs /\ Top(page, order, event).at = "top"
         /\ Top(page, order, event).page = page /\ Top(page, order, event).got = {}
<1>1. /\ Top(page, order, event).at = "top" /\ Top(page, order, event).page = page
      /\ Top(page, order, event).got = {}
  BY DEF NoRun, Top
<1>2. NoRun \in Runs
  BY NoRunFacts
<1>3. Top(page, order, event) \in Runs
  BY <1>2 DEF Runs, Top
<1> QED
  BY <1>1, <1>3

(* A run that ended, or that waits and is not the live one any more. *)
LEMMA RunOver ==
  ASSUME NEW r \in Callers, script'[r].at = "none", script'[r].got = {}
  PROVE  RunInv(r)'
  BY DEF RunInv

--------------------------------------------------------------------------------
(* One lemma per action of the session. *)

(* The record a click gives each run. *)
ClickedRun(r, page, order, event) ==
    CASE r = now + 1 -> Top(page, order, event)
      [] r = now -> Superseded(script[r])
      [] OTHER -> script[r]

LEMMA ClickIs ==
  ASSUME Click
  PROVE  \E page \in Links[now + 1][screen.page] : \E order \in Orders \cup {None} :
         \E event \in {"clear", "submit", "refresh", "retry", "other"} :
             /\ script' = [r \in Callers |-> ClickedRun(r, page, order, event)]
             /\ session' = [session EXCEPT !.retry = @ \/ event = "retry"]
<1>1. PICK page \in Links[now + 1][screen.page], order \in Orders \cup {None},
           event \in {"clear", "submit", "refresh", "retry", "other"} :
           /\ order # None <=> (event = "submit" /\ page = "analytics")
           /\ event = "other" \/ (page = screen.page /\ Clickable(event, page))
           /\ script' = [r \in Callers |->
                  CASE r = now + 1 -> [NoRun EXCEPT !.at = "top", !.page = page,
                                          !.event = event, !.order = order]
                    [] r = now -> Superseded(script[r])
                    [] OTHER -> script[r]]
           /\ session' = [session EXCEPT !.retry = @ \/ event = "retry"]
  BY Zenon DEF Click
<1>2. script' = [r \in Callers |-> ClickedRun(r, page, order, event)]
  BY <1>1, Zenon DEF ClickedRun, Top
<1>3. session' = [session EXCEPT !.retry = @ \/ event = "retry"]
  BY <1>1, Zenon
<1> QED
  BY <1>2, <1>3, Zenon

LEMMA ClickStep == ASSUME SessionInv, Click PROVE SessionInv'
<1>0. /\ RequestsInv /\ UiTypes /\ CacheInv /\ LastInv /\ ScreenInv
      /\ \A r \in Callers : RunInv(r)
      /\ UNCHANGED <<apiVars, cache, screen, cleared>> /\ now' = now + 1
      /\ now + 1 \in Callers
  BY DEF SessionInv, Click
<1>1. PICK page \in Links[now + 1][screen.page], order \in Orders \cup {None},
           event \in {"clear", "submit", "refresh", "retry", "other"} :
         /\ script' = [r \in Callers |-> ClickedRun(r, page, order, event)]
         /\ session' = [session EXCEPT !.retry = @ \/ event = "retry"]
  BY ClickIs
<1>2. page \in Pages
  BY <1>0, SessionConstants DEF UiTypes, Screens
<1>3. /\ now \in Nat /\ now' \in 0..Cardinality(Callers) /\ cleared <= now'
      /\ cleared \in Nat /\ cleared <= now /\ screen.run \in Nat
  BY <1>0, Numbers, SessionConstants
<1> DEFINE new == Top(page, order, event)
<1>4. new \in Runs /\ new.at = "top" /\ new.page = page /\ new.got = {}
  BY <1>2, TopRun
<1>5. script'[now + 1] = new
  <2>1. script'[now + 1] = ClickedRun(now + 1, page, order, event)
    BY <1>0, <1>1, Zenon
  <2>2. now + 1 # now
    BY <1>3
  <2> QED
    BY <2>1, <2>2 DEF ClickedRun
<1> HIDE DEF new
<1>6. ASSUME NEW r \in Callers, r = now
      PROVE  /\ script'[r] \in Runs
             /\ script'[r].at = "asking" =>
                    script[r].at = "asking" /\ script'[r].dict = script[r].dict
  <2>1. script'[r] = Superseded(script[r])
    BY <1>1, <1>3, <1>6 DEF ClickedRun
  <2>2. script[r] \in Runs
    BY <1>0 DEF UiTypes
  <2>3. CASE script[r].at = "asking"
    <3> DEFINE waits == [NoRun EXCEPT !.at = "asking", !.dict = script[r].dict]
    <3>1. waits \in Runs /\ waits.dict = script[r].dict
      BY <2>2, NoRunFacts DEF Runs
    <3>2. script'[r] = waits
      BY <2>1, <2>3 DEF Superseded
    <3> HIDE DEF waits
    <3> QED
      BY <2>3, <3>1, <3>2
  <2>4. CASE script[r].at # "asking"
    BY <2>1, <2>4, NoRunFacts DEF Superseded
  <2> QED
    BY <2>3, <2>4
<1>7. ASSUME NEW r \in Callers, r # now, r # now + 1 PROVE script'[r] = script[r]
  BY <1>1, <1>7 DEF ClickedRun
<1>8. script' \in [Callers -> Runs]
  <2>1. \A r \in Callers : script'[r] \in Runs
    BY <1>0, <1>4, <1>5, <1>6, <1>7 DEF UiTypes
  <2>2. DOMAIN script' = Callers
    BY <1>1
  <2>3. script' = [r \in Callers |-> script'[r]]
    BY <1>1
  <2> QED
    BY <2>1, <2>3
<1>9. session' \in Sessions /\ session'.last = session.last
  <2>1. session \in Sessions /\ (session.retry \/ event = "retry") \in BOOLEAN
    BY <1>0 DEF UiTypes, Sessions
  <2> QED
    BY <1>1, <2>1 DEF Sessions
<1>10. UiTypes'
  BY <1>0, <1>3, <1>8, <1>9 DEF UiTypes
<1>11. ASSUME NEW r \in Callers PROVE RunInv(r)'
  <2>1. r \in Nat /\ now' = now + 1
    BY <1>0, Numbers
  <2>2. CASE r = now + 1
    <3>1. screen'.run < r
      BY <1>0, <1>3, <2>2 DEF ScreenInv
    <3> QED
      BY <1>2, <1>4, <1>5, <2>2, <3>1 DEF RunInv
  <2>3. CASE r = now
    <3>1. ~Live(r)'
      BY <1>3, <2>1, <2>3 DEF Live
    <3> QED
      BY <1>0, <1>6, <2>3, <3>1 DEF RunInv
  <2>4. CASE r # now /\ r # now + 1
    <3>1. ~Live(r)'
      BY <2>1, <2>4 DEF Live
    <3> QED
      BY <1>0, <1>7, <2>4, <3>1 DEF RunInv
  <2> QED
    BY <2>2, <2>3, <2>4
<1>12. RequestsInv'
  BY <1>0 DEF apiVars, RequestsInv, RequestOK
<1>13. CacheInv' /\ LastInv' /\ ScreenInv'
  BY <1>0, <1>3, <1>9, CacheSame, LastSame, ScreenSame
<1> QED
  BY <1>10, <1>11, <1>12, <1>13 DEF SessionInv

LEMMA ClearCacheStep ==
  ASSUME SessionInv, NEW r \in Callers, ClearCache(r) PROVE SessionInv'
<1>0. /\ RequestsInv /\ UiTypes /\ CacheInv /\ LastInv /\ ScreenInv
      /\ \A q \in Callers : RunInv(q)
      /\ UNCHANGED <<apiVars, now, screen>> /\ cache' = <<>> /\ cleared' = r
      /\ r = now /\ script[r].at = "top"
      /\ session' = [session EXCEPT !.last = NoFilters, !.refresh = TRUE]
      /\ script' = [script EXCEPT ![r].event = "other"]
  BY DEF SessionInv, ClearCache, Live
<1>1. /\ r \in Nat /\ now \in Nat /\ screen.run \in Nat /\ screen.run < r
      /\ script[r].got = {} /\ script[r].page \in Pages
  BY <1>0, Numbers DEF RunInv, Live
<1> DEFINE run == [script[r] EXCEPT !.event = "other"]
<1>2. run \in Runs /\ run.at = "top" /\ run.got = {} /\ run.page = script[r].page
  BY <1>0, <1>1 DEF UiTypes, Runs
<1>3. script' = [script EXCEPT ![r] = run]
  BY <1>0 DEF UiTypes
<1>4. script'[r] = run
  BY <1>0, <1>3 DEF UiTypes
<1> HIDE DEF run
<1>5. RunInv(r)'
  BY <1>0, <1>1, <1>2, <1>4 DEF RunInv
<1>6. \A q \in Callers \ {r} : request'[q] = request[q] /\ ~Live(q)
  BY <1>0 DEF apiVars, Live
<1>7. script' \in [Callers -> Runs] /\ \A q \in Callers : RunInv(q)'
  BY <1>0, <1>2, <1>3, <1>5, <1>6, RunPut
<1>8. session' \in Sessions /\ session'.last.got = {}
  <2>1. NoFilters \in Filters /\ NoFilters.got = {}
    BY DEF NoFilters, Filters
  <2> HIDE DEF NoFilters
  <2> QED
    BY <1>0, <2>1 DEF UiTypes, Sessions
<1>9. UiTypes'
  BY <1>0, <1>1, <1>7, <1>8 DEF UiTypes
<1>10. CacheInv'
  <2>1. /\ cache' \in Seq(KeptEntries') /\ Len(cache') = 0
    BY <1>0, EmptySeq
  <2>2. MaxCached \in Nat /\ \A i \in 1..0 : FALSE
    BY SessionConstants
  <2> QED
    BY <2>1, <2>2 DEF CacheInv, Distinct
<1>11. LastInv'
  BY <1>8 DEF LastInv
<1>12. ScreenInv'
  BY <1>0, <1>1 DEF ScreenInv, ClearedIsFresh, ComparisonHonest, FiltersMatch, Of
<1>13. RequestsInv'
  BY <1>0 DEF apiVars, RequestsInv, RequestOK
<1> QED
  BY <1>7, <1>9, <1>10, <1>11, <1>12, <1>13 DEF SessionInv

LEMMA BeginStep ==
  ASSUME SessionInv, NEW r \in Callers, Begin(r) PROVE SessionInv'
<1> DEFINE onUser == script[r].page = "recommendations"
           submits == onUser /\ script[r].event = "submit"
           begun == session.active \/ submits
           again == submits \/ session.refresh \/ session.retry
           plan == PlanOf(r, begun, again)
           run == [script[r] EXCEPT !.at = "reading", !.todo = plan]
<1>0. /\ RequestsInv /\ UiTypes /\ CacheInv /\ LastInv /\ ScreenInv
      /\ \A q \in Callers : RunInv(q)
      /\ UNCHANGED <<apiVars, now, cache, screen, cleared>>
      /\ r = now /\ script[r].at = "top"
      /\ session' = [active |-> begun, refresh |-> FALSE,
                     retry |-> session.retry /\ ~onUser, last |-> session.last]
      /\ script' = [script EXCEPT ![r].at = "reading", ![r].todo = plan]
  BY DEF SessionInv, Begin, Live, LastAtBegin
<1>1. /\ script[r] \in Runs /\ session \in Sessions /\ script[r].got = {}
      /\ script[r].page \in Pages /\ screen.run < r
  BY <1>0 DEF UiTypes, RunInv, Live
<1>2. begun \in BOOLEAN /\ again \in BOOLEAN
  BY <1>1 DEF Sessions
<1> HIDE DEF begun, again
<1>3. plan \in Seq(PageItems(script[r].page, script[r].order))
  BY <1>0, <1>1, <1>2, PlanIn
<1>4. plan \in Seq(Items)
  <2>1. PageItems(script[r].page, script[r].order) \subseteq Items
    BY DEF PageItems
  <2> HIDE DEF plan
  <2> QED
    BY <1>3, <2>1, SeqMonotonic
<1> HIDE DEF plan
<1>5. /\ run \in Runs /\ run.at = "reading" /\ run.page = script[r].page
      /\ run.order = script[r].order /\ run.got = {} /\ run.todo = plan
  BY <1>1, <1>4 DEF Runs
<1>6. script' = [script EXCEPT ![r] = run]
  BY <1>0 DEF UiTypes
<1>7. script'[r] = run
  BY <1>0, <1>6 DEF UiTypes
<1> HIDE DEF run
<1>8. RunInv(r)'
  BY <1>0, <1>1, <1>3, <1>5, <1>7 DEF RunInv, PageItems
<1>9. \A q \in Callers \ {r} : request'[q] = request[q] /\ ~Live(q)
  BY <1>0 DEF apiVars, Live
<1>10. script' \in [Callers -> Runs] /\ \A q \in Callers : RunInv(q)'
  BY <1>0, <1>5, <1>6, <1>8, <1>9, RunPut, ZenonT(60)
<1>11. session' \in Sessions /\ session'.last = session.last
  BY <1>0, <1>1, <1>2 DEF Sessions
<1>12. UiTypes'
  BY <1>0, <1>10, <1>11 DEF UiTypes
<1>13. now \in Nat
  BY <1>0, Numbers
<1>14. CacheInv' /\ LastInv' /\ ScreenInv'
  BY <1>0, <1>11, <1>13, CacheSame, LastSame, ScreenSame
<1>15. RequestsInv'
  BY <1>0 DEF apiVars, RequestsInv, RequestOK
<1> QED
  BY <1>10, <1>12, <1>14, <1>15 DEF SessionInv

(* The first item of what is left to read, and the rest. *)
LEMMA TodoFacts ==
  ASSUME UiTypes, NEW r \in Callers, RunInv(r), Live(r), script[r].at = "reading",
         script[r].todo # <<>>
  PROVE  LET S == PageItems(script[r].page, script[r].order) IN
         /\ Head(script[r].todo) \in S /\ Tail(script[r].todo) \in Seq(S)
         /\ Tail(script[r].todo) \in Seq(Items)
         /\ Head(script[r].todo).source \in Sources /\ Head(script[r].todo).arg \in Args
         /\ Belongs(script[r].page, script[r].order, Head(script[r].todo).source,
                    Head(script[r].todo).arg)
<1> DEFINE S == PageItems(script[r].page, script[r].order)
           todo == script[r].todo
<1>1. S \subseteq Items
  BY DEF PageItems
<1>2. todo \in Seq(S)
  BY DEF RunInv
<1>3. Head(todo) \in S /\ Tail(todo) \in Seq(S)
  BY <1>2, HeadTailProperties
<1>4. Tail(todo) \in Seq(Items)
  BY <1>1, <1>3, SeqMonotonic
<1>5. /\ Head(todo).source \in Sources /\ Head(todo).arg \in Args
      /\ Belongs(script[r].page, script[r].order, Head(todo).source, Head(todo).arg)
  <2> DEFINE item == Head(todo)
  <2>1. item \in PageItems(script[r].page, script[r].order)
    BY <1>3
  <2> HIDE DEF item
  <2>2. /\ item.source \in Sources /\ item.arg \in Args
        /\ Belongs(script[r].page, script[r].order, item.source, item.arg)
    BY <2>1 DEF PageItems, Items
  <2> QED
    BY <2>2 DEF item
<1> QED
  BY <1>3, <1>4, <1>5

(* An entry of the dict is an answer to what its key says. *)
LEMMA EntryFacts ==
  ASSUME CacheInv, NEW i \in DOMAIN cache
  PROVE  /\ cache[i].payload \in Payloads /\ cache[i].payload.run >= cleared
         /\ cache[i].key = <<cache[i].payload.answer.source, cache[i].payload.answer.arg>>
<1>1. cache[i] \in KeptEntries
  <2>1. i \in 1..Len(cache)
    BY LenProperties DEF CacheInv
  <2> QED
    BY <2>1, ElementOfSeq DEF CacheInv
<1> DEFINE e == cache[i]
<1> HIDE DEF e
<1>2. e \in KeptEntries
  BY <1>1 DEF e
<1>3. /\ e.payload \in Payloads /\ e.payload.run >= cleared
      /\ e.key = <<e.payload.answer.source, e.payload.answer.arg>>
  BY <1>2 DEF KeptEntries, Entries, KeyOf
<1> QED
  BY <1>3 DEF e

LEMMA HitStep == ASSUME SessionInv, NEW r \in Callers, Hit(r) PROVE SessionInv'
<1>0. /\ RequestsInv /\ UiTypes /\ CacheInv /\ LastInv /\ ScreenInv
      /\ \A q \in Callers : RunInv(q)
      /\ UNCHANGED <<apiVars, now, cache, session, screen, cleared>>
      /\ Live(r) /\ script[r].at = "reading" /\ script[r].todo # <<>>
  BY DEF SessionInv, Hit
<1>1. PICK i \in Cached(Head(script[r].todo)) :
          script' = [script EXCEPT ![r].todo = Tail(@), ![r].got = @ \cup {cache[i].payload}]
  BY DEF Hit
<1> DEFINE todo == Tail(script[r].todo)
           got == script[r].got \cup {cache[i].payload}
           run == [script[r] EXCEPT !.todo = todo, !.got = got]
<1>2. /\ todo \in Seq(PageItems(script[r].page, script[r].order)) /\ todo \in Seq(Items)
      /\ Belongs(script[r].page, script[r].order, Head(script[r].todo).source,
                 Head(script[r].todo).arg)
  BY <1>0, TodoFacts
<1>3. /\ script[r] \in Runs /\ script[r].page \in Pages /\ screen.run < r
      /\ script[r].got \subseteq PagePayloads(script[r].page, script[r].order)
  BY <1>0 DEF UiTypes, RunInv
<1>4. cache[i].payload \in PagePayloads(script[r].page, script[r].order)
  <2> DEFINE item == Head(script[r].todo)
  <2>1. i \in DOMAIN cache /\ cache[i].key = <<item.source, item.arg>>
    BY DEF Cached
  <2>2. /\ cache[i].payload \in Payloads /\ cache[i].payload.run >= cleared
        /\ cache[i].key = <<cache[i].payload.answer.source, cache[i].payload.answer.arg>>
    BY <1>0, <2>1, EntryFacts
  <2> HIDE DEF item
  <2>3. cache[i].payload.answer.source = item.source /\ cache[i].payload.answer.arg = item.arg
    BY <2>1, <2>2
  <2>4. Belongs(script[r].page, script[r].order, item.source, item.arg)
    BY <1>2 DEF item
  <2> QED
    BY <2>2, <2>3, <2>4 DEF PagePayloads
<1> HIDE DEF todo
<1>5. got \subseteq PagePayloads(script[r].page, script[r].order) /\ got \subseteq Payloads
  BY <1>3, <1>4 DEF PagePayloads
<1>6. script' = [script EXCEPT ![r] = run]
  BY <1>0, <1>1 DEF UiTypes, todo
<1> HIDE DEF got
<1>7. /\ run \in Runs /\ run.at = "reading" /\ run.page = script[r].page
      /\ run.order = script[r].order /\ run.got = got /\ run.todo = todo
  BY <1>0, <1>2, <1>3, <1>5 DEF Runs
<1>8. script'[r] = run
  BY <1>0, <1>6 DEF UiTypes
<1> HIDE DEF run
<1>9. RunInv(r)'
  BY <1>0, <1>2, <1>3, <1>5, <1>7, <1>8 DEF RunInv, PageItems, PagePayloads
<1>10. \A q \in Callers \ {r} : request'[q] = request[q]
  BY <1>0 DEF apiVars
<1>11. script' \in [Callers -> Runs] /\ \A q \in Callers : RunInv(q)'
  BY <1>0, <1>6, <1>7, <1>9, <1>10, RunPut
<1>12. UiTypes'
  BY <1>0, <1>11 DEF UiTypes
<1>13. now \in Nat
  BY <1>0, Numbers
<1>14. CacheInv' /\ LastInv' /\ ScreenInv'
  BY <1>0, <1>13, CacheSame, LastSame, ScreenSame
<1>15. RequestsInv'
  BY <1>0 DEF apiVars, RequestsInv, RequestOK
<1> QED
  BY <1>11, <1>12, <1>14, <1>15 DEF SessionInv

(* What Ask makes of a request. *)
LEMMA AskFacts ==
  ASSUME RequestsInv, NEW r \in Callers, NEW source \in Sources, NEW arg \in Args,
         Ask(r, source, arg), UNCHANGED stores, failures' = failures
  PROVE  /\ RequestsInv' /\ request'[r].at # "answered"
         /\ request'[r].source = source /\ request'[r].arg = arg
         /\ \A q \in Callers \ {r} : request'[q] = request[q]
<1> DEFINE at == IF source \in Bracketed THEN "look" ELSE "once"
           q == [Quiet EXCEPT !.at = at, !.source = source, !.arg = arg]
<1>1. at \in {"look", "once"} /\ (at = "look" => source \in Bracketed)
  OBVIOUS
<1>2. request' = [request EXCEPT ![r] = q]
  BY DEF Ask
<1> HIDE DEF at
<1>3. /\ q \in Requests /\ q.at = at /\ q.source = source /\ q.arg = arg
      /\ q.answer = Quiet.answer
  BY <1>1, QuietFacts DEF Requests
<1> HIDE DEF q
<1>4. Consistent(Quiet.answer)
  BY QuietFacts DEF RequestOK
<1>5. RequestOK(q)
  BY <1>1, <1>3, <1>4 DEF RequestOK
<1>6. RequestsInv'
  BY <1>2, <1>3, <1>5, RequestPut DEF RequestsInv
<1>7. request'[r] = q /\ \A p \in Callers \ {r} : request'[p] = request[p]
  BY <1>2 DEF RequestsInv
<1> QED
  BY <1>1, <1>3, <1>6, <1>7

LEMMA MissStep == ASSUME SessionInv, NEW r \in Callers, Miss(r) PROVE SessionInv'
<1> DEFINE item == Head(script[r].todo)
           todo == Tail(script[r].todo)
           run == [script[r] EXCEPT !.at = "asking", !.todo = todo, !.dict = cleared]
<1>0. /\ RequestsInv /\ UiTypes /\ CacheInv /\ LastInv /\ ScreenInv
      /\ \A q \in Callers : RunInv(q)
      /\ UNCHANGED <<stores, failures, now, session, screen, cleared>>
      /\ Live(r) /\ script[r].at = "reading" /\ script[r].todo # <<>>
      /\ cache' = Without(item)
      /\ Ask(r, item.source, item.arg)
      /\ script' = [script EXCEPT ![r].at = "asking", ![r].todo = todo,
                                  ![r].dict = cleared]
  BY DEF SessionInv, Miss
<1>1. /\ todo \in Seq(PageItems(script[r].page, script[r].order)) /\ todo \in Seq(Items)
      /\ item.source \in Sources /\ item.arg \in Args
      /\ Belongs(script[r].page, script[r].order, item.source, item.arg)
  BY <1>0, TodoFacts
<1>2. script' = [script EXCEPT ![r] = run]
  BY <1>0 DEF UiTypes
<1> HIDE DEF item, todo
<1>3. /\ script[r] \in Runs /\ script[r].page \in Pages /\ screen.run < r
      /\ script[r].got \subseteq PagePayloads(script[r].page, script[r].order)
  BY <1>0 DEF UiTypes, RunInv
<1>4. cleared \in Nat /\ cleared <= r /\ now \in Nat
  BY <1>0, Numbers DEF Live
<1>5. /\ run \in Runs /\ run.at = "asking" /\ run.page = script[r].page
      /\ run.order = script[r].order /\ run.got = script[r].got /\ run.todo = todo
      /\ run.dict = cleared
  BY <1>1, <1>3, <1>4 DEF Runs
<1>6. script'[r] = run
  BY <1>0, <1>2 DEF UiTypes
<1> HIDE DEF run
<1>7. /\ RequestsInv' /\ request'[r].at # "answered"
      /\ request'[r].source = item.source /\ request'[r].arg = item.arg
      /\ \A q \in Callers \ {r} : request'[q] = request[q]
  BY <1>0, <1>1, AskFacts
<1>8. PendingOK(r)'
  BY <1>1, <1>5, <1>6, <1>7 DEF PendingOK, Belongs
<1>9. RunInv(r)'
  BY <1>0, <1>1, <1>3, <1>4, <1>5, <1>6, <1>8 DEF RunInv, PageItems, PagePayloads
<1>10. script' \in [Callers -> Runs] /\ \A q \in Callers : RunInv(q)'
  BY <1>0, <1>2, <1>5, <1>7, <1>9, RunPut
<1>11. UiTypes'
  BY <1>0, <1>10 DEF UiTypes
<1>12. LastInv' /\ ScreenInv'
  BY <1>0, <1>4, LastSame, ScreenSame
<1>13. CacheInv'
  <2>1. /\ Without(item) \in Seq(KeptEntries) /\ Distinct(Without(item))
        /\ Len(Without(item)) <= MaxCached
    BY <1>0, WithoutKeeps DEF CacheInv
  <2>2. KeptEntries' = KeptEntries
    BY <1>0 DEF KeptEntries
  <2> DEFINE without == Without(item)
  <2>3. cache' = without /\ without \in Seq(KeptEntries) /\ Len(without) <= MaxCached
        /\ \A i, j \in 1..Len(without) : without[i].key = without[j].key => i = j
    BY <1>0, <2>1 DEF Distinct
  <2> HIDE DEF without
  <2> QED
    BY <2>2, <2>3 DEF CacheInv, Distinct
<1> QED
  BY <1>7, <1>10, <1>11, <1>12, <1>13 DEF SessionInv

LEMMA ReadingStep ==
  ASSUME SessionInv, NEW c \in Callers, Read(c), UNCHANGED ui PROVE SessionInv'
<1>0. /\ RequestsInv /\ UiTypes /\ CacheInv /\ LastInv /\ ScreenInv
      /\ \A q \in Callers : RunInv(q)
      /\ UNCHANGED <<script, now, cache, session, screen, cleared>>
  BY DEF SessionInv, ui
<1>1. PICK q : ReadTo(c, q)
  BY <1>0, ReadStep
<1>2. RequestsInv'
  BY <1>0, <1>1, RequestPut DEF ReadTo
<1>3. request'[c] = q /\ \A r \in Callers \ {c} : request'[r] = request[r]
  BY <1>0, <1>1 DEF ReadTo, RequestsInv
<1>4. ASSUME PendingOK(c) PROVE PendingOK(c)'
  <2>1. /\ Belongs(script[c].page, script[c].order, request[c].source, request[c].arg)
        /\ ReadsOn(request[c], q)
    BY <1>1, <1>4 DEF PendingOK, ReadTo
  <2>2. CASE q.at \in {"rows", "again"}
    BY <1>0, <1>3, <2>1, <2>2 DEF PendingOK, ReadsOn, Belongs
  <2>3. CASE q.at = "answered"
    <3>1. ~Busy(c)'
      BY <1>3, <2>3 DEF Busy
    <3>2. ASSUME q.answer.error = None
          PROVE  Belongs(script[c].page, script[c].order, q.answer.source, q.answer.arg)
      <4>1. /\ q.answer.source = request[c].source
            /\ request[c].source \in Bracketed \/ q.answer.arg = request[c].arg
        BY <2>1, <2>3, <3>2 DEF ReadsOn
      <4>2. "products" \notin Bracketed
        BY DEF Bracketed
      <4> QED
        BY <2>1, <4>1, <4>2 DEF Belongs
    <3> QED
      BY <1>0, <1>3, <3>1, <3>2 DEF PendingOK, Belongs
  <2> QED
    BY <2>1, <2>2, <2>3 DEF ReadsOn
<1>5. RunInv(c)'
  <2>1. Live(c)' = Live(c)
    BY <1>0 DEF Live
  <2> QED
    BY <1>0, <1>4, <2>1 DEF RunInv, PagePayloads, PageItems
<1>6. ASSUME NEW r \in Callers \ {c} PROVE RunInv(r)'
  BY <1>0, <1>3, RunSame
<1>7. UiTypes'
  BY <1>0 DEF UiTypes
<1>8. now \in Nat
  BY <1>0, Numbers
<1>9. CacheInv' /\ LastInv' /\ ScreenInv'
  BY <1>0, <1>8, CacheSame, LastSame, ScreenSame
<1> QED
  BY <1>2, <1>5, <1>6, <1>7, <1>9 DEF SessionInv

LEMMA PublishingStep == ASSUME SessionInv, Publish, UNCHANGED ui PROVE SessionInv'
<1>0. /\ RequestsInv /\ UiTypes /\ CacheInv /\ LastInv /\ ScreenInv
      /\ \A q \in Callers : RunInv(q)
      /\ UNCHANGED <<script, now, cache, session, screen, cleared>>
  BY DEF SessionInv, ui
<1>1. RequestsInv' /\ request' = request
  BY <1>0, PublishStep
<1>2. ASSUME NEW r \in Callers PROVE RunInv(r)'
  BY <1>0, <1>1, RunSame
<1>3. UiTypes'
  BY <1>0 DEF UiTypes
<1>4. now \in Nat
  BY <1>0, Numbers
<1>5. CacheInv' /\ LastInv' /\ ScreenInv'
  BY <1>0, <1>4, CacheSame, LastSame, ScreenSame
<1> QED
  BY <1>1, <1>2, <1>3, <1>5 DEF SessionInv

(* The record with which a run goes on from an answer, or ends. *)
LEMMA ResumedFacts ==
  ASSUME UiTypes, NEW r \in Callers, NEW got \in SUBSET Payloads, NEW changed \in BOOLEAN,
         script' = Resumed(r, got, changed)
  PROVE  \E run \in Runs :
            /\ script' = [script EXCEPT ![r] = run] /\ script'[r] = run
            /\ ~Live(r) => run = NoRun
            /\ Live(r) => /\ run.at = "reading" /\ run.page = script[r].page
                          /\ run.order = script[r].order /\ run.todo = script[r].todo
                          /\ run.got = script[r].got \cup got
<1>0. script \in [Callers -> Runs] /\ script[r] \in Runs
  BY DEF UiTypes
<1>1. CASE ~Live(r)
  <2>1. script' = [script EXCEPT ![r] = NoRun]
    BY <1>1 DEF Resumed
  <2> QED
    BY <1>0, <1>1, <2>1, NoRunFacts
<1>2. CASE Live(r)
  <2> DEFINE all == script[r].got \cup got
             changing == script[r].changed \/ changed
             run == [script[r] EXCEPT !.at = "reading", !.got = all, !.changed = changing]
  <2>1. script' = [script EXCEPT ![r] = run]
    BY <1>2, Zenon DEF Resumed
  <2>2. all \in SUBSET Payloads /\ changing \in BOOLEAN
    BY <1>0 DEF Runs
  <2> HIDE DEF all, changing
  <2>3. /\ run \in Runs /\ run.at = "reading" /\ run.page = script[r].page
        /\ run.order = script[r].order /\ run.todo = script[r].todo /\ run.got = all
    BY <1>0, <2>2 DEF Runs
  <2>4. script'[r] = run
    BY <1>0, <2>1
  <2> HIDE DEF run
  <2> QED
    BY <1>2, <2>1, <2>3, <2>4 DEF all
<1> QED
  BY <1>1, <1>2

LEMMA ReceiveStep == ASSUME SessionInv, NEW r \in Callers, Receive(r) PROVE SessionInv'
<1> DEFINE answer == request[r].answer
           payload == [run |-> r, answer |-> answer]
           entry == [key |-> KeyOf(answer), payload |-> payload]
           fine == answer.error = None
           got == IF fine THEN {payload} ELSE {}
<1>0. /\ RequestsInv /\ UiTypes /\ CacheInv /\ LastInv /\ ScreenInv
      /\ \A q \in Callers : RunInv(q)
      /\ UNCHANGED <<stores, failures, now, session, screen, cleared>>
      /\ script[r].at = "asking" /\ request[r].at = "answered"
      /\ request' = [request EXCEPT ![r] = Quiet]
  BY DEF SessionInv, Receive
<1>1. answer \in Answers /\ Consistent(answer)
  BY <1>0 DEF RequestsInv, Requests, RequestOK
<1>2. \E changed \in BOOLEAN : script' = Resumed(r, got, changed)
  BY DEF Receive
<1>3. cache' = IF fine /\ InHand(r) THEN Put(entry) ELSE cache
  BY DEF Receive
<1>4. fine => payload \in Payloads
  BY <1>1 DEF Payloads
<1>5. got \in SUBSET Payloads
  BY <1>4
<1>6. /\ RequestsInv' /\ \A q \in Callers \ {r} : request'[q] = request[q]
  BY <1>0, QuietFacts, RequestPut DEF RequestsInv
<1>7. /\ r \in Nat /\ now \in Nat /\ cleared \in Nat /\ cleared <= now
      /\ script[r].dict \in Nat /\ script[r].dict <= r
  BY <1>0, Numbers DEF UiTypes, Runs, RunInv
<1>8. CacheInv'
  <2>1. KeptEntries' = KeptEntries
    BY <1>0 DEF KeptEntries
  <2>2. CASE fine /\ InHand(r)
    <3>1. r >= cleared
      BY <1>7, <2>2 DEF InHand
    <3>2. entry \in KeptEntries
      <4>1. KeyOf(answer) \in Sources \X Args
        BY <1>1 DEF KeyOf, Answers
      <4> DEFINE key == KeyOf(answer)
      <4>2. payload \in Payloads /\ payload.run = r /\ payload.answer = answer
        BY <1>4, <2>2
      <4> HIDE DEF key, payload
      <4>3. [key |-> key, payload |-> payload] \in [key : Sources \X Args, payload : Payloads]
        BY <4>1, <4>2 DEF key
      <4>4. [key |-> key, payload |-> payload] \in KeptEntries
        BY <3>1, <4>2, <4>3 DEF KeptEntries, Entries, key
      <4> QED
        BY <4>4 DEF key, payload
    <3> HIDE DEF entry
    <3> DEFINE with == Put(entry)
    <3>3. with \in Seq(KeptEntries) /\ Distinct(with) /\ Len(with) <= MaxCached
      BY <1>0, <3>2, PutKeeps DEF CacheInv
    <3>4. cache' = with
      BY <1>3, <2>2
    <3> HIDE DEF with
    <3> QED
      BY <2>1, <3>3, <3>4 DEF CacheInv, Distinct
  <2>3. CASE ~(fine /\ InHand(r))
    BY <1>0, <1>3, <2>3, CacheSame
  <2> QED
    BY <2>2, <2>3
<1>9. Live(r) => got \subseteq PagePayloads(script[r].page, script[r].order)
  <2>1. CASE Live(r) /\ fine
    <3>1. Belongs(script[r].page, script[r].order, answer.source, answer.arg)
      BY <1>0, <2>1 DEF RunInv, PendingOK
    <3>2. r >= cleared
      BY <1>7, <2>1 DEF Live
    <3>3. payload \in Payloads /\ payload.run = r /\ payload.answer = answer
      BY <1>4, <2>1
    <3> HIDE DEF payload, answer
    <3>4. payload \in PagePayloads(script[r].page, script[r].order)
      BY <3>1, <3>2, <3>3 DEF PagePayloads
    <3> QED
      BY <3>4
  <2> QED
    BY <2>1
<1> HIDE DEF got
<1>10. PICK run \in Runs :
            /\ script' = [script EXCEPT ![r] = run] /\ script'[r] = run
            /\ ~Live(r) => run = NoRun
            /\ Live(r) => /\ run.at = "reading" /\ run.page = script[r].page
                          /\ run.order = script[r].order /\ run.todo = script[r].todo
                          /\ run.got = script[r].got \cup got
  BY <1>0, <1>2, <1>5, ResumedFacts
<1>11. RunInv(r)'
  <2>1. CASE ~Live(r)
    BY <1>10, <2>1, NoRunFacts, RunOver
  <2>2. CASE Live(r)
    <3>1. /\ script[r].page \in Pages /\ screen.run < r
          /\ script[r].todo \in Seq(PageItems(script[r].page, script[r].order))
          /\ script[r].got \subseteq PagePayloads(script[r].page, script[r].order)
      BY <1>0, <2>2 DEF RunInv
    <3> QED
      BY <1>0, <1>9, <1>10, <2>2, <3>1 DEF RunInv, PageItems, PagePayloads
  <2> QED
    BY <2>1, <2>2
<1>12. script' \in [Callers -> Runs] /\ \A q \in Callers : RunInv(q)'
  BY <1>0, <1>6, <1>10, <1>11, RunPut
<1>13. UiTypes'
  BY <1>0, <1>12 DEF UiTypes
<1>14. LastInv' /\ ScreenInv'
  BY <1>0, <1>7, LastSame, ScreenSame
<1> QED
  BY <1>6, <1>8, <1>12, <1>13, <1>14 DEF SessionInv

(* What is shown is fresh, and of one generation or with the warning. *)
LEMMA ShownFacts ==
  ASSUME NEW page, page # "recommendations", NEW order, NEW got,
         got \subseteq PagePayloads(page, order)
  PROVE  /\ got \subseteq Payloads /\ \A p \in got : p.run >= cleared
         /\ Of(got, "als") = {} /\ Of(got, "hybrid") = {}
         /\ page = "analytics" => \A p \in Of(got, "products") : p.answer.arg = order
<1>1. "als" \in Bracketed /\ "hybrid" \in Bracketed
  BY DEF Bracketed
<1> QED
  BY <1>1 DEF PagePayloads, Belongs, Of

LEMMA FiltersFacts ==
  ASSUME UiTypes, LastInv, NEW r \in Callers, RunInv(r), Live(r)
  PROVE  /\ FiltersOf(r) \in Filters
         /\ FiltersOf(r).got \subseteq PagePayloads("analytics", FiltersOf(r).order)
<1>1. /\ script[r].order \in Orders \cup {None} /\ script[r].got \in SUBSET Payloads
      /\ script[r].got \subseteq PagePayloads(script[r].page, script[r].order)
      /\ session.last \in Filters
  BY DEF UiTypes, RunInv, Runs, Sessions
<1>2. CASE script[r].page = "analytics" /\ script[r].event = "submit"
  <2>1. FiltersOf(r) = [order |-> script[r].order, got |-> script[r].got]
    BY <1>2 DEF FiltersOf
  <2> QED
    BY <1>1, <1>2, <2>1 DEF Filters
<1>3. CASE ~(script[r].page = "analytics" /\ script[r].event = "submit")
  <2>1. FiltersOf(r) = session.last
    BY <1>3 DEF FiltersOf
  <2> QED
    BY <1>1, <2>1 DEF LastInv
<1> QED
  BY <1>2, <1>3

(* What a screen must be for the next state to be a good one. *)
ShowsWell(s) ==
    /\ \A p \in s.got : p.run >= cleared
    /\ ~s.warned => \A a \in Of(s.got, "als"), b \in Of(s.got, "hybrid") :
                        a.answer.rows = b.answer.rows
    /\ s.page = "analytics" => \A p \in Of(s.got, "products") : p.answer.arg = s.order

LEMMA PlainFacts ==
  ASSUME UiTypes, NEW r \in Callers, RunInv(r), Live(r), script[r].at # "none"
  PROVE  /\ Plain(r) \in Screens /\ Plain(r).run = r /\ Plain(r).page = script[r].page
         /\ Plain(r).got = script[r].got /\ Plain(r).warned = FALSE
<1>1. script[r].page \in Pages /\ script[r].got \in SUBSET Payloads /\ r \in Nat
  BY Numbers DEF UiTypes, RunInv, Runs
<1> DEFINE Wide == [run : Nat, page : Pages \cup {None}, got : SUBSET Payloads,
                    order : Orders \cup {None}, retry : BOOLEAN, warned : BOOLEAN]
<1>2. Blank \in Wide /\ Blank.warned = FALSE
  BY DEF Blank
<1>3. /\ Plain(r) \in Screens /\ Plain(r).run = r /\ Plain(r).page = script[r].page
      /\ Plain(r).got = script[r].got /\ Plain(r).warned = FALSE
  BY <1>1, <1>2 DEF Plain, Screens
<1> QED
  BY <1>3

LEMMA ScreenFacts ==
  ASSUME SessionInv, NEW r \in Callers, Show(r)
  PROVE  screen' \in Screens /\ screen'.run = r /\ ShowsWell(screen')
<1> DEFINE page == script[r].page
<1>0. /\ UiTypes /\ LastInv /\ RunInv(r) /\ Live(r) /\ script[r].at = "reading"
      /\ screen' = CASE page = "overview" -> OverviewScreen(r)
                     [] page = "analytics" -> AnalyticsScreen(r)
                     [] page = "recommendations" -> RecommendationsScreen(r)
                     [] page = "evaluation" -> EvaluationScreen(r)
  BY DEF SessionInv, Show
<1>1. /\ page \in {"overview", "analytics", "recommendations", "evaluation"}
      /\ script[r].got \subseteq PagePayloads(page, script[r].order)
      /\ script[r].changed \in BOOLEAN
  BY <1>0 DEF RunInv, Pages, UiTypes, Runs
<1>2. /\ Plain(r) \in Screens /\ Plain(r).run = r /\ Plain(r).page = page
      /\ Plain(r).got = script[r].got /\ Plain(r).warned = FALSE
  BY <1>0, PlainFacts
<1>3. CASE page = "overview" \/ page = "evaluation"
  <2>1. screen' = Plain(r)
    BY <1>0, <1>3 DEF OverviewScreen, EvaluationScreen
  <2>2. /\ \A p \in script[r].got : p.run >= cleared
        /\ Of(script[r].got, "als") = {}
    BY <1>1, <1>3, ShownFacts
  <2> QED
    BY <1>2, <1>3, <2>1, <2>2 DEF ShowsWell
<1>4. CASE page = "analytics"
  <2> DEFINE shown == [Plain(r) EXCEPT !.got = FiltersOf(r).got,
                                       !.order = FiltersOf(r).order]
  <2>1. screen' = shown
    BY <1>0, <1>4 DEF AnalyticsScreen
  <2>2. /\ FiltersOf(r) \in Filters
        /\ FiltersOf(r).got \subseteq PagePayloads("analytics", FiltersOf(r).order)
    BY <1>0, FiltersFacts
  <2>3. /\ \A p \in FiltersOf(r).got : p.run >= cleared
        /\ Of(FiltersOf(r).got, "als") = {}
        /\ \A p \in Of(FiltersOf(r).got, "products") : p.answer.arg = FiltersOf(r).order
    BY <2>2, ShownFacts
  <2>4. FiltersOf(r).got \in SUBSET Payloads /\ FiltersOf(r).order \in Orders \cup {None}
    BY <2>2 DEF Filters
  <2>5. /\ shown \in Screens /\ shown.run = r /\ shown.page = page
        /\ shown.got = FiltersOf(r).got /\ shown.order = FiltersOf(r).order
    BY <1>2, <2>4 DEF Screens
  <2> HIDE DEF shown
  <2> QED
    BY <2>1, <2>3, <2>5 DEF ShowsWell
<1>5. CASE page = "recommendations"
  <2> DEFINE warned == Warns(script[r].got)
             shown == [Plain(r) EXCEPT !.retry = script[r].changed, !.warned = warned]
  <2>1. screen' = shown
    BY <1>0, <1>5 DEF RecommendationsScreen
  <2>2. warned \in BOOLEAN
    BY DEF Warns
  <2>3. ~warned => \A a \in Of(script[r].got, "als"), b \in Of(script[r].got, "hybrid") :
                       a.answer.rows = b.answer.rows
    <3>1. SUFFICES ASSUME ~warned, NEW a \in Of(script[r].got, "als"),
                          NEW b \in Of(script[r].got, "hybrid")
                   PROVE  a.answer.rows = b.answer.rows
      OBVIOUS
    <3>2. a.answer.named = b.answer.named
      BY <3>1 DEF Warns, SameGeneration
    <3>3. /\ a \in Payloads /\ a.answer.source = "als"
          /\ b \in Payloads /\ b.answer.source = "hybrid"
      BY <1>1 DEF Of, PagePayloads
    <3>4. /\ a.answer.rows = a.answer.named /\ b.answer.rows = b.answer.named
      BY <3>3 DEF Payloads, Consistent, Bracketed
    <3> QED
      BY <3>2, <3>4
  <2>4. \A p \in script[r].got : p.run >= cleared
    BY <1>1 DEF PagePayloads
  <2> HIDE DEF warned
  <2>5. /\ shown \in Screens /\ shown.run = r /\ shown.page = page
        /\ shown.got = script[r].got /\ shown.warned = warned
    BY <1>1, <1>2, <2>2 DEF Screens
  <2> HIDE DEF shown
  <2> QED
    BY <1>5, <2>1, <2>3, <2>4, <2>5 DEF ShowsWell
<1> QED
  BY <1>1, <1>3, <1>4, <1>5

LEMMA ShowStep == ASSUME SessionInv, NEW r \in Callers, Show(r) PROVE SessionInv'
<1>0. /\ RequestsInv /\ UiTypes /\ CacheInv /\ LastInv /\ ScreenInv
      /\ \A q \in Callers : RunInv(q)
      /\ UNCHANGED <<apiVars, now, cache, cleared>>
      /\ Live(r) /\ r = now
      /\ session' = [session EXCEPT !.last = FiltersOf(r)]
      /\ script' = [script EXCEPT ![r] = NoRun]
  BY DEF SessionInv, Show, Live
<1>1. screen' \in Screens /\ screen'.run = r /\ ShowsWell(screen')
  BY ScreenFacts
<1>2. /\ FiltersOf(r) \in Filters
      /\ FiltersOf(r).got \subseteq PagePayloads("analytics", FiltersOf(r).order)
  BY <1>0, FiltersFacts
<1>3. session' \in Sessions /\ session'.last = FiltersOf(r)
  BY <1>0, <1>2 DEF UiTypes, Sessions
<1>4. script'[r] = NoRun
  BY <1>0 DEF UiTypes
<1>5. RunInv(r)'
  BY <1>4, NoRunFacts, RunOver
<1>6. \A q \in Callers \ {r} : request'[q] = request[q] /\ ~Live(q)
  BY <1>0 DEF apiVars, Live
<1>7. script' \in [Callers -> Runs] /\ \A q \in Callers : RunInv(q)'
  BY <1>0, <1>5, <1>6, NoRunFacts, RunPut
<1>8. UiTypes'
  BY <1>0, <1>1, <1>3, <1>7 DEF UiTypes
<1>9. LastInv'
  <2> DEFINE last == FiltersOf(r)
  <2>1. last.got \subseteq PagePayloads("analytics", last.order) /\ session'.last = last
    BY <1>2, <1>3
  <2> HIDE DEF last
  <2> QED
    BY <1>0, <2>1 DEF LastInv, PagePayloads
<1>10. ScreenInv'
  <2>1. screen'.run <= now' /\ cleared' = cleared
    <3>1. now \in Nat
      BY <1>0, Numbers
    <3> QED
      BY <1>0, <1>1, <3>1
  <2> QED
    BY <1>1, <2>1
    DEF ShowsWell, ScreenInv, ClearedIsFresh, ComparisonHonest, FiltersMatch, Of
<1>11. CacheInv'
  BY <1>0, CacheSame
<1>12. RequestsInv'
  BY <1>0 DEF apiVars, RequestsInv, RequestOK
<1> QED
  BY <1>7, <1>8, <1>9, <1>10, <1>11, <1>12 DEF SessionInv

--------------------------------------------------------------------------------
(* The invariant is inductive. *)

LEMMA InitInv == Init => SessionInv
<1> SUFFICES ASSUME Init PROVE SessionInv
  OBVIOUS
<1>1. PICK page \in Begins : screen = [Blank EXCEPT !.page = page]
  BY DEF Init
<1>2. page \in Pages
  BY SessionConstants
<1>3. /\ screen = [run |-> 0, page |-> page, got |-> {}, order |-> None, retry |-> FALSE,
                   warned |-> FALSE]
  BY <1>1 DEF Blank
<1>4. RequestsInv
  <2>1. /\ offered = None /\ retired = {} /\ current = None /\ failures = MaxFailures
        /\ request = [c \in Callers |-> Quiet]
    BY DEF Init, ApiInit, Pair!Init, Pointer!Init
  <2> QED
    BY <2>1, QuietFacts, ApiConstants DEF RequestsInv
<1>5. UiTypes
  <2>1. script = [r \in Callers |-> NoRun] /\ now = 0 /\ cleared = 0
    BY DEF Init
  <2>2. Cardinality(Callers) \in Nat
    BY SessionConstants, FS_CardinalityType
  <2>3. session \in Sessions
    BY DEF Init, Sessions, NoFilters, Filters
  <2>4. screen \in Screens
    BY <1>2, <1>3 DEF Screens
  <2> QED
    BY <2>1, <2>2, <2>3, <2>4, NoRunFacts DEF UiTypes
<1>6. CacheInv
  <2>1. cache \in Seq(KeptEntries) /\ Len(cache) = 0
    BY EmptySeq DEF Init
  <2> QED
    BY <2>1, SessionConstants DEF CacheInv, Distinct
<1>7. \A r \in Callers : RunInv(r)
  BY NoRunFacts DEF Init, RunInv
<1>8. LastInv
  BY DEF Init, NoFilters, LastInv
<1>9. ScreenInv
  BY <1>3 DEF Init, ScreenInv, ClearedIsFresh, ComparisonHonest, FiltersMatch, Of
<1> QED
  BY <1>4, <1>5, <1>6, <1>7, <1>8, <1>9 DEF SessionInv

LEMMA StepInv == SessionInv /\ [Next]_vars => SessionInv'
<1> SUFFICES ASSUME SessionInv, [Next]_vars PROVE SessionInv'
  OBVIOUS
<1>1. CASE Click
  BY <1>1, ClickStep
<1>2. ASSUME NEW r \in Callers, Run(r) PROVE SessionInv'
  BY <1>2, ClearCacheStep, BeginStep, HitStep, MissStep, ReceiveStep, ShowStep DEF Run
<1>3. ASSUME NEW r \in Callers, Read(r) /\ UNCHANGED ui PROVE SessionInv'
  BY <1>3, ReadingStep
<1>4. CASE Publish /\ UNCHANGED ui
  BY <1>4, PublishingStep
<1>5. CASE UNCHANGED vars
  <2>1. /\ RequestsInv /\ UiTypes /\ CacheInv /\ LastInv /\ ScreenInv
        /\ \A q \in Callers : RunInv(q)
        /\ UNCHANGED <<apiVars, script, now, cache, session, screen, cleared>>
    BY <1>5 DEF SessionInv, vars, ui
  <2>2. now \in Nat
    BY <2>1, Numbers
  <2>3. CacheInv' /\ LastInv' /\ ScreenInv' /\ \A q \in Callers : RunInv(q)'
    BY <2>1, <2>2, CacheSame, LastSame, ScreenSame, RunSame DEF apiVars
  <2>4. RequestsInv' /\ UiTypes'
    BY <2>1 DEF apiVars, RequestsInv, RequestOK, UiTypes
  <2> QED
    BY <2>3, <2>4 DEF SessionInv
<1> QED
  BY <1>1, <1>2, <1>3, <1>4, <1>5 DEF Next

LEMMA Invariance == Spec => []SessionInv
  BY InitInv, StepInv, PTL DEF Spec

(* The types; and the dict holds each key once and never more than its bound,    *)
(* whatever late answers of superseded runs are put into it.                   *)
THEOREM SessionTyping == Spec => []TypeOK
<1>1. SessionInv => TypeOK
  <2> SUFFICES ASSUME SessionInv PROVE TypeOK
    OBVIOUS
  <2>0. RequestsInv /\ UiTypes /\ CacheInv /\ LastInv
    BY DEF SessionInv
  <2>1. /\ offered \in Generations \cup {None} /\ retired \subseteq Generations
        /\ current \in Versions \cup {None} /\ failures \in Nat
    BY <2>0 DEF RequestsInv
  <2>2. \A a \in Answers : IsAnswer(a)
    BY DEF Answers, IsAnswer
  <2>3. \A c \in Callers : IsAnswer(request[c].answer)
    BY <2>0, <2>2 DEF RequestsInv, Requests
  <2>4. \A p \in Payloads : IsPayload(p)
    BY <2>2 DEF Payloads, IsPayload
  <2>5. \A i \in DOMAIN cache : IsPayload(cache[i].payload)
    BY <2>0, <2>4, EntryFacts
  <2>6. IsInjective([i \in DOMAIN cache |-> cache[i].key]) /\ Len(cache) <= MaxCached
    <3>1. DOMAIN cache = 1..Len(cache)
      BY <2>0, LenProperties DEF CacheInv
    <3> QED
      BY <2>0, <3>1 DEF CacheInv, Distinct, IsInjective
  <2>7. \A p \in screen.got \cup session.last.got : IsPayload(p)
    BY <2>0, <2>4 DEF UiTypes, Screens, Sessions, Filters
  <2>8. \A r \in Callers : \A p \in script[r].got : IsPayload(p)
    BY <2>0, <2>4 DEF UiTypes, Runs
  <2> QED
    BY <2>0, <2>1, <2>3, <2>5, <2>6, <2>7, <2>8 DEF TypeOK, UiTypes
<1> QED
  BY <1>1, Invariance, PTL

(* After "Refresh dashboard data" nothing is shown that was requested before.    *)
THEOREM RefreshIsFresh == Spec => []ClearedIsFresh
<1>1. SessionInv => ClearedIsFresh
  BY DEF SessionInv, ScreenInv
<1> QED
  BY <1>1, Invariance, PTL

(* Two lists shown without the warning are of one A/B generation: a pair is       *)
(* offered once, so the second look of a reader decides, and the page compares.   *)
THEOREM ComparedIsHonest == Spec => []ComparisonHonest
<1>1. SessionInv => ComparisonHonest
  BY DEF SessionInv, ScreenInv
<1> QED
  BY <1>1, Invariance, PTL

(* The analytics page shows a ranking under the filters it was read for.         *)
THEOREM FiltersAreRead == Spec => []FiltersMatch
<1>1. SessionInv => FiltersMatch
  BY DEF SessionInv, ScreenInv
<1> QED
  BY <1>1, Invariance, PTL
================================================================================
