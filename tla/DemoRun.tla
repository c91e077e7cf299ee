-------------------------------- MODULE DemoRun --------------------------------
(***************************************************************************)
(* The coordinator of the Kubernetes demonstration (scripts/k8s): one run    *)
(* prepares a dedicated Minikube profile, deploys the serving workload (B2), *)
(* the pipeline Jobs (B3) and the acceptance Job (B4), and writes a receipt  *)
(* of what is live after each; an operator then verifies the files, collects *)
(* evidence and tears down.                                                  *)
(*                                                                         *)
(* Nothing locks a profile.  Runs given the same lock file share its profile *)
(* and namespace; every run has an output directory of its own.  Commands    *)
(* may fail with or without effect, processes die, Pods are replaced and     *)
(* strangers create objects in the namespace.                               *)
(*                                                                         *)
(* An object's uid is the number of objects of its name ever created: names  *)
(* are reused, the pair (name, uid) is not.  A digest is the content itself. *)
(* A receipt's inventory is listed in one step here; the code lists one kind *)
(* after another.                                                           *)
(***************************************************************************)
EXTENDS Integers, FiniteSets, Sequences, SequencesExt

CONSTANTS
    Runs,        \* calls of run_demo, each with an output directory
    Operated,    \* those whose operator collects evidence and tears down
    Steps,       \* the ordered pipeline Jobs
    Strays,      \* names of objects no run creates
    Listed,      \* the strays of a kind the serving receipt lists
    Policies,    \* those of them that are network policies
    MaxFaults,   \* bound: commands that fail or lose their answer, deaths
    MaxDrift,    \* bound: Pods replaced, strays created, files overwritten
    None, Torn   \* no file; a file cut short or overwritten

Serving == {"secrets", "serving", "serving-pod"}
Platform == {"platform", "platform-pod"}
Jobs == Range(Steps)
PositionOf(step) == CHOOSE i \in DOMAIN Steps : Steps[i] = step
Pipeline == Platform \cup Jobs
Acceptance == "acceptance"
Names == Serving \cup Pipeline \cup {Acceptance} \cup Strays

ASSUME DemoConstants ==
    /\ Jobs \cap (Serving \cup Platform \cup {Acceptance}) = {}
    /\ Strays \cap (Serving \cup Pipeline \cup {Acceptance}) = {}
    /\ {"profile", "namespace"} \cap (Jobs \cup Strays) = {}
    /\ Steps \in Seq(Jobs) /\ IsInjective(Steps) /\ Steps # <<>>
    /\ Policies \subseteq Listed /\ Listed \subseteq Strays /\ Operated \subseteq Runs
    /\ {MaxFaults, MaxDrift} \subseteq Nat

VARIABLES
    cluster, ns, live,         \* the profile: uids, 0 for what is absent
    done,                      \* complete Jobs; "platform" once its HDFS root exists
    made,                      \* how many objects of each name were created
    run,                       \* the coordinators: where they are, what they hold
    file,                      \* the private files of each run
    down,                      \* the teardown command of each run
    seen,                      \* history, see Accept and ListProfile
    left                       \* what remains of the bounds

vars == <<cluster, ns, live, done, made, run, file, down, seen, left>>
world == <<cluster, ns, live, done, made>>

--------------------------------------------------------------------------------
(* Receipts of the live objects.                                            *)

Existing == {n \in Names : live[n] > 0}
LiveCluster(l) == cluster > 0 /\ cluster = l
LiveIn(l) == LiveCluster(l) /\ ns > 0
PoliciesAreOwn == Existing \cap Policies = {}
ReceiptOf(S) == [cluster |-> cluster, ns |-> ns, objects |-> [n \in S |-> live[n]]]

(* collect_runtime_ownership_receipt skips pipeline objects, and refuses any   *)
(* other it does not expect.                                                *)
ServingReceipt == ReceiptOf(Serving)
ServingRunning == Serving \subseteq Existing
ServingSound(l) == LiveIn(l) /\ ServingRunning /\ Existing \cap Listed = {}

(* collect_pipeline_receipt selects pipeline objects, wants exactly its own    *)
(* and every Job complete; the acceptance Job is one more unless set aside.   *)
PipelineReceipt == ReceiptOf(Pipeline)
PipelineRunning == Pipeline \subseteq Existing
PipelineSound(l, setAside) == /\ LiveIn(l) /\ PipelineRunning /\ Jobs \subseteq done
                              /\ setAside \/ Acceptance \notin Existing

(* validate_complete_profile_inventory lists every kind: exactly the objects   *)
(* of both receipts and the acceptance Job, each with its uid.                *)
NamespaceIs(b2, b3) == cluster > 0 /\ ns > 0 /\ ns = b2.ns /\ ns = b3.ns
Expected(b2, b3, job) ==
    [n \in Serving \cup Pipeline \cup {m \in {Acceptance} : job > 0} |->
        CASE n \in Serving -> b2.objects[n]
          [] n \in Pipeline -> b3.objects[n]
          [] OTHER -> job]
(* Mutant: what the receipts list is there, and more may be.                    *)
InventoryIs_AtLeast(b2, b3, job) ==
    /\ NamespaceIs(b2, b3)
    /\ \A n \in DOMAIN Expected(b2, b3, job) : live[n] = Expected(b2, b3, job)[n]

InventoryIs(b2, b3, job) ==
    /\ NamespaceIs(b2, b3)
    /\ [n \in Existing |-> live[n]] = Expected(b2, b3, job)

--------------------------------------------------------------------------------
(* Private files.  session: run-receipt; exec: the pipeline's execution        *)
(* receipt; evidence, pointer: the captured evidence and the receipt that      *)
(* names it; ended: the teardown receipt.                                    *)

NoSession == [status |-> "none", stage |-> "none", completed |-> <<>>]
NoExec == [status |-> "none", completed |-> <<>>]
NoJournal == [status |-> "none", completed |-> <<>>]
NoFiles == [journal |-> NoJournal, prepared |-> 0, lock |-> 0,
            session |-> NoSession, b2 |-> None, exec |-> NoExec, b3 |-> None,
            acceptance |-> None, artifacts |-> None, evidence |-> None,
            pointer |-> None, ended |-> "none"]

PrepStages == <<"local_identity", "profile_creation", "application_images",
                "pipeline_images", "lock_finalization">>
RunStages == <<"private_render", "namespace_preflight", "serving", "pipeline",
               "acceptance">>

Places == {"idle", "prepare", "render", "preflight", "target", "namespace", "secrets",
           "manifests", "collectB2", "journalB2", "renderB3", "matchB2", "clear", "platform", "awaitPlatform",
           "apply", "await", "collectB3", "closeExec", "journalB3",
           "acceptB2", "acceptB3", "noJob", "applyJob", "awaitJob", "finish",
           "passed", "failed", "dead"}
Active == Places \ {"idle", "passed", "failed", "dead"}

Prep(r) == Len(file[r].journal.completed)
At(r, place) == run[r].at = place
Go(r, place) == run' = [run EXCEPT ![r].at = place]
Put(r, field, content) == file' = [file EXCEPT ![r] = [@ EXCEPT ![field] = content]]

(* The session as the process holds it, a stage done, before it is written.       *)
Noted(r, next, stage) == [file[r].session EXCEPT !.stage = next,
                                                 !.completed = Append(@, stage)]
Journal(r, next, stage) == Put(r, "session", Noted(r, next, stage))
CompleteLock(r) == file[r].prepared > 0

(* Mutant: the uid is the name.                                               *)
Create_Unnumbered(S) ==
    LET new == S \ Existing IN
    /\ live' = [n \in Names |-> IF n \in new THEN 1 ELSE live[n]]
    /\ made' = made

Create(S) ==
    LET new == S \ Existing IN
    /\ live' = [n \in Names |-> IF n \in new THEN made[n] + 1 ELSE live[n]]
    /\ made' = [n \in DOMAIN made |-> IF n \in new THEN made[n] + 1 ELSE made[n]]

--------------------------------------------------------------------------------
(* Every stage that cannot continue ends the run here: nothing is cleaned up,  *)
(* the journal, the execution receipt and the session record the failure. An   *)
(* acceptance that fails leaves its own evidence, which teardown never reads.  *)
(* A session whose own write raised is another matter, see FailWriting.         *)

FailedFiles(r) ==
    LET f == file[r] IN
    [f EXCEPT
        !.journal.status = IF At(r, "prepare") THEN "failed" ELSE @,
        !.exec.status = IF At(r, "await") THEN "failed"
                        ELSE IF At(r, "collectB3") THEN "receipt_failed" ELSE @,
        !.session.status = IF @ = "none" THEN @ ELSE "failed"]

Stop(r) == Go(r, "failed") /\ file' = [file EXCEPT ![r] = FailedFiles(r)]

(* The checks of a stage do not hold.                                         *)
Refuse(r, place, ok) == /\ At(r, place) /\ ~ok
                        /\ Stop(r)
                        /\ UNCHANGED <<world, down, seen, left>>

(* A command, a read or a write of the stage fails, or its readiness times out; *)
(* to journal the serving receipt is to write the session and no more.           *)
Fail(r) == /\ run[r].at \in Active \ {"journalB2"} /\ left.faults > 0
           /\ left' = [left EXCEPT !.faults = @ - 1]
           /\ Stop(r)
           /\ UNCHANGED <<world, down, seen>>

(* The process dies; the later receipts are not written atomically.            *)
Die(r) == /\ run[r].at \in Active /\ left.faults > 0
          /\ left' = [left EXCEPT !.faults = @ - 1]
          /\ Go(r, "dead")
          /\ \/ UNCHANGED file
             \/ At(r, "collectB3") /\ Put(r, "b3", Torn)
             \/ At(r, "awaitJob") /\ Put(r, "acceptance", Torn)
          /\ UNCHANGED <<world, down, seen>>

--------------------------------------------------------------------------------
(* Preparation (prepare_run_lock): a fresh profile, images, and a complete lock, *)
(* each stage journalled.  A run given a complete lock skips it.               *)

Begin(r) ==
    /\ At(r, "idle")
    /\ \/ /\ Go(r, "prepare")
          /\ Put(r, "journal", [NoJournal EXCEPT !.status = "preparing"])
       \/ \E q \in Runs : /\ CompleteLock(q)
                         /\ run' = [run EXCEPT ![r].at = "render",
                                               ![r].cluster = file[q].prepared]
                         /\ UNCHANGED file
    /\ UNCHANGED <<world, down, seen, left>>

Preparing(r, stage) == At(r, "prepare") /\ PrepStages[Prep(r) + 1] = stage
Prepared(r) == Put(r, "journal", [file[r].journal EXCEPT
                     !.completed = Append(@, PrepStages[Prep(r) + 1])])

PrepareLocally(r, stage) ==
    /\ Preparing(r, stage) /\ Prepared(r)
    /\ UNCHANGED <<world, run, down, seen, left>>

CheckLocally(r) == PrepareLocally(r, "local_identity")
BuildApplicationImages(r) == PrepareLocally(r, "application_images")
BuildPipelineImages(r) == PrepareLocally(r, "pipeline_images")

(* create_dedicated_cluster refuses a profile of that name.                     *)
ProfileAbsent == cluster = 0
CreateProfile(r) ==
    /\ Preparing(r, "profile_creation") /\ ProfileAbsent
    /\ cluster' = made["profile"] + 1
    /\ made' = [made EXCEPT !["profile"] = @ + 1]
    /\ \/ /\ run' = [run EXCEPT ![r].cluster = cluster'] /\ Prepared(r)
          /\ UNCHANGED left
       \/ /\ left.faults > 0 /\ left' = [left EXCEPT !.faults = @ - 1]
          /\ Stop(r)
    /\ UNCHANGED <<ns, live, done, down, seen>>

(* The lock the pipeline needs is completed from the serving one, and written.    *)
FinalizePipelineLock(r) == Put(r, "prepared", run[r].cluster)
FinalizeLock(r) ==
    /\ Preparing(r, "lock_finalization") /\ ~CompleteLock(r)
    /\ FinalizePipelineLock(r)
    /\ UNCHANGED <<world, run, down, seen, left>>

JournalLock(r) ==
    /\ Preparing(r, "lock_finalization") /\ CompleteLock(r)
    /\ Prepared(r) /\ Go(r, "render")
    /\ UNCHANGED <<world, down, seen, left>>

(* The lock and the first session record.                                     *)
FirstSession(r) == [status |-> "running", stage |-> "namespace_preflight",
                    completed |-> Append(file[r].journal.completed, "private_render")]
Render(r) ==
    /\ At(r, "render")
    /\ Go(r, "preflight")
    /\ file' = [file EXCEPT ![r].lock = run[r].cluster,
                            ![r].session = FirstSession(r)]
    /\ UNCHANGED <<world, down, seen, left>>

--------------------------------------------------------------------------------
(* B2: the serving workload (deploy_serving).                                  *)

(* A step that only looks, and goes on.                                        *)
Check(r, place, ok, next) == /\ At(r, place) /\ ok
                             /\ Go(r, next)
                             /\ UNCHANGED <<world, file, down, seen, left>>

(* A command was carried out: its success is seen, or its answer is lost.       *)
Answered(r, next) == \/ Go(r, next) /\ UNCHANGED <<file, left>>
                     \/ /\ left.faults > 0
                        /\ left' = [left EXCEPT !.faults = @ - 1]
                        /\ Stop(r)

Apply(r, place, S, next) == /\ At(r, place) /\ ns > 0
                            /\ Create(S)
                            /\ Answered(r, next)
                            /\ UNCHANGED <<cluster, ns, done, down, seen>>

(* require_absent_namespace.                                                  *)
Preflight(r) == /\ At(r, "preflight") /\ cluster > 0 /\ ns = 0
                /\ Go(r, "target")
                /\ Journal(r, "serving", "namespace_preflight")
                /\ UNCHANGED <<world, down, seen, left>>

OnTarget(r) == LiveCluster(file[r].lock)

(* kubectl apply takes a namespace that has appeared since for its own.          *)
ApplyNamespace(r) ==
    /\ At(r, "namespace") /\ cluster > 0
    /\ IF ns > 0 THEN UNCHANGED <<ns, made>>
                  ELSE /\ ns' = made["namespace"] + 1
                       /\ made' = [made EXCEPT !["namespace"] = @ + 1]
    /\ Answered(r, "secrets")
    /\ UNCHANGED <<cluster, live, done, down, seen>>

(* Rollouts and readiness, then the receipt, collected and written.             *)
(* Mutant: the receipt is returned, and not written.                           *)
CollectServing_Unwritten(r) ==
    /\ At(r, "collectB2") /\ ServingSound(file[r].lock)
    /\ Go(r, "journalB2")
    /\ UNCHANGED <<world, file, down, seen, left>>

CollectServing(r) == /\ At(r, "collectB2") /\ ServingSound(file[r].lock)
                     /\ Go(r, "journalB2")
                     /\ Put(r, "b2", ServingReceipt)
                     /\ UNCHANGED <<world, down, seen, left>>

JournalServing(r) == /\ At(r, "journalB2")
                     /\ Go(r, "renderB3")
                     /\ Journal(r, "pipeline_render", "serving")
                     /\ UNCHANGED <<world, down, seen, left>>

Serve(r) == \/ Preflight(r)
            \/ Check(r, "target", OnTarget(r), "namespace")
            \/ ApplyNamespace(r)
            \/ Apply(r, "secrets", {"secrets"}, "manifests")
            \/ Apply(r, "manifests", {"serving", "serving-pod"}, "collectB2")
            \/ CollectServing(r) \/ JournalServing(r)
            \/ Refuse(r, "preflight", cluster > 0 /\ ns = 0)
            \/ Refuse(r, "target", OnTarget(r))
            \/ Refuse(r, "namespace", cluster > 0)
            \/ \E place \in {"secrets", "manifests"} : Refuse(r, place, ns > 0)
            \/ Refuse(r, "collectB2", ServingSound(file[r].lock))

--------------------------------------------------------------------------------
(* B3: the pipeline (execute_pipeline).                                        *)

(* render_pipeline_assets contacts nothing.                                    *)
RenderPipeline(r) == /\ At(r, "renderB3")
                     /\ Go(r, "matchB2")
                     /\ Put(r, "session", [file[r].session EXCEPT
                                              !.stage = "pipeline"])
                     /\ UNCHANGED <<world, down, seen, left>>

ServingMatches(r, receipt) == /\ receipt = ServingReceipt
                              /\ ServingSound(file[r].lock)

StartPipeline(r) == Check(r, "matchB2", ServingMatches(r, file[r].b2), "clear")

(* _require_pipeline_namespace_clear, after the policies have been listed.       *)
Clear == ns > 0 /\ PoliciesAreOwn
         /\ Existing \cap (Pipeline \cup {Acceptance}) = {}

(* bootstrap_hdfs refuses a run root that exists.                              *)
(* Mutant: mkdir -p.                                                          *)
CanBootstrap_Anyway == Platform \subseteq Existing

CanBootstrap == Platform \subseteq Existing /\ "platform" \notin done
Bootstrap(r) ==
    /\ At(r, "awaitPlatform") /\ CanBootstrap
    /\ done' = done \cup {"platform"}
    /\ \/ /\ Go(r, "apply")
          /\ Put(r, "exec", [status |-> "running", completed |-> <<"platform">>])
          /\ seen' = [seen EXCEPT ![r].root = ns]
          /\ UNCHANGED left
       \/ /\ left.faults > 0 /\ left' = [left EXCEPT !.faults = @ - 1]
          /\ Stop(r) /\ UNCHANGED seen
    /\ UNCHANGED <<cluster, ns, live, made, down>>

(* completed holds the platform too: the next step's index is its length.       *)
NextStep(r) == Steps[Len(file[r].exec.completed)]

(* Mutant: the Jobs are created all at once.                                  *)
ApplyStep_All(r) == At(r, "apply") /\ Apply(r, "apply", Jobs, "await")
ApplyStep(r) == At(r, "apply") /\ Apply(r, "apply", {NextStep(r)}, "await")

StepCompleted(r) ==
    /\ At(r, "await") /\ NextStep(r) \in done
    /\ LET completed == Append(file[r].exec.completed, NextStep(r)) IN
       /\ Put(r, "exec", [file[r].exec EXCEPT !.completed = completed])
       /\ Go(r, IF Len(completed) > Len(Steps) THEN "collectB3" ELSE "apply")
    /\ UNCHANGED <<world, down, seen, left>>

PipelineReceiptable(r) == PoliciesAreOwn /\ PipelineSound(file[r].lock, FALSE)
CollectPipeline(r) ==
    /\ At(r, "collectB3") /\ PipelineReceiptable(r)
    /\ Go(r, "closeExec")
    /\ Put(r, "b3", PipelineReceipt)
    /\ UNCHANGED <<world, down, seen, left>>

CloseExec(r) == /\ At(r, "closeExec")
                /\ Go(r, "journalB3")
                /\ Put(r, "exec", [file[r].exec EXCEPT !.status = "completed"])
                /\ UNCHANGED <<world, down, seen, left>>

JournalPipeline(r) == /\ At(r, "journalB3") /\ file[r].b3 # Torn
                      /\ Go(r, "acceptB2")
                      /\ Journal(r, "acceptance", "pipeline")
                      /\ UNCHANGED <<world, down, seen, left>>

RunPipeline(r) ==
    \/ RenderPipeline(r) \/ StartPipeline(r)
    \/ Check(r, "clear", Clear, "platform")
    \/ Apply(r, "platform", Platform, "awaitPlatform")
    \/ Bootstrap(r) \/ ApplyStep(r) \/ StepCompleted(r)
    \/ CollectPipeline(r) \/ CloseExec(r) \/ JournalPipeline(r)
    \/ Refuse(r, "matchB2", ServingMatches(r, file[r].b2))
    \/ Refuse(r, "clear", Clear)
    \/ \E place \in {"platform", "apply"} : Refuse(r, place, ns > 0)
    \/ Refuse(r, "awaitPlatform", CanBootstrap)
    \/ Refuse(r, "collectB3", PipelineReceiptable(r))
    \/ Refuse(r, "journalB3", file[r].b3 # Torn)

--------------------------------------------------------------------------------
(* B4: acceptance (run_acceptance).  Both recorded receipts are read, then each *)
(* is compared with the live objects; the Job may not exist yet.               *)

AcceptServing(r) ==
    /\ At(r, "acceptB2") /\ ServingMatches(r, file[r].b2)
    /\ run' = [run EXCEPT ![r].at = "acceptB3", ![r].b2 = file[r].b2,
                          ![r].b3 = file[r].b3]
    /\ seen' = [seen EXCEPT ![r].b2 = ServingReceipt]
    /\ UNCHANGED <<world, file, down, left>>

PipelineMatches(r, receipt, setAside) == /\ receipt = PipelineReceipt
                                         /\ PipelineSound(file[r].lock, setAside)

AcceptPipeline(r) == /\ At(r, "acceptB3") /\ PipelineMatches(r, run[r].b3, FALSE)
                     /\ Go(r, "noJob")
                     /\ seen' = [seen EXCEPT ![r].b3 = PipelineReceipt]
                     /\ UNCHANGED <<world, file, down, left>>

NoJob == ns > 0 /\ Acceptance \notin Existing
ApplyAcceptance(r) == Apply(r, "applyJob", {Acceptance}, "awaitJob")

(* The Job's identity and status, its scenarios, the probes, and the receipt.    *)
Accepted == live[Acceptance] > 0 /\ Acceptance \in done
AcceptanceReceipt(r) ==
    [b2 |-> run[r].b2, b3 |-> run[r].b3, cluster |-> run[r].b3.cluster,
     ns |-> run[r].b3.ns, lock |-> file[r].lock, job |-> live[Acceptance]]
WriteAcceptance(r) ==
    /\ At(r, "awaitJob") /\ Accepted
    /\ Go(r, "finish")
    /\ Put(r, "acceptance", AcceptanceReceipt(r))
    /\ UNCHANGED <<world, down, seen, left>>

(* The digests are of the files as they are now.                               *)
PassedSession(r) == [Noted(r, "complete", "acceptance") EXCEPT
                        !.status = "runtime_pass"]
ArtifactsOf(r) == [b2 |-> file[r].b2, b3 |-> file[r].b3,
                   acceptance |-> file[r].acceptance]
Finish(r) ==
    /\ At(r, "finish")
    /\ Go(r, "passed")
    /\ file' = [file EXCEPT ![r].session = PassedSession(r),
                            ![r].artifacts = ArtifactsOf(r)]
    /\ UNCHANGED <<world, down, seen, left>>

Accept(r) ==
    \/ AcceptServing(r) \/ AcceptPipeline(r)
    \/ Check(r, "noJob", NoJob, "applyJob")
    \/ ApplyAcceptance(r)
    \/ WriteAcceptance(r) \/ Finish(r)
    \/ Refuse(r, "acceptB2", ServingMatches(r, file[r].b2))
    \/ Refuse(r, "acceptB3", PipelineMatches(r, run[r].b3, FALSE))
    \/ Refuse(r, "noJob", NoJob)
    \/ Refuse(r, "applyJob", ns > 0)

(* kubectl wait fails at once for a Job that is gone.                           *)
JobGone(r) == \/ Refuse(r, "await", live[NextStep(r)] > 0)
              \/ Refuse(r, "awaitJob", live[Acceptance] > 0)

(* A write of the session raises: what the process holds of it by then, the stage   *)
(* just done included, is written after all, as failed (run_demo's handler).      *)
Failed(session) == [session EXCEPT !.status = "failed"]
Interrupt(r, place, session) == At(r, place) /\ Put(r, "session", Failed(session))

FailFirstWrite(r) ==
    /\ At(r, "render")
    /\ \E lock \in {file[r].lock, run[r].cluster} :
           file' = [file EXCEPT ![r].lock = lock,
                                ![r].session = Failed(FirstSession(r))]

FailLastWrite(r) ==
    /\ At(r, "finish")
    /\ file' = [file EXCEPT ![r].session = Failed(PassedSession(r)),
                            ![r].artifacts = ArtifactsOf(r)]

FailWriting(r) ==
    /\ left.faults > 0 /\ left' = [left EXCEPT !.faults = @ - 1]
    /\ Go(r, "failed")
    /\ \/ FailFirstWrite(r) \/ FailLastWrite(r)
       \/ /\ cluster > 0 /\ ns = 0
          /\ Interrupt(r, "preflight", Noted(r, "serving", "namespace_preflight"))
       \/ Interrupt(r, "journalB2", Noted(r, "pipeline_render", "serving"))
       \/ Interrupt(r, "renderB3", [file[r].session EXCEPT !.stage = "pipeline"])
       \/ /\ file[r].b3 # Torn
          /\ Interrupt(r, "journalB3", Noted(r, "acceptance", "pipeline"))
    /\ UNCHANGED <<world, down, seen>>

Prepare(r) == \/ Begin(r) \/ CheckLocally(r) \/ CreateProfile(r)
              \/ BuildApplicationImages(r) \/ BuildPipelineImages(r)
              \/ FinalizeLock(r) \/ JournalLock(r) \/ Render(r)
              \/ /\ Preparing(r, "profile_creation")
                 /\ Refuse(r, "prepare", ProfileAbsent)

--------------------------------------------------------------------------------
(* Verification reads private files only (verify_run).                          *)

Document(content) == content \notin {None, Torn}
ServingOnRecord(r) == Document(file[r].b2) /\ file[r].b2.cluster = file[r].lock
PipelineOnRecord(r) == Document(file[r].b3) /\ file[r].b3.cluster = file[r].lock

(* Mutant: the digests of the receipts are not compared.                        *)
Bound_ByLock(r) == /\ Document(file[r].acceptance)
                   /\ file[r].acceptance.lock = file[r].lock

Bound(r) ==
    LET f == file[r] IN
    /\ Document(f.acceptance)
    /\ f.acceptance.b2 = f.b2 /\ f.acceptance.b3 = f.b3
    /\ f.acceptance.lock = f.lock

VerifyAccepts(r) ==
    LET f == file[r] IN
    /\ f.session.status = "runtime_pass"
    /\ f.artifacts = [b2 |-> f.b2, b3 |-> f.b3, acceptance |-> f.acceptance]
    /\ ServingOnRecord(r) /\ PipelineOnRecord(r)
    /\ Bound(r)
    /\ f.acceptance.cluster = f.b3.cluster /\ f.acceptance.ns = f.b3.ns

--------------------------------------------------------------------------------
(* collect --failure: the evidence, and then the receipt that names it; both   *)
(* are written once.  A query that fails is recorded as such.                  *)

Unread == 0 - 1

Collect(r) ==
    /\ file[r].session.status # "none" /\ file[r].evidence = None
    /\ down[r].at = "idle" /\ ~down[r].pointing
    /\ \/ /\ cluster > 0
          /\ Put(r, "evidence", [ns |-> ns, job |-> live[Acceptance]])
          /\ UNCHANGED left
       \/ /\ cluster = 0 \/ left.faults > 0
          /\ Put(r, "evidence", [ns |-> ns, job |-> Unread])
          /\ left' = [left EXCEPT !.faults = IF cluster = 0 THEN @ ELSE @ - 1]
    /\ down' = [down EXCEPT ![r].pointing = TRUE]
    /\ UNCHANGED <<world, run, seen>>

Point(r) ==
    /\ down[r].pointing
    /\ down' = [down EXCEPT ![r].pointing = FALSE]
    /\ \/ /\ file[r].pointer = None /\ Put(r, "pointer", file[r].evidence)
          /\ UNCHANGED left
       \/ /\ left.faults > 0 /\ left' = [left EXCEPT !.faults = @ - 1]
          /\ UNCHANGED file
    /\ UNCHANGED <<world, run, seen>>

--------------------------------------------------------------------------------
(* Teardown (teardown_demo, teardown_run): offline checks, live checks, then     *)
(* the deletion of the namespace and of the profile, by name.                   *)

TearAt(r, place) == down[r].at = place
Tear(r, place) == down' = [down EXCEPT ![r].at = place]

(* The checks that contact nothing; also when the acceptance receipt is absent.  *)
Authorized(r) ==
    LET f == file[r] IN
    /\ f.session.status # "none"
    /\ ServingOnRecord(r) /\ PipelineOnRecord(r)
    /\ f.pointer # None /\ f.evidence = f.pointer /\ Document(f.evidence)
    /\ f.acceptance = None \/ Bound(r)
    /\ f.ended = "none"

ReadEvidence(r) ==
    /\ TearAt(r, "idle") /\ Authorized(r)
    /\ down' = [down EXCEPT ![r] =
           [@ EXCEPT !.at = "matchB2", !.b2 = file[r].b2, !.b3 = file[r].b3,
                     !.acceptance = file[r].acceptance,
                     !.evidence = file[r].evidence]]
    /\ UNCHANGED <<world, run, file, seen, left>>

Look(r, place, ok, next) == /\ TearAt(r, place)
                            /\ Tear(r, IF ok THEN next ELSE "idle")
                            /\ UNCHANGED <<world, run, file, seen, left>>

(* The acceptance Job's uid: from its receipt, else from the evidence.           *)
ExpectedJob(r) == IF down[r].acceptance # None THEN down[r].acceptance.job
                                               ELSE down[r].evidence.job

SamePlace(r) == \/ down[r].acceptance = None
                \/ /\ down[r].acceptance.cluster = cluster
                   /\ down[r].acceptance.ns = ns

ListProfile(r) ==
    /\ TearAt(r, "inventory")
    /\ Tear(r, IF InventoryIs(down[r].b2, down[r].b3, ExpectedJob(r))
               THEN "namespace" ELSE "idle")
    /\ seen' = [seen EXCEPT ![r].listed = made]
    /\ UNCHANGED <<world, run, file, left>>

Emptied == /\ ns' = 0
           /\ live' = [n \in Names |-> 0]
           /\ done' = {}

(* An action that fails writes a partial_failure receipt: no other can follow.   *)
DeleteNamespace(r) ==
    /\ TearAt(r, "namespace")
    /\ \/ /\ ns > 0 /\ Emptied /\ Tear(r, "profile")
          /\ UNCHANGED <<file, left>>
       \/ /\ left.faults > 0 \/ ns = 0
          /\ Emptied \/ UNCHANGED <<ns, live, done>>
          /\ left' = [left EXCEPT !.faults = IF ns = 0 THEN @ ELSE @ - 1]
          /\ Tear(r, "idle") /\ Put(r, "ended", "partial_failure")
    /\ UNCHANGED <<cluster, made, run, seen>>

DeleteProfile(r) ==
    /\ TearAt(r, "profile")
    /\ \/ /\ cluster' = 0 /\ Emptied
          /\ Tear(r, "report") /\ UNCHANGED <<file, left>>
       \/ /\ left.faults > 0 /\ left' = [left EXCEPT !.faults = @ - 1]
          /\ (cluster' = 0 /\ Emptied) \/ UNCHANGED <<cluster, ns, live, done>>
          /\ Tear(r, "idle") /\ Put(r, "ended", "partial_failure")
    /\ UNCHANGED <<made, run, seen>>

ReportDeleted(r) == /\ TearAt(r, "report")
                    /\ Tear(r, "idle") /\ Put(r, "ended", "deleted")
                    /\ UNCHANGED <<world, run, seen, left>>

(* The command dies, or a query of its checks fails.                            *)
DropTeardown(r) == /\ ~TearAt(r, "idle") /\ left.faults > 0
                   /\ left' = [left EXCEPT !.faults = @ - 1]
                   /\ Tear(r, "idle")
                   /\ UNCHANGED <<world, run, file, seen>>

Teardown(r) ==
    \/ ReadEvidence(r)
    \/ Look(r, "matchB2", ServingMatches(r, down[r].b2), "matchB3")
    \/ Look(r, "matchB3", /\ PipelineMatches(r, down[r].b3, TRUE)
                          /\ SamePlace(r), "job")
    \/ Look(r, "job", ExpectedJob(r) = live[Acceptance], "inventory")
    \/ ListProfile(r) \/ DeleteNamespace(r) \/ DeleteProfile(r)
    \/ ReportDeleted(r) \/ DropTeardown(r)

--------------------------------------------------------------------------------
(* The profile and its other users.                                           *)

(* A Job reads what the earlier ones wrote: without it it fails, and is not       *)
(* retried (backoffLimit 0).                                                  *)
Needs(n) == IF n = Acceptance THEN Jobs
            ELSE {Steps[i] : i \in 1..(PositionOf(n) - 1)} \cup {"platform"}
Complete(n) == /\ live[n] > 0 /\ n \notin done /\ Needs(n) \subseteq done
               /\ done' = done \cup {n}
               /\ UNCHANGED <<cluster, ns, live, made, run, file, down, seen, left>>
CompleteStep == \E n \in Jobs : Complete(n)
CompleteAcceptance == Complete(Acceptance)

Drift == left.drift > 0 /\ left' = [left EXCEPT !.drift = @ - 1]

Replace(n) == /\ live[n] > 0 /\ Drift
              /\ live' = [live EXCEPT ![n] = made[n] + 1]
              /\ made' = [made EXCEPT ![n] = @ + 1]
              /\ UNCHANGED <<cluster, ns, done, run, file, down, seen>>

Intrude(n) == /\ ns > 0 /\ live[n] = 0 /\ Drift
              /\ Create({n})
              /\ UNCHANGED <<cluster, ns, done, run, file, down, seen>>

(* A receipt is overwritten: by another run's, or by nothing that parses.        *)
Tamper(r, field) ==
    /\ file[r][field] # None /\ Drift
    /\ \E content \in ({Torn} \cup {file[q][field] : q \in Runs}) \ {None} :
           Put(r, field, content)
    /\ UNCHANGED <<world, run, down, seen>>

World == \/ CompleteStep \/ CompleteAcceptance
         \/ \E n \in {"serving-pod", "platform-pod"} : Replace(n)
         \/ \E n \in Strays : Intrude(n)
         \/ \E r \in Runs : \E field \in {"b2", "b3", "acceptance", "evidence"} :
                Tamper(r, field)

--------------------------------------------------------------------------------
Init ==
    /\ cluster = 0 /\ ns = 0 /\ live = [n \in Names |-> 0] /\ done = {}
    /\ made = [n \in Names \cup {"profile", "namespace"} |-> 0]
    /\ run = [r \in Runs |-> [at |-> "idle", cluster |-> 0, b2 |-> None,
                              b3 |-> None]]
    /\ file = [r \in Runs |-> NoFiles]
    /\ down = [r \in Runs |-> [at |-> "idle", pointing |-> FALSE, b2 |-> None,
                               b3 |-> None, acceptance |-> None,
                               evidence |-> None]]
    /\ seen = [r \in Runs |-> [b2 |-> None, b3 |-> None, root |-> 0,
                               listed |-> made]]
    /\ left = [faults |-> MaxFaults, drift |-> MaxDrift]

Coordinate(r) == \/ Prepare(r) \/ Serve(r) \/ RunPipeline(r) \/ Accept(r)
                 \/ JobGone(r) \/ Fail(r) \/ FailWriting(r) \/ Die(r)
Operate(r) == Collect(r) \/ Point(r) \/ Teardown(r)

Next == \/ World
        \/ \E r \in Runs : Coordinate(r)
        \/ \E r \in Operated : Operate(r)

Spec == Init /\ [][Next]_vars

--------------------------------------------------------------------------------
(* Properties.                                                              *)

Receipts(S) == [cluster : Nat, ns : Nat, objects : [S -> Nat]]
ServingFile == Receipts(Serving) \cup {None, Torn}
PipelineFile == Receipts(Pipeline) \cup {None, Torn}
AcceptanceReceipts == [b2 : Receipts(Serving), b3 : Receipts(Pipeline), cluster : Nat,
                       ns : Nat, lock : Nat, job : Nat]
AcceptanceFile == AcceptanceReceipts \cup {None, Torn}
EvidenceFile == [ns : Nat, job : Nat \cup {Unread}] \cup {None, Torn}

(* A file that is absent or cut short is no receipt.                           *)
ASSUME FileConstants ==
    \A content \in {None, Torn} : /\ content \notin Receipts(Serving)
                                 /\ content \notin Receipts(Pipeline)
                                 /\ content \notin AcceptanceReceipts

(* The type of every variable.                                               *)
TypeOK ==
    /\ {cluster, ns} \subseteq Nat /\ live \in [Names -> Nat]
    /\ done \subseteq Names
    /\ made \in [Names \cup {"profile", "namespace"} -> Nat]
    /\ run \in [Runs -> [at : Places, cluster : Nat, b2 : ServingFile,
                        b3 : PipelineFile]]
    /\ \A r \in Runs :
           /\ file[r].b2 \in ServingFile /\ file[r].b3 \in PipelineFile
           /\ file[r].acceptance \in AcceptanceFile
           /\ {file[r].evidence, file[r].pointer} \subseteq EvidenceFile
           /\ {file[r].prepared, file[r].lock} \subseteq Nat
           /\ file[r].ended \in {"none", "partial_failure", "deleted"}
    /\ \A n \in Names : live[n] <= made[n]

(* A journal claims a stage only after what the stage leaves behind is there,   *)
(* whatever dies, fails or is answered in between: the stages are completed in  *)
(* order, "serving" has its receipt, "pipeline" its closed execution receipt    *)
(* and ownership receipt, "acceptance" its receipt, and every step the execution *)
(* receipt lists is complete in the namespace it was run in.  So it is also of a *)
(* session written as failed because its previous write raised: it lists the      *)
(* stage that was done, and a run that passed lists them all (demo.py run_demo,   *)
(* pipeline.py execute_pipeline).                                              *)
JournalTruthful ==
    \A r \in Runs :
        LET f == file[r]
            claimed == Range(f.session.completed)
            ran == Range(f.exec.completed) IN
        /\ \/ IsPrefix(f.session.completed, RunStages)
           \/ IsPrefix(f.session.completed, PrepStages \o RunStages)
        /\ "serving" \in claimed => f.b2 # None
        /\ "pipeline" \in claimed => /\ f.exec.status = "completed" /\ f.b3 # None
                                    /\ ran = Jobs \cup {"platform"}
        /\ "acceptance" \in claimed => f.acceptance # None
        /\ f.session.status = "runtime_pass" => "acceptance" \in claimed
        /\ ns > 0 /\ ns = seen[r].root => ran \subseteq done

(* What verify accepts later and offline was live when a run was accepted: the   *)
(* receipts on disk are those one acceptance compared with the cluster, of one    *)
(* and the same namespace, whatever was replaced, deleted or overwritten since    *)
(* or meanwhile.  It is this run's acceptance, or that of the run whose three     *)
(* files have all been put in the place of its own before it ended (demo.py       *)
(* verify_run, acceptance.py run_acceptance).                                  *)
VerifiedWasLive ==
    \A r \in Runs : VerifyAccepts(r) =>
        \E q \in Runs : /\ file[r].b2 = seen[q].b2 /\ file[r].b3 = seen[q].b3
                        /\ file[r].b2.ns = file[r].b3.ns

(* Two runs that share a profile never both execute the pipeline in one          *)
(* namespace: although both may pass the namespace and the clearance checks,     *)
(* only one creates the HDFS root (hdfs_lifecycle.py bootstrap_hdfs).            *)
PipelineRunsOnce ==
    \A r, q \in Runs : r # q /\ seen[r].root > 0 => seen[r].root # seen[q].root

(* A Job is created only when everything it reads is complete, in the order of   *)
(* the plan.  The one exception: nothing in the loop over the steps looks at the  *)
(* namespace again, so a run whose own namespace was deleted meanwhile goes on    *)
(* with its next Job in the one that has taken its name (pipeline.py _step_specs,  *)
(* execute_pipeline).                                                         *)
Astray(r) == At(r, "apply") /\ seen[r].root < ns
StepsInOrder ==
    [][\A n \in Jobs : live[n] = 0 /\ live'[n] > 0 =>
           \/ Needs(n) \subseteq done
           \/ \E r \in Runs : Astray(r) /\ n = NextStep(r)]_vars

(* Teardown deletes the namespace only when, at its last listing, every object    *)
(* in it was one of the run's receipts: whatever else is deleted was created     *)
(* after that listing (teardown.py teardown_run).                              *)
Accounted(r, n) == \/ n \in Serving /\ live[n] = down[r].b2.objects[n]
                   \/ n \in Pipeline /\ live[n] = down[r].b3.objects[n]
                   \/ n = Acceptance /\ live[n] = ExpectedJob(r)
Deleting(r) == TearAt(r, "namespace") /\ down'[r] # down[r] /\ ns > 0 /\ ns' = 0
DeletesOnlyOwn ==
    [][\A r \in Runs : Deleting(r) =>
           /\ ns = down[r].b2.ns \/ ns > seen[r].listed["namespace"]
           /\ \A n \in Existing : Accounted(r, n) \/ live[n] > seen[r].listed[n]]_vars
================================================================================
