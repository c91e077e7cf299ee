-------------------------------- MODULE DemoRunProofs --------------------------
(***************************************************************************)
(* What DemoRun promises, for any number of runs that share a profile, any       *)
(* pipeline, and any number of failures, deaths, replaced objects and overwritten *)
(* files.                                                                    *)
(***************************************************************************)
EXTENDS DemoRun, SequenceTheorems, TLAPS

Stages == {"local_identity", "profile_creation", "application_images",
           "pipeline_images", "lock_finalization", "private_render",
           "namespace_preflight", "serving", "pipeline", "acceptance"}
Journals == [status : {"none", "preparing", "failed"}, completed : Seq(Stages)]
Sessions == [status : {"none", "running", "runtime_pass", "failed"},
             stage : Stages \cup {"none", "pipeline_render", "complete"}, completed : Seq(Stages)]
Execs == [status : {"none", "running", "failed", "receipt_failed", "completed"},
          completed : Seq(Jobs \cup {"platform"})]
Artifacts == [b2 : ServingFile, b3 : PipelineFile, acceptance : AcceptanceFile]
                 \cup {None}
Files == [journal : Journals, prepared : Nat, lock : Nat, session : Sessions,
          b2 : ServingFile, exec : Execs, b3 : PipelineFile,
          acceptance : AcceptanceFile, artifacts : Artifacts,
          evidence : EvidenceFile, pointer : EvidenceFile,
          ended : {"none", "partial_failure", "deleted"}]
Coordinators == [at : Places, cluster : Nat, b2 : ServingFile, b3 : PipelineFile]
Teardowns == [at : {"idle", "matchB2", "matchB3", "job", "inventory", "namespace",
                    "profile", "report"},
              pointing : BOOLEAN, b2 : ServingFile, b3 : PipelineFile,
              acceptance : AcceptanceFile, evidence : EvidenceFile]
Made == [Names \cup {"profile", "namespace"} -> Nat]
Histories == [b2 : Receipts(Serving) \cup {None}, b3 : Receipts(Pipeline) \cup {None},
              root : Nat, listed : Made]

(* The cluster: what is there was numbered when it was made, and there is nothing   *)
(* outside the namespace, the newest there has been.                            *)
WorldInv ==
    /\ cluster \in Nat /\ ns \in {0, made["namespace"]}
    /\ live \in [Names -> Nat] /\ done \subseteq Names
    /\ made \in Made
    /\ \A n \in Names : live[n] <= made[n]
    /\ ns = 0 => done = {} /\ \A n \in Names : live[n] = 0

(* The types of what the runs and their operators hold.                          *)
HeldInv ==
    /\ run \in [Runs -> Coordinators] /\ file \in [Runs -> Files]
    /\ down \in [Runs -> Teardowns] /\ seen \in [Runs -> Histories]

TypeInv == WorldInv /\ HeldInv

--------------------------------------------------------------------------------
(* The journal.  Each place knows the next stage; a stage is claimed after what it   *)
(* leaves behind.                                                             *)

AllStages == PrepStages \o RunStages
Follows(c, t) == Len(c) <= Len(t) /\ \A i \in 1..Len(c) : c[i] = t[i]
Ordered(c) == Follows(c, RunStages) \/ Follows(c, AllStages)
ExpectsIn(c, t, x) == Follows(c, t) /\ Len(c) < Len(t) /\ t[Len(c) + 1] = x
Expects(c, x) == ExpectsIn(c, RunStages, x) \/ ExpectsIn(c, AllStages, x)

Early == {"idle", "prepare", "render"}
Deploying == {"target", "namespace", "secrets", "manifests", "collectB2", "journalB2"}
BeforeRoot == Early \cup {"preflight"} \cup Deploying \cup
              {"renderB3", "matchB2", "clear", "platform", "awaitPlatform"}
Stepping == {"apply", "await"}
Stepped == {"collectB3", "closeExec", "journalB3"}
Piping == {"renderB3", "matchB2", "clear", "platform", "awaitPlatform"}
              \cup Stepping \cup Stepped
Accepting == {"acceptB2", "acceptB3", "noJob", "applyJob", "awaitJob", "finish"}
Ended == {"failed", "dead"}

PipelineDone(f) == /\ f.exec.status = "completed" /\ f.b3 # None
                   /\ Range(f.exec.completed) = Jobs \cup {"platform"}

JournalInv(a, f) ==
    LET c == f.session.completed IN
    /\ a = "idle" => f.journal = NoJournal
    /\ a = "prepare" => Follows(f.journal.completed, PrepStages)
                        /\ Len(f.journal.completed) < Len(PrepStages)
    /\ a = "render" => f.journal.completed \in {<<>>, PrepStages}
    /\ a \in Early => f.session = NoSession
    /\ Ordered(c)
    /\ a = "preflight" => Expects(c, "namespace_preflight")
    /\ a \in Deploying => Expects(c, "serving")
    /\ a \in Piping => Expects(c, "pipeline")
    /\ a \in Accepting => Expects(c, "acceptance")

ClaimsInv(a, f) ==
    LET claimed == Range(f.session.completed) IN
    /\ f.session.status = "runtime_pass" <=> a = "passed"
    /\ a = "passed" => "acceptance" \in claimed
    /\ "acceptance" \in claimed => a \in Ended \cup {"passed"}
    /\ "acceptance" \in claimed \/ a = "finish" => f.acceptance # None
    /\ "pipeline" \in claimed => a \in Accepting \cup Ended \cup {"passed"}
    /\ "serving" \in claimed \/ a = "journalB2" => f.b2 # None
    /\ "pipeline" \in claimed \/ a = "journalB3" => PipelineDone(f)
    /\ a = "closeExec" => f.b3 # None

(* The execution receipt lists the platform and the first steps, in order.         *)
InOrder(c) == /\ Len(c) <= Len(Steps) + 1
              /\ \A i \in 1..Len(c) : c[i] = IF i = 1 THEN "platform" ELSE Steps[i - 1]
ExecInv(a, f, s) ==
    /\ InOrder(f.exec.completed)
    /\ a \in BeforeRoot => f.exec.completed = <<>> /\ s.root = 0
    /\ a \in Stepping => Len(f.exec.completed) \in 1..Len(Steps) /\ s.root > 0
    /\ a \in Stepped => Len(f.exec.completed) = Len(Steps) + 1

(* A namespace belongs to the run that made its HDFS root.                        *)
RootInv ==
    /\ \A r \in Runs :
           /\ seen[r].root <= made["namespace"]
           /\ ns > 0 /\ ns = seen[r].root =>
                  Range(file[r].exec.completed) \cup {"platform"} \subseteq done
    /\ PipelineRunsOnce

--------------------------------------------------------------------------------
(* Acceptance.  A receipt is no newer than the namespace; what a run has compared     *)
(* with the cluster it holds, and the acceptance receipt carries it.               *)

AgeInv(f) ==
    /\ f.b2 \in Receipts(Serving) => f.b2.ns <= made["namespace"]
    /\ f.b3 \in Receipts(Pipeline) => f.b3.ns <= made["namespace"]

BeforeAccept == BeforeRoot \cup Stepping \cup Stepped \cup {"acceptB2"}
Compared == {"noJob", "applyJob", "awaitJob"}

SeenInv(u, s) ==
    /\ u.at \in BeforeAccept => s.b2 = None
    /\ u.at \in BeforeAccept \cup {"acceptB3"} => s.b3 = None
    /\ u.at \in Compared \cup {"acceptB3"} =>
           u.b2 = s.b2 /\ u.b2 \in Receipts(Serving) /\ u.b2.ns <= made["namespace"]
    /\ u.at = "acceptB3" /\ u.b3 \in Receipts(Pipeline) => u.b3.ns <= u.b2.ns
    /\ u.at \in Compared =>
           u.b3 = s.b3 /\ u.b3 \in Receipts(Pipeline) /\ u.b3.ns = u.b2.ns

AcceptedIn(q, a) == /\ a.b2 = seen[q].b2 /\ a.b3 = seen[q].b3 /\ a.b2.ns = a.b3.ns
                    /\ seen[q].b2 # None /\ seen[q].b3 # None
AcceptanceInv ==
    \A r \in Runs : Document(file[r].acceptance) =>
        \E q \in Runs : AcceptedIn(q, file[r].acceptance)

--------------------------------------------------------------------------------
(* Teardown: since the listing, every object is one of the receipts' or newer.       *)

DownInv(d, s) ==
    /\ d.at # "idle" => d.b2 \in Receipts(Serving) /\ d.b3 \in Receipts(Pipeline)
    /\ \A n \in Names \cup {"namespace"} : s.listed[n] <= made[n]

ListedInv(r) ==
    down[r].at = "namespace" =>
        /\ ns = 0 \/ ns = down[r].b2.ns \/ ns > seen[r].listed["namespace"]
        /\ \A n \in Existing : Accounted(r, n) \/ live[n] > seen[r].listed[n]

IInv ==
    /\ TypeInv /\ RootInv /\ AcceptanceInv
    /\ \A r \in Runs :
           /\ JournalInv(run[r].at, file[r]) /\ ClaimsInv(run[r].at, file[r])
           /\ ExecInv(run[r].at, file[r], seen[r])
           /\ AgeInv(file[r]) /\ SeenInv(run[r], seen[r])
           /\ DownInv(down[r], seen[r]) /\ ListedInv(r)

--------------------------------------------------------------------------------
(* Facts about the data. *)

LEMMA NamesFacts ==
    /\ Serving \subseteq Names /\ Platform \subseteq Names /\ Jobs \subseteq Names
    /\ Pipeline \subseteq Names /\ Acceptance \in Names /\ Strays \subseteq Names
    /\ "profile" \notin Names /\ "namespace" \notin Names
    /\ "platform" \notin Jobs /\ Acceptance \notin Jobs /\ Acceptance \notin Serving
    /\ Acceptance \notin Pipeline /\ Serving \cap Pipeline = {}
    /\ "serving-pod" \in Names /\ "platform-pod" \in Names /\ "platform" \in Names
    /\ Strays \cap (Serving \cup Pipeline \cup {Acceptance}) = {}
BY DemoConstants DEF Serving, Platform, Pipeline, Acceptance, Names

LEMMA StepsFacts ==
    /\ Len(Steps) \in Nat /\ Len(Steps) > 0 /\ DOMAIN Steps = 1..Len(Steps)
    /\ \A i \in 1..Len(Steps) : Steps[i] \in Jobs /\ PositionOf(Steps[i]) = i
<1>1. Len(Steps) \in Nat /\ Len(Steps) > 0 /\ DOMAIN Steps = 1..Len(Steps)
    BY DemoConstants
<1>2. \A i \in 1..Len(Steps) : Steps[i] \in Jobs
    BY <1>1 DEF Jobs, Range
<1>3. ASSUME NEW i \in 1..Len(Steps) PROVE PositionOf(Steps[i]) = i
    <2>1. \A j \in DOMAIN Steps : Steps[j] = Steps[i] => j = i
        BY <1>1, DemoConstants DEF IsInjective
    <2> QED
        BY <1>1, <2>1 DEF PositionOf
<1> QED
    BY <1>1, <1>2, <1>3

LEMMA AppendFacts ==
    ASSUME NEW S, NEW s \in Seq(S), NEW x \in S
    PROVE  /\ Append(s, x) \in Seq(S)
           /\ Len(Append(s, x)) = Len(s) + 1 /\ Len(s) \in Nat
           /\ DOMAIN s = 1..Len(s) /\ DOMAIN Append(s, x) = 1..Len(s) + 1
           /\ \A i \in 1..Len(s) : Append(s, x)[i] = s[i]
           /\ Append(s, x)[Len(s) + 1] = x
           /\ Range(Append(s, x)) = Range(s) \cup {x}
<1>1. /\ Append(s, x) \in Seq(S)
      /\ Len(Append(s, x)) = Len(s) + 1 /\ Len(s) \in Nat
      /\ DOMAIN s = 1..Len(s) /\ DOMAIN Append(s, x) = 1..Len(s) + 1
      /\ \A i \in 1..Len(s) : Append(s, x)[i] = s[i]
      /\ Append(s, x)[Len(s) + 1] = x
    OBVIOUS
<1>2. \A i \in 1..Len(s) + 1 : i \in 1..Len(s) \/ i = Len(s) + 1
    BY <1>1
<1>3. (\A i \in 1..Len(s) : i \in 1..Len(s) + 1) /\ Len(s) + 1 \in 1..Len(s) + 1
    BY <1>1
<1>4. Range(Append(s, x)) = Range(s) \cup {x}
    BY <1>1, <1>2, <1>3 DEF Range
<1> QED
    BY <1>1, <1>4

LEMMA AppendStage ==
    ASSUME NEW s \in Seq(Stages), NEW x \in Stages
    PROVE  /\ Append(s, x) \in Seq(Stages)
           /\ Len(Append(s, x)) = Len(s) + 1 /\ Len(s) \in Nat
           /\ DOMAIN s = 1..Len(s) /\ DOMAIN Append(s, x) = 1..Len(s) + 1
           /\ \A i \in 1..Len(s) : Append(s, x)[i] = s[i]
           /\ Append(s, x)[Len(s) + 1] = x
           /\ Range(Append(s, x)) = Range(s) \cup {x}
BY AppendFacts

LEMMA SameSeq ==
    ASSUME NEW s \in Seq(Stages), NEW t \in Seq(Stages), Len(s) = Len(t),
           \A i \in 1..Len(s) : s[i] = t[i]
    PROVE  s = t
BY SeqEqual

LEMMA ConcatFacts ==
    ASSUME NEW s \in Seq(Stages), NEW t \in Seq(Stages)
    PROVE  /\ Len(s \o t) = Len(s) + Len(t)
           /\ \A i \in 1..Len(s) : (s \o t)[i] = s[i]
           /\ \A i \in 1..Len(t) : (s \o t)[Len(s) + i] = t[i]
OBVIOUS

(* The stages of a run, with those of its preparation or without. *)
LEMMA StagesFacts ==
    /\ Len(PrepStages) = 5 /\ Len(RunStages) = 5 /\ Len(AllStages) = 10
    /\ \A i \in 1..5 : AllStages[i] = PrepStages[i] /\ AllStages[i + 5] = RunStages[i]
    /\ \A i \in 1..5 : PrepStages[i] \in Stages /\ RunStages[i] \in Stages
    /\ PrepStages \in Seq(Stages) /\ RunStages \in Seq(Stages)
<1>1. /\ \A i \in 1..5 : PrepStages[i] \in Stages /\ RunStages[i] \in Stages
      /\ Len(PrepStages) = 5 /\ Len(RunStages) = 5
    BY DEF PrepStages, RunStages, Stages
<1>2. PrepStages \in Seq(Stages) /\ RunStages \in Seq(Stages)
    BY DEF PrepStages, RunStages, Stages
<1>3. /\ Len(AllStages) = 10
      /\ \A i \in 1..5 : AllStages[i] = PrepStages[i] /\ AllStages[i + 5] = RunStages[i]
    <2>1. /\ Len(AllStages) = Len(PrepStages) + Len(RunStages)
          /\ \A i \in 1..Len(PrepStages) : AllStages[i] = PrepStages[i]
          /\ \A i \in 1..Len(RunStages) : AllStages[Len(PrepStages) + i] = RunStages[i]
        BY <1>2, ConcatFacts, Zenon DEF AllStages
    <2>2. \A i \in 1..5 : i + 5 = 5 + i
        OBVIOUS
    <2> QED
        BY <1>1, <2>1, <2>2
<1> QED
    BY <1>1, <1>2, <1>3

LEMMA StageIs ==
    /\ PrepStages[1] = "local_identity" /\ PrepStages[2] = "profile_creation"
    /\ PrepStages[3] = "application_images" /\ PrepStages[4] = "pipeline_images"
    /\ PrepStages[5] = "lock_finalization"
    /\ RunStages[1] = "private_render" /\ RunStages[2] = "namespace_preflight"
    /\ RunStages[3] = "serving" /\ RunStages[4] = "pipeline"
    /\ RunStages[5] = "acceptance"
BY DEF PrepStages, RunStages

(* The stage after one. *)
NextStage(x) == CASE x = "namespace_preflight" -> "serving"
                  [] x = "serving" -> "pipeline"
                  [] OTHER -> "acceptance"

LEMMA ClaimFollows ==
    ASSUME NEW c \in Seq(Stages), NEW t \in {RunStages, AllStages}, NEW x \in Stages,
           ExpectsIn(c, t, x)
    PROVE  /\ Follows(Append(c, x), t)
           /\ x \in {"namespace_preflight", "serving", "pipeline"} =>
                  ExpectsIn(Append(c, x), t, NextStage(x))
<1> DEFINE d == Append(c, x)
<1>1. /\ Len(d) = Len(c) + 1 /\ Len(c) \in Nat /\ d[Len(c) + 1] = x
      /\ \A i \in 1..Len(c) : d[i] = c[i]
    OBVIOUS
<1>2. Len(t) \in {5, 10}
    BY StagesFacts
<1> HIDE DEF d
<1>3. Follows(d, t)
    BY <1>1, <1>2 DEF Follows, ExpectsIn
<1>4. ASSUME x \in {"namespace_preflight", "serving", "pipeline"}
      PROVE  Len(d) < Len(t) /\ t[Len(d) + 1] = NextStage(x)
    <2>1. CASE t = RunStages
        <3>1. Len(c) + 1 \in {1, 2, 3, 4, 5} /\ RunStages[Len(c) + 1] = x
            BY <1>1, <1>2, <2>1, StagesFacts DEF ExpectsIn
        <3>2. \/ Len(c) + 1 = 2 /\ x = "namespace_preflight"
              \/ Len(c) + 1 = 3 /\ x = "serving"
              \/ Len(c) + 1 = 4 /\ x = "pipeline"
            BY <1>1, <1>4, <3>1, StageIs
        <3> QED
            BY <1>1, <2>1, <3>2, StageIs, StagesFacts DEF NextStage
    <2>2. CASE t = AllStages
        <3>1. Len(c) + 1 \in {1, 2, 3, 4, 5, 6, 7, 8, 9, 10} /\ AllStages[Len(c) + 1] = x
            BY <1>1, <1>2, <2>2, StagesFacts DEF ExpectsIn
        <3>2. /\ AllStages[1] = PrepStages[1] /\ AllStages[2] = PrepStages[2]
              /\ AllStages[3] = PrepStages[3] /\ AllStages[4] = PrepStages[4]
              /\ AllStages[5] = PrepStages[5] /\ AllStages[6] = RunStages[1]
              /\ AllStages[7] = RunStages[2] /\ AllStages[8] = RunStages[3]
              /\ AllStages[9] = RunStages[4] /\ AllStages[10] = RunStages[5]
            BY StagesFacts
        <3>3. \/ Len(c) + 1 = 7 /\ x = "namespace_preflight"
              \/ Len(c) + 1 = 8 /\ x = "serving"
              \/ Len(c) + 1 = 9 /\ x = "pipeline"
            BY <1>1, <1>4, <3>1, <3>2, StageIs
        <3> QED
            BY <1>1, <2>2, <3>2, <3>3, StageIs, StagesFacts DEF NextStage
    <2> QED
        BY <2>1, <2>2
<1> QED
    BY <1>3, <1>4 DEF ExpectsIn, d

(* A claimed stage leaves the journal in order, and the next one to be claimed. *)
LEMMA Claim ==
    ASSUME NEW c \in Seq(Stages), NEW x \in Stages, Expects(c, x)
    PROVE  /\ Append(c, x) \in Seq(Stages) /\ Ordered(Append(c, x))
           /\ Range(Append(c, x)) = Range(c) \cup {x}
           /\ x \in {"namespace_preflight", "serving", "pipeline"} =>
                  Expects(Append(c, x), NextStage(x))
BY ClaimFollows, AppendFacts DEF Expects, Ordered

LEMMA EmptyFollows == Ordered(<<>>) /\ Range(<<>>) = {} /\ Follows(<<>>, PrepStages)
BY StagesFacts DEF Ordered, Follows, Range

(* The first record of a session follows the stages of its preparation, if any. *)
LEMMA FirstClaim ==
    ASSUME NEW p \in {<<>>, PrepStages}
    PROVE  /\ Append(p, "private_render") \in Seq(Stages)
           /\ Ordered(Append(p, "private_render"))
           /\ Expects(Append(p, "private_render"), "namespace_preflight")
           /\ Range(Append(p, "private_render")) \cap
                  {"serving", "pipeline", "acceptance"} = {}
<1> DEFINE d == Append(p, "private_render")
<1>1. CASE p = <<>>
    <2>0. <<>> \in Seq(Stages) /\ Len(<<>>) = 0 /\ "private_render" \in Stages
        BY DEF Stages
    <2>1. Len(d) = 1 /\ d[1] = "private_render" /\ d \in Seq(Stages) /\ DOMAIN d = 1..1
        BY <1>1, <2>0, AppendFacts
    <2> HIDE DEF d
    <2>2. Range(d) \cap {"serving", "pipeline", "acceptance"} = {}
        BY <2>1 DEF Range
    <2>3. ExpectsIn(d, RunStages, "namespace_preflight")
        BY <2>1, StagesFacts, StageIs DEF ExpectsIn, Follows
    <2> QED
        BY <2>1, <2>2, <2>3 DEF Expects, Ordered, ExpectsIn, d
<1>2. CASE p = PrepStages
    <2>1. /\ Len(d) = 6 /\ d[6] = "private_render" /\ d \in Seq(Stages)
          /\ DOMAIN d = 1..6 /\ \A i \in 1..5 : d[i] = PrepStages[i]
        <3>1. "private_render" \in Stages
            BY DEF Stages
        <3>2. /\ p \in Seq(Stages) /\ Len(p) = 5
            BY <1>2, StagesFacts
        <3>3. /\ Len(d) = Len(p) + 1 /\ d[Len(p) + 1] = "private_render"
              /\ d \in Seq(Stages) /\ DOMAIN d = 1..Len(p) + 1
              /\ \A i \in 1..Len(p) : d[i] = p[i]
            BY <3>1, <3>2, AppendStage, Zenon
        <3> HIDE DEF d
        <3> QED
            BY <1>2, <3>2, <3>3
    <2> HIDE DEF d
    <2>2. \A i \in 1..6 : i \in {1, 2, 3, 4, 5, 6}
        OBVIOUS
    <2>3. /\ d[1] = "local_identity" /\ d[2] = "profile_creation"
          /\ d[3] = "application_images" /\ d[4] = "pipeline_images"
          /\ d[5] = "lock_finalization"
        BY <2>1, StageIs
    <2>4. Range(d) \cap {"serving", "pipeline", "acceptance"} = {}
        BY <2>1, <2>2, <2>3 DEF Range
    <2>5. AllStages[6] = RunStages[1] /\ AllStages[7] = RunStages[2]
        BY StagesFacts
    <2>6. ExpectsIn(d, AllStages, "namespace_preflight")
        BY <2>1, <2>2, <2>5, StagesFacts, StageIs DEF ExpectsIn, Follows
    <2> QED
        BY <2>1, <2>4, <2>6 DEF Expects, Ordered, ExpectsIn, d
<1> QED
    BY <1>1, <1>2

--------------------------------------------------------------------------------
(* What a run's own steps do to what it holds. *)

Alone(r) == \A q \in Runs \ {r} :
                run'[q] = run[q] /\ file'[q] = file[q] /\ seen'[q] = seen[q]

(* The places a command or a look leads from and to. *)
Onward(a, b) ==
    <<a, b>> \in
        {<<"target", "namespace">>, <<"namespace", "secrets">>, <<"secrets", "manifests">>,
         <<"manifests", "collectB2">>, <<"matchB2", "clear">>, <<"clear", "platform">>,
         <<"platform", "awaitPlatform">>, <<"apply", "await">>, <<"noJob", "applyJob">>,
         <<"applyJob", "awaitJob">>}
Moves(r) == \E b \in Places : /\ Onward(run[r].at, b) /\ Go(r, b)
                              /\ UNCHANGED <<file, seen>>
Stops(r) == run[r].at \in Active /\ Stop(r) /\ UNCHANGED seen
NewProfile(r) == /\ CreateProfile(r) /\ Prepared(r)
                 /\ run' = [run EXCEPT ![r].cluster = cluster']

LocalStages == {"local_identity", "application_images", "pipeline_images"}
RunStep(r) ==
    \/ Moves(r) \/ Stops(r) \/ FailWriting(r) \/ Die(r)
    \/ Begin(r) \/ (\E stage \in LocalStages : PrepareLocally(r, stage)) \/ NewProfile(r)
    \/ FinalizeLock(r) \/ JournalLock(r) \/ Render(r)
    \/ Preflight(r) \/ CollectServing(r) \/ JournalServing(r)
    \/ RenderPipeline(r) \/ Bootstrap(r) \/ StepCompleted(r) \/ CollectPipeline(r)
    \/ CloseExec(r) \/ JournalPipeline(r)
    \/ AcceptServing(r) \/ AcceptPipeline(r) \/ WriteAcceptance(r) \/ Finish(r)

LEMMA RefuseStops ==
    ASSUME NEW r \in Runs, NEW place \in Active, NEW ok, Refuse(r, place, ok)
    PROVE  Stops(r)
BY DEF Refuse, At, Stops

LEMMA CheckMoves ==
    ASSUME NEW r \in Runs, NEW place, NEW next \in Places, NEW ok, Onward(place, next),
           Check(r, place, ok, next)
    PROVE  Moves(r)
BY DEF Check, At, Moves

LEMMA AnsweredMoves ==
    ASSUME NEW r \in Runs, NEW place \in Active, NEW next \in Places,
           Onward(place, next), At(r, place), Answered(r, next), UNCHANGED seen
    PROVE  Moves(r) \/ Stops(r)
BY DEF Answered, At, Moves, Stops

LEMMA ApplyMoves ==
    ASSUME NEW r \in Runs, NEW place \in Active, NEW next \in Places, NEW S,
           Onward(place, next), Apply(r, place, S, next)
    PROVE  Moves(r) \/ Stops(r)
BY AnsweredMoves DEF Apply

LEMMA OnwardFacts ==
    /\ Onward("target", "namespace") /\ Onward("namespace", "secrets")
    /\ Onward("secrets", "manifests") /\ Onward("manifests", "collectB2")
    /\ Onward("matchB2", "clear") /\ Onward("clear", "platform")
    /\ Onward("platform", "awaitPlatform") /\ Onward("apply", "await")
    /\ Onward("noJob", "applyJob") /\ Onward("applyJob", "awaitJob")
BY DEF Onward

LEMMA PlacesFacts ==
    /\ {"target", "namespace", "secrets", "manifests", "collectB2", "preflight", "clear",
        "platform", "awaitPlatform", "apply", "await", "collectB3", "journalB3", "matchB2",
        "acceptB2", "acceptB3", "noJob", "applyJob", "awaitJob", "prepare"} \subseteq Active
    /\ Active \subseteq Places /\ "failed" \in Places /\ "dead" \in Places
BY DEF Active, Places

LEMMA RunSteps ==
    ASSUME NEW r \in Runs, Coordinate(r)
    PROVE  RunStep(r)
<1>1. CASE Prepare(r)
    <2>1. CASE CreateProfile(r)
        <3>1. CASE Stop(r)
            BY <2>1, <3>1, PlacesFacts DEF CreateProfile, Preparing, At, Stops, RunStep
        <3>2. CASE ~Stop(r)
            <4>1. Prepared(r) /\ run' = [run EXCEPT ![r].cluster = cluster']
                BY <2>1, <3>2 DEF CreateProfile
            <4> QED
                BY <2>1, <4>1 DEF NewProfile, RunStep
        <3> QED
            BY <3>1, <3>2
    <2>2. CASE CheckLocally(r) \/ BuildApplicationImages(r) \/ BuildPipelineImages(r)
        <3>1. \E stage \in LocalStages : PrepareLocally(r, stage)
            BY <2>2 DEF CheckLocally, BuildApplicationImages, BuildPipelineImages, LocalStages
        <3> QED
            BY <3>1 DEF RunStep
    <2>3. CASE Refuse(r, "prepare", ProfileAbsent)
        BY <2>3, RefuseStops, PlacesFacts DEF RunStep
    <2> QED
        BY <1>1, <2>1, <2>2, <2>3 DEF Prepare, RunStep
<1>2. CASE Serve(r)
    <2>1. CASE Check(r, "target", OnTarget(r), "namespace")
        <3>1. Moves(r)
            BY <2>1, OnwardFacts, CheckMoves, PlacesFacts
        <3> QED
            BY <3>1 DEF RunStep
    <2>2. CASE ApplyNamespace(r)
        <3>1. At(r, "namespace") /\ Answered(r, "secrets") /\ UNCHANGED seen
            BY <2>2 DEF ApplyNamespace
        <3>2. Moves(r) \/ Stops(r)
            BY <3>1, OnwardFacts, AnsweredMoves, PlacesFacts
        <3> QED
            BY <3>2 DEF RunStep
    <2>3. CASE Apply(r, "secrets", {"secrets"}, "manifests")
        <3>1. Moves(r) \/ Stops(r)
            BY <2>3, OnwardFacts, ApplyMoves, PlacesFacts
        <3> QED
            BY <3>1 DEF RunStep
    <2>5. CASE Apply(r, "manifests", {"serving", "serving-pod"}, "collectB2")
        <3>1. Moves(r) \/ Stops(r)
            BY <2>5, OnwardFacts, ApplyMoves, PlacesFacts
        <3> QED
            BY <3>1 DEF RunStep
    <2>4. CASE \/ Refuse(r, "preflight", cluster > 0 /\ ns = 0)
               \/ Refuse(r, "target", OnTarget(r))
               \/ Refuse(r, "namespace", cluster > 0)
               \/ \E place \in {"secrets", "manifests"} : Refuse(r, place, ns > 0)
               \/ Refuse(r, "collectB2", ServingSound(file[r].lock))
        BY <2>4, RefuseStops, PlacesFacts DEF RunStep
    <2> QED
        BY <1>2, <2>1, <2>2, <2>3, <2>4, <2>5 DEF Serve, RunStep
<1>3. CASE RunPipeline(r)
    <2>1. CASE StartPipeline(r)
        <3>1. Moves(r)
            BY <2>1, OnwardFacts, CheckMoves, PlacesFacts DEF StartPipeline
        <3> QED
            BY <3>1 DEF RunStep
    <2>4. CASE Check(r, "clear", Clear, "platform")
        <3>1. Moves(r)
            BY <2>4, OnwardFacts, CheckMoves, PlacesFacts
        <3> QED
            BY <3>1 DEF RunStep
    <2>2. CASE Apply(r, "platform", Platform, "awaitPlatform")
        <3>1. Moves(r) \/ Stops(r)
            BY <2>2, OnwardFacts, ApplyMoves, PlacesFacts
        <3> QED
            BY <3>1 DEF RunStep
    <2>5. CASE ApplyStep(r)
        <3>1. Moves(r) \/ Stops(r)
            BY <2>5, OnwardFacts, ApplyMoves, PlacesFacts DEF ApplyStep
        <3> QED
            BY <3>1 DEF RunStep
    <2>3. CASE \/ Refuse(r, "matchB2", ServingMatches(r, file[r].b2))
               \/ Refuse(r, "clear", Clear)
               \/ \E place \in {"platform", "apply"} : Refuse(r, place, ns > 0)
               \/ Refuse(r, "awaitPlatform", CanBootstrap)
               \/ Refuse(r, "collectB3", PipelineReceiptable(r))
               \/ Refuse(r, "journalB3", file[r].b3 # Torn)
        BY <2>3, RefuseStops, PlacesFacts DEF RunStep
    <2> QED
        BY <1>3, <2>1, <2>2, <2>3, <2>4, <2>5 DEF RunPipeline, RunStep
<1>4. CASE Accept(r)
    <2>1. CASE Check(r, "noJob", NoJob, "applyJob")
        <3>1. Moves(r)
            BY <2>1, OnwardFacts, CheckMoves, PlacesFacts
        <3> QED
            BY <3>1 DEF RunStep
    <2>2. CASE ApplyAcceptance(r)
        <3>1. Moves(r) \/ Stops(r)
            BY <2>2, OnwardFacts, ApplyMoves, PlacesFacts DEF ApplyAcceptance
        <3> QED
            BY <3>1 DEF RunStep
    <2>3. CASE \/ Refuse(r, "acceptB2", ServingMatches(r, file[r].b2))
               \/ Refuse(r, "acceptB3", PipelineMatches(r, run[r].b3, FALSE))
               \/ Refuse(r, "noJob", NoJob)
               \/ Refuse(r, "applyJob", ns > 0)
        BY <2>3, RefuseStops, PlacesFacts DEF RunStep
    <2> QED
        BY <1>4, <2>1, <2>2, <2>3 DEF Accept, RunStep
<1>5. CASE JobGone(r)
    BY <1>5, RefuseStops, PlacesFacts DEF JobGone, RunStep
<1>6. CASE Fail(r) \/ FailWriting(r) \/ Die(r)
    BY <1>6 DEF Fail, Stops, RunStep
<1> QED
    BY <1>1, <1>2, <1>3, <1>4, <1>5, <1>6 DEF Coordinate

--------------------------------------------------------------------------------
(* A file written: its type, and what the other files of the run are.              *)

LEMMA FileFields ==
    ASSUME NEW f \in Files
    PROVE  /\ f.journal \in Journals /\ f.prepared \in Nat /\ f.lock \in Nat
           /\ f.session \in Sessions /\ f.b2 \in ServingFile /\ f.exec \in Execs
           /\ f.b3 \in PipelineFile /\ f.acceptance \in AcceptanceFile
           /\ f.artifacts \in Artifacts /\ f.evidence \in EvidenceFile
           /\ f.pointer \in EvidenceFile
           /\ f.ended \in {"none", "partial_failure", "deleted"}
BY DEF Files

LEMMA JournalFields ==
    ASSUME NEW f \in Files
    PROVE  /\ f.journal.completed \in Seq(Stages)
           /\ f.session.completed \in Seq(Stages)
           /\ f.exec.completed \in Seq(Jobs \cup {"platform"})
BY FileFields DEF Journals, Sessions, Execs

(* Equal in all the files but those whose names are given. *)
SameBut(f, g, S) ==
    \A field \in {"journal", "prepared", "lock", "session", "b2", "exec", "b3",
                  "acceptance", "artifacts", "evidence", "pointer", "ended"} \ S :
        g[field] = f[field]

LEMMA PutIn ==
    ASSUME NEW f \in Files
    PROVE  /\ \A x \in Journals : [f EXCEPT !["journal"] = x] \in Files
           /\ \A x \in Sessions : [f EXCEPT !["session"] = x] \in Files
           /\ \A x \in ServingFile : [f EXCEPT !["b2"] = x] \in Files
           /\ \A x \in Execs : [f EXCEPT !["exec"] = x] \in Files
           /\ \A x \in PipelineFile : [f EXCEPT !["b3"] = x] \in Files
           /\ \A x \in AcceptanceFile : [f EXCEPT !["acceptance"] = x] \in Files
           /\ \A x \in EvidenceFile : [f EXCEPT !["evidence"] = x] \in Files
           /\ \A x \in EvidenceFile : [f EXCEPT !["pointer"] = x] \in Files
           /\ \A x \in {"none", "partial_failure", "deleted"} :
                  [f EXCEPT !["ended"] = x] \in Files
           /\ \A x \in Nat : [f EXCEPT !["prepared"] = x] \in Files
<1>1. \A x \in Journals : [f EXCEPT !["journal"] = x] \in Files
    BY DEF Files
<1>2. \A x \in Sessions : [f EXCEPT !["session"] = x] \in Files
    BY DEF Files
<1>3. \A x \in ServingFile : [f EXCEPT !["b2"] = x] \in Files
    BY DEF Files
<1>4. \A x \in Execs : [f EXCEPT !["exec"] = x] \in Files
    BY DEF Files
<1>5. \A x \in PipelineFile : [f EXCEPT !["b3"] = x] \in Files
    BY DEF Files
<1>6. \A x \in AcceptanceFile : [f EXCEPT !["acceptance"] = x] \in Files
    BY DEF Files
<1>7. \A x \in EvidenceFile : [f EXCEPT !["evidence"] = x] \in Files
    BY DEF Files
<1>8. \A x \in EvidenceFile : [f EXCEPT !["pointer"] = x] \in Files
    BY DEF Files
<1>9. \A x \in {"none", "partial_failure", "deleted"} : [f EXCEPT !["ended"] = x] \in Files
    BY DEF Files
<1>10. \A x \in Nat : [f EXCEPT !["prepared"] = x] \in Files
    BY DEF Files
<1> QED
    BY <1>1, <1>2, <1>3, <1>4, <1>5, <1>6, <1>7, <1>8, <1>9, <1>10

Settable == {"journal", "session", "b2", "exec", "b3", "acceptance", "evidence",
             "pointer", "ended", "prepared"}
Changed(f, field, x) == [f EXCEPT ![field] = x]

LEMMA PutField ==
    ASSUME NEW f \in Files, NEW x, NEW field \in Settable
    PROVE  /\ Changed(f, field, x)[field] = x
           /\ SameBut(f, Changed(f, field, x), {field})
BY DEF Files, SameBut, Settable, Changed

LEMMA PutFacts ==
    ASSUME NEW r \in Runs, file \in [Runs -> Files], NEW x,
           NEW field \in {"journal", "session", "b2", "exec", "b3", "acceptance",
                          "evidence", "pointer", "ended", "prepared"},
           Put(r, field, x), [file[r] EXCEPT ![field] = x] \in Files
    PROVE  /\ file' \in [Runs -> Files] /\ file'[r][field] = x
           /\ SameBut(file[r], file'[r], {field})
           /\ \A q \in Runs \ {r} : file'[q] = file[q]
<1>1. file' = [file EXCEPT ![r] = [file[r] EXCEPT ![field] = x]]
    BY DEF Put
<1> DEFINE g == [file[r] EXCEPT ![field] = x]
<1>2. g[field] = x /\ SameBut(file[r], g, {field}) /\ g \in Files
    <2>1. file[r] \in Files /\ g \in Files /\ field \in Settable
        BY DEF Settable
    <2>2. g = Changed(file[r], field, x)
        BY DEF Changed
    <2> HIDE DEF g
    <2> QED
        BY <2>1, <2>2, PutField
<1>3. file' = [file EXCEPT ![r] = g]
    BY <1>1
<1> HIDE DEF g
<1> QED
    BY <1>2, <1>3

LEMMA RunFields ==
    ASSUME NEW u \in Coordinators
    PROVE  u.at \in Places /\ u.cluster \in Nat /\ u.b2 \in ServingFile
           /\ u.b3 \in PipelineFile
BY DEF Coordinators

LEMMA GoFacts ==
    ASSUME NEW r \in Runs, run \in [Runs -> Coordinators], NEW place \in Places,
           Go(r, place)
    PROVE  /\ run' \in [Runs -> Coordinators] /\ run'[r].at = place
           /\ run'[r].cluster = run[r].cluster
           /\ run'[r].b2 = run[r].b2 /\ run'[r].b3 = run[r].b3
           /\ \A q \in Runs \ {r} : run'[q] = run[q]
<1> DEFINE u == [run[r] EXCEPT !.at = place]
<1>1. /\ u \in Coordinators /\ u.at = place /\ u.cluster = run[r].cluster
      /\ u.b2 = run[r].b2 /\ u.b3 = run[r].b3
    BY DEF Coordinators
<1>2. run' = [run EXCEPT ![r] = u]
    BY DEF Go
<1> HIDE DEF u
<1> QED
    BY <1>1, <1>2

(* What a run that ends leaves in its files. *)
LEMMA StopFacts ==
    ASSUME NEW r \in Runs, HeldInv, Stop(r)
    PROVE  /\ run' \in [Runs -> Coordinators] /\ file' \in [Runs -> Files]
           /\ \A q \in Runs \ {r} : run'[q] = run[q] /\ file'[q] = file[q]
           /\ run'[r].at = "failed" /\ run'[r].b2 = run[r].b2 /\ run'[r].b3 = run[r].b3
           /\ SameBut(file[r], file'[r], {"journal", "exec", "session"})
           /\ file'[r].journal.completed = file[r].journal.completed
           /\ file'[r].exec.completed = file[r].exec.completed
           /\ run[r].at \notin {"await", "collectB3"} => file'[r].exec = file[r].exec
           /\ file'[r].session.completed = file[r].session.completed
           /\ file'[r].session.status \in {"none", "failed"}
           /\ file[r].session.status = "none" => file'[r].session = file[r].session
<1> DEFINE f == file[r]
           j == [f.journal EXCEPT !.status = IF At(r, "prepare") THEN "failed" ELSE @]
           e == [f.exec EXCEPT !.status =
                     IF At(r, "await") THEN "failed"
                     ELSE IF At(r, "collectB3") THEN "receipt_failed" ELSE @]
           s == [f.session EXCEPT !.status = IF @ = "none" THEN @ ELSE "failed"]
           g == FailedFiles(r)
<1>0. f \in Files /\ f.journal \in Journals /\ f.exec \in Execs /\ f.session \in Sessions
    BY FileFields DEF HeldInv
<1>1. j \in Journals /\ j.completed = f.journal.completed
    BY <1>0 DEF Journals
<1>2. /\ e \in Execs /\ e.completed = f.exec.completed
      /\ run[r].at \notin {"await", "collectB3"} => e = f.exec
    BY <1>0 DEF Execs, At
<1>3. /\ s \in Sessions /\ s.completed = f.session.completed
      /\ s.status \in {"none", "failed"}
      /\ f.session.status = "none" => s = f.session
    BY <1>0 DEF Sessions
<1>4. g = [f EXCEPT !.journal = j, !.exec = e, !.session = s]
    BY <1>0 DEF FailedFiles, Files, Journals, Execs, Sessions
<1> HIDE DEF f, j, e, s, g
<1>5. /\ g \in Files /\ g.journal = j /\ g.exec = e /\ g.session = s
      /\ SameBut(f, g, {"journal", "exec", "session"})
    BY <1>0, <1>1, <1>2, <1>3, <1>4 DEF Files, SameBut
<1>6. file' = [file EXCEPT ![r] = g] /\ Go(r, "failed")
    BY DEF Stop, g
<1>7. /\ run' \in [Runs -> Coordinators]  /\ \A q \in Runs \ {r} : run'[q] = run[q]
      /\ run'[r].at = "failed" /\ run'[r].b2 = run[r].b2 /\ run'[r].b3 = run[r].b3
    BY <1>6, GoFacts, PlacesFacts DEF HeldInv
<1>8. /\ file' \in [Runs -> Files] /\ file'[r] = g
      /\ \A q \in Runs \ {r} : file'[q] = file[q]
    BY <1>5, <1>6 DEF HeldInv
<1> QED
    BY <1>1, <1>2, <1>3, <1>5, <1>7, <1>8 DEF f

--------------------------------------------------------------------------------
(* What a run's place says of its files, from place to place. *)

RunInv(a, f, s) == JournalInv(a, f) /\ ClaimsInv(a, f) /\ ExecInv(a, f, s)

LEMMA MoveKeeps ==
    ASSUME NEW a \in Places, NEW b \in Places, NEW f \in Files, NEW s \in Histories,
           Onward(a, b), RunInv(a, f, s)
    PROVE  RunInv(b, f, s)
<1>1. JournalInv(b, f)
    BY DEF RunInv, JournalInv, Onward, Early, Deploying, Piping, Stepping, Stepped, Accepting
<1>2. ClaimsInv(b, f)
    BY DEF RunInv, ClaimsInv, Onward, Accepting, Ended
<1>3. ExecInv(b, f, s)
    BY DEF RunInv, ExecInv, Onward, BeforeRoot, Early, Deploying, Stepping, Stepped
<1> QED
    BY <1>1, <1>2, <1>3 DEF RunInv

(* Files of which only the receipts change, and none is removed. *)
LEMMA KeepsAt ==
    ASSUME NEW a \in Places, NEW f \in Files, NEW g \in Files,
           NEW s \in Histories, NEW t \in Histories,
           RunInv(a, f, s), t.root = s.root,
           g.journal = f.journal, g.session = f.session, g.exec = f.exec,
           f.b2 # None => g.b2 # None, f.b3 # None => g.b3 # None,
           f.acceptance # None => g.acceptance # None
    PROVE  RunInv(a, g, t)
<1>1. JournalInv(a, g)
    BY DEF RunInv, JournalInv
<1>2. ClaimsInv(a, g)
    BY DEF RunInv, ClaimsInv, PipelineDone
<1>3. ExecInv(a, g, t)
    BY DEF RunInv, ExecInv
<1> QED
    BY <1>1, <1>2, <1>3 DEF RunInv

(* A run that ends: its claims are those it has made. *)
LEMMA EndKeeps ==
    ASSUME NEW a \in Active, NEW b \in Ended, NEW f \in Files, NEW g \in Files,
           NEW s \in Histories, RunInv(a, f, s),
           g.session.completed = f.session.completed,
           g.session.status = f.session.status \/ g.session.status \in {"none", "failed"},
           g.exec.completed = f.exec.completed,
           a \notin {"await", "collectB3"} => g.exec = f.exec,
           g.b2 = f.b2, a # "collectB3" => g.b3 = f.b3
    PROVE  RunInv(b, g, s)
<1>0. a \in Places /\ a \notin {"idle", "passed", "failed", "dead"}
    BY DEF Active
<1>1. JournalInv(b, g)
    BY <1>0 DEF RunInv, JournalInv, Ended, Early, Deploying, Piping, Stepping, Stepped,
                Accepting
<1>2. ClaimsInv(b, g)
    <2>1. "pipeline" \in Range(f.session.completed) => a \notin {"await", "collectB3"}
        BY <1>0 DEF RunInv, ClaimsInv, Accepting, Ended
    <2>2. "pipeline" \in Range(f.session.completed) => PipelineDone(g)
        BY <2>1 DEF RunInv, ClaimsInv, PipelineDone
    <2>3. g.session.status # "runtime_pass" /\ "acceptance" \notin Range(g.session.completed)
        BY <1>0 DEF RunInv, ClaimsInv, Ended
    <2> QED
        BY <1>0, <2>2, <2>3 DEF RunInv, ClaimsInv, Ended
<1>3. ExecInv(b, g, s)
    BY DEF RunInv, ExecInv, Ended, BeforeRoot, Early, Deploying, Stepping, Stepped
<1> QED
    BY <1>1, <1>2, <1>3 DEF RunInv

(* The next stage claimed. *)
Next3(x) == CASE x = "namespace_preflight" -> "target" [] x = "serving" -> "renderB3"
              [] OTHER -> "acceptB2"
ClaimedAt(x) == CASE x = "namespace_preflight" -> "preflight" [] x = "serving" -> "journalB2"
                  [] OTHER -> "journalB3"

LEMMA ClaimKeeps ==
    ASSUME NEW x \in {"namespace_preflight", "serving", "pipeline"},
           NEW f \in Files, NEW g \in Files, NEW s \in Histories,
           RunInv(ClaimedAt(x), f, s),
           g.session.completed = Append(f.session.completed, x),
           g.session.status = f.session.status,
           g.journal = f.journal, g.exec = f.exec, g.b2 = f.b2, g.b3 = f.b3
    PROVE  RunInv(Next3(x), g, s)
<1> DEFINE c == f.session.completed
           d == g.session.completed
           a == ClaimedAt(x)
           b == Next3(x)
<1>0. c \in Seq(Stages) /\ x \in Stages
    BY JournalFields DEF Stages
<1>1. Expects(c, x)
    BY DEF RunInv, JournalInv, ClaimedAt, Deploying, Piping, Stepping, Stepped
<1>2. /\ Ordered(d) /\ Range(d) = Range(c) \cup {x}
      /\ Expects(d, NextStage(x))
    BY <1>0, <1>1, Claim
<1>3. CASE x = "namespace_preflight"
    <2>1. a = "preflight" /\ b = "target" /\ NextStage(x) = "serving"
        BY <1>3 DEF ClaimedAt, Next3, NextStage
    <2> HIDE DEF a, b, c, d
    <2>2. JournalInv(b, g)
        BY <1>2, <2>1 DEF JournalInv, Deploying, Piping, Stepping, Stepped, Accepting, Early, d
    <2>3. ClaimsInv(b, g)
        BY <1>2, <1>3, <2>1 DEF RunInv, ClaimsInv, a, c, d, Accepting, Ended
    <2>4. ExecInv(b, g, s)
        BY <2>1 DEF RunInv, ExecInv, a, BeforeRoot, Early, Deploying, Stepping, Stepped
    <2> QED
        BY <2>2, <2>3, <2>4 DEF RunInv, b
<1>4. CASE x = "serving"
    <2>1. a = "journalB2" /\ b = "renderB3" /\ NextStage(x) = "pipeline"
        BY <1>4 DEF ClaimedAt, Next3, NextStage
    <2> HIDE DEF a, b, c, d
    <2>2. JournalInv(b, g)
        BY <1>2, <2>1 DEF JournalInv, Deploying, Piping, Stepping, Stepped, Accepting, Early, d
    <2>3. ClaimsInv(b, g)
        BY <1>2, <1>4, <2>1 DEF RunInv, ClaimsInv, a, c, d, Accepting, Ended
    <2>4. ExecInv(b, g, s)
        BY <2>1 DEF RunInv, ExecInv, a, BeforeRoot, Early, Deploying, Stepping, Stepped
    <2> QED
        BY <2>2, <2>3, <2>4 DEF RunInv, b
<1>5. CASE x = "pipeline"
    <2>1. a = "journalB3" /\ b = "acceptB2" /\ NextStage(x) = "acceptance"
        BY <1>5 DEF ClaimedAt, Next3, NextStage
    <2> HIDE DEF a, b, c, d
    <2>2. JournalInv(b, g)
        BY <1>2, <2>1 DEF JournalInv, Deploying, Piping, Stepping, Stepped, Accepting, Early, d
    <2>3. ClaimsInv(b, g)
        BY <1>2, <1>5, <2>1 DEF RunInv, ClaimsInv, a, c, d, Accepting, Ended, PipelineDone
    <2>4. ExecInv(b, g, s)
        BY <2>1 DEF RunInv, ExecInv, a, BeforeRoot, Early, Deploying, Stepping, Stepped
    <2> QED
        BY <2>2, <2>3, <2>4 DEF RunInv, b
<1> QED
    BY <1>3, <1>4, <1>5

--------------------------------------------------------------------------------
(* What one step of a run keeps: the types, the other runs, and what its place says. *)

Fine(r) == /\ RunInv(run[r].at, file[r], seen[r])
           /\ AgeInv(file[r]) /\ SeenInv(run[r], seen[r])

RootKept(r) ==
    \/ /\ seen'[r].root = seen[r].root
       /\ Range(file'[r].exec.completed) \subseteq Range(file[r].exec.completed) \cup done
    \/ /\ ns > 0 /\ seen'[r].root = ns
       /\ "platform" \notin done /\ done' = done \cup {"platform"} /\ ns' = ns
       /\ Range(file'[r].exec.completed) = {"platform"}

AcceptedKept(r) ==
    /\ seen'[r].listed = seen[r].listed
    /\ seen'[r].b2 = seen[r].b2 \/ seen[r].b2 = None
    /\ seen'[r].b3 = seen[r].b3 \/ seen[r].b3 = None
    /\ LET a == file'[r].acceptance IN
       \/ a \in {file[r].acceptance, None, Torn}
       \/ /\ a.b2 = seen'[r].b2 /\ a.b3 = seen'[r].b3 /\ a.b2.ns = a.b3.ns
          /\ seen'[r].b2 # None /\ seen'[r].b3 # None

Kept(r) ==
    /\ run' \in [Runs -> Coordinators] /\ file' \in [Runs -> Files]
    /\ seen' \in [Runs -> Histories] /\ Alone(r)
    /\ RunInv(run'[r].at, file'[r], seen'[r])
    /\ AgeInv(file'[r]) /\ SeenInv(run'[r], seen'[r])
    /\ RootKept(r) /\ AcceptedKept(r)

LEMMA ReceiptFacts ==
    ASSUME TypeInv
    PROVE  /\ ServingReceipt \in Receipts(Serving) /\ ServingReceipt.ns = ns
           /\ PipelineReceipt \in Receipts(Pipeline) /\ PipelineReceipt.ns = ns
           /\ ns \in Nat /\ made["namespace"] \in Nat /\ ns <= made["namespace"]
           /\ ns > 0 => ns = made["namespace"]
           /\ None \notin Receipts(Serving) /\ None \notin Receipts(Pipeline)
           /\ Torn \notin Receipts(Serving) /\ Torn \notin Receipts(Pipeline)
<1>1. made["namespace"] \in Nat /\ ns \in {0, made["namespace"]} /\ cluster \in Nat
    BY DEF TypeInv, WorldInv, Made
<1>2. \A S \in SUBSET Names : [n \in S |-> live[n]] \in [S -> Nat]
    BY DEF TypeInv, WorldInv
<1>3. /\ [n \in Serving |-> live[n]] \in [Serving -> Nat]
      /\ [n \in Pipeline |-> live[n]] \in [Pipeline -> Nat]
    BY <1>2, NamesFacts
<1>4. /\ ServingReceipt \in Receipts(Serving) /\ ServingReceipt.ns = ns
      /\ PipelineReceipt \in Receipts(Pipeline) /\ PipelineReceipt.ns = ns
    BY <1>1, <1>3 DEF ServingReceipt, PipelineReceipt, ReceiptOf, Receipts
<1> QED
    BY <1>1, <1>4, FileConstants

LEMMA HeldFacts ==
    ASSUME NEW r \in Runs, TypeInv
    PROVE  /\ run \in [Runs -> Coordinators] /\ file \in [Runs -> Files]
           /\ seen \in [Runs -> Histories]
           /\ run[r] \in Coordinators /\ file[r] \in Files /\ seen[r] \in Histories
           /\ run[r].at \in Places
BY RunFields DEF TypeInv, HeldInv

(* A step that neither runs a pipeline Job nor accepts. *)
LEMMA PlainKept ==
    ASSUME NEW r \in Runs, TypeInv, Fine(r), UNCHANGED seen,
           run' \in [Runs -> Coordinators], file' \in [Runs -> Files],
           \A q \in Runs \ {r} : run'[q] = run[q] /\ file'[q] = file[q],
           RunInv(run'[r].at, file'[r], seen[r]),
           file'[r].b2 \in {file[r].b2, ServingReceipt},
           file'[r].b3 \in {file[r].b3, PipelineReceipt, Torn},
           file'[r].acceptance \in {file[r].acceptance, None, Torn},
           file'[r].exec.completed = file[r].exec.completed,
           SeenInv(run'[r], seen[r])
    PROVE  Kept(r)
<1>1. AgeInv(file'[r])
    BY ReceiptFacts DEF AgeInv, Fine
<1>2. RootKept(r)
    BY DEF RootKept
<1>3. AcceptedKept(r)
    BY DEF AcceptedKept
<1> QED
    BY <1>1, <1>2, <1>3, HeldFacts DEF Kept, Alone

LEMMA KeptMoves ==
    ASSUME NEW r \in Runs, TypeInv, Fine(r), Moves(r)
    PROVE  Kept(r)
<1>1. PICK b \in Places : Onward(run[r].at, b) /\ Go(r, b) /\ UNCHANGED <<file, seen>>
    BY DEF Moves
<1>2. /\ run' \in [Runs -> Coordinators] /\ run'[r].at = b
      /\ run'[r].b2 = run[r].b2 /\ run'[r].b3 = run[r].b3
      /\ \A q \in Runs \ {r} : run'[q] = run[q]
    BY <1>1, GoFacts, HeldFacts
<1>3. RunInv(b, file[r], seen[r])
    BY <1>1, MoveKeeps, HeldFacts DEF Fine
<1>4. SeenInv(run'[r], seen[r])
    BY <1>1, <1>2 DEF Fine, SeenInv, Onward, BeforeAccept, BeforeRoot, Early, Deploying,
                      Stepping, Stepped, Compared
<1> QED
    BY <1>1, <1>2, <1>3, <1>4, PlainKept, HeldFacts

LEMMA SeenEnded ==
    ASSUME NEW u \in Coordinators, NEW s \in Histories,
           u.at \in Ended \cup {"finish", "passed"}
    PROVE  SeenInv(u, s)
BY DEF SeenInv, Ended, BeforeAccept, BeforeRoot, Early, Deploying, Stepping, Stepped, Compared

LEMMA KeptStops ==
    ASSUME NEW r \in Runs, TypeInv, Fine(r), Stops(r)
    PROVE  Kept(r)
<1> DEFINE g == file'[r]
<1>1. /\ run' \in [Runs -> Coordinators] /\ file' \in [Runs -> Files]
      /\ \A q \in Runs \ {r} : run'[q] = run[q] /\ file'[q] = file[q]
      /\ run'[r].at = "failed" /\ run'[r].b2 = run[r].b2 /\ run'[r].b3 = run[r].b3
      /\ SameBut(file[r], g, {"journal", "exec", "session"})
      /\ g.exec.completed = file[r].exec.completed
      /\ run[r].at \notin {"await", "collectB3"} => g.exec = file[r].exec
      /\ g.session.completed = file[r].session.completed
      /\ g.session.status \in {"none", "failed"}
    BY StopFacts DEF Stops, TypeInv
<1>2. g.b2 = file[r].b2 /\ g.b3 = file[r].b3 /\ g.acceptance = file[r].acceptance
    BY <1>1 DEF SameBut
<1> HIDE DEF g
<1>3. RunInv("failed", g, seen[r])
    BY <1>1, <1>2, EndKeeps, HeldFacts DEF Fine, Stops, Ended, g
<1>4. SeenInv(run'[r], seen[r])
    BY <1>1, SeenEnded, HeldFacts DEF Ended
<1> QED
    BY <1>1, <1>2, <1>3, <1>4, PlainKept DEF Stops, g

LEMMA KeptDie ==
    ASSUME NEW r \in Runs, TypeInv, Fine(r), Die(r)
    PROVE  Kept(r)
<1> DEFINE g == file'[r]
<1>1. run[r].at \in Active /\ Go(r, "dead") /\ UNCHANGED seen
    BY DEF Die
<1>2. /\ run' \in [Runs -> Coordinators] /\ run'[r].at = "dead"
      /\ \A q \in Runs \ {r} : run'[q] = run[q]
    BY <1>1, GoFacts, HeldFacts, PlacesFacts
<1>3. /\ file' \in [Runs -> Files] /\ \A q \in Runs \ {r} : file'[q] = file[q]
      /\ g.session = file[r].session /\ g.exec = file[r].exec /\ g.b2 = file[r].b2
      /\ g.b3 = file[r].b3 \/ (run[r].at = "collectB3" /\ g.b3 = Torn)
      /\ g.acceptance \in {file[r].acceptance, Torn}
    <2>1. CASE UNCHANGED file
        BY <2>1, HeldFacts
    <2>2. CASE At(r, "collectB3") /\ Put(r, "b3", Torn)
        <3>1. [file[r] EXCEPT !["b3"] = Torn] \in Files
            BY PutIn, HeldFacts DEF PipelineFile
        <3>2. /\ file' \in [Runs -> Files] /\ g["b3"] = Torn
              /\ SameBut(file[r], g, {"b3"})
              /\ \A q \in Runs \ {r} : file'[q] = file[q]
            BY <2>2, <3>1, PutFacts, HeldFacts
        <3> HIDE DEF g
        <3> QED
            BY <2>2, <3>2 DEF SameBut, At
    <2>3. CASE At(r, "awaitJob") /\ Put(r, "acceptance", Torn)
        <3>1. [file[r] EXCEPT !["acceptance"] = Torn] \in Files
            BY PutIn, HeldFacts DEF AcceptanceFile
        <3>2. /\ file' \in [Runs -> Files] /\ g["acceptance"] = Torn
              /\ SameBut(file[r], g, {"acceptance"})
              /\ \A q \in Runs \ {r} : file'[q] = file[q]
            BY <2>3, <3>1, PutFacts, HeldFacts
        <3> HIDE DEF g
        <3> QED
            BY <2>3, <3>2 DEF SameBut, At
    <2> QED
        BY <2>1, <2>2, <2>3 DEF Die
<1>4. g \in Files
    BY <1>3
<1> HIDE DEF g
<1>5. RunInv("dead", g, seen[r])
    BY <1>1, <1>3, <1>4, EndKeeps, HeldFacts DEF Fine, Ended
<1>6. SeenInv(run'[r], seen[r])
    BY <1>2, SeenEnded, HeldFacts DEF Ended
<1> QED
    BY <1>1, <1>2, <1>3, <1>5, <1>6, PlainKept DEF g

--------------------------------------------------------------------------------
(* Preparation. *)

LEMMA PrepFacts ==
    ASSUME NEW r \in Runs, TypeInv, Fine(r), At(r, "prepare")
    PROVE  /\ file[r].journal.completed \in Seq(Stages)
           /\ Prep(r) \in 0..4 /\ PrepStages[Prep(r) + 1] \in Stages
           /\ Follows(file[r].journal.completed, PrepStages)
           /\ file[r].session = NoSession /\ file[r].exec.completed = <<>>
           /\ seen[r].root = 0
<1>1. /\ file[r].journal.completed \in Seq(Stages)
      /\ Len(file[r].journal.completed) \in Nat
    BY JournalFields, HeldFacts
<1>2. /\ Follows(file[r].journal.completed, PrepStages)
      /\ Len(file[r].journal.completed) < 5
      /\ file[r].session = NoSession /\ file[r].exec.completed = <<>> /\ seen[r].root = 0
    BY StagesFacts DEF At, Fine, RunInv, JournalInv, ExecInv, BeforeRoot, Early
<1>3. Prep(r) = Len(file[r].journal.completed)
    BY DEF Prep
<1>4. Prep(r) \in 0..4
    <2>1. Prep(r) \in Nat /\ Prep(r) < 5
        BY <1>1, <1>2, <1>3, Zenon
    <2> QED
        BY <2>1
<1>5. Prep(r) + 1 \in 1..5
    BY <1>4
<1>6. PrepStages[Prep(r) + 1] \in Stages
    BY <1>5, StagesFacts
<1> QED
    BY <1>1, <1>2, <1>4, <1>6

LEMMA PreparedFacts ==
    ASSUME NEW r \in Runs, TypeInv, Fine(r), At(r, "prepare"), Prepared(r)
    PROVE  /\ file' \in [Runs -> Files] /\ file'[r] \in Files
           /\ \A q \in Runs \ {r} : file'[q] = file[q]
           /\ SameBut(file[r], file'[r], {"journal"})
           /\ Follows(file'[r].journal.completed, PrepStages)
           /\ Len(file'[r].journal.completed) = Prep(r) + 1
           /\ file'[r].journal.completed \in Seq(Stages)
<1> DEFINE c == file[r].journal.completed
           x == PrepStages[Prep(r) + 1]
           d == Append(c, x)
           j == [file[r].journal EXCEPT !.completed = Append(@, PrepStages[Prep(r) + 1])]
<1>1. /\ c \in Seq(Stages) /\ x \in Stages /\ Prep(r) = Len(c)
      /\ Prep(r) \in 0..4 /\ Follows(c, PrepStages)
    BY PrepFacts DEF Prep
<1>2. /\ d \in Seq(Stages) /\ Len(d) = Prep(r) + 1
      /\ \A i \in 1..Prep(r) : d[i] = c[i]
      /\ d[Prep(r) + 1] = x
    <2> HIDE DEF c, x
    <2>1. /\ d \in Seq(Stages) /\ Len(d) = Len(c) + 1 /\ d[Len(c) + 1] = x
          /\ \A i \in 1..Len(c) : d[i] = c[i]
        BY <1>1, AppendStage, Zenon
    <2> QED
        BY <1>1, <2>1, Zenon
<1>3. file[r].journal \in Journals /\ file[r] \in Files
    BY HeldFacts, FileFields
<1> HIDE DEF d
<1>4. j \in Journals /\ j.completed = d
    <2>1. j = [file[r].journal EXCEPT !.completed = d]
        BY <1>3 DEF Journals, d
    <2> HIDE DEF j
    <2> QED
        BY <1>2, <1>3, <2>1 DEF Journals
<1>5. Put(r, "journal", j)
    BY DEF Prepared
<1> HIDE DEF c, j
<1>6. [file[r] EXCEPT !["journal"] = j] \in Files
    BY <1>3, <1>4, PutIn
<1>7. /\ file' \in [Runs -> Files] /\ \A q \in Runs \ {r} : file'[q] = file[q]
      /\ SameBut(file[r], file'[r], {"journal"}) /\ file'[r]["journal"] = j
    BY <1>5, <1>6, PutFacts, HeldFacts
<1>8. Follows(d, PrepStages)
    <2>1. d[Prep(r) + 1] = PrepStages[Prep(r) + 1]
        BY <1>2 DEF x
    <2>2. \A i \in 1..Prep(r) : c[i] = PrepStages[i]
        BY <1>1 DEF Follows
    <2>3. \A i \in 1..Prep(r) + 1 : i \in 1..Prep(r) \/ i = Prep(r) + 1
        BY <1>1
    <2> HIDE DEF x
    <2>4. \A i \in 1..Prep(r) + 1 : d[i] = PrepStages[i]
        BY <1>2, <2>1, <2>2, <2>3
    <2>5. Prep(r) + 1 <= 5
        BY <1>1
    <2> QED
        BY <1>2, <2>4, <2>5, StagesFacts DEF Follows
<1> QED
    BY <1>2, <1>4, <1>7, <1>8

(* A stage of the preparation that is not its last. *)
LEMMA PreparedKeeps ==
    ASSUME NEW r \in Runs, TypeInv, Fine(r), At(r, "prepare"), Prepared(r),
           PrepStages[Prep(r) + 1] # "lock_finalization"
    PROVE  RunInv("prepare", file'[r], seen[r])
<1> DEFINE g == file'[r]
<1>1. /\ Follows(g.journal.completed, PrepStages)
      /\ Len(g.journal.completed) = Prep(r) + 1
      /\ SameBut(file[r], g, {"journal"})
    BY PreparedFacts
<1>2. Prep(r) \in 0..4
    BY PrepFacts
<1>3. Prep(r) + 1 < 5
    BY <1>2, StageIs
<1>4. g.session = file[r].session /\ g.exec = file[r].exec /\ g.b2 = file[r].b2
      /\ g.b3 = file[r].b3
    BY <1>1 DEF SameBut
<1> HIDE DEF g
<1>5. RunInv("prepare", file[r], seen[r])
    BY DEF Fine, At
<1>6. JournalInv("prepare", g)
    BY <1>1, <1>3, <1>4, <1>5, StagesFacts
       DEF RunInv, JournalInv, Early, Deploying, Piping, Stepping, Stepped, Accepting
<1>7. ClaimsInv("prepare", g)
    BY <1>4, <1>5 DEF RunInv, ClaimsInv, PipelineDone, Ended
<1>8. ExecInv("prepare", g, seen[r])
    BY <1>4, <1>5 DEF RunInv, ExecInv
<1> QED
    BY <1>6, <1>7, <1>8 DEF RunInv, g

LEMMA SeenBefore ==
    ASSUME NEW r \in Runs, NEW b \in BeforeRoot, Fine(r), run[r].at \in BeforeRoot,
           run'[r].at = b
    PROVE  SeenInv(run'[r], seen[r])
BY DEF Fine, SeenInv, BeforeAccept, BeforeRoot, Early, Deploying, Compared

LEMMA KeptLocally ==
    ASSUME NEW r \in Runs, TypeInv, Fine(r), NEW stage \in LocalStages,
           PrepareLocally(r, stage)
    PROVE  Kept(r)
<1>1. /\ At(r, "prepare") /\ Prepared(r) /\ UNCHANGED <<run, seen>>
      /\ PrepStages[Prep(r) + 1] # "lock_finalization"
    BY DEF PrepareLocally, Preparing, LocalStages
<1>2. RunInv("prepare", file'[r], seen[r])
    BY <1>1, PreparedKeeps
<1>3. /\ file' \in [Runs -> Files] /\ \A q \in Runs \ {r} : file'[q] = file[q]
      /\ SameBut(file[r], file'[r], {"journal"})
    BY <1>1, PreparedFacts
<1>4. SeenInv(run'[r], seen[r])
    BY <1>1, SeenBefore DEF At, BeforeRoot, Early
<1>5. /\ file'[r].b2 = file[r].b2 /\ file'[r].b3 = file[r].b3
      /\ file'[r].acceptance = file[r].acceptance /\ file'[r].exec = file[r].exec
    BY <1>3 DEF SameBut
<1> QED
    BY <1>1, <1>2, <1>3, <1>4, <1>5, PlainKept, HeldFacts DEF At

LEMMA KeptNewProfile ==
    ASSUME NEW r \in Runs, TypeInv, Fine(r), NewProfile(r)
    PROVE  Kept(r)
<1>1. /\ At(r, "prepare") /\ Prepared(r) /\ UNCHANGED seen
      /\ PrepStages[Prep(r) + 1] = "profile_creation" /\ cluster' = made["profile"] + 1
      /\ run' = [run EXCEPT ![r].cluster = cluster']
    BY DEF NewProfile, CreateProfile, Preparing
<1>2. RunInv("prepare", file'[r], seen[r])
    BY <1>1, PreparedKeeps
<1>3. /\ file' \in [Runs -> Files] /\ \A q \in Runs \ {r} : file'[q] = file[q]
      /\ SameBut(file[r], file'[r], {"journal"})
    BY <1>1, PreparedFacts
<1>4. cluster' \in Nat
    BY <1>1 DEF TypeInv, WorldInv, Made
<1>5. /\ run' \in [Runs -> Coordinators] /\ run'[r].at = run[r].at
      /\ \A q \in Runs \ {r} : run'[q] = run[q]
    BY <1>1, <1>4, HeldFacts DEF Coordinators
<1>6. SeenInv(run'[r], seen[r])
    BY <1>1, <1>5, SeenBefore DEF At, BeforeRoot, Early
<1>7. /\ file'[r].b2 = file[r].b2 /\ file'[r].b3 = file[r].b3
      /\ file'[r].acceptance = file[r].acceptance /\ file'[r].exec = file[r].exec
    BY <1>3 DEF SameBut
<1> QED
    BY <1>1, <1>2, <1>3, <1>5, <1>6, <1>7, PlainKept DEF At

LEMMA KeptFinalizeLock ==
    ASSUME NEW r \in Runs, TypeInv, Fine(r), FinalizeLock(r)
    PROVE  Kept(r)
<1> DEFINE g == file'[r]
<1>1. UNCHANGED <<run, seen>> /\ Put(r, "prepared", run[r].cluster)
    BY DEF FinalizeLock, FinalizePipelineLock
<1>2. [file[r] EXCEPT !["prepared"] = run[r].cluster] \in Files
    BY HeldFacts, RunFields, PutIn
<1>3. /\ file' \in [Runs -> Files] /\ \A q \in Runs \ {r} : file'[q] = file[q]
      /\ SameBut(file[r], g, {"prepared"})
    BY <1>1, <1>2, PutFacts, HeldFacts
<1>4. /\ g.b2 = file[r].b2 /\ g.b3 = file[r].b3 /\ g.journal = file[r].journal
      /\ g.session = file[r].session /\ g.acceptance = file[r].acceptance
      /\ g.exec = file[r].exec /\ g \in Files
    BY <1>3 DEF SameBut
<1> HIDE DEF g
<1>5. RunInv(run[r].at, g, seen[r])
    BY <1>4, KeepsAt, HeldFacts DEF Fine
<1> QED
    BY <1>1, <1>3, <1>4, <1>5, PlainKept, HeldFacts DEF Fine, g

LEMMA KeptJournalLock ==
    ASSUME NEW r \in Runs, TypeInv, Fine(r), JournalLock(r)
    PROVE  Kept(r)
<1> DEFINE g == file'[r]
<1>1. /\ At(r, "prepare") /\ Prepared(r) /\ UNCHANGED seen /\ Go(r, "render")
      /\ PrepStages[Prep(r) + 1] = "lock_finalization"
    BY DEF JournalLock, Preparing
<1>2. /\ file' \in [Runs -> Files] /\ \A q \in Runs \ {r} : file'[q] = file[q]
      /\ SameBut(file[r], g, {"journal"}) /\ Follows(g.journal.completed, PrepStages)
      /\ Len(g.journal.completed) = Prep(r) + 1
      /\ g.journal.completed \in Seq(Stages)
    BY <1>1, PreparedFacts
<1>3. /\ run' \in [Runs -> Coordinators] /\ run'[r].at = "render"
      /\ \A q \in Runs \ {r} : run'[q] = run[q]
    BY <1>1, GoFacts, HeldFacts DEF Places
<1>4. Prep(r) + 1 = 5
    <2>1. Prep(r) + 1 \in {1, 2, 3, 4, 5}
        BY <1>1, PrepFacts
    <2> QED
        BY <1>1, <2>1, StageIs
<1>5. g.journal.completed = PrepStages
    <2> DEFINE c == g.journal.completed
    <2>1. /\ c \in Seq(Stages) /\ PrepStages \in Seq(Stages) /\ Len(c) = Len(PrepStages)
          /\ \A i \in 1..Len(c) : c[i] = PrepStages[i]
        BY <1>2, <1>4, StagesFacts DEF Follows
    <2> HIDE DEF c
    <2> QED
        BY <2>1, SameSeq, Zenon DEF c
<1>6. /\ g.b2 = file[r].b2 /\ g.b3 = file[r].b3 /\ g.session = file[r].session
      /\ g.acceptance = file[r].acceptance /\ g.exec = file[r].exec
    BY <1>2 DEF SameBut
<1> HIDE DEF g
<1>7. RunInv("prepare", file[r], seen[r])
    BY <1>1 DEF Fine, At
<1>8. JournalInv("render", g)
    BY <1>5, <1>6, <1>7 DEF RunInv, JournalInv, Early, Deploying, Piping, Stepping, Stepped,
                            Accepting
<1>9. ClaimsInv("render", g)
    BY <1>6, <1>7 DEF RunInv, ClaimsInv, PipelineDone, Accepting, Ended
<1>10. ExecInv("render", g, seen[r])
    BY <1>6, <1>7 DEF RunInv, ExecInv, BeforeRoot, Early, Deploying, Stepping, Stepped
<1>11. SeenInv(run'[r], seen[r])
    BY <1>1, <1>3, SeenBefore DEF At, BeforeRoot, Early
<1>12. RunInv("render", g, seen[r])
    BY <1>8, <1>9, <1>10 DEF RunInv
<1> QED
    BY <1>1, <1>2, <1>3, <1>6, <1>11, <1>12, PlainKept DEF g

LEMMA KeptBegin ==
    ASSUME NEW r \in Runs, TypeInv, Fine(r), Begin(r)
    PROVE  Kept(r)
<1>0. At(r, "idle") /\ UNCHANGED seen
    BY DEF Begin
<1>1. CASE Go(r, "prepare") /\ Put(r, "journal", [NoJournal EXCEPT !.status = "preparing"])
    <2> DEFINE g == file'[r]
               j == [NoJournal EXCEPT !.status = "preparing"]
    <2>1. j \in Journals /\ j.completed = <<>>
        <3>1. <<>> \in Seq(Stages) /\ j = [status |-> "preparing", completed |-> <<>>]
            BY DEF NoJournal
        <3> QED
            BY <3>1 DEF Journals
    <2> HIDE DEF j
    <2>2. [file[r] EXCEPT !["journal"] = j] \in Files
        BY <2>1, HeldFacts, PutIn
    <2>3. /\ file' \in [Runs -> Files] /\ \A q \in Runs \ {r} : file'[q] = file[q]
          /\ SameBut(file[r], g, {"journal"}) /\ g["journal"] = j
        BY <1>1, <2>2, PutFacts, HeldFacts DEF j
    <2>4. /\ run' \in [Runs -> Coordinators] /\ run'[r].at = "prepare"
          /\ \A q \in Runs \ {r} : run'[q] = run[q]
        BY <1>1, GoFacts, HeldFacts DEF Places
    <2>5. /\ g.b2 = file[r].b2 /\ g.b3 = file[r].b3 /\ g.session = file[r].session
          /\ g.acceptance = file[r].acceptance /\ g.exec = file[r].exec
        BY <2>3 DEF SameBut
    <2> HIDE DEF g
    <2>6. RunInv("idle", file[r], seen[r])
        BY <1>0 DEF Fine, At
    <2>7. JournalInv("prepare", g)
        <3>1. Follows(<<>>, PrepStages) /\ Len(<<>>) < Len(PrepStages)
            BY EmptyFollows, StagesFacts
        <3> QED
            BY <2>1, <2>3, <2>5, <2>6, <3>1 DEF RunInv, JournalInv, Early, Deploying, Piping,
                                                Stepping, Stepped, Accepting
    <2>8. ClaimsInv("prepare", g)
        BY <2>5, <2>6 DEF RunInv, ClaimsInv, PipelineDone, Accepting, Ended
    <2>9. ExecInv("prepare", g, seen[r])
        BY <2>5, <2>6 DEF RunInv, ExecInv, BeforeRoot, Early, Deploying, Stepping, Stepped
    <2>10. SeenInv(run'[r], seen[r])
        BY <1>0, <2>4, SeenBefore DEF At, BeforeRoot, Early
    <2>11. RunInv("prepare", g, seen[r])
        BY <2>7, <2>8, <2>9 DEF RunInv
    <2> QED
        BY <1>0, <2>3, <2>4, <2>5, <2>10, <2>11, PlainKept DEF g
<1>2. CASE \E q \in Runs : /\ CompleteLock(q) /\ UNCHANGED file
                           /\ run' = [run EXCEPT ![r].at = "render",
                                                 ![r].cluster = file[q].prepared]
    <2>1. PICK q \in Runs : /\ UNCHANGED file
                            /\ run' = [run EXCEPT ![r].at = "render",
                                                  ![r].cluster = file[q].prepared]
        BY <1>2
    <2>2. file[q].prepared \in Nat
        BY HeldFacts, FileFields
    <2> DEFINE u == [run[r] EXCEPT !.at = "render", !.cluster = file[q].prepared]
    <2>3. u \in Coordinators /\ u.at = "render"
        BY <2>2, HeldFacts DEF Coordinators, Places
    <2>4. run' = [run EXCEPT ![r] = u]
        BY <2>1, HeldFacts DEF Coordinators
    <2> HIDE DEF u
    <2>5. /\ run' \in [Runs -> Coordinators] /\ run'[r].at = "render"
          /\ \A p \in Runs \ {r} : run'[p] = run[p]
        BY <2>3, <2>4, HeldFacts
    <2>6. RunInv("idle", file[r], seen[r])
        BY <1>0 DEF Fine, At
    <2>7. JournalInv("render", file[r])
        BY <2>6 DEF RunInv, JournalInv, Early, Deploying, Piping, Stepping, Stepped,
                    Accepting, NoJournal
    <2>8. ClaimsInv("render", file[r])
        BY <2>6 DEF RunInv, ClaimsInv, Accepting, Ended
    <2>9. ExecInv("render", file[r], seen[r])
        BY <2>6 DEF RunInv, ExecInv, BeforeRoot, Early, Deploying, Stepping, Stepped
    <2>10. SeenInv(run'[r], seen[r])
        BY <1>0, <2>5, SeenBefore DEF At, BeforeRoot, Early
    <2>11. RunInv("render", file[r], seen[r])
        BY <2>7, <2>8, <2>9 DEF RunInv
    <2> QED
        BY <1>0, <2>1, <2>5, <2>10, <2>11, PlainKept, HeldFacts
<1> QED
    BY <1>1, <1>2 DEF Begin

--------------------------------------------------------------------------------
(* The sessions written. *)

LEMMA FirstFacts ==
    ASSUME NEW r \in Runs, file[r].journal.completed \in {<<>>, PrepStages}
    PROVE  /\ FirstSession(r) \in Sessions /\ FirstSession(r).status = "running"
           /\ FirstSession(r).completed = Append(file[r].journal.completed,
                                                 "private_render")
<1> DEFINE d == Append(file[r].journal.completed, "private_render")
<1>1. d \in Seq(Stages)
    BY FirstClaim, Zenon
<1>2. FirstSession(r) = [status |-> "running", stage |-> "namespace_preflight",
                         completed |-> d]
    BY DEF FirstSession
<1> HIDE DEF d
<1>3. FirstSession(r) \in Sessions /\ FirstSession(r).status = "running"
      /\ FirstSession(r).completed = d
    BY <1>1, <1>2 DEF Sessions, Stages
<1> QED
    BY <1>3 DEF d

LEMMA NotedFacts ==
    ASSUME NEW r \in Runs, TypeInv, NEW stage \in Stages,
           NEW next \in Stages \cup {"none", "pipeline_render", "complete"}
    PROVE  /\ Noted(r, next, stage) \in Sessions
           /\ Noted(r, next, stage).completed = Append(file[r].session.completed, stage)
           /\ Noted(r, next, stage).status = file[r].session.status
<1> DEFINE c == file[r].session.completed
           d == Append(c, stage)
           s == Noted(r, next, stage)
<1>1. c \in Seq(Stages) /\ file[r].session \in Sessions
    BY JournalFields, FileFields, HeldFacts
<1>2. d \in Seq(Stages)
    <2> HIDE DEF c
    <2> QED
        BY <1>1, AppendStage, Zenon
<1>3. s = [file[r].session EXCEPT !.stage = next, !.completed = d]
    BY <1>1 DEF Sessions, Noted
<1> HIDE DEF d
<1>4. s \in Sessions /\ s.completed = d /\ s.status = file[r].session.status
    <2> HIDE DEF s
    <2> QED
        BY <1>1, <1>2, <1>3 DEF Sessions
<1> QED
    BY <1>4 DEF d

(* A session with another status. *)
LEMMA StatusFacts ==
    ASSUME NEW x \in Sessions, NEW status \in {"runtime_pass", "failed"}
    PROVE  /\ [x EXCEPT !.status = status] \in Sessions
           /\ [x EXCEPT !.status = status].completed = x.completed
           /\ [x EXCEPT !.status = status].status = status
BY DEF Sessions

LEMMA FailedFacts ==
    ASSUME NEW x \in Sessions
    PROVE  Failed(x) \in Sessions /\ Failed(x).completed = x.completed
           /\ Failed(x).status = "failed"
BY StatusFacts DEF Failed

LEMMA PassedFacts ==
    ASSUME NEW r \in Runs, TypeInv
    PROVE  /\ PassedSession(r) \in Sessions /\ PassedSession(r).status = "runtime_pass"
           /\ PassedSession(r).completed = Append(file[r].session.completed, "acceptance")
<1>1. "acceptance" \in Stages
    BY DEF Stages
<1> DEFINE s == Noted(r, "complete", "acceptance")
<1>2. s \in Sessions /\ s.completed = Append(file[r].session.completed, "acceptance")
    BY <1>1, NotedFacts
<1>3. PassedSession(r) = [s EXCEPT !.status = "runtime_pass"]
    BY DEF PassedSession
<1> HIDE DEF s
<1> QED
    BY <1>2, <1>3, StatusFacts

--------------------------------------------------------------------------------
(* Deployment. *)

LEMMA KeptRender ==
    ASSUME NEW r \in Runs, TypeInv, Fine(r), Render(r)
    PROVE  Kept(r)
<1> DEFINE p == file[r].journal.completed
           d == Append(p, "private_render")
           s == FirstSession(r)
           g == [file[r] EXCEPT !.lock = run[r].cluster, !.session = s]
<1>1. At(r, "render") /\ Go(r, "preflight") /\ UNCHANGED seen
    BY DEF Render
<1>2. RunInv("render", file[r], seen[r])
    BY <1>1 DEF Fine, At
<1>3. p \in {<<>>, PrepStages}
    BY <1>2 DEF RunInv, JournalInv
<1>4. /\ d \in Seq(Stages) /\ Ordered(d) /\ Expects(d, "namespace_preflight")
      /\ Range(d) \cap {"serving", "pipeline", "acceptance"} = {}
    <2> HIDE DEF p
    <2> QED
        BY <1>3, FirstClaim, Zenon
<1>5. file' = [file EXCEPT ![r] = g]
    BY HeldFacts DEF Render, Files
<1>6. s \in Sessions /\ s.completed = d /\ s.status = "running"
    BY <1>3, FirstFacts
<1> HIDE DEF d
<1> HIDE DEF s
<1>7. /\ g \in Files /\ g.session = s /\ g.b2 = file[r].b2 /\ g.b3 = file[r].b3
      /\ g.journal = file[r].journal /\ g.exec = file[r].exec
      /\ g.acceptance = file[r].acceptance
    BY <1>6, HeldFacts, RunFields DEF Files
<1> HIDE DEF g
<1>8. /\ file' \in [Runs -> Files] /\ file'[r] = g
      /\ \A q \in Runs \ {r} : file'[q] = file[q]
    BY <1>5, <1>7, HeldFacts
<1>9. /\ run' \in [Runs -> Coordinators] /\ run'[r].at = "preflight"
      /\ \A q \in Runs \ {r} : run'[q] = run[q]
    BY <1>1, GoFacts, HeldFacts DEF Places
<1>10. JournalInv("preflight", g)
    BY <1>4, <1>6, <1>7 DEF JournalInv, Early, Deploying, Piping, Stepping, Stepped, Accepting
<1>11. ClaimsInv("preflight", g)
    BY <1>4, <1>6, <1>7 DEF ClaimsInv
<1>12. ExecInv("preflight", g, seen[r])
    BY <1>2, <1>7 DEF RunInv, ExecInv, BeforeRoot, Early, Deploying, Stepping, Stepped
<1>13. RunInv("preflight", g, seen[r])
    BY <1>10, <1>11, <1>12 DEF RunInv
<1>14. SeenInv(run'[r], seen[r])
    BY <1>1, <1>9, SeenBefore DEF At, BeforeRoot, Early
<1> QED
    BY <1>1, <1>7, <1>8, <1>9, <1>13, <1>14, PlainKept

LEMMA JournalFacts ==
    ASSUME NEW r \in Runs, TypeInv, NEW stage \in Stages,
           NEW next \in Stages \cup {"none", "pipeline_render", "complete"},
           Journal(r, next, stage)
    PROVE  /\ file' \in [Runs -> Files] /\ file'[r] \in Files
           /\ \A q \in Runs \ {r} : file'[q] = file[q]
           /\ SameBut(file[r], file'[r], {"session"})
           /\ file'[r].session.completed = Append(file[r].session.completed, stage)
           /\ file'[r].session.status = file[r].session.status
<1> DEFINE s == Noted(r, next, stage)
<1>4. /\ s \in Sessions /\ s.status = file[r].session.status
      /\ s.completed = Append(file[r].session.completed, stage)
    BY NotedFacts
<1>5. Put(r, "session", s)
    BY DEF Journal
<1> HIDE DEF s
<1>6. [file[r] EXCEPT !["session"] = s] \in Files
    BY <1>4, PutIn, HeldFacts
<1>7. /\ file' \in [Runs -> Files] /\ \A q \in Runs \ {r} : file'[q] = file[q]
      /\ SameBut(file[r], file'[r], {"session"}) /\ file'[r]["session"] = s
    BY <1>5, <1>6, PutFacts, HeldFacts
<1> QED
    BY <1>4, <1>7

LEMMA KeptClaim ==
    ASSUME NEW r \in Runs, TypeInv, Fine(r),
           NEW x \in {"namespace_preflight", "serving", "pipeline"},
           NEW next \in Stages \cup {"pipeline_render"},
           At(r, ClaimedAt(x)), Go(r, Next3(x)), Journal(r, next, x), UNCHANGED seen
    PROVE  Kept(r)
<1> DEFINE g == file'[r]
<1>0. x \in Stages /\ Next3(x) \in Places
    BY DEF Stages, Next3, Places
<1>1. /\ file' \in [Runs -> Files] /\ g \in Files
      /\ \A q \in Runs \ {r} : file'[q] = file[q]
      /\ SameBut(file[r], g, {"session"})
      /\ g.session.completed = Append(file[r].session.completed, x)
      /\ g.session.status = file[r].session.status
    BY <1>0, JournalFacts
<1>2. /\ run' \in [Runs -> Coordinators] /\ run'[r].at = Next3(x)
      /\ \A q \in Runs \ {r} : run'[q] = run[q]
    BY <1>0, GoFacts, HeldFacts
<1>3. /\ g.b2 = file[r].b2 /\ g.b3 = file[r].b3 /\ g.journal = file[r].journal
      /\ g.exec = file[r].exec /\ g.acceptance = file[r].acceptance
    BY <1>1 DEF SameBut
<1> HIDE DEF g
<1>4. RunInv(ClaimedAt(x), file[r], seen[r])
    BY DEF Fine, At
<1>5. RunInv(Next3(x), g, seen[r])
    BY <1>1, <1>3, <1>4, ClaimKeeps, HeldFacts
<1>6. SeenInv(run'[r], seen[r])
    BY <1>2 DEF Fine, At, SeenInv, ClaimedAt, Next3, BeforeAccept, BeforeRoot, Early,
                Deploying, Stepping, Stepped, Compared
<1> QED
    BY <1>1, <1>2, <1>3, <1>5, <1>6, PlainKept DEF g

LEMMA KeptPreflight ==
    ASSUME NEW r \in Runs, TypeInv, Fine(r), Preflight(r)
    PROVE  Kept(r)
BY KeptClaim DEF Preflight, ClaimedAt, Next3, Stages

LEMMA KeptJournalServing ==
    ASSUME NEW r \in Runs, TypeInv, Fine(r), JournalServing(r)
    PROVE  Kept(r)
BY KeptClaim DEF JournalServing, ClaimedAt, Next3, Stages

LEMMA KeptJournalPipeline ==
    ASSUME NEW r \in Runs, TypeInv, Fine(r), JournalPipeline(r)
    PROVE  Kept(r)
BY KeptClaim DEF JournalPipeline, ClaimedAt, Next3, Stages

LEMMA KeptCollectServing ==
    ASSUME NEW r \in Runs, TypeInv, Fine(r), CollectServing(r)
    PROVE  Kept(r)
<1> DEFINE g == file'[r]
<1>1. /\ At(r, "collectB2") /\ Go(r, "journalB2") /\ Put(r, "b2", ServingReceipt)
      /\ UNCHANGED seen
    BY DEF CollectServing
<1>2. [file[r] EXCEPT !["b2"] = ServingReceipt] \in Files
    BY PutIn, HeldFacts, ReceiptFacts DEF ServingFile
<1>3. /\ file' \in [Runs -> Files] /\ \A q \in Runs \ {r} : file'[q] = file[q]
      /\ SameBut(file[r], g, {"b2"}) /\ g["b2"] = ServingReceipt
    BY <1>1, <1>2, PutFacts, HeldFacts
<1>4. /\ run' \in [Runs -> Coordinators] /\ run'[r].at = "journalB2"
      /\ \A q \in Runs \ {r} : run'[q] = run[q]
    BY <1>1, GoFacts, HeldFacts DEF Places
<1>5. /\ g.b2 = ServingReceipt /\ g.b3 = file[r].b3 /\ g.session = file[r].session
      /\ g.acceptance = file[r].acceptance /\ g.exec = file[r].exec /\ g.b2 # None
    BY <1>3, ReceiptFacts DEF SameBut
<1> HIDE DEF g
<1>6. RunInv("collectB2", file[r], seen[r])
    BY <1>1 DEF Fine, At
<1>7. JournalInv("journalB2", g)
    BY <1>5, <1>6 DEF RunInv, JournalInv, Early, Deploying, Piping, Stepping, Stepped,
                      Accepting
<1>8. ClaimsInv("journalB2", g)
    BY <1>5, <1>6 DEF RunInv, ClaimsInv, PipelineDone, Accepting, Ended
<1>9. ExecInv("journalB2", g, seen[r])
    BY <1>5, <1>6 DEF RunInv, ExecInv, BeforeRoot, Early, Deploying, Stepping, Stepped
<1>10. SeenInv(run'[r], seen[r])
    BY <1>1, <1>4, SeenBefore DEF At, BeforeRoot, Early, Deploying
<1>11. RunInv("journalB2", g, seen[r])
    BY <1>7, <1>8, <1>9 DEF RunInv
<1> QED
    BY <1>1, <1>3, <1>4, <1>5, <1>10, <1>11, PlainKept DEF g

LEMMA KeptRenderPipeline ==
    ASSUME NEW r \in Runs, TypeInv, Fine(r), RenderPipeline(r)
    PROVE  Kept(r)
<1> DEFINE g == file'[r]
           s == [file[r].session EXCEPT !.stage = "pipeline"]
<1>1. /\ At(r, "renderB3") /\ Go(r, "matchB2") /\ Put(r, "session", s) /\ UNCHANGED seen
    BY DEF RenderPipeline
<1>2. s \in Sessions /\ s.completed = file[r].session.completed
      /\ s.status = file[r].session.status
    BY FileFields, HeldFacts, SMTT(60) DEF Sessions, Stages
<1> HIDE DEF s
<1>3. [file[r] EXCEPT !["session"] = s] \in Files
    BY <1>2, PutIn, HeldFacts
<1>4. /\ file' \in [Runs -> Files] /\ \A q \in Runs \ {r} : file'[q] = file[q]
      /\ SameBut(file[r], g, {"session"}) /\ g["session"] = s
    BY <1>1, <1>3, PutFacts, HeldFacts
<1>5. /\ run' \in [Runs -> Coordinators] /\ run'[r].at = "matchB2"
      /\ \A q \in Runs \ {r} : run'[q] = run[q]
    BY <1>1, GoFacts, HeldFacts DEF Places
<1>6. /\ g.b2 = file[r].b2 /\ g.b3 = file[r].b3 /\ g.journal = file[r].journal
      /\ g.acceptance = file[r].acceptance /\ g.exec = file[r].exec
      /\ g.session = s
    BY <1>4 DEF SameBut
<1> HIDE DEF g
<1>7. RunInv("renderB3", file[r], seen[r])
    BY <1>1 DEF Fine, At
<1>8. JournalInv("matchB2", g)
    BY <1>2, <1>6, <1>7 DEF RunInv, JournalInv, Early, Deploying, Piping, Stepping, Stepped,
                            Accepting
<1>9. ClaimsInv("matchB2", g)
    BY <1>2, <1>6, <1>7 DEF RunInv, ClaimsInv, PipelineDone, Accepting, Ended
<1>10. ExecInv("matchB2", g, seen[r])
    BY <1>6, <1>7 DEF RunInv, ExecInv, BeforeRoot, Early, Deploying, Stepping, Stepped
<1>11. RunInv("matchB2", g, seen[r])
    BY <1>8, <1>9, <1>10 DEF RunInv
<1>12. SeenInv(run'[r], seen[r])
    BY <1>1, <1>5, SeenBefore DEF At, BeforeRoot, Early
<1> QED
    BY <1>1, <1>4, <1>5, <1>6, <1>11, <1>12, PlainKept DEF g

--------------------------------------------------------------------------------
(* The pipeline. *)

LEMMA AllRan ==
    ASSUME NEW c \in Seq(Jobs \cup {"platform"}), InOrder(c), Len(c) = Len(Steps) + 1
    PROVE  Range(c) = Jobs \cup {"platform"}
<1>1. DOMAIN c = 1..Len(Steps) + 1 /\ Len(Steps) \in Nat /\ DOMAIN Steps = 1..Len(Steps)
    BY StepsFacts
<1>2. \A i \in 1..Len(Steps) + 1 : c[i] = IF i = 1 THEN "platform" ELSE Steps[i - 1]
    BY DEF InOrder
<1>3. c[1] = "platform" /\ 1 \in DOMAIN c
    BY <1>1, <1>2
<1>4. \A i \in 1..Len(Steps) : i + 1 \in DOMAIN c /\ c[i + 1] = Steps[i]
    BY <1>1, <1>2
<1>5. \A i \in DOMAIN c : c[i] \in Jobs \cup {"platform"}
    BY <1>1
<1>6. \A n \in Jobs : \E i \in 1..Len(Steps) : n = Steps[i]
    BY <1>1 DEF Jobs, Range
<1>7. \A n \in Jobs : \E i \in DOMAIN c : c[i] = n
    BY <1>4, <1>6
<1> QED
    BY <1>3, <1>5, <1>7 DEF Range

LEMMA KeptBootstrap ==
    ASSUME NEW r \in Runs, TypeInv, Fine(r), Bootstrap(r), ns > 0
    PROVE  Kept(r)
<1> DEFINE g == file'[r]
           e == [status |-> "running", completed |-> <<"platform">>]
           t == [seen[r] EXCEPT !.root = ns]
<1>0. /\ At(r, "awaitPlatform") /\ "platform" \notin done /\ done' = done \cup {"platform"}
      /\ UNCHANGED ns
    BY DEF Bootstrap, CanBootstrap
<1>1. CASE Stop(r) /\ UNCHANGED seen
    BY <1>0, <1>1, KeptStops, PlacesFacts DEF At, Stops
<1>2. CASE ~(Stop(r) /\ UNCHANGED seen)
    <2>1. Go(r, "apply") /\ Put(r, "exec", e) /\ seen' = [seen EXCEPT ![r].root = ns]
        BY <1>2 DEF Bootstrap
    <2>2. /\ e \in Execs /\ Len(e.completed) = 1 /\ e.completed[1] = "platform"
          /\ Range(e.completed) = {"platform"}
        BY DEF Execs, Range
    <2> HIDE DEF e
    <2>3. [file[r] EXCEPT !["exec"] = e] \in Files
        BY <2>2, PutIn, HeldFacts
    <2>4. /\ file' \in [Runs -> Files] /\ \A q \in Runs \ {r} : file'[q] = file[q]
          /\ SameBut(file[r], g, {"exec"}) /\ g["exec"] = e
        BY <2>1, <2>3, PutFacts, HeldFacts
    <2>5. /\ run' \in [Runs -> Coordinators] /\ run'[r].at = "apply"
          /\ run'[r].b2 = run[r].b2 /\ run'[r].b3 = run[r].b3
          /\ \A q \in Runs \ {r} : run'[q] = run[q]
        BY <2>1, GoFacts, HeldFacts DEF Places
    <2>6. /\ t \in Histories /\ t.root = ns /\ t.b2 = seen[r].b2 /\ t.b3 = seen[r].b3
          /\ t.listed = seen[r].listed
        BY HeldFacts, ReceiptFacts DEF Histories
    <2>7. seen' = [seen EXCEPT ![r] = t]
        BY <2>1
    <2> HIDE DEF t
    <2>8. /\ seen' \in [Runs -> Histories] /\ seen'[r] = t
          /\ \A q \in Runs \ {r} : seen'[q] = seen[q]
        BY <2>6, <2>7, HeldFacts
    <2>9. /\ g.b2 = file[r].b2 /\ g.b3 = file[r].b3 /\ g.journal = file[r].journal
          /\ g.session = file[r].session /\ g.acceptance = file[r].acceptance
          /\ g.exec = e
        BY <2>4 DEF SameBut
    <2> HIDE DEF g
    <2>10. RunInv("awaitPlatform", file[r], seen[r])
        BY <1>0 DEF Fine, At
    <2>11. JournalInv("apply", g)
        BY <2>9, <2>10 DEF RunInv, JournalInv, Early, Deploying, Piping, Stepping, Stepped,
                           Accepting
    <2>12. ClaimsInv("apply", g)
        BY <2>9, <2>10 DEF RunInv, ClaimsInv, PipelineDone, Accepting, Ended
    <2>13. ExecInv("apply", g, t)
        <3>1. InOrder(e.completed)
            BY <2>2, StepsFacts DEF InOrder
        <3>2. Len(e.completed) \in 1..Len(Steps)
            BY <2>2, StepsFacts
        <3>3. t.root > 0 /\ g.exec = e
            BY <2>6, <2>9
        <3> QED
            BY <3>1, <3>2, <3>3
               DEF ExecInv, BeforeRoot, Early, Deploying, Stepping, Stepped
    <2>14. RunInv("apply", g, t)
        BY <2>11, <2>12, <2>13 DEF RunInv
    <2>15. SeenInv(run'[r], t)
        BY <1>0, <2>5, <2>6 DEF Fine, At, SeenInv, BeforeAccept, BeforeRoot, Stepping, Compared
    <2>16. AgeInv(g)
        BY <2>9 DEF Fine, AgeInv
    <2>17. RootKept(r)
        BY <1>0, <2>2, <2>6, <2>8, <2>9 DEF RootKept, g
    <2>18. AcceptedKept(r)
        BY <2>6, <2>8, <2>9 DEF AcceptedKept, g
    <2>19. Alone(r)
        BY <2>4, <2>5, <2>8 DEF Alone
    <2> QED
        BY <2>4, <2>5, <2>8, <2>14, <2>15, <2>16, <2>17, <2>18, <2>19 DEF Kept, g
<1> QED
    BY <1>1, <1>2

LEMMA AppendStep ==
    ASSUME NEW c \in Seq(Jobs \cup {"platform"}), InOrder(c), Len(c) \in 1..Len(Steps)
    PROVE  /\ Append(c, Steps[Len(c)]) \in Seq(Jobs \cup {"platform"})
           /\ Len(Append(c, Steps[Len(c)])) = Len(c) + 1
           /\ Range(Append(c, Steps[Len(c)])) = Range(c) \cup {Steps[Len(c)]}
           /\ InOrder(Append(c, Steps[Len(c)]))
<1> DEFINE x == Steps[Len(c)]
           d == Append(c, x)
<1>1. x \in Jobs \cup {"platform"} /\ Len(Steps) \in Nat
    BY StepsFacts
<1> HIDE DEF x
<1>2. /\ d \in Seq(Jobs \cup {"platform"}) /\ Len(d) = Len(c) + 1 /\ Len(c) \in Nat
      /\ \A i \in 1..Len(c) : d[i] = c[i]
      /\ d[Len(c) + 1] = x /\ Range(d) = Range(c) \cup {x}
    BY <1>1, AppendFacts
<1> HIDE DEF d
<1>3. \A i \in 1..Len(c) + 1 : i \in 1..Len(c) \/ i = Len(c) + 1
    BY <1>2
<1>4. \A i \in 1..Len(c) + 1 : d[i] = IF i = 1 THEN "platform" ELSE Steps[i - 1]
    BY <1>2, <1>3 DEF InOrder, x
<1>5. InOrder(d)
    BY <1>1, <1>2, <1>4 DEF InOrder
<1> QED
    BY <1>2, <1>5 DEF d, x

LEMMA KeptStepCompleted ==
    ASSUME NEW r \in Runs, TypeInv, Fine(r), StepCompleted(r)
    PROVE  Kept(r)
<1> DEFINE g == file'[r]
           c == file[r].exec.completed
           d == Append(c, NextStep(r))
           e == [file[r].exec EXCEPT !.completed = d]
           b == IF Len(d) > Len(Steps) THEN "collectB3" ELSE "apply"
<1>1. /\ At(r, "await") /\ NextStep(r) \in done /\ UNCHANGED seen
      /\ Put(r, "exec", e) /\ Go(r, b)
    BY DEF StepCompleted
<1>2. RunInv("await", file[r], seen[r])
    BY <1>1 DEF Fine, At
<1>3. /\ c \in Seq(Jobs \cup {"platform"}) /\ InOrder(c) /\ Len(c) \in 1..Len(Steps)
      /\ seen[r].root > 0
    BY <1>2, JournalFields, HeldFacts DEF RunInv, ExecInv, Stepping
<1>4. /\ d \in Seq(Jobs \cup {"platform"}) /\ Len(d) = Len(c) + 1 /\ InOrder(d)
      /\ Range(d) = Range(c) \cup {NextStep(r)}
    BY <1>3, AppendStep, Zenon DEF NextStep
<1> HIDE DEF d
<1>5. e \in Execs /\ e.completed = d
    BY <1>4, FileFields, HeldFacts DEF Execs
<1> HIDE DEF e
<1>6. [file[r] EXCEPT !["exec"] = e] \in Files
    BY <1>5, PutIn, HeldFacts
<1>7. /\ file' \in [Runs -> Files] /\ \A q \in Runs \ {r} : file'[q] = file[q]
      /\ SameBut(file[r], g, {"exec"}) /\ g["exec"] = e
    BY <1>1, <1>6, PutFacts, HeldFacts
<1>8. /\ b \in {"apply", "collectB3"} /\ b \in Places
      /\ b = "apply" => Len(d) \in 1..Len(Steps)
      /\ b = "collectB3" => Len(d) = Len(Steps) + 1
    <2> HIDE DEF c
    <2>1. Len(Steps) \in Nat /\ Len(c) \in 1..Len(Steps) /\ Len(d) = Len(c) + 1
        BY <1>3, <1>4, StepsFacts, Zenon
    <2> QED
        BY <2>1 DEF Places
<1> HIDE DEF b
<1>9. /\ run' \in [Runs -> Coordinators] /\ run'[r].at = b
      /\ run'[r].b2 = run[r].b2 /\ run'[r].b3 = run[r].b3
      /\ \A q \in Runs \ {r} : run'[q] = run[q]
    BY <1>1, <1>8, GoFacts, HeldFacts
<1>10. /\ g.b2 = file[r].b2 /\ g.b3 = file[r].b3 /\ g.journal = file[r].journal
       /\ g.session = file[r].session /\ g.acceptance = file[r].acceptance
       /\ g.exec = e
    BY <1>7 DEF SameBut
<1> HIDE DEF g, c
<1>11. JournalInv(b, g)
    BY <1>2, <1>8, <1>10 DEF RunInv, JournalInv, Early, Deploying, Piping, Stepping, Stepped,
                             Accepting
<1>12. ClaimsInv(b, g)
    BY <1>2, <1>8, <1>10 DEF RunInv, ClaimsInv, Accepting, Ended
<1>13. ExecInv(b, g, seen[r])
    BY <1>3, <1>4, <1>5, <1>8, <1>10 DEF ExecInv, BeforeRoot, Early, Deploying, Stepping, Stepped
<1>14. RunInv(b, g, seen[r])
    BY <1>11, <1>12, <1>13 DEF RunInv
<1>15. SeenInv(run'[r], seen[r])
    BY <1>1, <1>8, <1>9 DEF Fine, At, SeenInv, BeforeAccept, BeforeRoot, Early, Deploying,
                            Stepping, Stepped, Compared
<1>16. AgeInv(g)
    BY <1>10 DEF Fine, AgeInv
<1>17. RootKept(r)
    BY <1>1, <1>4, <1>5, <1>10 DEF RootKept, g, c
<1>18. AcceptedKept(r)
    BY <1>1, <1>10 DEF AcceptedKept, g
<1>19. Alone(r)
    BY <1>1, <1>7, <1>9 DEF Alone
<1> QED
    BY <1>1, <1>7, <1>9, <1>14, <1>15, <1>16, <1>17, <1>18, <1>19, HeldFacts DEF Kept, g

LEMMA KeptCollectPipeline ==
    ASSUME NEW r \in Runs, TypeInv, Fine(r), CollectPipeline(r)
    PROVE  Kept(r)
<1> DEFINE g == file'[r]
<1>1. /\ At(r, "collectB3") /\ Go(r, "closeExec") /\ Put(r, "b3", PipelineReceipt)
      /\ UNCHANGED seen
    BY DEF CollectPipeline
<1>2. [file[r] EXCEPT !["b3"] = PipelineReceipt] \in Files
    BY PutIn, HeldFacts, ReceiptFacts DEF PipelineFile
<1>3. /\ file' \in [Runs -> Files] /\ \A q \in Runs \ {r} : file'[q] = file[q]
      /\ SameBut(file[r], g, {"b3"}) /\ g["b3"] = PipelineReceipt
    BY <1>1, <1>2, PutFacts, HeldFacts
<1>4. /\ run' \in [Runs -> Coordinators] /\ run'[r].at = "closeExec"
      /\ run'[r].b2 = run[r].b2 /\ run'[r].b3 = run[r].b3
      /\ \A q \in Runs \ {r} : run'[q] = run[q]
    BY <1>1, GoFacts, HeldFacts DEF Places
<1>5. /\ g.b3 = PipelineReceipt /\ g.b2 = file[r].b2 /\ g.session = file[r].session
      /\ g.acceptance = file[r].acceptance /\ g.exec = file[r].exec /\ g.b3 # None
    BY <1>3, ReceiptFacts DEF SameBut
<1> HIDE DEF g
<1>6. RunInv("collectB3", file[r], seen[r])
    BY <1>1 DEF Fine, At
<1>7. JournalInv("closeExec", g)
    BY <1>5, <1>6 DEF RunInv, JournalInv, Early, Deploying, Piping, Stepping, Stepped,
                      Accepting
<1>8. ClaimsInv("closeExec", g)
    BY <1>5, <1>6 DEF RunInv, ClaimsInv, PipelineDone, Accepting, Ended
<1>9. ExecInv("closeExec", g, seen[r])
    BY <1>5, <1>6 DEF RunInv, ExecInv, BeforeRoot, Early, Deploying, Stepping, Stepped
<1>10. SeenInv(run'[r], seen[r])
    BY <1>1, <1>4 DEF Fine, At, SeenInv, BeforeAccept, BeforeRoot, Early, Deploying,
                      Stepping, Stepped, Compared
<1>11. RunInv("closeExec", g, seen[r])
    BY <1>7, <1>8, <1>9 DEF RunInv
<1> QED
    BY <1>1, <1>3, <1>4, <1>5, <1>10, <1>11, PlainKept DEF g

LEMMA KeptCloseExec ==
    ASSUME NEW r \in Runs, TypeInv, Fine(r), CloseExec(r)
    PROVE  Kept(r)
<1> DEFINE g == file'[r]
           e == [file[r].exec EXCEPT !.status = "completed"]
<1>1. /\ At(r, "closeExec") /\ Go(r, "journalB3") /\ Put(r, "exec", e) /\ UNCHANGED seen
    BY DEF CloseExec
<1>2. /\ e \in Execs /\ e.status = "completed" /\ e.completed = file[r].exec.completed
    BY FileFields, HeldFacts DEF Execs
<1> HIDE DEF e
<1>3. [file[r] EXCEPT !["exec"] = e] \in Files
    BY <1>2, PutIn, HeldFacts
<1>4. /\ file' \in [Runs -> Files] /\ \A q \in Runs \ {r} : file'[q] = file[q]
      /\ SameBut(file[r], g, {"exec"}) /\ g["exec"] = e
    BY <1>1, <1>3, PutFacts, HeldFacts
<1>5. /\ run' \in [Runs -> Coordinators] /\ run'[r].at = "journalB3"
      /\ run'[r].b2 = run[r].b2 /\ run'[r].b3 = run[r].b3
      /\ \A q \in Runs \ {r} : run'[q] = run[q]
    BY <1>1, GoFacts, HeldFacts DEF Places
<1>6. /\ g.b3 = file[r].b3 /\ g.b2 = file[r].b2 /\ g.session = file[r].session
      /\ g.acceptance = file[r].acceptance /\ g.exec = e
    BY <1>4 DEF SameBut
<1> HIDE DEF g
<1>7. RunInv("closeExec", file[r], seen[r])
    BY <1>1 DEF Fine, At
<1>8. PipelineDone(g)
    <2>1. /\ file[r].exec.completed \in Seq(Jobs \cup {"platform"})
          /\ InOrder(file[r].exec.completed)
          /\ Len(file[r].exec.completed) = Len(Steps) + 1
        BY <1>7, JournalFields, HeldFacts DEF RunInv, ExecInv, Stepped
    <2>2. Range(file[r].exec.completed) = Jobs \cup {"platform"}
        BY <2>1, AllRan
    <2>3. g.b3 # None
        BY <1>6, <1>7 DEF RunInv, ClaimsInv
    <2> QED
        BY <1>2, <1>6, <2>2, <2>3 DEF PipelineDone
<1>9. JournalInv("journalB3", g)
    BY <1>6, <1>7 DEF RunInv, JournalInv, Early, Deploying, Piping, Stepping, Stepped,
                      Accepting
<1>10. ClaimsInv("journalB3", g)
    BY <1>6, <1>7, <1>8 DEF RunInv, ClaimsInv, Accepting, Ended
<1>11. ExecInv("journalB3", g, seen[r])
    BY <1>2, <1>6, <1>7 DEF RunInv, ExecInv, BeforeRoot, Early, Deploying, Stepping, Stepped
<1>12. SeenInv(run'[r], seen[r])
    BY <1>1, <1>5 DEF Fine, At, SeenInv, BeforeAccept, BeforeRoot, Early, Deploying,
                      Stepping, Stepped, Compared
<1>13. RunInv("journalB3", g, seen[r])
    BY <1>9, <1>10, <1>11 DEF RunInv
<1> QED
    BY <1>1, <1>2, <1>4, <1>5, <1>6, <1>12, <1>13, PlainKept DEF g

--------------------------------------------------------------------------------
(* Acceptance. *)

LEMMA AcceptingKeeps ==
    ASSUME NEW a \in Accepting, NEW b \in Accepting, NEW f \in Files, NEW g \in Files,
           NEW s \in Histories, NEW t \in Histories, RunInv(a, f, s), t.root = s.root,
           g.session = f.session, g.exec = f.exec, g.b2 = f.b2, g.b3 = f.b3,
           b = "finish" => g.acceptance # None
    PROVE  RunInv(b, g, t)
<1>1. JournalInv(b, g)
    BY DEF RunInv, JournalInv, Early, Deploying, Piping, Stepping, Stepped, Accepting
<1>2. ClaimsInv(b, g)
    BY DEF RunInv, ClaimsInv, PipelineDone, Accepting, Ended
<1>3. ExecInv(b, g, t)
    BY DEF RunInv, ExecInv, BeforeRoot, Early, Deploying, Stepping, Stepped, Accepting
<1> QED
    BY <1>1, <1>2, <1>3 DEF RunInv

LEMMA KeptAcceptServing ==
    ASSUME NEW r \in Runs, TypeInv, Fine(r), AcceptServing(r)
    PROVE  Kept(r)
<1> DEFINE f == file[r]
           u == [run[r] EXCEPT !.at = "acceptB3", !.b2 = f.b2, !.b3 = f.b3]
           t == [seen[r] EXCEPT !.b2 = ServingReceipt]
<1>1. /\ At(r, "acceptB2") /\ f.b2 = ServingReceipt /\ ns > 0 /\ UNCHANGED file
    BY DEF AcceptServing, ServingMatches, ServingSound, LiveIn
<1>2. run' = [run EXCEPT ![r] = u] /\ seen' = [seen EXCEPT ![r] = t]
    BY HeldFacts DEF AcceptServing, Coordinators
<1>3. f \in Files /\ f.b2 \in ServingFile /\ f.b3 \in PipelineFile
    BY HeldFacts, FileFields
<1> HIDE DEF f
<1>4. u \in Coordinators /\ u.at = "acceptB3" /\ u.b2 = f.b2 /\ u.b3 = f.b3
    BY <1>3, HeldFacts DEF Coordinators, Places
<1>5. t \in Histories /\ t.root = seen[r].root /\ t.b2 = ServingReceipt /\ t.b3 = seen[r].b3
      /\ t.listed = seen[r].listed
    BY HeldFacts, ReceiptFacts DEF Histories
<1> HIDE DEF u, t
<1>6. /\ run' \in [Runs -> Coordinators] /\ run'[r] = u
      /\ seen' \in [Runs -> Histories] /\ seen'[r] = t
      /\ \A q \in Runs \ {r} : run'[q] = run[q] /\ seen'[q] = seen[q]
    BY <1>2, <1>4, <1>5, HeldFacts
<1>7. RunInv("acceptB3", f, t)
    BY <1>1, <1>3, <1>5, AcceptingKeeps, HeldFacts DEF Fine, At, Accepting, f
<1>8. seen[r].b2 = None /\ seen[r].b3 = None /\ AgeInv(f)
    BY <1>1 DEF Fine, At, SeenInv, BeforeAccept, f
<1>9. SeenInv(u, t)
    <2>1. u.b3 \in Receipts(Pipeline) => u.b3.ns <= u.b2.ns
        BY <1>1, <1>4, <1>8, ReceiptFacts DEF AgeInv
    <2>2. u.b2 = t.b2 /\ u.b2 \in Receipts(Serving) /\ u.b2.ns <= made["namespace"]
        BY <1>1, <1>4, <1>5, ReceiptFacts
    <2>3. t.b3 = None
        BY <1>5, <1>8
    <2> QED
        BY <1>4, <2>1, <2>2, <2>3 DEF SeenInv, BeforeAccept, BeforeRoot, Early, Deploying,
                                  Stepping, Stepped, Compared
<1>10. RootKept(r)
    BY <1>1, <1>5, <1>6 DEF RootKept
<1>11. AcceptedKept(r)
    BY <1>1, <1>5, <1>6, <1>8 DEF AcceptedKept, f
<1>12. Alone(r)
    BY <1>1, <1>6 DEF Alone
<1> QED
    BY <1>1, <1>4, <1>6, <1>7, <1>8, <1>9, <1>10, <1>11, <1>12, HeldFacts DEF Kept, f

LEMMA KeptAcceptPipeline ==
    ASSUME NEW r \in Runs, TypeInv, Fine(r), AcceptPipeline(r)
    PROVE  Kept(r)
<1> DEFINE t == [seen[r] EXCEPT !.b3 = PipelineReceipt]
<1>1. /\ At(r, "acceptB3") /\ run[r].b3 = PipelineReceipt /\ ns > 0 /\ UNCHANGED file
      /\ Go(r, "noJob") /\ seen' = [seen EXCEPT ![r] = t]
    BY DEF AcceptPipeline, PipelineMatches, PipelineSound, LiveIn
<1>2. t \in Histories /\ t.root = seen[r].root /\ t.b3 = PipelineReceipt /\ t.b2 = seen[r].b2
      /\ t.listed = seen[r].listed
    BY HeldFacts, ReceiptFacts DEF Histories
<1> HIDE DEF t
<1>3. /\ run' \in [Runs -> Coordinators] /\ run'[r].at = "noJob"
      /\ run'[r].b2 = run[r].b2 /\ run'[r].b3 = run[r].b3
      /\ \A q \in Runs \ {r} : run'[q] = run[q]
    BY <1>1, GoFacts, HeldFacts DEF Places
<1>4. /\ seen' \in [Runs -> Histories] /\ seen'[r] = t
      /\ \A q \in Runs \ {r} : seen'[q] = seen[q]
    BY <1>1, <1>2, HeldFacts
<1>5. RunInv("noJob", file[r], t)
    BY <1>1, <1>2, AcceptingKeeps, HeldFacts DEF Fine, At, Accepting
<1>6. /\ seen[r].b3 = None /\ AgeInv(file[r])
      /\ run[r].b2 = seen[r].b2 /\ run[r].b2 \in Receipts(Serving)
      /\ run[r].b2.ns <= made["namespace"]
      /\ run[r].b3 \in Receipts(Pipeline) => run[r].b3.ns <= run[r].b2.ns
    BY <1>1 DEF Fine, At, SeenInv
<1>7. run[r].b3 \in Receipts(Pipeline) /\ run[r].b3.ns = ns /\ run[r].b2.ns \in Nat
    BY <1>1, <1>6, ReceiptFacts DEF Receipts
<1>8. run[r].b3.ns = run[r].b2.ns
    BY <1>1, <1>6, <1>7, ReceiptFacts
<1>9. SeenInv(run'[r], t)
    BY <1>1, <1>2, <1>3, <1>6, <1>7, <1>8
       DEF SeenInv, BeforeAccept, BeforeRoot, Early, Deploying, Stepping, Stepped, Compared
<1>10. RootKept(r)
    BY <1>1, <1>2, <1>4 DEF RootKept
<1>11. AcceptedKept(r)
    BY <1>1, <1>2, <1>4, <1>6 DEF AcceptedKept
<1>12. Alone(r)
    BY <1>1, <1>3, <1>4 DEF Alone
<1> QED
    BY <1>1, <1>3, <1>4, <1>5, <1>6, <1>9, <1>10, <1>11, <1>12, HeldFacts DEF Kept

LEMMA KeptWriteAcceptance ==
    ASSUME NEW r \in Runs, TypeInv, Fine(r), WriteAcceptance(r)
    PROVE  Kept(r)
<1> DEFINE g == file'[r]
           x == AcceptanceReceipt(r)
<1>1. /\ At(r, "awaitJob") /\ Go(r, "finish") /\ Put(r, "acceptance", x) /\ UNCHANGED seen
    BY DEF WriteAcceptance
<1>2. /\ run[r].b2 = seen[r].b2 /\ run[r].b3 = seen[r].b3
      /\ run[r].b2 \in Receipts(Serving) /\ run[r].b3 \in Receipts(Pipeline)
      /\ run[r].b3.ns = run[r].b2.ns
    BY <1>1 DEF Fine, At, SeenInv, Compared
<1>3. x.b2 = run[r].b2 /\ x.b3 = run[r].b3
    BY DEF AcceptanceReceipt
<1>4. x \in AcceptanceFile /\ x # None
    <2>1. run[r].b3.cluster \in Nat /\ run[r].b3.ns \in Nat
        BY <1>2 DEF Receipts
    <2>2. file[r].lock \in Nat
        BY HeldFacts, FileFields
    <2>3. live[Acceptance] \in Nat
        BY NamesFacts DEF TypeInv, WorldInv
    <2> QED
        BY <1>2, <2>1, <2>2, <2>3, FileConstants
           DEF AcceptanceReceipt, AcceptanceReceipts, AcceptanceFile
<1> HIDE DEF x
<1>5. [file[r] EXCEPT !["acceptance"] = x] \in Files
    BY <1>4, PutIn, HeldFacts
<1>6. /\ file' \in [Runs -> Files] /\ \A q \in Runs \ {r} : file'[q] = file[q]
      /\ SameBut(file[r], g, {"acceptance"}) /\ g["acceptance"] = x
    BY <1>1, <1>5, PutFacts, HeldFacts
<1>7. /\ run' \in [Runs -> Coordinators] /\ run'[r].at = "finish"
      /\ \A q \in Runs \ {r} : run'[q] = run[q]
    BY <1>1, GoFacts, HeldFacts DEF Places
<1>8. /\ g.b3 = file[r].b3 /\ g.b2 = file[r].b2 /\ g.session = file[r].session
      /\ g.exec = file[r].exec /\ g.acceptance = x /\ g \in Files
    BY <1>6 DEF SameBut
<1> HIDE DEF g
<1>9. RunInv("finish", g, seen[r])
    BY <1>1, <1>4, <1>8, AcceptingKeeps, HeldFacts, SMTT(60) DEF Fine, At, Accepting
<1>10. SeenInv(run'[r], seen[r])
    BY <1>7, SeenEnded, HeldFacts
<1>11. AgeInv(g)
    BY <1>8 DEF Fine, AgeInv
<1>12. RootKept(r)
    BY <1>1, <1>8 DEF RootKept, g
<1>13. AcceptedKept(r)
    <2>1. seen[r].b2 # None /\ seen[r].b3 # None
        BY <1>2, ReceiptFacts
    <2> QED
        BY <1>1, <1>2, <1>3, <1>8, <2>1 DEF AcceptedKept, g
<1>14. Alone(r)
    BY <1>1, <1>6, <1>7 DEF Alone
<1> QED
    BY <1>1, <1>6, <1>7, <1>9, <1>10, <1>11, <1>12, <1>13, <1>14, HeldFacts DEF Kept, g

LEMMA KeptFinish ==
    ASSUME NEW r \in Runs, TypeInv, Fine(r), Finish(r)
    PROVE  Kept(r)
<1> DEFINE c == file[r].session.completed
           d == Append(c, "acceptance")
           s == PassedSession(r)
           w == ArtifactsOf(r)
           g == [file[r] EXCEPT !.session = s, !.artifacts = w]
<1>1. At(r, "finish") /\ Go(r, "passed") /\ UNCHANGED seen
    BY DEF Finish
<1>2. file' = [file EXCEPT ![r] = g]
    BY HeldFacts DEF Finish, Files
<1>3. RunInv("finish", file[r], seen[r])
    BY <1>1 DEF Fine, At
<1>4. c \in Seq(Stages) /\ Expects(c, "acceptance") /\ "acceptance" \in Stages
    BY <1>3, JournalFields, HeldFacts DEF RunInv, JournalInv, Accepting, Stages
<1>5. d \in Seq(Stages) /\ Ordered(d) /\ Range(d) = Range(c) \cup {"acceptance"}
    <2> HIDE DEF c
    <2> QED
        BY <1>4, Claim, Zenon
<1> HIDE DEF d
<1>6. s \in Sessions /\ s.completed = d /\ s.status = "runtime_pass"
    BY <1>4, PassedFacts DEF c, d
<1>7. w \in Artifacts
    BY HeldFacts, FileFields DEF Artifacts, ArtifactsOf
<1> HIDE DEF s, w
<1>8. /\ g \in Files /\ g.session = s /\ g.b2 = file[r].b2 /\ g.b3 = file[r].b3
      /\ g.exec = file[r].exec /\ g.acceptance = file[r].acceptance
    BY <1>6, <1>7, HeldFacts DEF Files
<1> HIDE DEF g
<1>9. /\ file' \in [Runs -> Files] /\ file'[r] = g
      /\ \A q \in Runs \ {r} : file'[q] = file[q]
    BY <1>2, <1>8, HeldFacts
<1>10. /\ run' \in [Runs -> Coordinators] /\ run'[r].at = "passed"
       /\ \A q \in Runs \ {r} : run'[q] = run[q]
    BY <1>1, GoFacts, HeldFacts DEF Places
<1>11. JournalInv("passed", g)
    BY <1>5, <1>6, <1>8 DEF JournalInv, Early, Deploying, Piping, Stepping, Stepped, Accepting
<1>12. ClaimsInv("passed", g)
    BY <1>3, <1>5, <1>6, <1>8 DEF RunInv, ClaimsInv, PipelineDone, Ended, c
<1>13. ExecInv("passed", g, seen[r])
    BY <1>3, <1>8 DEF RunInv, ExecInv, BeforeRoot, Early, Deploying, Stepping, Stepped
<1>14. RunInv("passed", g, seen[r])
    BY <1>11, <1>12, <1>13 DEF RunInv
<1>15. SeenInv(run'[r], seen[r])
    BY <1>10, SeenEnded, HeldFacts
<1> QED
    BY <1>1, <1>8, <1>9, <1>10, <1>14, <1>15, PlainKept

--------------------------------------------------------------------------------
(* A session whose write raised: the stage that was done is claimed all the same.   *)

LEMMA FailedKeeps ==
    ASSUME NEW a \in Active, NEW f \in Files, NEW g \in Files, NEW s \in Histories,
           RunInv(a, f, s), Ordered(g.session.completed), g.session.status = "failed",
           g.exec = f.exec, g.b2 = f.b2, g.b3 = f.b3, g.acceptance = f.acceptance,
           NEW claimed, claimed = Range(g.session.completed),
           "serving" \in claimed => "serving" \in Range(f.session.completed)
                                        \/ a = "journalB2",
           "pipeline" \in claimed => "pipeline" \in Range(f.session.completed)
                                         \/ a = "journalB3",
           "acceptance" \in claimed => "acceptance" \in Range(f.session.completed)
                                           \/ a = "finish"
    PROVE  RunInv("failed", g, s)
<1>1. JournalInv("failed", g)
    BY DEF RunInv, JournalInv, Early, Deploying, Piping, Stepping, Stepped, Accepting
<1>2. ClaimsInv("failed", g)
    BY DEF RunInv, ClaimsInv, PipelineDone, Ended
<1>3. ExecInv("failed", g, s)
    BY DEF RunInv, ExecInv, BeforeRoot, Early, Deploying, Stepping, Stepped
<1> QED
    BY <1>1, <1>2, <1>3 DEF RunInv

(* What a failed write does to the run, once the session it held is known. *)
LEMMA KeptFailed ==
    ASSUME NEW r \in Runs, TypeInv, Fine(r), run[r].at \in Active, Go(r, "failed"),
           UNCHANGED seen, NEW g \in Files, file' = [file EXCEPT ![r] = g],
           Ordered(g.session.completed), g.session.status = "failed",
           g.exec = file[r].exec, g.b2 = file[r].b2, g.b3 = file[r].b3,
           g.acceptance = file[r].acceptance,
           NEW claimed, claimed = Range(g.session.completed),
           "serving" \in claimed => "serving" \in Range(file[r].session.completed)
                                        \/ run[r].at = "journalB2",
           "pipeline" \in claimed => "pipeline" \in Range(file[r].session.completed)
                                         \/ run[r].at = "journalB3",
           "acceptance" \in claimed => "acceptance" \in Range(file[r].session.completed)
                                           \/ run[r].at = "finish"
    PROVE  Kept(r)
<1>1. /\ run' \in [Runs -> Coordinators] /\ run'[r].at = "failed"
      /\ \A q \in Runs \ {r} : run'[q] = run[q]
    BY GoFacts, HeldFacts, PlacesFacts
<1>2. /\ file' \in [Runs -> Files] /\ file'[r] = g
      /\ \A q \in Runs \ {r} : file'[q] = file[q]
    BY HeldFacts
<1>3. RunInv("failed", g, seen[r])
    BY FailedKeeps, HeldFacts DEF Fine
<1>4. SeenInv(run'[r], seen[r])
    BY <1>1, SeenEnded, HeldFacts DEF Ended
<1> QED
    BY <1>1, <1>2, <1>3, <1>4, PlainKept

(* The session alone, with the stage x claimed. *)
LEMMA KeptInterrupted ==
    ASSUME NEW r \in Runs, TypeInv, Fine(r), Go(r, "failed"), UNCHANGED seen,
           NEW place \in Active, NEW session \in Sessions,
           Interrupt(r, place, session), Ordered(session.completed),
           NEW claimed, claimed = Range(session.completed),
           "serving" \in claimed => "serving" \in Range(file[r].session.completed)
                                        \/ place = "journalB2",
           "pipeline" \in claimed => "pipeline" \in Range(file[r].session.completed)
                                         \/ place = "journalB3",
           "acceptance" \in claimed => "acceptance" \in Range(file[r].session.completed)
    PROVE  Kept(r)
<1> DEFINE x == Failed(session)
           g == [file[r] EXCEPT !["session"] = x]
<1>1. x \in Sessions /\ x.completed = session.completed /\ x.status = "failed"
    BY FailedFacts
<1>2. run[r].at = place /\ file' = [file EXCEPT ![r] = [file[r] EXCEPT !["session"] = x]]
    BY DEF Interrupt, Put, At
<1> HIDE DEF x
<1>3. /\ g \in Files /\ g.session = x /\ g.exec = file[r].exec /\ g.b2 = file[r].b2
      /\ g.b3 = file[r].b3 /\ g.acceptance = file[r].acceptance
    BY <1>1, HeldFacts DEF Files
<1>4. file' = [file EXCEPT ![r] = g]
    BY <1>2
<1> HIDE DEF g
<1> QED
    BY <1>1, <1>2, <1>3, <1>4, KeptFailed

(* A stage claimed in a session that failed to be written. *)
LEMMA KeptNoted ==
    ASSUME NEW r \in Runs, TypeInv, Fine(r), Go(r, "failed"), UNCHANGED seen,
           NEW x \in {"namespace_preflight", "serving", "pipeline"},
           NEW next \in Stages \cup {"pipeline_render"},
           Interrupt(r, ClaimedAt(x), Noted(r, next, x))
    PROVE  Kept(r)
<1> DEFINE c == file[r].session.completed
           s == Noted(r, next, x)
<1>1. x \in Stages /\ ClaimedAt(x) \in Active /\ c \in Seq(Stages)
    BY JournalFields, HeldFacts DEF Stages, ClaimedAt, Active, Places
<1>2. s \in Sessions /\ s.completed = Append(c, x)
    BY <1>1, NotedFacts
<1>3. Expects(c, x)
    BY DEF Fine, Interrupt, At, RunInv, JournalInv, ClaimedAt, Deploying, Piping, Stepping,
           Stepped
<1> HIDE DEF c, s
<1>4. Ordered(s.completed) /\ Range(s.completed) = Range(c) \cup {x}
    BY <1>1, <1>2, <1>3, Claim
<1>5. /\ "serving" \in Range(s.completed) => "serving" \in Range(c)
                                                 \/ ClaimedAt(x) = "journalB2"
      /\ "pipeline" \in Range(s.completed) => "pipeline" \in Range(c)
                                                  \/ ClaimedAt(x) = "journalB3"
      /\ "acceptance" \in Range(s.completed) => "acceptance" \in Range(c)
    BY <1>4 DEF ClaimedAt
<1> QED
    BY <1>1, <1>2, <1>4, <1>5, KeptInterrupted DEF c, s

LEMMA KeptFailFirst ==
    ASSUME NEW r \in Runs, TypeInv, Fine(r), Go(r, "failed"), UNCHANGED seen,
           FailFirstWrite(r)
    PROVE  Kept(r)
<1> DEFINE p == file[r].journal.completed
           s == FirstSession(r)
           x == Failed(s)
<1>1. PICK lock \in {file[r].lock, run[r].cluster} :
          file' = [file EXCEPT ![r].lock = lock, ![r].session = Failed(FirstSession(r))]
    BY DEF FailFirstWrite
<1>2. At(r, "render") /\ run[r].at \in Active
    BY DEF FailFirstWrite, At, Active, Places
<1>3. p \in {<<>>, PrepStages}
    BY <1>2 DEF Fine, At, RunInv, JournalInv
<1>4. s \in Sessions /\ s.completed = Append(p, "private_render")
    BY <1>3, FirstFacts
<1> HIDE DEF p
<1>5. /\ Ordered(s.completed)
      /\ Range(s.completed) \cap {"serving", "pipeline", "acceptance"} = {}
    BY <1>3, <1>4, FirstClaim
<1>6. x \in Sessions /\ x.completed = s.completed /\ x.status = "failed"
    BY <1>4, FailedFacts
<1> DEFINE g == [file[r] EXCEPT !.lock = lock, !.session = x]
<1>7. file' = [file EXCEPT ![r] = g]
    BY <1>1, HeldFacts DEF Files
<1> HIDE DEF s, x
<1>8. lock \in Nat
    BY HeldFacts, FileFields, RunFields
<1>9. /\ g \in Files /\ g.session = x /\ g.exec = file[r].exec /\ g.b2 = file[r].b2
      /\ g.b3 = file[r].b3 /\ g.acceptance = file[r].acceptance
    BY <1>6, <1>8, HeldFacts DEF Files
<1> HIDE DEF g
<1> QED
    BY <1>2, <1>5, <1>6, <1>7, <1>9, KeptFailed

LEMMA KeptFailLast ==
    ASSUME NEW r \in Runs, TypeInv, Fine(r), Go(r, "failed"), UNCHANGED seen,
           FailLastWrite(r)
    PROVE  Kept(r)
<1> DEFINE c == file[r].session.completed
           s == PassedSession(r)
           x == Failed(s)
           w == ArtifactsOf(r)
           g == [file[r] EXCEPT !.session = x, !.artifacts = w]
<1>1. At(r, "finish") /\ run[r].at \in Active
    BY DEF FailLastWrite, At, Active, Places
<1>2. file' = [file EXCEPT ![r] = g]
    BY HeldFacts DEF FailLastWrite, Files
<1>3. c \in Seq(Stages) /\ Expects(c, "acceptance") /\ "acceptance" \in Stages
    BY <1>1, JournalFields, HeldFacts DEF Fine, At, RunInv, JournalInv, Accepting, Stages
<1>4. s \in Sessions /\ s.completed = Append(c, "acceptance")
    BY PassedFacts
<1> HIDE DEF c
<1>5. Ordered(s.completed) /\ Range(s.completed) = Range(c) \cup {"acceptance"}
    BY <1>3, <1>4, Claim
<1>6. x \in Sessions /\ x.completed = s.completed /\ x.status = "failed"
    BY <1>4, FailedFacts
<1>7. w \in Artifacts
    BY HeldFacts, FileFields DEF Artifacts, ArtifactsOf
<1> HIDE DEF s, x, w
<1>8. /\ g \in Files /\ g.session = x /\ g.exec = file[r].exec /\ g.b2 = file[r].b2
      /\ g.b3 = file[r].b3 /\ g.acceptance = file[r].acceptance
    BY <1>6, <1>7, HeldFacts DEF Files
<1> HIDE DEF g
<1>9. run[r].at = "finish"
    BY <1>1 DEF At
<1>10. /\ Ordered(g.session.completed) /\ g.session.status = "failed"
       /\ Range(g.session.completed) = Range(file[r].session.completed) \cup {"acceptance"}
    BY <1>5, <1>6, <1>8 DEF c
<1> HIDE DEF c
<1>11. /\ "serving" \in Range(g.session.completed)
              => "serving" \in Range(file[r].session.completed)
       /\ "pipeline" \in Range(g.session.completed)
              => "pipeline" \in Range(file[r].session.completed)
    BY <1>10
<1> QED
    BY <1>1, <1>2, <1>8, <1>9, <1>10, <1>11, KeptFailed

LEMMA KeptFailWriting ==
    ASSUME NEW r \in Runs, TypeInv, Fine(r), FailWriting(r)
    PROVE  Kept(r)
<1>1. Go(r, "failed") /\ UNCHANGED seen
    BY DEF FailWriting
<1>2. CASE Interrupt(r, "preflight", Noted(r, "serving", "namespace_preflight"))
    BY <1>1, <1>2, KeptNoted DEF ClaimedAt, Stages
<1>3. CASE Interrupt(r, "journalB2", Noted(r, "pipeline_render", "serving"))
    BY <1>1, <1>3, KeptNoted DEF ClaimedAt, Stages
<1>4. CASE Interrupt(r, "journalB3", Noted(r, "acceptance", "pipeline"))
    BY <1>1, <1>4, KeptNoted DEF ClaimedAt, Stages
<1>5. CASE Interrupt(r, "renderB3", [file[r].session EXCEPT !.stage = "pipeline"])
    <2> DEFINE s == [file[r].session EXCEPT !.stage = "pipeline"]
    <2>1. s \in Sessions /\ s.completed = file[r].session.completed
        BY FileFields, HeldFacts, SMTT(60) DEF Sessions, Stages
    <2>2. Interrupt(r, "renderB3", s)
        BY <1>5
    <2> HIDE DEF s
    <2>3. Ordered(s.completed) /\ "renderB3" \in Active
        BY <2>1 DEF Fine, RunInv, JournalInv, Active, Places
    <2> QED
        BY <1>1, <2>1, <2>2, <2>3, KeptInterrupted
<1> QED
    BY <1>1, <1>2, <1>3, <1>4, <1>5, KeptFailFirst, KeptFailLast DEF FailWriting

(* One step of a run, whatever it is. *)
LEMMA RunKept ==
    ASSUME NEW r \in Runs, TypeInv, Fine(r), Coordinate(r)
    PROVE  Kept(r)
<1>1. RunStep(r)
    BY RunSteps
<1>2. CASE Bootstrap(r)
    <2>1. ns > 0
        <3>1. live["platform"] > 0
            BY <1>2, NamesFacts DEF Bootstrap, CanBootstrap, Existing, Platform
        <3> QED
            BY <3>1, ReceiptFacts, NamesFacts DEF TypeInv, WorldInv
    <2> QED
        BY <1>2, <2>1, KeptBootstrap
<1> QED
    BY <1>1, <1>2, KeptMoves, KeptStops, KeptDie, KeptBegin, KeptLocally, KeptNewProfile,
       KeptFinalizeLock, KeptJournalLock, KeptRender, KeptFailWriting, KeptPreflight, KeptCollectServing,
       KeptJournalServing, KeptRenderPipeline, KeptStepCompleted, KeptCollectPipeline,
       KeptCloseExec, KeptJournalPipeline, KeptAcceptServing, KeptAcceptPipeline,
       KeptWriteAcceptance, KeptFinish
       DEF RunStep

--------------------------------------------------------------------------------
(* The profile. *)

Counted == Names \cup {"profile", "namespace"}

(* Numbers only grow, and what a step makes is newer than all there has been. *)
Grows ==
    /\ \A n \in Counted : made[n] <= made'[n]
    /\ (ns' = ns /\ done \subseteq done') \/ ns' = 0 \/ ns' > made["namespace"]
    /\ ns' \in {0, ns} \/ ns' > made["namespace"]
    /\ \A n \in Names : live'[n] \in {0, live[n]} \/ live'[n] > made[n]

Still == UNCHANGED world
Makes == \E S \in SUBSET Names : ns > 0 /\ Create(S) /\ UNCHANGED <<cluster, ns, done>>
MakesNamespace == /\ ns = 0 /\ ns' = made["namespace"] + 1
                  /\ made' = [made EXCEPT !["namespace"] = @ + 1]
                  /\ UNCHANGED <<cluster, live, done>>
MakesProfile == /\ cluster' = made["profile"] + 1
                /\ made' = [made EXCEPT !["profile"] = @ + 1]
                /\ UNCHANGED <<ns, live, done>>
Completes == \E n \in Names : /\ live[n] > 0 /\ done' = done \cup {n}
                              /\ UNCHANGED <<cluster, ns, live, made>>
Empties == Emptied /\ cluster' \in {0, cluster} /\ UNCHANGED made
Replaces == \E n \in Names : /\ live[n] > 0
                             /\ live' = [live EXCEPT ![n] = made[n] + 1]
                             /\ made' = [made EXCEPT ![n] = @ + 1]
                             /\ UNCHANGED <<cluster, ns, done>>
WorldShape == \/ Still \/ Makes \/ MakesNamespace \/ MakesProfile \/ Completes
              \/ Empties \/ Replaces

LEMMA MadeFacts ==
    ASSUME WorldInv
    PROVE  /\ \A n \in Counted : made[n] \in Nat
           /\ \A n \in Names : live[n] \in Nat /\ live[n] <= made[n] /\ n \in Counted
           /\ "profile" \in Counted /\ "namespace" \in Counted
           /\ made \in [Counted -> Nat] /\ live \in [Names -> Nat] /\ DOMAIN made = Counted
           /\ ns \in Nat /\ cluster \in Nat /\ "namespace" \notin Names
           /\ "profile" \notin Names
BY NamesFacts DEF WorldInv, Made, Counted

LEMMA ShapeKeeps ==
    ASSUME WorldInv, WorldShape
    PROVE  WorldInv' /\ Grows
<1>1. CASE Still
    <2>1. WorldInv'
        BY <1>1 DEF Still, world, WorldInv, Made
    <2> QED
        BY <1>1, <2>1, MadeFacts DEF Still, world, Grows
<1>2. CASE Makes
    <2>1. PICK S \in SUBSET Names : ns > 0 /\ Create(S) /\ UNCHANGED <<cluster, ns, done>>
        BY <1>2 DEF Makes
    <2> DEFINE new == S \ Existing
    <2>2. /\ live' = [n \in Names |-> IF n \in new THEN made[n] + 1 ELSE live[n]]
          /\ made' = [n \in Counted |-> IF n \in new THEN made[n] + 1 ELSE made[n]]
          /\ new \subseteq Names
        BY <2>1, MadeFacts DEF Create
    <2> HIDE DEF new
    <2>3. /\ \A n \in Names : /\ live'[n] \in {live[n], made[n] + 1}
                              /\ live'[n] \in Nat /\ live'[n] <= made'[n]
          /\ \A n \in Counted : made'[n] \in Nat /\ made[n] <= made'[n]
          /\ made'["namespace"] = made["namespace"]
        BY <2>2, MadeFacts
    <2>4. live' \in [Names -> Nat] /\ made' \in [Counted -> Nat]
        BY <2>2, <2>3
    <2>5. WorldInv'
        BY <2>1, <2>3, <2>4 DEF WorldInv, Made, Counted
    <2> QED
        BY <2>1, <2>3, <2>5, MadeFacts DEF Grows
<1>3. CASE MakesNamespace
    <2>1. /\ ns' = made["namespace"] + 1 /\ ns = 0 /\ UNCHANGED <<cluster, live, done>>
          /\ made' \in [Counted -> Nat] /\ made'["namespace"] = made["namespace"] + 1
          /\ \A n \in Names : made'[n] = made[n]
          /\ \A n \in Counted : made[n] <= made'[n]
        BY <1>3, MadeFacts DEF MakesNamespace
    <2>2. WorldInv'
        BY <2>1, MadeFacts DEF WorldInv, Made, Counted
    <2> QED
        BY <2>1, <2>2, MadeFacts DEF Grows
<1>4. CASE MakesProfile
    <2>1. /\ cluster' \in Nat /\ UNCHANGED <<ns, live, done>>
          /\ made' \in [Counted -> Nat] /\ made'["namespace"] = made["namespace"]
          /\ \A n \in Names : made'[n] = made[n]
          /\ \A n \in Counted : made[n] <= made'[n]
        BY <1>4, MadeFacts DEF MakesProfile
    <2>2. WorldInv'
        BY <2>1, MadeFacts DEF WorldInv, Made, Counted
    <2> QED
        BY <2>1, <2>2, MadeFacts DEF Grows
<1>5. CASE Completes
    <2>1. PICK n \in Names : /\ live[n] > 0 /\ done' = done \cup {n}
                             /\ UNCHANGED <<cluster, ns, live, made>>
        BY <1>5 DEF Completes
    <2>2. ns # 0
        BY <2>1, MadeFacts DEF WorldInv
    <2>3. WorldInv'
        BY <2>1, <2>2 DEF WorldInv, Made
    <2> QED
        BY <2>1, <2>3, MadeFacts DEF Grows
<1>6. CASE Empties
    <2>1. /\ ns' = 0 /\ live' = [n \in Names |-> 0] /\ done' = {}
          /\ cluster' \in {0, cluster} /\ made' = made
        BY <1>6 DEF Empties, Emptied
    <2>2. WorldInv'
        BY <2>1, MadeFacts DEF WorldInv, Made
    <2> QED
        BY <2>1, <2>2, MadeFacts DEF Grows
<1>7. CASE Replaces
    <2>1. PICK n \in Names : /\ live[n] > 0
                             /\ live' = [live EXCEPT ![n] = made[n] + 1]
                             /\ made' = [made EXCEPT ![n] = @ + 1]
                             /\ UNCHANGED <<cluster, ns, done>>
        BY <1>7 DEF Replaces
    <2>2. ns # 0
        BY <2>1, MadeFacts DEF WorldInv
    <2>3. /\ \A m \in Names : /\ live'[m] \in {live[m], made[m] + 1}
                              /\ live'[m] \in Nat /\ live'[m] <= made'[m]
          /\ \A m \in Counted : made'[m] \in Nat /\ made[m] <= made'[m]
          /\ made'["namespace"] = made["namespace"]
        BY <2>1, MadeFacts
    <2>4. live' \in [Names -> Nat] /\ made' \in [Counted -> Nat]
        BY <2>1, MadeFacts
    <2>5. WorldInv'
        BY <2>1, <2>2, <2>3, <2>4 DEF WorldInv, Made, Counted
    <2> QED
        BY <2>1, <2>3, <2>5, MadeFacts DEF Grows
<1> QED
    BY <1>1, <1>2, <1>3, <1>4, <1>5, <1>6, <1>7 DEF WorldShape

LEMMA NextStepIsJob ==
    ASSUME NEW r \in Runs, TypeInv, Fine(r), run[r].at \in Stepping
    PROVE  /\ Len(file[r].exec.completed) \in 1..Len(Steps)
           /\ NextStep(r) \in Jobs /\ NextStep(r) \in Names
<1>1. Len(file[r].exec.completed) \in 1..Len(Steps)
    BY DEF Fine, RunInv, ExecInv
<1> QED
    BY <1>1, StepsFacts, NamesFacts DEF NextStep

LEMMA ApplyShape ==
    ASSUME NEW r \in Runs, NEW place, NEW S \in SUBSET Names, NEW next,
           Apply(r, place, S, next)
    PROVE  WorldShape
BY DEF Apply, Makes, WorldShape

(* What a run, an operator and the others do to the profile. *)
LEMMA RunShape ==
    ASSUME NEW r \in Runs, TypeInv, Fine(r), Coordinate(r)
    PROVE  WorldShape
<1>1. CASE Prepare(r)
    <2>1. CASE CreateProfile(r)
        BY <2>1 DEF CreateProfile, MakesProfile, WorldShape
    <2>2. CASE ~CreateProfile(r)
        BY <1>1, <2>2 DEF Prepare, Begin, CheckLocally, BuildApplicationImages, PrepareLocally,
                          BuildPipelineImages, FinalizeLock, JournalLock, Render, Refuse,
                          Still, WorldShape
    <2> QED
        BY <2>1, <2>2
<1>2. CASE Serve(r)
    <2>1. CASE ApplyNamespace(r)
        <3>1. CASE ns > 0
            BY <2>1, <3>1 DEF ApplyNamespace, Still, world, WorldShape
        <3>2. CASE ~(ns > 0)
            <4>1. ns = 0
                BY <3>2, MadeFacts DEF TypeInv
            <4> QED
                BY <2>1, <3>2, <4>1 DEF ApplyNamespace, MakesNamespace, WorldShape
        <3> QED
            BY <3>1, <3>2
    <2>2. CASE \/ Apply(r, "secrets", {"secrets"}, "manifests")
               \/ Apply(r, "manifests", {"serving", "serving-pod"}, "collectB2")
        BY <2>2, ApplyShape, NamesFacts DEF Serving
    <2>3. CASE ~(\/ ApplyNamespace(r)
                 \/ Apply(r, "secrets", {"secrets"}, "manifests")
                 \/ Apply(r, "manifests", {"serving", "serving-pod"}, "collectB2"))
        BY <1>2, <2>3 DEF Serve, Preflight, Check, CollectServing, JournalServing, Refuse,
                          Still, WorldShape
    <2> QED
        BY <2>1, <2>2, <2>3
<1>3. CASE RunPipeline(r)
    <2>1. CASE Apply(r, "platform", Platform, "awaitPlatform")
        BY <2>1, ApplyShape, NamesFacts
    <2>2. CASE ApplyStep(r)
        BY <2>2, ApplyShape, NextStepIsJob DEF ApplyStep, At, Stepping
    <2>3. CASE Bootstrap(r)
        <3>1. live["platform"] > 0 /\ "platform" \in Names
            BY <2>3, NamesFacts DEF Bootstrap, CanBootstrap, Existing, Platform
        <3> QED
            BY <2>3, <3>1 DEF Bootstrap, Completes, WorldShape
    <2>4. CASE ~(\/ Apply(r, "platform", Platform, "awaitPlatform")
                 \/ ApplyStep(r) \/ Bootstrap(r))
        BY <1>3, <2>4 DEF RunPipeline, RenderPipeline, StartPipeline, Check, StepCompleted,
                          CollectPipeline, CloseExec, JournalPipeline, Refuse,
                          Still, WorldShape
    <2> QED
        BY <2>1, <2>2, <2>3, <2>4
<1>4. CASE Accept(r)
    <2>1. CASE ApplyAcceptance(r)
        BY <2>1, ApplyShape, NamesFacts DEF ApplyAcceptance
    <2>2. CASE ~ApplyAcceptance(r)
        BY <1>4, <2>2 DEF Accept, AcceptServing, AcceptPipeline, Check, WriteAcceptance, Finish,
                          Refuse, Still, WorldShape
    <2> QED
        BY <2>1, <2>2
<1>5. CASE JobGone(r) \/ Fail(r) \/ FailWriting(r) \/ Die(r)
    BY <1>5 DEF JobGone, Fail, FailWriting, Die, Refuse, Still, WorldShape
<1> QED
    BY <1>1, <1>2, <1>3, <1>4, <1>5 DEF Coordinate

LEMMA OperateShape ==
    ASSUME NEW r \in Runs, TypeInv, Operate(r)
    PROVE  WorldShape
<1>1. CASE DeleteNamespace(r)
    BY <1>1 DEF DeleteNamespace, Empties, Still, world, WorldShape
<1>2. CASE DeleteProfile(r)
    BY <1>2 DEF DeleteProfile, Empties, Still, world, WorldShape
<1>3. CASE ~(DeleteNamespace(r) \/ DeleteProfile(r))
    BY <1>3 DEF Operate, Collect, Point, Teardown, ReadEvidence, Look, ListProfile,
                ReportDeleted, DropTeardown, Still, WorldShape
<1> QED
    BY <1>1, <1>2, <1>3

LEMMA OthersShape ==
    ASSUME TypeInv, World
    PROVE  WorldShape
<1>1. CASE CompleteStep \/ CompleteAcceptance
    <2>1. PICK n \in Names : Complete(n)
        BY <1>1, NamesFacts DEF CompleteStep, CompleteAcceptance
    <2> QED
        BY <2>1 DEF Complete, Completes, WorldShape
<1>2. CASE \E n \in {"serving-pod", "platform-pod"} : Replace(n)
    BY <1>2, NamesFacts DEF Replace, Replaces, WorldShape
<1>3. CASE \E n \in Strays : Intrude(n)
    <2>1. PICK n \in Strays : Intrude(n)
        BY <1>3
    <2>2. {n} \in SUBSET Names
        BY NamesFacts
    <2> QED
        BY <2>1, <2>2 DEF Intrude, Makes, WorldShape
<1>4. CASE \E r \in Runs : \E field \in {"b2", "b3", "acceptance", "evidence"} :
                Tamper(r, field)
    BY <1>4 DEF Tamper, Still, WorldShape
<1> QED
    BY <1>1, <1>2, <1>3, <1>4 DEF World

--------------------------------------------------------------------------------
(* What the operators and the others do to what the runs hold. *)

(* Files and histories a run's own places say nothing of may change. *)
Untouched(q) ==
    /\ run'[q] = run[q]
    /\ file'[q].journal = file[q].journal /\ file'[q].session = file[q].session
    /\ file'[q].exec = file[q].exec
    /\ seen'[q].root = seen[q].root
    /\ seen'[q].b2 = seen[q].b2 /\ seen'[q].b3 = seen[q].b3

(* A receipt is as it was, cut short, or another's. *)
Shuffled(q) ==
    /\ file'[q].b2 \in {file[q].b2} \cup (({Torn} \cup {file[p].b2 : p \in Runs}) \ {None})
    /\ file'[q].b3 \in {file[q].b3} \cup (({Torn} \cup {file[p].b3 : p \in Runs}) \ {None})
    /\ file'[q].acceptance \in {file[q].acceptance} \cup
                  (({Torn} \cup {file[p].acceptance : p \in Runs}) \ {None})

LEMMA TeardownFields ==
    ASSUME NEW d \in Teardowns
    PROVE  /\ d.b2 \in ServingFile /\ d.b3 \in PipelineFile
           /\ d.acceptance \in AcceptanceFile /\ d.evidence \in EvidenceFile
BY DEF Teardowns

DownKept(r) ==
    /\ down' \in [Runs -> Teardowns] /\ \A q \in Runs \ {r} : down'[q] = down[q]

LEMMA TearFacts ==
    ASSUME NEW r \in Runs, TypeInv,
           NEW place \in {"idle", "matchB2", "matchB3", "job", "inventory", "namespace",
                          "profile", "report"},
           Tear(r, place)
    PROVE  /\ DownKept(r) /\ down'[r].at = place
           /\ down'[r].b2 = down[r].b2 /\ down'[r].b3 = down[r].b3
           /\ down'[r].acceptance = down[r].acceptance
           /\ down'[r].evidence = down[r].evidence
<1> DEFINE d == [down[r] EXCEPT !.at = place]
<1>1. down[r] \in Teardowns /\ down \in [Runs -> Teardowns]
    BY DEF TypeInv, HeldInv
<1>2. /\ d \in Teardowns /\ d.at = place /\ d.b2 = down[r].b2 /\ d.b3 = down[r].b3
      /\ d.acceptance = down[r].acceptance /\ d.evidence = down[r].evidence
    BY <1>1 DEF Teardowns
<1>3. down' = [down EXCEPT ![r] = d]
    BY DEF Tear
<1> HIDE DEF d
<1> QED
    BY <1>1, <1>2, <1>3 DEF DownKept

LEMMA PointFacts ==
    ASSUME NEW r \in Runs, TypeInv, NEW b \in BOOLEAN,
           down' = [down EXCEPT ![r].pointing = b]
    PROVE  /\ DownKept(r) /\ down'[r].at = down[r].at
           /\ down'[r].b2 = down[r].b2 /\ down'[r].b3 = down[r].b3
           /\ down'[r].acceptance = down[r].acceptance
           /\ down'[r].evidence = down[r].evidence
<1> DEFINE d == [down[r] EXCEPT !.pointing = b]
<1>1. down[r] \in Teardowns /\ down \in [Runs -> Teardowns]
    BY DEF TypeInv, HeldInv
<1>2. /\ d \in Teardowns /\ d.at = down[r].at /\ d.b2 = down[r].b2 /\ d.b3 = down[r].b3
      /\ d.acceptance = down[r].acceptance /\ d.evidence = down[r].evidence
    BY <1>1 DEF Teardowns
<1>3. down' = [down EXCEPT ![r] = d]
    OBVIOUS
<1> HIDE DEF d
<1> QED
    BY <1>1, <1>2, <1>3 DEF DownKept

(* A file of the operator's. *)
LEMMA OperatorPut ==
    ASSUME NEW r \in Runs, NEW field \in {"evidence", "pointer", "ended"},
           SameBut(file[r], file'[r], {field}), \A q \in Runs \ {r} : file'[q] = file[q]
    PROVE  \A q \in Runs : SameBut(file[q], file'[q], {"evidence", "pointer", "ended"})
BY DEF SameBut

LEMMA SameFiles ==
    ASSUME TypeInv, UNCHANGED file
    PROVE  /\ file' \in [Runs -> Files]
           /\ \A q \in Runs : SameBut(file[q], file'[q], {"evidence", "pointer", "ended"})
BY DEF TypeInv, HeldInv, SameBut

LEMMA OperateFiles ==
    ASSUME NEW r \in Runs, TypeInv, Operate(r)
    PROVE  /\ UNCHANGED run
           /\ file' \in [Runs -> Files]
           /\ \A q \in Runs : SameBut(file[q], file'[q], {"evidence", "pointer", "ended"})
<1>1. CASE Collect(r)
    <2>1. PICK job \in Nat \cup {Unread} :
              Put(r, "evidence", [ns |-> ns, job |-> job]) /\ UNCHANGED run
        <3>1. live[Acceptance] \in Nat
            BY NamesFacts DEF TypeInv, WorldInv
        <3> QED
            BY <1>1, <3>1 DEF Collect
    <2>2. [ns |-> ns, job |-> job] \in EvidenceFile
        BY ReceiptFacts DEF EvidenceFile
    <2>3. [file[r] EXCEPT !["evidence"] = [ns |-> ns, job |-> job]] \in Files
        BY <2>2, PutIn, HeldFacts
    <2>4. /\ file' \in [Runs -> Files] /\ SameBut(file[r], file'[r], {"evidence"})
          /\ \A q \in Runs \ {r} : file'[q] = file[q]
        BY <2>1, <2>3, PutFacts, HeldFacts
    <2> QED
        BY <2>1, <2>4, OperatorPut
<1>2. CASE Point(r)
    <2>1. [file[r] EXCEPT !["pointer"] = file[r].evidence] \in Files
        BY PutIn, HeldFacts, FileFields
    <2>2. UNCHANGED run /\ (UNCHANGED file \/ Put(r, "pointer", file[r].evidence))
        BY <1>2 DEF Point
    <2>3. CASE Put(r, "pointer", file[r].evidence)
        <3>1. /\ file' \in [Runs -> Files] /\ SameBut(file[r], file'[r], {"pointer"})
              /\ \A q \in Runs \ {r} : file'[q] = file[q]
            BY <2>1, <2>3, PutFacts, HeldFacts
        <3> QED
            BY <2>2, <3>1, OperatorPut
    <2> QED
        BY <2>2, <2>3, SameFiles
<1>3. CASE Teardown(r)
    <2>1. /\ [file[r] EXCEPT !["ended"] = "partial_failure"] \in Files
          /\ [file[r] EXCEPT !["ended"] = "deleted"] \in Files
        BY PutIn, HeldFacts
    <2>2. \/ UNCHANGED file \/ Put(r, "ended", "partial_failure") \/ Put(r, "ended", "deleted")
        BY <1>3 DEF Teardown, ReadEvidence, Look, ListProfile, DeleteNamespace, DeleteProfile,
                    ReportDeleted, DropTeardown
    <2>3. UNCHANGED run
        BY <1>3 DEF Teardown, ReadEvidence, Look, ListProfile, DeleteNamespace, DeleteProfile,
                    ReportDeleted, DropTeardown, world
    <2>4. CASE Put(r, "ended", "partial_failure") \/ Put(r, "ended", "deleted")
        <3>1. /\ file' \in [Runs -> Files] /\ SameBut(file[r], file'[r], {"ended"})
              /\ \A q \in Runs \ {r} : file'[q] = file[q]
            BY <2>1, <2>4, PutFacts, HeldFacts
        <3> QED
            BY <2>3, <3>1, OperatorPut
    <2> QED
        BY <2>2, <2>3, <2>4, SameFiles
<1> QED
    BY <1>1, <1>2, <1>3 DEF Operate

(* The listing an operator relies on is the last it made. *)
LEMMA OperateSeen ==
    ASSUME NEW r \in Runs, TypeInv, Operate(r)
    PROVE  \/ UNCHANGED seen
           \/ /\ ListProfile(r)
              /\ seen' \in [Runs -> Histories]
              /\ \A q \in Runs \ {r} : seen'[q] = seen[q]
              /\ seen'[r].root = seen[r].root /\ seen'[r].b2 = seen[r].b2
              /\ seen'[r].b3 = seen[r].b3 /\ seen'[r].listed = made
<1>1. CASE ListProfile(r)
    <2> DEFINE t == [seen[r] EXCEPT !.listed = made]
    <2>1. /\ t \in Histories /\ t.root = seen[r].root /\ t.b2 = seen[r].b2
          /\ t.b3 = seen[r].b3 /\ t.listed = made
        BY HeldFacts DEF Histories, TypeInv, WorldInv
    <2>2. seen' = [seen EXCEPT ![r] = t]
        BY <1>1 DEF ListProfile
    <2> HIDE DEF t
    <2> QED
        BY <1>1, <2>1, <2>2, HeldFacts
<1>2. CASE ~ListProfile(r)
    BY <1>2 DEF Operate, Collect, Point, Teardown, ReadEvidence, Look, DeleteNamespace,
                DeleteProfile, ReportDeleted, DropTeardown
<1> QED
    BY <1>1, <1>2

--------------------------------------------------------------------------------
(* Teardown. *)

LEMMA InventoryAccounts ==
    ASSUME NEW b2 \in Receipts(Serving), NEW b3 \in Receipts(Pipeline), NEW job,
           InventoryIs(b2, b3, job)
    PROVE  /\ ns = b2.ns
           /\ \A n \in Existing : \/ n \in Serving /\ live[n] = b2.objects[n]
                                  \/ n \in Pipeline /\ live[n] = b3.objects[n]
                                  \/ n = Acceptance /\ live[n] = job
<1> DEFINE all == Expected(b2, b3, job)
           D == Serving \cup Pipeline \cup {m \in {Acceptance} : job > 0}
<1>1. ns = b2.ns /\ [n \in Existing |-> live[n]] = all
    BY DEF InventoryIs, NamespaceIs
<1>2. all = [n \in D |-> CASE n \in Serving -> b2.objects[n]
                          [] n \in Pipeline -> b3.objects[n]
                          [] OTHER -> job]
    BY DEF Expected
<1>3. \A n \in D : n \in Serving \/ n \in Pipeline \/ n = Acceptance
    OBVIOUS
<1> HIDE DEF all, D
<1>4. ASSUME NEW n \in Existing
      PROVE  \/ n \in Serving /\ live[n] = b2.objects[n]
             \/ n \in Pipeline /\ live[n] = b3.objects[n]
             \/ n = Acceptance /\ live[n] = job
    <2>1. [m \in Existing |-> live[m]][n] = live[n]
        OBVIOUS
    <2>2. live[n] = all[n] /\ n \in D
        BY <1>1, <1>2, <2>1
    <2>3. all[n] = CASE n \in Serving -> b2.objects[n]
                     [] n \in Pipeline -> b3.objects[n]
                     [] OTHER -> job
        BY <1>2, <2>2
    <2> QED
        BY <1>3, <2>2, <2>3
<1> QED
    BY <1>1, <1>4

LEMMA OperateDown ==
    ASSUME NEW r \in Runs, TypeInv, DownInv(down[r], seen[r]), Operate(r)
    PROVE  /\ DownKept(r)
           /\ down'[r].at # "idle" =>
                  down'[r].b2 \in Receipts(Serving) /\ down'[r].b3 \in Receipts(Pipeline)
           /\ down'[r].at = "namespace" =>
                  /\ down'[r].b2 = down[r].b2 /\ down'[r].b3 = down[r].b3
                  /\ down'[r].acceptance = down[r].acceptance
                  /\ down'[r].evidence = down[r].evidence
                  /\ \/ down[r].at = "namespace" /\ ~ListProfile(r)
                     \/ /\ ListProfile(r)
                        /\ InventoryIs(down[r].b2, down[r].b3, ExpectedJob(r))
                        /\ down[r].at = "inventory"
<1> DEFINE d == down[r]
           tearing == {"idle", "matchB2", "matchB3", "job", "inventory", "namespace",
                       "profile", "report"}
<1>0. d.at # "idle" => d.b2 \in Receipts(Serving) /\ d.b3 \in Receipts(Pipeline)
    BY DEF DownInv
<1>1. CASE ReadEvidence(r)
    <2> DEFINE e == [d EXCEPT !.at = "matchB2", !.b2 = file[r].b2, !.b3 = file[r].b3,
                              !.acceptance = file[r].acceptance,
                              !.evidence = file[r].evidence]
    <2>1. /\ d \in Teardowns /\ down \in [Runs -> Teardowns]
          /\ file[r].b2 \in ServingFile /\ file[r].b3 \in PipelineFile
          /\ file[r].acceptance \in AcceptanceFile /\ file[r].evidence \in EvidenceFile
        BY HeldFacts, FileFields DEF TypeInv, HeldInv
    <2>2. file[r].b2 \in Receipts(Serving) /\ file[r].b3 \in Receipts(Pipeline)
        BY <1>1, <2>1 DEF ReadEvidence, Authorized, ServingOnRecord, PipelineOnRecord,
                          Document, ServingFile, PipelineFile
    <2>3. down' = [down EXCEPT ![r] = e]
        BY <1>1 DEF ReadEvidence
    <2>4. e \in Teardowns /\ e.at = "matchB2" /\ e.b2 = file[r].b2 /\ e.b3 = file[r].b3
        BY <2>1 DEF Teardowns
    <2> HIDE DEF e
    <2> QED
        BY <2>1, <2>2, <2>3, <2>4 DEF DownKept
<1>2. CASE Collect(r) \/ Point(r)
    <2>1. \E b \in BOOLEAN : down' = [down EXCEPT ![r].pointing = b]
        BY <1>2 DEF Collect, Point
    <2>2. /\ DownKept(r) /\ down'[r].at = d.at /\ down'[r].b2 = d.b2 /\ down'[r].b3 = d.b3
          /\ down'[r].acceptance = d.acceptance /\ down'[r].evidence = d.evidence
        BY <2>1, PointFacts
    <2>3. ~ListProfile(r) \/ d.at = "inventory"
        BY DEF ListProfile, TearAt
    <2> QED
        BY <1>0, <2>2, <2>3
<1>3. CASE Teardown(r) /\ ~ReadEvidence(r)
    <2>1. PICK place \in tearing :
              /\ Tear(r, place)
              /\ place # "idle" => d.at # "idle"
              /\ place = "namespace" =>
                     /\ ListProfile(r) /\ d.at = "inventory"
                     /\ InventoryIs(d.b2, d.b3, ExpectedJob(r))
        <3>1. CASE ListProfile(r)
            BY <3>1 DEF ListProfile, TearAt
        <3>2. CASE DeleteNamespace(r)
            BY <3>2 DEF DeleteNamespace, TearAt
        <3>3. CASE DeleteProfile(r)
            BY <3>3 DEF DeleteProfile, TearAt
        <3>4. CASE ReportDeleted(r) \/ DropTeardown(r)
            BY <3>4 DEF ReportDeleted, DropTeardown, TearAt
        <3>5. CASE Look(r, "matchB2", ServingMatches(r, down[r].b2), "matchB3")
            BY <3>5 DEF Look, TearAt
        <3>6. CASE Look(r, "matchB3", /\ PipelineMatches(r, down[r].b3, TRUE)
                                      /\ SamePlace(r), "job")
            BY <3>6 DEF Look, TearAt
        <3>7. CASE Look(r, "job", ExpectedJob(r) = live[Acceptance], "inventory")
            BY <3>7 DEF Look, TearAt
        <3> QED
            BY <1>3, <3>1, <3>2, <3>3, <3>4, <3>5, <3>6, <3>7 DEF Teardown
    <2>2. /\ DownKept(r) /\ down'[r].at = place
          /\ down'[r].b2 = d.b2 /\ down'[r].b3 = d.b3
          /\ down'[r].acceptance = d.acceptance /\ down'[r].evidence = d.evidence
        BY <2>1, TearFacts
    <2> QED
        BY <1>0, <2>1, <2>2
<1> QED
    BY <1>1, <1>2, <1>3 DEF Operate

(* What a listing accounted for stays so, whatever is made or deleted since. *)
LEMMA StillListed ==
    ASSUME NEW q \in Runs, TypeInv, WorldInv', Grows, DownInv(down[q], seen[q]), ListedInv(q),
           down'[q].at = "namespace" =>
               /\ down[q].at = "namespace"
               /\ down'[q].b2 = down[q].b2 /\ down'[q].b3 = down[q].b3
               /\ down'[q].acceptance = down[q].acceptance
               /\ down'[q].evidence = down[q].evidence
               /\ seen'[q].listed = seen[q].listed
    PROVE  ListedInv(q)'
<1> SUFFICES ASSUME down'[q].at = "namespace"
             PROVE  /\ ns' = 0 \/ ns' = down'[q].b2.ns \/ ns' > seen'[q].listed["namespace"]
                    /\ \A n \in Existing' : Accounted(q, n)' \/ live'[n] > seen'[q].listed[n]
    BY DEF ListedInv
<1> DEFINE l == seen[q].listed
<1>1. /\ down[q].at = "namespace" /\ down'[q].b2 = down[q].b2 /\ down'[q].b3 = down[q].b3
      /\ down'[q].acceptance = down[q].acceptance
      /\ down'[q].evidence = down[q].evidence /\ seen'[q].listed = l
    OBVIOUS
<1>2. /\ ns = 0 \/ ns = down[q].b2.ns \/ ns > l["namespace"]
      /\ \A n \in Existing : Accounted(q, n) \/ live[n] > l[n]
    BY <1>1 DEF ListedInv
<1>3. /\ \A n \in Names : l[n] \in Nat /\ l[n] <= made[n] /\ made[n] \in Nat
      /\ l["namespace"] \in Nat /\ l["namespace"] <= made["namespace"]
      /\ made["namespace"] \in Nat
    BY HeldFacts, MadeFacts DEF DownInv, TypeInv, Histories, Made
<1> HIDE DEF l
<1>4. ns' \in {0, ns} \/ ns' > made["namespace"]
    BY DEF Grows
<1>5. ns' = 0 \/ ns' = down[q].b2.ns \/ ns' > l["namespace"]
    <2>1. CASE ns' > made["namespace"]
        <3>1. ns' \in Nat
            BY DEF WorldInv, Made
        <3> QED
            BY <1>3, <2>1, <3>1
    <2> QED
        BY <1>2, <1>4, <2>1
<1>6. ASSUME NEW n \in Existing'
      PROVE  Accounted(q, n)' \/ live'[n] > l[n]
    <2>1. n \in Names /\ live'[n] > 0
        BY DEF Existing
    <2>2. CASE live'[n] > made[n]
        <3>1. live'[n] \in Nat
            BY <2>1 DEF WorldInv
        <3> QED
            BY <1>3, <2>1, <2>2, <3>1
    <2>3. CASE live'[n] = live[n]
        <3>1. n \in Existing
            BY <2>1, <2>3 DEF Existing
        <3>2. Accounted(q, n) => Accounted(q, n)'
            BY <1>1, <2>3 DEF Accounted, ExpectedJob
        <3> QED
            BY <1>2, <2>3, <3>1, <3>2
    <2> QED
        BY <2>1, <2>2, <2>3 DEF Grows
<1> QED
    BY <1>1, <1>5, <1>6

LEMMA NewlyListed ==
    ASSUME NEW r \in Runs, TypeInv, DownInv(down[r], seen[r]), ListProfile(r),
           InventoryIs(down[r].b2, down[r].b3, ExpectedJob(r)),
           down[r].at = "inventory",
           down'[r].b2 = down[r].b2, down'[r].b3 = down[r].b3,
           down'[r].acceptance = down[r].acceptance,
           down'[r].evidence = down[r].evidence
    PROVE  ListedInv(r)'
<1>1. UNCHANGED <<ns, live>>
    BY DEF ListProfile, world
<1>2. down[r].b2 \in Receipts(Serving) /\ down[r].b3 \in Receipts(Pipeline)
    BY DEF DownInv
<1>3. /\ ns = down[r].b2.ns
      /\ \A n \in Existing : Accounted(r, n)
    BY <1>2, InventoryAccounts DEF Accounted
<1> QED
    BY <1>1, <1>3 DEF ListedInv, Existing, Accounted, ExpectedJob

--------------------------------------------------------------------------------
(* The invariant. *)

(* What a step leaves of the run q, before the numbers that have grown are counted. *)
Good(q) == /\ RunInv(run'[q].at, file'[q], seen'[q])
           /\ AgeInv(file'[q]) /\ SeenInv(run'[q], seen'[q])

AcceptanceFrom(q) ==
    LET a == file'[q].acceptance IN
    \/ a \in {None, Torn} \cup {file[p].acceptance : p \in Runs}
    \/ /\ a.b2 = seen'[q].b2 /\ a.b3 = seen'[q].b3 /\ a.b2.ns = a.b3.ns
       /\ seen'[q].b2 # None /\ seen'[q].b3 # None

Step ==
    /\ WorldInv' /\ Grows /\ HeldInv'
    /\ \A q \in Runs : Good(q)
    /\ \A q \in Runs : RootKept(q)
    /\ \A q, p \in Runs : q # p => \/ seen'[q].root = seen[q].root
                                   \/ seen'[p].root = seen[p].root
    /\ \A q \in Runs : /\ seen'[q].b2 = seen[q].b2 \/ seen[q].b2 = None
                       /\ seen'[q].b3 = seen[q].b3 \/ seen[q].b3 = None
    /\ \A q \in Runs : AcceptanceFrom(q)
    /\ \A q \in Runs : DownInv(down'[q], seen'[q]) /\ ListedInv(q)'

LEMMA IsFine ==
    ASSUME IInv
    PROVE  TypeInv /\ \A q \in Runs : Fine(q) /\ DownInv(down[q], seen[q]) /\ ListedInv(q)
BY DEF IInv, Fine, RunInv

LEMMA QuietGood ==
    ASSUME NEW q \in Runs, TypeInv, \A p \in Runs : Fine(p),
           file' \in [Runs -> Files], seen' \in [Runs -> Histories],
           Untouched(q), Shuffled(q)
    PROVE  Good(q)
<1>1. RunInv(run'[q].at, file'[q], seen'[q])
    <2>1. /\ file[q].b2 # None => file'[q].b2 # None
          /\ file[q].b3 # None => file'[q].b3 # None
          /\ file[q].acceptance # None => file'[q].acceptance # None
        BY DEF Shuffled
    <2>2. /\ file[q] \in Files /\ file'[q] \in Files
          /\ seen[q] \in Histories /\ seen'[q] \in Histories /\ run[q].at \in Places
        BY HeldFacts
    <2> QED
        BY <2>1, <2>2, KeepsAt DEF Untouched, Fine
<1>2. AgeInv(file'[q])
    <2>1. \A p \in Runs : AgeInv(file[p])
        BY DEF Fine
    <2> QED
        BY <2>1, ReceiptFacts DEF Shuffled, AgeInv
<1>3. SeenInv(run'[q], seen'[q])
    BY DEF Untouched, Fine, SeenInv
<1> QED
    BY <1>1, <1>2, <1>3 DEF Good

LEMMA StillDown ==
    ASSUME NEW q \in Runs, DownInv(down[q], seen[q]), down'[q] = down[q],
           seen'[q].listed = seen[q].listed
    PROVE  DownInv(down'[q], seen'[q])
BY DEF DownInv

LEMMA CoordinateStep ==
    ASSUME IInv, NEW r \in Runs, Coordinate(r)
    PROVE  Step
<1>0. /\ TypeInv /\ \A q \in Runs : Fine(q) /\ DownInv(down[q], seen[q]) /\ ListedInv(q)
    BY IsFine
<1>1. WorldInv' /\ Grows
    BY <1>0, RunShape, ShapeKeeps DEF TypeInv
<1>2. Kept(r)
    BY <1>0, RunKept
<1>3. UNCHANGED down
    BY DEF Coordinate, Prepare, Serve, RunPipeline, Accept, JobGone, Fail, FailWriting, Die, Begin,
           CheckLocally, BuildApplicationImages, BuildPipelineImages, PrepareLocally,
           CreateProfile, FinalizeLock, JournalLock, Render, Refuse, Preflight, Check,
           ApplyNamespace, Apply, CollectServing, JournalServing, RenderPipeline,
           StartPipeline, Bootstrap, ApplyStep, StepCompleted, CollectPipeline, CloseExec,
           JournalPipeline, AcceptServing, AcceptPipeline, ApplyAcceptance, WriteAcceptance,
           Finish
<1>4. /\ run' \in [Runs -> Coordinators] /\ file' \in [Runs -> Files]
      /\ seen' \in [Runs -> Histories]
      /\ \A q \in Runs \ {r} : run'[q] = run[q] /\ file'[q] = file[q] /\ seen'[q] = seen[q]
    BY <1>2 DEF Kept, Alone
<1>5. HeldInv'
    BY <1>0, <1>3, <1>4 DEF TypeInv, HeldInv
<1>6. ASSUME NEW q \in Runs
      PROVE  /\ Good(q) /\ RootKept(q) /\ AcceptanceFrom(q)
             /\ seen'[q].b2 = seen[q].b2 \/ seen[q].b2 = None
             /\ seen'[q].b3 = seen[q].b3 \/ seen[q].b3 = None
             /\ seen'[q].listed = seen[q].listed
    <2>1. CASE q = r
        BY <1>2, <2>1 DEF Kept, Good, AcceptedKept, AcceptanceFrom
    <2>2. CASE q # r
        <3>1. run'[q] = run[q] /\ file'[q] = file[q] /\ seen'[q] = seen[q]
            BY <1>4, <2>2
        <3>2. Good(q)
            BY <1>0, <3>1 DEF Good, Fine
        <3> QED
            BY <3>1, <3>2 DEF RootKept, AcceptanceFrom
    <2> QED
        BY <2>1, <2>2
<1>7. \A q, p \in Runs : q # p => \/ seen'[q].root = seen[q].root
                                  \/ seen'[p].root = seen[p].root
    BY <1>4
<1>8. ASSUME NEW q \in Runs
      PROVE  DownInv(down'[q], seen'[q]) /\ ListedInv(q)'
    BY <1>0, <1>1, <1>3, <1>6, StillDown, StillListed
<1> QED
    BY <1>1, <1>5, <1>6, <1>7, <1>8 DEF Step

LEMMA OperateStep ==
    ASSUME IInv, NEW r \in Runs, Operate(r)
    PROVE  Step
<1>0. /\ TypeInv /\ \A q \in Runs : Fine(q) /\ DownInv(down[q], seen[q]) /\ ListedInv(q)
    BY IsFine
<1>1. WorldInv' /\ Grows
    BY <1>0, OperateShape, ShapeKeeps DEF TypeInv
<1>2. /\ UNCHANGED run /\ file' \in [Runs -> Files]
      /\ \A q \in Runs : SameBut(file[q], file'[q], {"evidence", "pointer", "ended"})
    BY <1>0, OperateFiles
<1>3. /\ seen' \in [Runs -> Histories]
      /\ \A q \in Runs : /\ seen'[q].root = seen[q].root /\ seen'[q].b2 = seen[q].b2
                         /\ seen'[q].b3 = seen[q].b3
                         /\ q # r \/ ~ListProfile(r) => seen'[q].listed = seen[q].listed
                         /\ ListProfile(r) => seen'[r].listed \in {made, seen[r].listed}
    BY <1>0, OperateSeen, HeldFacts
<1>4. /\ DownKept(r)
      /\ down'[r].at # "idle" =>
             down'[r].b2 \in Receipts(Serving) /\ down'[r].b3 \in Receipts(Pipeline)
      /\ down'[r].at = "namespace" =>
             /\ down'[r].b2 = down[r].b2 /\ down'[r].b3 = down[r].b3
             /\ down'[r].acceptance = down[r].acceptance
             /\ down'[r].evidence = down[r].evidence
             /\ \/ down[r].at = "namespace" /\ ~ListProfile(r)
                \/ /\ ListProfile(r)
                   /\ InventoryIs(down[r].b2, down[r].b3, ExpectedJob(r))
                   /\ down[r].at = "inventory"
    BY <1>0, OperateDown
<1>5. HeldInv'
    BY <1>0, <1>2, <1>3, <1>4 DEF TypeInv, HeldInv, DownKept
<1>6. ASSUME NEW q \in Runs
      PROVE  Good(q) /\ RootKept(q) /\ AcceptanceFrom(q)
    <2>1. /\ file'[q].journal = file[q].journal /\ file'[q].session = file[q].session
          /\ file'[q].exec = file[q].exec /\ file'[q].b2 = file[q].b2
          /\ file'[q].b3 = file[q].b3 /\ file'[q].acceptance = file[q].acceptance
        <3>1. SameBut(file[q], file'[q], {"evidence", "pointer", "ended"})
            BY <1>2
        <3> QED
            BY <3>1 DEF SameBut
    <2>2. Untouched(q) /\ Shuffled(q)
        BY <1>2, <1>3, <2>1 DEF Untouched, Shuffled
    <2>3. Good(q)
        BY <1>0, <1>2, <1>3, <2>2, QuietGood
    <2> QED
        BY <1>3, <2>1, <2>3 DEF RootKept, AcceptanceFrom
<1>7. ASSUME NEW q \in Runs
      PROVE  DownInv(down'[q], seen'[q]) /\ ListedInv(q)'
    <2>1. CASE q # r
        <3>1. down'[q] = down[q] /\ seen'[q].listed = seen[q].listed
            BY <1>3, <1>4, <2>1 DEF DownKept
        <3> QED
            BY <1>0, <1>1, <3>1, StillDown, StillListed
    <2>2. CASE q = r
        <3>1. \A n \in Names \cup {"namespace"} : seen'[r].listed[n] <= made[n]
            <4>1. seen'[r].listed \in {made, seen[r].listed}
                BY <1>3
            <4>2. \A n \in Names \cup {"namespace"} : made[n] <= made[n]
                BY <1>0, MadeFacts DEF TypeInv
            <4> QED
                BY <1>0, <4>1, <4>2 DEF DownInv
        <3>2. DownInv(down'[r], seen'[r])
            BY <1>4, <3>1 DEF DownInv
        <3>3. ListedInv(r)'
            <4>1. CASE down'[r].at = "namespace" /\ ListProfile(r)
                BY <1>0, <1>4, <4>1, NewlyListed
            <4>2. CASE ~(down'[r].at = "namespace" /\ ListProfile(r))
                <5>1. down'[r].at = "namespace" =>
                          /\ down[r].at = "namespace"
                          /\ down'[r].b2 = down[r].b2 /\ down'[r].b3 = down[r].b3
                          /\ down'[r].acceptance = down[r].acceptance
                          /\ down'[r].evidence = down[r].evidence
                          /\ seen'[r].listed = seen[r].listed
                    BY <1>3, <1>4, <4>2
                <5> QED
                    BY <1>0, <1>1, <5>1, StillListed
            <4> QED
                BY <4>1, <4>2
        <3> QED
            BY <2>2, <3>2, <3>3
    <2> QED
        BY <2>1, <2>2
<1> QED
    BY <1>1, <1>3, <1>5, <1>6, <1>7 DEF Step

LEMMA TamperFiles ==
    ASSUME TypeInv, NEW r \in Runs, NEW field \in {"b2", "b3", "acceptance", "evidence"},
           Tamper(r, field)
    PROVE  /\ file' \in [Runs -> Files]
           /\ \A q \in Runs : /\ file'[q].journal = file[q].journal
                              /\ file'[q].session = file[q].session
                              /\ file'[q].exec = file[q].exec /\ Shuffled(q)
<1>0. \A q \in Runs : file[q] \in Files /\ Torn \in ServingFile /\ Torn \in PipelineFile
                      /\ Torn \in AcceptanceFile /\ Torn \in EvidenceFile
    BY HeldFacts DEF ServingFile, PipelineFile, AcceptanceFile, EvidenceFile
<1>1. CASE field = "b2"
    <2>1. PICK x \in ({Torn} \cup {file[q].b2 : q \in Runs}) \ {None} : Put(r, "b2", x)
        BY <1>1 DEF Tamper
    <2>2. x \in ServingFile
        BY <1>0, <2>1, FileFields
    <2>3. [file[r] EXCEPT !["b2"] = x] \in Files
        BY <1>0, <2>2, PutIn
    <2>4. /\ file' \in [Runs -> Files] /\ SameBut(file[r], file'[r], {"b2"})
          /\ file'[r]["b2"] = x /\ \A q \in Runs \ {r} : file'[q] = file[q]
        BY <2>1, <2>3, PutFacts, HeldFacts
    <2> QED
        BY <2>1, <2>4 DEF SameBut, Shuffled
<1>2. CASE field = "b3"
    <2>1. PICK x \in ({Torn} \cup {file[q].b3 : q \in Runs}) \ {None} : Put(r, "b3", x)
        BY <1>2 DEF Tamper
    <2>2. x \in PipelineFile
        BY <1>0, <2>1, FileFields
    <2>3. [file[r] EXCEPT !["b3"] = x] \in Files
        BY <1>0, <2>2, PutIn
    <2>4. /\ file' \in [Runs -> Files] /\ SameBut(file[r], file'[r], {"b3"})
          /\ file'[r]["b3"] = x /\ \A q \in Runs \ {r} : file'[q] = file[q]
        BY <2>1, <2>3, PutFacts, HeldFacts
    <2> QED
        BY <2>1, <2>4 DEF SameBut, Shuffled
<1>3. CASE field = "acceptance"
    <2>1. PICK x \in ({Torn} \cup {file[q].acceptance : q \in Runs}) \ {None} :
              Put(r, "acceptance", x)
        BY <1>3 DEF Tamper
    <2>2. x \in AcceptanceFile
        BY <1>0, <2>1, FileFields
    <2>3. [file[r] EXCEPT !["acceptance"] = x] \in Files
        BY <1>0, <2>2, PutIn
    <2>4. /\ file' \in [Runs -> Files] /\ SameBut(file[r], file'[r], {"acceptance"})
          /\ file'[r]["acceptance"] = x /\ \A q \in Runs \ {r} : file'[q] = file[q]
        BY <2>1, <2>3, PutFacts, HeldFacts
    <2> QED
        BY <2>1, <2>4 DEF SameBut, Shuffled
<1>4. CASE field = "evidence"
    <2>1. PICK x \in ({Torn} \cup {file[q].evidence : q \in Runs}) \ {None} :
              Put(r, "evidence", x)
        BY <1>4 DEF Tamper
    <2>2. x \in EvidenceFile
        BY <1>0, <2>1, FileFields
    <2>3. [file[r] EXCEPT !["evidence"] = x] \in Files
        BY <1>0, <2>2, PutIn
    <2>4. /\ file' \in [Runs -> Files] /\ SameBut(file[r], file'[r], {"evidence"})
          /\ \A q \in Runs \ {r} : file'[q] = file[q]
        BY <2>1, <2>3, PutFacts, HeldFacts
    <2> QED
        BY <2>1, <2>4 DEF SameBut, Shuffled
<1> QED
    BY <1>1, <1>2, <1>3, <1>4

(* Stuttering steps too. *)
LEMMA OthersStep ==
    ASSUME IInv, World \/ UNCHANGED vars
    PROVE  Step
<1>0. /\ TypeInv /\ \A q \in Runs : Fine(q) /\ DownInv(down[q], seen[q]) /\ ListedInv(q)
    BY IsFine
<1>1. WorldInv' /\ Grows
    <2>1. WorldShape
        BY <1>0, OthersShape DEF vars, world, Still, WorldShape
    <2> QED
        BY <1>0, <2>1, ShapeKeeps DEF TypeInv
<1>2. UNCHANGED <<run, down, seen>>
    BY DEF World, CompleteStep, CompleteAcceptance, Complete, Replace, Intrude, Tamper, vars
<1>3. /\ file' \in [Runs -> Files]
      /\ \A q \in Runs : /\ file'[q].journal = file[q].journal
                         /\ file'[q].session = file[q].session
                         /\ file'[q].exec = file[q].exec /\ Shuffled(q)
    <2>1. CASE UNCHANGED file
        BY <1>0, <2>1, HeldFacts DEF Shuffled, TypeInv, HeldInv
    <2>2. CASE \E r \in Runs : \E field \in {"b2", "b3", "acceptance", "evidence"} :
                   Tamper(r, field)
        BY <1>0, <2>2, TamperFiles
    <2> QED
        BY <2>1, <2>2 DEF World, CompleteStep, CompleteAcceptance, Complete, Replace, Intrude,
                          vars
<1>4. HeldInv' /\ seen' \in [Runs -> Histories]
    BY <1>0, <1>2, <1>3 DEF TypeInv, HeldInv
<1>5. ASSUME NEW q \in Runs
      PROVE  Good(q) /\ RootKept(q) /\ AcceptanceFrom(q)
    <2>1. Untouched(q) /\ Shuffled(q)
        BY <1>2, <1>3 DEF Untouched
    <2>2. Good(q)
        BY <1>0, <1>3, <1>4, <2>1, QuietGood
    <2> QED
        BY <1>2, <1>3, <2>2 DEF RootKept, AcceptanceFrom, Shuffled
<1>6. ASSUME NEW q \in Runs
      PROVE  DownInv(down'[q], seen'[q]) /\ ListedInv(q)'
    BY <1>0, <1>1, <1>2, StillDown, StillListed
<1> QED
    BY <1>1, <1>2, <1>4, <1>5, <1>6 DEF Step

(* The numbers have grown: what was no newer than them still is not. *)
LEMMA GoodLater ==
    ASSUME WorldInv, Step, NEW q \in Runs
    PROVE  Fine(q)' /\ DownInv(down[q], seen[q])' /\ ListedInv(q)'
<1>1. /\ \A n \in Counted : made[n] <= made'[n] /\ made[n] \in Nat /\ made'[n] \in Nat
      /\ "namespace" \in Counted /\ Names \subseteq Counted
    BY DEF Step, Grows, WorldInv, Made, Counted
<1>2. /\ Good(q) /\ DownInv(down'[q], seen'[q]) /\ ListedInv(q)' /\ HeldInv'
    BY DEF Step
<1>3. /\ file'[q] \in Files /\ seen'[q] \in Histories /\ run'[q] \in Coordinators
    BY <1>2 DEF HeldInv
<1>4. AgeInv(file[q])'
    <2>1. file'[q].b2 \in Receipts(Serving) => file'[q].b2.ns \in Nat
        BY DEF Receipts
    <2>2. file'[q].b3 \in Receipts(Pipeline) => file'[q].b3.ns \in Nat
        BY DEF Receipts
    <2> QED
        BY <1>1, <1>2, <2>1, <2>2 DEF Good, AgeInv
<1>5. SeenInv(run[q], seen[q])'
    <2>1. run'[q].b2 \in Receipts(Serving) => run'[q].b2.ns \in Nat
        BY DEF Receipts
    <2>2. run'[q].b2 \in Receipts(Serving) /\ run'[q].b2.ns <= made["namespace"]
              => run'[q].b2.ns <= made'["namespace"]
        BY <1>1, <2>1
    <2> QED
        BY <1>2, <2>2 DEF Good, SeenInv
<1>6. RunInv(run[q].at, file[q], seen[q])'
    BY <1>2 DEF Good, RunInv, JournalInv, ClaimsInv, ExecInv
<1>7. DownInv(down[q], seen[q])'
    <2>1. \A n \in Names \cup {"namespace"} : seen'[q].listed[n] \in Nat
        BY <1>3 DEF Histories, Made
    <2>2. \A n \in Names \cup {"namespace"} : seen'[q].listed[n] <= made[n] /\ n \in Counted
        BY <1>1, <1>2 DEF DownInv
    <2>3. \A n \in Names \cup {"namespace"} : seen'[q].listed[n] <= made'[n]
        BY <1>1, <2>1, <2>2
    <2> QED
        BY <1>2, <2>3 DEF DownInv
<1> QED
    BY <1>2, <1>4, <1>5, <1>6, <1>7 DEF Fine

LEMMA RootLater ==
    ASSUME IInv, Step
    PROVE  RootInv'
<1>0. TypeInv /\ WorldInv /\ WorldInv' /\ RootInv /\ Grows
    BY DEF IInv, TypeInv, Step
<1>1. /\ made["namespace"] \in Nat /\ made'["namespace"] \in Nat
      /\ made["namespace"] <= made'["namespace"] /\ ns \in Nat /\ ns' \in Nat
      /\ ns <= made["namespace"]
    BY <1>0, ReceiptFacts DEF WorldInv, Made, Grows, Counted
<1>2. \A q \in Runs : /\ seen[q].root \in Nat /\ seen'[q].root \in Nat
                      /\ seen[q].root <= made["namespace"] /\ RootKept(q)
    BY <1>0 DEF RootInv, Step, TypeInv, HeldInv, Histories
<1>3. ASSUME NEW q \in Runs
      PROVE  seen'[q].root <= made'["namespace"]
    BY <1>1, <1>2 DEF RootKept
<1>4. ASSUME NEW q \in Runs, ns' > 0, ns' = seen'[q].root
      PROVE  Range(file'[q].exec.completed) \cup {"platform"} \subseteq done'
    <2>1. CASE /\ seen'[q].root = seen[q].root
               /\ Range(file'[q].exec.completed) \subseteq
                      Range(file[q].exec.completed) \cup done
        <3>1. ns' = ns /\ done \subseteq done'
            BY <1>0, <1>1, <1>2, <1>4, <2>1 DEF Grows
        <3>2. Range(file[q].exec.completed) \cup {"platform"} \subseteq done
            BY <1>0, <1>4, <2>1, <3>1 DEF RootInv
        <3> QED
            BY <2>1, <3>1, <3>2
    <2>2. CASE /\ done' = done \cup {"platform"}
               /\ Range(file'[q].exec.completed) = {"platform"}
        BY <2>2
    <2> QED
        BY <1>2, <2>1, <2>2 DEF RootKept
<1>5. ASSUME NEW q \in Runs, NEW p \in Runs, q # p, seen'[q].root > 0
      PROVE  seen'[q].root # seen'[p].root
    <2>1. ASSUME NEW x \in Runs, NEW y \in Runs, seen'[x].root # seen[x].root,
                 seen'[y].root = seen[y].root
          PROVE  seen'[x].root # seen'[y].root
        <3>1. ns > 0 /\ seen'[x].root = ns /\ "platform" \notin done
            BY <1>2, <2>1 DEF RootKept
        <3>2. ns = seen[y].root => "platform" \in done
            BY <1>0, <3>1 DEF RootInv
        <3> QED
            BY <2>1, <3>1, <3>2
    <2>2. \/ seen'[q].root = seen[q].root
          \/ seen'[p].root = seen[p].root
        BY <1>5 DEF Step
    <2>3. CASE seen'[q].root = seen[q].root /\ seen'[p].root = seen[p].root
        BY <1>0, <1>5, <2>3 DEF RootInv, PipelineRunsOnce
    <2> QED
        BY <2>1, <2>2, <2>3
<1> QED
    BY <1>3, <1>4, <1>5 DEF RootInv, PipelineRunsOnce

LEMMA AcceptanceLater ==
    ASSUME IInv, Step
    PROVE  AcceptanceInv'
<1>1. \A q \in Runs : /\ seen'[q].b2 = seen[q].b2 \/ seen[q].b2 = None
                      /\ seen'[q].b3 = seen[q].b3 \/ seen[q].b3 = None
                      /\ AcceptanceFrom(q)
    BY DEF Step
<1>2. ASSUME NEW r \in Runs, Document(file'[r].acceptance)
      PROVE  \E q \in Runs : AcceptedIn(q, file[r].acceptance)'
    <2>1. CASE \E p \in Runs : file'[r].acceptance = file[p].acceptance
        <3>1. PICK p \in Runs : file'[r].acceptance = file[p].acceptance
            BY <2>1
        <3>2. PICK q \in Runs : AcceptedIn(q, file[p].acceptance)
            BY <1>2, <3>1 DEF IInv, AcceptanceInv, Document
        <3> QED
            BY <1>1, <3>1, <3>2 DEF AcceptedIn
    <2>2. CASE ~\E p \in Runs : file'[r].acceptance = file[p].acceptance
        <3>1. AcceptedIn(r, file[r].acceptance)'
            BY <1>1, <1>2, <2>2 DEF AcceptanceFrom, Document, AcceptedIn
        <3> QED
            BY <3>1
    <2> QED
        BY <2>1, <2>2
<1> QED
    BY <1>2 DEF AcceptanceInv, Document

LEMMA StepKeeps ==
    ASSUME IInv, Step
    PROVE  IInv'
<1>1. WorldInv' /\ HeldInv' /\ RootInv' /\ AcceptanceInv'
    BY RootLater, AcceptanceLater DEF Step
<1>2. ASSUME NEW q \in Runs
      PROVE  /\ JournalInv(run[q].at, file[q])' /\ ClaimsInv(run[q].at, file[q])'
             /\ ExecInv(run[q].at, file[q], seen[q])'
             /\ AgeInv(file[q])' /\ SeenInv(run[q], seen[q])'
             /\ DownInv(down[q], seen[q])' /\ ListedInv(q)'
    BY GoodLater DEF IInv, TypeInv, Fine, RunInv
<1> QED
    BY <1>1, <1>2 DEF IInv, TypeInv

LEMMA Inductive ==
    ASSUME IInv, [Next]_vars
    PROVE  IInv'
<1>1. CASE World \/ UNCHANGED vars
    BY <1>1, OthersStep, StepKeeps
<1>2. CASE \E r \in Runs : Coordinate(r)
    BY <1>2, CoordinateStep, StepKeeps
<1>3. CASE \E r \in Operated : Operate(r)
    BY <1>3, OperateStep, StepKeeps, DemoConstants
<1> QED
    BY <1>1, <1>2, <1>3 DEF Next

LEMMA Initially ==
    ASSUME Init
    PROVE  IInv
<1>1. WorldInv
    BY NamesFacts DEF Init, WorldInv, Made
<1>2. /\ NoSession \in Sessions /\ NoExec \in Execs /\ NoJournal \in Journals
      /\ NoSession.completed = <<>> /\ NoExec.completed = <<>>
      /\ NoSession.status = "none" /\ NoSession.stage = "none"
    <2>1. <<>> \in Seq(Stages) /\ <<>> \in Seq(Jobs \cup {"platform"})
        OBVIOUS
    <2> QED
        BY <2>1 DEF NoSession, NoExec, NoJournal, Sessions, Execs, Journals
<1>3. NoFiles \in Files
    BY <1>2 DEF NoFiles, Files, ServingFile, PipelineFile, AcceptanceFile, EvidenceFile,
                Artifacts
<1>4. HeldInv
    <2>1. \A r \in Runs : run[r] \in Coordinators
        BY DEF Init, Coordinators, Places, ServingFile, PipelineFile
    <2>2. run \in [Runs -> Coordinators]
        BY <2>1 DEF Init
    <2>3. file \in [Runs -> Files]
        BY <1>3 DEF Init
    <2>4. \A r \in Runs : down[r] \in Teardowns
        BY DEF Init, Teardowns, ServingFile, PipelineFile, AcceptanceFile, EvidenceFile
    <2>5. down \in [Runs -> Teardowns]
        BY <2>4 DEF Init
    <2>6. made \in Made
        BY <1>1 DEF WorldInv
    <2>7. \A r \in Runs : seen[r] \in Histories
        BY <2>6 DEF Init, Histories
    <2>8. seen \in [Runs -> Histories]
        BY <2>7 DEF Init
    <2> QED
        BY <2>2, <2>3, <2>5, <2>8 DEF HeldInv
<1>5. \A r \in Runs : /\ run[r].at = "idle" /\ file[r] = NoFiles /\ down[r].at = "idle"
                      /\ seen[r].b2 = None /\ seen[r].b3 = None /\ seen[r].root = 0
                      /\ seen[r].listed = made
    BY DEF Init
<1>6. /\ NoFiles.session = NoSession /\ NoFiles.exec = NoExec /\ NoFiles.b2 = None
      /\ NoFiles.b3 = None /\ NoFiles.acceptance = None /\ NoFiles.journal = NoJournal
    BY DEF NoFiles
<1>7. RootInv
    BY <1>5 DEF RootInv, PipelineRunsOnce, Init
<1>8. AcceptanceInv
    BY <1>5, <1>6 DEF AcceptanceInv, Document
<1>9. ASSUME NEW r \in Runs
      PROVE  /\ JournalInv(run[r].at, file[r]) /\ ClaimsInv(run[r].at, file[r])
             /\ ExecInv(run[r].at, file[r], seen[r])
    <2>1. JournalInv("idle", NoFiles)
        BY <1>2, <1>6, EmptyFollows
           DEF JournalInv, Early, Deploying, Piping, Stepping, Stepped, Accepting
    <2>2. ClaimsInv("idle", NoFiles)
        BY <1>2, <1>6, EmptyFollows DEF ClaimsInv
    <2>3. ExecInv("idle", NoFiles, seen[r])
        <3>1. InOrder(<<>>)
            BY StepsFacts DEF InOrder
        <3> QED
            BY <1>2, <1>5, <1>6, <3>1
               DEF ExecInv, BeforeRoot, Early, Deploying, Stepping, Stepped
    <2> QED
        BY <1>5, <2>1, <2>2, <2>3
<1>10. ASSUME NEW r \in Runs
       PROVE  AgeInv(file[r]) /\ SeenInv(run[r], seen[r])
    BY <1>5, <1>6, FileConstants DEF AgeInv, SeenInv, BeforeAccept, BeforeRoot, Early, Compared
<1>11. ASSUME NEW r \in Runs
       PROVE  DownInv(down[r], seen[r]) /\ ListedInv(r)
    <2>1. \A n \in Names \cup {"namespace"} : made[n] <= made[n]
        BY <1>1, MadeFacts
    <2> QED
        BY <1>5, <2>1 DEF DownInv, ListedInv
<1> QED
    BY <1>1, <1>4, <1>7, <1>8, <1>9, <1>10, <1>11 DEF IInv, TypeInv

LEMMA Holds == Spec => []IInv
<1>1. Init => IInv
    BY Initially
<1>2. IInv /\ [Next]_vars => IInv'
    BY Inductive
<1> QED
    BY <1>1, <1>2, PTL DEF Spec

--------------------------------------------------------------------------------
(* Theorems. *)

(* Every variable has its type, whatever dies, fails, is replaced or overwritten:    *)
(* the live objects are those once created, and no file holds anything but a         *)
(* receipt, a torn one or nothing (demo.py, serving.py, pipeline.py, acceptance.py,   *)
(* teardown.py).                                                             *)
THEOREM TypeCorrect == Spec => []TypeOK
<1>1. ASSUME IInv PROVE TypeOK
    <2>1. /\ {cluster, ns} \subseteq Nat /\ live \in [Names -> Nat] /\ done \subseteq Names
          /\ made \in [Names \cup {"profile", "namespace"} -> Nat]
          /\ \A n \in Names : live[n] <= made[n]
        BY <1>1, MadeFacts DEF IInv, TypeInv, WorldInv, Made
    <2>2. run \in [Runs -> [at : Places, cluster : Nat, b2 : ServingFile,
                            b3 : PipelineFile]]
        BY <1>1 DEF IInv, TypeInv, HeldInv, Coordinators
    <2>3. ASSUME NEW r \in Runs
          PROVE  /\ file[r].b2 \in ServingFile /\ file[r].b3 \in PipelineFile
                 /\ file[r].acceptance \in AcceptanceFile
                 /\ {file[r].evidence, file[r].pointer} \subseteq EvidenceFile
                 /\ {file[r].prepared, file[r].lock} \subseteq Nat
                 /\ file[r].ended \in {"none", "partial_failure", "deleted"}
        <3>1. file[r] \in Files
            BY <1>1 DEF IInv, TypeInv, HeldInv
        <3> QED
            BY <3>1, FileFields
    <2> QED
        BY <2>1, <2>2, <2>3 DEF TypeOK
<1> QED
    BY <1>1, Holds, PTL

LEMMA FollowsIsPrefix ==
    ASSUME NEW s \in Seq(Stages), NEW t \in Seq(Stages), Follows(s, t)
    PROVE  IsPrefix(s, t)
<1>1. Len(s) \in Nat /\ Len(t) \in Nat /\ Len(s) <= Len(t)
    BY DEF Follows
<1>2. /\ SubSeq(s, 1, Len(s)) \in Seq(Stages) /\ SubSeq(t, 1, Len(s)) \in Seq(Stages)
      /\ Len(SubSeq(s, 1, Len(s))) = Len(s) /\ Len(SubSeq(t, 1, Len(s))) = Len(s)
      /\ \A i \in 1..Len(s) : /\ SubSeq(s, 1, Len(s))[i] = s[i]
                              /\ SubSeq(t, 1, Len(s))[i] = t[i]
    BY <1>1
<1>3. \A i \in 1..Len(s) : s[i] = t[i]
    BY DEF Follows
<1>4. SubSeq(s, 1, Len(s)) = SubSeq(t, 1, Len(s))
    BY <1>2, <1>3, SameSeq
<1> QED
    BY <1>1, <1>4 DEF IsPrefix

(* A journal claims a stage only after what the stage leaves behind is there, and    *)
(* the steps an execution receipt lists are complete in the namespace they were run   *)
(* in, for any number of runs that share a profile (demo.py run_demo, pipeline.py     *)
(* execute_pipeline).                                                        *)
THEOREM JournalIsTruthful == Spec => []JournalTruthful
<1>1. ASSUME IInv PROVE JournalTruthful
    <2> SUFFICES ASSUME NEW r \in Runs
                 PROVE  LET f == file[r]
                            claimed == Range(f.session.completed)
                            ran == Range(f.exec.completed) IN
                        /\ \/ IsPrefix(f.session.completed, RunStages)
                           \/ IsPrefix(f.session.completed, PrepStages \o RunStages)
                        /\ "serving" \in claimed => f.b2 # None
                        /\ "pipeline" \in claimed => /\ f.exec.status = "completed"
                                                     /\ f.b3 # None
                                                     /\ ran = Jobs \cup {"platform"}
                        /\ "acceptance" \in claimed => f.acceptance # None
                        /\ f.session.status = "runtime_pass" => "acceptance" \in claimed
                        /\ ns > 0 /\ ns = seen[r].root => ran \subseteq done
        BY DEF JournalTruthful
    <2> DEFINE f == file[r]
               c == f.session.completed
    <2>1. /\ c \in Seq(Stages) /\ Ordered(c) /\ ClaimsInv(run[r].at, f) /\ RootInv
        BY <1>1, JournalFields, HeldFacts DEF IInv, JournalInv
    <2>2. \/ IsPrefix(c, RunStages)
          \/ IsPrefix(c, PrepStages \o RunStages)
        <3>1. AllStages \in Seq(Stages)
            BY StagesFacts DEF AllStages
        <3> QED
            BY <2>1, <3>1, StagesFacts, FollowsIsPrefix DEF Ordered, AllStages
    <2>3. /\ "serving" \in Range(c) => f.b2 # None
          /\ "pipeline" \in Range(c) => PipelineDone(f)
          /\ "acceptance" \in Range(c) => f.acceptance # None
          /\ f.session.status = "runtime_pass" => "acceptance" \in Range(c)
        BY <2>1 DEF ClaimsInv
    <2>4. ns > 0 /\ ns = seen[r].root => Range(f.exec.completed) \subseteq done
        BY <2>1 DEF RootInv
    <2> QED
        BY <2>2, <2>3, <2>4 DEF PipelineDone
<1> QED
    BY <1>1, Holds, PTL

(* What verify accepts offline was live when a run was accepted, in one and the same  *)
(* namespace, however many receipts were overwritten (demo.py verify_run,             *)
(* acceptance.py run_acceptance).                                             *)
THEOREM VerifiedIsLive == Spec => []VerifiedWasLive
<1>1. ASSUME IInv PROVE VerifiedWasLive
    <2> SUFFICES ASSUME NEW r \in Runs, VerifyAccepts(r)
                 PROVE  \E q \in Runs : /\ file[r].b2 = seen[q].b2
                                        /\ file[r].b3 = seen[q].b3
                                        /\ file[r].b2.ns = file[r].b3.ns
        BY DEF VerifiedWasLive
    <2>1. /\ Document(file[r].acceptance)
          /\ file[r].acceptance.b2 = file[r].b2 /\ file[r].acceptance.b3 = file[r].b3
        BY DEF VerifyAccepts, Bound
    <2>2. PICK q \in Runs : AcceptedIn(q, file[r].acceptance)
        BY <1>1, <2>1 DEF IInv, AcceptanceInv
    <2> QED
        BY <2>1, <2>2 DEF AcceptedIn
<1> QED
    BY <1>1, Holds, PTL

(* No two runs that share a profile execute the pipeline in one namespace             *)
(* (hdfs_lifecycle.py bootstrap_hdfs).                                         *)
THEOREM OneRootEach == Spec => []PipelineRunsOnce
<1>1. IInv => PipelineRunsOnce
    BY DEF IInv, RootInv
<1> QED
    BY <1>1, Holds, PTL

(* What teardown deletes with the namespace was one of the run's receipts at its last  *)
(* listing, or created since (teardown.py teardown_run).                          *)
THEOREM OnlyOwnDeleted == Spec => DeletesOnlyOwn
<1>1. ASSUME IInv, NEW r \in Runs, Deleting(r)
      PROVE  /\ ns = down[r].b2.ns \/ ns > seen[r].listed["namespace"]
             /\ \A n \in Existing : Accounted(r, n) \/ live[n] > seen[r].listed[n]
    <2>1. down[r].at = "namespace" /\ ns > 0 /\ ListedInv(r)
        BY <1>1 DEF Deleting, TearAt, IInv
    <2> QED
        BY <2>1 DEF ListedInv
<1>2. IInv => \A r \in Runs : Deleting(r) =>
                  /\ ns = down[r].b2.ns \/ ns > seen[r].listed["namespace"]
                  /\ \A n \in Existing : Accounted(r, n) \/ live[n] > seen[r].listed[n]
    BY <1>1
<1> QED
    BY <1>2, Holds, PTL DEF DeletesOnlyOwn

(* The only step that creates a Job of the pipeline. *)
LEMMA JobCreated ==
    ASSUME IInv, [Next]_vars, NEW n \in Jobs, live[n] = 0, live'[n] > 0
    PROVE  \E r \in Runs : ApplyStep(r) /\ n = NextStep(r)
<1>0. /\ TypeInv /\ \A q \in Runs : Fine(q)
      /\ n \in Names /\ n \notin Serving /\ n \notin Platform /\ n # Acceptance
      /\ n \notin Strays /\ live'[n] # live[n]
    BY IsFine, NamesFacts, DemoConstants DEF Pipeline
<1>1. ASSUME NEW S, Create(S), n \notin S
      PROVE  FALSE
    BY <1>0, <1>1 DEF Create
<1>2. CASE World \/ UNCHANGED vars
    <2>1. UNCHANGED live => FALSE
        BY <1>0
    <2>2. CASE \E m \in {"serving-pod", "platform-pod"} : Replace(m)
        <3>1. PICK m \in {"serving-pod", "platform-pod"} : Replace(m)
            BY <2>2
        <3>2. m # n
            BY <1>0 DEF Serving, Platform
        <3> QED
            BY <1>0, <3>1, <3>2 DEF Replace, TypeInv, WorldInv
    <2>3. CASE \E m \in Strays : Intrude(m)
        <3>1. PICK m \in Strays : Intrude(m)
            BY <2>3
        <3> QED
            BY <1>0, <1>1, <3>1 DEF Intrude
    <2> QED
        BY <1>2, <2>1, <2>2, <2>3 DEF World, CompleteStep, CompleteAcceptance, Complete, Tamper,
                                      world, vars
<1>3. ASSUME NEW r \in Operated, Operate(r)
      PROVE  FALSE
    <2>1. CASE Emptied
        <3>1. live'[n] = 0
            BY <1>0, <2>1 DEF Emptied
        <3> QED
            BY <3>1
    <2> QED
        BY <1>0, <1>3, <2>1 DEF Operate, Collect, Point, Teardown, ReadEvidence, Look,
                ListProfile, DeleteNamespace, DeleteProfile, ReportDeleted, DropTeardown, world
<1>4. ASSUME NEW r \in Runs, Coordinate(r)
      PROVE  ApplyStep(r) /\ n = NextStep(r)
    <2>1. CASE Prepare(r)
        BY <1>0, <2>1 DEF Prepare, Begin, CheckLocally, BuildApplicationImages, PrepareLocally,
                          BuildPipelineImages, FinalizeLock, JournalLock, Render, Refuse,
                          CreateProfile, world
    <2>2. CASE Serve(r)
        <3>1. CASE \/ Apply(r, "secrets", {"secrets"}, "manifests")
                   \/ Apply(r, "manifests", {"serving", "serving-pod"}, "collectB2")
            BY <1>0, <1>1, <3>1 DEF Apply, Serving
        <3> QED
            BY <1>0, <2>2, <3>1 DEF Serve, Preflight, Check, CollectServing, JournalServing,
                                    ApplyNamespace, Refuse, world
    <2>3. CASE RunPipeline(r)
        <3>1. CASE Apply(r, "platform", Platform, "awaitPlatform")
            BY <1>0, <1>1, <3>1 DEF Apply
        <3>2. CASE ApplyStep(r)
            <4>1. Create({NextStep(r)})
                BY <3>2 DEF ApplyStep, Apply
            <4>2. n = NextStep(r)
                BY <1>1, <4>1
            <4> QED
                BY <3>2, <4>2
        <3> QED
            BY <1>0, <2>3, <3>1, <3>2 DEF RunPipeline, RenderPipeline, StartPipeline, Check,
                          Bootstrap, StepCompleted, CollectPipeline, CloseExec,
                          JournalPipeline, Refuse, world
    <2>4. CASE Accept(r)
        <3>1. CASE ApplyAcceptance(r)
            BY <1>0, <1>1, <3>1 DEF ApplyAcceptance, Apply
        <3> QED
            BY <1>0, <2>4, <3>1 DEF Accept, AcceptServing, AcceptPipeline, Check,
                                    WriteAcceptance, Finish, Refuse, world
    <2>5. CASE JobGone(r) \/ Fail(r) \/ FailWriting(r) \/ Die(r)
        BY <1>0, <2>5 DEF JobGone, Fail, FailWriting, Die, Refuse, world
    <2> QED
        BY <1>4, <2>1, <2>2, <2>3, <2>4, <2>5 DEF Coordinate
<1> QED
    BY <1>2, <1>3, <1>4 DEF Next

(* What the steps listed so far and the platform make is all the next one reads. *)
LEMMA RanIsNeeded ==
    ASSUME NEW r \in Runs, TypeInv, Fine(r), run[r].at \in Stepping,
           Range(file[r].exec.completed) \subseteq done
    PROVE  Needs(NextStep(r)) \subseteq done
<1> DEFINE c == file[r].exec.completed
           k == Len(c)
<1>1. /\ k \in 1..Len(Steps) /\ NextStep(r) = Steps[k] /\ Steps[k] \in Jobs
      /\ PositionOf(Steps[k]) = k /\ Steps[k] # Acceptance
    BY NextStepIsJob, StepsFacts, NamesFacts DEF NextStep
<1>2. /\ \A i \in 1..k : c[i] = IF i = 1 THEN "platform" ELSE Steps[i - 1]
      /\ c \in Seq(Jobs \cup {"platform"})
    BY JournalFields, HeldFacts DEF Fine, RunInv, ExecInv, InOrder
<1>3. k \in Nat /\ k > 0 /\ DOMAIN c = 1..k
    BY <1>1, <1>2, StepsFacts
<1> HIDE DEF k
<1>4. \A i \in 1..k : c[i] \in done
    BY <1>3 DEF Range
<1>5. "platform" \in done
    BY <1>2, <1>3, <1>4
<1>6. ASSUME NEW i \in 1..(k - 1)
      PROVE  Steps[i] \in done
    <2>1. i + 1 \in 1..k /\ i + 1 # 1 /\ (i + 1) - 1 = i
        BY <1>3
    <2>2. c[i + 1] = Steps[i]
        BY <1>2, <2>1
    <2> QED
        BY <1>4, <2>1, <2>2
<1> QED
    BY <1>1, <1>5, <1>6 DEF Needs

(* A Job of the pipeline is created only when everything it reads is complete, but    *)
(* for a run whose namespace has gone (pipeline.py execute_pipeline).                 *)
THEOREM JobsInOrder == Spec => StepsInOrder
<1>1. ASSUME IInv, [Next]_vars, NEW n \in Jobs, live[n] = 0, live'[n] > 0
      PROVE  \/ Needs(n) \subseteq done
             \/ \E r \in Runs : Astray(r) /\ n = NextStep(r)
    <2>1. PICK r \in Runs : ApplyStep(r) /\ n = NextStep(r)
        BY <1>1, JobCreated
    <2>2. /\ TypeInv /\ Fine(r) /\ RootInv /\ run[r].at = "apply" /\ At(r, "apply") /\ ns > 0
        BY <1>1, <2>1, IsFine DEF ApplyStep, Apply, At, IInv
    <2>3. seen[r].root \in Nat /\ seen[r].root <= ns /\ ns \in Nat
        BY <2>2, ReceiptFacts, HeldFacts DEF RootInv, Histories
    <2>4. CASE seen[r].root = ns
        <3>1. Range(file[r].exec.completed) \subseteq done
            BY <2>2, <2>4 DEF RootInv
        <3> QED
            BY <2>1, <2>2, <3>1, RanIsNeeded DEF Stepping
    <2>5. CASE seen[r].root # ns
        BY <2>1, <2>2, <2>3, <2>5 DEF Astray
    <2> QED
        BY <2>4, <2>5
<1>2. IInv /\ [Next]_vars =>
          \A n \in Jobs : live[n] = 0 /\ live'[n] > 0 =>
              \/ Needs(n) \subseteq done
              \/ \E r \in Runs : Astray(r) /\ n = NextStep(r)
    BY <1>1
<1> QED
    BY <1>2, Holds, PTL DEF Spec, StepsInOrder
================================================================================
