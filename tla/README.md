# Verification of the Instacart market-basket pipeline

This directory keeps TLA+ models of the parts of the pipeline whose correctness
depends on order, failure and concurrency, TLC configurations that check them on
small instances, and TLAPS proofs of their main properties for every instance.
Paths in this file and in the modules are relative to the repository root; the
map in `PROJECT.json` counts from one directory above it, so `src/module4/cli.py`
is `src/src/module4/cli.py` there.

## 1. The system

| component | state it keeps | operations | talks to |
|---|---|---|---|
| Module 1 (`src/module1`) | raw and curated files, HDFS layout, the Kafka topic | clean, generate, split, stage, replay | HDFS by WebHDFS, Kafka by a producer with callbacks |
| Module 2 (`src/module2`) | benchmark artifacts, batch metric snapshots in MongoDB | validate, analyse, benchmark | Spark, MongoDB |
| Module 3 (`src/module3`) | streaming state and checkpoint, top-K rows, trend bundles, latest-batch telemetry | parse, window, rank, write rows, publish bundles, log progress | Kafka, Spark's threads, MongoDB |
| Module 4A/4B (`src/module4`) | ALS list and graph catalog collections, readiness document, writer lease | train, build the graph, publish the pair | Spark, MongoDB |
| Module 4C (`src/module4/hybrid`) | immutable recommendation rows, one readiness pointer per user | capture sources, rank, publish | MongoDB, under the writer lease |
| Module 4D (`src/module4/dashboard`) | none (a response cache in the UI) | read ALS, Hybrid, trend and metric snapshots | MongoDB, without the lease |
| Kubernetes coordinator (`scripts/k8s`) | version lock, ownership and pipeline receipts, acceptance evidence | render, deploy, run the pipeline, accept, tear down | kubectl, minikube |
| harnesses (`scripts/*.py`, `scripts/experiments`, `scripts/dashboard`) | task-owned containers and artifacts | drive the above | Docker |

Components meet in MongoDB documents and collections: there are no transactions,
so every cross-document property rests on an order of single-document operations,
on the writer lease, or on a reader that looks twice.

What is hard, component by component (the list with lines is `hazards` in
`PROJECT.json`):

* the **writer lease** is taken for 180 minutes, never renewed, and nothing
  fences a holder that overruns it;
* the **A/B pair** is two collections renamed one after the other, gated by a
  third document, with readers inside and outside the lease;
* the **Hybrid pointer** is promoted by a compare-and-set after rows were
  written without the lease, by attempts that may be retried, raced or cut off;
* the **telemetry** of a batch crosses three threads, two bounded buffers and a
  shutdown;
* **trend bundles** are published by callers that retry and overlap, with a unique
  index as the only arbiter, while retention removes documents and readers pick
  the newest;
* **replay** trusts a producer that is not idempotent, in a process of its own, and
  is started again over the topic the last start left;
* **staging** to HDFS replaces a directory in two renames;
* the **dashboard** reads one picture in several requests, keeps answers in a cache,
  and runs its script again while an older run still waits;
* the **coordinator** acts on a cluster nothing locks, through commands whose answers
  get lost, and deletes by name what it identified earlier by uid.

## 2. Modules

| module | stands for | built on |
|---|---|---|
| `PublicationLock` | `publication_lock` of `src/module4/sink_mongo.py` | |
| `ServingPair` | what readers of the A/B pair are promised (abstract) | |
| `BatchPublication` | the serving section of `src/module4/cli.py`, the source capture of `hybrid/data.py`, the API's ALS reader | `PublicationLock`, implements `ServingPair` |
| `PointerRegister` | what readers of a user's pointer are promised (abstract) | |
| `HybridPublication` | `hybrid/sink_mongo.py` and its caller `hybrid/service.py` | `PublicationLock`, implements `PointerRegister` |
| `StreamTelemetry` | `progress_log.py` and the ends of `stream.py` | |
| `BundleStore` | what readers of the trend bundles are promised (abstract) | |
| `TrendBundles` | `write_trend_bundles` of `src/module3/trend_bundle.py`, by concurrent publishers | implements `BundleStore` |
| `TrendReader` | `hybrid/trend_reader.py` beside those publishers | `TrendBundles` |
| `ReplayDelivery` | `step_replay` of `scripts/k8s/pipeline_task.py`, `src/module1/producer.py`, `src/module3/replay.py` | |
| `Staging` | `stage_interactions` of `src/module1/stage_hdfs.py` | |
| `DashboardApi` | the GET handlers, their readers and the UI's client (`src/module4/dashboard`) | `ServingPair`, `PointerRegister` |
| `DashboardSession` | a browser session: `ui/app.py`, `ui/state.py`, `ui/pages` | `DashboardApi` |
| `DemoRun` | the coordinator: prepare, run, verify, collect, teardown (`scripts/k8s`) | |
| `ServingProofs` | theorems about `BatchPublication` and `DashboardSession` | both, `PublicationLockProofs` |
| other `*Proofs` | theorems about the module they extend; those of `TrendBundlesProofs` include its reader | the module, `TLAPS` |
| `MC*` | the values of the constants for TLC | the module |

### PublicationLock

`lock` is the one document `_id: "module4-active-publication"`; `lock.left` is
the part of its lease that is left, so that time is a countdown and the model has
no unbounded clock. `section[p]` says whether process `p` is inside the `with`
block. `Acquire` is the `find_one_and_update` (its filter accepts no document or an
expired one, which are both `left = 0`), `Refused` the `DuplicateKeyError`,
`Release` the `delete_one` of the `finally` clause, `Die` the loss of the process
in between, `Tick` the clock. `RespectLease` is an assumption on the environment,
switched on and off by the configurations: no live section outlasts its lease.
`holder` is a history variable. The run_id a process passes (`OwnerOf`) names an
operation and not a process: the Hybrid publisher builds it from the user and the
serving version (`hybrid/sink_mongo.py:1275`), so the attempts at one version share it.
`ReleaseOnlyOwnLease` therefore says that a release deletes a document of its own
operation, whoever overran what, and the process's own document under `RespectLease`.
More is not true: an attempt that has outlasted its lease deletes the lock of its own
retry, which then fails with "writer lock ownership was lost".

### BatchPublication

One action per step of a run's section: gate closed (`MarkPublishing`), collection
renamed (`Promote`), validated in place (`Validate`), gate opened (`Report`), the
failure path (`RecordFailure`), each with the variant in which the call raises,
applied or not. A snapshot is represented by the run it belongs to, and a reader's
rows by whether they are found, because queries name `model_version` and `run_id`
or `graph_version` and `run_id`. `capture` and `api` hold the local variables of
the two readers, whose queries are separate actions; the capture runs inside the
lease, the API does not.

### HybridPublication

`rows[v][r]` is the `generated_at` stamp of a stored row (all other content is in
the digest that names the version), `pointer` the user's readiness pointer,
`attempt[a]` the program counter and locals of one `serve_hybrid_user` call:
first look, unordered `insert_many` one document at a time, re-verification after
an error, the lock, the generation check, the pointer read, `insert_one` or
`replace_one` with its filter, and the read back. Batch runs appear as publishers
that close and open the gate under the same lease. Two versions compare as of the same
source by their generation and their trend namespace (`SameSource`); the runs have one
namespace, the theorems any number. An attempt whose process is lost keeps no locals.

### StreamTelemetry

Spark's execution thread (`exec`), the progress logger (`logger`) and `run_stream`
(`owner`). `ring` is Spark's bounded `recentProgress`, `receipts` the publisher's
bounded map of sink results. The logger's read of the ring and its publication of
each event are separate actions, as they are for the other threads. It may fail on an
event (`LoggerFails`: a gap, a missing receipt, its log file, the publication) or
without one (`LoggerBreaks`: opening the log, reading `recentProgress`, the last flush).

### TrendBundles

`store[w]` is the document of window `w` as its logical content, whether its other
fields agree with its digest, and whether retention may remove it. `call[p]` is one
`write_trend_bundles`: a pass of comparisons over all chunks, the indexes, a pass
of unordered bulks of insert-only upserts, and the reconciliation that a duplicate
key starts. An upsert is two actions, the query that finds nothing and the insert,
because that is where two publishers of one window meet. The server goes on
executing the operations of a bulk whose answer was lost.

### TrendReader

A reader beside the publishers: `Request` remembers in `reader.asked` what had been
published by then, and the query with its verdict on the document is one action.
`past` holds the windows whose `expires_at` is over, which MongoDB's monitor removes
only later (`ExpiryPasses`, `Monitor`). Windows are numbers, their ends as event
times.

### ReplayDelivery

Four parties: the producer process (`producer`, `count` for `DeliveryAccounting`,
`report` for its receipt), its client's own thread (`future`, one per event), the
broker (`log`, `wire`), and the step with its streaming query (`step`, `query`).
A request whose answer is lost is sent again and both may be appended, at any later
time, since requests stay in `wire` after their process has ended. `Start` is any
start of the step, with or without permission to resume; topic, checkpoint and files
stay as the last start left them. The topic has one partition, so an offset is a
number of records, and a micro-batch takes all there is, as no
`maxOffsetsPerTrigger` is set.

### Staging

`fs` holds the target directory and each run's staging and backup directory; a
directory is the set of files in it, each with the run it comes from, so that a
rename into an existing directory, which nests, shows as a mixture. Every call may
raise, applied or not (`Call`), and the process may be lost anywhere (`Die`).
`found` remembers what the target held when the run looked, `served` the last
completed run. Runs follow one another: that is an assumption, see below.

### DashboardApi and DashboardSession

`DashboardApi` takes the publications as the abstract specifications that
`BatchPublication` and `HybridPublication` are shown to implement: `offered` and
`retired` are the register of `ServingPair`, `current` that of `PointerRegister`, and
`Publish` steps are theirs. `request[c]` is one request: the two bracketed reads
(ALS, Hybrid) look at the identity, read rows and look again, in separate actions;
all others are one read. A request ends in an answer, an error the API reports, or
an error the client finds (`NoResponse`, `OffContract`).

In `DashboardSession` a caller is one run of Streamlit's script, numbered by the click
that began it. `Click` supersedes the run before: that run stops at its next call
into Streamlit, so a request it waits for still ends and its answer is still stored
in the dict that run has in hand (`InHand`), while its writes to `session_state` are
lost. This is Streamlit's behaviour (`runner.fastReruns`, the default), which the code
relies on and does not configure. `cache` is the dict of `ui/state.py` with its
insertion order and bound; `cleared` says which run dropped the last one. `screen` is
what a page has drawn: which answers, the choice of order, and whether it warns.

### DemoRun

`cluster`, `ns` and `live` are the uids of the profile, the namespace and the objects,
`made` how many objects of each name were ever created: names are reused, pairs of name
and uid are not. `run[r]` is one call of `run_demo`, `file[r]` its private files,
`down[r]` its teardown command. A receipt is the record of the uids it lists, a digest
the content itself. `Answered` gives every command the outcome of taking effect and
losing its answer; `Fail` and `Die` end a run anywhere, the latter leaving half a file
where the code does not write atomically. A stage enters the session in memory before
the file is written, so a write that raises is not the end of it: the handler of
`run_demo` writes the same session again, as `failed`, with that stage in it
(`FailWriting`). A failed session may thus list `acceptance`, and even the artifacts, of
an acceptance that did pass; `JournalTruthful` says what each entry entitles a reader to
believe, and that `runtime_pass` needs `acceptance`, not the reverse. `World` is
everybody else: Jobs complete once what they read is there (`Needs`), Pods are replaced,
strangers create objects, private files are overwritten. Two runs may be given the same
lock file, and so share profile and namespace: `kubectl apply` takes a namespace that
appeared after `require_absent_namespace` for its own.

## 3. Runs

| run | question | bounds | states |
|---|---|---|---|
| `batch` | does any reader ever get a mixed pair, whatever fails? | three runs (two full, one ALS only), one capture, one API request, a user known to two of the runs | 2,100,300 |
| `batch_overrun` | (violated) does a gate that says `ready` stand over one run's pair when a section outlasts its lease? | two full runs, no reader, the lease lapsing | |
| `hybrid` | under the lease: is a second writer excluded, does the lease come free after a death, is the generation active at promotion, are the rows behind a pointer complete, is a first publication servable? | two attempts at a version of two rows under one run_id, one at another without, two batch runs | 224,203 |
| `hybrid_overtaken` | without it: does a pointer move back, is a reported success visible, does a release free another operation's lease? | three versions of increasing event time, the second attempted twice under one run_id, one batch run | 1,801,648 |
| `hybrid_retry` | (violated) is a pointer promoted by a retry servable? | the attempts of `hybrid` | |
| `telemetry` | is evidence lost, is an alarm false, does shutdown end? | five batches, two pending receipts, one idle observation while the logger is behind, a ring of three | 44,524 |
| `bundles` | are bundles immutable, is a reported success true, does a reader find what was published? | three publishers of two windows, in chunks of two and of one, one with other content; an earlier document, sound or damaged, or none; a reader at either window's end | 2,144,587 |
| `replay` | did a completed replay deliver every event once, is the producer's report true, is the producer gone when the step has ended? | two events, each sent at most twice, two starts of the step, two failures | 2,302,686 |
| `staging` | does a reader find a whole snapshot, is a served one ever lost? | three runs in sequence, snapshots of two files | 6,875 |
| `staging_unanswered` | (violated) does a failed promotion restore the last target? | two runs | |
| `dashboard` | what may a session show after a refresh, a batch run or an interrupted submission? | three clicks, two generations of one model version with a Hybrid version each, a dict of three entries, one failure, the two rankings symmetric | 3,537,991 |
| `demo` | do journals, receipts and verification tell the truth, does a pipeline run once and in order, does teardown delete only its own? | two runs with one lock file, two Jobs, a stray policy and a stray object no receipt lists, one fault, one act of others | 2,693,784 |

The bounds let every branch be taken: two writers are enough for a conflict, a
second version with a later and one with an earlier event time for every branch of
the compare-and-set, more batches than receipts and ring slots for both limits, a
third publisher for content that conflicts with two that agree, a third staging run
for one that replaces what another left when it failed. Two starts and two failures
let a request outlive its start and be appended to the next one's topic. A dict of
three entries is filled by one page. In `demo` one fault and one act of others suffice
for each pair of a lost answer or a death and a replaced, added or overwritten thing;
with a second of either the run would not end in time.
`CHECK_DEADLOCK FALSE` is used where every process does its one job and ends.

Every property has a mutant in `PROJECT.json`: a small change of the model that a
plausible bug would make, under which the same run fails.

### What the runs show

* `replay`: the counts of a producer that is not idempotent cannot show a duplicate;
  what makes a completed replay exact is that `validate_replay_completion` also
  compares the offsets consumed and the topic's end with the number of events. A start
  that may resume on a topic that is not empty never passes this check, because it
  wants a start offset of zero: the step then fails, it does not report a wrong result.
* `bundles`: an expired newest document hides older ones until the monitor removes it.
  The reader then says `expired` rather than skip to an older window, so what it
  answers is never older than what had been published.
* `dashboard`: an answer that arrives late goes into the dict its run has in hand, not
  into the one that replaced it, so an explicit refresh is one; the dict has to be
  replaced and not emptied for that. The button that loads recommendations again
  passes over the dict without replacing it, so a late answer of a superseded run may
  there replace a newer one; the documents promise nothing else.
* `demo`: two runs that share a lock file can both pass the namespace check and both
  apply the platform. The one thing that stops the second is `mkdir` without `-p` on
  the HDFS root. Deletion is by name: an object created after teardown's last listing
  goes with the namespace, which is what `DeletesOnlyOwn` allows and no more. Evidence
  and its pointer are written once, so a crash between them leaves a run that the tool
  cannot tear down, and neither can a teardown that failed halfway be completed by it.

### Violated runs

* `batch_overrun`: the lease is a promise nothing keeps. The docstring of
  `publication_lock` says it enforces a single writer; a section of more than 180
  minutes overlaps the next one. In the counterexample the first run's lease lapses
  after it has validated both collections; the second enters and closes the gate; the
  first, which looks at nothing again, writes its final `ready`; the second renames its
  ALS collection. The document now says `ready` for the first run over the second's
  ALS list and the first's graph. Both are full runs, so this is the pair that readers
  are offered, not a single snapshot.
* `hybrid_retry`: `_compare_and_promote` stamps the pointer with the retry's clock
  while the rows keep the first attempt's `generated_at`; the API's
  `_validate_rows` rejects such a pointer, and `_pointer_matches` ignores the
  field, so repeating the publication does not repair it.
* `staging_unanswered`: `target_backed_up` is set after the backup rename returns.
  A rename that is applied and raises leaves no target, no rollback and no warning;
  the snapshot stays under a backup name. The comment in the `except` clause says
  a failed promotion must restore the last complete target.

## 4. Fairness

Safety runs need none. `FairHybridSpec` (run `hybrid`) assumes that time passes and that a live
section ends: the code inside has no wait of its own.
`StreamTelemetry!FairSpec` assumes each thread keeps running and that client
calls end, in success or failure; it does not assume that a batch ever starts,
or that the owner stops for any reason other than a failure, which its loops poll
for every second. `ReplayDelivery!FairSpec` assumes that the step itself goes on, one
thread whose watch has a fixed deadline; of the producer, the broker and the query
it assumes nothing, which is the point of `StepEnds`.

Two of these assumptions go beyond what the code guarantees. Except for the clients of
the metrics and of the API, the MongoDB clients set only `serverSelectionTimeoutMS`: a
call to a server that was selected, and then neither answers nor closes the connection,
has no limit of its own. `ShutdownEnds` and the fairness of `FairHybridSpec` presume
that such calls return. `query.stop()`, which `run_stream` calls when its watch is over,
has none either: `ShutdownEnds` derives its return from the end of Spark's thread,
`StepEnds` presumes it. What the two properties exclude is that the program's own threads
and processes wait for one another.

No action of the environment (a
death, a failed call) is fair.

## 5. Proofs

Every safety invariant and every action property that a run checks is a theorem, for
every value of the constants. A property is seldom inductive: each module below states
the strengthening (`...Inv`) that is, in parts that are named and commented where they
stand, and proves that each action preserves each part it can disturb. The
strengthenings were checked by TLC on the bounds of section 3 before they were proved.

* `PublicationLockProofs`: `LockMutualExclusion`, from the invariant (`LockInv`) that
  the document of a live section carries its run_id and has not run out, which is what
  `RespectLease` buys. `LockReleaseOnlyOwn` rests on the invariant (`HolderInv`) that the
  document carries the run_id of the last to take the lease; it assumes nothing of the
  run_ids, which processes may share, and needs `LockInv` only for its clause under
  `RespectLease`.
* `ServingProofs`, from the publication of a generation to the page that shows it, in
  two halves.
  - *The publication.* Every step is a lock step or leaves the lock alone
    (`BatchImplementsLock`), so mutual exclusion carries over. On it rests `BatchInv`,
    which ties each program counter inside the section to the state of the gate and of
    the collections; `BatchReadinessTruthful` is a part of it. For the lock-free reader
    (`BatchApiFaithful`) it says: while the identity it has read is still offered, or
    was retired since, what it has read belongs to that identity; the look at the end
    decides. `BatchImplementsPair` is the refinement of `ServingPair`.
  - *The session*, which assumes `ServingPair` of what it reads. `SessionInv` follows an
    answer from the request to the screen: a pair a request has seen is retired, so if
    it is offered again at the second look it was offered all along, and the rows are
    its own (`RequestOK`); the dict holds nothing asked for before it was made
    (`CacheInv`); what a run has read and the answer it waits for are of its page and
    its filters (`RunInv`, `LastInv`). `RefreshIsFresh`, `ComparedIsHonest` and
    `FiltersAreRead` are its consequences on the screen, for any number of clicks.
* `HybridPublicationProofs`: rows are only ever added and keep their stamp, an
  attempt past verification has complete rows, the pointer's version has been
  verified. None of `HybridRowsComplete`, `HybridPublishedIsVisible` and
  `HybridImplementsRegister` needs the lease: the compare-and-set filter carries
  them. `HybridPromotion` does need it. `HybridFirstAttempt` needs `AloneInv`: as long
  as no other attempt at the version has begun, its stored rows, the rows still to come
  and the pointer all carry the one attempt's clock. It bounds the defect that
  `hybrid_retry` shows: only a second attempt can make a promoted version unservable.
* `StreamTelemetryProofs`: the receipts are exactly those of the batches after the last
  published one (`ReceiptsInv`), so their bound limits how far the query runs ahead; an
  unpublished batch then lies within reach of the ring's end (`RingInv`), the list the
  logger goes through misses none (`TodoInv`), and the order of the shutdown makes its
  last list complete (`ShutdownInv`, `CompleteInv`). `EvidenceKept`, `AlarmsAreReal` and
  `ReturnedIsComplete` follow.
* `TrendBundlesProofs`: `BundlesAreImmutable` is the refinement of `BundleStore`,
  step by step; `BundleSuccessMeansStored` rests on an invariant that says which
  windows a publisher may rely on at each step: those of the chunks it has gone
  through, those its bulk has matched or inserted, those it has read back, each
  stored with its content unless retention has removed it since. The counters
  (`BundleCountIsTruthful`) need that what is left to write is disjoint from what was
  inserted (`CountOK`), also while the server works off a bulk its client has given up;
  `BundleConflictsAreReal`, that the evidence of a mismatch, once seen, stays in the
  collection or its window is on record as expired. `ReaderOnlyReads`
  says that the publishers beside a reader are a system of publishers, so all of this
  holds there; `ReadersSeePublished` needs one more invariant, that each window a
  request was promised is in the batch of a publication that has succeeded.
* `ReplayDeliveryProofs`: an event counts as acknowledged at most once and only when the
  topic holds it (`CountInv`), so a report bounds the different events in the topic from
  below; the topic's end, read after the producer is gone (`ProducerInv`), bounds its
  records from above; a prefix of the topic never changes (`ExactInv`). Together:
  `CompletedReplayIsExact`, for a feed of any length.
* `StagingProofs`: `StagingInv` says what the three directories of the active run
  hold at each of its steps, from the file it uploads next to the rollback; that at
  most one run is active carries it over the steps of others. The four safety
  properties and the action property of the run `staging` follow, for any number
  of runs and files.
* `DemoRunProofs`: for any number of runs that share a profile. `JournalInv` and
  `ClaimsInv` say what a run's place in `run_demo` entitles it to claim, `ExecInv` that
  the execution receipt lists a prefix of the plan, `RootInv` that a namespace belongs to
  the run that made its HDFS root. `SeenInv`, `AgeInv` and `AcceptanceInv` follow two
  receipts from the comparison with the cluster into the acceptance receipt, `DownInv`
  and `ListedInv` teardown's listing to the deletion. From these: `JournalIsTruthful`,
  `VerifiedIsLive`, `OneRootEach`, `JobsInOrder`, `OnlyOwnDeleted`.

Two properties of `DemoRun` are weaker than one would first write, because the proof of
the stronger form failed on behaviours that need more runs or faults than TLC can
afford. `VerifiedWasLive` says "of *some* run's acceptance": three overwritten private
files can put all of one run's receipts in the place of another's. `StepsInOrder` makes
an exception for a run whose namespace was deleted and made anew by a third: nothing in
the loop of `execute_pipeline` looks at the namespace again, so the run goes on with its
next Job in the new one. The run `demo` has two runs of which one is torn down and so
does not reach that exception; only the theorem `JobsInOrder` speaks of it.

Only model-checked: liveness (`LeaseComesFree`, `ShutdownEnds`, `StepEnds`), which is
out of the prover's reach under fairness. The other way round, the typings of the lock,
batch, Hybrid, telemetry, replay and staging modules are proved and no run repeats them,
and `PointerRowsComplete` is proved without `RespectLease` although the run `hybrid` has
it. The violated properties are of course not proved; of them `ReadyPairIsWhole`, which
`batch_overrun` violates, is proved under `RespectLease` (`BatchReadyPairWhole`). A
proof about a recursive or data-inductive function would be out of the prover's reach,
and there is none here.

Assumed: `RespectLease` where a theorem names it; that staging runs follow one another
(the pipeline stages from one Job; two at a time could nest one snapshot in the other,
and nothing in the code prevents it); that a WebHDFS call that raised has been applied
by then or never; and the constants' named assumptions, which TLC evaluates in every
run. Those that say something of the code:

* `RoomForPending` (`StreamTelemetry`): the ring has room for the pending receipts and
  the idle observations posted while the logger is behind. Spark keeps 100 events and 16
  receipts may be pending, so 84 idle observations may come between; Spark posts one in
  ten seconds at most and the logger looks every two. The idle observations are counted
  only while the logger is behind, and start over when it has caught up. Without this
  assumption the alarm of `_publish` for a gap can be a false one.
* `ReplayConstants`: the absent count is not the count zero. `DemoConstants` and
  `FileConstants`: the steps of the plan are different Jobs and no object has two roles;
  an absent or torn file is no receipt, of acceptance either. `SessionConstants`: the
  runs of the script are numbered from one. `ApiConstants`: each Hybrid
  version was computed for one pair.

## 6. Not modelled, and what would come next

* **Row sink** (`src/module3/sink_mongo.py`): one driver at a time deletes and upserts
  the rows of a batch, and Spark executes the batch again after a failure. Its
  docstring promises readers no atomic replacement, so there is nothing to check
  beyond what `BundleStore` already states of the bundles. In `StreamTelemetry` both
  sinks are one step, which fails or not.
* **Ranking** (`hybrid/ranking.py`): arithmetic on floating-point scores. The models
  take its result as part of a version.
* **Cleaning, generation, event reader, Module 2 metrics, training and evaluation**:
  sequential programs over tables, whose properties are about data and are covered by
  the repository's tests.
* **Inside the pipeline's Jobs**: except for the replay, a step of
  `scripts/k8s/pipeline_task.py` is one completion in `DemoRun`; what the Jobs publish
  is in `BatchPublication`, `HybridPublication`, `TrendBundles` and `Staging`.
* **Coordinator details**: image provenance, rendering, host capacity, Secret data,
  labels and owner chains (a uid stands for all of an object's identity), and the resume branch of
  `execute_pipeline`, which `run_demo` cannot reach.
* **Presentation and harnesses**: layout, archived experiments, smoke checks.

Next: the row sink with its re-execution below `StreamTelemetry`; that the stores
`DashboardApi` reads are, jointly, those of the two publications, by composing them
rather than by their abstract specifications; and the resume branch of
`execute_pipeline` for callers other than `run_demo`.
