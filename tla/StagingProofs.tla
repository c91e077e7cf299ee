----------------------------- MODULE StagingProofs -----------------------------
(***************************************************************************)
(* Proofs about Staging, for any runs and any number of files.  The invariant  *)
(* says what the three directories of the active run hold at each of its       *)
(* steps; that no other run is active carries it from step to step.            *)
(***************************************************************************)
EXTENDS Staging, TLAPS

Whole(dir) == \E r \in Runs : dir = Snapshot(r)

(* The files a run has uploaded while it is uploading. *)
UploadedSoFar(r) ==
    IF run[r].next = 1 THEN Missing ELSE {r} \X (1..(run[r].next - 1))

Alone == \A p, q \in Runs :
             run[p].at \notin Over /\ run[q].at \notin Over => p = q

Uploading(r) ==
    /\ fs.staging[r] = UploadedSoFar(r)
    /\ fs.backup[r] = Missing /\ ~run[r].backed /\ ~run[r].rescue
    /\ ~run[r].unrestored
    /\ run[r].at = "idle" => run[r].next = 1

Swapping(r) ==
    /\ fs.staging[r] = Snapshot(r) /\ ~run[r].rescue /\ ~run[r].unrestored
    /\ run[r].at = "check" => fs.backup[r] = Missing /\ ~run[r].backed
    /\ run[r].at = "back up" =>
           /\ fs.backup[r] = Missing /\ ~run[r].backed
           /\ fs.target = run[r].found /\ fs.target # Missing
    /\ run[r].at = "promote" =>
           /\ fs.target = Missing
           /\ run[r].backed => fs.backup[r] = run[r].found /\ Whole(run[r].found)

RollingBack(r) ==
    /\ fs.backup[r] = run[r].found /\ Whole(run[r].found) /\ ~run[r].unrestored
    /\ run[r].at = "look" => fs.target \in {Missing, Snapshot(r)}
    /\ run[r].at = "discard" => fs.target = Snapshot(r)
    /\ run[r].at = "restore" => fs.target = Missing

Directories(r) ==
    /\ run[r].at \in {"idle", "upload"} => Uploading(r)
    /\ run[r].at \in {"check", "back up", "promote"} => Swapping(r)
    /\ run[r].at = "tidy" => fs.target = Snapshot(r)
    /\ run[r].at \in {"look", "discard", "restore"} => RollingBack(r)
    /\ run[r].at = "sweep" /\ run[r].rescue /\ ~run[r].unrestored
           => fs.target = run[r].found

StagingInv ==
    /\ TypeOK
    /\ Alone
    /\ \A r \in Runs : Directories(r)
    /\ fs.target # Missing => Whole(fs.target)
    /\ \A r \in Runs : fs.backup[r] # Missing => Whole(fs.backup[r])
    /\ served # None => served \in Runs /\ run[served].at = "done"
    /\ SnapshotKept

--------------------------------------------------------------------------------
(* A snapshot is an existing directory, and tells its run from every other. *)
LEMMA SnapshotIdentity ==
    /\ Missing \in Directory
    /\ \A r \in Runs : Snapshot(r) \in Directory /\ Snapshot(r) # Missing
    /\ \A r, q \in Runs : Snapshot(r) = Snapshot(q) => r = q
<1>1. Missing \in Directory
  BY DEF Directory
<1>2. ASSUME NEW r \in Runs PROVE Snapshot(r) \in Directory /\ Snapshot(r) # Missing
  <2>1. Snapshot(r) \in SUBSET (Runs \X (1..FileCount))
    BY DEF Snapshot
  <2>2. None \notin Snapshot(r)
    BY <2>1, StagingConstants
  <2> QED
    BY <2>1, <2>2 DEF Directory, Missing
<1>3. ASSUME NEW r \in Runs, NEW q \in Runs, Snapshot(r) = Snapshot(q) PROVE r = q
  <2>1. 1 \in 1..FileCount
    BY StagingConstants
  <2>2. <<r, 1>> \in Snapshot(r)
    BY <2>1 DEF Snapshot
  <2>3. <<r, 1>> \in {q} \X (1..FileCount)
    BY <2>2, <1>3 DEF Snapshot
  <2> QED
    BY <2>3
<1> QED
  BY <1>1, <1>2, <1>3

(* What a step of one run owes to the invariant: the state of its own          *)
(* directories and of the target.                                            *)
LEMMA StepKeepsInvariant ==
    ASSUME StagingInv, NEW r \in Runs, NEW rec \in RunRecord,
           run' = [run EXCEPT ![r] = rec],
           fs' \in [target : Directory, staging : [Runs -> Directory],
                    backup : [Runs -> Directory]],
           \A q \in Runs \ {r} : /\ fs'.staging[q] = fs.staging[q]
                                /\ fs'.backup[q] = fs.backup[q],
           \A q \in Runs : run[q].at \notin Over => q = r,
           run[r].at # "done",
           Directories(r)',
           fs'.target # Missing => Whole(fs'.target),
           fs'.backup[r] # Missing => Whole(fs'.backup[r]),
           \/ served' = served
           \/ served' = r /\ rec.at = "done",
           SnapshotKept'
    PROVE  StagingInv'
<1>1. run \in [Runs -> RunRecord] /\ run'[r] = rec
  BY DEF StagingInv, TypeOK
<1>2. \A q \in Runs \ {r} : run'[q] = run[q]
  BY <1>1
<1>3. served' \in Runs \cup {None}
  BY DEF StagingInv, TypeOK
<1>4. run' \in [Runs -> RunRecord]
  BY <1>1
<1>5. TypeOK'
  BY <1>3, <1>4 DEF TypeOK
<1>6. Alone'
  BY <1>2 DEF Alone, Over
<1>7. ASSUME NEW q \in Runs PROVE Directories(q)'
  <2>1. CASE q = r
    BY <2>1
  <2>2. CASE q # r
    <3>1. run[q].at \in Over /\ run'[q] = run[q] /\ Directories(q)
      BY <2>2, <1>2 DEF StagingInv
    <3>2. fs'.staging[q] = fs.staging[q] /\ fs'.backup[q] = fs.backup[q]
      BY <2>2
    <3> QED
      BY <3>1, <3>2 DEF Directories, Uploading, UploadedSoFar, Over
  <2> QED
    BY <2>1, <2>2
<1>8. (fs.target # Missing => Whole(fs.target))'
  BY DEF Whole, Snapshot, Missing
<1>9. ASSUME NEW q \in Runs, fs'.backup[q] # Missing PROVE Whole(fs'.backup[q])
  BY <1>9 DEF StagingInv, Whole, Snapshot, Missing
<1>10. (served # None => served \in Runs /\ run[served].at = "done")'
  <2>1. CASE served' = served
    BY <2>1, <1>2 DEF StagingInv
  <2>2. CASE served' = r /\ rec.at = "done"
    BY <2>2, <1>1
  <2> QED
    BY <2>1, <2>2
<1> QED
  BY <1>5, <1>6, <1>7, <1>8, <1>9, <1>10 DEF StagingInv, Whole, Snapshot, Missing

--------------------------------------------------------------------------------
(* A step that fails or goes on without touching target and backups. *)
LEMMA QuietStep ==
    ASSUME StagingInv, NEW r \in Runs, NEW rec \in RunRecord,
           run' = [run EXCEPT ![r] = rec],
           NEW d \in Directory,
           fs' \in {fs, [fs EXCEPT !.staging[r] = d]},
           \A q \in Runs : run[q].at \notin Over => q = r,
           run[r].at # "done", served' = served,
           Directories(r)'
    PROVE  StagingInv'
<1>1. /\ fs \in [target : Directory, staging : [Runs -> Directory],
                 backup : [Runs -> Directory]]
      /\ fs.target # Missing => Whole(fs.target)
      /\ fs.backup[r] # Missing => Whole(fs.backup[r])
      /\ SnapshotKept
  BY DEF StagingInv, TypeOK
<1>2. /\ fs'.target = fs.target /\ fs'.backup = fs.backup
      /\ fs' \in [target : Directory, staging : [Runs -> Directory],
                 backup : [Runs -> Directory]]
      /\ \A q \in Runs \ {r} : fs'.staging[q] = fs.staging[q]
  BY <1>1
<1>3. SnapshotKept'
  BY <1>1, <1>2 DEF SnapshotKept, Snapshot
<1> QED
  BY <1>1, <1>2, <1>3, StepKeepsInvariant

(* The active run and its record. *)
LEMMA ActiveRun ==
    ASSUME StagingInv, NEW r \in Runs, run[r].at \notin Over
    PROVE  /\ \A q \in Runs : run[q].at \notin Over => q = r
           /\ run[r].at # "done"
           /\ Directories(r)
           /\ run[r] \in RunRecord
           /\ run \in [Runs -> RunRecord]
BY DEF StagingInv, Alone, Over, TypeOK

LEMMA BeginStep ==
    ASSUME StagingInv, NEW r \in Runs, Begin(r) PROVE StagingInv'
<1> DEFINE rec == [run[r] EXCEPT !.at = "upload"]
<1>1. /\ run[r].at = "idle" /\ \A q \in Runs : run[q].at \in Over
      /\ run' = [run EXCEPT ![r] = rec] /\ UNCHANGED <<fs, served>>
  BY DEF Begin
<1>2. run \in [Runs -> RunRecord] /\ Directories(r) /\ Missing \in Directory
  BY SnapshotIdentity DEF StagingInv, TypeOK
<1>3. rec \in RunRecord /\ run'[r] = rec
  BY <1>1, <1>2 DEF RunRecord
<1>4. Directories(r)'
  BY <1>1, <1>2, <1>3 DEF Directories, Uploading, UploadedSoFar, RunRecord
<1> HIDE DEF rec
<1> QED
  BY <1>1, <1>2, <1>3, <1>4, QuietStep

LEMMA RefuseStep ==
    ASSUME StagingInv, NEW r \in Runs, Refuse(r) PROVE StagingInv'
<1> DEFINE rec == [run[r] EXCEPT !.at = "sweep"]
<1>1. run[r].at = "upload" /\ UNCHANGED <<fs, served>>
  BY DEF Refuse
<1>2. /\ \A q \in Runs : run[q].at \notin Over => q = r
      /\ Directories(r) /\ run[r] \in RunRecord /\ run \in [Runs -> RunRecord]
      /\ Missing \in Directory
  BY <1>1, ActiveRun, SnapshotIdentity DEF Over
<1>3. ~run[r].backed /\ ~run[r].rescue
  BY <1>1, <1>2 DEF Directories, Uploading
<1>4. run' = [run EXCEPT ![r] = rec]
  BY <1>3 DEF Refuse, Handler
<1>5. rec \in RunRecord /\ run'[r] = rec
  BY <1>2, <1>4 DEF RunRecord
<1>6. Directories(r)'
  BY <1>2, <1>3, <1>5 DEF Directories, RunRecord
<1> HIDE DEF rec
<1> QED
  BY <1>1, <1>2, <1>4, <1>5, <1>6, QuietStep

LEMMA UploadStep ==
    ASSUME StagingInv, NEW r \in Runs, Upload(r) PROVE StagingInv'
<1> DEFINE piece == {<<r, run[r].next>>}
           d == Moved(fs.staging[r], piece)
           more == [run[r] EXCEPT !.next = @ + 1]
           swept == [run[r] EXCEPT !.at = "sweep"]
<1>1. run[r].at = "upload" /\ HasFile(r) /\ served' = served
  BY DEF Upload, Call
<1>2. /\ \A q \in Runs : run[q].at \notin Over => q = r
      /\ Directories(r) /\ run[r] \in RunRecord /\ run \in [Runs -> RunRecord]
  BY <1>1, ActiveRun DEF Over
<1>3. /\ Uploading(r) /\ FileCount \in Nat
      /\ run[r].next \in 1..FileCount
  <2>1. Uploading(r)
    BY <1>1, <1>2 DEF Directories
  <2>2. run[r].next \in 1..(FileCount + 1) /\ run[r].next <= FileCount
    BY <1>1, <1>2 DEF HasFile, RunRecord
  <2> QED
    BY <2>1, <2>2, StagingConstants
<1>4. d = {r} \X (1..run[r].next)
  <2>1. CASE run[r].next = 1
    <3>1. d = {<<r, 1>>}
      BY <2>1, <1>3 DEF Uploading, UploadedSoFar, Moved
    <3> QED
      BY <2>1, <3>1
  <2>2. CASE run[r].next # 1
    <3>1. fs.staging[r] = {r} \X (1..(run[r].next - 1))
      BY <2>2, <1>3 DEF Uploading, UploadedSoFar
    <3>2. None \notin fs.staging[r]
      <4>1. None \notin Runs \X (1..FileCount)
        BY StagingConstants
      <4>2. 1..(run[r].next - 1) \subseteq 1..FileCount
        BY <1>3
      <4> QED
        BY <3>1, <4>1, <4>2
    <3>3. d = fs.staging[r] \cup piece
      BY <3>2 DEF Moved, Missing
    <3>4. 1..run[r].next = (1..(run[r].next - 1)) \cup {run[r].next}
      BY <1>3
    <3>5. {r} \X (1..run[r].next)
              = ({r} \X (1..(run[r].next - 1))) \cup {<<r, run[r].next>>}
      BY <3>4
    <3> QED
      BY <3>1, <3>3, <3>5
  <2> QED
    BY <2>1, <2>2
<1>5. d \in Directory
  BY <1>3, <1>4 DEF Directory
<1> HIDE DEF d
<1>6. CASE fs' = [fs EXCEPT !.staging[r] = d] /\ run' = [run EXCEPT ![r] = more]
  <2>1. more \in RunRecord /\ run'[r] = more /\ run'[r].next = run[r].next + 1
    <3>1. run[r].next + 1 \in 1..(FileCount + 1)
      BY <1>3
    <3> QED
      BY <3>1, <1>2, <1>6 DEF RunRecord
  <2>2. fs'.staging[r] = d /\ fs'.backup = fs.backup
    BY <1>6 DEF StagingInv, TypeOK
  <2>3. fs'.staging[r] = {r} \X (1..(run'[r].next - 1)) /\ run'[r].next # 1
    BY <2>1, <2>2, <1>3, <1>4
  <2>4. Uploading(r)'
    BY <2>1, <2>2, <2>3, <1>1, <1>2, <1>3 DEF Uploading, UploadedSoFar, RunRecord
  <2>5. Directories(r)'
    BY <2>1, <2>4, <1>1, <1>2 DEF Directories, RunRecord
  <2> HIDE DEF more
  <2> QED
    BY <1>1, <1>2, <1>5, <1>6, <2>1, <2>5, QuietStep DEF Over
<1>7. CASE fs' \in {fs, [fs EXCEPT !.staging[r] = d]}
           /\ run' = [run EXCEPT ![r] = Handler(r)]
  <2>1. run' = [run EXCEPT ![r] = swept]
    BY <1>3, <1>7 DEF Handler, Uploading
  <2>2. swept \in RunRecord /\ run'[r] = swept
    BY <1>2, <2>1 DEF RunRecord
  <2>3. Directories(r)'
    BY <2>2, <1>2, <1>3 DEF Directories, Uploading, RunRecord
  <2> HIDE DEF swept
  <2> QED
    BY <1>1, <1>2, <1>5, <1>7, <2>1, <2>2, <2>3, QuietStep DEF Over
<1> QED
  BY <1>6, <1>7 DEF Upload, Call, d

LEMMA UploadedStep ==
    ASSUME StagingInv, NEW r \in Runs, Uploaded(r) PROVE StagingInv'
<1> DEFINE rec == [run[r] EXCEPT !.at = "check"]
<1>1. /\ run[r].at = "upload" /\ ~HasFile(r) /\ UNCHANGED <<fs, served>>
      /\ run' = [run EXCEPT ![r] = rec]
  BY DEF Uploaded
<1>2. /\ \A q \in Runs : run[q].at \notin Over => q = r
      /\ Directories(r) /\ run[r] \in RunRecord /\ run \in [Runs -> RunRecord]
      /\ Missing \in Directory
  BY <1>1, ActiveRun, SnapshotIdentity DEF Over
<1>3. Uploading(r) /\ run[r].next = FileCount + 1 /\ FileCount \in Nat \ {0}
  <2>1. Uploading(r)
    BY <1>1, <1>2 DEF Directories
  <2>2. run[r].next \in 1..(FileCount + 1) /\ ~(run[r].next <= FileCount)
    BY <1>1, <1>2 DEF HasFile, RunRecord
  <2> QED
    BY <2>1, <2>2, StagingConstants
<1>4. fs.staging[r] = Snapshot(r)
  BY <1>3 DEF Uploading, UploadedSoFar, Snapshot
<1>5. rec \in RunRecord /\ run'[r] = rec
  BY <1>1, <1>2 DEF RunRecord
<1>6. Directories(r)'
  BY <1>1, <1>2, <1>3, <1>4, <1>5
     DEF Directories, Swapping, Uploading, RunRecord, Snapshot
<1> HIDE DEF rec
<1> QED
  BY <1>1, <1>2, <1>5, <1>6, QuietStep DEF Over

LEMMA CheckTargetStep ==
    ASSUME StagingInv, NEW r \in Runs, CheckTarget(r) PROVE StagingInv'
<1> DEFINE looked == [run[r] EXCEPT !.at = IF fs.target = Missing THEN "promote"
                                           ELSE "back up",
                                    !.found = fs.target]
           swept == [run[r] EXCEPT !.at = "sweep"]
<1>1. /\ run[r].at = "check" /\ UNCHANGED <<fs, served>>
      /\ \/ run' = [run EXCEPT ![r] = looked]
         \/ run' = [run EXCEPT ![r] = Handler(r)]
  BY DEF CheckTarget, Call
<1>2. /\ \A q \in Runs : run[q].at \notin Over => q = r
      /\ Directories(r) /\ run[r] \in RunRecord /\ run \in [Runs -> RunRecord]
      /\ Missing \in Directory /\ fs.target \in Directory
  BY <1>1, ActiveRun, SnapshotIdentity DEF Over, StagingInv, TypeOK
<1>3. /\ Swapping(r) /\ fs.backup[r] = Missing /\ ~run[r].backed
      /\ ~run[r].rescue /\ ~run[r].unrestored
  BY <1>1, <1>2 DEF Directories, Swapping
<1>4. CASE run' = [run EXCEPT ![r] = looked]
  <2>1. looked \in RunRecord /\ run'[r] = looked
    BY <1>2, <1>4 DEF RunRecord
  <2>2. Directories(r)'
    BY <1>1, <1>2, <1>3, <2>1 DEF Directories, Swapping, RunRecord, Snapshot
  <2> HIDE DEF looked
  <2> QED
    BY <1>1, <1>2, <1>4, <2>1, <2>2, QuietStep DEF Over
<1>5. CASE run' = [run EXCEPT ![r] = Handler(r)]
  <2>1. run' = [run EXCEPT ![r] = swept]
    BY <1>3, <1>5 DEF Handler
  <2>2. swept \in RunRecord /\ run'[r] = swept
    BY <1>2, <2>1 DEF RunRecord
  <2>3. Directories(r)'
    BY <2>2, <1>3 DEF Directories, RunRecord
  <2> HIDE DEF swept
  <2> QED
    BY <1>1, <1>2, <2>1, <2>2, <2>3, QuietStep DEF Over
<1> QED
  BY <1>1, <1>4, <1>5

LEMMA SweepStep ==
    ASSUME StagingInv, NEW r \in Runs, Sweep(r) PROVE StagingInv'
<1> DEFINE rec == [run[r] EXCEPT !.at = "failed"]
<1>1. /\ run[r].at = "sweep" /\ served' = served
      /\ fs' \in {fs, [fs EXCEPT !.staging[r] = Missing]}
      /\ run' = [run EXCEPT ![r] = rec]
  BY DEF Sweep, Call
<1>2. /\ \A q \in Runs : run[q].at \notin Over => q = r
      /\ run[r] \in RunRecord /\ run \in [Runs -> RunRecord]
      /\ Missing \in Directory
  BY <1>1, ActiveRun, SnapshotIdentity DEF Over
<1>3. rec \in RunRecord /\ run'[r] = rec
  BY <1>1, <1>2 DEF RunRecord
<1>4. Directories(r)'
  BY <1>2, <1>3 DEF Directories, RunRecord
<1> HIDE DEF rec
<1> QED
  BY <1>1, <1>2, <1>3, <1>4, QuietStep DEF Over

LEMMA DieStep ==
    ASSUME StagingInv, NEW r \in Runs, Die(r) PROVE StagingInv'
<1> DEFINE rec == [run[r] EXCEPT !.at = "dead"]
<1>1. /\ run[r].at \notin Over /\ UNCHANGED <<fs, served>>
      /\ run' = [run EXCEPT ![r] = rec]
  BY DEF Die
<1>2. /\ \A q \in Runs : run[q].at \notin Over => q = r
      /\ run[r] \in RunRecord /\ run \in [Runs -> RunRecord]
      /\ run[r].at # "done" /\ Missing \in Directory
  BY <1>1, ActiveRun, SnapshotIdentity
<1>3. rec \in RunRecord /\ run'[r] = rec
  BY <1>1, <1>2 DEF RunRecord
<1>4. Directories(r)'
  BY <1>2, <1>3 DEF Directories, RunRecord
<1> HIDE DEF rec
<1> QED
  BY <1>1, <1>2, <1>3, <1>4, QuietStep

--------------------------------------------------------------------------------
(* The steps that move directories. *)

LEMMA BackUpStep ==
    ASSUME StagingInv, NEW r \in Runs, BackUp(r) PROVE StagingInv'
<1> DEFINE after == [fs EXCEPT !.backup[r] = Moved(@, fs.target),
                               !.target = Missing]
           moved == [run[r] EXCEPT !.at = "promote", !.backed = TRUE]
           swept == [run[r] EXCEPT !.at = "sweep"]
<1>1. /\ run[r].at = "back up" /\ served' = served
      /\ \/ fs' = after /\ run' = [run EXCEPT ![r] = moved]
         \/ fs' \in {fs, after} /\ run' = [run EXCEPT ![r] = Handler(r)]
  BY DEF BackUp, Call
<1>2. /\ \A q \in Runs : run[q].at \notin Over => q = r
      /\ Directories(r) /\ run[r] \in RunRecord /\ run \in [Runs -> RunRecord]
      /\ Missing \in Directory
      /\ fs \in [target : Directory, staging : [Runs -> Directory],
                 backup : [Runs -> Directory]]
  BY <1>1, ActiveRun, SnapshotIdentity DEF Over, StagingInv, TypeOK
<1>3. /\ fs.staging[r] = Snapshot(r) /\ fs.backup[r] = Missing
      /\ ~run[r].backed /\ ~run[r].rescue /\ ~run[r].unrestored
      /\ fs.target = run[r].found /\ Whole(fs.target)
  BY <1>1, <1>2 DEF Directories, Swapping, StagingInv
<1>4. /\ after.target = Missing /\ after.staging = fs.staging
      /\ after.backup = [fs.backup EXCEPT ![r] = fs.target]
      /\ after \in [target : Directory, staging : [Runs -> Directory],
                    backup : [Runs -> Directory]]
  <2>1. Moved(fs.backup[r], fs.target) = fs.target
    BY <1>3 DEF Moved
  <2> QED
    BY <1>2, <2>1
<1> HIDE DEF after
<1>5. CASE fs' = after
  <2>1. SnapshotKept'
    <3>1. SUFFICES ASSUME served # None PROVE SnapshotKept'
      BY <1>1 DEF SnapshotKept
    <3>2. PICK x \in Runs : \/ fs.target = Snapshot(x)
                            \/ \E q \in Runs : fs.backup[q] = Snapshot(x)
      BY <3>1 DEF StagingInv, SnapshotKept
    <3>3. CASE fs.target = Snapshot(x)
      <4>1. fs'.backup[r] = Snapshot(x)
        BY <1>2, <1>4, <1>5, <3>3
      <4> QED
        BY <4>1 DEF SnapshotKept, Snapshot
    <3>4. CASE \E q \in Runs : fs.backup[q] = Snapshot(x)
      <4>1. PICK q \in Runs : fs.backup[q] = Snapshot(x)
        BY <3>4
      <4>2. q # r
        BY <4>1, <1>3, SnapshotIdentity
      <4>3. fs'.backup[q] = Snapshot(x)
        BY <1>2, <1>4, <1>5, <4>1, <4>2
      <4> QED
        BY <4>3 DEF SnapshotKept, Snapshot
    <3> QED
      BY <3>2, <3>3, <3>4
  <2>2. /\ \A q \in Runs \ {r} : /\ fs'.staging[q] = fs.staging[q]
                                /\ fs'.backup[q] = fs.backup[q]
        /\ fs'.backup[r] = fs.target /\ fs'.target = Missing
        /\ fs'.staging[r] = fs.staging[r]
    BY <1>2, <1>4, <1>5
  <2>3. CASE run' = [run EXCEPT ![r] = moved]
    <3>1. moved \in RunRecord /\ run'[r] = moved
      BY <1>2, <2>3 DEF RunRecord
    <3>2. /\ run'[r].at = "promote" /\ run'[r].found = run[r].found
          /\ ~run'[r].rescue /\ ~run'[r].unrestored
      BY <1>2, <1>3, <3>1 DEF RunRecord
    <3>3. Swapping(r)'
      BY <1>3, <2>2, <3>2 DEF Swapping, Whole, Snapshot, Missing
    <3>4. Directories(r)'
      BY <3>2, <3>3 DEF Directories
    <3> HIDE DEF moved
    <3> QED
      BY <1>1, <1>2, <1>3, <1>4, <1>5, <2>1, <2>2, <2>3, <3>1, <3>4,
         StepKeepsInvariant
  <2>4. CASE run' = [run EXCEPT ![r] = Handler(r)]
    <3>1. run' = [run EXCEPT ![r] = swept]
      BY <1>3, <2>4 DEF Handler
    <3>2. swept \in RunRecord /\ run'[r] = swept
      BY <1>2, <3>1 DEF RunRecord
    <3>3. Directories(r)'
      BY <1>3, <3>2 DEF Directories, RunRecord
    <3> HIDE DEF swept
    <3> QED
      BY <1>1, <1>2, <1>3, <1>4, <1>5, <2>1, <2>2, <3>1, <3>2, <3>3,
         StepKeepsInvariant
  <2> QED
    BY <1>1, <2>3, <2>4
<1>6. CASE fs' = fs /\ run' = [run EXCEPT ![r] = Handler(r)]
  <2>1. run' = [run EXCEPT ![r] = swept]
    BY <1>3, <1>6 DEF Handler
  <2>2. swept \in RunRecord /\ run'[r] = swept
    BY <1>2, <2>1 DEF RunRecord
  <2>3. Directories(r)'
    BY <1>3, <2>2 DEF Directories, RunRecord
  <2> HIDE DEF swept
  <2> QED
    BY <1>1, <1>2, <1>6, <2>1, <2>2, <2>3, QuietStep DEF Over
<1> QED
  BY <1>1, <1>5, <1>6

(* A raise inside the swap, once the target has been moved aside. *)
LEMMA RescueRecord ==
    ASSUME StagingInv, NEW r \in Runs, run[r].at = "promote", run[r].backed,
           run' = [run EXCEPT ![r] = Handler(r)],
           fs'.backup[r] = fs.backup[r],
           fs'.target \in {Missing, Snapshot(r)}
    PROVE  Handler(r) \in RunRecord /\ Directories(r)'
<1>1. Directories(r) /\ run[r] \in RunRecord /\ run \in [Runs -> RunRecord]
  BY ActiveRun DEF Over
<1>2. /\ Handler(r) = [run[r] EXCEPT !.at = "look", !.rescue = TRUE]
      /\ run'[r] = Handler(r)
  BY <1>1 DEF Handler
<1>3. Handler(r) \in RunRecord
  BY <1>1, <1>2 DEF RunRecord
<1>4. fs.backup[r] = run[r].found /\ Whole(run[r].found) /\ ~run[r].unrestored
  BY <1>1 DEF Directories, Swapping
<1>5. /\ run'[r].at = "look" /\ run'[r].found = run[r].found
      /\ ~run'[r].unrestored
  BY <1>1, <1>2, <1>4 DEF RunRecord
<1>6. RollingBack(r)'
  BY <1>4, <1>5 DEF RollingBack, Whole, Snapshot, Missing
<1> QED
  BY <1>3, <1>5, <1>6 DEF Directories

LEMMA PromoteStep ==
    ASSUME StagingInv, NEW r \in Runs, Promote(r) PROVE StagingInv'
<1> DEFINE after == [fs EXCEPT !.target = Moved(@, fs.staging[r]),
                               !.staging[r] = Missing]
           moved == [run[r] EXCEPT !.at = "tidy"]
           swept == [run[r] EXCEPT !.at = "sweep"]
<1>1. /\ run[r].at = "promote" /\ served' = served
      /\ \/ fs' = after /\ run' = [run EXCEPT ![r] = moved]
         \/ fs' \in {fs, after} /\ run' = [run EXCEPT ![r] = Handler(r)]
  BY DEF Promote, Call
<1>2. /\ \A q \in Runs : run[q].at \notin Over => q = r
      /\ Directories(r) /\ run[r] \in RunRecord /\ run \in [Runs -> RunRecord]
      /\ Missing \in Directory
      /\ fs \in [target : Directory, staging : [Runs -> Directory],
                 backup : [Runs -> Directory]]
  BY <1>1, ActiveRun, SnapshotIdentity DEF Over, StagingInv, TypeOK
<1>3. /\ fs.staging[r] = Snapshot(r) /\ fs.target = Missing
      /\ ~run[r].rescue /\ ~run[r].unrestored
  BY <1>1, <1>2 DEF Directories, Swapping
<1>4. /\ after.target = Snapshot(r) /\ after.backup = fs.backup
      /\ after.staging = [fs.staging EXCEPT ![r] = Missing]
      /\ after \in [target : Directory, staging : [Runs -> Directory],
                    backup : [Runs -> Directory]]
  <2>1. Moved(fs.target, fs.staging[r]) = Snapshot(r)
    BY <1>3 DEF Moved
  <2> QED
    BY <1>2, <2>1, SnapshotIdentity
<1> HIDE DEF after
<1>5. /\ fs' \in {fs, after}
      /\ fs'.backup = fs.backup /\ fs'.target \in {Missing, Snapshot(r)}
      /\ \A q \in Runs \ {r} : /\ fs'.staging[q] = fs.staging[q]
                              /\ fs'.backup[q] = fs.backup[q]
      /\ fs' \in [target : Directory, staging : [Runs -> Directory],
                  backup : [Runs -> Directory]]
      /\ fs'.target # Missing => Whole(fs'.target)
      /\ fs'.backup[r] # Missing => Whole(fs'.backup[r])
  BY <1>1, <1>2, <1>3, <1>4 DEF Whole, StagingInv
<1>6. SnapshotKept'
  <2>1. SUFFICES ASSUME served # None PROVE SnapshotKept'
    BY <1>1 DEF SnapshotKept
  <2>2. PICK x \in Runs : \/ fs.target = Snapshot(x)
                          \/ \E q \in Runs : fs.backup[q] = Snapshot(x)
    BY <2>1 DEF StagingInv, SnapshotKept
  <2>3. \E q \in Runs : fs.backup[q] = Snapshot(x)
    BY <2>2, <1>3, SnapshotIdentity
  <2> QED
    BY <2>3, <1>5 DEF SnapshotKept, Snapshot
<1>7. CASE fs' = after /\ run' = [run EXCEPT ![r] = moved]
  <2>1. moved \in RunRecord /\ run'[r] = moved
    BY <1>2, <1>7 DEF RunRecord
  <2>2. Directories(r)'
    BY <1>3, <1>4, <1>7, <2>1 DEF Directories, RunRecord, Snapshot
  <2> HIDE DEF moved
  <2> QED
    BY <1>1, <1>2, <1>5, <1>6, <1>7, <2>1, <2>2, StepKeepsInvariant
<1>8. CASE run' = [run EXCEPT ![r] = Handler(r)]
  <2>1. CASE run[r].backed
    <3>1. Handler(r) \in RunRecord /\ Directories(r)'
      BY <1>1, <1>5, <1>8, <2>1, RescueRecord
    <3> QED
      BY <1>1, <1>2, <1>5, <1>6, <1>8, <3>1, StepKeepsInvariant
  <2>2. CASE ~run[r].backed
    <3>1. run' = [run EXCEPT ![r] = swept]
      BY <1>8, <2>2 DEF Handler
    <3>2. swept \in RunRecord /\ run'[r] = swept
      BY <1>2, <3>1 DEF RunRecord
    <3>3. Directories(r)'
      BY <1>3, <3>2 DEF Directories, RunRecord
    <3> HIDE DEF swept
    <3> QED
      BY <1>1, <1>2, <1>5, <1>6, <3>1, <3>2, <3>3, StepKeepsInvariant
  <2> QED
    BY <2>1, <2>2
<1> QED
  BY <1>1, <1>7, <1>8

LEMMA TidyStep ==
    ASSUME StagingInv, NEW r \in Runs, Tidy(r) PROVE StagingInv'
<1> DEFINE rec == [run[r] EXCEPT !.at = "done"]
<1>1. /\ run[r].at = "tidy" /\ served' = r
      /\ fs' \in {fs, [fs EXCEPT !.backup[r] = Missing]}
      /\ run' = [run EXCEPT ![r] = rec]
  BY DEF Tidy
<1>2. /\ \A q \in Runs : run[q].at \notin Over => q = r
      /\ Directories(r) /\ run[r] \in RunRecord /\ run \in [Runs -> RunRecord]
      /\ Missing \in Directory
      /\ fs \in [target : Directory, staging : [Runs -> Directory],
                 backup : [Runs -> Directory]]
  BY <1>1, ActiveRun, SnapshotIdentity DEF Over, StagingInv, TypeOK
<1>3. fs.target = Snapshot(r)
  BY <1>1, <1>2 DEF Directories
<1>4. /\ fs'.target = Snapshot(r) /\ fs'.staging = fs.staging
      /\ fs'.backup[r] \in {fs.backup[r], Missing}
      /\ \A q \in Runs \ {r} : fs'.backup[q] = fs.backup[q]
      /\ fs' \in [target : Directory, staging : [Runs -> Directory],
                  backup : [Runs -> Directory]]
  BY <1>1, <1>2, <1>3
<1>5. SnapshotKept'
  BY <1>4 DEF SnapshotKept, Snapshot
<1>6. /\ rec \in RunRecord /\ run'[r] = rec /\ rec.at = "done"
      /\ run[r].at # "done"
  BY <1>1, <1>2 DEF RunRecord
<1>7. Directories(r)'
  BY <1>6 DEF Directories
<1>8. /\ fs'.target # Missing => Whole(fs'.target)
      /\ fs'.backup[r] # Missing => Whole(fs'.backup[r])
  BY <1>4 DEF Whole, StagingInv
<1> HIDE DEF rec
<1> QED
  BY <1>1, <1>2, <1>4, <1>5, <1>6, <1>7, <1>8, StepKeepsInvariant

(* A rollback that gives up is over. *)
LEMMA UnrestoredRecord ==
    ASSUME StagingInv, NEW r \in Runs, run[r].at \notin Over,
           run' = [run EXCEPT ![r] = Unrestored(r)]
    PROVE  Unrestored(r) \in RunRecord /\ Directories(r)'
<1>1. run[r] \in RunRecord /\ run \in [Runs -> RunRecord]
  BY ActiveRun
<1>2. Unrestored(r) \in RunRecord /\ run'[r] = Unrestored(r)
  BY <1>1 DEF Unrestored, RunRecord
<1>3. run'[r].at = "sweep" /\ run'[r].unrestored
  BY <1>1, <1>2 DEF Unrestored, RunRecord
<1> QED
  BY <1>2, <1>3 DEF Directories

LEMMA LookForTargetStep ==
    ASSUME StagingInv, NEW r \in Runs, LookForTarget(r) PROVE StagingInv'
<1> DEFINE looked == [run[r] EXCEPT !.at = IF fs.target = Missing THEN "restore"
                                           ELSE "discard"]
<1>1. /\ run[r].at = "look" /\ UNCHANGED <<fs, served>>
      /\ \/ run' = [run EXCEPT ![r] = looked]
         \/ run' = [run EXCEPT ![r] = Unrestored(r)]
  BY DEF LookForTarget, Call
<1>2. /\ \A q \in Runs : run[q].at \notin Over => q = r
      /\ Directories(r) /\ run[r] \in RunRecord /\ run \in [Runs -> RunRecord]
      /\ Missing \in Directory
  BY <1>1, ActiveRun, SnapshotIdentity DEF Over
<1>3. RollingBack(r) /\ fs.target \in {Missing, Snapshot(r)}
  BY <1>1, <1>2 DEF Directories, RollingBack
<1>4. CASE run' = [run EXCEPT ![r] = looked]
  <2>1. looked \in RunRecord /\ run'[r] = looked
    BY <1>2, <1>4 DEF RunRecord
  <2>2. /\ run'[r].at \in {"restore", "discard"} /\ run'[r].found = run[r].found
        /\ ~run'[r].unrestored
        /\ run'[r].at = "restore" <=> fs.target = Missing
    BY <1>2, <1>3, <2>1, ZenonT(60) DEF RunRecord, RollingBack
  <2>3. RollingBack(r)'
    BY <1>1, <1>3, <2>2 DEF RollingBack, Whole, Snapshot, Missing
  <2>4. Directories(r)'
    BY <2>2, <2>3 DEF Directories
  <2> HIDE DEF looked
  <2> QED
    BY <1>1, <1>2, <1>4, <2>1, <2>4, QuietStep
<1>5. CASE run' = [run EXCEPT ![r] = Unrestored(r)]
  BY <1>1, <1>2, <1>5, UnrestoredRecord, QuietStep DEF Over
<1> QED
  BY <1>1, <1>4, <1>5

LEMMA DiscardTargetStep ==
    ASSUME StagingInv, NEW r \in Runs, DiscardTarget(r) PROVE StagingInv'
<1> DEFINE after == [fs EXCEPT !.target = Missing]
           gone == [run[r] EXCEPT !.at = "restore"]
<1>1. /\ run[r].at = "discard" /\ served' = served
      /\ \/ fs' = after /\ run' = [run EXCEPT ![r] = gone]
         \/ fs' \in {fs, after} /\ run' = [run EXCEPT ![r] = Unrestored(r)]
  BY DEF DiscardTarget, Call
<1>2. /\ \A q \in Runs : run[q].at \notin Over => q = r
      /\ Directories(r) /\ run[r] \in RunRecord /\ run \in [Runs -> RunRecord]
      /\ Missing \in Directory
      /\ fs \in [target : Directory, staging : [Runs -> Directory],
                 backup : [Runs -> Directory]]
  BY <1>1, ActiveRun, SnapshotIdentity DEF Over, StagingInv, TypeOK
<1>3. RollingBack(r) /\ fs.backup[r] = run[r].found /\ Whole(fs.backup[r])
  BY <1>1, <1>2 DEF Directories, RollingBack
<1>4. /\ fs' \in {fs, after} /\ fs'.target \in {fs.target, Missing}
      /\ fs'.backup = fs.backup /\ fs'.staging = fs.staging
      /\ fs' \in [target : Directory, staging : [Runs -> Directory],
                  backup : [Runs -> Directory]]
  BY <1>1, <1>2
<1>5. /\ fs'.target # Missing => Whole(fs'.target)
      /\ fs'.backup[r] # Missing => Whole(fs'.backup[r])
  BY <1>3, <1>4 DEF StagingInv
<1>6. SnapshotKept'
  BY <1>3, <1>4 DEF SnapshotKept, Whole, Snapshot
<1>7. CASE fs' = after /\ run' = [run EXCEPT ![r] = gone]
  <2>1. gone \in RunRecord /\ run'[r] = gone
    BY <1>2, <1>7 DEF RunRecord
  <2>2. /\ run'[r].at = "restore" /\ run'[r].found = run[r].found
        /\ ~run'[r].unrestored /\ fs'.target = Missing
    BY <1>2, <1>3, <1>7, <2>1 DEF RunRecord, RollingBack
  <2>3. RollingBack(r)'
    BY <1>3, <1>4, <2>2 DEF RollingBack, Whole, Snapshot, Missing
  <2>4. Directories(r)'
    BY <2>2, <2>3 DEF Directories
  <2> HIDE DEF gone, after
  <2> QED
    BY <1>1, <1>2, <1>4, <1>5, <1>6, <1>7, <2>1, <2>4, StepKeepsInvariant
<1>8. CASE run' = [run EXCEPT ![r] = Unrestored(r)]
  <2>1. Unrestored(r) \in RunRecord /\ Directories(r)'
    BY <1>1, <1>8, UnrestoredRecord DEF Over
  <2> HIDE DEF gone, after
  <2> QED
    BY <1>1, <1>2, <1>4, <1>5, <1>6, <1>8, <2>1, StepKeepsInvariant
<1> QED
  BY <1>1, <1>7, <1>8

LEMMA RestoreBackupStep ==
    ASSUME StagingInv, NEW r \in Runs, RestoreBackup(r) PROVE StagingInv'
<1> DEFINE after == [fs EXCEPT !.target = Moved(@, fs.backup[r]),
                               !.backup[r] = Missing]
           back == [run[r] EXCEPT !.at = "sweep", !.backed = FALSE]
<1>1. /\ run[r].at = "restore" /\ served' = served
      /\ \/ fs' = after /\ run' = [run EXCEPT ![r] = back]
         \/ fs' \in {fs, after} /\ run' = [run EXCEPT ![r] = Unrestored(r)]
  BY DEF RestoreBackup, Call
<1>2. /\ \A q \in Runs : run[q].at \notin Over => q = r
      /\ Directories(r) /\ run[r] \in RunRecord /\ run \in [Runs -> RunRecord]
      /\ Missing \in Directory
      /\ fs \in [target : Directory, staging : [Runs -> Directory],
                 backup : [Runs -> Directory]]
  BY <1>1, ActiveRun, SnapshotIdentity DEF Over, StagingInv, TypeOK
<1>3. /\ fs.backup[r] = run[r].found /\ Whole(fs.backup[r])
      /\ fs.target = Missing
  BY <1>1, <1>2 DEF Directories, RollingBack
<1>4. /\ after.target = fs.backup[r] /\ after.staging = fs.staging
      /\ after.backup = [fs.backup EXCEPT ![r] = Missing]
      /\ after \in [target : Directory, staging : [Runs -> Directory],
                    backup : [Runs -> Directory]]
  <2>1. Moved(fs.target, fs.backup[r]) = fs.backup[r]
    BY <1>3 DEF Moved
  <2>2. fs.backup[r] \in Directory
    BY <1>2
  <2> QED
    BY <1>2, <2>1, <2>2
<1> HIDE DEF after
<1>5. /\ fs' \in {fs, after}
      /\ fs'.target # Missing => Whole(fs'.target)
      /\ fs'.backup[r] # Missing => Whole(fs'.backup[r])
      /\ \A q \in Runs \ {r} : /\ fs'.staging[q] = fs.staging[q]
                              /\ fs'.backup[q] = fs.backup[q]
      /\ fs' \in [target : Directory, staging : [Runs -> Directory],
                  backup : [Runs -> Directory]]
  BY <1>1, <1>2, <1>3, <1>4
<1>6. SnapshotKept'
  <2>1. PICK x \in Runs : fs.backup[r] = Snapshot(x)
    BY <1>3 DEF Whole
  <2>2. fs'.target = Snapshot(x) \/ fs'.backup[r] = Snapshot(x)
    BY <1>4, <1>5, <2>1
  <2> QED
    BY <2>2 DEF SnapshotKept, Snapshot
<1>7. CASE fs' = after /\ run' = [run EXCEPT ![r] = back]
  <2>1. back \in RunRecord /\ run'[r] = back
    BY <1>2, <1>7 DEF RunRecord
  <2>2. run'[r].at = "sweep" /\ run'[r].found = run[r].found
    BY <1>2, <2>1 DEF RunRecord
  <2>3. Directories(r)'
    BY <1>3, <1>4, <1>7, <2>2 DEF Directories
  <2> HIDE DEF back
  <2> QED
    BY <1>1, <1>2, <1>5, <1>6, <1>7, <2>1, <2>3, StepKeepsInvariant
<1>8. CASE run' = [run EXCEPT ![r] = Unrestored(r)]
  <2>1. Unrestored(r) \in RunRecord /\ Directories(r)'
    BY <1>1, <1>8, UnrestoredRecord DEF Over
  <2> QED
    BY <1>1, <1>2, <1>5, <1>6, <1>8, <2>1, StepKeepsInvariant
<1> QED
  BY <1>1, <1>7, <1>8

--------------------------------------------------------------------------------
LEMMA InitStaging == Init => StagingInv
<1> SUFFICES ASSUME Init PROVE StagingInv
  OBVIOUS
<1>1. TypeOK
  <2>1. Missing \in Directory /\ 1 \in 1..(FileCount + 1)
    BY SnapshotIdentity, StagingConstants
  <2> QED
    BY <2>1 DEF Init, TypeOK, RunRecord
<1>2. ASSUME NEW r \in Runs PROVE Directories(r)
  BY DEF Init, Directories, Uploading, UploadedSoFar
<1>3. Alone
  BY DEF Init, Alone, Over
<1> QED
  BY <1>1, <1>2, <1>3 DEF Init, StagingInv, SnapshotKept

LEMMA StutterStaging == StagingInv /\ UNCHANGED vars => StagingInv'
<1> SUFFICES ASSUME StagingInv, UNCHANGED <<fs, run, served>> PROVE StagingInv'
  BY DEF vars
<1>1. ASSUME NEW r \in Runs PROVE Directories(r)'
  <2>1. Directories(r)
    BY DEF StagingInv
  <2>2. Uploading(r)' <=> Uploading(r)
    BY DEF Uploading, UploadedSoFar, Missing
  <2>3. Swapping(r)' <=> Swapping(r)
    BY DEF Swapping, Whole, Snapshot, Missing
  <2>4. RollingBack(r)' <=> RollingBack(r)
    BY DEF RollingBack, Whole, Snapshot, Missing
  <2> QED
    BY <2>1, <2>2, <2>3, <2>4 DEF Directories, Snapshot
<1>2. TypeOK' /\ Alone'
  BY DEF StagingInv, TypeOK, Alone
<1> QED
  BY <1>1, <1>2 DEF StagingInv, SnapshotKept, Whole, Snapshot, Missing

LEMMA NextStaging == StagingInv /\ [Next]_vars => StagingInv'
<1> SUFFICES ASSUME StagingInv, [Next]_vars PROVE StagingInv'
  OBVIOUS
<1>1. CASE UNCHANGED vars
  BY <1>1, StutterStaging
<1>2. ASSUME NEW r \in Runs, RunStep(r) PROVE StagingInv'
  BY <1>2, BeginStep, RefuseStep, UploadStep, UploadedStep, CheckTargetStep,
     BackUpStep, PromoteStep, TidyStep, LookForTargetStep, DiscardTargetStep,
     RestoreBackupStep, SweepStep, DieStep DEF RunStep
<1> QED
  BY <1>1, <1>2 DEF Next

THEOREM StagingInvariant == Spec => []StagingInv
BY InitStaging, NextStaging, PTL DEF Spec

(* The directories, the runs and the history variable keep their types. *)
THEOREM StagingTyping == Spec => []TypeOK
<1>1. StagingInv => TypeOK
  BY DEF StagingInv
<1> QED
  BY <1>1, StagingInvariant, PTL

(* stage_interactions never leaves a mixed or partial target, whatever call     *)
(* raises, applied or not, and wherever a process is lost.                    *)
THEOREM StagingTargetWhole == Spec => []TargetWhole
<1>1. StagingInv => TargetWhole
  BY DEF StagingInv, TargetWhole, Whole
<1> QED
  BY <1>1, StagingInvariant, PTL

(* A served snapshot is only deleted when another whole one is at the target or *)
(* in a backup.                                                              *)
THEOREM StagingSnapshotKept == Spec => []SnapshotKept
<1>1. StagingInv => SnapshotKept
  BY DEF StagingInv
<1> QED
  BY <1>1, StagingInvariant, PTL

(* The except clause of stage_interactions restores what its run moved aside,   *)
(* or warns.                                                                 *)
THEOREM StagingRollbackRestores == Spec => []RollbackRestores
<1>1. StagingInv => RollbackRestores
  BY DEF StagingInv, RollbackRestores, Directories
<1> QED
  BY <1>1, StagingInvariant, PTL

(* The step that moves a served snapshot away moves it to a backup. *)
LEMMA ServedStep ==
    ASSUME StagingInv, NEW r \in Runs, RunStep(r),
           served # None, fs.target = Snapshot(served), fs'.target # fs.target
    PROVE  \E q \in Runs : fs'.backup[q] = Snapshot(served)
<1>1. /\ fs \in [target : Directory, staging : [Runs -> Directory],
                 backup : [Runs -> Directory]]
      /\ served \in Runs /\ run[served].at = "done" /\ fs.target # Missing
      /\ Missing \in Directory
  BY SnapshotIdentity DEF StagingInv, TypeOK
<1>2. CASE BackUp(r)
  <2>1. /\ run[r].at = "back up"
        /\ fs' \in {fs, [fs EXCEPT !.backup[r] = Moved(@, fs.target),
                                   !.target = Missing]}
    BY <1>2 DEF BackUp, Call
  <2>2. fs.backup[r] = Missing
    BY <2>1 DEF StagingInv, Directories, Swapping
  <2>3. Moved(fs.backup[r], fs.target) = Snapshot(served)
    BY <2>2 DEF Moved
  <2>4. fs'.backup[r] = Snapshot(served)
    BY <1>1, <2>1, <2>3
  <2> QED
    BY <2>4
<1>3. CASE Promote(r)
  BY <1>1, <1>3 DEF Promote, StagingInv, Directories, Swapping
<1>4. CASE DiscardTarget(r)
  <2>1. run[r].at = "discard" /\ fs.target = Snapshot(r)
    BY <1>4 DEF DiscardTarget, StagingInv, Directories, RollingBack
  <2>2. r = served
    BY <1>1, <2>1, SnapshotIdentity
  <2> QED
    BY <1>1, <2>1, <2>2
<1>5. CASE RestoreBackup(r)
  BY <1>1, <1>5 DEF RestoreBackup, StagingInv, Directories, RollingBack
<1>6. CASE Upload(r)
  <2>1. fs'.target = fs.target
    BY <1>1, <1>6 DEF Upload, Call
  <2> QED
    BY <2>1
<1>7. CASE Tidy(r)
  <2>1. fs'.target = fs.target
    BY <1>1, <1>7 DEF Tidy
  <2> QED
    BY <2>1
<1>8. CASE Sweep(r)
  <2>1. fs'.target = fs.target
    BY <1>1, <1>8 DEF Sweep, Call
  <2> QED
    BY <2>1
<1>9. CASE \/ Begin(r) \/ Refuse(r) \/ Uploaded(r) \/ CheckTarget(r)
           \/ LookForTarget(r) \/ Die(r)
  BY <1>9 DEF Begin, Refuse, Uploaded, CheckTarget, LookForTarget, Die, Call
<1> QED
  BY <1>2, <1>3, <1>4, <1>5, <1>6, <1>7, <1>8, <1>9 DEF RunStep

(* A completed run's snapshot is at the target when the run completes, and      *)
(* stays until another run has it in its backup.                             *)
THEOREM StagingServedMovesToBackup == Spec => ServedMovesToBackup
<1> DEFINE Allowed ==
      /\ served' # served => fs'.target = Snapshot(served')
      /\ served # None /\ fs.target = Snapshot(served) /\ fs'.target # fs.target
             => \E r \in Runs : fs'.backup[r] = Snapshot(served)
<1>1. StagingInv /\ [Next]_vars => [Allowed]_vars
  <2> SUFFICES ASSUME StagingInv, NEW r \in Runs, RunStep(r) PROVE Allowed
    BY DEF Next
  <2>1. ASSUME served' # served PROVE fs'.target = Snapshot(served')
    <3>1. Tidy(r)
      BY <2>1 DEF RunStep, Begin, Refuse, Upload, Uploaded, CheckTarget, BackUp,
                  Promote, LookForTarget, DiscardTarget, RestoreBackup, Sweep,
                  Die, Call
    <3>2. served' = r /\ fs.target = Snapshot(r)
      BY <3>1 DEF Tidy, StagingInv, Directories
    <3>3. fs'.target = fs.target
      BY <3>1 DEF Tidy, StagingInv, TypeOK
    <3> QED
      BY <3>2, <3>3
  <2> QED
    BY <2>1, ServedStep
<1> QED
  BY <1>1, StagingInvariant, PTL DEF Spec, ServedMovesToBackup
================================================================================
