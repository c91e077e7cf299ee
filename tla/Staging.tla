-------------------------------- MODULE Staging --------------------------------
(***************************************************************************)
(* Replacement of the interactions snapshot in HDFS (stage_interactions,      *)
(* src/module1/stage_hdfs.py).  A run uploads its files to a staging          *)
(* directory of its own, moves the present target to a backup of its own,     *)
(* moves the staging directory to the target and deletes the backup.  Any      *)
(* call may raise, applied or not, and the process may be lost at any point.   *)
(*                                                                         *)
(* Assumed: runs follow one another (nothing in the code excludes two at a     *)
(* time), and a call that raised is applied by then or never.                 *)
(***************************************************************************)
EXTENDS Integers

CONSTANTS
    Runs,       \* calls of stage_interactions, each with its transaction_id
    FileCount,  \* the files of a snapshot, the last of them _handoff.json
    None

ASSUME StagingConstants ==
    /\ FileCount \in Nat \ {0}
    /\ None \notin Runs \cup (Runs \X (1..FileCount))

VARIABLES
    fs,      \* the target and the staging and backup directories of each run
    run,     \* where each run is, and its local variables
    served   \* history: the run whose snapshot the last completed run served

vars == <<fs, run, served>>

(* A directory, as the files it holds and the run each comes from; a path that  *)
(* does not exist.                                                           *)
Missing == {None}
Directory == (SUBSET (Runs \X (1..FileCount))) \cup {Missing}
Snapshot(r) == {r} \X (1..FileCount)

(* next: the file to upload; backed: target_backed_up; found: what the target  *)
(* held when the run looked; rescue: it failed after its backup; unrestored:   *)
(* the rollback has failed, and said so.                                     *)
RunRecord ==
    [at : {"idle", "upload", "check", "back up", "promote", "tidy", "look",
           "discard", "restore", "sweep", "done", "failed", "dead"},
     next : 1..(FileCount + 1), backed : BOOLEAN,
     found : Directory, rescue : BOOLEAN, unrestored : BOOLEAN]

TypeOK ==
    /\ fs \in [target : Directory,
               staging : [Runs -> Directory],
               backup : [Runs -> Directory]]
    /\ run \in [Runs -> RunRecord]
    /\ served \in Runs \cup {None}

Init ==
    /\ fs = [target |-> Missing, staging |-> [r \in Runs |-> Missing],
             backup |-> [r \in Runs |-> Missing]]
    /\ run = [r \in Runs |->
                 [at |-> "idle", next |-> 1, backed |-> FALSE, found |-> Missing,
                  rescue |-> FALSE, unrestored |-> FALSE]]
    /\ served = None

--------------------------------------------------------------------------------
(* The directory after a rename: one that exists receives the other inside. *)
Moved(dst, src) == IF dst = Missing THEN src ELSE dst \cup src

(* A call of r that leaves the file system in state after: it returns, or it   *)
(* raises, and has been applied or not.                                      *)
Call(r, after, returned, raised) ==
    /\ \/ fs' = after /\ run' = [run EXCEPT ![r] = returned]
       \/ fs' \in {fs, after} /\ run' = [run EXCEPT ![r] = raised]
    /\ UNCHANGED served

(* The except clause: roll back if target_backed_up, then remove the staging   *)
(* directory.  Mutated: it always rolls back.                                *)
Handler_Always(r) == [run[r] EXCEPT !.at = "look", !.rescue = TRUE]
Handler(r) ==
    IF run[r].backed THEN [run[r] EXCEPT !.at = "look", !.rescue = TRUE]
    ELSE [run[r] EXCEPT !.at = "sweep"]

(* The rollback has failed with a warning. *)
Unrestored(r) == [run[r] EXCEPT !.at = "sweep", !.unrestored = TRUE]

Over == {"idle", "done", "failed", "dead"}

--------------------------------------------------------------------------------
Begin(r) ==
    /\ run[r].at = "idle"
    /\ \A q \in Runs : run[q].at \in Over
    /\ run' = [run EXCEPT ![r].at = "upload"]
    /\ UNCHANGED <<fs, served>>

(* partition_events refuses the feed. *)
Refuse(r) ==
    /\ run[r].at = "upload" /\ run[r].next = 1
    /\ run' = [run EXCEPT ![r] = Handler(r)]
    /\ UNCHANGED <<fs, served>>

(* The files in order, _handoff.json last. *)
HasFile(r) == run[r].next <= FileCount

Upload(r) ==
    /\ run[r].at = "upload" /\ HasFile(r)
    /\ Call(r, [fs EXCEPT !.staging[r] = Moved(@, {<<r, run[r].next>>})],
            [run[r] EXCEPT !.next = @ + 1], Handler(r))

Uploaded(r) ==
    /\ run[r].at = "upload" /\ ~HasFile(r)
    /\ run' = [run EXCEPT ![r].at = "check"]
    /\ UNCHANGED <<fs, served>>

CheckTarget(r) ==
    /\ run[r].at = "check"
    /\ Call(r, fs,
            [run[r] EXCEPT !.at = IF fs.target = Missing THEN "promote" ELSE "back up",
                           !.found = fs.target],
            Handler(r))

(* The target is moved aside.  Mutated: it is deleted. *)
BackUp_Delete(r) ==
    /\ run[r].at = "back up"
    /\ Call(r, [fs EXCEPT !.target = Missing],
            [run[r] EXCEPT !.at = "promote", !.backed = TRUE], Handler(r))
BackUp(r) ==
    /\ run[r].at = "back up"
    /\ Call(r, [fs EXCEPT !.backup[r] = Moved(@, fs.target), !.target = Missing],
            [run[r] EXCEPT !.at = "promote", !.backed = TRUE], Handler(r))

Promote(r) ==
    /\ run[r].at = "promote"
    /\ Call(r, [fs EXCEPT !.target = Moved(@, fs.staging[r]), !.staging[r] = Missing],
            [run[r] EXCEPT !.at = "tidy"], Handler(r))

(* The backup goes, if there is one; a failure to delete it is a warning. *)
Tidy(r) ==
    /\ run[r].at = "tidy"
    /\ IF run[r].backed THEN fs' \in {fs, [fs EXCEPT !.backup[r] = Missing]}
       ELSE UNCHANGED fs
    /\ run' = [run EXCEPT ![r].at = "done"]
    /\ served' = r

--------------------------------------------------------------------------------
(* The rollback. *)

(* A target that is there was promoted by this run, and goes first.  Mutated:   *)
(* it is not looked for, or taken for the one to restore.                    *)
LookForTarget_Blind(r) ==
    /\ run[r].at = "look"
    /\ Call(r, fs, [run[r] EXCEPT !.at = "restore"], Unrestored(r))
LookForTarget_Content(r) ==
    /\ run[r].at = "look"
    /\ Call(r, fs,
            [run[r] EXCEPT !.at = IF fs.target = Missing THEN "restore" ELSE "sweep"],
            Unrestored(r))
LookForTarget(r) ==
    /\ run[r].at = "look"
    /\ Call(r, fs,
            [run[r] EXCEPT !.at = IF fs.target = Missing THEN "restore" ELSE "discard"],
            Unrestored(r))

DiscardTarget(r) ==
    /\ run[r].at = "discard"
    /\ Call(r, [fs EXCEPT !.target = Missing],
            [run[r] EXCEPT !.at = "restore"], Unrestored(r))

RestoreBackup(r) ==
    /\ run[r].at = "restore"
    /\ Call(r, [fs EXCEPT !.target = Moved(@, fs.backup[r]), !.backup[r] = Missing],
            [run[r] EXCEPT !.at = "sweep", !.backed = FALSE], Unrestored(r))

(* The staging directory goes, or stays with a warning, and the error is       *)
(* raised again.                                                             *)
Sweep(r) ==
    /\ run[r].at = "sweep"
    /\ Call(r, [fs EXCEPT !.staging[r] = Missing],
            [run[r] EXCEPT !.at = "failed"], [run[r] EXCEPT !.at = "failed"])

(* The process is lost. *)
Die(r) ==
    /\ run[r].at \notin Over
    /\ run' = [run EXCEPT ![r].at = "dead"]
    /\ UNCHANGED <<fs, served>>

RunStep(r) ==
    \/ Begin(r) \/ Refuse(r) \/ Upload(r) \/ Uploaded(r) \/ CheckTarget(r)
    \/ BackUp(r) \/ Promote(r) \/ Tidy(r) \/ LookForTarget(r)
    \/ DiscardTarget(r) \/ RestoreBackup(r) \/ Sweep(r) \/ Die(r)

Next == \E r \in Runs : RunStep(r)

Spec == Init /\ [][Next]_vars

--------------------------------------------------------------------------------
(* The target is never a mixture or a part of snapshots: whoever reads it       *)
(* finds all files of one run, whatever has failed before.                    *)
TargetWhole ==
    fs.target # Missing => \E r \in Runs : fs.target = Snapshot(r)

(* Once a run has completed, a whole snapshot exists at the target or in a      *)
(* backup at every moment, so that an operator can always restore one.         *)
SnapshotKept ==
    served # None =>
        \E r \in Runs : \/ fs.target = Snapshot(r)
                        \/ \E q \in Runs : fs.backup[q] = Snapshot(r)

(* A rollback that does not warn of its own failure has put the target back as   *)
(* the run found it: also when the promotion raised after it was applied.       *)
RollbackRestores ==
    \A r \in Runs :
        run[r].at = "sweep" /\ run[r].rescue /\ ~run[r].unrestored
            => fs.target = run[r].found

(* A run completes only when its own snapshot is at the target, and from there  *)
(* the snapshot goes nowhere but into a backup: no failure of a later run       *)
(* deletes or overwrites it in place.                                        *)
ServedMovesToBackup ==
    [][/\ served' # served => fs'.target = Snapshot(served')
       /\ served # None /\ fs.target = Snapshot(served) /\ fs'.target # fs.target
              => \E r \in Runs : fs'.backup[r] = Snapshot(served)]_vars

(* As the comment of the except clause has it, a failed promotion restores the  *)
(* last complete target: a run that found one and fails without a failed         *)
(* rollback leaves it at the target.                                         *)
FailureRestores ==
    \A r \in Runs :
        run[r].at = "sweep" /\ run[r].found # Missing /\ ~run[r].unrestored
            => fs.target = run[r].found
================================================================================
