---------------------------- MODULE PublicationLock ----------------------------
(***************************************************************************)
(* The MongoDB writer lease of src/module4/sink_mongo.py, publication_lock. *)
(* One document, _id "module4-active-publication", names the operation that *)
(* holds the lease (run_id) and when the lease runs out.  A process takes it *)
(* with one find_one_and_update, never waits for it, never renews it, and    *)
(* gives it back with one delete_one that names its own run_id.              *)
(*                                                                         *)
(* Time is the part of the lease that is left: lock.left = 0 stands for an   *)
(* absent document and for one whose lease_expires_at is not in the future,  *)
(* the two states the acquiring filter accepts.  Every process is taken to   *)
(* read the same clock.                                                      *)
(***************************************************************************)
EXTENDS Naturals

CONSTANTS
    Procs,         \* processes that open a publication_lock section
    Owners,        \* values of the run_id field of the lock document
    OwnerOf,       \* the run_id each process passes; two may pass the same one
    NoOwner,       \* no lock document
    NoProc,        \* no process took the lease yet
    Lease,         \* lease_minutes, in ticks of the model's clock
    RespectLease   \* TRUE: no live section outlasts its lease (an assumption
                   \* on the environment that nothing in the code enforces)

ASSUME LockConstants ==
    /\ OwnerOf \in [Procs -> Owners]
    /\ NoOwner \notin Owners
    /\ NoProc \notin Procs
    /\ Lease \in Nat \ {0}
    /\ RespectLease \in BOOLEAN

VARIABLES
    lock,      \* the lock document: [owner, left]
    section,   \* section[p]: "out" of the with block, "in" it, or "dead" inside
    holder     \* history: the process whose find_one_and_update took the lease

lockVars == <<lock, section, holder>>

LockDoc == [owner : Owners \cup {NoOwner}, left : 0 .. Lease]

Unlocked == [owner |-> NoOwner, left |-> 0]

LockTypeOK ==
    /\ lock \in LockDoc
    /\ section \in [Procs -> {"out", "in", "dead"}]
    /\ holder \in Procs \cup {NoProc}

LockInit ==
    /\ lock = Unlocked
    /\ section = [p \in Procs |-> "out"]
    /\ holder = NoProc

Inside(p) == section[p] = "in"

--------------------------------------------------------------------------------
(* What the filter of find_one_and_update matches: no document (the upsert    *)
(* then inserts one) or a document whose lease has run out.  The two mutated   *)
(* forms forget the $or branch on lease_expires_at, or all of it.              *)
LockFree_NoExpiryBranch == lock.owner = NoOwner
LockFree_NoFilter == TRUE
LockFree == lock.left = 0

(* The with statement is entered: the lease is taken for a full period. *)
Acquire(p) ==
    /\ section[p] = "out"
    /\ LockFree
    /\ lock' = [owner |-> OwnerOf[p], left |-> Lease]
    /\ section' = [section EXCEPT ![p] = "in"]
    /\ holder' = p

(* An unexpired document exists: the upsert fails on the duplicate _id and the *)
(* caller gets "another Module 4 publication holds the MongoDB writer lock".   *)
Refused(p) ==
    /\ section[p] = "out"
    /\ ~LockFree
    /\ UNCHANGED lockVars

(* What delete_one({_id, run_id}) leaves: the document goes when it still     *)
(* carries the caller's run_id, expired or not.  Mutated: the filter is _id    *)
(* alone.                                                                     *)
AfterDelete_AnyOwner(p) == Unlocked
AfterDelete(p) == IF lock.owner = OwnerOf[p] THEN Unlocked ELSE lock

(* The delete matched nothing: "writer lock ownership was lost". *)
OwnershipLost(p) == lock.owner # OwnerOf[p]

(* The finally clause of the with statement. *)
Release(p) ==
    /\ Inside(p)
    /\ lock' = AfterDelete(p)
    /\ section' = [section EXCEPT ![p] = "out"]
    /\ UNCHANGED holder

(* The process, or its connection for the rest of its life, is lost inside   *)
(* the section: the document stays until its lease runs out.                 *)
Die(p) ==
    /\ Inside(p)
    /\ section' = [section EXCEPT ![p] = "dead"]
    /\ UNCHANGED <<lock, holder>>

(* A clock tick.  With RespectLease the last tick of a lease waits for the    *)
(* live section that holds it.                                               *)
Tick ==
    /\ lock.left > 0
    /\ RespectLease /\ lock.left = 1 =>
           \A p \in Procs : Inside(p) => OwnerOf[p] # lock.owner
    /\ lock' = [lock EXCEPT !.left = @ - 1]
    /\ UNCHANGED <<section, holder>>

LockNext ==
    \/ \E p \in Procs : Acquire(p) \/ Refused(p) \/ Release(p) \/ Die(p)
    \/ Tick

LockSpec == LockInit /\ [][LockNext]_lockVars

--------------------------------------------------------------------------------
(* Two processes are never inside a publication_lock section together: the   *)
(* docstring's "single writer across both Module 4 collection promotions".    *)
(* It rests on RespectLease.                                                 *)
MutualExclusion == \A p, q \in Procs : Inside(p) /\ Inside(q) => p = q

(* Whose document a release can delete.  The run_id names an operation, not a *)
(* process, and a retry of a Hybrid version passes the run_id of the attempt  *)
(* before it.  However late the release comes, the document it deletes was    *)
(* written by a process of its own operation, and by itself as long as no     *)
(* section outlasts its lease.  An attempt that did may free the lease of its *)
(* own retry, which is then refused "writer lock ownership was lost".          *)
ReleaseOnlyOwnLease ==
    [][\A p \in Procs : Release(p) /\ lock' # lock =>
           /\ OwnerOf[holder] = OwnerOf[p]
           /\ RespectLease => holder = p]_lockVars

(* A holder that died cannot keep the lease: again and again a new section    *)
(* could be entered.                                                          *)
LeaseComesFree == []<>LockFree
================================================================================
