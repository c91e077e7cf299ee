------------------------ MODULE PublicationLockProofs ------------------------
(***************************************************************************)
(* What the lease guarantees for every set of processes, every assignment   *)
(* of run_ids and every lease length.  Mutual exclusion is not inductive:    *)
(* the invariant has to say that whoever is inside still owns an unexpired    *)
(* lock document, which is what makes the next find_one_and_update fail.      *)
(***************************************************************************)
EXTENDS PublicationLock, TLAPS

(* A live section owns the document, and its lease has not run out. *)
HoldsLease(p) == lock.owner = OwnerOf[p] /\ lock.left > 0

LockInv ==
    /\ LockTypeOK
    /\ RespectLease =>
           /\ \A p \in Procs : Inside(p) => HoldsLease(p)
           /\ MutualExclusion

(* The initial lock state has its type and satisfies the invariant. *)
LEMMA LockInitInv == LockInit => LockInv
  BY LockConstants
  DEF LockInit, LockInv, LockTypeOK, LockDoc, Unlocked, Inside, MutualExclusion

(* Every step of the lock keeps the type of the document and of the sections. *)
LEMMA LockTypeStep == LockTypeOK /\ [LockNext]_lockVars => LockTypeOK'
<1> SUFFICES ASSUME LockTypeOK, [LockNext]_lockVars PROVE LockTypeOK'
  OBVIOUS
<1> USE LockConstants DEF LockTypeOK, LockDoc
<1>1. ASSUME NEW p \in Procs, Acquire(p) PROVE LockTypeOK'
  BY <1>1 DEF Acquire
<1>2. ASSUME NEW p \in Procs, Release(p) PROVE LockTypeOK'
  BY <1>2 DEF Release, AfterDelete, Unlocked
<1>3. ASSUME NEW p \in Procs, Die(p) PROVE LockTypeOK'
  BY <1>3 DEF Die
<1>4. CASE Tick
  BY <1>4 DEF Tick
<1>5. CASE UNCHANGED lockVars
  BY <1>5 DEF lockVars
<1> QED
  BY <1>1, <1>2, <1>3, <1>4, <1>5 DEF LockNext, Refused

(* Every step of the lock preserves the inductive invariant. *)
LEMMA LockStepInv == LockInv /\ [LockNext]_lockVars => LockInv'
<1> SUFFICES ASSUME LockInv, [LockNext]_lockVars, RespectLease
             PROVE  /\ \A q \in Procs : Inside(q)' => HoldsLease(q)'
                    /\ MutualExclusion'
  BY LockTypeStep DEF LockInv
<1>0. /\ LockTypeOK
      /\ \A q \in Procs : Inside(q) => HoldsLease(q)
      /\ MutualExclusion
  BY DEF LockInv
<1> USE LockConstants
<1>1. ASSUME NEW p \in Procs, Acquire(p)
      PROVE  /\ \A q \in Procs : Inside(q)' => HoldsLease(q)'
             /\ MutualExclusion'
  <2>1. \A q \in Procs : ~Inside(q)
    BY <1>0, <1>1 DEF Acquire, LockFree, HoldsLease, LockTypeOK, LockDoc
  <2>2. \A q \in Procs : Inside(q)' => q = p
    BY <1>0, <1>1, <2>1 DEF Acquire, Inside, LockTypeOK
  <2>3. HoldsLease(p)'
    BY <1>1 DEF Acquire, HoldsLease
  <2> QED
    BY <2>2, <2>3 DEF MutualExclusion
<1>2. ASSUME NEW p \in Procs, Release(p)
      PROVE  /\ \A q \in Procs : Inside(q)' => HoldsLease(q)'
             /\ MutualExclusion'
  <2>1. \A q \in Procs : ~Inside(q)'
    BY <1>0, <1>2 DEF Release, Inside, LockTypeOK, MutualExclusion
  <2> QED
    BY <2>1 DEF MutualExclusion
<1>3. ASSUME NEW p \in Procs, Die(p)
      PROVE  /\ \A q \in Procs : Inside(q)' => HoldsLease(q)'
             /\ MutualExclusion'
  BY <1>0, <1>3 DEF Die, Inside, HoldsLease, LockTypeOK, MutualExclusion
<1>4. CASE Tick
  <2>1. \A q \in Procs : Inside(q)' <=> Inside(q)
    BY <1>4 DEF Tick, Inside
  <2>2. ASSUME NEW q \in Procs, Inside(q) PROVE HoldsLease(q)'
    <3>1. HoldsLease(q)
      BY <1>0, <2>2
    <3>2. lock.left # 1
      BY <1>4, <2>2, <3>1 DEF Tick, HoldsLease
    <3> QED
      BY <1>0, <1>4, <3>1, <3>2 DEF Tick, HoldsLease, LockTypeOK, LockDoc
  <2> QED
    BY <1>0, <2>1, <2>2 DEF MutualExclusion
<1>5. CASE UNCHANGED lockVars
  BY <1>0, <1>5 DEF lockVars, Inside, HoldsLease, MutualExclusion
<1> QED
  BY <1>1, <1>2, <1>3, <1>4, <1>5 DEF LockNext, Refused

(* The lock document and the sections keep their types. *)
THEOREM LockTyping == LockSpec => []LockTypeOK
<1>1. LockInit => LockTypeOK
  BY LockInitInv DEF LockInv
<1> QED
  BY <1>1, LockTypeStep, PTL DEF LockSpec

(* As long as no section outlasts its lease, two processes are never inside  *)
(* publication_lock together, whoever crashes and whatever run_ids they share. *)
THEOREM LockMutualExclusion == RespectLease /\ LockSpec => []MutualExclusion
<1>1. LockSpec => []LockInv
  BY LockInitInv, LockStepInv, PTL DEF LockSpec
<1>2. RespectLease /\ LockInv => MutualExclusion
  BY DEF LockInv
<1>3. CASE RespectLease
  <2>1. LockInv => MutualExclusion
    BY <1>2, <1>3
  <2> QED
    BY <1>1, <2>1, PTL
<1>4. CASE ~RespectLease
  BY <1>4
<1> QED
  BY <1>3, <1>4

(* The document, while there is one, carries the run_id of the last process to  *)
(* take the lease, however often it has run out and been taken since.          *)
OwnerInv == /\ LockTypeOK
            /\ lock.owner # NoOwner => holder \in Procs /\ lock.owner = OwnerOf[holder]

LEMMA OwnerStep == OwnerInv /\ [LockNext]_lockVars => OwnerInv'
<1> SUFFICES ASSUME OwnerInv, [LockNext]_lockVars PROVE OwnerInv'
  OBVIOUS
<1>1. LockTypeOK'
  BY LockTypeStep DEF OwnerInv
<1>2. ASSUME NEW p \in Procs, Acquire(p) PROVE OwnerInv'
  BY <1>1, <1>2 DEF OwnerInv, Acquire
<1>3. ASSUME NEW p \in Procs, Refused(p) \/ Die(p) PROVE OwnerInv'
  BY <1>1, <1>3 DEF OwnerInv, Refused, Die, lockVars
<1>4. ASSUME NEW p \in Procs, Release(p) PROVE OwnerInv'
  BY <1>1, <1>4 DEF OwnerInv, Release, AfterDelete, Unlocked
<1>5. ASSUME Tick PROVE OwnerInv'
  BY <1>1, <1>5 DEF OwnerInv, Tick, LockTypeOK, LockDoc
<1>6. CASE UNCHANGED lockVars
  BY <1>1, <1>6 DEF OwnerInv, lockVars
<1> QED
  BY <1>2, <1>3, <1>4, <1>5, <1>6 DEF LockNext

(* Whoever is inside is the last process to have taken the lease, as long as no *)
(* section outlasts its own.                                                   *)
HolderInv ==
    /\ LockInv
    /\ OwnerInv
    /\ RespectLease => \A p \in Procs : Inside(p) => holder = p

LEMMA HolderStep == HolderInv /\ [LockNext]_lockVars => HolderInv'
<1> SUFFICES ASSUME HolderInv, [LockNext]_lockVars, RespectLease,
                    NEW q \in Procs, Inside(q)'
             PROVE  holder' = q
  BY LockStepInv, OwnerStep DEF HolderInv
<1>0. /\ LockTypeOK
      /\ \A p \in Procs : Inside(p) => HoldsLease(p) /\ holder = p
  BY DEF HolderInv, LockInv
<1>1. ASSUME NEW p \in Procs, Acquire(p) PROVE holder' = q
  <2>1. ~Inside(q)
    BY <1>0, <1>1 DEF Acquire, LockFree, HoldsLease
  <2>2. q = p
    BY <1>0, <1>1, <2>1 DEF Acquire, Inside, LockTypeOK
  <2> QED
    BY <1>1, <2>2 DEF Acquire
<1>2. ASSUME NEW p \in Procs, Refused(p) \/ Release(p) \/ Die(p) PROVE holder' = q
  <2>1. Inside(q)
    BY <1>0, <1>2 DEF Refused, Release, Die, Inside, LockTypeOK, lockVars
  <2> QED
    BY <1>0, <1>2, <2>1 DEF Refused, Release, Die, lockVars
<1>3. CASE Tick \/ UNCHANGED lockVars
  BY <1>0, <1>3 DEF Tick, lockVars, Inside
<1> QED
  BY <1>1, <1>2, <1>3 DEF LockNext

(* However late a release comes, and whichever processes share a run_id, the   *)
(* document it deletes was written by a process with the same run_id; while no *)
(* section outlasts its lease, by the very process that releases.              *)
THEOREM LockReleaseOnlyOwn == LockSpec => ReleaseOnlyOwnLease
<1> DEFINE OnlyOwn == \A p \in Procs : Release(p) /\ lock' # lock =>
                          /\ OwnerOf[holder] = OwnerOf[p]
                          /\ RespectLease => holder = p
<1>1. LockInit => HolderInv
  BY LockInitInv, LockConstants
  DEF LockInit, HolderInv, OwnerInv, LockInv, Unlocked, Inside
<1>2. HolderInv /\ [LockNext]_lockVars => [OnlyOwn]_lockVars
  <2> SUFFICES ASSUME HolderInv, NEW p \in Procs, Release(p), lock' # lock
               PROVE  OwnerOf[holder] = OwnerOf[p] /\ (RespectLease => holder = p)
    OBVIOUS
  <2>1. lock.owner = OwnerOf[p] /\ lock.owner # NoOwner
    BY LockConstants DEF Release, AfterDelete
  <2>2. OwnerOf[holder] = OwnerOf[p]
    BY <2>1 DEF HolderInv, OwnerInv
  <2> QED
    BY <2>2 DEF HolderInv, Release
<1> HIDE DEF OnlyOwn
<1>3. LockSpec => [][OnlyOwn]_lockVars
  BY <1>1, <1>2, HolderStep, PTL DEF LockSpec
<1> QED
  BY <1>3 DEF ReleaseOnlyOwnLease, OnlyOwn
================================================================================
