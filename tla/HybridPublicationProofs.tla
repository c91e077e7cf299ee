------------------------ MODULE HybridPublicationProofs ------------------------
(***************************************************************************)
(* Proofs about HybridPublication, for every set of attempts, batch runs and *)
(* versions, every assignment of rows, event times and processing times.     *)
(* Only PromotionUsesActiveGeneration needs the lock, and with it the          *)
(* assumption that no section outlasts its lease.  The other properties rest   *)
(* on the unique row identifiers (a verified version never changes) and on    *)
(* the filter of the pointer's compare-and-set.                               *)
(***************************************************************************)
EXTENDS HybridPublication, PublicationLockProofs

Promoting == {"lock", "ready", "read", "reread", "replace", "create", "confirm"}
Checked == {"read", "reread", "replace", "create", "confirm"}

Visible(v) == pointer.ver # None /\ (pointer.ver = v \/ Newer(v, pointer.ver))

(* Rows were verified before the lock is asked for; a replacement is only      *)
(* prepared over an older pointer of the same source; success is visible.     *)
AttemptInv(a) ==
    /\ attempt[a].at \in Promoting => Verified(VersionOf[a])
    /\ attempt[a].at = "replace" =>
           /\ attempt[a].seen # None
           /\ SameSource(attempt[a].seen, VersionOf[a])
           /\ Newer(attempt[a].seen, VersionOf[a])
    /\ attempt[a].ok => Visible(VersionOf[a])

(* The rows behind the pointer pass _verify_stored_rows. *)
PointerVerified == pointer.ver # None => Verified(pointer.ver)

HybridInv ==
    /\ HybridTypeOK
    /\ PointerVerified
    /\ \A a \in Attempts : AttemptInv(a)

--------------------------------------------------------------------------------
(* A step of the Hybrid publication is a step of the lock, or leaves it alone. *)
LEMMA HybridLockStep == [HybridNext]_hybridVars => [LockNext]_lockVars
<1> SUFFICES ASSUME [HybridNext]_hybridVars PROVE [LockNext]_lockVars
  OBVIOUS
<1> USE HybridConstants DEF lockVars
<1>1. ASSUME NEW b \in Publishers, PublisherNext(b) PROVE [LockNext]_lockVars
  BY <1>1 DEF PublisherNext, PublisherEnters, PublisherCloses, PublisherOpens,
              PublisherLeaves, LockNext
<1>2. ASSUME NEW a \in Attempts, RowsNext(a) PROVE [LockNext]_lockVars
  BY <1>2 DEF RowsNext, Begin, Inspect, InsertRow, InsertReturns, InsertRaises,
              Reverify, Verify, GivesUp, BeforeLock
<1>3. ASSUME NEW a \in Attempts, PromotionNext(a) PROVE [LockNext]_lockVars
  <2>1. CASE AttemptEnters(a) \/ AttemptRefused(a) \/ AttemptLeaves(a)
    BY <2>1 DEF AttemptEnters, AttemptRefused, AttemptLeaves, LockNext
  <2> QED
    BY <1>3, <2>1
    DEF PromotionNext, CheckReadiness, ReadPointer, CreatePointer, CreateRaises,
        RereadPointer, ReplacePointer, ReplaceNotApplied, ConfirmPointer,
        SectionFails, Decide, Inner, Ends
<1>4. ASSUME NEW p \in Procs, DiesInSection(p) PROVE [LockNext]_lockVars
  BY <1>4 DEF DiesInSection, LockNext
<1>5. CASE ClockTick
  BY <1>5 DEF ClockTick, LockNext
<1>6. CASE UNCHANGED hybridVars
  BY <1>6 DEF hybridVars
<1> QED
  BY <1>1, <1>2, <1>3, <1>4, <1>5, <1>6 DEF HybridNext

(* The two constant records of an attempt. *)
LEMMA AttemptRecords == Fresh \in AttemptRecord /\ Failed \in AttemptRecord
  BY HybridConstants DEF Fresh, Failed, AttemptRecord

(* A process that dies fails if it is an attempt, and changes no other record. *)
LEMMA DeathMoves ==
  ASSUME HybridTypeOK, NEW p \in Procs, DiesInSection(p)
  PROVE  attempt' = attempt \/ (p \in Attempts /\ Becomes(p, Failed))
<1>1. attempt = [a \in Attempts |-> attempt[a]]
  BY DEF HybridTypeOK
<1>2. CASE p \in Attempts
  <2>1. [a \in Attempts |-> IF a = p THEN Failed ELSE attempt[a]]
            = [attempt EXCEPT ![p] = Failed]
    BY <1>1
  <2> QED
    BY <1>2, <2>1 DEF DiesInSection, Becomes
<1>3. CASE p \notin Attempts
  <2>1. [a \in Attempts |-> IF a = p THEN Failed ELSE attempt[a]]
            = [a \in Attempts |-> attempt[a]]
    BY <1>3
  <2> QED
    BY <1>1, <2>1 DEF DiesInSection
<1> QED
  BY <1>2, <1>3

LEMMA HybridInitInv == HybridInit => HybridInv /\ LockInv
<1> SUFFICES ASSUME HybridInit PROVE HybridInv /\ LockInv
  OBVIOUS
<1>1. LockInv
  BY LockInitInv DEF HybridInit
<1>2. HybridTypeOK
  BY <1>1, AttemptRecords, HybridConstants
  DEF HybridInit, LockInv, HybridTypeOK, PointerDoc
<1>3. PointerVerified /\ \A a \in Attempts : AttemptInv(a)
  BY DEF HybridInit, PointerVerified, AttemptInv, Fresh, Promoting
<1> QED
  BY <1>1, <1>2, <1>3 DEF HybridInv

(* Stamps are times. *)
LEMMA StampTypes ==
  ASSUME HybridTypeOK, NEW v \in Versions
  PROVE  Stamps(v) \subseteq Nat /\ Missing(v) \subseteq Ranks
  BY HybridConstants DEF HybridTypeOK, Stamps, Missing

(* Every step keeps the types of rows, pointer, generation and attempts. *)
LEMMA HybridTypeStep == HybridTypeOK /\ [HybridNext]_hybridVars => HybridTypeOK'
<1> SUFFICES ASSUME HybridTypeOK, [HybridNext]_hybridVars PROVE HybridTypeOK'
  OBVIOUS
<1>0. LockTypeOK'
  BY HybridLockStep, LockTypeStep DEF HybridTypeOK
<1> USE HybridConstants, <1>0 DEF HybridTypeOK
<1>1. ASSUME NEW b \in Publishers, PublisherNext(b) PROVE HybridTypeOK'
  BY <1>1 DEF PublisherNext, PublisherEnters, PublisherCloses, PublisherOpens,
              PublisherLeaves, PublisherMoves
<1>2. ASSUME NEW a \in Attempts, NEW record \in AttemptRecord, Becomes(a, record),
             rows' \in [Versions -> [Ranks -> Nat \cup {None}]], pointer' \in PointerDoc
      PROVE  HybridTypeOK'
  BY <1>2 DEF Becomes
<1>3. ASSUME NEW a \in Attempts, RowsNext(a) PROVE HybridTypeOK'
  <2> DEFINE v == VersionOf[a]
  <2>0. attempt[a] \in AttemptRecord /\ v \in Versions /\ Stamp[a] \in Nat
    OBVIOUS
  <2>1. pointer' = pointer
    BY <1>3 DEF RowsNext, Begin, Inspect, InsertRow, InsertReturns, InsertRaises,
                Reverify, Verify, GivesUp
  <2>2. rows' \in [Versions -> [Ranks -> Nat \cup {None}]]
    <3>1. CASE InsertRow(a)
      BY <2>0, <3>1 DEF InsertRow, AttemptRecord
    <3> QED
      BY <1>3, <3>1 DEF RowsNext, Begin, Inspect, InsertReturns, InsertRaises,
                        Reverify, Verify, GivesUp
  <2>3. \E record \in AttemptRecord : Becomes(a, record)
    <3>1. CASE Inspect(a)
      <4>1. CASE OneStamp(v)
        <5>1. PICK t \in IF Stamps(v) = {} THEN {Stamp[a]} ELSE Stamps(v) :
                  Becomes(a, [attempt[a] EXCEPT !.todo = Missing(v), !.genAt = t,
                             !.at = IF Missing(v) = {} THEN "verify" ELSE "insert"])
          BY <3>1, <4>1 DEF Inspect, BeforeLock
        <5>2. t \in Nat /\ Missing(v) \subseteq Ranks
          BY <2>0, StampTypes
        <5> QED
          BY <2>0, <5>1, <5>2 DEF AttemptRecord
      <4>2. CASE ~OneStamp(v)
        BY <3>1, <4>2, AttemptRecords DEF Inspect, BeforeLock
      <4> QED
        BY <4>1, <4>2
    <3>2. CASE Begin(a)
      BY <3>2, AttemptRecords DEF Begin, BeforeLock, AttemptRecord
    <3>3. CASE InsertRow(a)
      <4>1. PICK r \in attempt[a].todo :
                Becomes(a, [attempt[a] EXCEPT !.todo = @ \ {r},
                                !.clash = @ \/ rows[v][r] # None])
        BY <3>3 DEF InsertRow, BeforeLock
      <4> QED
        BY <2>0, <4>1 DEF AttemptRecord
    <3>4. CASE InsertReturns(a) \/ InsertRaises(a)
      BY <2>0, <3>4 DEF InsertReturns, InsertRaises, BeforeLock, AttemptRecord
    <3>5. CASE Reverify(a) \/ Verify(a) \/ GivesUp(a)
      <4>1. \/ Becomes(a, Failed)
            \/ Becomes(a, [attempt[a] EXCEPT !.at = "verify"])
            \/ Becomes(a, [attempt[a] EXCEPT !.at = "lock"])
        BY <3>5 DEF Reverify, Verify, GivesUp, BeforeLock
      <4> QED
        BY <2>0, <4>1, AttemptRecords DEF AttemptRecord
    <3> QED
      BY <1>3, <3>1, <3>2, <3>3, <3>4, <3>5 DEF RowsNext
  <2> QED
    BY <1>2, <2>1, <2>2, <2>3
<1>4. ASSUME NEW a \in Attempts, PromotionNext(a) PROVE HybridTypeOK'
  <2>0. attempt[a] \in AttemptRecord
    OBVIOUS
  <2>1. rows' = rows
    BY <1>4
    DEF PromotionNext, AttemptEnters, AttemptRefused, AttemptLeaves, CheckReadiness,
        ReadPointer, CreatePointer, CreateRaises, RereadPointer, ReplacePointer,
        ReplaceNotApplied, ConfirmPointer, SectionFails, Decide, Inner, Ends
  <2>2. pointer' \in {pointer, PointerOf(a)}
    BY <1>4
    DEF PromotionNext, AttemptEnters, AttemptRefused, AttemptLeaves, CheckReadiness,
        ReadPointer, CreatePointer, CreateRaises, RereadPointer, ReplacePointer,
        ReplaceNotApplied, ConfirmPointer, SectionFails, Decide, Inner, Ends
  <2>3. pointer' \in PointerDoc
    BY <2>2 DEF PointerOf, PointerDoc
  <2>4. ASSUME NEW from, NEW to \in Checked \cup {"ready"}, Inner(a, from, to)
        PROVE  \E record \in AttemptRecord : Becomes(a, record)
    BY <2>0, <2>4 DEF Inner, AttemptRecord, Checked
  <2>5. ASSUME NEW from, NEW success \in BOOLEAN, Ends(a, from, success)
        PROVE  \E record \in AttemptRecord : Becomes(a, record)
    BY <2>0, <2>5 DEF Ends, AttemptRecord
  <2>6. ASSUME NEW from, Decide(a, from), pointer.ver # None
        PROVE  \E record \in AttemptRecord : Becomes(a, record)
    <3>1. CASE \E success \in BOOLEAN : Ends(a, from, success)
      BY <2>5, <3>1
    <3>2. CASE Becomes(a, [attempt[a] EXCEPT !.at = "replace", !.seen = pointer.ver])
      BY <2>0, <3>2 DEF AttemptRecord, PointerDoc
    <3> QED
      BY <2>6, <3>1, <3>2 DEF Decide
  <2>7. \E record \in AttemptRecord : Becomes(a, record)
    <3>1. CASE AttemptEnters(a)
      BY <2>0, <3>1 DEF AttemptEnters, AttemptRecord
    <3>2. CASE AttemptRefused(a)
      BY <3>2, AttemptRecords DEF AttemptRefused
    <3>3. CASE CheckReadiness(a)
      BY <2>4, <2>5, <3>3 DEF CheckReadiness, Checked
    <3>4. CASE ReadPointer(a)
      BY <2>4, <2>6, <3>4 DEF ReadPointer, Checked
    <3>5. CASE CreatePointer(a) \/ CreateRaises(a)
      BY <2>4, <3>5 DEF CreatePointer, CreateRaises, Checked
    <3>6. CASE RereadPointer(a)
      BY <2>5, <2>6, <3>6 DEF RereadPointer
    <3>7. CASE ReplacePointer(a) \/ ReplaceNotApplied(a)
      BY <2>4, <3>7 DEF ReplacePointer, ReplaceNotApplied, Checked
    <3>8. CASE ConfirmPointer(a)
      BY <2>5, <3>8 DEF ConfirmPointer, Matches
    <3>9. CASE SectionFails(a)
      BY <2>4, <2>5, <3>9 DEF SectionFails, Checked
    <3>10. CASE AttemptLeaves(a)
      BY <2>0, <3>10, AttemptRecords
      DEF AttemptLeaves, OwnershipLost, Failed, AttemptRecord
    <3> QED
      BY <1>4, <3>1, <3>2, <3>3, <3>4, <3>5, <3>6, <3>7, <3>8, <3>9, <3>10
      DEF PromotionNext
  <2> QED
    BY <1>2, <2>1, <2>3, <2>7
<1>5. ASSUME NEW p \in Procs, DiesInSection(p) PROVE HybridTypeOK'
  <2>1. attempt' \in [Attempts -> AttemptRecord]
    BY <1>5, AttemptRecords DEF DiesInSection
  <2> QED
    BY <1>5, <2>1 DEF DiesInSection
<1>6. CASE ClockTick
  BY <1>6 DEF ClockTick, hybridData
<1>7. CASE UNCHANGED hybridVars
  BY <1>7 DEF hybridVars
<1> QED
  BY <1>1, <1>3, <1>4, <1>5, <1>6, <1>7 DEF HybridNext

--------------------------------------------------------------------------------
(* A verified version stays verified: its rows all exist, so whoever inserts  *)
(* one of them again meets the unique identifier.                             *)
LEMMA VerifiedStable ==
  ASSUME HybridTypeOK, [HybridNext]_hybridVars, NEW v \in Versions, Verified(v)
  PROVE  Verified(v)'
<1>1. CASE rows' = rows
  BY <1>1 DEF Verified, OneStamp, Stamps, Missing
<1>2. ASSUME NEW a \in Attempts, InsertRow(a) PROVE Verified(v)'
  <2>1. PICK r \in attempt[a].todo :
            rows' = IF rows[VersionOf[a]][r] # None THEN rows
                    ELSE [rows EXCEPT ![VersionOf[a]][r] = attempt[a].genAt]
    BY <1>2 DEF InsertRow
  <2>2. \A q \in RowsOf[v] : rows[v][q] # None
    BY DEF Verified, Missing
  <2>3. \A q \in RowsOf[v] : rows'[v][q] = rows[v][q]
    BY <2>1, <2>2, HybridConstants DEF HybridTypeOK
  <2> QED
    BY <2>3 DEF Verified, OneStamp, Stamps, Missing
<1>3. ASSUME NEW b \in Publishers, PublisherNext(b) PROVE rows' = rows
  BY <1>3 DEF PublisherNext, PublisherEnters, PublisherCloses, PublisherOpens,
              PublisherLeaves, PublisherMoves
<1>4. ASSUME NEW a \in Attempts, RowsNext(a), ~InsertRow(a) PROVE rows' = rows
  BY <1>4 DEF RowsNext, Begin, Inspect, InsertReturns, InsertRaises, Reverify, Verify,
              GivesUp
<1>5. ASSUME NEW a \in Attempts, PromotionNext(a) PROVE rows' = rows
  BY <1>5
  DEF PromotionNext, AttemptEnters, AttemptRefused, AttemptLeaves, CheckReadiness,
      ReadPointer, CreatePointer, CreateRaises, RereadPointer, ReplacePointer,
      ReplaceNotApplied, ConfirmPointer, SectionFails, Decide, Inner, Ends
<1>6. (\E p \in Procs : DiesInSection(p)) \/ ClockTick \/ UNCHANGED hybridVars
          => rows' = rows
  BY DEF DiesInSection, ClockTick, hybridData, hybridVars
<1> QED
  BY <1>1, <1>2, <1>3, <1>4, <1>5, <1>6 DEF HybridNext

(* The pointer is only written by an attempt inside the section: over nothing, *)
(* or over the pointer the attempt has seen.                                  *)
Writes(a) ==
    /\ Inside(a)
    /\ active' = active
    /\ pointer' = PointerOf(a)
    /\ \/ attempt[a].at = "create" /\ pointer.ver = None
       \/ attempt[a].at = "replace" /\ pointer.ver = attempt[a].seen

LEMMA PointerStep ==
  ASSUME [HybridNext]_hybridVars
  PROVE  pointer' = pointer \/ \E a \in Attempts : Writes(a)
<1>1. ASSUME NEW b \in Publishers, PublisherNext(b) PROVE pointer' = pointer
  BY <1>1 DEF PublisherNext, PublisherEnters, PublisherCloses, PublisherOpens,
              PublisherLeaves, PublisherMoves
<1>2. ASSUME NEW a \in Attempts, RowsNext(a) PROVE pointer' = pointer
  BY <1>2 DEF RowsNext, Begin, Inspect, InsertRow, InsertReturns, InsertRaises,
              Reverify, Verify, GivesUp
<1>3. ASSUME NEW a \in Attempts, PromotionNext(a)
      PROVE  pointer' = pointer \/ Writes(a)
  <2>1. CASE CreatePointer(a) \/ CreateRaises(a)
    BY <2>1 DEF CreatePointer, CreateRaises, Inner, Becomes, Writes
  <2>2. CASE ReplacePointer(a)
    BY <2>2 DEF ReplacePointer, StillSeen, Inner, Becomes, Writes
  <2> QED
    BY <1>3, <2>1, <2>2
    DEF PromotionNext, AttemptEnters, AttemptRefused, AttemptLeaves, CheckReadiness,
        ReadPointer, RereadPointer, ReplaceNotApplied, ConfirmPointer, SectionFails,
        Decide, Inner, Ends
<1>4. (\E p \in Procs : DiesInSection(p)) \/ ClockTick \/ UNCHANGED hybridVars
          => pointer' = pointer
  BY DEF DiesInSection, ClockTick, hybridData, hybridVars
<1> QED
  BY <1>1, <1>2, <1>3, <1>4 DEF HybridNext

(* So the pointer appears, stays, or moves to a later event time of the same  *)
(* generation.                                                               *)
LEMMA PointerAdvances ==
  ASSUME HybridInv, [HybridNext]_hybridVars, pointer' # pointer
  PROVE  \E a \in Attempts :
             /\ Writes(a)
             /\ pointer'.ver = VersionOf[a]
             /\ Verified(VersionOf[a])
             /\ pointer.ver # None =>
                    SameSource(pointer.ver, VersionOf[a]) /\ Newer(pointer.ver, VersionOf[a])
<1>1. PICK a \in Attempts : Writes(a)
  BY PointerStep
<1>2. pointer'.ver = VersionOf[a]
  BY <1>1 DEF Writes, PointerOf
<1>3. AttemptInv(a)
  BY DEF HybridInv
<1>4. Verified(VersionOf[a])
  BY <1>1, <1>3 DEF Writes, AttemptInv, Promoting
<1>5. ASSUME pointer.ver # None
      PROVE  SameSource(pointer.ver, VersionOf[a]) /\ Newer(pointer.ver, VersionOf[a])
  BY <1>1, <1>3, <1>5 DEF Writes, AttemptInv
<1> QED
  BY <1>1, <1>2, <1>4, <1>5

(* What was visible stays visible. *)
LEMMA VisibleStable ==
  ASSUME HybridInv, [HybridNext]_hybridVars, NEW v \in Versions, Visible(v)
  PROVE  Visible(v)'
<1>1. CASE pointer' = pointer
  BY <1>1 DEF Visible, Newer
<1>2. CASE pointer' # pointer
  <2>1. PICK a \in Attempts : pointer'.ver = VersionOf[a]
                              /\ Newer(pointer.ver, VersionOf[a])
    BY <1>2, PointerAdvances DEF Visible
  <2>2. VersionOf[a] \in Versions /\ pointer.ver \in Versions
    BY HybridConstants DEF HybridInv, HybridTypeOK, PointerDoc, Visible
  <2>3. Newer(v, VersionOf[a])
    <3>1. /\ AsOf[v] \in Nat /\ AsOf[pointer.ver] \in Nat
          /\ AsOf[VersionOf[a]] \in Nat
      BY <2>2, HybridConstants
    <3> QED
      BY <2>1, <3>1 DEF Visible, Newer
  <2>4. VersionOf[a] # None
    BY <2>2, HybridConstants
  <2> QED
    BY <2>1, <2>3, <2>4 DEF Visible, Newer
<1> QED
  BY <1>1, <1>2

(* An attempt that did not move keeps its invariant. *)
LEMMA AttemptStays ==
  ASSUME HybridInv, [HybridNext]_hybridVars,
         NEW a \in Attempts, attempt'[a] = attempt[a]
  PROVE  AttemptInv(a)'
<1>1. AttemptInv(a) /\ VersionOf[a] \in Versions /\ HybridTypeOK
  BY HybridConstants DEF HybridInv
<1>2. Verified(VersionOf[a]) => Verified(VersionOf[a])'
  BY <1>1, VerifiedStable
<1>3. Visible(VersionOf[a]) => Visible(VersionOf[a])'
  BY <1>1, VisibleStable
<1> QED
  BY <1>1, <1>2, <1>3 DEF AttemptInv, SameSource, Newer

(* One that moved has to bring what its new place demands. *)
LEMMA AttemptMoves ==
  ASSUME HybridInv, [HybridNext]_hybridVars, NEW a \in Attempts, NEW record,
         Becomes(a, record),
         record.at \in Promoting => Verified(VersionOf[a]),
         record.at = "replace" =>
             /\ record.seen # None
             /\ SameSource(record.seen, VersionOf[a])
             /\ Newer(record.seen, VersionOf[a]),
         record.ok => Visible(VersionOf[a])
  PROVE  \A b \in Attempts : AttemptInv(b)'
<1>1. VersionOf[a] \in Versions /\ HybridTypeOK
  BY HybridConstants DEF HybridInv
<1>2. attempt'[a] = record
  BY <1>1 DEF Becomes, HybridTypeOK
<1>3. AttemptInv(a)'
  <2>1. Verified(VersionOf[a]) => Verified(VersionOf[a])'
    BY <1>1, VerifiedStable
  <2>2. Visible(VersionOf[a]) => Visible(VersionOf[a])'
    BY <1>1, VisibleStable
  <2> QED
    BY <1>2, <2>1, <2>2 DEF AttemptInv, SameSource, Newer
<1>4. ASSUME NEW b \in Attempts, b # a PROVE AttemptInv(b)'
  <2>1. attempt'[b] = attempt[b]
    BY <1>1, <1>4 DEF Becomes, HybridTypeOK
  <2> QED
    BY <2>1, AttemptStays
<1> QED
  BY <1>3, <1>4

(* Every step preserves what is known of the attempts. *)
LEMMA AttemptStepInv ==
  ASSUME HybridInv, [HybridNext]_hybridVars
  PROVE  \A a \in Attempts : AttemptInv(a)'
<1>0. HybridTypeOK /\ \A a \in Attempts : AttemptInv(a) /\ attempt[a] \in AttemptRecord
  BY DEF HybridInv, HybridTypeOK
<1>1. ASSUME attempt' = attempt PROVE \A a \in Attempts : AttemptInv(a)'
  BY <1>1, AttemptStays
<1>2. ASSUME NEW a \in Attempts, RowsNext(a)
      PROVE  \A b \in Attempts : AttemptInv(b)'
  <2>1. AttemptInv(a) /\ attempt[a] \in AttemptRecord
    BY <1>0
  <2>2. Failed.at = "done" /\ Failed.ok = FALSE /\ Fresh.ok = FALSE
    BY DEF Failed, Fresh
  <2>3. ASSUME Becomes(a, Failed) PROVE \A b \in Attempts : AttemptInv(b)'
    BY <2>2, <2>3, AttemptMoves DEF Promoting
  <2>4. ASSUME NEW record, Becomes(a, record), record.at \notin Promoting,
               record.ok = attempt[a].ok
        PROVE  \A b \in Attempts : AttemptInv(b)'
    BY <2>1, <2>4, AttemptMoves DEF Promoting, AttemptInv
  <2>5. CASE Begin(a)
    <3> DEFINE record == [Fresh EXCEPT !.at = "inspect"]
    <3>1. record.at = "inspect" /\ record.ok = FALSE
      BY DEF Fresh
    <3>2. Becomes(a, record)
      BY <2>5 DEF Begin, BeforeLock
    <3> HIDE DEF record
    <3> QED
      BY <3>1, <3>2, AttemptMoves DEF Promoting
  <2>6. CASE Inspect(a)
    <3>1. \/ Becomes(a, Failed)
          \/ \E t, M : \E to \in {"verify", "insert"} :
                 Becomes(a, [attempt[a] EXCEPT !.todo = M, !.genAt = t, !.at = to])
      BY <2>6 DEF Inspect, BeforeLock
    <3>2. ASSUME NEW t, NEW M, NEW to \in {"verify", "insert"},
                 Becomes(a, [attempt[a] EXCEPT !.todo = M, !.genAt = t, !.at = to])
          PROVE  \A b \in Attempts : AttemptInv(b)'
      <4> DEFINE record == [attempt[a] EXCEPT !.todo = M, !.genAt = t, !.at = to]
      <4>1. record.at \notin Promoting /\ record.ok = attempt[a].ok
        BY <2>1 DEF AttemptRecord, Promoting
      <4> QED
        BY <2>4, <3>2, <4>1
    <3> QED
      BY <2>3, <3>1, <3>2
  <2>7. CASE InsertRow(a)
    <3>1. PICK T, c : Becomes(a, [attempt[a] EXCEPT !.todo = T, !.clash = c])
      BY <2>7 DEF InsertRow, BeforeLock
    <3> DEFINE record == [attempt[a] EXCEPT !.todo = T, !.clash = c]
    <3>2. attempt[a].at = "insert"
      BY <2>7 DEF InsertRow, BeforeLock
    <3>3. record.at \notin Promoting /\ record.ok = attempt[a].ok
      BY <2>1, <3>2 DEF AttemptRecord, Promoting
    <3> QED
      BY <2>4, <3>1, <3>3
  <2>8. CASE InsertReturns(a)
    <3> DEFINE record == [attempt[a] EXCEPT !.at = "verify"]
    <3>1. record.at \notin Promoting /\ record.ok = attempt[a].ok
      BY <2>1 DEF AttemptRecord, Promoting
    <3> QED
      BY <2>4, <2>8, <3>1 DEF InsertReturns, BeforeLock
  <2>9. CASE InsertRaises(a)
    <3> DEFINE record == [attempt[a] EXCEPT !.at = "reverify", !.todo = {}]
    <3>1. record.at \notin Promoting /\ record.ok = attempt[a].ok
      BY <2>1 DEF AttemptRecord, Promoting
    <3> QED
      BY <2>4, <2>9, <3>1 DEF InsertRaises, BeforeLock
  <2>10. CASE Reverify(a)
    <3> DEFINE record == [attempt[a] EXCEPT !.at = "verify"]
    <3>1. record.at \notin Promoting /\ record.ok = attempt[a].ok
      BY <2>1 DEF AttemptRecord, Promoting
    <3> QED
      BY <2>3, <2>4, <2>10, <3>1 DEF Reverify, BeforeLock
  <2>11. CASE Verify(a)
    <3> DEFINE record == [attempt[a] EXCEPT !.at = "lock"]
    <3>1. record.at = "lock" /\ record.ok = attempt[a].ok
      BY <2>1 DEF AttemptRecord
    <3>2. CASE Verified(VersionOf[a])
      <4>1. Becomes(a, record)
        BY <2>11, <3>2 DEF Verify, BeforeLock
      <4> HIDE DEF record
      <4> QED
        BY <2>1, <3>1, <3>2, <4>1, AttemptMoves DEF AttemptInv
    <3>3. CASE ~Verified(VersionOf[a])
      BY <2>3, <2>11, <3>3 DEF Verify, BeforeLock
    <3> QED
      BY <3>2, <3>3
  <2>12. CASE GivesUp(a)
    BY <2>3, <2>12 DEF GivesUp, BeforeLock
  <2> QED
    BY <1>2, <2>5, <2>6, <2>7, <2>8, <2>9, <2>10, <2>11, <2>12 DEF RowsNext
<1>3. ASSUME NEW a \in Attempts, PromotionNext(a)
      PROVE  \A b \in Attempts : AttemptInv(b)'
  <2>1. AttemptInv(a) /\ attempt[a] \in AttemptRecord
    BY <1>0
  <2>2. ASSUME NEW to \in {"ready", "read", "create", "reread", "confirm"},
               attempt[a].at \in Promoting,
               Becomes(a, [attempt[a] EXCEPT !.at = to])
        PROVE  \A b \in Attempts : AttemptInv(b)'
    <3> DEFINE record == [attempt[a] EXCEPT !.at = to]
    <3>1. record.at # "replace" /\ record.ok = attempt[a].ok
      BY <2>1 DEF AttemptRecord
    <3>2. Becomes(a, record)
      BY <2>2
    <3> HIDE DEF record
    <3> QED
      BY <2>1, <2>2, <3>1, <3>2, AttemptMoves DEF AttemptInv
  <2>3. ASSUME NEW from, NEW success \in BOOLEAN, Ends(a, from, success),
               success => Visible(VersionOf[a])
        PROVE  \A b \in Attempts : AttemptInv(b)'
    <3> DEFINE record == [attempt[a] EXCEPT !.at = "leave", !.ok = success]
    <3>1. record.at \notin Promoting /\ record.ok = success
      BY <2>1 DEF AttemptRecord, Promoting
    <3>2. Becomes(a, record)
      BY <2>3 DEF Ends
    <3> HIDE DEF record
    <3> QED
      BY <2>3, <3>1, <3>2, AttemptMoves DEF Promoting
  <2>4. ASSUME NEW from \in {"read", "reread"}, Decide(a, from), pointer.ver # None
        PROVE  \A b \in Attempts : AttemptInv(b)'
    <3> DEFINE record == [attempt[a] EXCEPT !.at = "replace", !.seen = pointer.ver]
    <3>1. \/ Ends(a, from, TRUE) /\ Visible(VersionOf[a])
          \/ Ends(a, from, FALSE)
          \/ /\ Becomes(a, record)
             /\ SameSource(pointer.ver, VersionOf[a]) /\ Newer(pointer.ver, VersionOf[a])
             /\ attempt[a].at \in Promoting
      BY <2>4 DEF Decide, Visible, Promoting
    <3>2. record.seen = pointer.ver /\ record.ok = attempt[a].ok
      BY <2>1 DEF AttemptRecord
    <3>3. ASSUME Becomes(a, record), attempt[a].at \in Promoting,
                 SameSource(pointer.ver, VersionOf[a]), Newer(pointer.ver, VersionOf[a])
          PROVE  \A b \in Attempts : AttemptInv(b)'
      <4> HIDE DEF record
      <4> QED
        BY <2>1, <2>4, <3>2, <3>3, AttemptMoves DEF AttemptInv
    <3> QED
      BY <2>3, <3>1, <3>3
  <2>5. CASE AttemptEnters(a)
    BY <2>2, <2>5 DEF AttemptEnters, Promoting
  <2>6. CASE AttemptRefused(a)
    <3>1. Becomes(a, Failed) /\ Failed.at = "done" /\ Failed.ok = FALSE
      BY <2>6 DEF AttemptRefused, Failed, Fresh
    <3> QED
      BY <3>1, AttemptMoves DEF Promoting
  <2>7. CASE CheckReadiness(a)
    BY <2>2, <2>3, <2>7 DEF CheckReadiness, Inner, Promoting
  <2>8. CASE ReadPointer(a)
    BY <2>2, <2>4, <2>8 DEF ReadPointer, Inner, Promoting
  <2>9. CASE CreatePointer(a) \/ CreateRaises(a)
    BY <2>2, <2>9 DEF CreatePointer, CreateRaises, Inner, Promoting
  <2>10. CASE RereadPointer(a)
    BY <2>3, <2>4, <2>10 DEF RereadPointer
  <2>11. CASE ReplacePointer(a) \/ ReplaceNotApplied(a)
    BY <2>2, <2>11 DEF ReplacePointer, ReplaceNotApplied, Inner, Promoting
  <2>12. CASE ConfirmPointer(a)
    <3>1. Matches(a) \in BOOLEAN /\ (Matches(a) => Visible(VersionOf[a]))
      BY HybridConstants DEF Matches, Visible
    <3> QED
      BY <2>3, <2>12, <3>1 DEF ConfirmPointer
  <2>13. CASE SectionFails(a)
    BY <2>2, <2>3, <2>13 DEF SectionFails, Inner, Promoting
  <2>14. CASE AttemptLeaves(a)
    <3> DEFINE record == [Failed EXCEPT !.ok = attempt[a].ok /\ ~OwnershipLost(a)]
    <3>1. record.at = "done" /\ (record.ok => attempt[a].ok)
      BY DEF Failed, Fresh
    <3>2. Becomes(a, record)
      BY <2>14 DEF AttemptLeaves
    <3> HIDE DEF record
    <3> QED
      BY <2>1, <3>1, <3>2, AttemptMoves DEF Promoting, AttemptInv
  <2> QED
    BY <1>3, <2>5, <2>6, <2>7, <2>8, <2>9, <2>10, <2>11, <2>12, <2>13, <2>14
    DEF PromotionNext
<1>4. ASSUME NEW b \in Publishers, PublisherNext(b) PROVE attempt' = attempt
  BY <1>4 DEF PublisherNext, PublisherEnters, PublisherCloses, PublisherOpens,
              PublisherLeaves, PublisherMoves
<1>5. ASSUME NEW p \in Procs, DiesInSection(p)
      PROVE  attempt' = attempt \/ \A b \in Attempts : AttemptInv(b)'
  <2>1. Failed.at = "done" /\ Failed.ok = FALSE
    BY DEF Failed, Fresh
  <2>2. ASSUME p \in Attempts, Becomes(p, Failed)
        PROVE  \A b \in Attempts : AttemptInv(b)'
    BY <2>1, <2>2, AttemptMoves DEF Promoting
  <2> QED
    BY <1>5, <2>2, DeathMoves DEF HybridInv
<1>6. ClockTick \/ UNCHANGED hybridVars => attempt' = attempt
  BY DEF ClockTick, hybridData, hybridVars
<1> QED
  BY <1>1, <1>2, <1>3, <1>4, <1>5, <1>6 DEF HybridNext

(* Every step preserves the inductive invariant. *)
LEMMA HybridStepInv ==
  ASSUME HybridInv, [HybridNext]_hybridVars
  PROVE  HybridInv'
<1>1. HybridTypeOK'
  BY HybridTypeStep DEF HybridInv
<1>2. PointerVerified'
  <2>1. CASE pointer' = pointer
    <3>1. pointer.ver # None => pointer.ver \in Versions
      BY DEF HybridInv, HybridTypeOK, PointerDoc
    <3> QED
      BY <2>1, <3>1, VerifiedStable DEF HybridInv, PointerVerified
  <2>2. CASE pointer' # pointer
    <3>1. PICK a \in Attempts : pointer'.ver = VersionOf[a] /\ Verified(VersionOf[a])
      BY <2>2, PointerAdvances
    <3>2. Verified(VersionOf[a])'
      BY <3>1, VerifiedStable, HybridConstants DEF HybridInv
    <3> QED
      BY <3>1, <3>2 DEF PointerVerified
  <2> QED
    BY <2>1, <2>2
<1> QED
  BY <1>1, <1>2, AttemptStepInv DEF HybridInv

--------------------------------------------------------------------------------
(* Under the lock: an attempt that has checked the generation still finds it,   *)
(* because only a publisher changes it, and only from inside the section.      *)
GateInv ==
    \A a \in Attempts :
        Inside(a) /\ attempt[a].at \in Checked => active = GenOf[VersionOf[a]]

LEMMA GateStepInv ==
  ASSUME RespectLease, HybridTypeOK, LockInv, GateInv, [HybridNext]_hybridVars
  PROVE  GateInv'
<1>1. ASSUME active' = active, \A a \in Attempts : Inside(a)' => Inside(a),
             \A a \in Attempts : attempt'[a].at \in Checked =>
                 attempt[a].at \in Checked \/ active = GenOf[VersionOf[a]]
      PROVE  GateInv'
  BY <1>1 DEF GateInv
<1>2. ASSUME NEW b \in Publishers, PublisherNext(b) PROVE GateInv'
  <2>1. attempt' = attempt
    BY <1>2 DEF PublisherNext, PublisherEnters, PublisherCloses, PublisherOpens,
                PublisherLeaves, PublisherMoves
  <2>2. \A a \in Attempts : Inside(a)' => Inside(a)
    BY <1>2, HybridConstants
    DEF PublisherNext, PublisherEnters, PublisherCloses, PublisherOpens,
        PublisherLeaves, Acquire, Release, Inside, lockVars, HybridTypeOK, LockTypeOK
  <2>3. CASE PublisherEnters(b) \/ PublisherLeaves(b)
    BY <1>1, <2>1, <2>2, <2>3 DEF PublisherEnters, PublisherLeaves
  <2>4. CASE PublisherCloses(b) \/ PublisherOpens(b)
    <3>1. Inside(b)
      BY <2>4 DEF PublisherCloses, PublisherOpens
    <3>2. \A a \in Attempts : ~Inside(a)
      BY <3>1, HybridConstants DEF LockInv, MutualExclusion
    <3> QED
      BY <2>2, <3>2 DEF GateInv
  <2> QED
    BY <1>2, <2>3, <2>4 DEF PublisherNext
<1>3. ASSUME NEW a \in Attempts, NEW record, Becomes(a, record),
             record.at \in Checked =>
                 attempt[a].at \in Checked \/ active = GenOf[VersionOf[a]],
             \A b \in Attempts : Inside(b)' => Inside(b)
      PROVE  GateInv'
  BY <1>1, <1>3 DEF Becomes, HybridTypeOK
<1>4. ASSUME NEW a \in Attempts, RowsNext(a) PROVE GateInv'
  <2>0. attempt[a] \in AttemptRecord
    BY DEF HybridTypeOK
  <2>1. \A b \in Attempts : Inside(b)' => Inside(b)
    BY <1>4 DEF RowsNext, Begin, Inspect, InsertRow, InsertReturns, InsertRaises,
                Reverify, Verify, GivesUp, BeforeLock, Inside, lockVars
  <2>2. attempt'[a].at \notin Checked /\ \E record : Becomes(a, record)
    <3>1. \E record : Becomes(a, record)
      BY <1>4 DEF RowsNext, Begin, Inspect, InsertRow, InsertReturns, InsertRaises,
                  Reverify, Verify, GivesUp, BeforeLock
    <3>2. ASSUME NEW record, Becomes(a, record), record.at \notin Checked
          PROVE  attempt'[a].at \notin Checked
      BY <3>2 DEF Becomes, HybridTypeOK
    <3>3. Failed.at = "done" /\ Failed.at \notin Checked
      BY DEF Failed, Fresh, Checked
    <3>4. attempt'[a].at \notin Checked
      <4>1. CASE Begin(a)
        <5>1. [Fresh EXCEPT !.at = "inspect"].at \notin Checked
          BY DEF Fresh, Checked
        <5> QED
          BY <3>2, <4>1, <5>1 DEF Begin, BeforeLock
      <4>2. CASE Inspect(a)
        <5>1. \/ Becomes(a, Failed)
              \/ \E t, M : \E to \in {"verify", "insert"} :
                     Becomes(a, [attempt[a] EXCEPT !.todo = M, !.genAt = t, !.at = to])
          BY <4>2 DEF Inspect, BeforeLock
        <5>2. \A t, M : \A to \in {"verify", "insert"} :
                  [attempt[a] EXCEPT !.todo = M, !.genAt = t, !.at = to].at \notin Checked
          BY <2>0 DEF AttemptRecord, Checked
        <5> QED
          BY <3>2, <3>3, <5>1, <5>2
      <4>3. CASE InsertRow(a)
        <5>1. PICK T, c : Becomes(a, [attempt[a] EXCEPT !.todo = T, !.clash = c])
          BY <4>3 DEF InsertRow, BeforeLock
        <5>2. attempt[a].at = "insert"
          BY <4>3 DEF InsertRow, BeforeLock
        <5>3. [attempt[a] EXCEPT !.todo = T, !.clash = c].at \notin Checked
          BY <2>0, <5>2 DEF AttemptRecord, Checked
        <5> QED
          BY <3>2, <5>1, <5>3
      <4>4. CASE InsertReturns(a) \/ InsertRaises(a) \/ Reverify(a) \/ Verify(a) \/ GivesUp(a)
        <5>1. \/ Becomes(a, Failed)
              \/ Becomes(a, [attempt[a] EXCEPT !.at = "verify"])
              \/ Becomes(a, [attempt[a] EXCEPT !.at = "lock"])
              \/ Becomes(a, [attempt[a] EXCEPT !.at = "reverify", !.todo = {}])
          BY <4>4 DEF InsertReturns, InsertRaises, Reverify, Verify, GivesUp, BeforeLock
        <5>2. /\ [attempt[a] EXCEPT !.at = "verify"].at \notin Checked
              /\ [attempt[a] EXCEPT !.at = "lock"].at \notin Checked
              /\ [attempt[a] EXCEPT !.at = "reverify", !.todo = {}].at \notin Checked
          BY <2>0 DEF AttemptRecord, Checked
        <5> QED
          BY <3>2, <3>3, <5>1, <5>2
      <4> QED
        BY <1>4, <4>1, <4>2, <4>3, <4>4 DEF RowsNext
    <3> QED
      BY <3>1, <3>4
  <2>3. PICK record : Becomes(a, record)
    BY <2>2
  <2>4. record.at \notin Checked
    BY <2>2, <2>3 DEF Becomes, HybridTypeOK
  <2> QED
    BY <1>3, <2>1, <2>3, <2>4
<1>5. ASSUME NEW a \in Attempts, PromotionNext(a) PROVE GateInv'
  <2>0. attempt[a] \in AttemptRecord
    BY DEF HybridTypeOK
  <2>1. CASE AttemptEnters(a)
    <3> DEFINE record == [attempt[a] EXCEPT !.at = "ready"]
    <3>1. record.at = "ready" /\ Becomes(a, record)
      BY <2>0, <2>1 DEF AttemptEnters, AttemptRecord
    <3>2. attempt'[a].at = "ready" /\ active' = active
          /\ \A b \in Attempts : b # a => attempt'[b] = attempt[b]
      BY <3>1 DEF Becomes, HybridTypeOK
    <3>3. \A b \in Attempts : Inside(b)' => b = a \/ Inside(b)
      BY <2>1 DEF AttemptEnters, Acquire, Inside, HybridTypeOK, LockTypeOK
    <3> QED
      BY <3>2, <3>3 DEF GateInv, Checked
  <2>2. ASSUME ~AttemptEnters(a) PROVE \A b \in Attempts : Inside(b)' => Inside(b)
    <3>1. CASE AttemptLeaves(a)
      BY <3>1, HybridConstants
      DEF AttemptLeaves, Release, Inside, HybridTypeOK, LockTypeOK
    <3>2. CASE ~AttemptLeaves(a)
      <4>1. section' = section
        BY <1>5, <2>2, <3>2
        DEF PromotionNext, AttemptRefused, CheckReadiness, ReadPointer, CreatePointer,
            CreateRaises, RereadPointer, ReplacePointer, ReplaceNotApplied,
            ConfirmPointer, SectionFails, Decide, Inner, Ends, Refused, lockVars
      <4> QED
        BY <4>1 DEF Inside
    <3> QED
      BY <3>1, <3>2
  <2>3. ASSUME NEW from, NEW success, Ends(a, from, success), ~AttemptEnters(a)
        PROVE  GateInv'
    <3> DEFINE record == [attempt[a] EXCEPT !.at = "leave", !.ok = success]
    <3>1. record.at = "leave" /\ Becomes(a, record)
      BY <2>0, <2>3 DEF Ends, AttemptRecord
    <3> HIDE DEF record
    <3> QED
      BY <1>3, <2>2, <2>3, <3>1 DEF Checked
  <2>4. ASSUME NEW from, NEW to, Inner(a, from, to), ~AttemptEnters(a),
               from \in Checked \/ active = GenOf[VersionOf[a]]
        PROVE  GateInv'
    <3> DEFINE record == [attempt[a] EXCEPT !.at = to]
    <3>1. Becomes(a, record) /\ attempt[a].at = from
      BY <2>4 DEF Inner
    <3> HIDE DEF record
    <3> QED
      BY <1>3, <2>2, <2>4, <3>1
  <2>5. ASSUME NEW from \in Checked, Decide(a, from), ~AttemptEnters(a)
        PROVE  GateInv'
    <3>1. CASE \E success : Ends(a, from, success)
      BY <2>3, <2>5, <3>1
    <3>2. CASE Becomes(a, [attempt[a] EXCEPT !.at = "replace", !.seen = pointer.ver])
               /\ attempt[a].at = from
      <4> DEFINE record == [attempt[a] EXCEPT !.at = "replace", !.seen = pointer.ver]
      <4> HIDE DEF record
      <4>1. Becomes(a, record) /\ attempt[a].at \in Checked
        BY <3>2 DEF record
      <4> QED
        BY <1>3, <2>2, <2>5, <4>1
    <3> QED
      BY <2>5, <3>1, <3>2 DEF Decide
  <2>6. CASE AttemptRefused(a) /\ ~AttemptEnters(a)
    BY <1>3, <2>2, <2>6 DEF AttemptRefused, Failed, Fresh, Checked
  <2>7. CASE AttemptLeaves(a) /\ ~AttemptEnters(a)
    <3> DEFINE record == [Failed EXCEPT !.ok = attempt[a].ok /\ ~OwnershipLost(a)]
    <3>1. record.at = "done" /\ Becomes(a, record)
      BY <2>7 DEF AttemptLeaves, Failed, Fresh
    <3> HIDE DEF record
    <3> QED
      BY <1>3, <2>2, <2>7, <3>1 DEF Checked
  <2>8. CASE CheckReadiness(a) /\ ~AttemptEnters(a)
    BY <2>3, <2>4, <2>8 DEF CheckReadiness, GenerationActive
  <2>9. CASE (ReadPointer(a) \/ RereadPointer(a)) /\ ~AttemptEnters(a)
    BY <2>3, <2>4, <2>5, <2>9 DEF ReadPointer, RereadPointer, Checked
  <2>10. CASE (CreatePointer(a) \/ CreateRaises(a)) /\ ~AttemptEnters(a)
    BY <2>4, <2>10 DEF CreatePointer, CreateRaises, Checked
  <2>11. CASE (ReplacePointer(a) \/ ReplaceNotApplied(a)) /\ ~AttemptEnters(a)
    BY <2>4, <2>11 DEF ReplacePointer, ReplaceNotApplied, Checked
  <2>12. CASE (ConfirmPointer(a) \/ SectionFails(a)) /\ ~AttemptEnters(a)
    BY <2>3, <2>4, <2>12 DEF ConfirmPointer, SectionFails, Checked
  <2> QED
    BY <1>5, <2>1, <2>6, <2>7, <2>8, <2>9, <2>10, <2>11, <2>12 DEF PromotionNext
<1>6. ASSUME NEW p \in Procs, DiesInSection(p) PROVE GateInv'
  <2>1. \A a \in Attempts : Inside(a)' => Inside(a)
    BY <1>6 DEF DiesInSection, Die, Inside, HybridTypeOK, LockTypeOK
  <2>2. Failed.at \notin Checked
    BY DEF Failed, Fresh, Checked
  <2>3. CASE p \in Attempts /\ Becomes(p, Failed)
    BY <1>3, <2>1, <2>2, <2>3
  <2>4. CASE attempt' = attempt
    BY <1>1, <1>6, <2>1, <2>4 DEF DiesInSection
  <2> QED
    BY <1>6, <2>3, <2>4, DeathMoves
<1>7. CASE ClockTick
  BY <1>1, <1>7 DEF ClockTick, Tick, Inside, hybridData
<1>8. CASE UNCHANGED hybridVars
  BY <1>1, <1>8 DEF hybridVars, Inside
<1> QED
  BY <1>2, <1>4, <1>5, <1>6, <1>7, <1>8 DEF HybridNext

--------------------------------------------------------------------------------
(* No other attempt at a's version has started. *)
Alone(a) ==
    \A b \in Attempts \ {a} : VersionOf[b] = VersionOf[a] => attempt[b].at = "start"

(* Then every row of the version, the rows still to come and the pointer carry *)
(* the processing time of a.                                                 *)
AloneInv(a) ==
    Alone(a) =>
        /\ Stamps(VersionOf[a]) \subseteq {Stamp[a]}
        /\ attempt[a].at = "insert" => attempt[a].genAt = Stamp[a]
        /\ pointer.ver = VersionOf[a] => pointer.updatedAt = Stamp[a]

(* Where a step can take an attempt: it never starts again, and it comes to    *)
(* insert rows only by looking at those that are there.                       *)
LEMMA AttemptPath ==
  ASSUME HybridTypeOK, [HybridNext]_hybridVars, NEW a \in Attempts
  PROVE  \/ attempt'[a] = attempt[a]
         \/ attempt'[a].at \notin {"start", "insert"}
         \/ /\ attempt'[a].at = "insert" /\ attempt[a].at = "insert"
            /\ attempt'[a].genAt = attempt[a].genAt
         \/ /\ attempt'[a].at = "insert"
            /\ attempt'[a].genAt \in IF Stamps(VersionOf[a]) = {} THEN {Stamp[a]}
                                     ELSE Stamps(VersionOf[a])
<1> DEFINE Path == \/ attempt'[a] = attempt[a]
                   \/ attempt'[a].at \notin {"start", "insert"}
                   \/ /\ attempt'[a].at = "insert" /\ attempt[a].at = "insert"
                      /\ attempt'[a].genAt = attempt[a].genAt
                   \/ /\ attempt'[a].at = "insert"
                      /\ attempt'[a].genAt \in IF Stamps(VersionOf[a]) = {} THEN {Stamp[a]}
                                               ELSE Stamps(VersionOf[a])
<1>0. attempt \in [Attempts -> AttemptRecord] /\ attempt[a] \in AttemptRecord
  BY DEF HybridTypeOK
<1>1. ASSUME NEW c \in Attempts, NEW record, Becomes(c, record), c # a PROVE Path
  BY <1>0, <1>1 DEF Becomes
<1>2. ASSUME NEW record, Becomes(a, record), record.at \notin {"start", "insert"}
      PROVE  Path
  BY <1>0, <1>2 DEF Becomes
<1>3. Failed.at = "done" /\ \A success : [Failed EXCEPT !.ok = success].at = "done"
  BY DEF Failed, Fresh
<1>4. ASSUME attempt' = attempt PROVE Path
  BY <1>4
<1>5. ASSUME NEW c \in Attempts, RowsNext(c) PROVE Path
  <2>1. CASE c # a
    <3>1. \E record : Becomes(c, record)
      BY <1>5 DEF RowsNext, Begin, Inspect, InsertRow, InsertReturns, InsertRaises,
                  Reverify, Verify, GivesUp, BeforeLock
    <3> QED
      BY <1>1, <2>1, <3>1
  <2>2. CASE c = a
    <3>0. RowsNext(a)
      BY <1>5, <2>2
    <3>1. CASE Begin(a)
      <4>1. Becomes(a, [Fresh EXCEPT !.at = "inspect"])
        BY <3>1 DEF Begin, BeforeLock
      <4>2. [Fresh EXCEPT !.at = "inspect"].at = "inspect"
        BY DEF Fresh
      <4> QED
        BY <1>2, <4>1, <4>2
    <3>2. CASE Inspect(a)
      <4>1. CASE Becomes(a, Failed)
        BY <1>2, <1>3, <4>1
      <4>2. CASE OneStamp(VersionOf[a])
        <5>1. PICK t \in IF Stamps(VersionOf[a]) = {} THEN {Stamp[a]}
                         ELSE Stamps(VersionOf[a]) :
                  Becomes(a, [attempt[a] EXCEPT
                                 !.todo = Missing(VersionOf[a]), !.genAt = t,
                                 !.at = IF Missing(VersionOf[a]) = {} THEN "verify"
                                        ELSE "insert"])
          BY <3>2, <4>2 DEF Inspect, BeforeLock
        <5>2. /\ attempt'[a].genAt = t
              /\ attempt'[a].at = IF Missing(VersionOf[a]) = {} THEN "verify"
                                  ELSE "insert"
          BY <1>0, <5>1 DEF Becomes, AttemptRecord
        <5>3. attempt'[a].at = "insert" \/ attempt'[a].at = "verify"
          BY <5>2
        <5> QED
          BY <5>2, <5>3
      <4> QED
        BY <3>2, <4>1, <4>2 DEF Inspect, BeforeLock
    <3>3. CASE InsertRow(a)
      <4>1. PICK r \in attempt[a].todo :
                /\ attempt[a].at = "insert"
                /\ Becomes(a, [attempt[a] EXCEPT !.todo = @ \ {r},
                                !.clash = @ \/ rows[VersionOf[a]][r] # None])
        BY <3>3 DEF InsertRow, BeforeLock
      <4>2. attempt'[a].at = "insert" /\ attempt'[a].genAt = attempt[a].genAt
        BY <1>0, <4>1 DEF Becomes, AttemptRecord
      <4> QED
        BY <4>1, <4>2
    <3>4. CASE InsertReturns(a)
      <4>1. Becomes(a, [attempt[a] EXCEPT !.at = "verify"])
        BY <3>4 DEF InsertReturns, BeforeLock
      <4> QED
        BY <1>0, <1>2, <4>1 DEF AttemptRecord
    <3>5. CASE InsertRaises(a)
      <4>1. Becomes(a, [attempt[a] EXCEPT !.at = "reverify", !.todo = {}])
        BY <3>5 DEF InsertRaises, BeforeLock
      <4> QED
        BY <1>0, <1>2, <4>1 DEF AttemptRecord
    <3>6. CASE Reverify(a) \/ Verify(a) \/ GivesUp(a)
      <4>1. \/ Becomes(a, Failed)
            \/ Becomes(a, [attempt[a] EXCEPT !.at = "verify"])
            \/ Becomes(a, [attempt[a] EXCEPT !.at = "lock"])
        BY <3>6 DEF Reverify, Verify, GivesUp, BeforeLock
      <4> QED
        BY <1>0, <1>2, <1>3, <4>1 DEF AttemptRecord
    <3> QED
      BY <3>0, <3>1, <3>2, <3>3, <3>4, <3>5, <3>6 DEF RowsNext
  <2> QED
    BY <2>1, <2>2
<1>6. ASSUME NEW c \in Attempts, PromotionNext(c) PROVE Path
  <2>1. CASE AttemptEnters(c)
    <3>1. Becomes(c, [attempt[c] EXCEPT !.at = "ready"])
      BY <2>1 DEF AttemptEnters
    <3> QED
      BY <1>0, <1>1, <1>2, <3>1 DEF AttemptRecord
  <2>2. CASE AttemptRefused(c)
    <3>1. Becomes(c, Failed)
      BY <2>2 DEF AttemptRefused
    <3> QED
      BY <1>1, <1>2, <1>3, <3>1
  <2>3. CASE AttemptLeaves(c)
    <3>1. Becomes(c, [Failed EXCEPT !.ok = attempt[c].ok /\ ~OwnershipLost(c)])
      BY <2>3 DEF AttemptLeaves
    <3> QED
      BY <1>1, <1>2, <1>3, <3>1
  <2>4. ASSUME NEW from, NEW to \in Checked, Inner(c, from, to) PROVE Path
    <3>1. Becomes(c, [attempt[c] EXCEPT !.at = to])
      BY <2>4 DEF Inner
    <3>2. c = a => [attempt[c] EXCEPT !.at = to].at = to
      BY <1>0 DEF AttemptRecord
    <3> QED
      BY <1>1, <1>2, <2>4, <3>1, <3>2 DEF Checked
  <2>5. ASSUME NEW from, NEW success, Ends(c, from, success) PROVE Path
    <3>1. Becomes(c, [attempt[c] EXCEPT !.at = "leave", !.ok = success])
      BY <2>5 DEF Ends
    <3>2. c = a => [attempt[c] EXCEPT !.at = "leave", !.ok = success].at = "leave"
      BY <1>0 DEF AttemptRecord
    <3> QED
      BY <1>1, <1>2, <3>1, <3>2
  <2>6. ASSUME NEW from, Decide(c, from) PROVE Path
    <3>1. CASE \E success : Ends(c, from, success)
      BY <2>5, <3>1
    <3>2. CASE Becomes(c, [attempt[c] EXCEPT !.at = "replace", !.seen = pointer.ver])
      <4>1. c = a => [attempt[c] EXCEPT !.at = "replace", !.seen = pointer.ver].at
                         = "replace"
        BY <1>0 DEF AttemptRecord
      <4> QED
        BY <1>1, <1>2, <3>2, <4>1
    <3> QED
      BY <2>6, <3>1, <3>2 DEF Decide
  <2>7. CASE CheckReadiness(c) \/ ReadPointer(c) \/ RereadPointer(c)
    BY <2>4, <2>5, <2>6, <2>7 DEF CheckReadiness, ReadPointer, RereadPointer, Checked
  <2>8. CASE CreatePointer(c) \/ CreateRaises(c)
    BY <2>4, <2>8 DEF CreatePointer, CreateRaises, Checked
  <2>9. CASE ReplacePointer(c) \/ ReplaceNotApplied(c)
    BY <2>4, <2>9 DEF ReplacePointer, ReplaceNotApplied, Checked
  <2>10. CASE ConfirmPointer(c) \/ SectionFails(c)
    BY <2>4, <2>5, <2>10 DEF ConfirmPointer, SectionFails, Checked
  <2> QED
    BY <1>6, <2>1, <2>2, <2>3, <2>7, <2>8, <2>9, <2>10 DEF PromotionNext
<1>7. ASSUME NEW b \in Publishers, PublisherNext(b) PROVE attempt' = attempt
  BY <1>7 DEF PublisherNext, PublisherEnters, PublisherCloses, PublisherOpens,
              PublisherLeaves, PublisherMoves
<1>8. ASSUME NEW p \in Procs, DiesInSection(p) PROVE Path
  <2>1. CASE p = a /\ Becomes(a, Failed)
    BY <1>2, <1>3, <2>1
  <2>2. CASE p \in Attempts /\ p # a /\ Becomes(p, Failed)
    BY <1>1, <2>2
  <2> QED
    BY <1>4, <1>8, <2>1, <2>2, DeathMoves
<1>9. ClockTick \/ UNCHANGED hybridVars => attempt' = attempt
  BY DEF ClockTick, hybridData, hybridVars
<1> HIDE DEF Path
<1>10. Path
  BY <1>4, <1>5, <1>6, <1>7, <1>8, <1>9 DEF HybridNext
<1> QED
  BY <1>10 DEF Path

(* Rows are only written by an attempt that inserts: one, where there was none. *)
Inserts(a) ==
    /\ attempt[a].at = "insert"
    /\ \E r \in Ranks :
           rows' = [rows EXCEPT ![VersionOf[a]][r] = attempt[a].genAt]

LEMMA RowsStep ==
  ASSUME HybridTypeOK, [HybridNext]_hybridVars
  PROVE  rows' = rows \/ \E a \in Attempts : Inserts(a)
<1>1. ASSUME NEW a \in Attempts, InsertRow(a) PROVE rows' = rows \/ Inserts(a)
  <2>1. attempt[a].todo \subseteq Ranks
    BY DEF HybridTypeOK, AttemptRecord
  <2> QED
    BY <1>1, <2>1 DEF InsertRow, BeforeLock, Inserts
<1>2. ASSUME NEW b \in Publishers, PublisherNext(b) PROVE rows' = rows
  BY <1>2 DEF PublisherNext, PublisherEnters, PublisherCloses, PublisherOpens,
              PublisherLeaves, PublisherMoves
<1>3. ASSUME NEW a \in Attempts, RowsNext(a), ~InsertRow(a) PROVE rows' = rows
  BY <1>3 DEF RowsNext, Begin, Inspect, InsertReturns, InsertRaises, Reverify, Verify,
              GivesUp
<1>4. ASSUME NEW a \in Attempts, PromotionNext(a) PROVE rows' = rows
  BY <1>4
  DEF PromotionNext, AttemptEnters, AttemptRefused, AttemptLeaves, CheckReadiness,
      ReadPointer, CreatePointer, CreateRaises, RereadPointer, ReplacePointer,
      ReplaceNotApplied, ConfirmPointer, SectionFails, Decide, Inner, Ends
<1>5. (\E p \in Procs : DiesInSection(p)) \/ ClockTick \/ UNCHANGED hybridVars
          => rows' = rows
  BY DEF DiesInSection, ClockTick, hybridData, hybridVars
<1> QED
  BY <1>1, <1>2, <1>3, <1>4, <1>5 DEF HybridNext

(* An attempt that is alone now was alone before: none starts again. *)
LEMMA AloneBefore ==
  ASSUME HybridTypeOK, [HybridNext]_hybridVars, NEW a \in Attempts, Alone(a)'
  PROVE  Alone(a)
<1>1. SUFFICES ASSUME NEW b \in Attempts \ {a}, VersionOf[b] = VersionOf[a],
                      attempt[b].at # "start"
               PROVE  FALSE
  BY DEF Alone
<1>2. attempt'[b].at = "start"
  BY <1>1 DEF Alone
<1> QED
  BY <1>1, <1>2, AttemptPath

(* Whoever writes rows or the pointer of the version has started, so is a. *)
LEMMA AloneStep ==
  ASSUME HybridTypeOK, [HybridNext]_hybridVars, NEW a \in Attempts, AloneInv(a)
  PROVE  AloneInv(a)'
<1> DEFINE v == VersionOf[a]
<1>0. SUFFICES ASSUME Alone(a)'
               PROVE  /\ Stamps(v)' \subseteq {Stamp[a]}
                      /\ attempt'[a].at = "insert" => attempt'[a].genAt = Stamp[a]
                      /\ pointer'.ver = v => pointer'.updatedAt = Stamp[a]
  BY DEF AloneInv
<1>1. /\ Alone(a)
      /\ Stamps(v) \subseteq {Stamp[a]}
      /\ attempt[a].at = "insert" => attempt[a].genAt = Stamp[a]
      /\ pointer.ver = v => pointer.updatedAt = Stamp[a]
  BY <1>0, AloneBefore DEF AloneInv
<1>2. ASSUME NEW c \in Attempts, VersionOf[c] = v, attempt[c].at # "start"
      PROVE  c = a
  BY <1>1, <1>2 DEF Alone
<1>3. Stamps(v)' \subseteq {Stamp[a]}
  <2>1. CASE rows' = rows
    BY <1>1, <2>1 DEF Stamps
  <2>2. ASSUME NEW c \in Attempts, Inserts(c) PROVE Stamps(v)' \subseteq {Stamp[a]}
    <3>1. PICK r \in Ranks : rows' = [rows EXCEPT ![VersionOf[c]][r] = attempt[c].genAt]
      BY <2>2 DEF Inserts
    <3>2. \A q \in RowsOf[v] : rows'[v][q] = rows[v][q] \/ rows'[v][q] = Stamp[a]
      <4>1. CASE VersionOf[c] = v
        <5>1. c = a /\ attempt[c].genAt = Stamp[a]
          BY <1>1, <1>2, <2>2, <4>1 DEF Inserts
        <5> QED
          BY <3>1, <5>1, HybridConstants DEF HybridTypeOK
      <4>2. CASE VersionOf[c] # v
        BY <3>1, <4>2, HybridConstants DEF HybridTypeOK
      <4> QED
        BY <4>1, <4>2
    <3> QED
      BY <1>1, <3>2 DEF Stamps
  <2> QED
    BY <2>1, <2>2, RowsStep
<1>4. attempt'[a].at = "insert" => attempt'[a].genAt = Stamp[a]
  BY <1>1, AttemptPath
<1>5. pointer'.ver = v => pointer'.updatedAt = Stamp[a]
  <2>1. CASE pointer' = pointer
    BY <1>1, <2>1
  <2>2. ASSUME NEW c \in Attempts, Writes(c), pointer'.ver = v
        PROVE  pointer'.updatedAt = Stamp[a]
    <3>1. pointer'.ver = VersionOf[c] /\ pointer'.updatedAt = Stamp[c]
      BY <2>2 DEF Writes, PointerOf
    <3>2. c = a
      BY <1>2, <2>2, <3>1 DEF Writes
    <3> QED
      BY <3>1, <3>2
  <2> QED
    BY <2>1, <2>2, PointerStep
<1> QED
  BY <1>3, <1>4, <1>5

--------------------------------------------------------------------------------
(* The inductive invariant holds of every behaviour. *)
LEMMA HybridInvariance == HybridSpec => []HybridInv
<1>1. HybridInv /\ [HybridNext]_hybridVars => HybridInv'
  BY HybridStepInv
<1> QED
  BY <1>1, HybridInitInv, PTL DEF HybridSpec

(* Rows, pointer, generation, publishers and attempts keep their types. *)
THEOREM HybridTyping == HybridSpec => []HybridTypeOK
<1>1. HybridInv => HybridTypeOK
  BY DEF HybridInv
<1> QED
  BY <1>1, HybridInvariance, PTL

(* A ready pointer never leads to missing or disagreeing rows, even if         *)
(* sections outlast their lease.                                             *)
THEOREM HybridRowsComplete == HybridSpec => []PointerRowsComplete
<1>1. HybridInv => PointerRowsComplete
  <2> SUFFICES ASSUME HybridInv, pointer.ver # None,
                      NEW r \in RowsOf[pointer.ver], NEW s \in RowsOf[pointer.ver]
               PROVE  /\ rows[pointer.ver][r] # None
                      /\ rows[pointer.ver][r] = rows[pointer.ver][s]
    BY DEF PointerRowsComplete
  <2>1. rows[pointer.ver][r] # None /\ rows[pointer.ver][s] # None
    BY DEF HybridInv, PointerVerified, Verified, Missing
  <2>2. rows[pointer.ver][r] \in Stamps(pointer.ver)
    BY <2>1 DEF Stamps
  <2>3. rows[pointer.ver][s] \in Stamps(pointer.ver)
    BY <2>1 DEF Stamps
  <2> QED
    BY <2>1, <2>2, <2>3 DEF HybridInv, PointerVerified, Verified, OneStamp
<1> QED
  BY <1>1, HybridInvariance, PTL

(* A publication that was reported is visible, and stays so. *)
THEOREM HybridPublishedIsVisible == HybridSpec => []PublishedIsVisible
<1>1. HybridInv => PublishedIsVisible
  BY DEF HybridInv, AttemptInv, Visible, PublishedIsVisible
<1> QED
  BY <1>1, HybridInvariance, PTL

(* A version that only one attempt ever prepared is one the API can serve once *)
(* it is promoted: its rows are complete and carry the pointer's updated_at.   *)
THEOREM HybridFirstAttempt == HybridSpec => []FirstAttemptServable
<1> DEFINE All == HybridInv /\ \A a \in Attempts : AloneInv(a)
<1>1. HybridInit => All
  <2>1. ASSUME HybridInit, NEW a \in Attempts PROVE AloneInv(a)
    <3>1. Stamps(VersionOf[a]) = {} /\ VersionOf[a] # None
      BY <2>1, HybridConstants DEF HybridInit, Stamps
    <3>2. attempt[a].at = "start" /\ pointer.ver = None
      BY <2>1 DEF HybridInit, Fresh
    <3> QED
      BY <3>1, <3>2 DEF AloneInv
  <2> QED
    BY <2>1, HybridInitInv
<1>2. All /\ [HybridNext]_hybridVars => All'
  BY HybridStepInv, AloneStep DEF HybridInv
<1>3. All => FirstAttemptServable
  <2>1. SUFFICES ASSUME All, pointer.ver # None, NEW a \in Attempts,
                        VersionOf[a] = pointer.ver,
                        \A b \in Attempts \ {a} :
                            VersionOf[b] = pointer.ver => attempt[b].at = "start"
                 PROVE  Servable
    BY DEF FirstAttemptServable
  <2>2. Stamps(pointer.ver) \subseteq {Stamp[a]} /\ pointer.updatedAt = Stamp[a]
    BY <2>1 DEF AloneInv, Alone
  <2>3. Verified(pointer.ver)
    BY <2>1 DEF HybridInv, PointerVerified
  <2> QED
    BY <2>2, <2>3 DEF Servable
<1> HIDE DEF All
<1> QED
  BY <1>1, <1>2, <1>3, PTL DEF HybridSpec

(* The pointer moves forward only, within one generation, without the lock. *)
THEOREM HybridImplementsRegister == HybridSpec => ImplementsPointerRegister
<1>1. HybridInit => Register!Init
  BY DEF HybridInit, Register!Init
<1>2. ASSUME HybridInv, [HybridNext]_hybridVars
      PROVE  [Register!Next]_(pointer.ver)
  <2>1. CASE pointer' = pointer
    BY <2>1
  <2>2. CASE pointer' # pointer
    <3>1. PICK a \in Attempts :
              /\ pointer'.ver = VersionOf[a]
              /\ pointer.ver # None =>
                     /\ SameSource(pointer.ver, VersionOf[a])
                     /\ Newer(pointer.ver, VersionOf[a])
      BY <1>2, <2>2, PointerAdvances
    <3>2. Register!Advance(VersionOf[a]) /\ VersionOf[a] \in Versions
      BY <3>1, HybridConstants DEF Register!Advance, SameSource, Newer
    <3> QED
      BY <3>2 DEF Register!Next
  <2> QED
    BY <2>1, <2>2
<1>3. HybridInv /\ [HybridNext]_hybridVars => [Register!Next]_(pointer.ver)
  BY <1>2
<1> QED
  BY <1>1, <1>3, HybridInvariance, PTL
  DEF HybridSpec, ImplementsPointerRegister, Register!Spec

(* The Hybrid publication uses the lease as PublicationLock describes it. *)
THEOREM HybridImplementsLock == HybridSpec => LockSpec
<1>1. HybridInit => LockInit
  BY DEF HybridInit
<1> QED
  BY <1>1, HybridLockStep, PTL DEF HybridSpec, LockSpec

(* With no section outlasting its lease, the pointer is only moved while the   *)
(* generation it was computed from is the active one.                        *)
THEOREM HybridPromotion == RespectLease /\ HybridSpec => PromotionUsesActiveGeneration
<1> DEFINE All == HybridInv /\ LockInv /\ GateInv
<1>1. HybridInit => All
  <2>1. HybridInit => GateInv
    BY DEF HybridInit, GateInv, Fresh, Checked
  <2> QED
    BY <2>1, HybridInitInv
<1>2. ASSUME RespectLease, All, [HybridNext]_hybridVars PROVE All'
  <2>1. HybridInv' /\ LockInv'
    BY <1>2, HybridStepInv, HybridLockStep, LockStepInv
  <2>2. GateInv'
    BY <1>2, GateStepInv DEF HybridInv
  <2> QED
    BY <2>1, <2>2
<1>3. ASSUME All, [HybridNext]_hybridVars
      PROVE  [pointer' # pointer => active = GenOf[pointer'.ver]]_hybridVars
  <2>1. ASSUME pointer' # pointer PROVE active = GenOf[pointer'.ver]
    <3>1. PICK a \in Attempts : Writes(a) /\ pointer'.ver = VersionOf[a]
      BY <1>3, <2>1, PointerAdvances
    <3>2. Inside(a) /\ attempt[a].at \in Checked
      BY <3>1 DEF Writes, Checked
    <3> QED
      BY <1>3, <3>1, <3>2 DEF GateInv
  <2> QED
    BY <2>1
<1>4. RespectLease /\ All /\ [HybridNext]_hybridVars => All'
  BY <1>2
<1>5. All /\ [HybridNext]_hybridVars
          => [pointer' # pointer => active = GenOf[pointer'.ver]]_hybridVars
  BY <1>3
<1> HIDE DEF All
<1>6. CASE RespectLease
  <2>1. All /\ [HybridNext]_hybridVars => All'
    BY <1>4, <1>6
  <2> QED
    BY <1>1, <2>1, <1>5, PTL DEF HybridSpec, PromotionUsesActiveGeneration
<1>7. CASE ~RespectLease
  BY <1>7
<1> QED
  BY <1>6, <1>7
================================================================================
