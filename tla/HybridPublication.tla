--------------------------- MODULE HybridPublication ---------------------------
(***************************************************************************)
(* Publication of one user's Hybrid recommendations                         *)
(* (src/module4/hybrid/sink_mongo.py): immutable rows are inserted and        *)
(* verified without the publication lock, then the user's pointer in the      *)
(* readiness collection is promoted under it.                                *)
(*                                                                         *)
(* An attempt is one run of serve_hybrid_user.  The serving version it        *)
(* prepares is a digest of everything but the clock, so two attempts over the *)
(* same inputs prepare the same version; their processing times differ.  The  *)
(* batch runs that replace the A/B generation meanwhile are the publishers;    *)
(* BatchPublication models them in full, here they close the gate, open it     *)
(* with their own generation, and leave.                                     *)
(***************************************************************************)
EXTENDS PublicationLock

CONSTANTS
    Attempts,    \* runs of serve_hybrid_user for the user
    Publishers,  \* batch runs; each is the generation it publishes
    Versions,    \* serving versions
    VersionOf,   \* the version each attempt prepares
    GenOf,       \* the A/B generation in each version's digest
    SpaceOf,     \* the trend source namespace in each version's digest
    Spaces,      \* trend source namespaces
    AsOf,        \* the as_of_event_time in each version's digest
    Ranks,       \* ranks of recommendation rows
    RowsOf,      \* the ranks each version has rows for; {} is a valid outcome
    Stamp,       \* the processing time of each attempt
    None         \* no run, no version, no row

ASSUME HybridConstants ==
    /\ Procs = Attempts \cup Publishers
    /\ Attempts \cap Publishers = {}
    /\ VersionOf \in [Attempts -> Versions]
    /\ GenOf \in [Versions -> Publishers]
    /\ SpaceOf \in [Versions -> Spaces]
    /\ AsOf \in [Versions -> Nat]
    /\ RowsOf \in [Versions -> SUBSET Ranks]
    /\ Stamp \in [Attempts -> Nat]
    /\ None \notin Publishers \cup Versions \cup Nat

VARIABLES
    rows,      \* rows[v][r]: generated_at of the stored row, or None
    pointer,   \* the user's readiness pointer: [ver, updatedAt]
    active,    \* the run of the "ready" A/B readiness document, or None
    turn,      \* where each publisher is in its publication
    attempt    \* where each attempt is, and its local variables

hybridData == <<rows, pointer, active, turn, attempt>>
hybridVars == <<lock, section, holder, rows, pointer, active, turn, attempt>>

(* at: the next step; todo: rows of insert_many not written yet; clash: one of *)
(* them existed already; genAt: the generated_at the attempt writes; seen: the *)
(* pointer it read; ok: the status it is about to return.                     *)
AttemptRecord ==
    [at : {"start", "inspect", "insert", "reverify", "verify", "lock", "ready",
           "read", "reread", "replace", "create", "confirm", "leave", "done"},
     todo : SUBSET Ranks, clash : BOOLEAN, genAt : Nat,
     seen : Versions \cup {None}, ok : BOOLEAN]

Fresh == [at |-> "start", todo |-> {}, clash |-> FALSE, genAt |-> 0,
          seen |-> None, ok |-> FALSE]
Failed == [Fresh EXCEPT !.at = "done"]

PointerDoc == [ver : Versions \cup {None}, updatedAt : Nat]

HybridTypeOK ==
    /\ LockTypeOK
    /\ rows \in [Versions -> [Ranks -> Nat \cup {None}]]
    /\ pointer \in PointerDoc
    /\ active \in Publishers \cup {None}
    /\ turn \in [Publishers -> {"start", "close", "open", "leave", "done"}]
    /\ attempt \in [Attempts -> AttemptRecord]

HybridInit ==
    /\ LockInit
    /\ rows = [v \in Versions |-> [r \in Ranks |-> None]]
    /\ pointer = [ver |-> None, updatedAt |-> 0]
    /\ active = None
    /\ turn = [b \in Publishers |-> "start"]
    /\ attempt = [a \in Attempts |-> Fresh]

--------------------------------------------------------------------------------
(* The rows of a version, as _verify_stored_rows sees them in one query. *)

Stamps(v) == {rows[v][r] : r \in RowsOf[v]} \ {None}
Missing(v) == {r \in RowsOf[v] : rows[v][r] = None}

(* Rows agree on generated_at.  Mutated: the comparison is forgotten. *)
OneStamp_NotCompared(v) == TRUE
OneStamp(v) == \A s, t \in Stamps(v) : s = t

(* All rows are stored and agree. *)
Verified(v) == OneStamp(v) /\ Missing(v) = {}

--------------------------------------------------------------------------------
(* Batch publishers: one publication_lock section each. *)

PublisherMoves(b, from, to) ==
    /\ turn[b] = from
    /\ turn' = [turn EXCEPT ![b] = to]
    /\ UNCHANGED <<rows, pointer, attempt>>

PublisherEnters(b) ==
    /\ PublisherMoves(b, "start", "close")
    /\ Acquire(b)
    /\ UNCHANGED active

(* The gate is closed; a publication that fails then leaves it closed. *)
PublisherCloses(b) ==
    /\ Inside(b)
    /\ PublisherMoves(b, "close", "open") \/ PublisherMoves(b, "close", "leave")
    /\ active' = None
    /\ UNCHANGED lockVars

PublisherOpens(b) ==
    /\ Inside(b)
    /\ PublisherMoves(b, "open", "leave")
    /\ active' = b
    /\ UNCHANGED lockVars

PublisherLeaves(b) ==
    /\ PublisherMoves(b, "leave", "done")
    /\ Release(b)
    /\ UNCHANGED active

PublisherNext(b) ==
    \/ PublisherEnters(b) \/ PublisherCloses(b)
    \/ PublisherOpens(b) \/ PublisherLeaves(b)

--------------------------------------------------------------------------------
(* Rows: written and verified before the lock. *)

(* What every step of an attempt leaves alone, and the record it ends with. *)
Becomes(a, record) ==
    /\ attempt' = [attempt EXCEPT ![a] = record]
    /\ UNCHANGED <<active, turn>>

(* A step before the lock is taken. *)
BeforeLock(a, from, record) ==
    /\ attempt[a].at = from
    /\ Becomes(a, record)
    /\ UNCHANGED lockVars

(* The version is a digest of what was captured, and the sources were captured   *)
(* with the gate open for its generation.                                     *)
Prepared(a) == active = GenOf[VersionOf[a]]

Begin(a) ==
    /\ Prepared(a)
    /\ BeforeLock(a, "start", [Fresh EXCEPT !.at = "inspect"])
    /\ UNCHANGED <<rows, pointer>>

(* The first look at the rows: those of an earlier attempt keep their stamp   *)
(* and give it to the missing ones.                                          *)
Inspect(a) ==
    LET v == VersionOf[a]
    IN  /\ IF OneStamp(v)
           THEN \E t \in IF Stamps(v) = {} THEN {Stamp[a]} ELSE Stamps(v) :
                    BeforeLock(a, "inspect",
                        [attempt[a] EXCEPT !.todo = Missing(v), !.genAt = t,
                             !.at = IF Missing(v) = {} THEN "verify" ELSE "insert"])
           ELSE BeforeLock(a, "inspect", Failed)
        /\ UNCHANGED <<rows, pointer>>

(* One document of the unordered insert_many: a duplicate key is remembered    *)
(* and the others are inserted all the same.                                 *)
InsertRow(a) ==
    \E r \in attempt[a].todo :
        LET v == VersionOf[a]
            exists == rows[v][r] # None
        IN  /\ BeforeLock(a, "insert",
                  [attempt[a] EXCEPT !.todo = @ \ {r}, !.clash = @ \/ exists])
            /\ rows' = IF exists THEN rows
                       ELSE [rows EXCEPT ![v][r] = attempt[a].genAt]
            /\ UNCHANGED pointer

InsertReturns(a) ==
    /\ attempt[a].todo = {} /\ ~attempt[a].clash
    /\ BeforeLock(a, "insert", [attempt[a] EXCEPT !.at = "verify"])
    /\ UNCHANGED <<rows, pointer>>

(* A duplicate key, or a connection lost at any point, raises. *)
InsertRaises(a) ==
    /\ BeforeLock(a, "insert", [attempt[a] EXCEPT !.at = "reverify", !.todo = {}])
    /\ UNCHANGED <<rows, pointer>>

(* The except clause: all the rows are there after all, or the attempt fails. *)
Reverify(a) ==
    /\ BeforeLock(a, "reverify", IF Verified(VersionOf[a])
                                THEN [attempt[a] EXCEPT !.at = "verify"]
                                ELSE Failed)
    /\ UNCHANGED <<rows, pointer>>

(* The verification every path goes through. *)
Verify(a) ==
    /\ BeforeLock(a, "verify", IF Verified(VersionOf[a])
                              THEN [attempt[a] EXCEPT !.at = "lock"]
                              ELSE Failed)
    /\ UNCHANGED <<rows, pointer>>

(* A query before the lock raises. *)
GivesUp(a) ==
    /\ \E from \in {"inspect", "reverify", "verify"} : BeforeLock(a, from, Failed)
    /\ UNCHANGED <<rows, pointer>>

RowsNext(a) ==
    \/ Begin(a) \/ Inspect(a) \/ InsertRow(a) \/ InsertReturns(a) \/ InsertRaises(a)
    \/ Reverify(a) \/ Verify(a) \/ GivesUp(a)

--------------------------------------------------------------------------------
(* Promotion: under the lock. *)

AttemptEnters(a) ==
    /\ attempt[a].at = "lock"
    /\ Acquire(a)
    /\ Becomes(a, [attempt[a] EXCEPT !.at = "ready"])
    /\ UNCHANGED <<rows, pointer>>

AttemptRefused(a) ==
    /\ attempt[a].at = "lock"
    /\ Refused(a)
    /\ Becomes(a, Failed)
    /\ UNCHANGED <<rows, pointer>>

(* A step inside the section; the attempt's next step is "to". *)
Inner(a, from, to) ==
    /\ Inside(a)
    /\ attempt[a].at = from
    /\ Becomes(a, [attempt[a] EXCEPT !.at = to])
    /\ UNCHANGED <<lock, section, holder, rows>>

(* The section ends with a result to return, or with an exception. *)
Ends(a, from, success) ==
    /\ Inside(a)
    /\ attempt[a].at = from
    /\ Becomes(a, [attempt[a] EXCEPT !.at = "leave", !.ok = success])
    /\ UNCHANGED <<lock, section, holder, rows, pointer>>

(* _validate_active_ab_readiness: the generation of the capture is still the   *)
(* active one.  Mutated: any open gate will do.                              *)
GenerationActive_AnyGeneration(a) == active # None
GenerationActive(a) == active = GenOf[VersionOf[a]]

CheckReadiness(a) ==
    IF GenerationActive(a)
    THEN Inner(a, "ready", "read") /\ UNCHANGED pointer
    ELSE Ends(a, "ready", FALSE)

(* What follows from the pointer an attempt has read. *)
SameSource(v, w) == GenOf[v] = GenOf[w] /\ SpaceOf[v] = SpaceOf[w]
Newer(v, w) == AsOf[v] < AsOf[w]

Decide(a, from) ==
    LET v == VersionOf[a]
        found == pointer.ver
    IN  CASE found = v -> Ends(a, from, TRUE)
          [] found # v /\ SameSource(found, v) /\ Newer(found, v) ->
                 /\ Inside(a)
                 /\ attempt[a].at = from
                 /\ Becomes(a, [attempt[a] EXCEPT !.at = "replace", !.seen = found])
                 /\ UNCHANGED <<lock, section, holder, rows, pointer>>
          [] OTHER -> Ends(a, from, FALSE)

ReadPointer(a) ==
    IF pointer.ver = None
    THEN Inner(a, "read", "create") /\ UNCHANGED pointer
    ELSE Decide(a, "read")

(* The pointer document an attempt writes.  Mutated: it takes the time again. *)
PointerOf_SecondClockReading(a) == [ver |-> VersionOf[a], updatedAt |-> Stamp[a] + 1]
PointerOf(a) == [ver |-> VersionOf[a], updatedAt |-> Stamp[a]]

(* insert_one is acknowledged. *)
CreatePointer(a) ==
    /\ pointer.ver = None
    /\ Inner(a, "create", "confirm")
    /\ pointer' = PointerOf(a)

(* insert_one raises: a pointer exists, or the answer is lost. *)
CreateRaises(a) ==
    /\ Inner(a, "create", "reread")
    /\ \/ UNCHANGED pointer
       \/ pointer.ver = None /\ pointer' = PointerOf(a)

(* The pointer after a failed insert: not there, or to be decided upon. *)
RereadPointer(a) ==
    IF pointer.ver = None THEN Ends(a, "reread", FALSE) ELSE Decide(a, "reread")

(* What the filter of replace_one matches.  Mutated: the _id alone. *)
StillSeen_IdOnly(a) == pointer.ver # None
StillSeen(a) == pointer.ver = attempt[a].seen

(* replace_one: acknowledged with or without a match, or its answer is lost;  *)
(* each way the pointer is read once more.                                   *)
ReplacePointer(a) ==
    /\ Inner(a, "replace", "confirm")
    /\ pointer' = IF StillSeen(a) THEN PointerOf(a) ELSE pointer

ReplaceNotApplied(a) ==
    /\ Inner(a, "replace", "confirm")
    /\ UNCHANGED pointer

(* _pointer_matches of the pointer read back.  Mutated: any pointer will do. *)
Matches_AnyPointer(a) == pointer.ver # None
Matches(a) == pointer.ver = VersionOf[a]

ConfirmPointer(a) == Ends(a, "confirm", Matches(a))

(* A query of the section raises.  The read back after an acknowledged insert *)
(* is tried once more.                                                       *)
SectionFails(a) ==
    \/ \E from \in {"ready", "read", "reread", "confirm"} : Ends(a, from, FALSE)
    \/ attempt[a].seen = None /\ Inner(a, "confirm", "reread") /\ UNCHANGED pointer

AttemptLeaves(a) ==
    /\ attempt[a].at = "leave"
    /\ Release(a)
    /\ Becomes(a, [Failed EXCEPT !.ok = attempt[a].ok /\ ~OwnershipLost(a)])
    /\ UNCHANGED <<rows, pointer>>

PromotionNext(a) ==
    \/ AttemptEnters(a) \/ AttemptRefused(a)
    \/ CheckReadiness(a) \/ ReadPointer(a)
    \/ CreatePointer(a) \/ CreateRaises(a) \/ RereadPointer(a)
    \/ ReplacePointer(a) \/ ReplaceNotApplied(a) \/ ConfirmPointer(a)
    \/ SectionFails(a) \/ AttemptLeaves(a)

--------------------------------------------------------------------------------
(* A process that dies takes its local variables with it. *)
DiesInSection(p) ==
    /\ Die(p)
    /\ attempt' = [a \in Attempts |-> IF a = p THEN Failed ELSE attempt[a]]
    /\ UNCHANGED <<rows, pointer, active, turn>>

ClockTick == Tick /\ UNCHANGED hybridData

HybridNext ==
    \/ \E b \in Publishers : PublisherNext(b)
    \/ \E a \in Attempts : RowsNext(a) \/ PromotionNext(a)
    \/ \E p \in Procs : DiesInSection(p)
    \/ ClockTick

HybridSpec == HybridInit /\ [][HybridNext]_hybridVars

(* A live section goes on to its end, because the code inside it has no wait   *)
(* of its own, and time passes.                                              *)
FairHybridSpec ==
    /\ HybridSpec
    /\ WF_hybridVars(ClockTick)
    /\ \A b \in Publishers : WF_hybridVars(Inside(b) /\ PublisherNext(b))
    /\ \A a \in Attempts : WF_hybridVars(Inside(a) /\ PromotionNext(a))

--------------------------------------------------------------------------------
(* A ready pointer never leads to a version with a missing row, or with rows   *)
(* of different generated_at: the rows are verified before the promotion, and  *)
(* nothing that other attempts do to the collection afterwards undoes it.      *)
PointerRowsComplete ==
    pointer.ver # None =>
        \A r, s \in RowsOf[pointer.ver] :
            /\ rows[pointer.ver][r] # None
            /\ rows[pointer.ver][r] = rows[pointer.ver][s]

(* An attempt that returns "published" or "already_active" is visible: the     *)
(* pointer is its version's or, by now, a newer one's.                        *)
PublishedIsVisible ==
    \A a \in Attempts : attempt[a].ok =>
        /\ pointer.ver # None
        /\ pointer.ver = VersionOf[a] \/ Newer(VersionOf[a], pointer.ver)

(* What the API's hybrid reader demands of the rows behind a pointer; anything *)
(* else it answers with InvalidSnapshot.                                     *)
Servable ==
    /\ Verified(pointer.ver)
    /\ \A s \in Stamps(pointer.ver) : s = pointer.updatedAt

(* A version published by the only attempt that ever prepared it is servable. *)
FirstAttemptServable ==
    (pointer.ver # None /\
     \E a \in Attempts :
         /\ VersionOf[a] = pointer.ver
         /\ \A b \in Attempts \ {a} :
                VersionOf[b] = pointer.ver => attempt[b].at = "start")
    => Servable

(* The pointer is only ever moved while the A/B generation its version was     *)
(* computed from is the active one, although the check is a separate query     *)
(* made before it and batch runs may be waiting to replace the generation.     *)
(* It rests on RespectLease.                                                 *)
PromotionUsesActiveGeneration ==
    [][pointer' # pointer => active = GenOf[pointer'.ver]]_hybridVars

(* The pointer implements PointerRegister, whether or not the lock holds. *)
Register == INSTANCE PointerRegister WITH current <- pointer.ver
ImplementsPointerRegister == Register!Spec

(* "A repeated identical publication is idempotent" (docs/module4-plan.md:436): *)
(* a pointer promoted by a retry is one the API can serve.                    *)
ReadyPointerServable == pointer.ver # None => Servable
================================================================================
