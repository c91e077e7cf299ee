--------------------------- MODULE TrendBundlesProofs --------------------------
(***************************************************************************)
(* Proofs about TrendBundles and its reader, for any publishers, windows and      *)
(* contents.                                                                   *)
(*                                                                         *)
(* A success means every window is stored: the proof follows the windows a        *)
(* publisher has dealt with; once settled, a window stays settled, because          *)
(* documents are never replaced.  The counters: what a publisher still has to       *)
(* write is disjoint from what it has inserted (CountOK).  The reader's system is  *)
(* one of the behaviours of the publication, so all of that holds for it.         *)
(***************************************************************************)
EXTENDS TrendReader, TLAPS, FiniteSetTheorems

(* A chunk is a finite set of windows in every list of chunks. *)
LEMMA ChunkType ==
  ASSUME NEW p \in Publishers, NEW i \in 1..Len(ChunksOf[p])
  PROVE  ChunksOf[p][i] \subseteq Windows
BY BundleConstants

LEMMA ChunkCount ==
  ASSUME NEW p \in Publishers
  PROVE  Len(ChunksOf[p]) \in Nat
BY BundleConstants

LEMMA DocumentType ==
  ASSUME NEW p \in Publishers, NEW w \in Windows
  PROVE  /\ DocumentOf(p, w) \in Documents
         /\ DocumentOf(p, w) # None
<1>1. ContentOf[p][w] \in Contents
  BY BundleConstants
<1>2. DocumentOf(p, w) \in [content : Contents, intact : BOOLEAN, expires : BOOLEAN]
  BY <1>1 DEF DocumentOf
<1> QED
  BY <1>2, BundleConstants

LEMMA BundleInitType == Init => TypeOK
<1>1. Idle \in CallRecord
  BY DEF Idle, CallRecord
<1> QED
  BY <1>1, BundleConstants DEF Init, TypeOK

(* What the publisher's own steps do to the types. *)
LEMMA ReadsType ==
  ASSUME TypeOK, NEW p \in Publishers, NEW from, NEW record \in CallRecord,
         Reads(p, from, record)
  PROVE  TypeOK'
BY DEF TypeOK, Reads

LEMMA EndsType ==
  ASSUME TypeOK, NEW p \in Publishers, NEW from,
         NEW outcome \in {"index", "published", "invalid", "conflict", "failed"},
         Ends(p, from, outcome)
  PROVE  TypeOK'
<1>1. [call[p] EXCEPT !.at = outcome] \in CallRecord
  BY DEF TypeOK, CallRecord
<1> QED
  BY <1>1, ReadsType DEF Ends

LEMMA StoredCount ==
  ASSUME NEW p \in Publishers, NEW i \in 1..Len(ChunksOf[p]), NEW bad
  PROVE  Cardinality(Stored(ChunksOf[p][i]) \ bad) \in Nat
<1>1. IsFiniteSet(ChunksOf[p][i])
  BY BundleConstants
<1>2. Stored(ChunksOf[p][i]) \ bad \subseteq ChunksOf[p][i]
  BY DEF Stored
<1> QED
  BY <1>1, <1>2, FS_Subset, FS_CardinalityType

(* The record of a publisher that goes to another step and chunk. *)
LEMMA CallMoves ==
  ASSUME NEW c \in CallRecord, NEW to \in {"write", "reconcile"}, NEW k \in Nat \ {0}
  PROVE  [c EXCEPT !.at = to, !.chunk = k] \in CallRecord
BY DEF CallRecord

LEMMA CountedType ==
  ASSUME NEW p, call[p] \in CallRecord
  PROVE  Counted(p) \in CallRecord
<1>1. ASSUME NEW c \in CallRecord, NEW u \in Nat, NEW r \in Nat
      PROVE  [c EXCEPT !.created = u, !.retries = r] \in CallRecord
  BY DEF CallRecord
<1>2. call[p].created + call[p].up \in Nat /\ call[p].retries + call[p].hit \in Nat
  BY DEF CallRecord
<1> QED
  BY <1>1, <1>2, Zenon DEF Counted

(* An upsert that matches leaves the document as it is. *)
LEMMA FindOneReads ==
  ASSUME TypeOK, NEW p \in Publishers, NEW w \in Windows, FindOne(p, w)
  PROVE  UNCHANGED <<store, born, lapsed>>
BY DEF TypeOK, FindOne, OnMatch

LEMMA BundleTypeStep == TypeOK /\ [Next]_vars => TypeOK'
<1> SUFFICES ASSUME TypeOK, [Next]_vars PROVE TypeOK'
  OBVIOUS
<1>1. ASSUME NEW p \in Publishers, PublisherNext(p) PROVE TypeOK'
  <2> DEFINE c == call[p]
  <2>0. c \in CallRecord /\ Len(ChunksOf[p]) \in Nat
    BY ChunkCount DEF TypeOK
  <2>a. ASSUME ChunksLeft(p)
        PROVE  c.chunk \in 1..Len(ChunksOf[p])
    BY <2>0, <2>a DEF ChunksLeft, CallRecord
  <2>b. ASSUME ChunksLeft(p) PROVE ThisChunk(p) \subseteq Windows
    BY <2>a, <2>b, ChunkType DEF ThisChunk
  <2>c. 1 \in Nat \ {0}
    OBVIOUS
  <2>1. CASE CheckChunk(p)
    <3>1. [c EXCEPT !.chunk = @ + 1] \in CallRecord
      BY <2>0, SMTT(60) DEF CallRecord
    <3>2. CASE Reads(p, "check", [call[p] EXCEPT !.chunk = @ + 1])
      BY <3>1, <3>2, ReadsType
    <3>3. CASE Ends(p, "check", "conflict") \/ Ends(p, "check", "failed")
      BY <3>3, EndsType
    <3> QED
      BY <2>1, <3>2, <3>3 DEF CheckChunk
  <2>2. CASE CheckRaises(p)
    BY <2>2, EndsType DEF CheckRaises
  <2>3. CASE ChecksDone(p)
    BY <2>3, EndsType DEF ChecksDone
  <2>4. CASE EnsureIndexes(p)
    <3>1. [c EXCEPT !.at = "write", !.chunk = 1] \in CallRecord
      BY <2>0, <2>c, CallMoves, Zenon
    <3> QED
      BY <2>4, <3>1, ReadsType, EndsType DEF EnsureIndexes
  <2>5. CASE StartBulk(p)
    <3>1. [c EXCEPT !.at = "bulk", !.todo = ThisChunk(p), !.clash = FALSE,
                    !.up = 0, !.hit = 0] \in CallRecord
      BY <2>0, <2>b, <2>5 DEF CallRecord, StartBulk
    <3> QED
      BY <2>5, <3>1, ReadsType DEF StartBulk
  <2>6. CASE WritesDone(p)
    BY <2>6, EndsType DEF WritesDone
  <2>7. ASSUME NEW w \in Windows, FindOne(p, w) PROVE TypeOK'
    <3>1. [c EXCEPT !.todo = @ \ {w},
                    !.hit = IF Matches(p, w) THEN @ + 1 ELSE @,
                    !.inserting = IF Matches(p, w) THEN @ ELSE @ \cup {w}]
              \in CallRecord
      <4>1. ASSUME NEW t \in SUBSET Windows, NEW h \in Nat, NEW i \in SUBSET Windows
            PROVE  [c EXCEPT !.todo = t, !.hit = h, !.inserting = i] \in CallRecord
        BY <2>0 DEF CallRecord
      <4>2. /\ c.todo \ {w} \in SUBSET Windows
            /\ (IF Matches(p, w) THEN c.hit + 1 ELSE c.hit) \in Nat
            /\ (IF Matches(p, w) THEN c.inserting ELSE c.inserting \cup {w})
                   \in SUBSET Windows
        BY <2>0 DEF CallRecord
      <4> QED
        BY <4>1, <4>2, Zenon
    <3> QED
      BY <2>7, <3>1, FindOneReads DEF TypeOK, FindOne
  <2>8. ASSUME NEW w \in Windows, InsertOne(p, w) PROVE TypeOK'
    <3>1. [c EXCEPT !.inserting = @ \ {w},
                    !.up = IF Vacant(w) THEN @ + 1 ELSE @,
                    !.clash = @ \/ ~Vacant(w)] \in CallRecord
      <4>1. ASSUME NEW i \in SUBSET Windows, NEW u \in Nat, NEW b \in BOOLEAN
            PROVE  [c EXCEPT !.inserting = i, !.up = u, !.clash = b] \in CallRecord
        BY <2>0 DEF CallRecord
      <4>2. /\ c.inserting \ {w} \in SUBSET Windows
            /\ (IF Vacant(w) THEN c.up + 1 ELSE c.up) \in Nat
            /\ (c.clash \/ ~Vacant(w)) \in BOOLEAN
        BY <2>0 DEF CallRecord
      <4> QED
        BY <4>1, <4>2, Zenon
    <3>2. call' \in [Publishers -> CallRecord]
      BY <2>8, <3>1 DEF TypeOK, InsertOne
    <3>3. store' \in [Windows -> Documents \cup {None}]
      BY <2>8, DocumentType DEF TypeOK, InsertOne
    <3>4. born' \in [Publishers -> SUBSET Windows] /\ lapsed' \subseteq Windows
      BY <2>8 DEF TypeOK, InsertOne
    <3> QED
      BY <3>2, <3>3, <3>4 DEF TypeOK
  <2>9. CASE BulkReturns(p) \/ BulkDuplicates(p)
    <3>1. Counted(p) \in CallRecord /\ Counted(p).chunk + 1 \in Nat \ {0}
      BY <2>0, CountedType DEF CallRecord
    <3>2. /\ [Counted(p) EXCEPT !.at = "write", !.chunk = @ + 1] \in CallRecord
          /\ [Counted(p) EXCEPT !.at = "reconcile", !.chunk = 1] \in CallRecord
      BY <3>1, <2>c, CallMoves, Zenon
    <3> QED
      BY <2>9, <3>2, ReadsType DEF BulkReturns, BulkDuplicates
  <2>10. CASE BulkFails(p)
    <3>1. PICK record \in {c, Counted(p)}, rest \in {c.todo, {}} :
              Reads(p, "bulk", [record EXCEPT !.at = "failed", !.todo = rest])
      BY <2>10 DEF BulkFails
    <3>2. record \in CallRecord /\ rest \in SUBSET Windows
      BY <2>0, CountedType DEF CallRecord
    <3>3. [record EXCEPT !.at = "failed", !.todo = rest] \in CallRecord
      <4>1. ASSUME NEW a \in {"failed"}
            PROVE  [record EXCEPT !.at = a, !.todo = rest] \in CallRecord
        BY <3>2 DEF CallRecord
      <4> QED
        BY <4>1, Zenon
    <3> QED
      BY <3>1, <3>3, ReadsType
  <2>11. CASE ReconcileChunk(p)
    <3> DEFINE ws == ThisChunk(p)
               bad == Conflicting(p, ws) \cup Damaged(p, ws)
               n == Cardinality(Stored(ws) \ bad)
               gone == c.gone \/ Stored(ws) # ws
               wrong == c.wrong \/ Conflicting(p, ws) # {}
               damaged == c.damaged \/ Damaged(p, ws) # {}
               record == [c EXCEPT !.chunk = @ + 1, !.match = @ + n, !.gone = gone,
                                   !.wrong = wrong, !.damaged = damaged]
    <3>1. n \in Nat
      BY <2>a, <2>11, StoredCount DEF ReconcileChunk, ThisChunk
    <3>2. gone \in BOOLEAN /\ wrong \in BOOLEAN /\ damaged \in BOOLEAN
      BY <2>0 DEF CallRecord
    <3>3. ASSUME NEW k \in Nat \ {0}, NEW m \in Nat, NEW g \in BOOLEAN,
                 NEW x \in BOOLEAN, NEW d \in BOOLEAN
          PROVE  [c EXCEPT !.chunk = k, !.match = m, !.gone = g, !.wrong = x,
                           !.damaged = d] \in CallRecord
      BY <2>0 DEF CallRecord
    <3>4. c.chunk + 1 \in Nat \ {0} /\ c.match + n \in Nat
      BY <2>0, <3>1 DEF CallRecord
    <3>5. record \in CallRecord
      BY <3>2, <3>3, <3>4, Zenon
    <3>6. Reads(p, "reconcile", record)
      BY <2>11 DEF ReconcileChunk
    <3> QED
      BY <3>5, <3>6, ReadsType
  <2>12. CASE ReconcileRaises(p)
    BY <2>12, EndsType DEF ReconcileRaises
  <2>13. CASE ReconcileDone(p)
    <3>1. RetriesOf(c) \in Nat
      BY <2>0 DEF CallRecord, RetriesOf
    <3>2. Verdict(c) \in {"conflict", "failed", "published"}
      BY <2>0 DEF CallRecord, Verdict
    <3>3. [c EXCEPT !.retries = RetriesOf(c), !.at = Verdict(c)] \in CallRecord
      BY <2>0, <3>1, <3>2 DEF CallRecord
    <3> QED
      BY <2>13, <3>3, ReadsType DEF ReconcileDone
  <2> QED
    BY <1>1, <2>1, <2>2, <2>3, <2>4, <2>5, <2>6, <2>7, <2>8, <2>9, <2>10, <2>11,
       <2>12, <2>13 DEF PublisherNext
<1>2. ASSUME NEW w \in Windows, ExpireDocument(w) PROVE TypeOK'
  BY <1>2 DEF TypeOK, ExpireDocument
<1>3. CASE UNCHANGED vars
  BY <1>3 DEF TypeOK, vars
<1> QED
  BY <1>1, <1>2, <1>3 DEF Next

(* Type correctness, with the history variables. *)
THEOREM BundleTyping == Spec => []TypeOK
<1> QED
  BY BundleInitType, BundleTypeStep, PTL DEF Spec

--------------------------------------------------------------------------------
(* A step inserts a document where there was none, lets one expire, or leaves  *)
(* the collection alone: BundleStore's steps.                                *)
LEMMA BundleStoreStep ==
  ASSUME TypeOK, [Next]_vars
  PROVE  [Bundles!Next]_store
<1>1. ASSUME NEW p \in Publishers, NEW w \in Windows, InsertOne(p, w)
      PROVE  [Bundles!Next]_store
  <2>1. CASE Vacant(w)
    <3>1. Bundles!Publish(w)
      BY <1>1, <2>1, DocumentType DEF InsertOne, Bundles!Publish, Vacant
    <3> QED
      BY <3>1 DEF Bundles!Next
  <2>2. CASE ~Vacant(w)
    BY <1>1, <2>2 DEF InsertOne
  <2> QED
    BY <2>1, <2>2
<1>2. ASSUME NEW w \in Windows, ExpireDocument(w) PROVE [Bundles!Next]_store
  <2>1. Bundles!Expire(w)
    BY <1>2 DEF ExpireDocument, Bundles!Expire
  <2> QED
    BY <2>1 DEF Bundles!Next
<1>3. ASSUME NEW p \in Publishers, PublisherNext(p),
             \A w \in Windows : ~InsertOne(p, w)
      PROVE  UNCHANGED store
  BY <1>3, FindOneReads DEF PublisherNext, CheckChunk, CheckRaises, ChecksDone, EnsureIndexes,
      StartBulk, WritesDone, BulkReturns, BulkDuplicates, BulkFails,
      ReconcileChunk, ReconcileRaises, ReconcileDone, Reads, Ends
<1>4. CASE UNCHANGED vars
  BY <1>4 DEF vars
<1> QED
  BY <1>1, <1>2, <1>3, <1>4 DEF Next

(* The collection is a BundleStore, for any publishers at once. *)
THEOREM BundlesAreImmutable == Spec => ImplementsBundleStore
<1>1. Init => Bundles!Init
  BY BundleConstants DEF Init, Bundles!Init
<1> QED
  BY <1>1, BundleStoreStep, BundleTyping, PTL
     DEF Spec, ImplementsBundleStore, Bundles!Spec

--------------------------------------------------------------------------------
(* The inductive invariant behind SuccessMeansStored. *)

(* w is dealt with: p's document is there, or its retention has ended. *)
Settled(p, w) ==
    \/ w \in lapsed
    \/ store[w] # None /\ store[w].content = ContentOf[p][w] /\ store[w].intact

(* What is stored of p's content is not damaged. *)
Sound(p, w) ==
    store[w] # None /\ store[w].content = ContentOf[p][w] => store[w].intact

AllBefore(p, k, Dealt(_, _)) ==
    \A i \in 1..Len(ChunksOf[p]) : i < k => \A w \in ChunksOf[p][i] : Dealt(p, w)

(* What holds of a publisher p with the record c. *)
CallOK(p, c) ==
    /\ c.at = "check" => AllBefore(p, c.chunk, Sound)
    /\ c.at \in {"index", "write", "bulk"} => AllBefore(p, Len(ChunksOf[p]) + 1, Sound)
    /\ c.at \in {"write", "bulk"} => AllBefore(p, c.chunk, Settled)
    /\ c.at = "bulk" =>
           /\ c.chunk \in 1..Len(ChunksOf[p])
           /\ ~c.clash => \A w \in ChunksOf[p][c.chunk] \ (c.todo \cup c.inserting) :
                              Settled(p, w)
    /\ c.at = "reconcile" /\ ~c.wrong /\ ~c.damaged /\ ~c.gone =>
           AllBefore(p, c.chunk, Settled)
    /\ c.at = "published" => AllBefore(p, Len(ChunksOf[p]) + 1, Settled)

BundleInv == TypeOK /\ \A p \in Publishers : CallOK(p, call[p])

LEMMA BundleInvInit == Init => BundleInv
<1> SUFFICES ASSUME Init PROVE BundleInv
  OBVIOUS
<1>1. ASSUME NEW p \in Publishers PROVE CallOK(p, call[p])
  BY DEF Init, Idle, CallOK, AllBefore
<1> QED
  BY <1>1, BundleInitType DEF BundleInv

(* Nothing a step does to the collection unsettles a window or damages it. *)
LEMMA SettledStable ==
  ASSUME TypeOK, [Next]_vars, NEW p \in Publishers, NEW w \in Windows
  PROVE  /\ Settled(p, w) => Settled(p, w)'
         /\ Sound(p, w) => Sound(p, w)'
<1>1. ASSUME NEW q \in Publishers, NEW v \in Windows, InsertOne(q, v)
      PROVE  /\ Settled(p, w) => Settled(p, w)'
             /\ Sound(p, w) => Sound(p, w)'
  <2>1. CASE Vacant(v) /\ v = w
    <3>1. store'[w] = DocumentOf(q, w) /\ lapsed' = lapsed
      BY <1>1, <2>1 DEF InsertOne, TypeOK
    <3>2. store'[w].intact
      BY <3>1 DEF DocumentOf
    <3>3. store[w] = None
      BY <2>1 DEF Vacant
    <3> QED
      BY <3>1, <3>2, <3>3 DEF Settled, Sound
  <2>2. CASE ~Vacant(v) \/ v # w
    <3>1. store'[w] = store[w] /\ lapsed' = lapsed
      BY <1>1, <2>2 DEF InsertOne, TypeOK
    <3> QED
      BY <3>1 DEF Settled, Sound
  <2> QED
    BY <2>1, <2>2
<1>2. ASSUME NEW v \in Windows, ExpireDocument(v)
      PROVE  /\ Settled(p, w) => Settled(p, w)'
             /\ Sound(p, w) => Sound(p, w)'
  BY <1>2 DEF ExpireDocument, TypeOK, Settled, Sound
<1>3. ASSUME NEW q \in Publishers, PublisherNext(q), \A v \in Windows : ~InsertOne(q, v)
      PROVE  UNCHANGED <<store, lapsed>>
  BY <1>3, FindOneReads DEF PublisherNext, CheckChunk, CheckRaises, ChecksDone, EnsureIndexes,
      StartBulk, WritesDone, BulkReturns, BulkDuplicates, BulkFails,
      ReconcileChunk, ReconcileRaises, ReconcileDone, Reads, Ends
<1>4. CASE UNCHANGED vars
  BY <1>4 DEF vars, Settled, Sound
<1> QED
  BY <1>1, <1>2, <1>3, <1>4 DEF Next, Settled, Sound

(* So a record that is right stays right while others act. *)
LEMMA CallOKStable ==
  ASSUME TypeOK, [Next]_vars, NEW p \in Publishers, NEW c \in CallRecord, CallOK(p, c)
  PROVE  CallOK(p, c)'
<1>1. \A i \in 1..Len(ChunksOf[p]) : \A w \in ChunksOf[p][i] :
          /\ Settled(p, w) => Settled(p, w)'
          /\ Sound(p, w) => Sound(p, w)'
  BY SettledStable, ChunkType
<1>2. ASSUME NEW k
      PROVE  /\ AllBefore(p, k, Settled) => AllBefore(p, k, Settled)'
             /\ AllBefore(p, k, Sound) => AllBefore(p, k, Sound)'
  BY <1>1 DEF AllBefore
<1>3. c.at = "bulk" /\ ~c.clash =>
          \A w \in ChunksOf[p][c.chunk] \ (c.todo \cup c.inserting) : Settled(p, w)'
  BY <1>1 DEF CallOK
<1> QED
  BY <1>2, <1>3 DEF CallOK

(* A publisher that only reads: its new record must be right as things are. *)
LEMMA ReadsOK ==
  ASSUME TypeOK, NEW p \in Publishers, NEW from, NEW record,
         Reads(p, from, record), CallOK(p, record)
  PROVE  CallOK(p, call[p])'
<1>1. call'[p] = record /\ store' = store /\ lapsed' = lapsed
  BY DEF Reads, TypeOK
<1>2. CallOK(p, record)'
  BY <1>1 DEF CallOK, AllBefore, Settled, Sound
<1> QED
  BY <1>1, <1>2

LEMMA EndsOK ==
  ASSUME TypeOK, NEW p \in Publishers, NEW from, NEW outcome \in {"invalid", "conflict", "failed"},
         Ends(p, from, outcome)
  PROVE  CallOK(p, call[p])'
<1>1. call'[p].at = outcome
  BY DEF Ends, Reads, TypeOK, CallRecord
<1> QED
  BY <1>1 DEF CallOK

(* A publisher's own step keeps its record right. *)
LEMMA CallOKStep ==
  ASSUME TypeOK, NEW p \in Publishers, CallOK(p, call[p]), PublisherNext(p),
         [Next]_vars
  PROVE  CallOK(p, call[p])'
<1> DEFINE c == call[p]
           last == Len(ChunksOf[p])
<1>0. c \in CallRecord /\ last \in Nat /\ call'[p] \in CallRecord
  BY ChunkCount, BundleTypeStep DEF TypeOK
<1>a. ASSUME ChunksLeft(p) PROVE c.chunk \in 1..last
  BY <1>0, <1>a DEF ChunksLeft, CallRecord
<1>b. ASSUME ~ChunksLeft(p) PROVE \A i \in 1..last : i < c.chunk
  BY <1>0, <1>b DEF ChunksLeft, CallRecord
<1>1. CASE CheckChunk(p)
  <2>1. CASE Ends(p, "check", "conflict") \/ Ends(p, "check", "failed")
    BY <2>1, EndsOK
  <2>2. CASE /\ Reads(p, "check", [c EXCEPT !.chunk = @ + 1])
             /\ Conflicting(p, ThisChunk(p)) = {} /\ Damaged(p, ThisChunk(p)) = {}
    <3> DEFINE record == [c EXCEPT !.chunk = @ + 1]
    <3>1. record.at = "check" /\ record.chunk = c.chunk + 1 /\ c.at = "check"
      BY <1>0, <2>2 DEF CallRecord, Reads
    <3>2. \A w \in ChunksOf[p][c.chunk] : Sound(p, w)
      BY <2>2 DEF Damaged, Stored, Sound, ThisChunk
    <3>3. AllBefore(p, c.chunk + 1, Sound)
      BY <1>0, <3>1, <3>2, SMTT(60) DEF CallOK, AllBefore, CallRecord
    <3>4. CallOK(p, record)
      BY <3>1, <3>3 DEF CallOK
    <3> QED
      BY <2>2, <3>4, ReadsOK
  <2> QED
    BY <1>1, <2>1, <2>2 DEF CheckChunk
<1>2. CASE CheckRaises(p)
  BY <1>2, EndsOK DEF CheckRaises
<1>3. CASE ChecksDone(p)
  <2> DEFINE to == IF ChunksOf[p] = <<>> THEN "published" ELSE "index"
             record == [c EXCEPT !.at = to]
  <2>1. c.at = "check" /\ record.at = to /\ Reads(p, "check", record)
    BY <1>0, <1>3 DEF ChecksDone, Ends, Reads, CallRecord
  <2>2. AllBefore(p, last + 1, Sound)
    BY <1>0, <1>b, <1>3, <2>1 DEF ChecksDone, CallOK, AllBefore
  <2>3. ChunksOf[p] = <<>> => AllBefore(p, last + 1, Settled)
    BY DEF AllBefore
  <2>4. CallOK(p, record)
    BY <2>1, <2>2, <2>3 DEF CallOK
  <2> QED
    BY <2>1, <2>4, ReadsOK
<1>4. CASE EnsureIndexes(p)
  <2>1. CASE Ends(p, "index", "failed")
    BY <2>1, EndsOK
  <2>2. CASE Reads(p, "index", [c EXCEPT !.at = "write", !.chunk = 1])
    <3> DEFINE record == [c EXCEPT !.at = "write", !.chunk = 1]
    <3>1. record.at = "write" /\ record.chunk = 1 /\ c.at = "index"
      BY <1>0, <2>2 DEF CallRecord, Reads
    <3>2. AllBefore(p, 1, Settled)
      BY <1>0 DEF AllBefore
    <3>3. CallOK(p, record)
      BY <3>1, <3>2 DEF CallOK
    <3> QED
      BY <2>2, <3>3, ReadsOK
  <2> QED
    BY <1>4, <2>1, <2>2 DEF EnsureIndexes
<1>5. CASE StartBulk(p)
  <2> DEFINE record == [c EXCEPT !.at = "bulk", !.todo = ThisChunk(p),
                                 !.clash = FALSE, !.up = 0, !.hit = 0]
  <2>1. /\ record.at = "bulk" /\ record.chunk = c.chunk /\ c.at = "write"
        /\ record.todo = ThisChunk(p)
    BY <1>0, <1>5 DEF CallRecord, StartBulk, Reads
  <2>2. CallOK(p, record)
    BY <1>a, <1>5, <2>1 DEF StartBulk, CallOK, ThisChunk
  <2> QED
    BY <1>5, <2>2, ReadsOK DEF StartBulk
<1>6. CASE WritesDone(p)
  <2> DEFINE record == [c EXCEPT !.at = "published"]
  <2>1. c.at = "write" /\ record.at = "published" /\ Reads(p, "write", record)
    BY <1>0, <1>6 DEF WritesDone, Ends, Reads, CallRecord
  <2>2. AllBefore(p, last + 1, Settled)
    BY <1>0, <1>b, <1>6, <2>1 DEF WritesDone, CallOK, AllBefore
  <2>3. CallOK(p, record)
    BY <2>1, <2>2 DEF CallOK
  <2> QED
    BY <2>1, <2>3, ReadsOK
<1>7. ASSUME NEW v \in Windows, FindOne(p, v) PROVE CallOK(p, call[p])'
  <2>1. /\ call'[p].at = c.at /\ call'[p].chunk = c.chunk /\ call'[p].clash = c.clash
        /\ call'[p].wrong = c.wrong /\ call'[p].damaged = c.damaged
        /\ call'[p].gone = c.gone
        /\ call'[p].todo = c.todo \ {v}
        /\ call'[p].inserting = IF Matches(p, v) THEN c.inserting
                                ELSE c.inserting \cup {v}
        /\ store' = store /\ lapsed' = lapsed
        /\ v \in c.todo
    <3>1. /\ call' = [call EXCEPT
                   ![p].todo = c.todo \ {v},
                   ![p].hit = IF Matches(p, v) THEN c.hit + 1 ELSE c.hit,
                   ![p].inserting = IF Matches(p, v) THEN c.inserting
                                    ELSE c.inserting \cup {v}]
          /\ v \in c.todo
      BY <1>7, Zenon DEF FindOne
    <3>2. store' = store /\ lapsed' = lapsed
      BY <1>0, <1>7, FindOneReads
    <3>3. call \in [Publishers -> CallRecord]
      BY <1>0 DEF TypeOK
    <3> QED
      BY <3>1, <3>2, <3>3 DEF CallRecord
  <2>2. c.at = "bulk" /\ Matches(p, v) /\ v \in ChunksOf[p][c.chunk] => Settled(p, v)
    <3>1. c.at = "bulk" /\ v \in ChunksOf[p][c.chunk] => Sound(p, v)
      BY <1>0 DEF CallOK, AllBefore
    <3> QED
      BY <3>1 DEF Sound, Settled, Matches
  <2>3. \A w : (Settled(p, w)' <=> Settled(p, w)) /\ (Sound(p, w)' <=> Sound(p, w))
    BY <2>1 DEF Settled, Sound
  <2>4. \A w : w \notin c.todo \cup c.inserting \/ (w = v /\ Matches(p, v))
                 \/ w \in call'[p].todo \cup call'[p].inserting
    <3>1. CASE Matches(p, v)
      BY <2>1, <3>1
    <3>2. CASE ~Matches(p, v)
      <4>1. call'[p].inserting = c.inserting \cup {v} /\ call'[p].todo = c.todo \ {v}
        BY <2>1, <3>2
      <4> QED
        BY <4>1
    <3> QED
      BY <3>1, <3>2
  <2>5. c.at = "bulk" /\ ~c.clash =>
            \A w \in ChunksOf[p][c.chunk] \ (call'[p].todo \cup call'[p].inserting) :
                Settled(p, w)
    BY <2>2, <2>4 DEF CallOK
  <2> QED
    BY <2>1, <2>3, <2>5 DEF CallOK, AllBefore
<1>8. ASSUME NEW v \in Windows, InsertOne(p, v) PROVE CallOK(p, call[p])'
  <2>1. /\ call'[p].at = c.at /\ call'[p].chunk = c.chunk
        /\ call'[p].clash = (c.clash \/ ~Vacant(v))
        /\ call'[p].wrong = c.wrong /\ call'[p].damaged = c.damaged
        /\ call'[p].gone = c.gone
        /\ call'[p].todo = c.todo
        /\ call'[p].inserting = c.inserting \ {v}
    BY <1>0, <1>8 DEF InsertOne, TypeOK, CallRecord
  <2>2. PICK d \in CallRecord : d = c /\ CallOK(p, d)'
    <3>1. PICK d \in CallRecord : d = c
      BY <1>0
    <3> QED
      BY <3>1, CallOKStable
  <2>3. Vacant(v) => Settled(p, v)'
    <3>1. Vacant(v) => store'[v] = DocumentOf(p, v)
      BY <1>8 DEF InsertOne, TypeOK
    <3> QED
      BY <3>1, DocumentType DEF Settled, DocumentOf
  <2>4. c.at = "bulk" /\ ~call'[p].clash =>
            \A w \in ChunksOf[p][c.chunk] \ (call'[p].todo \cup call'[p].inserting) :
                Settled(p, w)'
    BY <1>0, <2>1, <2>2, <2>3 DEF CallOK, CallRecord
  <2> QED
    BY <2>1, <2>2, <2>4 DEF CallOK
<1>9. CASE BulkReturns(p)
  <2> DEFINE record == [Counted(p) EXCEPT !.at = "write", !.chunk = @ + 1]
  <2>1. /\ record.at = "write" /\ record.chunk = c.chunk + 1 /\ c.at = "bulk"
        /\ c.todo = {} /\ c.inserting = {} /\ ~c.clash
    BY <1>0, <1>9 DEF BulkReturns, BulkFinished, Counted, Reads, CallRecord
  <2>2. AllBefore(p, c.chunk + 1, Settled)
    BY <1>0, <2>1, SMTT(60) DEF CallOK, AllBefore, CallRecord
  <2>3. CallOK(p, record)
    BY <2>1, <2>2 DEF CallOK
  <2> QED
    BY <1>9, <2>3, ReadsOK DEF BulkReturns
<1>10. CASE BulkDuplicates(p)
  <2> DEFINE record == [Counted(p) EXCEPT !.at = "reconcile", !.chunk = 1]
  <2>1. record.at = "reconcile" /\ record.chunk = 1
    BY <1>0 DEF Counted, CallRecord
  <2>2. AllBefore(p, 1, Settled)
    BY <1>0 DEF AllBefore
  <2>3. CallOK(p, record)
    BY <2>1, <2>2 DEF CallOK
  <2> QED
    BY <1>10, <2>3, ReadsOK DEF BulkDuplicates
<1>11. CASE BulkFails(p)
  <2>1. call'[p].at = "failed"
    BY <1>0, <1>11 DEF BulkFails, Reads, Counted, TypeOK, CallRecord
  <2> QED
    BY <2>1 DEF CallOK
<1>12. CASE ReconcileChunk(p)
  <2> DEFINE ws == ThisChunk(p)
             bad == Conflicting(p, ws) \cup Damaged(p, ws)
             record == [c EXCEPT
                 !.chunk = @ + 1,
                 !.match = @ + Cardinality(Stored(ws) \ bad),
                 !.gone = @ \/ Stored(ws) # ws,
                 !.wrong = @ \/ Conflicting(p, ws) # {},
                 !.damaged = @ \/ Damaged(p, ws) # {}]
  <2>1. Reads(p, "reconcile", record) /\ c.at = "reconcile"
    BY <1>12 DEF ReconcileChunk, Reads
  <2>2. /\ record.at = c.at /\ record.chunk = c.chunk + 1
        /\ record.wrong = (c.wrong \/ Conflicting(p, ws) # {})
        /\ record.damaged = (c.damaged \/ Damaged(p, ws) # {})
        /\ record.gone = (c.gone \/ Stored(ws) # ws)
    BY <1>0 DEF CallRecord
  <2> HIDE DEF record
  <2>3. ASSUME ~record.wrong, ~record.damaged, ~record.gone
        PROVE  AllBefore(p, c.chunk + 1, Settled)
    <3>1. \A w \in ChunksOf[p][c.chunk] : Settled(p, w)
      BY <2>2, <2>3 DEF Conflicting, Damaged, Stored, Settled, ThisChunk
    <3>2. AllBefore(p, c.chunk, Settled)
      BY <2>1, <2>2, <2>3 DEF CallOK
    <3>3. \A i \in 1..last : i < c.chunk + 1 => i < c.chunk \/ i = c.chunk
      BY <1>0 DEF CallRecord
    <3> QED
      BY <3>1, <3>2, <3>3 DEF AllBefore
  <2>4. CallOK(p, record)
    BY <2>1, <2>2, <2>3 DEF CallOK
  <2> QED
    BY <2>1, <2>4, ReadsOK
<1>13. CASE ReconcileRaises(p)
  BY <1>13, EndsOK DEF ReconcileRaises
<1>14. CASE ReconcileDone(p)
  <2>1. /\ call'[p].at = Verdict(c) /\ c.at = "reconcile"
        /\ store' = store /\ lapsed' = lapsed
    BY <1>0, <1>14 DEF ReconcileDone, Reads, TypeOK, CallRecord
  <2>2. CASE Verdict(c) = "published"
    <3>1. ~c.wrong /\ ~c.damaged /\ ~c.gone
      BY <2>2 DEF Verdict
    <3>2. AllBefore(p, last + 1, Settled)
      BY <1>0, <1>b, <1>14, <2>1, <3>1 DEF ReconcileDone, CallOK, AllBefore
    <3>3. AllBefore(p, last + 1, Settled)'
      BY <2>1, <3>2 DEF AllBefore, Settled
    <3> QED
      BY <2>1, <2>2, <3>3 DEF CallOK
  <2>3. CASE Verdict(c) \in {"conflict", "failed"}
    BY <2>1, <2>3 DEF CallOK
  <2> QED
    BY <2>2, <2>3 DEF Verdict
<1> QED
  BY <1>1, <1>2, <1>3, <1>4, <1>5, <1>6, <1>7, <1>8, <1>9, <1>10, <1>11, <1>12,
     <1>13, <1>14 DEF PublisherNext

LEMMA BundleInvStep == BundleInv /\ [Next]_vars => BundleInv'
<1> SUFFICES ASSUME BundleInv, [Next]_vars PROVE BundleInv'
  OBVIOUS
<1>1. TypeOK'
  BY BundleTypeStep DEF BundleInv
<1>2. ASSUME NEW p \in Publishers PROVE CallOK(p, call[p])'
  <2>1. CASE PublisherNext(p)
    BY <2>1, CallOKStep DEF BundleInv
  <2>2. CASE ~PublisherNext(p)
    <3>1. call'[p] = call[p]
      <4>1. ASSUME NEW q \in Publishers, PublisherNext(q) PROVE call'[p] = call[p]
        <5>1. q # p
          BY <2>2, <4>1
        <5> QED
          BY <4>1, <5>1 DEF BundleInv, TypeOK, PublisherNext, CheckChunk, CheckRaises,
             ChecksDone, EnsureIndexes, StartBulk, WritesDone, FindOne, InsertOne,
             BulkReturns, BulkDuplicates, BulkFails, ReconcileChunk, ReconcileRaises,
             ReconcileDone, Reads, Ends
      <4> QED
        BY <4>1 DEF Next, vars, ExpireDocument
    <3>2. CallOK(p, call[p]) /\ call[p] \in CallRecord
      BY DEF BundleInv, TypeOK
    <3>3. PICK c \in CallRecord : c = call[p] /\ CallOK(p, c)
      BY <3>2
    <3>4. CallOK(p, c)'
      BY <3>3, CallOKStable DEF BundleInv
    <3> QED
      BY <3>1, <3>3, <3>4
  <2> QED
    BY <2>1, <2>2
<1> QED
  BY <1>1, <1>2 DEF BundleInv

(* A publication that reports success has every window stored, with its own    *)
(* content, for as long as the retention lasts: duplicate keys, publishers of  *)
(* the same windows and late writes of abandoned bulks included.              *)
THEOREM BundleSuccessMeansStored == Spec => []SuccessMeansStored
<1>1. BundleInv => SuccessMeansStored
  <2> SUFFICES ASSUME BundleInv, NEW p \in Publishers, call[p].at = "published",
                      NEW w \in Batch(p) \ lapsed
               PROVE  /\ store[w] # None
                      /\ store[w].content = ContentOf[p][w]
                      /\ store[w].intact
    BY DEF SuccessMeansStored
  <2>1. PICK i \in 1..Len(ChunksOf[p]) : w \in ChunksOf[p][i]
    BY DEF Batch
  <2>2. Settled(p, w)
    BY <2>1, ChunkCount DEF BundleInv, CallOK, AllBefore
  <2> QED
    BY <2>2 DEF Settled
<1> QED
  BY <1>1, BundleInvInit, BundleInvStep, PTL DEF Spec

--------------------------------------------------------------------------------
(* The inductive invariant behind CreatedIsTruthful: what p still has to write is  *)
(* disjoint from what it has inserted, also where a chunk is given up and the       *)
(* server goes on with it.                                                     *)

(* The first chunk of which p has inserted nothing. *)
Ahead(c) == IF c.at = "bulk" THEN c.chunk + 1 ELSE c.chunk

(* What holds of a publisher p with the record c that has inserted b. *)
CountOK(p, c, b) ==
    /\ IsFiniteSet(b)
    /\ c.todo \cap c.inserting = {} /\ b \cap (c.todo \cup c.inserting) = {}
    /\ c.at \in {"check", "index"} => b = {}
    /\ c.at \notin {"bulk", "failed"} =>
           c.todo = {} /\ c.inserting = {} /\ c.created = Cardinality(b)
    /\ c.at = "bulk" => c.created + c.up = Cardinality(b)
    /\ c.at = "failed" => c.created <= Cardinality(b)
    /\ c.at \in {"write", "bulk"} =>
           \A i \in 1..Len(ChunksOf[p]) : i >= Ahead(c) => b \cap ChunksOf[p][i] = {}
    /\ c.at = "bulk" =>
           /\ c.chunk \in 1..Len(ChunksOf[p])
           /\ c.todo \cup c.inserting \subseteq ChunksOf[p][c.chunk]

(* A conflict is only seen where one was stored, and nothing but the end of its    *)
(* retention takes it away.                                                    *)
Evidence(p) == Conflicting(p, Batch(p)) # {} \/ lapsed \cap Batch(p) # {}
ClashOK(p) == call[p].wrong \/ call[p].at = "conflict" => Evidence(p)

LEMMA CountInit == Init => \A p \in Publishers : CountOK(p, call[p], born[p]) /\ ClashOK(p)
<1> SUFFICES ASSUME Init, NEW p \in Publishers
             PROVE  CountOK(p, call[p], born[p]) /\ ClashOK(p)
  OBVIOUS
<1>1. /\ call[p].at = "check" /\ call[p].todo = {} /\ call[p].inserting = {}
      /\ call[p].created = 0 /\ ~call[p].wrong /\ born[p] = {}
  BY DEF Init, Idle
<1>2. IsFiniteSet({}) /\ Cardinality({}) = 0
  BY FS_EmptySet
<1> QED
  BY <1>1, <1>2 DEF CountOK, ClashOK

LEMMA ReadsCount ==
  ASSUME TypeOK, NEW p \in Publishers, NEW from, NEW record,
         Reads(p, from, record), CountOK(p, record, born[p])
  PROVE  CountOK(p, call[p], born[p])'
<1>1. call'[p] = record /\ born' = born
  BY DEF Reads, TypeOK
<1> QED
  BY <1>1 DEF CountOK, Ahead

(* A publisher that stops in the first pass, or after its writes. *)
LEMMA EndsCount ==
  ASSUME TypeOK, NEW p \in Publishers, CountOK(p, call[p], born[p]),
         NEW from \in {"check", "index", "write", "reconcile"},
         NEW outcome \in {"invalid", "conflict", "failed", "published", "index"},
         from = "check" \/ outcome # "index",
         Ends(p, from, outcome)
  PROVE  CountOK(p, call[p], born[p])'
<1> DEFINE c == call[p]
           d == [c EXCEPT !.at = outcome]
<1>1. /\ d.at = outcome /\ d.todo = c.todo /\ d.inserting = c.inserting
      /\ d.created = c.created /\ c.at = from /\ c.created \in Nat
  BY DEF TypeOK, CallRecord, Ends, Reads
<1> HIDE DEF d
<1>2. CountOK(p, d, born[p])
  BY <1>1 DEF CountOK, Ahead
<1>3. Reads(p, from, d)
  BY DEF Ends, d
<1> QED
  BY <1>2, <1>3, ReadsCount

LEMMA CountStep ==
  ASSUME TypeOK, NEW p \in Publishers, CountOK(p, call[p], born[p]), PublisherNext(p)
  PROVE  CountOK(p, call[p], born[p])'
<1> DEFINE c == call[p]
           b == born[p]
           last == Len(ChunksOf[p])
<1>0. c \in CallRecord /\ last \in Nat /\ CountOK(p, c, b)
  BY ChunkCount DEF TypeOK
<1>a. ASSUME ChunksLeft(p) PROVE c.chunk \in 1..last
  BY <1>0, <1>a DEF ChunksLeft, CallRecord
<1>b. Cardinality(b) \in Nat
  BY <1>0, FS_CardinalityType DEF CountOK
<1>1. CASE CheckChunk(p)
  <2>1. CASE Ends(p, "check", "conflict") \/ Ends(p, "check", "failed")
    BY <2>1, EndsCount
  <2>2. CASE Reads(p, "check", [c EXCEPT !.chunk = @ + 1])
    <3> DEFINE d == [c EXCEPT !.chunk = @ + 1]
    <3>1. /\ d.at = "check" /\ d.at = c.at /\ d.todo = c.todo
          /\ d.inserting = c.inserting /\ d.created = c.created
      BY <1>0, <2>2 DEF CallRecord, Reads
    <3>2. CountOK(p, d, b)
      BY <1>0, <3>1 DEF CountOK, Ahead
    <3> QED
      BY <2>2, <3>2, ReadsCount
  <2> QED
    BY <1>1, <2>1, <2>2 DEF CheckChunk
<1>2. CASE CheckRaises(p) \/ ChecksDone(p) \/ WritesDone(p) \/ ReconcileRaises(p)
  BY <1>2, EndsCount DEF CheckRaises, ChecksDone, WritesDone, ReconcileRaises
<1>3. CASE EnsureIndexes(p)
  <2>1. CASE Ends(p, "index", "failed")
    BY <2>1, EndsCount
  <2>2. CASE Reads(p, "index", [c EXCEPT !.at = "write", !.chunk = 1])
    <3> DEFINE d == [c EXCEPT !.at = "write", !.chunk = 1]
    <3>1. /\ d.at = "write" /\ c.at = "index" /\ d.todo = c.todo
          /\ d.inserting = c.inserting /\ d.created = c.created
      BY <1>0, <2>2 DEF CallRecord, Reads
    <3>2. CountOK(p, d, b)
      BY <1>0, <3>1 DEF CountOK, Ahead
    <3> QED
      BY <2>2, <3>2, ReadsCount
  <2> QED
    BY <1>3, <2>1, <2>2 DEF EnsureIndexes
<1>4. CASE StartBulk(p)
  <2> DEFINE d == [c EXCEPT !.at = "bulk", !.todo = ThisChunk(p), !.clash = FALSE,
                            !.up = 0, !.hit = 0]
  <2>1. Reads(p, "write", d) /\ c.at = "write" /\ c.chunk \in 1..last
    BY <1>a, <1>4 DEF StartBulk, Reads
  <2>2. /\ d.at = "bulk" /\ d.chunk = c.chunk /\ d.todo = ChunksOf[p][c.chunk]
        /\ d.inserting = c.inserting /\ d.created = c.created /\ d.up = 0
        /\ c.created \in Nat
    BY <1>0 DEF CallRecord, ThisChunk
  <2> HIDE DEF d
  <2>3. c.inserting = {} /\ b \cap ChunksOf[p][c.chunk] = {} /\ c.created = Cardinality(b)
    BY <1>0, <2>1 DEF CountOK, Ahead
  <2>4. \A i \in 1..last : i >= c.chunk + 1 => b \cap ChunksOf[p][i] = {}
    BY <1>0, <2>1 DEF CountOK, Ahead
  <2>5. CountOK(p, d, b)
    BY <1>0, <2>1, <2>2, <2>3, <2>4 DEF CountOK, Ahead
  <2> QED
    BY <2>1, <2>5, ReadsCount
<1>5. ASSUME NEW w \in Windows, FindOne(p, w) PROVE CountOK(p, call[p], born[p])'
  <2> DEFINE d == call'[p]
  <2>1. /\ d.at = c.at /\ d.chunk = c.chunk /\ d.created = c.created /\ d.up = c.up
        /\ d.todo = c.todo \ {w} /\ w \in c.todo
        /\ d.inserting = c.inserting \/ d.inserting = c.inserting \cup {w}
        /\ born' = born /\ c.at \in {"bulk", "failed"}
    BY <1>0, <1>5, FindOneReads DEF FindOne, Executing, TypeOK, CallRecord
  <2> HIDE DEF d
  <2>2. d.todo \cap d.inserting = {} /\ d.todo \cup d.inserting \subseteq c.todo \cup c.inserting
    BY <1>0, <2>1 DEF CountOK
  <2>3. CountOK(p, d, b)
    BY <1>0, <2>1, <2>2 DEF CountOK, Ahead
  <2> QED
    BY <2>1, <2>3 DEF CountOK, Ahead, d
<1>6. ASSUME NEW w \in Windows, InsertOne(p, w) PROVE CountOK(p, call[p], born[p])'
  <2> DEFINE d == call'[p]
             e == born'[p]
  <2>1. /\ d.at = c.at /\ d.chunk = c.chunk /\ d.created = c.created
        /\ d.todo = c.todo /\ d.inserting = c.inserting \ {w} /\ w \in c.inserting
        /\ c.at \in {"bulk", "failed"}
        /\ d.up = (IF Vacant(w) THEN c.up + 1 ELSE c.up)
        /\ e = (IF Vacant(w) THEN b \cup {w} ELSE b)
        /\ c.created \in Nat /\ c.up \in Nat
    BY <1>0, <1>6 DEF InsertOne, Executing, TypeOK, CallRecord
  <2>2. w \notin b /\ w \notin c.todo
    BY <1>0, <2>1 DEF CountOK
  <2> HIDE DEF d, e
  <2>3. /\ IsFiniteSet(e)
        /\ Cardinality(e) = Cardinality(b) + (IF Vacant(w) THEN 1 ELSE 0)
    <3>1. IsFiniteSet(b \cup {w}) /\ Cardinality(b \cup {w}) = Cardinality(b) + 1
      BY <1>0, <2>2, FS_AddElement DEF CountOK
    <3> QED
      BY <1>0, <1>b, <2>1, <3>1 DEF CountOK
  <2>4. d.todo \cap d.inserting = {} /\ e \cap (d.todo \cup d.inserting) = {}
    BY <1>0, <2>1, <2>2 DEF CountOK
  <2>5. ASSUME c.at = "bulk", NEW i \in 1..last, i >= c.chunk + 1
        PROVE  e \cap ChunksOf[p][i] = {}
    <3>1. w \in ChunksOf[p][c.chunk] /\ c.chunk \in 1..last /\ i # c.chunk
      BY <1>0, <2>1, <2>5 DEF CountOK
    <3>2. w \notin ChunksOf[p][i]
      BY <3>1, BundleConstants
    <3>3. b \cap ChunksOf[p][i] = {}
      BY <1>0, <2>5 DEF CountOK, Ahead
    <3> QED
      BY <2>1, <3>2, <3>3
  <2>6. /\ c.at = "bulk" => d.created + d.up = Cardinality(e)
        /\ c.at = "failed" => d.created <= Cardinality(e)
    BY <1>0, <1>b, <2>1, <2>3 DEF CountOK
  <2>7. CountOK(p, d, e)
    BY <1>0, <2>1, <2>3, <2>4, <2>5, <2>6 DEF CountOK, Ahead
  <2> QED
    BY <2>7 DEF CountOK, Ahead, d, e
<1>7. /\ Counted(p).at = c.at /\ Counted(p).created = c.created + c.up
      /\ Counted(p).todo = c.todo /\ Counted(p).inserting = c.inserting
      /\ Counted(p).chunk = c.chunk /\ Counted(p) \in CallRecord
  BY <1>0, CountedType DEF Counted, CallRecord
<1>8. CASE BulkReturns(p)
  <2> DEFINE d == [Counted(p) EXCEPT !.at = "write", !.chunk = @ + 1]
  <2>1. Reads(p, "bulk", d) /\ c.at = "bulk" /\ c.todo = {} /\ c.inserting = {}
    BY <1>8 DEF BulkReturns, BulkFinished, Reads
  <2>2. /\ d.at = "write" /\ d.chunk = c.chunk + 1 /\ d.created = c.created + c.up
        /\ d.todo = {} /\ d.inserting = {}
    BY <1>7, <2>1 DEF CallRecord
  <2> HIDE DEF d
  <2>3. CountOK(p, d, b)
    BY <1>0, <2>1, <2>2 DEF CountOK, Ahead
  <2> QED
    BY <2>1, <2>3, ReadsCount
<1>9. CASE BulkDuplicates(p)
  <2> DEFINE d == [Counted(p) EXCEPT !.at = "reconcile", !.chunk = 1]
  <2>1. Reads(p, "bulk", d) /\ c.at = "bulk" /\ c.todo = {} /\ c.inserting = {}
    BY <1>9 DEF BulkDuplicates, BulkFinished, Reads
  <2>2. /\ d.at = "reconcile" /\ d.created = c.created + c.up
        /\ d.todo = {} /\ d.inserting = {}
    BY <1>7, <2>1 DEF CallRecord
  <2> HIDE DEF d
  <2>3. CountOK(p, d, b)
    BY <1>0, <2>1, <2>2 DEF CountOK, Ahead
  <2> QED
    BY <2>1, <2>3, ReadsCount
<1>10. CASE BulkFails(p)
  <2>1. PICK r \in {c, Counted(p)}, rest \in {c.todo, {}} :
            Reads(p, "bulk", [r EXCEPT !.at = "failed", !.todo = rest])
    BY <1>10 DEF BulkFails
  <2> DEFINE d == [r EXCEPT !.at = "failed", !.todo = rest]
  <2>2. /\ r \in CallRecord /\ r.created \in {c.created, c.created + c.up}
        /\ r.inserting = c.inserting /\ c.at = "bulk" /\ c.created \in Nat /\ c.up \in Nat
    BY <1>0, <1>7, <2>1 DEF Reads, CallRecord
  <2>3. /\ d.at = "failed" /\ d.created = r.created /\ d.todo = rest
        /\ d.inserting = c.inserting
    BY <2>2 DEF CallRecord
  <2> HIDE DEF d
  <2>4. rest = c.todo \/ rest = {}
    OBVIOUS
  <2>5. CountOK(p, d, b)
    BY <1>0, <1>b, <2>2, <2>3, <2>4 DEF CountOK, Ahead
  <2>6. Reads(p, "bulk", d)
    BY <2>1 DEF d
  <2> QED
    BY <2>5, <2>6, ReadsCount
<1>11. CASE ReconcileChunk(p) \/ ReconcileDone(p)
  <2>1. /\ c.at = "reconcile" /\ born' = born
        /\ call'[p].at \in {"reconcile", "conflict", "failed", "published"}
        /\ call'[p].todo = c.todo /\ call'[p].inserting = c.inserting
        /\ call'[p].created = c.created /\ c.created \in Nat
    <3>1. CASE ReconcileChunk(p)
      BY <1>0, <3>1 DEF ReconcileChunk, Reads, TypeOK, CallRecord
    <3>2. CASE ReconcileDone(p)
      BY <1>0, <3>2 DEF ReconcileDone, Reads, TypeOK, CallRecord, Verdict
    <3> QED
      BY <1>11, <3>1, <3>2
  <2> QED
    BY <1>0, <1>b, <2>1 DEF CountOK, Ahead
<1> QED
  BY <1>1, <1>2, <1>3, <1>4, <1>5, <1>6, <1>8, <1>9, <1>10, <1>11 DEF PublisherNext

(* A step of another publisher, or of the server, leaves p's record and what it      *)
(* has inserted alone.                                                         *)
LEMMA OthersStep ==
  ASSUME TypeOK, [Next]_vars, NEW p \in Publishers, ~PublisherNext(p)
  PROVE  call'[p] = call[p] /\ born'[p] = born[p]
<1>1. ASSUME NEW q \in Publishers, PublisherNext(q)
      PROVE  call'[p] = call[p] /\ born'[p] = born[p]
  <2>1. q # p
    BY <1>1
  <2> QED
    BY <1>1, <2>1 DEF TypeOK, PublisherNext, CheckChunk, CheckRaises, ChecksDone,
       EnsureIndexes, StartBulk, WritesDone, FindOne, InsertOne, BulkReturns,
       BulkDuplicates, BulkFails, ReconcileChunk, ReconcileRaises, ReconcileDone,
       Reads, Ends
<1> QED
  BY <1>1 DEF Next, vars, ExpireDocument

(* Evidence of a conflict does not disappear. *)
LEMMA EvidenceStays ==
  ASSUME TypeOK, [Next]_vars, NEW p \in Publishers, Evidence(p)
  PROVE  Evidence(p)'
<1>0. Batch(p)' = Batch(p) /\ Batch(p) \subseteq Windows
  BY ChunkType DEF Batch
<1>1. ASSUME NEW q \in Publishers, NEW v \in Windows, InsertOne(q, v)
      PROVE  Evidence(p)'
  <2>1. lapsed' = lapsed /\ \A w \in Windows : store[w] # None => store'[w] = store[w]
    BY <1>1 DEF InsertOne, Vacant, TypeOK
  <2> QED
    BY <1>0, <2>1 DEF Evidence, Conflicting, Stored
<1>2. ASSUME NEW v \in Windows, ExpireDocument(v) PROVE Evidence(p)'
  <2>1. lapsed' = lapsed \cup {v} /\ \A w \in Windows : w # v => store'[w] = store[w]
    BY <1>2 DEF ExpireDocument, TypeOK
  <2>2. CASE v \in Batch(p)
    BY <1>0, <2>1, <2>2 DEF Evidence
  <2>3. CASE v \notin Batch(p)
    BY <1>0, <2>1, <2>3 DEF Evidence, Conflicting, Stored
  <2> QED
    BY <2>2, <2>3
<1>3. ASSUME NEW q \in Publishers, PublisherNext(q), \A v \in Windows : ~InsertOne(q, v)
      PROVE  UNCHANGED <<store, lapsed>>
  BY <1>3, FindOneReads DEF PublisherNext, CheckChunk, CheckRaises, ChecksDone,
      EnsureIndexes, StartBulk, WritesDone, BulkReturns, BulkDuplicates, BulkFails,
      ReconcileChunk, ReconcileRaises, ReconcileDone, Reads, Ends
<1>4. UNCHANGED <<store, lapsed>> => Evidence(p)'
  BY <1>0 DEF Evidence, Conflicting, Stored
<1> QED
  BY <1>1, <1>2, <1>3, <1>4 DEF Next, vars

(* The record a publisher goes on with when it reads. *)
LEMMA ReadsRecord ==
  ASSUME TypeOK, NEW p \in Publishers, NEW from, NEW record, Reads(p, from, record)
  PROVE  call'[p] = record /\ call[p].at = from
BY DEF Reads, TypeOK

LEMMA EndsRecord ==
  ASSUME TypeOK, NEW p \in Publishers, NEW from, NEW outcome, Ends(p, from, outcome)
  PROVE  call'[p].wrong = call[p].wrong /\ call'[p].at = outcome
<1>1. call'[p] = [call[p] EXCEPT !.at = outcome]
  BY ReadsRecord DEF Ends
<1>2. call[p] \in CallRecord
  BY DEF TypeOK
<1> QED
  BY <1>1, <1>2 DEF CallRecord

(* A publisher that has met a conflict has met it in one of its chunks. *)
LEMMA ClashStep ==
  ASSUME TypeOK, [Next]_vars, NEW p \in Publishers, ClashOK(p)
  PROVE  ClashOK(p)'
<1> DEFINE c == call[p]
<1>0. c \in CallRecord /\ Len(ChunksOf[p]) \in Nat
  BY ChunkCount DEF TypeOK
<1>1. ASSUME ChunksLeft(p), Conflicting(p, ThisChunk(p)) # {} PROVE Evidence(p)
  <2>1. c.chunk \in 1..Len(ChunksOf[p])
    BY <1>0, <1>1 DEF ChunksLeft, CallRecord
  <2>2. ThisChunk(p) \subseteq Batch(p)
    BY <2>1 DEF ThisChunk, Batch
  <2> QED
    BY <1>1, <2>2 DEF Evidence, Conflicting, Stored
<1>2. ASSUME \/ c.wrong \/ c.at = "conflict"
             \/ ChunksLeft(p) /\ Conflicting(p, ThisChunk(p)) # {}
      PROVE  ClashOK(p)'
  BY <1>1, <1>2, EvidenceStays DEF ClashOK
<1>3. ASSUME ~c.wrong, c.at # "conflict",
             ~(ChunksLeft(p) /\ Conflicting(p, ThisChunk(p)) # {})
      PROVE  ~call'[p].wrong /\ call'[p].at # "conflict"
  <2> DEFINE d == call'[p]
  <2>1. CASE CheckChunk(p)
    <3>1. \/ Ends(p, "check", "failed")
          \/ Reads(p, "check", [c EXCEPT !.chunk = @ + 1])
      BY <1>3, <2>1 DEF CheckChunk
    <3>2. CASE Reads(p, "check", [c EXCEPT !.chunk = @ + 1])
      <4>1. d = [c EXCEPT !.chunk = @ + 1]
        BY <3>2, ReadsRecord
      <4> QED
        BY <1>0, <1>3, <4>1 DEF CallRecord
    <3> QED
      BY <1>3, <3>1, <3>2, EndsRecord
  <2>2. CASE CheckRaises(p) \/ ChecksDone(p) \/ WritesDone(p) \/ ReconcileRaises(p)
    BY <1>3, <2>2, EndsRecord DEF CheckRaises, ChecksDone, WritesDone, ReconcileRaises
  <2>3. CASE EnsureIndexes(p)
    <3>1. CASE Reads(p, "index", [c EXCEPT !.at = "write", !.chunk = 1])
      <4>1. d = [c EXCEPT !.at = "write", !.chunk = 1]
        BY <3>1, ReadsRecord
      <4> QED
        BY <1>0, <1>3, <4>1 DEF CallRecord
    <3> QED
      BY <1>3, <2>3, <3>1, EndsRecord DEF EnsureIndexes
  <2>4. CASE StartBulk(p)
    <3>1. d = [c EXCEPT !.at = "bulk", !.todo = ThisChunk(p), !.clash = FALSE,
                        !.up = 0, !.hit = 0]
      BY <2>4, ReadsRecord DEF StartBulk
    <3> QED
      BY <1>0, <1>3, <3>1 DEF CallRecord
  <2>5. ASSUME NEW w \in Windows, FindOne(p, w) \/ InsertOne(p, w)
        PROVE  d.wrong = c.wrong /\ d.at = c.at
    <3>1. CASE FindOne(p, w)
      BY <1>0, <3>1 DEF FindOne, TypeOK, CallRecord
    <3>2. CASE InsertOne(p, w)
      BY <1>0, <3>2 DEF InsertOne, TypeOK, CallRecord
    <3> QED
      BY <2>5, <3>1, <3>2
  <2>6. Counted(p) \in CallRecord /\ Counted(p).wrong = c.wrong
    BY <1>0, CountedType DEF Counted, CallRecord
  <2>7. CASE BulkReturns(p) \/ BulkDuplicates(p)
    <3>1. \/ d = [Counted(p) EXCEPT !.at = "write", !.chunk = @ + 1]
          \/ d = [Counted(p) EXCEPT !.at = "reconcile", !.chunk = 1]
      BY <2>7, ReadsRecord DEF BulkReturns, BulkDuplicates
    <3>2. d.wrong = Counted(p).wrong /\ d.at \in {"write", "reconcile"}
      BY <2>6, <3>1 DEF CallRecord
    <3> QED
      BY <1>3, <2>6, <3>2
  <2>8. CASE BulkFails(p)
    <3>1. PICK r \in {c, Counted(p)}, rest \in {c.todo, {}} :
              Reads(p, "bulk", [r EXCEPT !.at = "failed", !.todo = rest])
      BY <2>8 DEF BulkFails
    <3>2. d = [r EXCEPT !.at = "failed", !.todo = rest]
      BY <3>1, ReadsRecord
    <3>3. r \in CallRecord /\ r.wrong = c.wrong
      BY <1>0, <2>6
    <3>4. d.wrong = r.wrong /\ d.at = "failed"
      BY <3>2, <3>3 DEF CallRecord
    <3> QED
      BY <1>3, <3>3, <3>4
  <2>9. CASE ReconcileChunk(p)
    <3>1. call'[p].wrong = (c.wrong \/ Conflicting(p, ThisChunk(p)) # {})
          /\ call'[p].at = c.at /\ ChunksLeft(p)
      BY <1>0, <2>9 DEF ReconcileChunk, Reads, TypeOK, CallRecord
    <3> QED
      BY <1>3, <3>1
  <2>10. CASE ReconcileDone(p)
    <3>1. call'[p].wrong = c.wrong /\ call'[p].at = Verdict(c)
      BY <1>0, <2>10 DEF ReconcileDone, Reads, TypeOK, CallRecord
    <3> QED
      BY <1>3, <3>1 DEF Verdict
  <2>11. CASE ~PublisherNext(p)
    BY <1>3, <2>11, OthersStep
  <2> QED
    BY <1>3, <2>1, <2>2, <2>3, <2>4, <2>5, <2>7, <2>8, <2>9, <2>10, <2>11
    DEF PublisherNext
<1> QED
  BY <1>2, <1>3 DEF ClashOK

CounterInv == \A p \in Publishers : CountOK(p, call[p], born[p]) /\ ClashOK(p)

LEMMA CounterInvStep == TypeOK /\ CounterInv /\ [Next]_vars => CounterInv'
<1> SUFFICES ASSUME TypeOK, CounterInv, [Next]_vars, NEW p \in Publishers
             PROVE  CountOK(p, call[p], born[p])' /\ ClashOK(p)'
  BY DEF CounterInv
<1>1. CASE PublisherNext(p)
  BY <1>1, CountStep, ClashStep DEF CounterInv
<1>2. CASE ~PublisherNext(p)
  <2>1. CountOK(p, call[p], born[p]) /\ call'[p] = call[p] /\ born'[p] = born[p]
    BY <1>2, OthersStep DEF CounterInv
  <2>2. CountOK(p, call[p], born[p])'
    BY <2>1 DEF CountOK, Ahead
  <2> QED
    BY <2>2, ClashStep DEF CounterInv
<1> QED
  BY <1>1, <1>2

LEMMA CounterInvariant == Spec => []CounterInv
<1>1. Init => CounterInv
  BY CountInit DEF CounterInv
<1> QED
  BY <1>1, CounterInvStep, BundleTyping, PTL DEF Spec

(* The report of a publication counts what it inserted, and never more, whatever     *)
(* other publishers insert, whichever bulks fail after some of their operations,    *)
(* and whatever the server executes afterwards (trend_bundle.py _Counters).         *)
THEOREM BundleCountIsTruthful == Spec => []CreatedIsTruthful
<1>1. TypeOK /\ CounterInv => CreatedIsTruthful
  <2> SUFFICES ASSUME TypeOK, NEW p \in Publishers, CountOK(p, call[p], born[p])
               PROVE  /\ call[p].created <= Cardinality(born[p])
                      /\ call[p].at = "published" => call[p].created = Cardinality(born[p])
    BY DEF CounterInv, CreatedIsTruthful
  <2>1. /\ call[p].created \in Nat /\ call[p].up \in Nat
        /\ Cardinality(born[p]) \in Nat
    BY FS_CardinalityType DEF CountOK, TypeOK, CallRecord
  <2> QED
    BY <2>1 DEF CountOK
<1> QED
  BY <1>1, BundleTyping, CounterInvariant, PTL

(* A conflict is never reported for a race between publishers of the same content:   *)
(* another content is stored for one of the windows, or a document of one has        *)
(* expired (trend_bundle.py _reconcile_duplicate_publication).                     *)
THEOREM BundleConflictsAreReal == Spec => []ConflictsAreReal
<1>1. CounterInv => ConflictsAreReal
  BY DEF CounterInv, ClashOK, Evidence, ConflictsAreReal
<1> QED
  BY <1>1, CounterInvariant, PTL

--------------------------------------------------------------------------------
(* The reader. *)

LEMMA ReaderStepIsPublication == [ReaderNext]_readerVars => [Next]_vars
BY DEF ReaderNext, readerVars, Publish, Next, ExpiryPasses, Monitor, Request,
       ReadSnapshot, ReadMissing, ReadFails, Answers

(* Whatever the reader does, the system is one of bundle publishers: the reader     *)
(* changes nothing, and the monitor only removes what it might have removed before  *)
(* (trend_reader.py issues no write).                                           *)
THEOREM ReaderOnlyReads == ReaderSpec => Spec
<1>1. ReaderInit => Init
  BY DEF ReaderInit
<1> QED
  BY <1>1, ReaderStepIsPublication, PTL DEF ReaderSpec, Spec

--------------------------------------------------------------------------------
(* The inductive invariant: what a request was asked for has been published.       *)

ReaderRecord ==
    [at : {"idle", "asked", "available", "stale", "expired", "refused", "missing", "failed"},
     asOf : AsOf \cup {None}, asked : SUBSET Windows, window : Windows \cup {None}]

ReaderInv ==
    /\ reader \in ReaderRecord
    /\ reader.at = "asked" =>
           /\ reader.asOf \in AsOf
           /\ \A w \in reader.asked :
                  w <= reader.asOf /\ \E p \in Publishers : Published(p) /\ w \in Batch(p)
    /\ ReadsSeePublished

LEMMA PublishedStays ==
  ASSUME TypeOK, [Next]_vars, NEW p \in Publishers, Published(p)
  PROVE  Published(p)'
<1>1. ASSUME NEW q \in Publishers, PublisherNext(q) PROVE call'[p] = call[p]
  <2>1. CASE q = p
    BY <1>1, <2>1 DEF Published, TypeOK, PublisherNext, CheckChunk, CheckRaises,
       ChecksDone, EnsureIndexes, StartBulk, WritesDone, FindOne, InsertOne, Executing,
       BulkReturns, BulkDuplicates, BulkFails, ReconcileChunk, ReconcileRaises,
       ReconcileDone, Reads, Ends
  <2>2. CASE q # p
    BY <1>1, <2>2 DEF TypeOK, PublisherNext, CheckChunk, CheckRaises,
       ChecksDone, EnsureIndexes, StartBulk, WritesDone, FindOne, InsertOne,
       BulkReturns, BulkDuplicates, BulkFails, ReconcileChunk, ReconcileRaises,
       ReconcileDone, Reads, Ends
  <2> QED
    BY <2>1, <2>2
<1> QED
  BY <1>1 DEF Next, vars, ExpireDocument, Published

(* What has lapsed stays so. *)
LEMMA LapsedGrows ==
  ASSUME TypeOK, [Next]_vars
  PROVE  lapsed \subseteq lapsed'
<1>1. ASSUME NEW p \in Publishers, PublisherNext(p) PROVE lapsed' = lapsed
  BY <1>1 DEF PublisherNext, CheckChunk, CheckRaises, ChecksDone, EnsureIndexes,
     StartBulk, WritesDone, FindOne, InsertOne, BulkReturns, BulkDuplicates, BulkFails,
     ReconcileChunk, ReconcileRaises, ReconcileDone, Reads, Ends
<1> QED
  BY <1>1 DEF Next, vars, ExpireDocument

LEMMA ReaderUnchanged ==
  ASSUME TypeOK, [Next]_vars, ReaderInv, UNCHANGED reader
  PROVE  ReaderInv'
<1>1. \A p \in Publishers : Published(p) => Published(p)'
  BY PublishedStays
<1>2. \A p \in Publishers : Batch(p)' = Batch(p)
  BY DEF Batch
<1>3. reader.at = "asked" =>
        \A w \in reader.asked : \E p \in Publishers : Published(p)' /\ w \in Batch(p)'
  BY <1>1, <1>2 DEF ReaderInv
<1>4. ReadsSeePublished'
  BY LapsedGrows DEF ReaderInv, ReadsSeePublished
<1> QED
  BY <1>3, <1>4 DEF ReaderInv

LEMMA ReaderInvInit == ReaderInit => ReaderInv
BY DEF ReaderInit, NoRequest, ReaderInv, ReaderRecord, ReadsSeePublished

(* The windows a request asks for are stored when it is answered. *)
LEMMA AskedIsEligible ==
  ASSUME ReaderInv, SuccessMeansStored, reader.at = "asked",
         NEW w \in reader.asked \ lapsed
  PROVE  w \in Eligible(reader.asOf)
<1>1. w \in Windows /\ w <= reader.asOf
  BY DEF ReaderInv, ReaderRecord
<1>2. PICK p \in Publishers : Published(p) /\ w \in Batch(p)
  BY DEF ReaderInv
<1>3. store[w] # None
  BY <1>2 DEF SuccessMeansStored, Published
<1> QED
  BY <1>1, <1>3 DEF Eligible, Stored, Before

LEMMA ReaderInvStep ==
  ReaderInv /\ TypeOK /\ SuccessMeansStored /\ [ReaderNext]_readerVars => ReaderInv'
<1> SUFFICES ASSUME ReaderInv, TypeOK, SuccessMeansStored, [ReaderNext]_readerVars
             PROVE  ReaderInv'
  OBVIOUS
<1>0. [Next]_vars
  BY ReaderStepIsPublication
<1>1. ASSUME NEW asOf \in AsOf, Request(asOf) PROVE ReaderInv'
  <2>1. reader' = [at |-> "asked", asOf |-> asOf, asked |-> PublishedBy(asOf),
                   window |-> None] /\ UNCHANGED vars
    BY <1>1 DEF Request
  <2>2. reader' \in ReaderRecord
    BY <2>1 DEF ReaderRecord, PublishedBy
  <2>3. \A w \in PublishedBy(asOf) :
            w <= asOf /\ \E p \in Publishers : Published(p) /\ w \in Batch(p)
    BY DEF PublishedBy
  <2>4. \A p \in Publishers : (Published(p)' <=> Published(p)) /\ Batch(p)' = Batch(p)
    BY <2>1 DEF vars, Published, Batch
  <2>5. ReadsSeePublished'
    BY <2>1 DEF ReadsSeePublished
  <2> QED
    BY <2>1, <2>2, <2>3, <2>4, <2>5 DEF ReaderInv
<1>2. CASE ReadSnapshot
  <2>1. reader.at = "asked"
    BY <1>2 DEF ReadSnapshot
  <2>2. PICK w \in Eligible(reader.asOf) :
            Newest(w, reader.asOf) /\ Answers(StatusOf(w, reader.asOf), w)
    BY <1>2 DEF ReadSnapshot
  <2>3. w \in Windows
    BY <2>2 DEF Eligible, Stored
  <2>4. StatusOf(w, reader.asOf) \in {"refused", "expired", "stale", "available"}
    BY DEF StatusOf
  <2>5. reader' = [reader EXCEPT !.at = StatusOf(w, reader.asOf), !.window = w]
    BY <2>2 DEF Answers
  <2>6. /\ reader' \in ReaderRecord /\ reader'.window = w /\ reader'.at # "asked"
        /\ reader'.asked = reader.asked
    BY <2>3, <2>4, <2>5 DEF ReaderInv, ReaderRecord
  <2>7. \A u \in reader.asked \ lapsed : w >= u
    <3> SUFFICES ASSUME NEW u \in reader.asked \ lapsed PROVE w >= u
      OBVIOUS
    <3>1. u \in Eligible(reader.asOf)
      BY <2>1, AskedIsEligible
    <3>2. u \in Int /\ w \in Int
      BY <2>3, <3>1, ReaderConstants DEF Eligible, Stored
    <3> QED
      BY <2>2, <3>1, <3>2 DEF Newest
  <2>8. w # None
    BY <2>3, ReaderConstants
  <2>9. ReadsSeePublished'
    BY <1>0, <2>6, <2>7, <2>8, LapsedGrows DEF ReadsSeePublished
  <2> QED
    BY <2>6, <2>9 DEF ReaderInv
<1>3. CASE ReadMissing
  <2>1. /\ reader' = [reader EXCEPT !.at = "missing", !.window = None]
        /\ reader.at = "asked" /\ Eligible(reader.asOf) = {}
    BY <1>3 DEF ReadMissing, Answers
  <2>2. /\ reader' \in ReaderRecord /\ reader'.at # "asked"
        /\ reader'.asked = reader.asked
    BY <2>1 DEF ReaderInv, ReaderRecord
  <2>3. reader.asked \ lapsed = {}
    BY <2>1, AskedIsEligible
  <2>4. ReadsSeePublished'
    BY <1>0, <2>2, <2>3, LapsedGrows DEF ReadsSeePublished
  <2> QED
    BY <2>2, <2>4 DEF ReaderInv
<1>4. CASE ReadFails
  <2>1. reader' = [reader EXCEPT !.at = "failed", !.window = None]
    BY <1>4 DEF ReadFails, Answers
  <2>2. reader' \in ReaderRecord /\ reader'.at = "failed"
    BY <2>1 DEF ReaderInv, ReaderRecord
  <2> QED
    BY <2>2 DEF ReaderInv, ReadsSeePublished
<1>5. CASE \/ \E p \in Publishers : Publish(p)
           \/ \E w \in Windows : ExpiryPasses(w) \/ Monitor(w)
           \/ UNCHANGED readerVars
  <2>1. UNCHANGED reader
    BY <1>5 DEF Publish, ExpiryPasses, Monitor, readerVars
  <2> QED
    BY <1>0, <2>1, ReaderUnchanged
<1> QED
  BY <1>1, <1>2, <1>3, <1>4, <1>5 DEF ReaderNext

(* A request that comes in after a publication's success is answered with its      *)
(* window or a newer one, while the retention lasts, whatever else is going on     *)
(* (trend_reader.py read_verified_trend_snapshot).                              *)
THEOREM ReadersSeePublished == ReaderSpec => []ReadsSeePublished
<1>1. ReaderInv => ReadsSeePublished
  BY DEF ReaderInv
<1> QED
  BY <1>1, ReaderInvInit, ReaderInvStep, ReaderOnlyReads, BundleTyping,
     BundleSuccessMeansStored, PTL DEF ReaderSpec
================================================================================
