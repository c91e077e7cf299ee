----------------------------- MODULE TrendBundles ------------------------------
(***************************************************************************)
(* Publication of finalized trend windows (src/module3/trend_bundle.py): one  *)
(* immutable document for each window of a namespace.                        *)
(*                                                                         *)
(* A publisher is one call of write_trend_bundles.  It works in chunks: a     *)
(* first pass compares every chunk with what is stored, a second pass writes  *)
(* every chunk with one unordered bulk_write of insert-only upserts, and a    *)
(* duplicate key starts a reconciliation of the whole publication.           *)
(* Publishers of one namespace run at the same time when two streams are      *)
(* configured with it, or when a stream is restarted while the writes of its  *)
(* predecessor are still being executed by the server.                       *)
(***************************************************************************)
EXTENDS Integers, FiniteSets, Sequences

CONSTANTS
    Publishers,  \* calls of write_trend_bundles for one namespace
    Windows,     \* window ends: with the namespace, the _id of a document
    Contents,    \* logical contents, as their content_sha256
    ChunksOf,    \* the chunks of windows each publisher iterates over
    ContentOf,   \* the content each publisher has for each window
    Documents,   \* [content, intact, expires] records, see below
    Expires,     \* the publishers with a positive retention
    Found,       \* the collections publishers may find
    None

(* intact: the stored fields are those the digest was computed from. *)
ASSUME BundleConstants ==
    /\ Documents = [content : Contents, intact : BOOLEAN, expires : BOOLEAN]
    /\ ChunksOf \in [Publishers -> Seq(SUBSET Windows)]
    /\ \A p \in Publishers : \A i \in 1..Len(ChunksOf[p]) :
           /\ IsFiniteSet(ChunksOf[p][i])
           /\ \A j \in 1..Len(ChunksOf[p]) :
                  i # j => ChunksOf[p][i] \cap ChunksOf[p][j] = {}
    /\ ContentOf \in [Publishers -> [Windows -> Contents]]
    /\ Expires \subseteq Publishers
    /\ Found \subseteq [Windows -> Documents \cup {None}]
    /\ None \notin Documents

VARIABLES
    store,    \* the collection
    call,     \* where each publisher is, and its local variables
    born,     \* history: the windows whose document each publisher inserted
    lapsed    \* history: the windows a document of which has expired

vars == <<store, call, born, lapsed>>

(* at: the next step, or the outcome.  chunk: the chunk it works on; todo,     *)
(* inserting: the operations of the bulk_write not started, and those whose   *)
(* query has matched nothing; clash: one of them met a duplicate key; up, hit: *)
(* nUpserted and nMatched of the bulk; created, retries: _Counters; match,    *)
(* gone, wrong: what the reconciliation counted.                             *)
CallRecord ==
    [at : {"check", "index", "write", "bulk", "reconcile", "published",
           "invalid", "conflict", "failed"},
     chunk : Nat \ {0}, todo : SUBSET Windows, inserting : SUBSET Windows,
     clash : BOOLEAN, up : Nat, hit : Nat, created : Nat, retries : Nat,
     match : Nat, gone : BOOLEAN, wrong : BOOLEAN, damaged : BOOLEAN]

Idle == [at |-> "check", chunk |-> 1, todo |-> {}, inserting |-> {},
         clash |-> FALSE, up |-> 0, hit |-> 0, created |-> 0, retries |-> 0,
         match |-> 0, gone |-> FALSE, wrong |-> FALSE, damaged |-> FALSE]

TypeOK ==
    /\ store \in [Windows -> Documents \cup {None}]
    /\ call \in [Publishers -> CallRecord]
    /\ born \in [Publishers -> SUBSET Windows]
    /\ lapsed \subseteq Windows

Init ==
    /\ store \in Found
    /\ call = [p \in Publishers |-> Idle]
    /\ born = [p \in Publishers |-> {}]
    /\ lapsed = {}

--------------------------------------------------------------------------------
(* build_document: the document a publisher has for a window. *)
DocumentOf(p, w) ==
    [content |-> ContentOf[p][w], intact |-> TRUE, expires |-> p \in Expires]

Batch(p) == UNION {ChunksOf[p][i] : i \in 1..Len(ChunksOf[p])}
ThisChunk(p) == ChunksOf[p][call[p].chunk]
ChunksLeft(p) == call[p].chunk <= Len(ChunksOf[p])

(* What one find of a chunk's identities shows, as both comparisons see it. *)
Stored(ws) == {w \in ws : store[w] # None}
Conflicting(p, ws) == {w \in Stored(ws) : store[w].content # ContentOf[p][w]}
Damaged(p, ws) ==
    {w \in Stored(ws) : store[w].content = ContentOf[p][w] /\ ~store[w].intact}

(* p goes on with another record, the collection being only read. *)
Reads(p, from, record) ==
    /\ call[p].at = from
    /\ call' = [call EXCEPT ![p] = record]
    /\ UNCHANGED <<store, born, lapsed>>

Ends(p, from, outcome) == Reads(p, from, [call[p] EXCEPT !.at = outcome])

--------------------------------------------------------------------------------
(* The first pass: _validate_existing of each chunk, then the indexes. *)

CheckChunk(p) ==
    /\ ChunksLeft(p)
    /\ LET ws == ThisChunk(p)
       IN  CASE Conflicting(p, ws) # {} -> Ends(p, "check", "conflict")
             [] Conflicting(p, ws) = {} /\ Damaged(p, ws) # {} ->
                    Ends(p, "check", "failed")
             [] OTHER -> Reads(p, "check", [call[p] EXCEPT !.chunk = @ + 1])

(* A row breaks the contract of a bundle, or the find raises. *)
CheckRaises(p) ==
    /\ ChunksLeft(p)
    /\ Ends(p, "check", "invalid") \/ Ends(p, "check", "failed")

(* Without windows the collection is not touched. *)
ChecksDone(p) ==
    /\ ~ChunksLeft(p)
    /\ Ends(p, "check", IF ChunksOf[p] = <<>> THEN "published" ELSE "index")

EnsureIndexes(p) ==
    \/ Reads(p, "index", [call[p] EXCEPT !.at = "write", !.chunk = 1])
    \/ Ends(p, "index", "failed")

--------------------------------------------------------------------------------
(* The second pass: _upsert_chunk. *)

StartBulk(p) ==
    /\ ChunksLeft(p)
    /\ Reads(p, "write", [call[p] EXCEPT
           !.at = "bulk", !.todo = ThisChunk(p), !.clash = FALSE, !.up = 0, !.hit = 0])

WritesDone(p) == ~ChunksLeft(p) /\ Ends(p, "write", "published")

(* The server still executes the operations of a bulk_write whose answer the   *)
(* publisher no longer waits for.                                            *)
Executing(p) == call[p].at \in {"bulk", "failed"}

(* One UpdateOne of _upsert_chunk: its filter, by _id and digest, and what it  *)
(* makes of a document the filter finds, nothing ($setOnInsert).  Mutated:     *)
(* the document is written again ($set).                                     *)
OnMatch_Set(p, w) == DocumentOf(p, w)
OnMatch(p, w) == store[w]
Matches(p, w) == store[w] # None /\ store[w].content = ContentOf[p][w]

FindOne(p, w) ==
    /\ Executing(p)
    /\ w \in call[p].todo
    /\ call' = [call EXCEPT
           ![p].todo = @ \ {w},
           ![p].hit = IF Matches(p, w) THEN @ + 1 ELSE @,
           ![p].inserting = IF Matches(p, w) THEN @ ELSE @ \cup {w}]
    /\ store' = IF Matches(p, w) THEN [store EXCEPT ![w] = OnMatch(p, w)] ELSE store
    /\ UNCHANGED <<born, lapsed>>

(* The insertion of an upsert that matched nothing: the unique _id decides. *)
Vacant(w) == store[w] = None

InsertOne(p, w) ==
    /\ Executing(p)
    /\ w \in call[p].inserting
    /\ store' = IF Vacant(w) THEN [store EXCEPT ![w] = DocumentOf(p, w)] ELSE store
    /\ call' = [call EXCEPT
           ![p].inserting = @ \ {w},
           ![p].up = IF Vacant(w) THEN @ + 1 ELSE @,
           ![p].clash = @ \/ ~Vacant(w)]
    /\ born' = IF Vacant(w) THEN [born EXCEPT ![p] = @ \cup {w}] ELSE born
    /\ UNCHANGED lapsed

BulkFinished(p) == call[p].todo = {} /\ call[p].inserting = {}

(* The counters after a bulk whose counts reached the publisher.  Mutated:     *)
(* a matched document counts as created.                                     *)
Counted_MatchedAsCreated(p) ==
    [call[p] EXCEPT !.created = @ + call[p].up + call[p].hit]
Counted(p) ==
    [call[p] EXCEPT !.created = @ + call[p].up, !.retries = @ + call[p].hit]

BulkReturns(p) ==
    /\ BulkFinished(p) /\ ~call[p].clash
    /\ Reads(p, "bulk", [Counted(p) EXCEPT !.at = "write", !.chunk = @ + 1])

(* Nothing but duplicate keys went wrong: the publication is reconciled. *)
BulkDuplicates(p) ==
    /\ BulkFinished(p) /\ call[p].clash
    /\ Reads(p, "bulk", [Counted(p) EXCEPT !.at = "reconcile", !.chunk = 1])

(* Any other failure, with or without counts; what was sent may still be       *)
(* executed, or no longer.                                                   *)
BulkFails(p) ==
    \E record \in {call[p], Counted(p)}, rest \in {call[p].todo, {}} :
        Reads(p, "bulk", [record EXCEPT !.at = "failed", !.todo = rest])

--------------------------------------------------------------------------------
(* _reconcile_duplicate_publication: all chunks again, then one verdict. *)

ReconcileChunk(p) ==
    /\ ChunksLeft(p)
    /\ LET ws == ThisChunk(p)
           bad == Conflicting(p, ws) \cup Damaged(p, ws)
       IN  Reads(p, "reconcile", [call[p] EXCEPT
               !.chunk = @ + 1,
               !.match = @ + Cardinality(Stored(ws) \ bad),
               !.gone = @ \/ Stored(ws) # ws,
               !.wrong = @ \/ Conflicting(p, ws) # {},
               !.damaged = @ \/ Damaged(p, ws) # {}])

ReconcileRaises(p) == ChunksLeft(p) /\ Ends(p, "reconcile", "failed")

(* Mutated: missing windows are ignored, or taken for conflicts. *)
Verdict_MissingIgnored(c) ==
    CASE c.wrong -> "conflict"
      [] ~c.wrong /\ c.damaged -> "failed"
      [] OTHER -> "published"
Verdict_MissingIsConflict(c) ==
    CASE c.wrong \/ c.gone -> "conflict"
      [] ~c.wrong /\ ~c.gone /\ c.damaged -> "failed"
      [] OTHER -> "published"
Verdict(c) ==
    CASE c.wrong -> "conflict"
      [] ~c.wrong /\ (c.damaged \/ c.gone) -> "failed"
      [] OTHER -> "published"

(* identical_content_retries after a reconciliation.  Mutated: max(0, ...) is  *)
(* forgotten.                                                                *)
RetriesOf_MayBeNegative(c) == c.match - c.created
RetriesOf(c) == IF c.match > c.created THEN c.match - c.created ELSE 0

ReconcileDone(p) ==
    /\ ~ChunksLeft(p)
    /\ Reads(p, "reconcile", [call[p] EXCEPT
           !.retries = RetriesOf(call[p]), !.at = Verdict(call[p])])

--------------------------------------------------------------------------------
(* MongoDB removes a document whose expires_at has passed. *)
ExpireDocument(w) ==
    /\ store[w] # None
    /\ store[w].expires
    /\ store' = [store EXCEPT ![w] = None]
    /\ lapsed' = lapsed \cup {w}
    /\ UNCHANGED <<call, born>>

PublisherNext(p) ==
    \/ CheckChunk(p) \/ CheckRaises(p) \/ ChecksDone(p) \/ EnsureIndexes(p)
    \/ StartBulk(p) \/ WritesDone(p)
    \/ \E w \in Windows : FindOne(p, w) \/ InsertOne(p, w)
    \/ BulkReturns(p) \/ BulkDuplicates(p) \/ BulkFails(p)
    \/ ReconcileChunk(p) \/ ReconcileRaises(p) \/ ReconcileDone(p)

Next ==
    \/ \E p \in Publishers : PublisherNext(p)
    \/ \E w \in Windows : ExpireDocument(w)

Spec == Init /\ [][Next]_vars

--------------------------------------------------------------------------------
(* The collection implements BundleStore: whatever publishers do at the same   *)
(* time, and whatever the server executes of a bulk given up, a document is     *)
(* never replaced or changed.                                                *)
Bundles == INSTANCE BundleStore
ImplementsBundleStore == Bundles!Spec

(* "published" means that every window of the publication is stored with the   *)
(* publisher's own content, unless its retention has ended: also when a        *)
(* duplicate key made the publisher skip its remaining writes.                *)
SuccessMeansStored ==
    \A p \in Publishers : call[p].at = "published" =>
        \A w \in Batch(p) \ lapsed :
            /\ store[w] # None
            /\ store[w].content = ContentOf[p][w]
            /\ store[w].intact

(* bundles_created never exceeds what the publisher inserted, and is exact in   *)
(* the report of a success.                                                  *)
CreatedIsTruthful ==
    \A p \in Publishers :
        /\ call[p].created <= Cardinality(born[p])
        /\ call[p].at = "published" => call[p].created = Cardinality(born[p])

(* A conflict, which stops the stream for good, is only reported when another  *)
(* content is or was stored for one of the windows: never for a race between   *)
(* publishers of the same content.                                           *)
ConflictsAreReal ==
    \A p \in Publishers : call[p].at = "conflict" =>
        Conflicting(p, Batch(p)) # {} \/ lapsed \cap Batch(p) # {}
================================================================================
