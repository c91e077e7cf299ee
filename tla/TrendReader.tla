------------------------------ MODULE TrendReader -------------------------------
(***************************************************************************)
(* A reader of the trend bundles (src/module4/hybrid/trend_reader.py), which the *)
(* Hybrid service and the dashboard use, beside the publishers of TrendBundles.  *)
(*                                                                         *)
(* It takes the newest window that ends at or before an event time, in one      *)
(* query, and decides what that document is good for.  A document whose          *)
(* expires_at has passed stays in the collection until MongoDB's monitor comes    *)
(* by, and hides the older ones until then.                                    *)
(***************************************************************************)
EXTENDS TrendBundles

CONSTANTS
    AsOf,        \* the event times of requests
    MaxAge       \* max_event_age

(* Windows are their ends, as event times. *)
ASSUME ReaderConstants ==
    /\ Windows \subseteq Int /\ AsOf \subseteq Int /\ MaxAge \in Nat
    /\ None \notin Int

VARIABLES
    past,     \* the windows with a stored document whose expires_at has passed
    reader    \* the request in progress or last answered

(* asked: what had been published, and not lapsed, when the request came in.     *)
NoRequest == [at |-> "idle", asOf |-> None, asked |-> {}, window |-> None]

readerVars == <<vars, past, reader>>

ReaderInit ==
    /\ Init
    /\ past = {}
    /\ reader = NoRequest

--------------------------------------------------------------------------------
Published(p) == call[p].at = "published"
PublishedBy(asOf) ==
    {w \in Windows : w <= asOf /\ \E p \in Publishers : Published(p) /\ w \in Batch(p) \ lapsed}

Request(asOf) ==
    /\ reader.at # "asked"
    /\ reader' = [at |-> "asked", asOf |-> asOf, asked |-> PublishedBy(asOf), window |-> None]
    /\ UNCHANGED <<vars, past>>

(* The query's cutoff.  Mutated: $lt.                                           *)
Before_Excluded(w, asOf) == w < asOf
Before(w, asOf) == w <= asOf

Eligible(asOf) == {w \in Stored(Windows) : Before(w, asOf)}

Newest(w, asOf) == \A u \in Eligible(asOf) : u <= w

(* _validate_document: the digest is computed again from the stored fields.        *)
Valid(w) == store[w].intact

(* Expiry goes by the processing time, age by the event time.                      *)
StatusOf(w, asOf) ==
    CASE ~Valid(w) -> "refused"
      [] Valid(w) /\ w \in past -> "expired"
      [] Valid(w) /\ w \notin past /\ asOf - w > MaxAge -> "stale"
      [] OTHER -> "available"

Answers(status, w) ==
    /\ reader.at = "asked"
    /\ reader' = [reader EXCEPT !.at = status, !.window = w]
    /\ UNCHANGED <<vars, past>>

ReadSnapshot ==
    /\ reader.at = "asked"
    /\ \E w \in Eligible(reader.asOf) :
           Newest(w, reader.asOf) /\ Answers(StatusOf(w, reader.asOf), w)

ReadMissing ==
    /\ reader.at = "asked" /\ Eligible(reader.asOf) = {}
    /\ Answers("missing", None)
ReadFails == Answers("failed", None)

--------------------------------------------------------------------------------
(* The processing time passes a document's expires_at.                          *)
ExpiryPasses(w) ==
    /\ store[w] # None /\ store[w].expires
    /\ past' = past \cup {w}
    /\ UNCHANGED <<vars, reader>>

(* MongoDB's monitor removes it some time after that.                           *)
Monitor(w) ==
    /\ w \in past
    /\ ExpireDocument(w)
    /\ past' = past \ {w}
    /\ UNCHANGED reader

Publish(p) == PublisherNext(p) /\ UNCHANGED <<past, reader>>

ReaderNext ==
    \/ \E p \in Publishers : Publish(p)
    \/ \E w \in Windows : ExpiryPasses(w) \/ Monitor(w)
    \/ \E asOf \in AsOf : Request(asOf)
    \/ ReadSnapshot \/ ReadMissing \/ ReadFails

ReaderSpec == ReaderInit /\ [][ReaderNext]_readerVars

--------------------------------------------------------------------------------
(* A request that comes in after a window's publication has succeeded is answered  *)
(* with that window or a newer one, while the window's retention lasts: no matter   *)
(* which other publishers are at work, or what they are told of a duplicate key      *)
(* (trend_reader.py read_verified_trend_snapshot).                              *)
ReadsSeePublished ==
    reader.at \in {"available", "stale", "expired", "refused", "missing"} =>
        \A w \in reader.asked \ lapsed : reader.window # None /\ reader.window >= w
================================================================================
