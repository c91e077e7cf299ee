------------------------------ MODULE DashboardApi ------------------------------
(***************************************************************************)
(* The read API of the dashboard (api.py and its readers) and the client that  *)
(* calls it (api_client.py): one caller makes one request at a time, callers   *)
(* run at once, nothing is locked and nothing is written.                      *)
(*                                                                         *)
(* What the API reads is published meanwhile.  The A/B pair and the Hybrid       *)
(* pointer are taken as the specifications their publications implement:        *)
(* ServingPair (BatchPublication) and PointerRegister (HybridPublication).  Of   *)
(* the other sources only their being read at once matters.                     *)
(***************************************************************************)
EXTENDS Integers, FiniteSets

CONSTANTS
    Callers,       \* who may have a request under way
    Generations,   \* the A/B pairs ever published: (run_id, model_version)
    ModelOf,       \* the model_version of each; runs may share one
    Versions,      \* the Hybrid versions of the user
    GenOf, AsOf,   \* the pair and the event time each was computed for
    MaxFailures,   \* bound: requests that fail for a reason of their own
    None

VARIABLES
    offered, retired,   \* the pair readers may use; those it is not any more
    current,            \* the version the user's pointer names
    request,            \* what each caller has asked, and what was answered
    failures

stores == <<offered, retired, current>>
apiVars == <<offered, retired, current, request, failures>>

Pair == INSTANCE ServingPair
Pointer == INSTANCE PointerRegister

Archived == {"orders", "evaluation", "evidence", "registry"}
Metrics == {"products", "departments", "trends", "streaming"}
Sources == {"health", "hybrid", "als"} \cup Archived \cup Metrics

(* Two kinds of error are told apart from the rest; none before a first answer.    *)
Errors == {"none", "failed", "not_published", "snapshot_changed"}

ASSUME ApiConstants ==
    /\ GenOf \in [Versions -> Generations] /\ MaxFailures \in Nat
    /\ None \notin Generations \cup Versions \cup Errors

(* An accepted answer: the generation its rows are of, the one it names, and    *)
(* the parameter it answers (None where a source has none).                    *)
Answer(source, arg, rows, named) ==
    [source |-> source, arg |-> arg, rows |-> rows, named |-> named, error |-> None]
Refusal(source, error) == [Answer(source, None, None, None) EXCEPT !.error = error]

Quiet == [at |-> "idle", source |-> "health", arg |-> None, seen |-> None,
          rows |-> None, answer |-> Refusal("health", "none")]

Busy(c) == request[c].at \in {"look", "rows", "again", "once"}
Bracketed == {"hybrid", "als"}

--------------------------------------------------------------------------------
(* A request, and its three ends: an answer, an error the API reports, or one    *)
(* the client finds (no connection, a timeout, a redirect, no JSON, too large,   *)
(* a body that is not of the contract).                                         *)

Ask(c, source, arg) ==
    request' = [request EXCEPT ![c] =
        [Quiet EXCEPT !.at = IF source \in Bracketed THEN "look" ELSE "once",
                      !.source = source, !.arg = arg]]

Advance(c, at, seen, rows) ==
    request' = [request EXCEPT ![c].at = at, ![c].seen = seen, ![c].rows = rows]
Respond(c, answer) ==
    request' = [request EXCEPT ![c] = [Quiet EXCEPT !.at = "answered",
                                                    !.answer = answer]]
Refuse(c, error) == Respond(c, Refusal(request[c].source, error))

(* The callers tell one failure from another only by its wording.                *)
Fails(c, sources) ==
    /\ Busy(c) /\ request[c].source \in sources
    /\ failures > 0 /\ failures' = failures - 1
    /\ Refuse(c, "failed")
    /\ UNCHANGED stores

(* The database cannot be read; a registered file is missing or unreadable      *)
(* (the registry says so, and answers).                                         *)
DatabaseFails(c) == Fails(c, Bracketed \cup Metrics)
ArtifactFails(c) == Fails(c, Archived \ {"registry"})
(* What is stored does not pass the validation of its reader.                    *)
RowsInvalid(c) == request[c].at = "rows" /\ Fails(c, Bracketed)
MetricsInvalid(c) == Fails(c, Metrics)
OrdersInvalid(c) == Fails(c, {"orders"})
EvaluationInvalid(c) == Fails(c, {"evaluation"})
EvidenceInvalid(c) == Fails(c, {"evidence"})
(* The response made of it does not pass its own.                                *)
ResponseInvalid(c) == Fails(c, Sources)
(* The client gets no JSON, or none that keeps the contract of its endpoint.      *)
NoResponse(c) == Fails(c, Sources)
OffSnapshot(c) == Fails(c, Bracketed)
OffMetrics(c) == Fails(c, Metrics \cup {"health", "registry", "orders"})
OffEvaluation(c) == Fails(c, {"evaluation"})
OffEvidence(c) == Fails(c, {"evidence"})

StoreFails(c) == DatabaseFails(c) \/ ArtifactFails(c)
SourceInvalid(c) == \/ RowsInvalid(c) \/ MetricsInvalid(c) \/ OrdersInvalid(c)
                    \/ EvaluationInvalid(c) \/ EvidenceInvalid(c)
OffContract(c) == \/ OffSnapshot(c) \/ OffMetrics(c)
                  \/ OffEvaluation(c) \/ OffEvidence(c)
Failing(c) == \/ StoreFails(c) \/ SourceInvalid(c) \/ ResponseInvalid(c)
              \/ NoResponse(c) \/ OffContract(c)

(* The first look at the identity: the pointer's, or the pair's.                *)
Identity(source) == IF source = "hybrid" THEN current ELSE offered
Look(c) ==
    /\ request[c].at = "look"
    /\ LET found == Identity(request[c].source) IN
       IF found = None THEN Refuse(c, "not_published")
                       ELSE Advance(c, "rows", found, None)
    /\ UNCHANGED <<stores, failures>>

(* A Hybrid version's rows never change.  The pair's are those now in the two     *)
(* collections: whatever a publication has promoted by now, if none is offered.  *)
RowsFound(c) == IF request[c].source = "hybrid" THEN {GenOf[request[c].seen]}
                ELSE IF offered # None THEN {offered} ELSE Generations
ReadRows(c) ==
    /\ request[c].at = "rows"
    /\ \E g \in RowsFound(c) : Advance(c, "again", request[c].seen, g)
    /\ UNCHANGED <<stores, failures>>

(* The second look.  Mutated: that there is an identity is enough.               *)
Unchanged_Present(c) == Identity(request[c].source) # None
Unchanged(c) == Identity(request[c].source) = request[c].seen

Named(c) == IF request[c].source = "hybrid" THEN GenOf[request[c].seen]
                                            ELSE request[c].seen
LookAgain(c) ==
    /\ request[c].at = "again"
    /\ IF Unchanged(c)
       THEN Respond(c, Answer(request[c].source, None, request[c].rows, Named(c)))
       ELSE Refuse(c, "snapshot_changed")
    /\ UNCHANGED <<stores, failures>>

(* The sources that one query or one file answers.                              *)
ReadOnce(c, sources) ==
    /\ request[c].at = "once" /\ request[c].source \in sources
    /\ Respond(c, Answer(request[c].source, request[c].arg, None, None))
    /\ UNCHANGED <<stores, failures>>

ReadHealth(c) == ReadOnce(c, {"health"})
ReadProducts(c) == ReadOnce(c, {"products"})
ReadDepartments(c) == ReadOnce(c, {"departments"})
ReadTrends(c) == ReadOnce(c, {"trends"})
ReadStreaming(c) == ReadOnce(c, {"streaming"})
ReadArchived(c) == ReadOnce(c, Archived)

ReadSnapshot(c) == Look(c) \/ ReadRows(c) \/ LookAgain(c)
ReadMetrics(c) == \/ ReadProducts(c) \/ ReadDepartments(c)
                  \/ ReadTrends(c) \/ ReadStreaming(c)
Read(c) == \/ ReadHealth(c) \/ ReadSnapshot(c) \/ ReadMetrics(c) \/ ReadArchived(c)
           \/ Failing(c)

--------------------------------------------------------------------------------
(* The publications.  A pair is withdrawn before the next one is offered, and a    *)
(* version is promoted while its pair is (PromotionUsesActiveGeneration).         *)

Offer == \E g \in Generations : Pair!Offer(g)
Withdraw == offered # None /\ offered' = None /\ Pair!Retire({})
PublishPair == (Offer \/ Withdraw) /\ UNCHANGED <<current, request, failures>>
PublishHybrid == /\ \E v \in Versions : /\ v # current /\ GenOf[v] = offered
                                        /\ Pointer!Advance(v)
                 /\ UNCHANGED <<offered, retired, request, failures>>
Publish == PublishPair \/ PublishHybrid

ApiInit == /\ Pair!Init /\ Pointer!Init
           /\ request = [c \in Callers |-> Quiet]
           /\ failures = MaxFailures
================================================================================
