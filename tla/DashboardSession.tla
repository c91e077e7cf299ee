---------------------------- MODULE DashboardSession ----------------------------
(***************************************************************************)
(* One browser session of the dashboard (app.py, ui/state.py, ui/pages): what    *)
(* it shows is read through the API of DashboardApi, and successful answers are   *)
(* kept in a dict of the session, the oldest entry going first.                 *)
(*                                                                         *)
(* Streamlit runs the whole script again for every click.  A click does not      *)
(* wait: the run under way stops at its next call into Streamlit, so a request    *)
(* it is waiting for still ends, and its answer is still stored in the dict the   *)
(* run has in hand, while the new run goes on.  A superseded run's writes to the  *)
(* session itself have no effect.                                             *)
(*                                                                         *)
(* One user and the blank (active) model version are asked for; a namespace is    *)
(* configured.                                                               *)
(***************************************************************************)
EXTENDS DashboardApi, Sequences, SequencesExt

CONSTANTS
    Links,            \* bound: the pages each click may lead to, from each page
    Begins,           \* and those a session begins on
    Orders,           \* the rankings chosen on one of them
    MaxCached         \* _MAX_CACHE_ENTRIES

Pages == {"overview", "analytics", "recommendations", "evaluation"}

ASSUME SessionConstants ==
    /\ IsFiniteSet(Callers) /\ Callers = 1..Cardinality(Callers)
    /\ Links \in [Callers -> [Pages -> SUBSET Pages]] /\ Begins \subseteq Pages
    /\ MaxCached \in Nat

VARIABLES
    script,      \* the runs of the script, numbered by the click that began them
    now,         \* the run that belongs to the last click
    cache,       \* the current dict: entries in the order of their insertion
    session,     \* the rest of st.session_state
    screen,      \* what the browser shows
    cleared      \* which dict that is: the last run that dropped one

ui == <<script, now, cache, session, screen, cleared>>
vars == <<apiVars, ui>>

NoRun == [at |-> "none", page |-> None, event |-> None, order |-> None,
          todo |-> <<>>, dict |-> 0, got |-> {}, changed |-> FALSE]
Blank == [run |-> 0, page |-> None, got |-> {}, order |-> None, retry |-> FALSE,
          warned |-> FALSE]
NoFilters == [order |-> None, got |-> {}]

KeyOf(answer) == <<answer.source, answer.arg>>

(* What a page reads: source, parameter, and whether the cache is passed over.    *)
Item(source, arg, refresh) == [source |-> source, arg |-> arg, refresh |-> refresh]

Overview(r, event) ==
    <<Item("health", None, FALSE), Item("products", "first", FALSE),
      Item("departments", None, FALSE), Item("trends", r, FALSE),
      Item("registry", None, FALSE), Item("streaming", None, event = "refresh")>>

Analytics(event, order) ==
    IF event # "submit" THEN <<>>
    ELSE <<Item("trends", None, TRUE), Item("products", order, TRUE),
           Item("departments", None, TRUE), Item("orders", None, TRUE)>>

Recommendations(active, again) ==
    IF active THEN <<Item("hybrid", None, again), Item("als", None, again)>> ELSE <<>>

Evaluation(event) ==
    LET again == event = "refresh" IN
    <<Item("registry", None, again), Item("evaluation", None, again)>>
    \o [i \in 1..3 |-> Item("evidence", i, again)]

--------------------------------------------------------------------------------
(* A click.  Buttons that need a page or an error to be there are only clicked    *)
(* then; "other" stands for every widget that only reruns the script.            *)

Clickable(event, page) ==
    CASE event = "submit" -> page \in {"analytics", "recommendations"}
      [] event = "refresh" -> page \in {"overview", "evaluation"}
      [] event = "retry" -> screen.retry /\ page = "recommendations"
      [] OTHER -> TRUE

Live(r) == r = now
Superseded(run) == IF run.at = "asking"
                   THEN [NoRun EXCEPT !.at = "asking", !.dict = run.dict]
                   ELSE NoRun
Click ==
    /\ now + 1 \in Callers
    /\ \E page \in Links[now + 1][screen.page], order \in Orders \cup {None},
          event \in {"clear", "submit", "refresh", "retry", "other"} :
           /\ order # None <=> (event = "submit" /\ page = "analytics")
           /\ event = "other" \/ (page = screen.page /\ Clickable(event, page))
           /\ script' = [r \in Callers |->
                  CASE r = now + 1 -> [NoRun EXCEPT !.at = "top", !.page = page,
                                          !.event = event, !.order = order]
                    [] r = now -> Superseded(script[r])
                    [] OTHER -> script[r]]
           /\ session' = [session EXCEPT !.retry = @ \/ event = "retry"]
    /\ now' = now + 1
    /\ UNCHANGED <<apiVars, cache, screen, cleared>>

(* "Refresh dashboard data": the dict is dropped, and the script begins again.    *)
ClearCache(r) ==
    /\ Live(r) /\ script[r].at = "top" /\ script[r].event = "clear"
    /\ cache' = <<>>
    /\ session' = [session EXCEPT !.last = NoFilters, !.refresh = TRUE]
    /\ script' = [script EXCEPT ![r].event = "other"]
    /\ cleared' = r
    /\ UNCHANGED <<apiVars, now, screen>>

(* The flags of the session are taken, and the page decides what to read.         *)
PlanOf(r, active, again) ==
    LET run == script[r] IN
    CASE run.page = "overview" -> Overview(r, run.event)
      [] run.page = "analytics" -> Analytics(run.event, run.order)
      [] run.page = "recommendations" -> Recommendations(active, again)
      [] run.page = "evaluation" -> Evaluation(run.event)

(* What a run keeps, as it begins, of the last submission.  Mutated: its own       *)
(* filters are noted at once.                                                 *)
LastAtBegin_Noted(r) == [session.last EXCEPT !.order =
                            IF script[r].order = None THEN @ ELSE script[r].order]
LastAtBegin(r) == session.last

Begin(r) ==
    LET onUser == script[r].page = "recommendations"
        submits == onUser /\ script[r].event = "submit"
        active == session.active \/ submits
        again == submits \/ session.refresh \/ session.retry IN
    /\ Live(r) /\ script[r].at = "top" /\ script[r].event # "clear"
    /\ script' = [script EXCEPT ![r].at = "reading",
                                ![r].todo = PlanOf(r, active, again)]
    /\ session' = [active |-> active, refresh |-> FALSE,
                   retry |-> session.retry /\ ~onUser, last |-> LastAtBegin(r)]
    /\ UNCHANGED <<apiVars, now, cache, screen, cleared>>

--------------------------------------------------------------------------------
(* fetch: from the dict, or from the API; a refresh drops the entry first.        *)

Cached(item) == {i \in DOMAIN cache : cache[i].key = <<item.source, item.arg>>}
Without(item) == IF Cached(item) = {} THEN cache
                 ELSE RemoveAt(cache, CHOOSE i \in Cached(item) : TRUE)

Hit(r) ==
    LET run == script[r] IN
    /\ Live(r) /\ run.at = "reading" /\ run.todo # <<>>
    /\ ~Head(run.todo).refresh /\ Cached(Head(run.todo)) # {}
    /\ \E i \in Cached(Head(run.todo)) :
           script' = [script EXCEPT ![r].todo = Tail(@),
                                    ![r].got = @ \cup {cache[i].payload}]
    /\ UNCHANGED <<apiVars, now, cache, session, screen, cleared>>

Miss(r) ==
    LET run == script[r]
        item == Head(run.todo) IN
    /\ Live(r) /\ run.at = "reading" /\ run.todo # <<>>
    /\ item.refresh \/ Cached(item) = {}
    /\ cache' = Without(item)
    /\ Ask(r, item.source, item.arg)
    /\ script' = [script EXCEPT ![r].at = "asking", ![r].todo = Tail(@),
                                ![r].dict = cleared]
    /\ UNCHANGED <<stores, failures, now, session, screen, cleared>>

(* An entry that is there keeps its place; then the oldest go.  Mutated: the       *)
(* entries are a list.                                                         *)
Put_Twice(entry) == LET with == Append(cache, entry) IN
                    IF Len(with) > MaxCached THEN Tail(with) ELSE with
Put(entry) ==
    LET at == {i \in DOMAIN cache : cache[i].key = entry.key}
        with == IF at = {} THEN Append(cache, entry)
                ELSE [i \in DOMAIN cache |-> IF i \in at THEN entry ELSE cache[i]] IN
    IF Len(with) > MaxCached THEN Tail(with) ELSE with

(* The dict a run has in hand is the session's unless it was dropped since.        *)
(* Mutated: it always is, as if it had been emptied instead.                     *)
InHand_Emptied(r) == TRUE
InHand(r) == script[r].dict = cleared

(* A superseded run ends here.                                                *)
Resumed(r, got, changed) ==
    LET run == script[r] IN
    [script EXCEPT ![r] = IF ~Live(r) THEN NoRun
                          ELSE [run EXCEPT !.at = "reading", !.got = run.got \cup got,
                                           !.changed = run.changed \/ changed]]

Receive(r) ==
    LET answer == request[r].answer
        payload == [run |-> r, answer |-> answer] IN
    /\ script[r].at = "asking" /\ request[r].at = "answered"
    /\ request' = [request EXCEPT ![r] = Quiet]
    /\ IF answer.error # None
       THEN /\ UNCHANGED cache
            /\ script' = Resumed(r, {}, /\ answer.source = "hybrid"
                                      /\ answer.error = "snapshot_changed")
       ELSE /\ cache' = IF InHand(r)
                        THEN Put([key |-> KeyOf(answer), payload |-> payload])
                        ELSE cache
            /\ script' = Resumed(r, {payload}, FALSE)
    /\ UNCHANGED <<stores, failures, now, session, screen, cleared>>

--------------------------------------------------------------------------------
(* The page is shown, when all it reads has been read.                           *)

(* Whether two answers name the same run_id and model_version.  Mutated: the       *)
(* model_version alone.                                                       *)
SameGeneration_Model(a, b) == ModelOf[a.answer.named] = ModelOf[b.answer.named]
SameGeneration(a, b) == a.answer.named = b.answer.named

Of(got, source) == {p \in got : p.answer.source = source}
Warns(got) == \E a \in Of(got, "als"), b \in Of(got, "hybrid") : ~SameGeneration(a, b)

(* The analytics page keeps what a submission read, with its filters, and shows   *)
(* that until the next one is complete.                                       *)
FiltersOf(r) == IF script[r].page = "analytics" /\ script[r].event = "submit"
                THEN [order |-> script[r].order, got |-> script[r].got]
                ELSE session.last

Plain(r) == [Blank EXCEPT !.run = r, !.page = script[r].page, !.got = script[r].got]
OverviewScreen(r) == Plain(r)
EvaluationScreen(r) == Plain(r)
AnalyticsScreen(r) == [Plain(r) EXCEPT !.got = FiltersOf(r).got,
                                       !.order = FiltersOf(r).order]
RecommendationsScreen(r) == [Plain(r) EXCEPT !.retry = script[r].changed,
                                             !.warned = Warns(script[r].got)]

Show(r) ==
    LET page == script[r].page IN
    /\ Live(r) /\ script[r].at = "reading" /\ script[r].todo = <<>>
    /\ session' = [session EXCEPT !.last = FiltersOf(r)]
    /\ screen' = CASE page = "overview" -> OverviewScreen(r)
                   [] page = "analytics" -> AnalyticsScreen(r)
                   [] page = "recommendations" -> RecommendationsScreen(r)
                   [] page = "evaluation" -> EvaluationScreen(r)
    /\ script' = [script EXCEPT ![r] = NoRun]
    /\ UNCHANGED <<apiVars, now, cache, cleared>>

Run(r) == ClearCache(r) \/ Begin(r) \/ Hit(r) \/ Miss(r) \/ Receive(r) \/ Show(r)

--------------------------------------------------------------------------------
Init ==
    /\ ApiInit
    /\ script = [r \in Callers |-> NoRun] /\ now = 0
    /\ cache = <<>>
    /\ session = [active |-> FALSE, refresh |-> FALSE, retry |-> FALSE,
                  last |-> NoFilters]
    /\ screen \in {[Blank EXCEPT !.page = page] : page \in Begins}
    /\ cleared = 0

Next == \/ Click
        \/ \E r \in Callers : Run(r) \/ (Read(r) /\ UNCHANGED ui)
        \/ Publish /\ UNCHANGED ui

Spec == Init /\ [][Next]_vars

--------------------------------------------------------------------------------
(* Properties.                                                              *)

IsAnswer(a) == /\ a.source \in Sources
               /\ {a.rows, a.named} \subseteq Generations \cup {None}
IsPayload(p) == p.run \in Callers /\ IsAnswer(p.answer) /\ p.answer.error = None

(* The types; a key is in the dict once, and the dict never exceeds its bound.    *)
TypeOK ==
    /\ offered \in Generations \cup {None} /\ retired \subseteq Generations
    /\ current \in Versions \cup {None} /\ failures \in Nat
    /\ \A c \in Callers : IsAnswer(request[c].answer)
    /\ now \in 0..Cardinality(Callers)
    /\ \A i \in DOMAIN cache : IsPayload(cache[i].payload)
    /\ IsInjective([i \in DOMAIN cache |-> cache[i].key]) /\ Len(cache) <= MaxCached
    /\ \A p \in screen.got \cup session.last.got : IsPayload(p)
    /\ \A r \in Callers : \A p \in script[r].got : IsPayload(p)

(* "Explicit refresh clears that cache": after it, nothing is shown that was       *)
(* requested before, on any page, also when a request was under way as the         *)
(* cache was cleared and is answered later (state.py clear_response_cache).       *)
ClearedIsFresh ==
    screen.run >= cleared =>
        \A p \in screen.got : p.run >= cleared

(* When the page shows both lists and no warning, their rows are of one A/B        *)
(* generation, whenever and by whichever run each was read (recommendations.py     *)
(* render_recommendations, readers.py read_als_snapshot, read_hybrid_snapshot).   *)
ComparisonHonest ==
    ~screen.warned => \A a \in Of(screen.got, "als"), b \in Of(screen.got, "hybrid") :
                          a.answer.rows = b.answer.rows

(* The analytics page never shows the ranking of one submission under the filters  *)
(* of another, even if the later one is interrupted (analytics.py).             *)
FiltersMatch ==
    screen.page = "analytics" =>
        \A p \in Of(screen.got, "products") : p.answer.arg = screen.order
================================================================================
