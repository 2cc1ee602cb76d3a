------------------------------- MODULE Router -------------------------------
(***************************************************************************)
(* ScrapeGateway.scrape (router.py): concurrent runs for one URL and one   *)
(* request profile.  A run looks in the artifact cache, walks an ordered   *)
(* list of provider adapters under a cost ceiling, validates what comes    *)
(* back, and then persists its outcome in four separate writes: artifact   *)
(* cache, page history, run report, attempt ledger.  The awaits            *)
(* (provider.scrape, the evaluator) are where runs of one process          *)
(* interleave; a crash or an exception may end a run between any two steps.*)
(*                                                                         *)
(* Left to other modules: which providers memory skips and how the order   *)
(* is chosen (any order and any skip is possible here), and what an        *)
(* adapter does inside one call (a call appends 1..MaxRows ledger rows and *)
(* costs anything up to MaxBill, whatever it forecast).                    *)
(***************************************************************************)
EXTENDS Integers, Sequences, FiniteSets, SequencesExt

CONSTANTS
    Runs,           \* concurrent calls of scrape()
    Providers,      \* the adapters there are
    Gateway,        \* the adapters each run's gateway has built
    Reporting,      \* runs of a gateway whose telemetry is enabled
    CountryCapable, \* adapters with the "country" capability
    Bounded,        \* adapters that put a time limit on every await of their own
    TldHint,        \* the caller named no country and the TLD suggests one
    SkipModes,      \* the values of request.skip_validation each run may have
    Capped,         \* strategy.max_cost_per_url is set
    MaxCost,        \* its value, in cost units
    MaxForecast,    \* bound: largest estimated_cost_units
    MaxBill,        \* bound: largest cost one provider call books
    MaxRows         \* bound: ledger rows one provider call books

ASSUME RouterAssumption ==
    /\ IsFiniteSet(Providers)
    /\ Gateway \in [Runs -> SUBSET Providers]
    /\ Reporting \subseteq Runs
    /\ Bounded \subseteq Providers
    /\ CountryCapable \subseteq Providers
    /\ TldHint \in BOOLEAN /\ Capped \in BOOLEAN /\ SkipModes \in [Runs -> SUBSET BOOLEAN]
    /\ MaxCost \in Nat /\ MaxForecast \in Nat /\ MaxBill \in Nat
    /\ MaxRows \in Nat \ {0}

VARIABLES
    pc,       \* where each run is
    skip,     \* request.skip_validation
    todo,     \* ordered providers not yet considered
    country,  \* request.country: the caller's value, or the injected TLD hint
    forecast, \* estimated_cost_units of the call in flight
    rows,     \* run_ledger: [provider, ok]
    spent,    \* sum of cost_units over run_ledger
    result,   \* what the run would return
    page,     \* the accepted capture, or the cached one
    skipped,  \* providers listed in `skipped`
    called,   \* history: providers whose scrape() was awaited
    overrun,  \* history: how much calls cost beyond their forecasts
    cache,    \* the artifact cache entry of this URL and profile
    history,  \* page_history rows
    reports,  \* runs whose report file exists
    ledger    \* attempt_ledger rows by run_id

runVars == <<pc, skip, todo, country, forecast, rows, spent, result, page,
             skipped, called, overrun>>
storeVars == <<cache, history, reports, ledger>>
vars == <<pc, skip, todo, country, forecast, rows, spent, result, page,
          skipped, called, overrun, cache, history, reports, ledger>>

-----------------------------------------------------------------------------
Locations == {"start", "loop", "calling", "evaluating", "caching", "history",
              "reporting", "recording", "done", "crashed"}

Outcomes == {"none", "failed", "rejected", "budget", "stopped", "success", "hit"}

Row == [provider : Providers, ok : BOOLEAN]

\* What a run captured, or what the cache holds.  `by` is the run that fetched it,
\* `validated` whether validate_content passed it, `country` the request.country
\* under which it is filed.
Page == [kind : {"html", "image"}, by : Runs, validated : BOOLEAN,
         country : {"caller", "hint"}]
NoPage == [kind |-> "none"]

\* An adapter's forecast: a number, or infinite / NaN / negative / raising.
Unusable == -1
Forecasts == {Unusable} \cup 0..MaxForecast

\* Types, with an unusable forecast never reaching a call.
TypeOK ==
    /\ pc \in [Runs -> Locations]
    /\ skip \in [Runs -> BOOLEAN]
    /\ todo \in [Runs -> Seq(Providers)]
    /\ country \in [Runs -> {"caller", "hint"}]
    /\ forecast \in [Runs -> Nat]
    /\ rows \in [Runs -> Seq(Row)]
    /\ spent \in [Runs -> Nat]
    /\ result \in [Runs -> Outcomes]
    /\ page \in [Runs -> Page \cup {NoPage}]
    /\ skipped \in [Runs -> SUBSET Providers]
    /\ called \in [Runs -> SUBSET Providers]
    /\ overrun \in [Runs -> Nat]
    /\ cache \in Page \cup {NoPage}
    /\ history \in SUBSET Runs
    /\ reports \in SUBSET Runs
    /\ ledger \in [Runs -> Seq(Row)]

Init ==
    /\ pc = [r \in Runs |-> "start"]
    /\ skip \in [Runs -> BOOLEAN] /\ \A r \in Runs : skip[r] \in SkipModes[r]
    /\ todo = [r \in Runs |-> <<>>]
    /\ country = [r \in Runs |-> "caller"]
    /\ forecast = [r \in Runs |-> 0]
    /\ rows = [r \in Runs |-> <<>>]
    /\ spent = [r \in Runs |-> 0]
    /\ result = [r \in Runs |-> "none"]
    /\ page = [r \in Runs |-> NoPage]
    /\ skipped = [r \in Runs |-> {}]
    /\ called = [r \in Runs |-> {}]
    /\ overrun = [r \in Runs |-> 0]
    /\ cache = NoPage
    /\ history = {}
    /\ reports = {}
    /\ ledger = [r \in Runs |-> <<>>]

-----------------------------------------------------------------------------
(* Cache lookup and provider order *)

\* Variants named Bad... are deliberately wrong versions of the definition that follows
\* them: no action uses them.  Put in its place, each breaks the property it was
\* written against, which shows that the property can fail.

\* The lookup asks only whether an entry exists.
BadCacheHit(r) ==
    /\ pc[r] = "start"
    /\ cache.kind # "none"
    /\ page' = [page EXCEPT ![r] = cache]
    /\ result' = [result EXCEPT ![r] = "hit"]
    /\ pc' = [pc EXCEPT ![r] = "evaluating"]
    /\ UNCHANGED <<skip, todo, country, forecast, rows, spent, skipped, called,
                   overrun, storeVars>>

\* get_result serves an entry only while its html file exists: a screenshot-only
\* capture is never a hit.  The hit skips routing and goes to the evaluator.
CacheHit(r) ==
    /\ pc[r] = "start"
    /\ cache.kind = "html"
    /\ page' = [page EXCEPT ![r] = cache]
    /\ result' = [result EXCEPT ![r] = "hit"]
    /\ pc' = [pc EXCEPT ![r] = "evaluating"]
    /\ UNCHANGED <<skip, todo, country, forecast, rows, spent, skipped, called,
                   overrun, storeVars>>

\* A miss, an expired entry or use_cache=False: the run plans its provider order.
PlanRoute(r) ==
    /\ pc[r] = "start"
    /\ \E order \in SetToSeqs(Gateway[r]) : todo' = [todo EXCEPT ![r] = order]
    /\ pc' = [pc EXCEPT ![r] = "loop"]
    /\ UNCHANGED <<skip, country, forecast, rows, spent, result, page, skipped,
                   called, overrun, storeVars>>

-----------------------------------------------------------------------------
(* The provider loop *)

Considering(r) == pc[r] = "loop" /\ todo[r] # <<>>

Candidate(r) == Head(todo[r])

Remaining(r) == IF spent[r] > MaxCost THEN 0 ELSE MaxCost - spent[r]

\* Compares with the whole ceiling, not with what is left of it.
BadAffordableTotal(r, f) == ~Capped \/ (f # Unusable /\ f <= MaxCost)

\* A NaN forecast compares as affordable.
BadAffordableUnusable(r, f) == ~Capped \/ f <= Remaining(r)

Affordable(r, f) == ~Capped \/ (f # Unusable /\ f <= Remaining(r))

\* No capability, missing configuration, or bad history in domain memory.
SkipProvider(r) ==
    /\ Considering(r)
    /\ skipped' = [skipped EXCEPT ![r] = @ \cup {Candidate(r)}]
    /\ todo' = [todo EXCEPT ![r] = Tail(@)]
    /\ UNCHANGED <<pc, skip, country, forecast, rows, spent, result, page,
                   called, overrun, storeVars>>

\* The forecast is unusable or does not fit: the whole ladder stops here.
BudgetStop(r) ==
    /\ Considering(r)
    /\ \E f \in Forecasts : ~Affordable(r, f)
    /\ result' = [result EXCEPT ![r] = "budget"]
    /\ skipped' = [skipped EXCEPT ![r] = @ \cup {Candidate(r)}]
    /\ pc' = [pc EXCEPT ![r] = "evaluating"]
    /\ UNCHANGED <<skip, todo, country, forecast, rows, spent, page, called,
                   overrun, storeVars>>

\* The forecast is consulted only under a ceiling.  The TLD hint replaces
\* request.country for this one call.
StartCall(r) ==
    /\ Considering(r)
    /\ \E f \in Forecasts :
         /\ Affordable(r, f)
         /\ forecast' = [forecast EXCEPT ![r] = IF Capped THEN f ELSE 0]
    /\ country' = [country EXCEPT ![r] =
                     IF TldHint /\ Candidate(r) \in CountryCapable THEN "hint" ELSE @]
    /\ called' = [called EXCEPT ![r] = @ \cup {Candidate(r)}]
    /\ pc' = [pc EXCEPT ![r] = "calling"]
    /\ UNCHANGED <<skip, todo, rows, spent, result, page, skipped, overrun,
                   storeVars>>

\* The rows one provider call leaves: failed sub-attempts, the last one carrying the
\* verdict the router settled on (validation and rescue included).
CallRows(p, n, ok) == [i \in 1..n |-> [provider |-> p, ok |-> ok /\ i = n]]

Excess(r, cost) == IF cost > forecast[r] THEN cost - forecast[r] ELSE 0

\* No `finally`: the hint stays in request.country.
BadRestoredCountry(r) == country[r]

\* `finally` gives request.country back the caller's value.
RestoredCountry(r) == "caller"

\* run_ledger.extend(provider_ledger): what the call cost and the rows it leaves.
BookCall(r, ok) ==
    /\ pc[r] = "calling"
    /\ \E n \in 1..MaxRows, cost \in 0..MaxBill :
         /\ rows' = [rows EXCEPT ![r] = @ \o CallRows(Candidate(r), n, ok)]
         /\ spent' = [spent EXCEPT ![r] = @ + cost]
         /\ overrun' = [overrun EXCEPT ![r] = @ + Excess(r, cost)]
    /\ country' = [country EXCEPT ![r] = RestoredCountry(r)]
    /\ forecast' = [forecast EXCEPT ![r] = 0]
    /\ todo' = [todo EXCEPT ![r] = Tail(@)]
    /\ UNCHANGED <<skip, skipped, called, storeVars>>

\* A rejected page keeps the success its adapter reported in the ledger row.
BadAnswerFailedBooking(r) ==
    /\ \/ BookCall(r, FALSE) /\ result' = [result EXCEPT ![r] = "failed"]
       \/ BookCall(r, TRUE) /\ ~skip[r] /\ result' = [result EXCEPT ![r] = "rejected"]
    /\ pc' = [pc EXCEPT ![r] = "loop"]
    /\ UNCHANGED page

\* A failure leaves the loop instead of continuing it.
BadAnswerFailedBreak(r) ==
    /\ BookCall(r, FALSE)
    /\ \/ result' = [result EXCEPT ![r] = "failed"]
       \/ ~skip[r] /\ result' = [result EXCEPT ![r] = "rejected"]
    /\ pc' = [pc EXCEPT ![r] = "evaluating"]
    /\ UNCHANGED page

\* The adapter failed, or validate_content rejected its page: on to the next one.
AnswerFailed(r) ==
    /\ BookCall(r, FALSE)
    /\ \/ result' = [result EXCEPT ![r] = "failed"]
       \/ ~skip[r] /\ result' = [result EXCEPT ![r] = "rejected"]
    /\ pc' = [pc EXCEPT ![r] = "loop"]
    /\ UNCHANGED page

\* A proxy error, or an adapter that stopped at the remaining budget, ends the ladder.
AnswerStops(r) ==
    /\ BookCall(r, FALSE)
    /\ result' = [result EXCEPT ![r] = "stopped"]
    /\ pc' = [pc EXCEPT ![r] = "evaluating"]
    /\ UNCHANGED page

\* A page that passed validation, a page nobody validates (skip_validation, which also
\* rescues a failed 2xx/3xx answer that has html), or a screenshot without html.
AnswerAccepted(r) ==
    /\ BookCall(r, TRUE)
    /\ \E kind \in {"html", "image"} :
         page' = [page EXCEPT ![r] =
                    [kind |-> kind, by |-> r, country |-> country'[r],
                     validated |-> kind = "html" /\ ~skip[r]]]
    /\ result' = [result EXCEPT ![r] = "success"]
    /\ pc' = [pc EXCEPT ![r] = "evaluating"]

\* A ladder on which nothing was accepted is climbed again.
BadLadderExhausted(r) ==
    /\ pc[r] = "loop"
    /\ todo[r] = <<>>
    /\ pc' = [pc EXCEPT ![r] = IF called[r] = {} THEN "evaluating" ELSE "start"]
    /\ UNCHANGED <<skip, todo, country, forecast, rows, spent, result, page,
                   skipped, called, overrun, storeVars>>

\* Every provider was tried or skipped; the last failure (or none) is the result.
LadderExhausted(r) ==
    /\ pc[r] = "loop"
    /\ todo[r] = <<>>
    /\ pc' = [pc EXCEPT ![r] = "evaluating"]
    /\ UNCHANGED <<skip, todo, country, forecast, rows, spent, result, page,
                   skipped, called, overrun, storeVars>>

-----------------------------------------------------------------------------
(* Persisting the outcome *)

Goto(r, from, to) ==
    /\ pc[r] = from
    /\ pc' = [pc EXCEPT ![r] = to]
    /\ UNCHANGED <<skip, todo, country, forecast, rows, spent, result, page,
                   skipped, called, overrun>>

\* A failed run goes straight to its ledger rows.
BadEvaluateNoReport(r) ==
    /\ Goto(r, "evaluating", IF result[r] = "success" THEN "caching" ELSE "recording")
    /\ UNCHANGED storeVars

\* A result without a page is never sent to the evaluator.
BadEvaluateStuck(r) ==
    /\ result[r] \in {"success", "hit"}
    /\ Goto(r, "evaluating", IF result[r] = "success" THEN "caching" ELSE "reporting")
    /\ UNCHANGED storeVars

\* The evaluator may fail, but its failure is only annotated.
Evaluate(r) ==
    /\ Goto(r, "evaluating", IF result[r] = "success" THEN "caching" ELSE "reporting")
    /\ UNCHANGED storeVars

\* cache.save runs even with use_cache=False.
SaveCache(r) ==
    /\ Goto(r, "caching", IF page[r].kind = "html" THEN "history" ELSE "reporting")
    /\ cache' = [kind |-> page[r].kind, by |-> page[r].by, country |-> country[r],
                 validated |-> page[r].validated]
    /\ UNCHANGED <<history, reports, ledger>>

RecordScrape(r) ==
    /\ Goto(r, "history", "reporting")
    /\ history' = history \cup {r}
    /\ UNCHANGED <<cache, reports, ledger>>

\* A cache hit ends here: it has no attempts to record.  A gateway whose telemetry is
\* switched off writes no report, and records its rows all the same.
WriteReport(r) ==
    /\ Goto(r, "reporting", IF result[r] = "hit" THEN "done" ELSE "recording")
    /\ reports' = IF r \in Reporting THEN reports \cup {r} ELSE reports
    /\ UNCHANGED <<cache, history, ledger>>

RecordAttemptLedger(r) ==
    /\ Goto(r, "recording", "done")
    /\ ledger' = [ledger EXCEPT ![r] = rows[r]]
    /\ UNCHANGED <<cache, history, reports>>

\* The process dies, the task is cancelled at an await, or a call raises.  The run's
\* rows are lost unless they were already recorded.
Crash(r) ==
    /\ pc[r] \notin {"done", "crashed"}
    /\ pc' = [pc EXCEPT ![r] = "crashed"]
    /\ country' = [country EXCEPT ![r] = RestoredCountry(r)]
    /\ UNCHANGED <<skip, todo, forecast, rows, spent, result, page, skipped,
                   called, overrun, storeVars>>

Step(r) ==
    \/ CacheHit(r) \/ PlanRoute(r)
    \/ SkipProvider(r) \/ BudgetStop(r) \/ StartCall(r)
    \/ AnswerFailed(r) \/ AnswerStops(r) \/ AnswerAccepted(r) \/ LadderExhausted(r)
    \/ Evaluate(r) \/ SaveCache(r) \/ RecordScrape(r)
    \/ WriteReport(r) \/ RecordAttemptLedger(r)

Next == \E r \in Runs : Step(r) \/ Crash(r)

\* The run awaits an adapter that has no time limit of its own.  Neither has the router:
\* `await provider.scrape(request)` is bare.
Hangs(r) == pc[r] = "calling" /\ Candidate(r) \notin Bounded

\* The event loop resumes a task whose await has completed, and the awaits of a bounded
\* adapter and of the evaluator complete in the end.  Nothing obliges an adapter without
\* limits to answer, or a run to crash.
Spec == Init /\ [][Next]_vars /\ \A r \in Runs : WF_vars(~Hangs(r) /\ Step(r))

-----------------------------------------------------------------------------
(* Properties *)

\* The per-URL ceiling (router.py 691-760): what a run has booked, together with the
\* forecast of a call in flight, exceeds max_cost_per_url only by what adapters billed
\* beyond their own forecasts.  With conservative forecasts the ceiling is never passed.
SpendWithinCeiling ==
    Capped => \A r \in Runs :
        spent[r] + (IF pc[r] = "calling" THEN forecast[r] ELSE 0)
            <= MaxCost + overrun[r]

\* What routing learns from: a finished run's ledger holds a success row exactly when
\* the run returned a fetched page, and it is the last row.  A page that validation
\* rejected never counts as a success, a rescued one never as a failure.
EvidenceMatchesOutcome ==
    \A r \in Runs : pc[r] = "done" =>
        LET good == {i \in DOMAIN ledger[r] : ledger[r][i].ok}
        IN  IF result[r] = "success" THEN good = {Len(ledger[r])} ELSE good = {}

\* No attempt is lost and no provider forgotten: the recorded rows name exactly the
\* providers that were called, and a run that gives up without an early stop has called
\* or skipped every one its gateway has built.
EveryAttemptRecorded ==
    \A r \in Runs : pc[r] = "done" =>
        /\ {ledger[r][i].provider : i \in DOMAIN ledger[r]} = called[r]
        /\ result[r] \in {"none", "failed", "rejected"} =>
             called[r] \cup skipped[r] = Gateway[r]

\* The ledger is the last thing written (router.py 922-971): recorded attempts have their
\* report if their gateway writes reports at all (telemetry.py 633), and a recorded success
\* has its page-history row in any case, whatever crashes.
EvidenceHasReport ==
    \A r \in Runs : ledger[r] # <<>> =>
        /\ r \in Reporting => r \in reports
        /\ (result[r] = "success" /\ page[r].kind = "html") => r \in history

\* A TLD hint steers single calls only (router.py 776-788): whatever interrupts a call,
\* nothing is filed under the hint, and a hit never serves a page filed under it.
HintNeverLeaks ==
    /\ cache.kind # "none" => cache.country = "caller"
    /\ \A r \in Runs :
         /\ country[r] = "hint" => pc[r] = "calling"
         /\ result[r] = "hit" => page[r].country = "caller"

\* A hit serves only a page some run fetched and accepted.
HitWasAccepted ==
    \A r \in Runs : result[r] = "hit" =>
        /\ page[r].kind = "html"
        /\ result[page[r].by] = "success"

\* docs/architecture.md: "a hit can never be a page fetched under different options".
\* A run that wants validation is never served a page that skipped it.
HitUnderSameOptions ==
    \A r \in Runs : (result[r] = "hit" /\ ~skip[r]) => page[r].validated

\* How many steps a run has left at most: two for each provider on its list, the writes of
\* its outcome, and the last look at the list.
StepsLeft(at, list) ==
    CASE at = "start" -> 2 * Cardinality(Providers) + 7
      [] at = "loop" -> 2 * Len(list) + 6
      [] at = "calling" -> 2 * Len(list) + 5
      [] at = "evaluating" -> 5
      [] at = "caching" -> 4
      [] at = "history" -> 3
      [] at = "reporting" -> 2
      [] at = "recording" -> 1
      [] at \in {"done", "crashed"} -> 0

\* Every step brings one run nearer to its end and leaves the others where they are,
\* whichever answers, skips, stops and crashes interleave: no answer of a provider sends a
\* run round the ladder again.
RunsAdvance ==
    [][\E r \in Runs :
          /\ StepsLeft(pc'[r], todo'[r]) < StepsLeft(pc[r], todo[r])
          /\ \A s \in Runs \ {r} :
               StepsLeft(pc'[s], todo'[s]) = StepsLeft(pc[s], todo[s])]_vars

\* Nothing but an adapter without a time limit can keep a run from its end: a run ends,
\* or awaits such an adapter for ever.
RunsEnd ==
    \A r \in Runs : <>(pc[r] \in {"done", "crashed"}) \/ <>[]Hangs(r)

=============================================================================
