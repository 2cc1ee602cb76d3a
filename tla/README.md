# Verification of Scrape Gateway

TLA+ models of the parts of Scrape Gateway (`src/src/scrape_gateway` and
`src/extensions`) whose behaviour depends on order, failure, time or money: the routing
loop, the memory that is its circuit breaker, the order it tries providers in, the
provider adapters and browser extensions, the artifact cache, and the processes (batch,
service, feed) that share one ledger. TLC checks them on small instances; TLAPS proves
the theorems listed below for every instance.

## The system

One Python process (CLI, HTTP service, MCP server or an extension) holds a
`ScrapeGateway`. `scrape(request)` looks in the artifact cache, orders the configured
provider adapters, tries them one after another under an optional cost ceiling, validates
what comes back, and persists the outcome. Several `scrape()` calls interleave at their
awaits; several processes share the files under `.scrape-gateway/`.

| Component | State it keeps | Operations | Talks to |
| --- | --- | --- | --- |
| Routing loop (`router.py`) | per run: ladder, `run_ledger`, `skipped`, `request.country`, metadata | `scrape`, `_evaluate_result` | everything below |
| Provider order (`router.py`, `memory.py`) | none | `_ordered_providers`, cost scores, exploration, due probes | memory, recipes |
| Routing memory (`memory.py`) | SQLite `attempt_ledger`, `page_history`, extraction patterns | `record_attempt_ledger`, `should_skip_provider`, `providers_due_for_probe`, `record_scrape` | router, service, feed |
| Adapters (`providers/`, browser and HTTP extensions) | none between calls, but Helium's global driver; ScrapeDrive walks tiers inside one call | `can_handle`, `estimated_cost_units`, `scrape` | external services, browsers |
| Artifact cache (`cache.py`, sg-cache) | per key: html, markdown, screenshot, meta files | `get_result`, `save`, purge | router, sg-cache, service |
| Telemetry (`telemetry.py`) | a directory per run: report, attempts, artifacts | write report | router, console, feed |
| Evaluator (`evaluation.py`), calibration | response cache; live-run marker | `evaluate`, live scoring | router, CLI |
| Feed (`scrapingevals.py`) | none; the receiver holds the cursor | export a batch | memory, telemetry |
| Console and service (`web.py`, `service.py`), MCP | `active_scrapes`, the current gateway | scrape, settings | router |
| CLI (`cli.py`), configuration, recipes, discovery | metadata of a batch; loaded settings | commands | router |

What makes it correct, by component:

- *Router*: the per-URL ceiling; every attempt recorded, with the verdict the caller saw;
  evidence never without its report where reports are written at all; a TLD country never
  outliving its call; a cache hit being a page somebody accepted; every run ending unless an
  adapter keeps it.
- *Memory*: skip rules and probe rule agree; a failed probe closes, a successful one
  reopens; nobody is shut out for good; no row is recorded twice.
- *ScrapeDrive*: escalation inside the allowance; one row per attempt, whatever the
  deadline cuts off; nothing billed that is not booked; forecast and ladder agree.
- *Provider order*: the announced decision is the order's; a cheaper provider is explored
  only without recent evidence.
- *Adapters*: nothing runs on after a call; a success is a page; what is booked was
  forecast, or reported by the service.
- *Cache*: an undisturbed save repairs whatever a crash left; a hit is one page, whole and
  fresh. *Feed*: no row lost or repeated. *Batch*: every URL is scraped, and the rows of
  one run id stay together. *Console*: it lists what is running.

The behaviours that are hard to test are listed as hazards in `PROJECT.json`, each at its
line, with the properties that cover it.

## Modules

`Router` models `ScrapeGateway.scrape` for concurrent runs of one URL and profile. `pc[r]`
is the place in `scrape()` where the run is; `rows`/`spent` are `run_ledger` and its sum;
`todo` the providers not considered; `country` is `request.country`; `cache`, `history`,
`reports`, `ledger` are the stores. One action per branch of the provider loop
(`SkipProvider`, `BudgetStop`, `StartCall`, `AnswerFailed`, `AnswerStops`,
`AnswerAccepted`, `LadderExhausted`) and one per write of the tail (`Evaluate`,
`SaveCache`, `RecordScrape`, `WriteReport`, `RecordAttemptLedger`). The order of providers
and whether one is skipped are free choices, which covers every history the memory may
have. `Crash` ends a run anywhere: a dead process, a cancelled task, a raising adapter, an
insert that the ledger's CHECK refuses. A run outside `Reporting` is one of a gateway with
telemetry switched off, which writes no report and records its attempts all the same.
`Bounded` are the adapters that put a time limit on every await of their own.
`overrun` is a history variable: how much calls have cost beyond their forecasts.

`RoutingMemory` models the ledger of one domain and profile. A row carries its age in
ticks instead of a timestamp; `Tick` ages them all. `ShouldSkip`, `FailedProbeReclosed`
and `Due` translate the SQL queries; `Plan`, `SkipBadHistory`, `Call`, `Answer`,
`EndLadder`, `Record` the part of the loop that uses them. Rows no query can see any more
are dropped (`Visible`), which keeps the ledger finite without changing any query.

`ScrapeDrive` models one `ScrapeDriveProvider.scrape` call: the price list, Auto, the start
tier, the per-tier allowance check, sync and async attempts and the deadline around them.
The service is external: `Charges` and `Bill` say what a job costs, as the price comments
of the adapter describe it (a fixed price reserved before the job runs; Auto anything from
its floor to `max_credits`; nothing for a refusal without a job id).

`AdapterCall` is the abstract specification of one adapter call: it returns once, with
failures followed by a verdict, or raises, and does not last for ever. It is what `Router`
assumes (`CallRows`, and the ending for adapters in `Bounded`), and `ScrapeDrive` implements
it (`KeepsContract`, with the refinement mapping in `Call`): the rows are those
`_provider_ledger` makes of the result. Each call of `Adapters` implements it too
(`Contract(c)`, a cancelled call having raised), but for its ending: some of them have no
time limit, and `Adapters` leaves those of the others out.

`ArtifactCache` models one cache entry as its four files. `save` opens (which truncates),
writes or unlinks one file after another; `get_result` tests and reads them one after
another; a purge of sg-cache lists the folder and unlinks what it listed. Every file
operation is a step, processes interleave, and a crash leaves the files as they are. A file
is the page it belongs to, `Missing` or `Torn`; an open file knows whether another writer
has it open too (`shared`: the two may overlay each other) or it was unlinked (`orphan`).
`settled`, `calm` and `late` are history variables that say which operations nobody
disturbed. A purge may choose any entry at any time, which covers what `--expired`,
`--domain` and a key select; a TTL of 0 is the case in which `Expire` never happens.

`Verdicts` has the pure part of the other 15 adapters and 15 extensions: what each
forecasts, and the result it makes of every kind of reply, exception and second request.
A reply is a record of what the functions tell apart: the exception, the status of the
answer and, where an API reports it apart, of the page, the class of the content, whether
a picture came with it, and the price reported. `Adapters` is the call around them: what
makes a provider unavailable, the retry without a proxy, the download of a screenshot,
the start of a browser, thread or worker, its release, and a cancellation while it waits
for its requests, its browser or its thread. Left out is a cancellation during a release
itself: what the engine's own cleanup then does is not code of the repository. Calls share
nothing, except Helium's, whose library has one current driver per process: only there two
calls run at a time. A Helium session is a thread; cancelling its call (`CancelSession`)
ends the await and changes nothing else, so the session goes on to its `finally`.
`start_chrome` may raise before its browser is the current one (`StartChrome`) or
afterwards, while the page loads (`StartFails`).

`ProviderOrder` translates `_ordered_providers` and the three queries it reads, over a
ledger whose rows carry a time: the preference of a request, recipe and strategy, observed
spend per success, one cheaper provider explored, due probes first, and the decision that
goes into the report. Spend per success is compared by cross-multiplication, as there is
no division to round. `Sorted` states what Python's `sorted` returns, the arrangement that
the key puts in order, as every key here tells any two providers apart. A list without one
provider, which the code filters, is the same order of the others.

`Workspace` composes the processes around one ledger: the batch command with the one
metadata dictionary it passes to every URL; requests to the service, which the console
lists and shields, or which come through the plain endpoint or the MCP tool; settings that
replace the gateway while tasks run; a restart; and the exporter with a receiver that may
lose a batch. A job plans its route with `ProviderOrder` from the ledger it finds, is away
for a while, and inserts any rows its route can leave, in one transaction under the
table's unique `(run_id, attempt_index)`. `explored` and `seen` of a row, and `listed` of
a job, are history: whether the row is the exploration its route announced, how long the
ledger was when it was planned, and whether the console accepted the request.

`MC*` modules give the constants their values. Definitions named `Bad...` are wrong
variants of the definition that follows them, with a plausible bug; no action uses them.
Put in its place, each breaks the property it was written against (`mutants` in
`PROJECT.json`), which shows that the property can fail.

## Runs

| Run | Checks | Instance and bounds |
| --- | --- | --- |
| `router` | `TypeOK`, `SpendWithinCeiling`, `EvidenceMatchesOutcome`, `EveryAttemptRecorded`, `EvidenceHasReport`, `HintNeverLeaks`, `HitWasAccepted`, `RunsEnd`, `RunsAdvance` | two concurrent runs sharing all stores: one with two adapters, of which one bounds its awaits, and telemetry, one with a single adapter and none, which always skips validation; TLD hint on, a ceiling of 1, forecasts up to 2, bills up to 1, calls of one or two rows (893,030 states) |
| `router_hit_options` | violation of `HitUnderSameOptions` | two runs of one adapter each, either of which may validate or skip |
| `memory` | `TypeOK`, `ProbeAdmitted`, `LoneFailedProbeCloses`, `SuccessfulProbeReopens`, `NeverClosedForever` | two scrapes, one with `use_memory=False`; thresholds scaled from 5 / 10 / 0.2 to 2 / 4 / 0.5 |
| `memory_probe` | violation of `FailedProbeCloses` | the thresholds of the code, one scrape, two rows per call |
| `scrapedrive` | `TypeOK`, `BookedWithinBudget`, `SyncBillBooked`, `AttemptsItemised`, `AdmittedCallAttempts`, `KeepsContract` | all 512 requests and configurations, allowances from nothing to beyond the ladder |
| `scrapedrive_bill` | violation of `EveryJobBooked` | the same |
| `artifact_cache` | `TypeOK`, `UndisturbedWriteHolds`, `QuietLookupIsExact`, `UndisturbedNeverFails` | two processes, one of which requires screenshots; two saves of any shape, any number of lookups, purges and crashes |
| `artifact_cache_mix` | violation of `HitIsOneGeneration` | the same |
| `adapters` | `TypeOK`, `NothingLeftBehind`, `SuccessIsUsable`, `BookedWithinForecast`, `ReportedPriceBooked`, `KeepsContract` (safety) | every adapter with every request it can handle; page statuses 200, 404, 407, 429, 503, 999, API statuses 200, 401, 409, 503; prices below, at and above the forecasts; two Helium sessions (83,840 states) |
| `adapters_forecast` | violation of `ForecastIsUpperBound` | the same, without prices reported by a service |
| `workspace` | `TypeOK`, `ListsItsRuns`, `DecisionNamesHead`, `EvidenceEndsExploration`, `RunIsOneBlock`, `FeedDelivers` | three providers, of which one is no longer installed; one request, a batch of one or two URLs, two settings, of which one leaves a gateway without providers, two histories, two instants, pages of two rows; the batch begins with a target that has a recipe, which reaches the next one (1.7 million states) |
| `workspace_batch` | violation of `BatchScrapesEveryUrl` | the same, the next target matching a recipe without routes |

Each passing run includes the module's type invariant.
The exact values are in the `.cfg` files. Why they are enough: the loop treats providers
uniformly, so two show both orders and how the bill, the verdict or the skip of one
influences the next; the proofs cover any number. Two runs show every pairwise race on the
stores, which each run writes once, also between gateways that differ in telemetry and in
the adapters they built. In the memory the second
threshold is reached in the scaled instance (`MaxWindowRows` rows before a scrape starts,
plus two scrapes of two rows), and ages beyond `Horizon` (twice the window and one) are
indistinguishable to every query. In ScrapeDrive amounts are in half credits and prices
of one credit, so that the rounding of `max_credits` and every boundary of the allowance
occur. In the cache two processes show every pairwise race and, as a process that dies is
replaced, every sequence of operations; two saves are one page and the remains of another,
and the proofs cover any number.
In `adapters` the statuses are one of each class the code distinguishes, 999 being one that
the ledger's CHECK refuses, and the allowances lie below, between and above the forecasts.
In `workspace` one history has a qualified provider and so makes scrapes explore, the other
has failures old enough for probes, of an installed provider and of a removed one; a batch
of two, one request and a page of two rows let rows of one run be cut by a page, batches
collide under one run id, and a scrape be planned before another has recorded. One clock
step is the whole exploration interval, so rows within it and beyond it both occur.

Deadlock checking is off everywhere because runs, scrapes and calls end.

### Fairness

`Router`: weak fairness of each run's own steps, not of `Crash`, and not while the run awaits
an adapter outside `Bounded` (`Hangs`). The event loop resumes a task whose await has
completed; `router.py:786` puts no limit on it. The adapters over
httpx and the evaluator (`evaluation.py:335`, `458`) give their clients a timeout, which
bounds every read and not their number, so that a reply which trickles in for ever is
assumed away; ScrapeDrive limits its whole call (`KeepsContract`). Helium's thread, and the start, navigation, screenshot or stop of
nodriver, seleniumbase, pydoll and crawlee, have none. So `RunsEnd` does not say that a
scrape ends: it says that nothing but such an adapter can prevent it. `RoutingMemory`:
only time passes; nobody is obliged to scrape or to finish. `ScrapeDrive`: the ladder runs
without awaits between attempts, and `asyncio.timeout` fires; that the service answers is
not assumed. `ArtifactCache`, `Adapters` and
`Workspace` have no liveness properties and assume no fairness.

## Disagreements found

- `HitUnderSameOptions`: `docs/architecture.md:15-16` says a hit "can never be a page
  fetched under different options", but the cache key omits `skip_validation`: the sitemap
  extension stores unvalidated pages that a validating scrape is then served as a success.
- `FailedProbeCloses`: `docs/configuration.md:87-89` says "A failed probe closes the
  provider for another window". `_failed_probe_reclosed` looks at the gap between the last
  two rows, so a probe that leaves two rows is not recognised. `LoneFailedProbeCloses` is
  the part that holds.
- `EveryJobBooked`: `_was_charged` says a job id makes a job billable, but the async path
  books a job whose polling failed as free; the ceiling does not see that spend.
  `SyncBillBooked` is the part that holds.
- `HitIsOneGeneration`: `cache.py:106` promises a result "without mixing artifact
  generations" (so does `CHANGELOG.md:571`), but neither `save` nor `get_result` excludes
  the other, so a lookup during a save, or after one that was cut off, pairs the html of
  one page with the screenshot of another. `QuietLookupIsExact` is the part that holds.
  The same traces show an html file cut short being served as a hit, and an entry whose
  metadata was never written, which does not expire.
- `BatchScrapesEveryUrl`: `cli.py:1171` says `sgw run` "Scrapes each URL through the
  gateway and shows a summary table." One metadata dictionary serves every URL
  (`cli.py:1192`), and `scrape()` takes a run id it finds there for its own, so the second
  URL that leaves attempts inserts rows under the run id and indexes of the first, which
  the unique key refuses: `IntegrityError` ends the command before the table. By the same
  dictionary the recipe of one URL reaches the next, and a report overwrites the one before
  it in the same run directory. `RunIsOneBlock` is the part that holds: the key that ends
  the command also keeps rows of two targets from being grouped as one run.
- `ForecastIsUpperBound`: `provider.py:84` calls the forecast "a conservative upper bound for
  the next provider call", and `docs/configuration.md:102-105` rests the ceiling on it. The
  router takes it before it lends the call the country of the TLD, and ZenRows prices a
  country like premium: such a call books 10 or 25 units after a forecast of 1 or 5. A price
  that a service reports may pass the forecast as well; `SpendWithinCeiling` says that the
  ceiling is passed by nothing but such excess. `BookedWithinForecast` is the part that
  holds.

Two more sentences of `docs/configuration.md` promise more than the code does. No run
refutes them; the properties say what holds instead:

- Line 85: "Once per 24 hours, one cheaper provider without recent usable evidence may move
  ahead". Each cheaper provider is due by its own evidence, so two of them may be explored
  within a day; scrapes that are planned before an exploration is recorded explore the same
  one; and a candidate whose calls say nothing of the domain (unavailable, proxy error), or
  that is then skipped, is explored by every scrape. What holds of the sentence is "without
  recent usable evidence" (`EvidenceEndsExploration`).
- Lines 86-87: the recovery probe that is placed first may be of a provider the gateway has
  no longer. Nothing is probed then, and the decision in the report names a provider that
  was not tried; also one that an operator had picked and a change of settings then dropped
  (`DecisionNamesHead` allows that name besides the first of the route).

What else the properties had to leave out:

- An adapter to which an API reports the page's status apart accepts a 404 page, which one
  that fetches by itself fails; Oxylabs accepts a screenshot whatever the page answered;
  Pydoll and Crawlee may succeed without the screenshot asked for (`SuccessIsUsable`).
- A cancelled Scrapy call leaves its worker process and a cancelled call of a library in a
  thread its thread, a `wait_for` that gives up on spider_rs leaves its thread, a CDP call
  that fails closes its page after Playwright was stopped, nodriver and seleniumbase may
  leave a browser whose start was cancelled, and of two overlapping Helium sessions each may
  read the other's page, close its browser, or leave one behind (`NothingLeftBehind`). A
  Helium session whose call was cancelled goes on, alone, to its own end.
- A page status outside 100 to 599 reaches the ledger from adapters that pass it on as it
  is, and its CHECK refuses the rows: a `Crash` of `Router` at its last write.
- A lookup in the cache that a save or a purge disturbs may raise, and so may a save that a
  purge disturbs; the exception leaves `scrape()` (`UndisturbedNeverFails`).
- The Firecrawl screenshot is downloaded inside the same `try`: an exception there forgets
  the page that was paid for and its price. The step is in the model; no property is about it.

## Proofs

All for arbitrary constants under the module's named assumption.

- `Router_proofs`: `TypeCorrect`; `CeilingHolds`; `HintConfined`; `HitsAccepted`;
  `EvidenceReported`; `EvidenceAgrees`; `AttemptsRecorded`; `EveryStepAdvances`. Type correctness is inductive
  only with `ControlInv`: a call is made to the head of a non-empty `todo`, and a run that
  saves has a capture. The ceiling needs no strengthening, but the arithmetic of a booking
  is a lemma of its own: what leaves the forecast enters the spend or the overrun. The
  hint needs `HintInv`, which adds that every capture is filed under the caller's country,
  since a hit and a save copy captures between runs and the cache. `AcceptedInv` names the
  origin of every capture, in the cache or behind a hit, as a run that succeeded, which no
  run takes back. `TailInv` says, place by place in the tail, what has been written, the
  report being due only from a run of `Reporting`.
  `VerdictInv` says that rows and result agree at any time, through the patch of the last
  row. `CoverInv` says that every provider was called, was skipped or is still listed, and
  that the rows name those called, but for a call in flight. `EveryStepAdvances` counts the
  steps a run has left, which every step lowers: it is the part of `RunsEnd` that needs no
  fairness, and leaves to TLC only that steps which can be taken are.
- `RoutingMemory_proofs`: `TypeCorrect`; `ProbesAdmitted`;
  `FailedProbesClose`; `SuccessfulProbesReopen`. The agreement of the queries rests on the
  order of the evidence: if the youngest row is out of the window, so are all, and no skip
  rule applies. The lemmas say that appending a run, dropping invisible rows and a tick
  keep the order. The two theorems on probes follow what `Record` makes of a due
  provider's ledger (`AfterProbe`): aged rows of which the last are kept, then those of
  the probe.
- `ScrapeDrive_proofs`: `TypeCorrect`; `BudgetKept`; `SyncBillsBooked`;
  `AdmittedAttempts`; `EveryAttemptItemised`; `ContractSafe`. `BudgetInv` says that what
  is booked and what remains add up to the allowance and that the attempt in flight was
  admitted against the remainder; `ChargesBounded` that no job costs more than the price
  it was admitted at; `AdmitInv` that a call without an attempt is still at the tier whose
  price was forecast; `ItemInv` that what was attempted, booked and is left are one
  ladder, place by place. From it follows that every step is one of `AdapterCall` or a
  stutter.
- `ArtifactCache_proofs`: `TypeCorrect`; `WritesHeal`; `LookupsExact`;
  `UndisturbedSucceed`. `WriteInv` says that a process that is calm is alone, that the
  files an undisturbed save has dealt with hold its page and those an undisturbed purge no
  longer lists are gone, and that nothing is known of an entry being written. `LookInv`
  follows a lookup from file to file: what it has read is what the settled page holds, and
  each branch it took was the right one for that page.
- `ProviderOrder_proofs`: `RouteComplete`; `ExploredIsDue`. What sorting returns is not
  taken from a library: `SortExists` builds the arrangement, the place of each provider
  being the number of those before it, and `RankLists`, `NamedLists`, `CostLists` and
  `FirstLists` show that the keys of the code are strict orders. For observed spend this
  asks that comparing fractions by cross-multiplication is transitive (`SpendTransitive`),
  hence that the spend and the weights of the ledger are numbers (`SpendNatural`,
  `WeightNatural`): `SumExists` and `SumNatural` show that the sum over a finite set is
  defined, and a number, by the least set that would be an exception. `RouteComplete` then
  follows the cases of `_ordered_providers`, with a gateway that may be empty.
- `Workspace_proofs`: `ConsoleListsRuns`; `RunsAreBlocks`; `FeedIsExact`;
  `DecisionsNameHead`; `EvidenceSpares`; `TypeCorrect`. They rest on two facts about the ledger: it only grows at its
  end, and every step appends the rows of one job or nothing. `WholeRuns` is then
  inductive through the unique key: an id that is in the table has its row 1 there, so new
  rows under it clash. A page of the feed is an interval of ids, so that what is delivered
  and the cursor move together. For the routes, `PlanInv` adds that the rows of the ledger
  are of providers that exist and cost a number, that the batch has a next URL whenever it
  scrapes, and that a created job has a target: any job that `scrape()` opens is then
  planned under the hypotheses of `RouteComplete`, and its rows are again of the gateway's
  providers. For the explorations: a job that explores found no
  evidence of the provider within the interval, so any it clashes with is beyond what it
  saw.
- `Adapters_proofs`: `TypeCorrect`; `LeavesNothing`; `SuccessUsable`; `BookedForecast`;
  `PriceBooked`; `ContractSafe`; and `VerdictSound`. The named
  assumption has every API answer for itself with a status of HTTP's range (100 to 599);
  the page behind it may have any. `VerdictSound` goes through the adapters of `Verdicts`
  one by one: whatever the reply, the exception and the second request, the result is
  usable if it says so and costs no more than its forecast for that request unless the
  service priced it. `CallInv` carries that through a call: phase, things held, price reported and
  result fit each other, whichever await is cut off. `SoloInv` is needed for Helium only:
  a session that ran alone owns the library's current driver from its start to its
  finally, unless its browser never came to be, so that neither page nor browser can be another call's; it names the sessions
  that are running, without which a second one could start unnoticed. `ContractSafe` rests
  on `StepIsOfOne`: a step disturbs the phase and result of one unfinished call or of none,
  also where it takes another session's browser or ends a thread that was given up.

Only model-checked: liveness (`RunsEnd`, `NeverClosedForever`, the ending of
ScrapeDrive's `KeepsContract`), which is out of the prover's reach. Every invariant and
action property that a passing run checks is also a theorem.

## Not modelled

- The content of pages, reports and messages, what `validate_content` decides (a free
  choice of its verdicts), the encoding of requests, and logging.
- The diffs of the page history and the extraction patterns: they annotate a result and no
  decision reads them. Schema migration happens once at start-up.
- The response cache of the evaluator: `Router` has the evaluation as one await that never
  changes the outcome, and a torn entry is one more way for it to fail.
- Calibration: a developer's command, arithmetic over recorded answers. Its live-run
  marker is listed as a hazard.
- In the feed, the window of `--days`, under which a row stamped after the exporter read
  its clock can be passed over by the mark, and the summary of each run.
- The sitemap extension, a sequential walk without shared state; the console front end;
  the commands and endpoints that only read; the parsing of configuration and the
  discovery of plugins.

The status of every component is in `PROJECT.json`. What remains worth doing: a window in
`Workspace`'s feed; an abstract cache to which `ArtifactCache` maps while undisturbed; the
composition of `Router` with the queries of `RoutingMemory` for two providers.
