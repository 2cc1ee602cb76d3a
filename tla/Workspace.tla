----------------------------- MODULE Workspace ------------------------------
(***************************************************************************)
(* The processes that share one .scrape-gateway directory: a batch         *)
(* (`sgw run`, cli.py), the service with its console (web.py,              *)
(* mcp_server.py) and the evidence feed (`sgw scrapingevals`,              *)
(* scrapingevals.py), around the attempt ledger that all of them write or  *)
(* read.                                                                   *)
(*                                                                         *)
(* A job is one scrape().  Router.tla models what happens inside; here it  *)
(* plans its route from the ledger it finds, is away for a while, and      *)
(* inserts its rows, which are any that its route can leave.               *)
(***************************************************************************)
EXTENDS ProviderOrder

CONSTANTS
    Urls, Domain,   \* the targets and the domain of each
    Public,         \* the targets that may be exported
    Matched,        \* the targets that a recipe matches
    Recipe,         \* the providers that its routes name, <<>> without a recipe or routes
    Commands,       \* the batches: a list of URLs and what -p names
    Histories,      \* ledgers the processes may find
    ConsoleUrls,    \* the targets the operator asks for
    Requests,       \* requests to the console, 1..n
    Installed,      \* the providers that discovery finds
    Base,           \* what the configuration file names, and whether it enables it
    Settings,       \* what an operator may save in the console, in the same form
    Price, Exact,   \* what a call of each provider costs, and whether it reports it
    Limit,          \* --limit of the feed
    Start, Stop     \* bound: the clock runs from Start to Stop

Batch == 0
Jobs == Requests \cup {Batch}

\* An enabled flag for each of some providers.
Switches == UNION {[S -> BOOLEAN] : S \in SUBSET Names}

\* What the ledger may hold when the processes start.
Row == [run : Int, index : Nat \ {0}, url : Urls, domain : STRING, provider : Names,
        outcome : {"ok", "failed", "not_domain"}, cost : Nat, exact : BOOLEAN, stamp : Nat,
        explored : BOOLEAN, seen : Nat]

\* The rows of one run id are one block of one target and one time, numbered from 1.
WholeRuns(rows) ==
    /\ \A i \in DOMAIN rows :
         \E k \in DOMAIN rows : rows[k].run = rows[i].run /\ rows[k].index = 1
    /\ \A i, j \in DOMAIN rows :
         (i < j /\ rows[i].run = rows[j].run) =>
             /\ rows[j].index = rows[i].index + (j - i)
             /\ rows[j].url = rows[i].url /\ rows[j].stamp = rows[i].stamp

ASSUME WorkspaceAssumption ==
    /\ Requests \subseteq Nat \ {Batch} /\ IsFiniteSet(Requests)
    /\ Domain \in [Urls -> STRING] /\ ConsoleUrls \subseteq Urls /\ Public \subseteq Urls
    /\ Matched \subseteq Urls /\ Recipe \in [Urls -> Seq(Names)]
    /\ \A url \in Urls \ Matched : Recipe[url] = <<>>
    /\ Commands \subseteq [list : Seq(Urls), strategy : Names \cup {"none"}]
    /\ Installed \subseteq Names /\ Base \in Switches
    /\ Settings \subseteq Switches
    /\ Price \in [Names -> Nat] /\ Exact \in [Names -> BOOLEAN]
    /\ Limit \in Nat \ {0}
    /\ Start \in Nat /\ Stop \in Nat /\ Start <= Stop
    /\ \A rows \in Histories :
         /\ rows \in Seq(Row) /\ WholeRuns(rows)
         /\ \A i \in DOMAIN rows : rows[i].stamp <= Start /\ ~rows[i].explored

VARIABLES
    ledger,    \* attempt_ledger; a row's position is its id
    now,       \* the clock
    settings,  \* operator-settings.yml
    jobs,      \* each scrape() in flight
    active,    \* active_scrapes of the console
    batch,     \* the batch command
    feed       \* the exporter and the receiver that polls it

vars == <<ledger, now, settings, jobs, active, batch, feed>>

-----------------------------------------------------------------------------
(* The configuration *)

\* load_config: what the operator saved overrides the file, and may add to it.
Configured(saved) ==
    [p \in DOMAIN Base \cup DOMAIN saved |->
        IF p \in DOMAIN saved THEN saved[p] ELSE Base[p]]

\* _providers_from_config: what is installed is used unless it is disabled by name.
Built(config) == {p \in Installed : p \in DOMAIN config => config[p]}

\* The gateway that a new process builds, and the service's after a change of settings.
Gateway == Built(Configured(settings))

\* _validated_settings
Valid(saved) == \E p \in DOMAIN saved : saved[p]

-----------------------------------------------------------------------------
(* Jobs *)

Idle == [pc |-> "idle", listed |-> FALSE, url |-> "none", pick |-> "none", run |-> 0,
         gateway |-> {}, route |-> Route(<<>>, "none", "none"), seen |-> 0]

Ended == [Idle EXCEPT !.pc = "ended"]

\* scrape(), up to its first await: the cache may answer; if not, the route is planned on
\* the ledger as it is.  seen, how long the ledger was, matters to explorations only.
Opened(job, url, configured, pick, recipe, strategy, run) ==
    LET route == Ordered(ledger, Domain[url], now, configured, pick, recipe, strategy)
    IN  {[Idle EXCEPT !.pc = "hit", !.listed = job.listed],
         [Idle EXCEPT !.pc = "calling", !.listed = job.listed, !.url = url, !.pick = pick,
                      !.run = run, !.gateway = configured, !.route = route,
                      !.seen = IF route.kind = "exploration" THEN Len(ledger) ELSE 0]}

\* Which n places of the order are called, one after another.
Ascending(n, order) ==
    {at \in [1..n -> DOMAIN order] : \A i, k \in 1..n : i < k => at[i] < at[k]}

\* n outcomes, of which only the last may be a success.
Outcomes(n) ==
    {outcome \in [1..n -> {"ok", "failed", "not_domain"}] :
        \A i \in 1..n : outcome[i] = "ok" => i = n}

\* n of the providers are called, the others skipped.
Calls(n, order) ==
    {[i \in 1..n |-> [provider |-> order[at[i]], outcome |-> outcome[i]]] :
        at \in Ascending(n, order), outcome \in Outcomes(n)}

\* What the ladder leaves: a row for each provider it did not skip, in their order.
Ladders(order) == UNION {Calls(n, order) : n \in 0..Cardinality(Names)}

\* The rows of a job, as record_attempt_ledger stamps them.  explored and seen are no
\* columns: whether the row is the exploration its route announced, and how much of the
\* ledger its planning saw.
Rows(job, calls) ==
    [i \in DOMAIN calls |->
        LET p == calls[i].provider
        IN [run |-> job.run, index |-> i, url |-> job.url, domain |-> Domain[job.url],
            provider |-> p, outcome |-> calls[i].outcome,
            cost |-> Price[p], exact |-> Exact[p], stamp |-> now,
            explored |-> job.route.kind = "exploration" /\ job.route.provider = p,
            seen |-> job.seen]]

\* The table has no unique (run_id, attempt_index).
BadClashes(run, calls) == FALSE

\* unique (run_id, attempt_index)
Clashes(run, calls) ==
    \E i \in DOMAIN ledger : ledger[i].run = run /\ ledger[i].index \in DOMAIN calls

\* The end of scrape(): the insertion is one transaction, which raises on a clash.
Insert(job, calls) ==
    ledger' = IF Clashes(job.run, calls) THEN ledger ELSE ledger \o Rows(job, calls)

-----------------------------------------------------------------------------
(* The console *)

\* POST /api/scrapes: the provider is checked against the gateway of the moment; the run
\* is listed, its task created.
Accept(n, url, pick) ==
    /\ jobs[n] = Idle
    /\ pick = "none" \/ pick \in Gateway
    /\ jobs' = [jobs EXCEPT ![n] = [Idle EXCEPT !.pc = "created", !.listed = TRUE, !.url = url,
                                                !.pick = pick, !.run = n]]
    /\ active' = active \cup {n}
    /\ UNCHANGED <<ledger, now, settings, batch, feed>>

\* execute_scrape asks for the gateway anew.  The task is shielded: nothing a client does
\* reaches it from here on.
Execute(n) ==
    /\ jobs[n].pc = "created"
    /\ \E job \in Opened(jobs[n], jobs[n].url, Gateway, jobs[n].pick, Recipe[jobs[n].url], "none", n) :
         jobs' = [jobs EXCEPT ![n] = job]
    /\ UNCHANGED <<ledger, now, settings, active, batch, feed>>

\* POST /v1/scrape, and the scrape tool: the gateway is asked for and used at once, and
\* nothing lists the run.
Serve(n, url) ==
    /\ jobs[n] = Idle
    /\ \E job \in Opened(Idle, url, Gateway, "none", Recipe[url], "none", n) :
         jobs' = [jobs EXCEPT ![n] = job]
    /\ UNCHANGED <<ledger, now, settings, active, batch, feed>>

\* Pops only what did not come from the cache.
BadRelease(n) ==
    /\ jobs' = [jobs EXCEPT ![n] = Ended]
    /\ active' = IF jobs[n].pc = "hit" THEN active ELSE active \ {n}

\* finally: active_scrapes.pop, whether scrape() returned or raised.
Release(n) ==
    /\ jobs' = [jobs EXCEPT ![n] = Ended]
    /\ active' = active \ {n}

FinishHit(n) ==
    /\ jobs[n].pc = "hit"
    /\ Release(n)
    /\ UNCHANGED <<ledger, now, settings, batch, feed>>

Finish(n) ==
    /\ jobs[n].pc = "calling"
    /\ \E calls \in Ladders(jobs[n].route.order) : Insert(jobs[n], calls)
    /\ Release(n)
    /\ UNCHANGED <<now, settings, batch, feed>>

\* PUT /api/settings: the settings replace the saved ones and the gateway is built anew,
\* without an await in between.  Jobs under way keep the old one.
ApplySettings(saved) ==
    /\ Valid(saved) /\ saved # settings
    /\ settings' = saved
    /\ UNCHANGED <<ledger, now, jobs, active, batch, feed>>

\* The service goes down with every task; the settings file stays.
Restart ==
    /\ \E n \in Requests : jobs[n].pc \notin {"idle", "ended"}
    /\ jobs' = [j \in Jobs |-> IF j # Batch /\ jobs[j] # Idle THEN Ended ELSE jobs[j]]
    /\ active' = {}
    /\ UNCHANGED <<ledger, now, settings, batch, feed>>

-----------------------------------------------------------------------------
(* The batch: one metadata dictionary serves every URL, so what a scrape writes into it  *)
(* the next one finds: the run id, and the recipe of a URL that has one.                 *)

NoMetadata == [run |-> 0, recipe |-> <<>>]

NoBatch == [pc |-> "idle", list |-> <<>>, done |-> 0, strategy |-> "none", gateway |-> {},
            metadata |-> NoMetadata]

StartBatch(command) ==
    /\ batch.pc = "idle"
    /\ batch' = [pc |-> "next", list |-> command.list, done |-> 0,
                 strategy |-> command.strategy, gateway |-> Gateway, metadata |-> NoMetadata]
    /\ UNCHANGED <<ledger, now, settings, jobs, active, feed>>

\* metadata["run_id"] if there is one; a new id, told from all others by its sign.
BatchRun == IF batch.metadata.run # 0 THEN batch.metadata.run ELSE -(batch.done + 1)

\* metadata["recipe_providers"]: a recipe without routes clears what another one left.
BatchRecipe(url) == IF url \in Matched THEN Recipe[url] ELSE batch.metadata.recipe

NextUrl ==
    /\ batch.pc = "next" /\ batch.done < Len(batch.list)
    /\ LET url == batch.list[batch.done + 1] IN
         /\ \E job \in Opened(Idle, url, batch.gateway, "none", BatchRecipe(url), batch.strategy,
                              BatchRun) :
              jobs' = [jobs EXCEPT ![Batch] = job]
         /\ batch' = [batch EXCEPT !.pc = "scraping",
                                   !.metadata = [run |-> BatchRun, recipe |-> BatchRecipe(url)]]
    /\ UNCHANGED <<ledger, now, settings, active, feed>>

BatchHit ==
    /\ batch.pc = "scraping" /\ jobs[Batch].pc = "hit"
    /\ jobs' = [jobs EXCEPT ![Batch] = Idle]
    /\ batch' = [batch EXCEPT !.pc = "next", !.done = @ + 1]
    /\ UNCHANGED <<ledger, now, settings, active, feed>>

\* A scrape that raises ends the command, before its table and its output file.
BatchRecord ==
    /\ batch.pc = "scraping" /\ jobs[Batch].pc = "calling"
    /\ jobs' = [jobs EXCEPT ![Batch] = Idle]
    /\ \E calls \in Ladders(jobs[Batch].route.order) :
         /\ Insert(jobs[Batch], calls)
         /\ batch' = IF Clashes(jobs[Batch].run, calls) THEN [NoBatch EXCEPT !.pc = "raised"]
                     ELSE [batch EXCEPT !.pc = "next", !.done = @ + 1]
    /\ UNCHANGED <<now, settings, active, feed>>

PrintTable ==
    /\ batch.pc = "next" /\ batch.done = Len(batch.list)
    /\ batch' = [NoBatch EXCEPT !.pc = "finished"]
    /\ UNCHANGED <<ledger, now, settings, jobs, active, feed>>

-----------------------------------------------------------------------------
(* The feed *)

\* Rows after the cursor, as `sgw scrapingevals --days 0` selects them.
Selected == {i \in DOMAIN ledger : i > feed.cursor}

\* The first `Limit` of them in id order.
Page(ids) == {i \in ids : Cardinality({k \in ids : k < i}) < Limit}

\* The mark comes from the Limit + 1 rows fetched, not from the Limit delivered.
BadMark(ids) ==
    LET fetched == {i \in ids : Cardinality({k \in ids : k < i}) <= Limit}
    IN IF fetched = {} THEN feed.cursor ELSE Max(fetched)

\* Moves on by the limit, however few rows there were.
BadMarkByLimit(ids) == feed.cursor + Limit

\* through_ledger_id
Mark(ids) == IF Page(ids) = {} THEN feed.cursor ELSE Max(Page(ids))

\* _public_target
Exportable(ids) == {i \in ids : ledger[i].url \in Public}

\* runs: the attempts of one run id, as far as they are on this page.
Grouped(ids) == {{i \in ids : ledger[i].run = ledger[k].run} : k \in ids}

\* build_scrapingevals_feed: what has no public target is left out, but passed over.
BuildFeed ==
    /\ feed.pc = "idle"
    /\ feed' = [feed EXCEPT
                  !.pc = "built", !.mark = Mark(Selected),
                  !.runs = Grouped(Exportable(Page(Selected)))]
    /\ UNCHANGED <<ledger, now, settings, jobs, active, batch>>

\* The receiver stores the batch and moves its cursor; this is not code of the repository.
Acknowledge ==
    /\ feed.pc = "built"
    /\ feed' = [pc |-> "idle", runs |-> {}, mark |-> 0,
                cursor |-> feed.mark, delivered |-> feed.delivered \cup UNION feed.runs]
    /\ UNCHANGED <<ledger, now, settings, jobs, active, batch>>

\* The file cannot be written, or the receiver refuses it: the same cursor is used again.
Discard ==
    /\ feed.pc = "built"
    /\ feed' = [feed EXCEPT !.pc = "idle", !.runs = {}, !.mark = 0]
    /\ UNCHANGED <<ledger, now, settings, jobs, active, batch>>

-----------------------------------------------------------------------------
Init ==
    /\ ledger \in Histories
    /\ now = Start
    /\ settings = [p \in {} |-> TRUE]
    /\ jobs = [j \in Jobs |-> Idle]
    /\ active = {}
    /\ batch = NoBatch
    /\ feed = [pc |-> "idle", runs |-> {}, mark |-> 0, cursor |-> Len(ledger),
               delivered |-> {i \in DOMAIN ledger : ledger[i].url \in Public}]

Tick ==
    /\ now < Stop
    /\ now' = now + 1
    /\ UNCHANGED <<ledger, settings, jobs, active, batch, feed>>

Next ==
    \/ \E n \in Requests, url \in ConsoleUrls, pick \in Names \cup {"none"} : Accept(n, url, pick)
    \/ \E n \in Requests, url \in ConsoleUrls : Serve(n, url)
    \/ \E n \in Requests : Execute(n) \/ FinishHit(n) \/ Finish(n)
    \/ \E saved \in Settings : ApplySettings(saved)
    \/ Restart
    \/ \E command \in Commands : StartBatch(command)
    \/ NextUrl \/ BatchHit \/ BatchRecord \/ PrintTable
    \/ BuildFeed \/ Acknowledge \/ Discard
    \/ Tick

Spec == Init /\ [][Next]_vars

-----------------------------------------------------------------------------
\* Types; no row is from the future, and no cursor beyond the last row.
TypeOK ==
    /\ now \in Start..Stop
    /\ settings \in Switches
    /\ \A i \in DOMAIN ledger :
         /\ ledger[i].provider \in Names /\ ledger[i].outcome \in {"ok", "failed", "not_domain"}
         /\ ledger[i].stamp <= now
    /\ batch.pc \in {"idle", "next", "scraping", "finished", "raised"}
    /\ batch.done \in 0..Len(batch.list)
    /\ feed.pc \in {"idle", "built"}
    /\ feed.cursor \in 0..Len(ledger) /\ feed.delivered \subseteq DOMAIN ledger

\* The console lists exactly the runs it started whose task has not ended, whatever order
\* answers, restarts and changes of the settings come in.
ListsItsRuns == active = {n \in Requests : jobs[n].listed}

\* The route holds every provider of the gateway the job runs on, once, and its decision
\* names the one it begins with, none if the gateway is empty, or a probe for a provider
\* that the gateway lacks.  The decision calls itself the operator's preference exactly if
\* that gateway has what the operator picked, which was checked against another one, and
\* names it then.
DecisionNamesHead ==
    \A j \in Jobs : jobs[j].pc = "calling" =>
        LET route == jobs[j].route IN
        /\ IsInjective(route.order) /\ Range(route.order) = jobs[j].gateway
        /\ \/ route.order # <<>> /\ route.provider = route.order[1]
           \/ route.order = <<>> /\ route.provider = "none"
           \/ route.kind = "recovery_probe" /\ route.provider \notin jobs[j].gateway
        /\ route.kind = "request_preference" <=> jobs[j].pick \in jobs[j].gateway
        /\ jobs[j].pick \in jobs[j].gateway => route.provider = jobs[j].pick

\* docs/configuration.md:85 lets a cheaper provider move ahead "without recent usable
\* evidence": when an exploration is recorded, no row its planning had found speaks of the
\* provider within the interval, whichever run or process wrote that row and however many
\* were written while it was away.  The sentence also says "Once per 24 hours, one": that is
\* no promise of the code's, which explores again what left no usable evidence, and every
\* cheaper provider in its turn.
EvidenceEndsExploration ==
    \A i, j \in DOMAIN ledger :
        /\ ledger[j].explored
        /\ ledger[i].provider = ledger[j].provider /\ ledger[i].domain = ledger[j].domain
        /\ ledger[i].outcome # "not_domain"
        /\ ledger[i].stamp \in (ledger[j].stamp - Interval)..ledger[j].stamp
        => ledger[j].seen < i

\* Every report and every batch of the feed groups rows by run id: those of one id are one
\* block of one target, written at one time and numbered from 1, although a batch uses one
\* id for all its URLs.
RunIsOneBlock == WholeRuns(ledger)

\* The receiver has got every exportable row up to its cursor, and nothing else, whatever
\* was discarded and whatever was written meanwhile.
FeedDelivers ==
    feed.delivered = {i \in 1..feed.cursor : ledger[i].url \in Public}

\* cli.py:1171: "Scrapes each URL through the gateway and shows a summary table."
BatchScrapesEveryUrl == batch.pc # "raised"

=============================================================================
