------------------------------ MODULE Adapters ------------------------------
(***************************************************************************)
(* Calls of `provider.scrape` on the adapters other than ScrapeDrive, each *)
(* from the router's `await` to its result, exception or cancellation.     *)
(* Verdicts says what an adapter makes of a reply; here is the order of    *)
(* its awaits, what it holds between them (a browser, a worker process, a  *)
(* thread, a page in somebody else's browser) and what it lets go.         *)
(*                                                                         *)
(* Adapters keep nothing between calls and share nothing, except Helium,   *)
(* whose library has one current driver per process: only there do two     *)
(* calls meet.                                                             *)
(***************************************************************************)
EXTENDS Verdicts

CONSTANTS
    Calls, First,  \* concurrent calls; only Helium's use more than First
    PageStatuses,  \* bound: what a target may answer
    ApiStatuses,   \* bound: what an API may answer for itself, in HTTP's range
    Costs,         \* bound: prices an API may report, and Unreported
    Allowances     \* bound: what the router may have left of a ceiling

None == "none"

ASSUME AdaptersAssumption ==
    /\ First \in Calls /\ None \notin Calls
    /\ PageStatuses \subseteq Nat \ {0} /\ ApiStatuses \subseteq 100..599
    /\ Costs \subseteq Nat /\ Allowances \subseteq Nat

VARIABLES
    adapter, \* which adapter the call is of, or "none"
    request, \* what was asked of it, and the process's proxy setting
    pc,      \* where in scrape() the call is
    first,   \* the reply a second request follows up
    held,    \* what runs on the call's behalf
    bound,   \* Helium: the call whose browser get_driver returned
    driver,  \* Helium: the call whose browser is the library's current one
    awaited, \* Helium: the call has not been cancelled, which its thread never learns
    alone,   \* history: no other Helium session ran at the same time
    billed,  \* history: the price an API reported for the call
    result   \* the ScrapeResult, and whose page is in it

vars == <<adapter, request, pc, first, held, bound, driver, awaited, alone, billed, result>>
session == <<bound, driver, awaited, alone>>
fixed == <<adapter, request>>

Free == {"raw_http", "wreq", "curl_cffi", "jina_reader", "crawl4ai"}
Paid == {"spider_cloud", "firecrawl", "scrape_do", "scrapfly", "scrapingant", "zenrows",
         "scrapingbee", "scraperapi", "oxylabs", "brightdata", "browserless"}
Threaded == {"requests", "botasaurus", "scrapling", "spider_rs"}
Fetchers == Free \cup Paid \cup Threaded \cup {"scrapy"}
Browsers == {"playwright", "patchright", "camoufox", "pydoll", "nodriver", "seleniumbase",
             "crawlee", "cdp", "helium"}
AdapterNames == Fetchers \cup Browsers

Keyed == (Paid \cup {"crawl4ai", "cdp"})
Libraries == {"wreq", "curl_cffi", "requests", "botasaurus", "scrapling", "spider_rs"}
ProxyUsers == {"raw_http", "wreq", "curl_cffi", "browserless"}

-----------------------------------------------------------------------------
(* Capabilities and forecasts *)

RendersJs == AdapterNames \ {"raw_http", "wreq", "curl_cffi", "requests", "botasaurus", "scrapy", "spider_rs"}
Premium == {"spider_cloud", "firecrawl", "scrape_do", "scrapfly", "scrapingant", "zenrows", "scrapingbee",
            "scraperapi", "oxylabs", "brightdata", "scrapling", "botasaurus", "patchright", "camoufox",
            "nodriver", "seleniumbase"}
Screenshots == {"crawl4ai", "firecrawl", "scraperapi", "oxylabs", "brightdata", "browserless"} \cup Browsers
CountryAware == {"firecrawl", "scrape_do", "scrapfly", "scrapingant", "zenrows", "scrapingbee", "scraperapi", "oxylabs"}

CanHandle(a, q) ==
    /\ q.render_js => a \in RendersJs
    /\ q.premium => a \in Premium
    /\ q.screenshot => a \in Screenshots
    /\ q.country => a \in CountryAware

\* estimated_cost_units; an engine that sets neither a price nor is_free is unpriced.
EstimatedCostUnits(a, q) ==
    CASE a = "spider_cloud" -> SpiderCloudUnits(q)
      [] a = "firecrawl" -> FirecrawlUnits(q)
      [] a = "scrape_do" -> ScrapeDoUnits(q)
      [] a = "scrapfly" -> ScrapflyUnits(q)
      [] a = "scrapingant" -> ScrapingAntUnits(q)
      [] a = "zenrows" -> ZenRowsUnits(q)
      [] a = "scrapingbee" -> ScrapingBeeUnits(q)
      [] a = "scraperapi" -> ScraperApiUnits(q)
      [] a = "oxylabs" -> OxylabsUnits(q)
      [] a = "brightdata" -> BrightDataUnits(q)
      [] a = "browserless" -> BrowserlessUnits(q)
      [] a \in Free -> 0
      [] OTHER -> Unpriced

\* The router lends its TLD country to the call after it read the forecast.
Lent(a, q) == [q EXCEPT !.country = q.country \/ (q.hinted /\ a \in CountryAware)]

Verdict(a, q, r, d) ==
    CASE a = "raw_http" -> RawHttp(q, r)
      [] a = "wreq" -> Wreq(q, r)
      [] a = "curl_cffi" -> CurlCffi(q, r)
      [] a = "jina_reader" -> JinaReader(q, r)
      [] a = "crawl4ai" -> Crawl4Ai(q, r)
      [] a = "spider_cloud" -> SpiderCloud(q, r)
      [] a = "firecrawl" -> Firecrawl(q, r, d)
      [] a = "scrape_do" -> ScrapeDo(q, r)
      [] a = "scrapfly" -> Scrapfly(q, r, d)
      [] a = "scrapingant" -> ScrapingAnt(q, r)
      [] a = "zenrows" -> ZenRows(q, r)
      [] a = "scrapingbee" -> ScrapingBee(q, r)
      [] a = "scraperapi" -> ScraperApi(q, r)
      [] a = "oxylabs" -> Oxylabs(q, r)
      [] a = "brightdata" -> BrightData(q, r)
      [] a = "browserless" -> Browserless(q, r)
      [] a = "requests" -> Requests(q, r)
      [] a = "botasaurus" -> Botasaurus(q, r)
      [] a = "scrapling" -> Scrapling(q, r)
      [] a = "scrapy" -> Scrapy(q, r)
      [] a = "spider_rs" -> SpiderRs(q, r)
      [] a = "playwright" -> Playwright(q, r)
      [] a = "patchright" -> Patchright(q, r)
      [] a = "camoufox" -> Camoufox(q, r)
      [] a = "pydoll" -> Pydoll(q, r)
      [] a = "nodriver" -> Nodriver(q, r)
      [] a = "seleniumbase" -> SeleniumBase(q, r)
      [] a = "crawlee" -> Crawlee(q, r)
      [] a = "cdp" -> Cdp(q, r)
      [] a = "helium" -> Helium(q, r)

-----------------------------------------------------------------------------
(* Replies: external, within the shape each service has *)

NoReply == [event |-> "none", http |-> 0, target |-> 0, body |-> "none",
            image |-> "none", declared |-> FALSE, cost |-> Unreported]

Exceptions == {[NoReply EXCEPT !.event = e] : e \in {"timeout", "proxy", "error"}}

Wrapping == {"crawl4ai", "spider_cloud", "firecrawl", "scrapfly", "scrapingant", "oxylabs"}

\* Scrapfly keeps to the cost_budget it is sent with an ASP call.
Answers(a, q) ==
    {r \in [event : {"reply"},
            http : IF a \in Wrapping \cup {"browserless"} THEN ApiStatuses ELSE PageStatuses,
            target : IF a \in Wrapping THEN PageStatuses \cup {0} ELSE {0},
            body : {"none", "thin", "page", "wall"} \cup (IF a \in Paid THEN {"denied"} ELSE {})
                     \cup (IF a = "browserless" THEN {"proxied"} ELSE {})
                     \cup (IF a = "scrapfly" THEN {"link"} ELSE {}),
            image : IF q.screenshot /\ a \in Fetchers
                    THEN {"none", "inline"} \cup (IF a = "firecrawl" THEN {"link"} ELSE {}) ELSE {"none"},
            declared : IF a \in {"crawl4ai", "firecrawl"} THEN BOOLEAN ELSE {TRUE},
            cost : IF a \in {"scrapfly", "scrapingant"} THEN Costs ELSE {Unreported}] :
        (a = "scrapfly" /\ q.premium /\ r.cost # Unreported) => r.cost <= EffectiveCostBudget(q)}

Replies(a, q) == Exceptions \cup Answers(a, q)

\* What a second request may end in: a picture, a large page, a page fetched anew.
Downloads(a, q) ==
    Exceptions \cup (IF a \in ProxyUsers THEN Answers(a, q)
                     ELSE [event : {"reply"}, http : ApiStatuses, target : {0},
                           body : {"none", "page", "wall", "denied"},
                           image : {"none", "inline"}, declared : {TRUE}, cost : {Unreported}])

NeedsSecond(a, q, r) ==
    \/ a \in {"raw_http", "wreq", "curl_cffi"} /\ RetriesWithoutProxy(q, Verdict(a, q, r, NoReply))
    \/ a = "browserless" /\ q.proxy /\ r.event = "reply" /\ IsProxyFailure(r)
    \/ a = "firecrawl" /\ q.screenshot /\ r.event = "reply" /\ r.image = "link"
    \/ a = "scrapfly" /\ r.event = "reply" /\ Is2xx(r.http) /\ r.body = "link"

Final(a, q, r, d) == IF a \in ProxyUsers THEN Verdict(a, q, d, NoReply) ELSE Verdict(a, q, r, d)

-----------------------------------------------------------------------------
(* What the router calls an adapter with: a request the adapter can handle *)
(* and whose forecast fits what is left of the ceiling.                    *)

Called(a) ==
    {q \in [render_js : BOOLEAN, premium : BOOLEAN, screenshot : BOOLEAN, country : BOOLEAN,
            hinted : BOOLEAN, capped : BOOLEAN, allowance : Allowances, proxy : BOOLEAN] :
        /\ CanHandle(a, q)
        /\ q.hinted => ~q.country /\ a \in CountryAware
        /\ q.proxy => a \in ProxyUsers
        /\ IF q.capped THEN EstimatedCostUnits(a, q) <= q.allowance ELSE q.allowance = 0}

NoRequest == [render_js |-> FALSE, premium |-> FALSE, screenshot |-> FALSE, country |-> FALSE,
              hinted |-> FALSE, capped |-> FALSE, allowance |-> 0, proxy |-> FALSE]

NoResult == Failed("pending")

Phases == {"idle", "called", "waiting", "following", "starting", "open", "shooting", "closing",
           "answered", "raised", "cancelled"}

TypeOK ==
    /\ adapter \in [Calls -> AdapterNames \cup {None}]
    /\ pc \in [Calls -> Phases]
    /\ held \in [Calls -> SUBSET {"browser", "page", "worker", "thread"}]
    /\ bound \in [Calls -> Calls \cup {None}]
    /\ driver \in Calls \cup {None}
    /\ awaited \in [Calls -> BOOLEAN]
    /\ alone \in [Calls -> BOOLEAN]
    /\ \A c \in Calls : pc[c] = "following" <=> first[c] # NoReply

Init ==
    /\ \E a \in AdapterNames : adapter =
           [c \in Calls |-> IF c = First \/ a = "helium" THEN a ELSE None]
    /\ request \in [Calls -> Called(adapter[First]) \cup {NoRequest}]
    /\ request[First] \in Called(adapter[First])
    /\ \A c \in Calls \ {First} : request[c] = NoRequest
    /\ pc = [c \in Calls |-> IF adapter[c] = None THEN "idle" ELSE "called"]
    /\ first = [c \in Calls |-> NoReply]
    /\ held = [c \in Calls |-> {}]
    /\ bound = [c \in Calls |-> None]
    /\ driver = None
    /\ awaited = [c \in Calls |-> TRUE]
    /\ alone = [c \in Calls |-> TRUE]
    /\ billed = [c \in Calls |-> 0]
    /\ result = [c \in Calls |-> NoResult]

Return(c, outcome) ==
    /\ pc' = [pc EXCEPT ![c] = "answered"]
    /\ result' = [result EXCEPT ![c] = outcome]

At(c, phase) == pc[c] = phase
Go(c, phase) == pc' = [pc EXCEPT ![c] = phase]
Hold(c, things) == held' = [held EXCEPT ![c] = things]

\* availability_error: the key, endpoint or zone is not set.
Unavailable(c) ==
    /\ At(c, "called") /\ adapter[c] \in Keyed
    /\ Return(c, Failed("provider_unavailable"))
    /\ UNCHANGED <<fixed, billed, first, held, session>>

\* The library is not installed, or it fails before any work of its own.
MissingLibrary(c) ==
    /\ At(c, "called") /\ adapter[c] \in Libraries \cup Browsers
    /\ Return(c, Failed("provider_error"))
    /\ UNCHANGED <<fixed, billed, first, held, session>>

-----------------------------------------------------------------------------
(* Fetchers: one awaited request, sometimes a second *)

Submit(c) ==
    /\ At(c, "called") /\ adapter[c] \in Fetchers
    /\ Go(c, "waiting")
    /\ Hold(c, CASE adapter[c] \in Threaded -> {"thread"}
                 [] adapter[c] = "scrapy" -> {"worker"}
                 [] OTHER -> {})
    /\ UNCHANGED <<fixed, billed, first, result, session>>

Asked(c) == Lent(adapter[c], request[c])

\* A worker is killed and reaped; a thread nobody can stop: wait_for gives it up.
LeftRunning(c, r) ==
    IF adapter[c] = "spider_rs" /\ r.event = "timeout" THEN held[c] ELSE {}

Reply(c) ==
    /\ At(c, "waiting")
    /\ \E r \in Replies(adapter[c], Asked(c)) :
        /\ IF NeedsSecond(adapter[c], Asked(c), r)
           THEN /\ Go(c, "following")
                /\ first' = [first EXCEPT ![c] = r]
                /\ UNCHANGED <<held, result>>
           ELSE /\ Return(c, Verdict(adapter[c], Asked(c), r, NoReply))
                /\ Hold(c, LeftRunning(c, r))
                /\ UNCHANGED first
        /\ billed' = [billed EXCEPT ![c] = IF r.cost = Unreported THEN 0 ELSE r.cost]
    /\ UNCHANGED <<fixed, session>>

\* The first answer is kept.
BadFollowUp(c) ==
    /\ At(c, "following")
    /\ \E d \in Downloads(adapter[c], Asked(c)) :
        Return(c, Final(adapter[c], Asked(c), first[c], d))
    /\ UNCHANGED <<fixed, billed, first, held, session>>

FollowUp(c) ==
    /\ At(c, "following")
    /\ \E d \in Downloads(adapter[c], Asked(c)) :
        Return(c, Final(adapter[c], Asked(c), first[c], d))
    /\ first' = [first EXCEPT ![c] = NoReply]
    /\ UNCHANGED <<fixed, billed, held, session>>

-----------------------------------------------------------------------------
(* Browsers: start, read the page, take the picture, close *)

\* Their browser is closed on every way out of scrape().
Contained == {"playwright", "patchright", "camoufox", "crawlee", "pydoll"}

Own(c) == IF adapter[c] = "cdp" THEN {"page"} ELSE {"browser"}

Launch(c) ==
    /\ At(c, "called") /\ adapter[c] \in Browsers \ {"helium"}
    /\ Go(c, "open")
    /\ Hold(c, Own(c))
    /\ UNCHANGED <<fixed, billed, first, result, session>>

\* Whoever started the browser that Helium's calls of c go to.
HasBrowser(c) == IF bound[c] = None THEN FALSE ELSE "browser" \in held[bound[c]]

\* Crawlee's handler raises or times out inside the crawler, which the adapter
\* learns of by the missing html.
ReadPage(c) ==
    /\ At(c, "open")
    /\ adapter[c] = "helium" => HasBrowser(c)
    /\ \E r \in Replies(adapter[c], Asked(c)) :
        /\ result' = [result EXCEPT ![c] = Verdict(adapter[c], Asked(c), r, NoReply)]
        /\ Go(c, IF r.event = "reply" /\ Asked(c).screenshot THEN "shooting" ELSE "closing")
    /\ UNCHANGED <<fixed, billed, first, held, session>>

\* Pydoll accepts an empty picture; Crawlee has the html already.
SparesShot(c) == adapter[c] \in {"pydoll", "crawlee"}

Shoot(c) ==
    /\ At(c, "shooting")
    /\ adapter[c] = "helium" => HasBrowser(c)
    /\ \/ result' = [result EXCEPT ![c].shot = TRUE]
       \/ SparesShot(c) /\ UNCHANGED result
       \/ adapter[c] # "crawlee" /\ result' = [result EXCEPT ![c] = Verdict(adapter[c], Asked(c),
                                                   [NoReply EXCEPT !.event = "error"], NoReply)]
    /\ Go(c, "closing")
    /\ UNCHANGED <<fixed, billed, first, held, session>>

Ended(c) == IF result[c] = NoResult THEN "cancelled" ELSE "answered"

\* A page in a remote browser is closed by the handler only after Playwright
\* itself has stopped, when it may be too late.
Released(c) ==
    IF adapter[c] = "cdp" /\ result[c].status = 0 THEN held[c] ELSE {}

Close(c) ==
    /\ At(c, "closing") /\ adapter[c] # "helium"
    /\ \E left \in {{}, Released(c)} : Hold(c, left)
    /\ Go(c, Ended(c))
    /\ UNCHANGED <<fixed, billed, first, result, session>>

\* A close inside the try costs the page; one in a finally, or in the handler,
\* leaves scrape() as an exception.
CloseFails(c) ==
    /\ At(c, "closing") /\ result[c] # NoResult
    /\ \/ /\ adapter[c] \in {"playwright", "patchright", "camoufox", "cdp"}
          /\ Return(c, Failed("provider_error"))
          /\ \E left \in {{}, IF adapter[c] = "cdp" THEN held[c] ELSE {}} : Hold(c, left)
       \/ /\ adapter[c] \in {"pydoll", "nodriver", "seleniumbase", "cdp"}
          /\ Go(c, "raised")
          /\ UNCHANGED <<held, result>>
    /\ UNCHANGED <<fixed, billed, first, session>>

-----------------------------------------------------------------------------
(* Helium: start_chrome, get_driver and kill_browser act on one current    *)
(* driver per process; the session runs in a thread                        *)

Running(c) == adapter[c] = "helium" /\ "thread" \in held[c]

Raises(c) == \E r \in Exceptions : result' = [result EXCEPT ![c] = Helium(request[c], r)]

\* start_chrome makes its browser the current one, or raises before it could.
StartChrome(c) ==
    /\ At(c, "called") /\ adapter[c] = "helium"
    /\ \/ Go(c, "starting") /\ Hold(c, {"thread", "browser"}) /\ driver' = c /\ UNCHANGED result
       \/ Go(c, "closing") /\ Hold(c, {"thread"}) /\ Raises(c) /\ UNCHANGED driver
    /\ alone' = [e \in Calls |-> alone[e] /\ (e # c => ~Running(e))
                                          /\ (e = c => \A o \in Calls : ~Running(o))]
    /\ UNCHANGED <<fixed, billed, first, bound, awaited>>

\* start_chrome stands before the try: nobody kills the browser it started.
BadStartFails(c) ==
    /\ At(c, "starting") /\ adapter[c] = "helium"
    /\ Go(c, IF awaited[c] THEN "answered" ELSE "cancelled")
    /\ Hold(c, held[c] \ {"thread"})
    /\ Raises(c)
    /\ UNCHANGED <<fixed, billed, first, session>>

\* start_chrome raises while its browser loads the page: on to the finally.
StartFails(c) ==
    /\ At(c, "starting") /\ adapter[c] = "helium"
    /\ Go(c, "closing")
    /\ Raises(c)
    /\ UNCHANGED <<fixed, billed, first, held, session>>

GetDriver(c) ==
    /\ At(c, "starting") /\ adapter[c] = "helium"
    /\ bound' = [bound EXCEPT ![c] = driver]
    /\ Go(c, "open")
    /\ UNCHANGED <<fixed, billed, first, held, driver, awaited, alone, result>>

\* Somebody else's kill_browser took the browser away.
LosesBrowser(c) ==
    /\ pc[c] \in {"open", "shooting"} /\ adapter[c] = "helium"
    /\ ~HasBrowser(c)
    /\ result' = [result EXCEPT ![c] = Helium(request[c], [NoReply EXCEPT !.event = "error"])]
    /\ Go(c, "closing")
    /\ UNCHANGED <<fixed, billed, first, held, session>>

\* The finally takes whichever browser is the current one; without one it raises.  To a
\* call that was cancelled none of this makes a difference.
KillBrowser(c) ==
    /\ At(c, "closing") /\ adapter[c] = "helium"
    /\ held' = [e \in Calls |-> held[e] \ ((IF e = driver THEN {"browser"} ELSE {})
                                             \cup (IF e = c THEN {"thread"} ELSE {}))]
    /\ driver' = None
    /\ Go(c, IF awaited[c] THEN "answered" ELSE "cancelled")
    /\ result' = IF driver = None THEN [result EXCEPT ![c] = Failed("provider_error")] ELSE result
    /\ UNCHANGED <<fixed, billed, first, bound, awaited, alone>>

-----------------------------------------------------------------------------
(* Cancellation at an await is no Exception: only finally blocks and       *)
(* context managers run                                                    *)

\* A browser that was started with `await start()` is not in a variable yet; a thread
\* that has not begun never does.
CancelLaunch(c) ==
    /\ At(c, "called") /\ adapter[c] \in Browsers
    /\ \E left \in {{}, IF adapter[c] \in {"nodriver", "seleniumbase", "cdp"} THEN Own(c) ELSE {}} :
           Hold(c, left)
    /\ Go(c, "cancelled")
    /\ UNCHANGED <<fixed, billed, first, result, session>>

Cancel(c) ==
    /\ pc[c] \in {"waiting", "following", "open", "shooting"} /\ adapter[c] # "helium"
    /\ Go(c, IF adapter[c] \in Browsers \ {"cdp"} THEN "closing" ELSE "cancelled")
    /\ first' = [first EXCEPT ![c] = NoReply]
    /\ result' = [result EXCEPT ![c] = NoResult]
    /\ UNCHANGED <<fixed, billed, held, session>>

\* `await asyncio.to_thread(_run_session, request)` ends, the session does not.
CancelSession(c) ==
    /\ pc[c] \in {"starting", "open", "shooting", "closing"} /\ adapter[c] = "helium"
    /\ awaited[c]
    /\ awaited' = [awaited EXCEPT ![c] = FALSE]
    /\ UNCHANGED <<fixed, billed, pc, first, held, bound, driver, alone, result>>

\* The thread that was given up answers the call after all.
BadRunsOut(c) ==
    /\ pc[c] \in {"answered", "cancelled"}
    /\ held[c] \in {{"thread"}, {"worker"}}
    /\ Hold(c, {})
    /\ \E r \in Answers(adapter[c], Asked(c)) :
        Return(c, Verdict(adapter[c], Asked(c), r, NoReply))
    /\ UNCHANGED <<fixed, billed, first, session>>

\* A thread or worker that was given up runs to its own end.
RunsOut(c) ==
    /\ pc[c] \in {"answered", "cancelled"}
    /\ held[c] \in {{"thread"}, {"worker"}}
    /\ Hold(c, {})
    /\ UNCHANGED <<fixed, billed, pc, first, result, session>>

Step(c) ==
    \/ Unavailable(c) \/ MissingLibrary(c) \/ Submit(c) \/ Reply(c) \/ FollowUp(c)
    \/ Launch(c) \/ ReadPage(c) \/ Shoot(c) \/ Close(c) \/ CloseFails(c)
    \/ StartChrome(c) \/ StartFails(c) \/ GetDriver(c) \/ LosesBrowser(c) \/ KillBrowser(c)
    \/ CancelLaunch(c) \/ Cancel(c) \/ CancelSession(c) \/ RunsOut(c)

Next == \E c \in Calls : Step(c)

Spec == Init /\ [][Next]_vars

-----------------------------------------------------------------------------
Answered(c) == pc[c] = "answered"

\* What an adapter lets go of when its call ends.  A browser in a context manager, or
\* closed in a finally that every way out passes, is gone after an answer and after a
\* cancellation; so are the browser and the thread of a Helium session that met no other
\* one, whatever sessions before it were cancelled, failed to start or overlapped.  A
\* worker or thread is gone after an answer, unless spider_rs gave its thread up.  And
\* whatever overlapping sessions do to each other, the library's current browser is a
\* live one of a session still running: none is handed what an ended one left behind.
NothingLeftBehind ==
    /\ \A c \in Calls :
        /\ /\ pc[c] \in {"answered", "cancelled"}
           /\ adapter[c] \in Contained \/ (adapter[c] = "helium" /\ alone[c])
           => held[c] = {}
        /\ Answered(c) /\ adapter[c] \in Threaded \cup {"scrapy", "nodriver", "seleniumbase"} =>
               held[c] = {} \/ (adapter[c] = "spider_rs" /\ result[c].reason = "timeout")
    /\ driver # None => Running(driver) /\ "browser" \in held[driver]

\* A success carries no failure reason, a page with content or a picture, the
\* picture if one was asked for (Pydoll and Crawlee may do without), and the
\* caller's own page unless two Helium sessions overlapped.  An error status is
\* accepted only where an API reports the page's apart, and only one that is no
\* refusal (404), except behind a picture of Oxylabs.
SuccessIsUsable ==
    \A c \in Calls : Answered(c) /\ result[c].ok =>
        /\ result[c].reason = "none"
        /\ result[c].html \in {"none", "thin", "wall"} => result[c].shot
        /\ request[c].screenshot => result[c].shot \/ SparesShot(c)
        /\ result[c].status >= 400 =>
               /\ adapter[c] \in Wrapping
               /\ \/ ClassifyProviderFailure(result[c].status, "page") = "none"
                  \/ adapter[c] = "oxylabs" /\ result[c].shot
        /\ adapter[c] = "helium" /\ alone[c] => bound[c] = c

\* What an adapter prices itself, whichever reply, exception or second request its call
\* ends with, is within its own forecast for the request it was called with; and within
\* what the router had left, if that is the request the router took the forecast of.
BookedWithinForecast ==
    \A c \in Calls : Answered(c) /\ ~result[c].exact =>
        /\ result[c].cost <= EstimatedCostUnits(adapter[c], Asked(c))
        /\ request[c].capped /\ Asked(c) = request[c] => result[c].cost <= request[c].allowance

\* provider.py:84: "Return a conservative upper bound for the next provider call", and the
\* ceiling of docs/configuration.md:102 rests on it.  The router takes the forecast before
\* it lends the call a country.
ForecastIsUpperBound ==
    \A c \in Calls : Answered(c) /\ request[c].capped =>
        result[c].cost <= EstimatedCostUnits(adapter[c], request[c])

\* What a service reported as its price is booked in a row of its own, however
\* the call then ends, and an ASP call of Scrapfly stays under the ceiling.
ReportedPriceBooked ==
    \A c \in Calls : Answered(c) /\ billed[c] # 0 =>
        /\ result[c].row /\ result[c].exact /\ result[c].cost = billed[c]
        /\ adapter[c] = "scrapfly" /\ request[c].premium /\ request[c].capped =>
               result[c].cost <= request[c].allowance

Contract(c) == INSTANCE AdapterCall WITH
    state <- CASE pc[c] = "answered" -> "answered"
               [] pc[c] \in {"raised", "cancelled"} \/ ~awaited[c] -> "raised"
               [] OTHER -> "calling",
    rows <- IF pc[c] = "answered" THEN <<result[c].ok>> ELSE <<>>

\* Every call keeps the contract the router relies on, but for its ending: it is answered,
\* or leaves as an exception, once, and no answer to another call, no late end of a thread
\* or worker and no cleanup takes the verdict back.
KeepsContract ==
    /\ \A c \in Calls : Contract(c)!Init
    /\ [][\A c \in Calls : [Contract(c)!Next]_(Contract(c)!vars)]_vars

=============================================================================
