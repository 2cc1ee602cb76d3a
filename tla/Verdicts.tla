------------------------------ MODULE Verdicts ------------------------------
(***************************************************************************)
(* What each provider adapter forecasts for a call, and the ScrapeResult   *)
(* it makes of what came back: the functions of providers/*.py (ScrapeDrive *)
(* has a module of its own) and of the browser and HTTP extensions.        *)
(*                                                                         *)
(* A reply `r` is what one request of the adapter ended in.  `event` is    *)
(* "reply" or the exception's kind ("timeout", "proxy", "error"); `http`   *)
(* the status of the answer; `target` the page's status where an API       *)
(* reports it apart (0: not); `body` the class of the content, or of the   *)
(* answer's text when it is an error; `image` whether a picture came with  *)
(* it or a link to one; `declared` the API's own success flag; `cost` the  *)
(* price it reports, or Unreported.                                        *)
(***************************************************************************)
EXTENDS Naturals

Unpriced == 1000000   \* math.inf: no ceiling admits it
Unreported == 1000000 \* no usable cost in the answer

Bodies == {"none", "thin", "page", "wall", "denied", "proxied", "link"}

Is2xx(status) == status \in 200..299
IsBelow400(status) == status \in 200..399

\* No status is 0.
RecordableStatus(status) == status = 0 \/ status \in 100..599

-----------------------------------------------------------------------------
(* errors.py *)

\* A wall is what find_block_signature recognises.
ClassifyFailure(status, body) ==
    CASE status = 407 -> "proxy_error"
      [] status = 403 -> "http_403"
      [] status = 429 -> "http_429"
      [] status >= 500 -> "http_5xx"
      [] OTHER -> CASE body \in {"none", "thin"} -> "empty_content"
                    [] body = "wall" -> "blocked"
                    [] OTHER -> "none"

\* The provider's own refusal, told by a 401 or by its words.
ClassifyProviderFailure(status, body) ==
    IF status = 401 \/ body = "denied" THEN "provider_unavailable"
    ELSE ClassifyFailure(status, body)

ClassifyException(event) ==
    CASE event = "timeout" -> "timeout"
      [] event = "proxy" -> "proxy_error"
      [] OTHER -> "unknown"

-----------------------------------------------------------------------------
(* Results.  `row` says that the adapter brings a ledger row of its own,   *)
(* `exact` that its cost is the one the service reported.                  *)

Answer(ok, reason, html, shot, status, cost) ==
    [ok |-> ok, reason |-> reason, html |-> html, shot |-> shot, status |-> status,
     cost |-> cost, exact |-> FALSE, row |-> FALSE]

Failed(reason) == Answer(FALSE, reason, "none", FALSE, 0, 0)

\* except TimeoutException: timeout; except Exception: provider_error.
ApiRaised(event) == Failed(IF event = "timeout" THEN "timeout" ELSE "provider_error")

\* classify_exception, with unknown reported as the provider's error.
EngineRaised(event) ==
    Failed(IF ClassifyException(event) = "unknown" THEN "provider_error"
           ELSE ClassifyException(event))

\* The page's status where the API reports it, else the API's own.
Target(r) == IF r.target = 0 THEN r.http ELSE r.target

-----------------------------------------------------------------------------
(* Free HTTP clients *)

Fetched(r, statusOk, raised) ==
    IF r.event # "reply" THEN raised
    ELSE LET reason == ClassifyFailure(r.http, r.body)
         IN Answer(statusOk /\ reason = "none", reason, r.body, FALSE, r.http, 0)

RawExcept(event) == Failed(ClassifyException(event))

RawHttp(q, r) == Fetched(r, Is2xx(r.http), RawExcept(r.event))
Wreq(q, r) == Fetched(r, Is2xx(r.http), RawExcept(r.event))
CurlCffi(q, r) == Fetched(r, IsBelow400(r.http), RawExcept(r.event))
JinaReader(q, r) == Fetched(r, Is2xx(r.http), ApiRaised(r.event))

\* A proxy failure is retried once without the proxy; what that ends in counts.
RetriesWithoutProxy(q, result) == q.proxy /\ result.reason = "proxy_error"

-----------------------------------------------------------------------------
(* APIs that answer with the page itself *)

PlainApi(q, r, cost) ==
    IF r.event # "reply" THEN ApiRaised(r.event)
    ELSE LET reason == ClassifyProviderFailure(r.http, r.body)
         IN Answer(Is2xx(r.http) /\ reason = "none", reason, r.body, FALSE, r.http, cost)

ScrapeDoUnits(q) == IF q.premium THEN IF q.render_js THEN 25 ELSE 10 ELSE 1
ScrapeDo(q, r) == PlainApi(q, r, ScrapeDoUnits(q))

ScrapingBeeUnits(q) == IF q.premium THEN IF q.render_js THEN 25 ELSE 10 ELSE 1
ScrapingBee(q, r) == PlainApi(q, r, ScrapingBeeUnits(q))

\* A country costs what premium costs.
ZenRowsUnits(q) ==
    IF q.premium \/ q.country THEN IF q.render_js THEN 25 ELSE 10
    ELSE IF q.render_js THEN 5 ELSE 1
ZenRows(q, r) == PlainApi(q, r, ZenRowsUnits(q))

ScraperApiUnits(q) ==
    IF q.premium /\ q.render_js THEN 25 ELSE IF q.premium \/ q.render_js THEN 10 ELSE 1

\* With a screenshot the answer is the picture and there is no page.
ScraperApi(q, r) ==
    IF r.event # "reply" THEN ApiRaised(r.event)
    ELSE LET shot == q.screenshot /\ r.image = "inline"
             missing == q.screenshot /\ Is2xx(r.http) /\ ~shot
             reason == CASE missing -> "provider_error"
                         [] shot -> "none"
                         [] OTHER -> ClassifyProviderFailure(r.http, r.body)
         IN Answer(Is2xx(r.http) /\ reason = "none", reason,
                   IF shot THEN "none" ELSE r.body, shot, r.http, ScraperApiUnits(q))

BrightDataUnits(q) == IF q.screenshot THEN 10 ELSE 5

BrightData(q, r) ==
    IF r.event # "reply" THEN ApiRaised(r.event)
    ELSE LET shot == q.screenshot /\ r.image = "inline"
             reason == CASE shot -> "none"
                         [] q.screenshot /\ ~shot -> "provider_error"
                         [] OTHER -> ClassifyProviderFailure(r.http, r.body)
         IN Answer(Is2xx(r.http) /\ reason = "none", reason,
                   IF q.screenshot THEN "none" ELSE r.body, shot, r.http, BrightDataUnits(q))

-----------------------------------------------------------------------------
(* APIs that wrap the page in JSON *)

SpiderCloudUnits(q) == IF q.render_js \/ q.premium THEN 2 ELSE 1

SpiderCloud(q, r) ==
    IF r.event # "reply" THEN ApiRaised(r.event)
    ELSE LET reason == ClassifyProviderFailure(Target(r), r.body)
         IN Answer(Is2xx(r.http) /\ reason = "none", reason, r.body, FALSE, Target(r),
                   SpiderCloudUnits(q))

\* The picture is the content; the page's status is then not looked at.
OxylabsUnits(q) == IF q.screenshot \/ q.render_js THEN 10 ELSE 1

Oxylabs(q, r) ==
    IF r.event # "reply" THEN ApiRaised(r.event)
    ELSE LET shot == q.screenshot /\ r.image = "inline"
             html == IF q.screenshot THEN "none" ELSE r.body
             reason == IF shot THEN "none"
                       ELSE ClassifyProviderFailure(Target(r), IF Is2xx(r.http) THEN html ELSE r.body)
         IN Answer(Is2xx(r.http) /\ reason = "none", reason, html, shot, Target(r), OxylabsUnits(q))

\* A missing picture is an error message only.
BadCrawl4Ai(q, r) ==
    IF r.event # "reply" THEN ApiRaised(r.event)
    ELSE LET found == ClassifyProviderFailure(IF Is2xx(r.http) THEN Target(r) ELSE r.http, r.body)
             failure == IF (~Is2xx(r.http) \/ ~r.declared) /\ found \in {"none", "empty_content"}
                        THEN "provider_error" ELSE found
         IN Answer(failure = "none", failure, r.body, q.screenshot /\ r.image = "inline", Target(r), 0)

\* Self-hosted and free.
Crawl4Ai(q, r) ==
    IF r.event # "reply" THEN ApiRaised(r.event)
    ELSE LET shot == q.screenshot /\ r.image = "inline"
             found == ClassifyProviderFailure(IF Is2xx(r.http) THEN Target(r) ELSE r.http, r.body)
             failure == IF (~Is2xx(r.http) \/ ~r.declared) /\ found \in {"none", "empty_content"}
                        THEN "provider_error" ELSE found
             missing == q.screenshot /\ ~shot
         IN Answer(failure = "none" /\ ~missing,
                   IF missing /\ failure = "none" THEN "provider_error" ELSE failure,
                   r.body, shot, Target(r), 0)

FirecrawlUnits(q) == IF q.premium THEN 5 ELSE 1

\* `d` is how the download of a linked picture ended; an exception there
\* forgets the page and its price.
Firecrawl(q, r, d) ==
    LET linked == q.screenshot /\ r.event = "reply" /\ r.image = "link"
        shot == q.screenshot /\ (r.image = "inline" \/ (linked /\ Is2xx(d.http) /\ d.image = "inline"))
        failure == ClassifyProviderFailure(Target(r), r.body)
        missing == q.screenshot /\ ~shot
    IN CASE r.event # "reply" -> ApiRaised(r.event)
         [] linked /\ d.event # "reply" -> ApiRaised(d.event)
         [] OTHER -> Answer(Is2xx(r.http) /\ r.declared /\ failure = "none" /\ ~missing,
                            IF missing THEN "provider_error" ELSE failure,
                            r.body, shot, Target(r), FirecrawlUnits(q))

-----------------------------------------------------------------------------
(* APIs that report what they charged *)

Clamp(status, fallback) == IF status \in 100..599 THEN status ELSE fallback

Itemised(result, exact) == [result EXCEPT !.exact = exact, !.row = TRUE]

\* The configured budget, clipped to what the router left.
ScrapflyBudget == 25
EffectiveCostBudget(q) ==
    CASE ~q.capped -> ScrapflyBudget
      [] q.capped /\ q.allowance < 1 -> 1
      [] OTHER -> IF q.allowance < ScrapflyBudget THEN q.allowance ELSE ScrapflyBudget

ScrapflyUnits(q) == IF q.premium THEN EffectiveCostBudget(q) ELSE 1

\* Without a usable figure the whole budget is booked.
BadScrapflyReportedCost(r) == IF r.cost = Unreported THEN ScrapflyBudget ELSE r.cost

\* Without a usable figure a call is booked as one unit.
ScrapflyReportedCost(r) == IF r.cost = Unreported THEN 1 ELSE r.cost

\* A download that raises is reported like a request that raises.
BadScrapfly(q, r, d) ==
    LET status == IF Is2xx(r.http) THEN Clamp(r.target, r.http) ELSE r.http
        reason == ClassifyProviderFailure(status, r.body)
    IN CASE r.event # "reply" -> ApiRaised(r.event)
         [] r.body = "link" /\ d.event # "reply" -> ApiRaised(d.event)
         [] OTHER -> Itemised(Answer(Is2xx(r.http) /\ reason = "none", reason, r.body, FALSE, status,
                                     ScrapflyReportedCost(r)), r.cost # Unreported)

\* A large page comes as a link; once the first answer is in, its price is
\* booked however the download `d` ends.
Scrapfly(q, r, d) ==
    LET status == IF Is2xx(r.http) THEN Clamp(r.target, r.http) ELSE r.http
        large == r.event = "reply" /\ Is2xx(r.http) /\ r.body = "link"
        html == IF large THEN d.body ELSE r.body
        reason == ClassifyProviderFailure(status, html)
        refused == ClassifyProviderFailure(d.http, d.body)
        Booked(ok, why, page, code) ==
            Itemised(Answer(ok, why, page, FALSE, code, ScrapflyReportedCost(r)), r.cost # Unreported)
    IN CASE r.event # "reply" -> ApiRaised(r.event)
         [] large /\ d.event # "reply" -> Booked(FALSE, ApiRaised(d.event).reason, "none", status)
         [] large /\ d.event = "reply" /\ ~Is2xx(d.http) ->
                Booked(FALSE, IF refused = "none" THEN "provider_error" ELSE refused, "none", d.http)
         [] OTHER -> Booked(Is2xx(r.http) /\ reason = "none", reason, html, status)

ScrapingAntUnits(q) ==
    IF q.premium THEN IF q.render_js THEN 125 ELSE 25 ELSE IF q.render_js THEN 10 ELSE 1

ScrapingAntReportedCost(q, r) == IF r.cost = Unreported THEN ScrapingAntUnits(q) ELSE r.cost

\* 409 is the service's limit of concurrent calls.
ScrapingAnt(q, r) ==
    LET status == IF Is2xx(r.http) THEN Clamp(r.target, r.http) ELSE r.http
        found == IF r.http = 409 THEN "http_429" ELSE ClassifyProviderFailure(status, r.body)
        reason == IF ~Is2xx(r.http) /\ found = "none" THEN "provider_error" ELSE found
    IN IF r.event # "reply" THEN ApiRaised(r.event)
       ELSE Itemised(Answer(Is2xx(r.http) /\ reason = "none", reason, r.body, FALSE, status,
                            ScrapingAntReportedCost(q, r)), r.cost # Unreported)

-----------------------------------------------------------------------------
(* Browserless: /content, and /screenshot alongside it *)

BrowserlessUnits(q) == IF q.screenshot THEN 10 ELSE 5

IsProxyFailure(r) == ~Is2xx(r.http) /\ r.body = "proxied"

\* Both answers are awaited; `image` says how the second one ended.
Browserless(q, r) ==
    LET found == ClassifyProviderFailure(r.http, r.body)
        shot == q.screenshot /\ r.image = "inline"
        ok == Is2xx(r.http) /\ found = "none" /\ (q.screenshot => shot)
        reason == CASE found # "none" -> found
                    [] found = "none" /\ ok -> "none"
                    [] found = "none" /\ ~ok /\ q.screenshot -> "provider_error"
                    [] OTHER -> IF IsProxyFailure(r) THEN "proxy_error" ELSE "none"
    IN IF r.event # "reply" THEN ApiRaised(r.event)
       ELSE Answer(ok, reason, IF Is2xx(r.http) THEN r.body ELSE "none", shot, r.http,
                   BrowserlessUnits(q))

-----------------------------------------------------------------------------
(* Local engines that report the page's status *)

Requests(q, r) == Fetched(r, IsBelow400(r.http), EngineRaised(r.event))
Botasaurus(q, r) == Fetched(r, IsBelow400(r.http), EngineRaised(r.event))
Scrapling(q, r) == Fetched(r, IsBelow400(r.http), ApiRaised(r.event))
Scrapy(q, r) == Fetched(r, IsBelow400(r.http), EngineRaised(r.event))
Playwright(q, r) == Fetched(r, IsBelow400(r.http), EngineRaised(r.event))
Cdp(q, r) == Fetched(r, IsBelow400(r.http), EngineRaised(r.event))

(* Engines that hide it: whatever they could read counts as a 200 *)

Rendered(r, raised) == Fetched([r EXCEPT !.http = 200], TRUE, raised)

SpiderRs(q, r) == Rendered(r, ApiRaised(r.event))
Patchright(q, r) == Rendered(r, ApiRaised(r.event))
Camoufox(q, r) == Rendered(r, ApiRaised(r.event))
Pydoll(q, r) == Rendered(r, EngineRaised(r.event))
Nodriver(q, r) == Rendered(r, ApiRaised(r.event))
SeleniumBase(q, r) == Rendered(r, ApiRaised(r.event))
Crawlee(q, r) == Rendered(r, ApiRaised(r.event))
Helium(q, r) == Rendered(r, EngineRaised(r.event))

=============================================================================
