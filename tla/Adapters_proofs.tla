--------------------------- MODULE Adapters_proofs ---------------------------
(***************************************************************************)
(* Theorems about Adapters, for any number of calls, any statuses, prices  *)
(* and ceilings.                                                           *)
(*                                                                         *)
(* VerdictSound is about Verdicts alone: whatever an adapter was answered, *)
(* its result is usable when it says so, priced within the forecast and    *)
(* recordable. The inductive invariant carries that fact through the steps *)
(* of a call: CallInv says of each call by itself what its phase, what it  *)
(* holds, what it was billed and its result have to do with each other;    *)
(* SoloInv ties the library's driver, the only thing two calls share, to   *)
(* the session whose browser it is, and a session that ran alone to it.    *)
(***************************************************************************)
EXTENDS Adapters, TLAPS

-----------------------------------------------------------------------------
(* The shapes of requests, replies and results *)

Asks == [render_js : BOOLEAN, premium : BOOLEAN, screenshot : BOOLEAN, country : BOOLEAN,
             hinted : BOOLEAN, capped : BOOLEAN, allowance : Nat, proxy : BOOLEAN]

Events == {"none", "reply", "timeout", "proxy", "error"}

Shaped == [event : Events, http : Nat, target : Nat, body : Bodies,
           image : {"none", "inline", "link"}, declared : BOOLEAN, cost : Nat]

Classes == {"proxy_error", "http_403", "http_429", "http_5xx", "empty_content", "blocked", "none"}

Reasons == Classes \cup {"pending", "provider_unavailable", "provider_error", "timeout", "unknown"}

Results == [ok : BOOLEAN, reason : Reasons, html : Bodies, shot : BOOLEAN, status : Nat,
            cost : Nat, exact : BOOLEAN, row : BOOLEAN]

\* An answer is a result.
LEMMA AnswerType ==
    ASSUME NEW ok \in BOOLEAN, NEW reason \in Reasons, NEW html \in Bodies, NEW shot \in BOOLEAN,
           NEW status \in Nat, NEW cost \in Nat
    PROVE  Answer(ok, reason, html, shot, status, cost) \in Results
  BY DEF Answer, Results

\* Booking a result in a row changes nothing else of it.
LEMMA ItemisedType ==
    ASSUME NEW v \in Results, NEW exact \in BOOLEAN
    PROVE  /\ Itemised(v, exact) \in Results
           /\ Itemised(v, exact).exact = exact
           /\ Itemised(v, exact).row = TRUE
           /\ Itemised(v, exact).ok = v.ok
           /\ Itemised(v, exact).reason = v.reason
           /\ Itemised(v, exact).html = v.html
           /\ Itemised(v, exact).shot = v.shot
           /\ Itemised(v, exact).status = v.status
           /\ Itemised(v, exact).cost = v.cost
<1> DEFINE priced == [v EXCEPT !.exact = exact]
<1>1. /\ priced \in Results
      /\ priced.exact = exact
      /\ priced.ok = v.ok /\ priced.reason = v.reason /\ priced.html = v.html
      /\ priced.shot = v.shot /\ priced.status = v.status /\ priced.cost = v.cost
  BY DEF Results
<1>2. Itemised(v, exact) = [priced EXCEPT !.row = TRUE]
  BY DEF Itemised
<1> HIDE DEF priced
<1>3. QED
  BY <1>1, <1>2 DEF Results

\* Every failure is a result.
LEMMA FailedType ==
    ASSUME NEW reason \in Reasons
    PROVE  Failed(reason) \in Results
  BY AnswerType DEF Failed, Bodies, Reasons, Classes

\* The classifiers answer with a name.
LEMMA ClassifierType ==
    ASSUME NEW status \in Nat, NEW body \in Bodies
    PROVE  /\ ClassifyFailure(status, body) \in Classes
           /\ ClassifyProviderFailure(status, body) \in Classes \cup {"provider_unavailable"}
<1>1. ClassifyFailure(status, body) \in Classes
  BY DEF ClassifyFailure, Classes
<1>2. QED
  BY <1>1 DEF ClassifyProviderFailure

\* What either classifier lets pass is a page with content, and no refusal.
LEMMA Passes ==
    ASSUME NEW status \in Nat, NEW body \in Bodies
    PROVE  /\ ClassifyFailure(status, body) = "none" =>
                  body \notin {"none", "thin", "wall"} /\ status < 500
           /\ ClassifyProviderFailure(status, body) = "none" =>
                  /\ body \notin {"none", "thin", "wall"}
                  /\ ClassifyProviderFailure(status, "page") = "none"
  BY DEF ClassifyFailure, ClassifyProviderFailure

-----------------------------------------------------------------------------
(* What the verdict of an adapter promises *)

Usable(a, v) ==
    v.ok =>
        /\ v.reason = "none"
        /\ v.html \in {"none", "thin", "wall"} => v.shot
        /\ v.status >= 400 =>
               /\ a \in Wrapping
               /\ \/ ClassifyProviderFailure(v.status, "page") = "none"
                  \/ a = "oxylabs" /\ v.shot

Shown(a, q, v) == v.ok /\ q.screenshot => v.shot \/ a \in Browsers

Priced(a, q, v) == ~v.exact => v.cost <= EstimatedCostUnits(a, q)

Booked(r, v) == r.cost # Unreported /\ r.cost # 0 => v.row /\ v.exact /\ v.cost = r.cost

Recordable(v) == v.row => RecordableStatus(v.status)

Sound(a, q, r, v) ==
    /\ v \in Results
    /\ Usable(a, v)
    /\ Shown(a, q, v)
    /\ Priced(a, q, v)
    /\ Booked(r, v)
    /\ Recordable(v)
    /\ v.ok => r.event = "reply"

\* Any forecast is a number of units.
LEMMA UnitsType ==
    ASSUME NEW a, NEW q \in Asks
    PROVE  EstimatedCostUnits(a, q) \in Nat
<1>1. EffectiveCostBudget(q) \in Nat
  BY DEF EffectiveCostBudget, ScrapflyBudget, Asks
<1>2. QED
  BY <1>1 DEF EstimatedCostUnits, SpiderCloudUnits, FirecrawlUnits, ScrapeDoUnits, ScrapflyUnits,
              ScrapingAntUnits, ZenRowsUnits, ScrapingBeeUnits, ScraperApiUnits, OxylabsUnits,
              BrightDataUnits, BrowserlessUnits, Unpriced

\* A failure that costs nothing is sound whatever it was a reply to, unless a
\* price was reported.
LEMMA FailedSound ==
    ASSUME NEW a, NEW q \in Asks, NEW r \in Shaped, r.cost = Unreported, NEW reason \in Reasons
    PROVE  Sound(a, q, r, Failed(reason))
<1>1. Failed(reason) \in Results
  BY FailedType
<1>2. EstimatedCostUnits(a, q) \in Nat
  BY UnitsType
<1>3. /\ Failed(reason).ok = FALSE /\ Failed(reason).row = FALSE
      /\ Failed(reason).cost = 0
  BY DEF Failed, Answer
<1>4. QED
  BY <1>1, <1>2, <1>3 DEF Sound, Usable, Shown, Priced, Booked, Recordable

\* A plain answer is sound when its success is earned and its cost is forecast.
LEMMA AnswerSound ==
    ASSUME NEW a, NEW q \in Asks, NEW r \in Shaped, r.cost = Unreported,
           NEW ok \in BOOLEAN, NEW reason \in Reasons, NEW html \in Bodies, NEW shot \in BOOLEAN,
           NEW status \in Nat, NEW cost \in Nat,
           cost <= EstimatedCostUnits(a, q),
           ok => /\ reason = "none"
                 /\ html \in {"none", "thin", "wall"} => shot
                 /\ status >= 400 => /\ a \in Wrapping
                                     /\ \/ ClassifyProviderFailure(status, "page") = "none"
                                        \/ a = "oxylabs" /\ shot
                 /\ q.screenshot => shot \/ a \in Browsers
                 /\ r.event = "reply"
    PROVE  Sound(a, q, r, Answer(ok, reason, html, shot, status, cost))
<1> DEFINE v == Answer(ok, reason, html, shot, status, cost)
<1>1. v \in Results
  BY AnswerType
<1>2. /\ v.ok = ok /\ v.reason = reason /\ v.html = html /\ v.shot = shot /\ v.status = status
      /\ v.cost = cost /\ v.exact = FALSE /\ v.row = FALSE
  BY DEF Answer
<1> HIDE DEF v
<1>3. Sound(a, q, r, v)
  BY <1>1, <1>2 DEF Sound, Usable, Shown, Priced, Booked, Recordable
<1>4. QED
  BY <1>3 DEF v

-----------------------------------------------------------------------------
(* What a reply looks like *)

Follows == {"raw_http", "wreq", "curl_cffi", "browserless", "firecrawl", "scrapfly"}

\* The marker of an unreported price is a number.
LEMMA UnreportedType == Unreported \in Nat
  BY SMT DEF Unreported

\* A reply ended in an answer or in an exception; only two services report a
\* price, and one of them stays under the budget it was sent.
LEMMA ReplyShape ==
    ASSUME NEW a, NEW q \in Asks, NEW r \in Replies(a, q)
    PROVE  /\ r \in Shaped
           /\ r.event # "none"
           /\ r.event # "reply" => r.cost = Unreported
           /\ a \notin {"scrapfly", "scrapingant"} => r.cost = Unreported
           /\ r.event = "reply" /\ a \in Wrapping => r.http \in 100..599
           /\ a = "scrapfly" /\ q.premium /\ r.cost # Unreported => r.cost <= EffectiveCostBudget(q)
<1>1. CASE r \in Exceptions
  <2>1. PICK e \in {"timeout", "proxy", "error"} : r = [NoReply EXCEPT !.event = e]
    BY <1>1 DEF Exceptions
  <2>2. r = [event |-> e, http |-> 0, target |-> 0, body |-> "none",
             image |-> "none", declared |-> FALSE, cost |-> Unreported]
    BY <2>1 DEF NoReply
  <2>3. r \in Shaped
    BY <2>2, UnreportedType DEF Shaped, Events, Bodies
  <2>4. r.event = e /\ r.cost = Unreported
    BY <2>2
  <2>5. QED
    BY <2>3, <2>4
<1>2. CASE r \in Answers(a, q)
  <2>1. /\ r \in [event : {"reply"},
                  http : IF a \in Wrapping \cup {"browserless"} THEN ApiStatuses ELSE PageStatuses,
                  target : IF a \in Wrapping THEN PageStatuses \cup {0} ELSE {0},
                  body : {"none", "thin", "page", "wall"}
                           \cup (IF a \in Paid THEN {"denied"} ELSE {})
                           \cup (IF a = "browserless" THEN {"proxied"} ELSE {})
                           \cup (IF a = "scrapfly" THEN {"link"} ELSE {}),
                  image : IF q.screenshot /\ a \in Fetchers
                          THEN {"none", "inline"} \cup (IF a = "firecrawl" THEN {"link"} ELSE {})
                          ELSE {"none"},
                  declared : IF a \in {"crawl4ai", "firecrawl"} THEN BOOLEAN ELSE {TRUE},
                  cost : IF a \in {"scrapfly", "scrapingant"} THEN Costs ELSE {Unreported}]
        /\ (a = "scrapfly" /\ q.premium /\ r.cost # Unreported) => r.cost <= EffectiveCostBudget(q)
    BY <1>2 DEF Answers
  <2> DEFINE Https == IF a \in Wrapping \cup {"browserless"} THEN ApiStatuses ELSE PageStatuses
             Targets == IF a \in Wrapping THEN PageStatuses \cup {0} ELSE {0}
             Texts == {"none", "thin", "page", "wall"} \cup (IF a \in Paid THEN {"denied"} ELSE {})
                           \cup (IF a = "browserless" THEN {"proxied"} ELSE {})
                           \cup (IF a = "scrapfly" THEN {"link"} ELSE {})
             Images == IF q.screenshot /\ a \in Fetchers
                       THEN {"none", "inline"} \cup (IF a = "firecrawl" THEN {"link"} ELSE {})
                       ELSE {"none"}
             Flags == IF a \in {"crawl4ai", "firecrawl"} THEN BOOLEAN ELSE {TRUE}
             Prices == IF a \in {"scrapfly", "scrapingant"} THEN Costs ELSE {Unreported}
  <2>2. Https \subseteq Nat /\ Targets \subseteq Nat /\ Texts \subseteq Bodies
    BY AdaptersAssumption DEF Bodies
  <2>3. Images \subseteq {"none", "inline", "link"} /\ Flags \subseteq BOOLEAN
    OBVIOUS
  <2>4. Prices \subseteq Nat /\ (a \notin {"scrapfly", "scrapingant"} => Prices = {Unreported})
    BY AdaptersAssumption, UnreportedType
  <2>5. a \in Wrapping => Https \subseteq 100..599
    BY AdaptersAssumption
  <2>6. r \in [event : {"reply"}, http : Https, target : Targets, body : Texts, image : Images,
               declared : Flags, cost : Prices]
    BY <2>1
  <2> HIDE DEF Https, Targets, Texts, Images, Flags, Prices
  <2>7. r \in Shaped
    BY <2>2, <2>3, <2>4, <2>6 DEF Shaped, Events
  <2>8. r.event = "reply" /\ r.http \in Https /\ r.cost \in Prices
    BY <2>6
  <2>9. QED
    BY <2>1, <2>4, <2>5, <2>7, <2>8
<1>3. QED
  BY <1>1, <1>2 DEF Replies

\* A second request ends in one of the shapes a first one does; a large page
\* comes with a status in HTTP's range.
LEMMA DownloadShape ==
    ASSUME NEW a, NEW q \in Asks, NEW d \in Downloads(a, q) \cup {NoReply}
    PROVE  /\ d \in Shaped
           /\ d.event = "reply" /\ a \notin ProxyUsers => d.http \in 100..599
           /\ a \in ProxyUsers /\ d # NoReply => d \in Replies(a, q)
<1>1. CASE d = NoReply
  BY <1>1, UnreportedType DEF NoReply, Shaped, Events, Bodies
<1>2. CASE d \in Replies(a, q) /\ (d \in Exceptions \/ a \in ProxyUsers)
  <2>1. d \in Exceptions => d.event # "reply"
    <3>1. \A e \in {"timeout", "proxy", "error"} : [NoReply EXCEPT !.event = e].event = e
      BY DEF NoReply
    <3>2. QED
      BY <3>1 DEF Exceptions
  <2>2. QED
    BY <1>2, <2>1, ReplyShape
<1>3. CASE d \in [event : {"reply"}, http : ApiStatuses, target : {0},
                  body : {"none", "page", "wall", "denied"},
                  image : {"none", "inline"}, declared : {TRUE}, cost : {Unreported}]
           /\ a \notin ProxyUsers
  <2> DEFINE Texts == {"none", "page", "wall", "denied"}
             Images == {"none", "inline"}
             Flags == {TRUE}
             Targets == {0}
             Prices == {Unreported}
  <2>1. ApiStatuses \subseteq Nat /\ ApiStatuses \subseteq 100..599
    BY AdaptersAssumption
  <2>2. /\ Texts \subseteq Bodies /\ Images \subseteq {"none", "inline", "link"}
        /\ Flags \subseteq BOOLEAN /\ Targets \subseteq Nat /\ Prices \subseteq Nat
    BY UnreportedType DEF Bodies
  <2>3. d \in [event : {"reply"}, http : ApiStatuses, target : Targets, body : Texts,
               image : Images, declared : Flags, cost : Prices]
    BY <1>3
  <2> HIDE DEF Texts, Images, Flags, Targets, Prices
  <2>4. d \in Shaped
    BY <2>1, <2>2, <2>3 DEF Shaped, Events
  <2>5. d.http \in ApiStatuses
    BY <2>3
  <2>6. QED
    BY <1>3, <2>1, <2>4, <2>5
<1>4. QED
  BY <1>1, <1>2, <1>3 DEF Downloads, Replies

-----------------------------------------------------------------------------
(* The verdicts, family by family *)

\* An HTTP client or an engine that reads a page.
LEMMA FetchedSound ==
    ASSUME NEW a, NEW q \in Asks, NEW r \in Shaped, r.cost = Unreported,
           NEW ok \in BOOLEAN, ok => r.http < 400,
           q.screenshot => a \in Browsers,
           NEW reason \in Reasons
    PROVE  Sound(a, q, r, Fetched(r, ok, Failed(reason)))
<1>1. CASE r.event # "reply"
  BY <1>1, FailedSound DEF Fetched
<1>2. CASE r.event = "reply"
  <2> DEFINE why == ClassifyFailure(r.http, r.body)
             good == ok /\ why = "none"
             http == r.http
             page == r.body
             shot == FALSE
             cost == 0
  <2>1. http \in Nat /\ page \in Bodies
    BY DEF Shaped
  <2>2. why \in Reasons /\ (why = "none" => page \notin {"none", "thin", "wall"})
    BY <2>1, ClassifierType, Passes DEF Reasons
  <2>3. cost \in Nat /\ cost <= EstimatedCostUnits(a, q)
    BY UnitsType
  <2>4. good \in BOOLEAN /\ (good => why = "none" /\ ~(http >= 400))
    BY <2>1
  <2>5. Fetched(r, ok, Failed(reason)) = Answer(good, why, page, shot, http, cost)
    BY <1>2 DEF Fetched
  <2>6. shot \in BOOLEAN
    OBVIOUS
  <2> HIDE DEF why, good, http, page, shot, cost
  <2>7. Sound(a, q, r, Answer(good, why, page, shot, http, cost))
    BY <1>2, <2>1, <2>2, <2>3, <2>4, <2>6, AnswerSound
  <2>8. QED
    BY <2>5, <2>7
<1>3. QED
  BY <1>1, <1>2

\* An engine that hides the page's status.
LEMMA RenderedSound ==
    ASSUME NEW a, NEW q \in Asks, NEW r \in Shaped, r.cost = Unreported,
           q.screenshot => a \in Browsers,
           NEW reason \in Reasons
    PROVE  Sound(a, q, r, Rendered(r, Failed(reason)))
<1> DEFINE seen == [r EXCEPT !.http = 200]
<1>1. seen \in Shaped /\ seen.cost = r.cost /\ seen.event = r.event /\ seen.http = 200
  BY DEF Shaped
<1>2. Rendered(r, Failed(reason)) = Fetched(seen, TRUE, Failed(reason))
  BY DEF Rendered
<1> DEFINE ok == TRUE
<1>3. ok \in BOOLEAN /\ Rendered(r, Failed(reason)) = Fetched(seen, ok, Failed(reason))
  BY <1>2
<1>4. seen.http < 400
  BY <1>1
<1> HIDE DEF seen, ok
<1>5. Sound(a, q, seen, Fetched(seen, ok, Failed(reason)))
  BY <1>1, <1>3, <1>4, FetchedSound
<1>6. QED
  BY <1>1, <1>3, <1>5 DEF Sound, Booked

\* An exception of a request, however the adapter words it.
LEMMA RaisedSound ==
    ASSUME NEW event
    PROVE  /\ \E reason \in Reasons : ApiRaised(event) = Failed(reason)
           /\ \E reason \in Reasons : EngineRaised(event) = Failed(reason)
           /\ \E reason \in Reasons : RawExcept(event) = Failed(reason)
<1>1. ClassifyException(event) \in {"timeout", "proxy_error", "unknown"}
  BY DEF ClassifyException
<1>2. QED
  BY <1>1 DEF ApiRaised, EngineRaised, RawExcept, Reasons, Classes

\* An API that answers with the page itself.
LEMMA PlainApiSound ==
    ASSUME NEW a, NEW q \in Asks, NEW r \in Shaped, r.cost = Unreported,
           ~q.screenshot, NEW cost \in Nat, cost = EstimatedCostUnits(a, q)
    PROVE  Sound(a, q, r, PlainApi(q, r, cost))
<1>1. CASE r.event # "reply"
  BY <1>1, FailedSound, RaisedSound DEF PlainApi
<1>2. CASE r.event = "reply"
  <2> DEFINE why == ClassifyProviderFailure(r.http, r.body)
             good == Is2xx(r.http) /\ why = "none"
             http == r.http
             page == r.body
             shot == FALSE
  <2>1. http \in Nat /\ page \in Bodies
    BY DEF Shaped
  <2>2. why \in Reasons /\ (why = "none" => page \notin {"none", "thin", "wall"})
    BY <2>1, ClassifierType, Passes DEF Reasons
  <2>3. good \in BOOLEAN /\ (good => why = "none" /\ ~(http >= 400))
    BY <2>1 DEF Is2xx
  <2>4. PlainApi(q, r, cost) = Answer(good, why, page, shot, http, cost)
    BY <1>2 DEF PlainApi
  <2>5. shot \in BOOLEAN /\ cost <= EstimatedCostUnits(a, q)
    BY UnitsType
  <2> HIDE DEF why, good, http, page, shot
  <2>6. Sound(a, q, r, Answer(good, why, page, shot, http, cost))
    BY <1>2, <2>1, <2>2, <2>3, <2>5, AnswerSound
  <2>7. QED
    BY <2>4, <2>6
<1>3. QED
  BY <1>1, <1>2

\* What each service's forecast is.
LEMMA Forecasts ==
    ASSUME NEW q \in Asks
    PROVE  /\ EstimatedCostUnits("spider_cloud", q) = SpiderCloudUnits(q)
           /\ EstimatedCostUnits("firecrawl", q) = FirecrawlUnits(q)
           /\ EstimatedCostUnits("scrape_do", q) = ScrapeDoUnits(q)
           /\ EstimatedCostUnits("scrapfly", q) = ScrapflyUnits(q)
           /\ EstimatedCostUnits("scrapingant", q) = ScrapingAntUnits(q)
           /\ EstimatedCostUnits("zenrows", q) = ZenRowsUnits(q)
           /\ EstimatedCostUnits("scrapingbee", q) = ScrapingBeeUnits(q)
           /\ EstimatedCostUnits("scraperapi", q) = ScraperApiUnits(q)
           /\ EstimatedCostUnits("oxylabs", q) = OxylabsUnits(q)
           /\ EstimatedCostUnits("brightdata", q) = BrightDataUnits(q)
           /\ EstimatedCostUnits("browserless", q) = BrowserlessUnits(q)
           /\ EstimatedCostUnits("crawl4ai", q) = 0
  BY DEF EstimatedCostUnits, Free

-----------------------------------------------------------------------------
(* The verdicts of the APIs that wrap the page, or take its picture *)

\* With a screenshot, a success is the picture.
LEMMA ScraperApiSound ==
    ASSUME NEW q \in Asks, NEW r \in Shaped, r.cost = Unreported
    PROVE  Sound("scraperapi", q, r, ScraperApi(q, r))
<1>1. CASE r.event # "reply"
  BY <1>1, FailedSound, RaisedSound DEF ScraperApi
<1>2. CASE r.event = "reply"
  <2> DEFINE shot == q.screenshot /\ r.image = "inline"
             missing == q.screenshot /\ Is2xx(r.http) /\ ~shot
             found == ClassifyProviderFailure(r.http, r.body)
             why == CASE missing -> "provider_error" [] shot -> "none" [] OTHER -> found
             good == Is2xx(r.http) /\ why = "none"
             page == IF shot THEN "none" ELSE r.body
             code == r.http
             cost == ScraperApiUnits(q)
  <2>1. /\ r.http \in Nat /\ r.target \in Nat /\ r.body \in Bodies /\ q.screenshot \in BOOLEAN
        /\ page \in Bodies /\ shot \in BOOLEAN /\ code \in Nat
    BY DEF Shaped, Asks, Target, Bodies
  <2>2. why \in Reasons
    BY <2>1, ClassifierType DEF Reasons, Classes
  <2>3. good \in BOOLEAN
    OBVIOUS
  <2>4. good => /\ why = "none"
                /\ page \in {"none", "thin", "wall"} => shot
                /\ code >= 400 => FALSE
                /\ q.screenshot => shot
    BY <2>1, Passes DEF Is2xx, Wrapping
  <2>5. cost \in Nat /\ cost <= EstimatedCostUnits("scraperapi", q)
    BY UnitsType, Forecasts
  <2>6. ScraperApi(q, r) = Answer(good, why, page, shot, code, cost)
    BY <1>2 DEF ScraperApi
  <2> HIDE DEF shot, missing, found, why, good, page, code, cost
  <2>7. Sound("scraperapi", q, r, Answer(good, why, page, shot, code, cost))
    BY <1>2, <2>1, <2>2, <2>3, <2>4, <2>5, AnswerSound DEF Wrapping
  <2>8. QED
    BY <2>6, <2>7
<1>3. QED
  BY <1>1, <1>2

\* With a screenshot, a success is the picture.
LEMMA BrightDataSound ==
    ASSUME NEW q \in Asks, NEW r \in Shaped, r.cost = Unreported
    PROVE  Sound("brightdata", q, r, BrightData(q, r))
<1>1. CASE r.event # "reply"
  BY <1>1, FailedSound, RaisedSound DEF BrightData
<1>2. CASE r.event = "reply"
  <2> DEFINE shot == q.screenshot /\ r.image = "inline"
             found == ClassifyProviderFailure(r.http, r.body)
             why == CASE shot -> "none"
                      [] q.screenshot /\ ~shot -> "provider_error"
                      [] OTHER -> found
             good == Is2xx(r.http) /\ why = "none"
             page == IF q.screenshot THEN "none" ELSE r.body
             code == r.http
             cost == BrightDataUnits(q)
  <2>1. /\ r.http \in Nat /\ r.target \in Nat /\ r.body \in Bodies /\ q.screenshot \in BOOLEAN
        /\ page \in Bodies /\ shot \in BOOLEAN /\ code \in Nat
    BY DEF Shaped, Asks, Target, Bodies
  <2>2. why \in Reasons
    BY <2>1, ClassifierType DEF Reasons, Classes
  <2>3. good \in BOOLEAN
    OBVIOUS
  <2>4. good => /\ why = "none"
                /\ page \in {"none", "thin", "wall"} => shot
                /\ code >= 400 => FALSE
                /\ q.screenshot => shot
    BY <2>1, Passes DEF Is2xx, Wrapping
  <2>5. cost \in Nat /\ cost <= EstimatedCostUnits("brightdata", q)
    BY UnitsType, Forecasts
  <2>6. BrightData(q, r) = Answer(good, why, page, shot, code, cost)
    BY <1>2 DEF BrightData
  <2> HIDE DEF shot, found, why, good, page, code, cost
  <2>7. Sound("brightdata", q, r, Answer(good, why, page, shot, code, cost))
    BY <1>2, <2>1, <2>2, <2>3, <2>4, <2>5, AnswerSound DEF Wrapping
  <2>8. QED
    BY <2>6, <2>7
<1>3. QED
  BY <1>1, <1>2

\* The page's status is judged, the answer's decides.
LEMMA SpiderCloudSound ==
    ASSUME NEW q \in Asks, NEW r \in Shaped, r.cost = Unreported, ~q.screenshot
    PROVE  Sound("spider_cloud", q, r, SpiderCloud(q, r))
<1>1. CASE r.event # "reply"
  BY <1>1, FailedSound, RaisedSound DEF SpiderCloud
<1>2. CASE r.event = "reply"
  <2> DEFINE shot == FALSE
             code == Target(r)
             why == ClassifyProviderFailure(code, r.body)
             good == Is2xx(r.http) /\ why = "none"
             page == r.body
             cost == SpiderCloudUnits(q)
  <2>1. /\ r.http \in Nat /\ r.target \in Nat /\ r.body \in Bodies /\ q.screenshot \in BOOLEAN
        /\ page \in Bodies /\ shot \in BOOLEAN /\ code \in Nat
    BY DEF Shaped, Asks, Target, Bodies
  <2>2. why \in Reasons
    BY <2>1, ClassifierType DEF Reasons, Classes
  <2>3. good \in BOOLEAN
    OBVIOUS
  <2>4. good => /\ why = "none"
                /\ page \in {"none", "thin", "wall"} => shot
                /\ code >= 400 => /\ "spider_cloud" \in Wrapping
                               /\ ClassifyProviderFailure(code, "page") = "none"
                /\ q.screenshot => shot
    BY <2>1, Passes DEF Is2xx, Wrapping
  <2>5. cost \in Nat /\ cost <= EstimatedCostUnits("spider_cloud", q)
    BY UnitsType, Forecasts
  <2>6. SpiderCloud(q, r) = Answer(good, why, page, shot, code, cost)
    BY <1>2 DEF SpiderCloud
  <2> HIDE DEF shot, code, why, good, page, cost
  <2>7. Sound("spider_cloud", q, r, Answer(good, why, page, shot, code, cost))
    BY <1>2, <2>1, <2>2, <2>3, <2>4, <2>5, AnswerSound DEF Wrapping
  <2>8. QED
    BY <2>6, <2>7
<1>3. QED
  BY <1>1, <1>2

\* A picture is a success whatever the page's status; a page is judged by it.
LEMMA OxylabsSound ==
    ASSUME NEW q \in Asks, NEW r \in Shaped, r.cost = Unreported
    PROVE  Sound("oxylabs", q, r, Oxylabs(q, r))
<1>1. CASE r.event # "reply"
  BY <1>1, FailedSound, RaisedSound DEF Oxylabs
<1>2. CASE r.event = "reply"
  <2> DEFINE shot == q.screenshot /\ r.image = "inline"
             page == IF q.screenshot THEN "none" ELSE r.body
             text == IF Is2xx(r.http) THEN page ELSE r.body
             code == Target(r)
             found == ClassifyProviderFailure(code, text)
             why == IF shot THEN "none" ELSE found
             good == Is2xx(r.http) /\ why = "none"
             cost == OxylabsUnits(q)
  <2>1. /\ r.http \in Nat /\ r.target \in Nat /\ r.body \in Bodies /\ q.screenshot \in BOOLEAN
        /\ page \in Bodies /\ text \in Bodies /\ shot \in BOOLEAN /\ code \in Nat
    BY DEF Shaped, Asks, Target, Bodies
  <2>2. why \in Reasons
    BY <2>1, ClassifierType DEF Reasons, Classes
  <2>3. good \in BOOLEAN
    OBVIOUS
  <2>4. good => /\ why = "none"
                /\ page \in {"none", "thin", "wall"} => shot
                /\ code >= 400 => ClassifyProviderFailure(code, "page") = "none" \/ shot
                /\ q.screenshot => shot
    BY <2>1, Passes DEF Is2xx, Wrapping
  <2>5. cost \in Nat /\ cost <= EstimatedCostUnits("oxylabs", q)
    BY UnitsType, Forecasts
  <2>6. Oxylabs(q, r) = Answer(good, why, page, shot, code, cost)
    BY <1>2 DEF Oxylabs
  <2> HIDE DEF shot, page, text, code, found, why, good, cost
  <2>7. Sound("oxylabs", q, r, Answer(good, why, page, shot, code, cost))
    BY <1>2, <2>1, <2>2, <2>3, <2>4, <2>5, AnswerSound DEF Wrapping
  <2>8. QED
    BY <2>6, <2>7
<1>3. QED
  BY <1>1, <1>2

\* A success was declared, with the picture that was asked for.
LEMMA Crawl4AiSound ==
    ASSUME NEW q \in Asks, NEW r \in Shaped, r.cost = Unreported
    PROVE  Sound("crawl4ai", q, r, Crawl4Ai(q, r))
<1>1. CASE r.event # "reply"
  BY <1>1, FailedSound, RaisedSound DEF Crawl4Ai
<1>2. CASE r.event = "reply"
  <2> DEFINE shot == q.screenshot /\ r.image = "inline"
             code == Target(r)
             judged == IF Is2xx(r.http) THEN code ELSE r.http
             found == ClassifyProviderFailure(judged, r.body)
             failure == IF (~Is2xx(r.http) \/ ~r.declared) /\ found \in {"none", "empty_content"}
                        THEN "provider_error" ELSE found
             missing == q.screenshot /\ ~shot
             good == failure = "none" /\ ~missing
             why == IF missing /\ failure = "none" THEN "provider_error" ELSE failure
             page == r.body
             cost == 0
  <2>1. /\ r.http \in Nat /\ r.target \in Nat /\ r.body \in Bodies /\ q.screenshot \in BOOLEAN
        /\ page \in Bodies /\ shot \in BOOLEAN /\ code \in Nat /\ judged \in Nat
    BY DEF Shaped, Asks, Target, Bodies
  <2>2. why \in Reasons
    BY <2>1, ClassifierType DEF Reasons, Classes
  <2>3. good \in BOOLEAN
    OBVIOUS
  <2>4. good => /\ why = "none"
                /\ page \in {"none", "thin", "wall"} => shot
                /\ code >= 400 => /\ "crawl4ai" \in Wrapping
                               /\ ClassifyProviderFailure(code, "page") = "none"
                /\ q.screenshot => shot
    BY <2>1, Passes DEF Is2xx, Wrapping
  <2>5. cost \in Nat /\ cost <= EstimatedCostUnits("crawl4ai", q)
    BY UnitsType, Forecasts
  <2>6. Crawl4Ai(q, r) = Answer(good, why, page, shot, code, cost)
    BY <1>2 DEF Crawl4Ai
  <2> HIDE DEF shot, code, judged, found, failure, missing, good, why, page, cost
  <2>7. Sound("crawl4ai", q, r, Answer(good, why, page, shot, code, cost))
    BY <1>2, <2>1, <2>2, <2>3, <2>4, <2>5, AnswerSound DEF Wrapping
  <2>8. QED
    BY <2>6, <2>7
<1>3. QED
  BY <1>1, <1>2

\* A success has the picture that was asked for.
LEMMA BrowserlessSound ==
    ASSUME NEW q \in Asks, NEW r \in Shaped, r.cost = Unreported
    PROVE  Sound("browserless", q, r, Browserless(q, r))
<1>1. CASE r.event # "reply"
  BY <1>1, FailedSound, RaisedSound DEF Browserless
<1>2. CASE r.event = "reply"
  <2> DEFINE shot == q.screenshot /\ r.image = "inline"
             found == ClassifyProviderFailure(r.http, r.body)
             good == Is2xx(r.http) /\ found = "none" /\ (q.screenshot => shot)
             why == CASE found # "none" -> found
                      [] found = "none" /\ good -> "none"
                      [] found = "none" /\ ~good /\ q.screenshot -> "provider_error"
                      [] OTHER -> IF IsProxyFailure(r) THEN "proxy_error" ELSE "none"
             page == IF Is2xx(r.http) THEN r.body ELSE "none"
             code == r.http
             cost == BrowserlessUnits(q)
  <2>1. /\ r.http \in Nat /\ r.target \in Nat /\ r.body \in Bodies /\ q.screenshot \in BOOLEAN
        /\ page \in Bodies /\ shot \in BOOLEAN /\ code \in Nat
    BY DEF Shaped, Asks, Target, Bodies
  <2>2. why \in Reasons
    BY <2>1, ClassifierType DEF Reasons, Classes
  <2>3. good \in BOOLEAN
    OBVIOUS
  <2>4. good => /\ why = "none"
                /\ page \in {"none", "thin", "wall"} => shot
                /\ code >= 400 => FALSE
                /\ q.screenshot => shot
    BY <2>1, Passes DEF Is2xx, Wrapping
  <2>5. cost \in Nat /\ cost <= EstimatedCostUnits("browserless", q)
    BY UnitsType, Forecasts
  <2>6. Browserless(q, r) = Answer(good, why, page, shot, code, cost)
    BY <1>2 DEF Browserless
  <2> HIDE DEF shot, found, good, why, page, code, cost
  <2>7. Sound("browserless", q, r, Answer(good, why, page, shot, code, cost))
    BY <1>2, <2>1, <2>2, <2>3, <2>4, <2>5, AnswerSound DEF Wrapping
  <2>8. QED
    BY <2>6, <2>7
<1>3. QED
  BY <1>1, <1>2

\* A success was declared, with the picture that was asked for; an exception of
\* the picture's download makes it a failure.
LEMMA FirecrawlSound ==
    ASSUME NEW q \in Asks, NEW r \in Shaped, r.cost = Unreported, NEW d \in Shaped
    PROVE  Sound("firecrawl", q, r, Firecrawl(q, r, d))
<1> DEFINE linked == q.screenshot /\ r.event = "reply" /\ r.image = "link"
<1>1. CASE r.event # "reply"
  BY <1>1, FailedSound, RaisedSound DEF Firecrawl
<1>2. CASE r.event = "reply" /\ linked /\ d.event # "reply"
  BY <1>2, FailedSound, RaisedSound DEF Firecrawl
<1>3. CASE r.event = "reply" /\ ~(linked /\ d.event # "reply")
  <2> DEFINE shot == q.screenshot /\ (r.image = "inline"
                                        \/ (linked /\ Is2xx(d.http) /\ d.image = "inline"))
             code == Target(r)
             failure == ClassifyProviderFailure(code, r.body)
             missing == q.screenshot /\ ~shot
             good == Is2xx(r.http) /\ r.declared /\ failure = "none" /\ ~missing
             why == IF missing THEN "provider_error" ELSE failure
             page == r.body
             cost == FirecrawlUnits(q)
  <2>1. /\ r.http \in Nat /\ r.target \in Nat /\ q.screenshot \in BOOLEAN
        /\ page \in Bodies /\ shot \in BOOLEAN /\ code \in Nat
    BY DEF Shaped, Asks, Target
  <2>2. why \in Reasons
    BY <2>1, ClassifierType DEF Reasons, Classes
  <2>3. good \in BOOLEAN
    BY DEF Shaped, Is2xx
  <2>4. good => /\ why = "none"
                /\ page \in {"none", "thin", "wall"} => shot
                /\ code >= 400 => /\ "firecrawl" \in Wrapping
                                  /\ ClassifyProviderFailure(code, "page") = "none"
                /\ q.screenshot => shot
    BY <2>1, Passes DEF Wrapping
  <2>5. cost \in Nat /\ cost <= EstimatedCostUnits("firecrawl", q)
    BY UnitsType, Forecasts
  <2>6. Firecrawl(q, r, d) = Answer(good, why, page, shot, code, cost)
    BY <1>3 DEF Firecrawl
  <2> HIDE DEF linked, shot, code, failure, missing, good, why, page, cost
  <2>7. Sound("firecrawl", q, r, Answer(good, why, page, shot, code, cost))
    BY <1>3, <2>1, <2>2, <2>3, <2>4, <2>5, AnswerSound
  <2>8. QED
    BY <2>6, <2>7
<1>4. QED
  BY <1>1, <1>2, <1>3

\* Scrapfly's budget is at least a unit.
LEMMA BudgetType ==
    ASSUME NEW q \in Asks
    PROVE  EffectiveCostBudget(q) \in Nat /\ EffectiveCostBudget(q) >= 1
  BY DEF EffectiveCostBudget, ScrapflyBudget, Asks

\* A result booked in a row is sound when its cost is the reported one, or a
\* forecast one, and its status can be recorded.
LEMMA RowSound ==
    ASSUME NEW a \in {"scrapfly", "scrapingant"}, NEW q \in Asks, ~q.screenshot,
           NEW r \in Shaped, r.event = "reply",
           NEW plain \in Results, NEW exact \in BOOLEAN, plain.status \in 100..599,
           exact <=> r.cost # Unreported,
           ~exact => plain.cost <= EstimatedCostUnits(a, q),
           exact => plain.cost = r.cost,
           plain.ok => /\ plain.reason = "none"
                       /\ plain.html \notin {"none", "thin", "wall"}
                       /\ ClassifyProviderFailure(plain.status, "page") = "none"
    PROVE  Sound(a, q, r, Itemised(plain, exact))
<1> DEFINE v == Itemised(plain, exact)
<1>1. /\ v \in Results
      /\ v.exact = exact /\ v.row = TRUE
      /\ v.ok = plain.ok /\ v.reason = plain.reason
      /\ v.html = plain.html
      /\ v.status = plain.status /\ v.cost = plain.cost
  BY ItemisedType
<1> HIDE DEF v
<1>2. Usable(a, v)
  BY <1>1 DEF Usable, Wrapping
<1>3. Shown(a, q, v)
  BY DEF Shown
<1>4. Priced(a, q, v) /\ Booked(r, v)
  BY <1>1 DEF Priced, Booked
<1>5. Recordable(v)
  BY <1>1 DEF Recordable, RecordableStatus
<1>6. Sound(a, q, r, v)
  BY <1>1, <1>2, <1>3, <1>4, <1>5 DEF Sound
<1>7. QED
  BY <1>6 DEF v

\* 409 is a throttle; the price is the reported one or the forecast.
LEMMA ScrapingAntSound ==
    ASSUME NEW q \in Asks, ~q.screenshot, NEW r \in Shaped,
           r.event # "reply" => r.cost = Unreported,
           r.event = "reply" => r.http \in 100..599
    PROVE  Sound("scrapingant", q, r, ScrapingAnt(q, r))
<1>1. CASE r.event # "reply"
  BY <1>1, FailedSound, RaisedSound DEF ScrapingAnt
<1>2. CASE r.event = "reply"
  <2> DEFINE a == "scrapingant"
             status == IF Is2xx(r.http) THEN Clamp(r.target, r.http) ELSE r.http
             judged == ClassifyProviderFailure(status, r.body)
             found == IF r.http = 409 THEN "http_429" ELSE judged
             why == IF ~Is2xx(r.http) /\ found = "none" THEN "provider_error" ELSE found
             good == Is2xx(r.http) /\ why = "none"
             page == r.body
             shot == FALSE
             spent == ScrapingAntReportedCost(q, r)
             reported == r.cost # Unreported
             plain == Answer(good, why, page, shot, status, spent)
  <2>1. status \in 100..599 /\ status \in Nat /\ page \in Bodies
    BY <1>2 DEF Shaped, Clamp
  <2>2. why \in Reasons
    BY <2>1, ClassifierType DEF Reasons, Classes
  <2>3. good \in BOOLEAN
    OBVIOUS
  <2>4. good => /\ why = "none"
                /\ page \notin {"none", "thin", "wall"}
                /\ ClassifyProviderFailure(status, "page") = "none"
    BY <2>1, Passes
  <2>5. /\ spent \in Nat
        /\ r.cost = Unreported => spent <= EstimatedCostUnits(a, q)
        /\ r.cost # Unreported => spent = r.cost
    BY UnitsType, Forecasts DEF ScrapingAntReportedCost, Shaped
  <2>6. ScrapingAnt(q, r) = Itemised(plain, reported)
    BY <1>2 DEF ScrapingAnt
  <2>7. /\ a \in {"scrapfly", "scrapingant"} /\ shot \in BOOLEAN
        /\ reported \in BOOLEAN /\ (reported <=> r.cost # Unreported)
    OBVIOUS
  <2>8. /\ plain.ok = good /\ plain.reason = why /\ plain.html = page
        /\ plain.status = status /\ plain.cost = spent
    BY DEF Answer
  <2> HIDE DEF a, status, judged, found, why, good, page, shot, spent, reported
  <2>9. plain \in Results
    BY <2>1, <2>2, <2>3, <2>5, <2>7, AnswerType
  <2> HIDE DEF plain
  <2>10. Sound(a, q, r, Itemised(plain, reported))
    BY <1>2, <2>1, <2>4, <2>5, <2>7, <2>8, <2>9, RowSound
  <2>11. QED
    BY <2>6, <2>10 DEF a
<1>3. QED
  BY <1>1, <1>2

\* What Scrapfly charged is booked however the call ends, the download of a large
\* page included.
LEMMA ScrapflySound ==
    ASSUME NEW q \in Asks, ~q.screenshot, NEW r \in Shaped, NEW d \in Shaped,
           r.event # "reply" => r.cost = Unreported,
           r.event = "reply" => r.http \in 100..599,
           d.event = "reply" => d.http \in 100..599
    PROVE  Sound("scrapfly", q, r, Scrapfly(q, r, d))
<1>1. CASE r.event # "reply"
  BY <1>1, FailedSound, RaisedSound DEF Scrapfly
<1>2. CASE r.event = "reply"
  <2> DEFINE a == "scrapfly"
             status == IF Is2xx(r.http) THEN Clamp(r.target, r.http) ELSE r.http
             large == r.event = "reply" /\ Is2xx(r.http) /\ r.body = "link"
             raised == ApiRaised(d.event).reason
             refused == ClassifyProviderFailure(d.http, d.body)
             refusal == IF refused = "none" THEN "provider_error" ELSE refused
             html == IF large THEN d.body ELSE r.body
             judged == ClassifyProviderFailure(status, html)
             lost == large /\ d.event # "reply"
             denied == large /\ d.event = "reply" /\ ~Is2xx(d.http)
             good == ~lost /\ ~denied /\ Is2xx(r.http) /\ judged = "none"
             why == IF lost THEN raised ELSE IF denied THEN refusal ELSE judged
             page == IF lost \/ denied THEN "none" ELSE html
             code == IF denied THEN d.http ELSE status
             shot == FALSE
             spent == ScrapflyReportedCost(r)
             reported == r.cost # Unreported
             plain == Answer(good, why, page, shot, code, spent)
  <2>1. status \in 100..599 /\ status \in Nat /\ html \in Bodies
    BY <1>2 DEF Shaped, Clamp
  <2>2. d.http \in Nat /\ d.body \in Bodies
    BY DEF Shaped
  <2>3. raised \in Reasons
    <3>1. PICK reason \in Reasons : ApiRaised(d.event) = Failed(reason)
      BY RaisedSound
    <3>2. Failed(reason).reason = reason
      BY DEF Failed, Answer
    <3>3. QED
      BY <3>1, <3>2
  <2>4. judged \in Reasons /\ refusal \in Reasons
    BY <2>1, <2>2, ClassifierType DEF Reasons, Classes
  <2>5. /\ good \in BOOLEAN /\ why \in Reasons /\ page \in Bodies /\ code \in 100..599
        /\ code \in Nat /\ shot \in BOOLEAN
    <3>1. "none" \in Bodies
      BY DEF Bodies
    <3>2. code \in 100..599
      BY <2>1
    <3>3. good \in BOOLEAN
      OBVIOUS
    <3> HIDE DEF raised, refusal, judged, html, lost, denied, status, good
    <3>4. why \in Reasons /\ page \in Bodies
      BY <2>1, <2>3, <2>4, <3>1
    <3>5. QED
      BY <3>2, <3>3, <3>4
  <2>6. good => /\ why = "none"
                /\ page \notin {"none", "thin", "wall"}
                /\ ClassifyProviderFailure(code, "page") = "none"
    <3>1. judged = "none" => /\ html \notin {"none", "thin", "wall"}
                             /\ ClassifyProviderFailure(status, "page") = "none"
      BY <2>1, Passes
    <3> HIDE DEF raised, refusal, judged, html, lost, denied, status
    <3>2. QED
      BY <3>1
  <2>7. EffectiveCostBudget(q) >= 1 /\ EffectiveCostBudget(q) \in Nat
    BY BudgetType
  <2>8. /\ spent \in Nat
        /\ ~reported => spent <= EstimatedCostUnits(a, q)
        /\ reported => spent = r.cost
    BY <2>7, Forecasts DEF ScrapflyReportedCost, ScrapflyUnits, Shaped
  <2>9. Scrapfly(q, r, d) = Itemised(plain, reported)
    <3>1. CASE lost
      BY <1>2, <3>1 DEF Scrapfly
    <3>2. CASE denied
      BY <1>2, <3>2 DEF Scrapfly
    <3>3. CASE ~lost /\ ~denied
      BY <1>2, <3>3 DEF Scrapfly
    <3>4. QED
      BY <3>1, <3>2, <3>3
  <2>10. /\ a \in {"scrapfly", "scrapingant"} /\ reported \in BOOLEAN
         /\ (reported <=> r.cost # Unreported)
    OBVIOUS
  <2>11. /\ plain.ok = good /\ plain.reason = why /\ plain.html = page
         /\ plain.status = code /\ plain.cost = spent
    BY DEF Answer
  <2> HIDE DEF a, status, large, raised, refused, refusal, html, judged, lost, denied, good, why,
               page, code, shot, spent, reported
  <2>12. plain \in Results
    BY <2>5, <2>8, AnswerType
  <2> HIDE DEF plain
  <2>13. Sound(a, q, r, Itemised(plain, reported))
    BY <1>2, <2>5, <2>6, <2>8, <2>10, <2>11, <2>12, RowSound
  <2>14. QED
    BY <2>9, <2>13 DEF a
<1>3. QED
  BY <1>1, <1>2

-----------------------------------------------------------------------------
(* The verdict of any adapter *)

\* Whatever an adapter was answered, its verdict is sound.
THEOREM VerdictSound ==
    ASSUME NEW a \in AdapterNames, NEW q \in Asks, CanHandle(a, q),
           NEW r \in Replies(a, q), NEW d \in Downloads(a, q) \cup {NoReply}
    PROVE  Sound(a, q, r, Verdict(a, q, r, d))
<1>1. /\ r \in Shaped /\ d \in Shaped
      /\ r.event # "reply" => r.cost = Unreported
      /\ a \notin {"scrapfly", "scrapingant"} => r.cost = Unreported
      /\ r.event = "reply" /\ a \in {"scrapfly", "scrapingant"} => r.http \in 100..599
      /\ d.event = "reply" /\ a = "scrapfly" => d.http \in 100..599
  BY ReplyShape, DownloadShape DEF Wrapping, ProxyUsers
<1>2. q.screenshot => a \in {"crawl4ai", "firecrawl", "scraperapi", "oxylabs", "brightdata",
                             "browserless"} \cup Browsers
  BY DEF CanHandle, Screenshots
<1>3. PICK api \in Reasons, engine \in Reasons, raw \in Reasons :
          /\ ApiRaised(r.event) = Failed(api)
          /\ EngineRaised(r.event) = Failed(engine)
          /\ RawExcept(r.event) = Failed(raw)
  BY RaisedSound
<1>4. r.http \in Nat /\ (Is2xx(r.http) => r.http < 400) /\ (IsBelow400(r.http) => r.http < 400)
      /\ Is2xx(r.http) \in BOOLEAN /\ IsBelow400(r.http) \in BOOLEAN
  BY <1>1 DEF Shaped, Is2xx, IsBelow400
<1>5. CASE a \in {"raw_http", "wreq", "curl_cffi", "jina_reader", "requests", "botasaurus",
                  "scrapling", "scrapy", "playwright", "cdp"}
  <2>1. r.cost = Unreported /\ (q.screenshot => a \in Browsers)
    BY <1>1, <1>2, <1>5 DEF Browsers
  <2> DEFINE ok == IF a \in {"raw_http", "wreq", "jina_reader"} THEN Is2xx(r.http)
                   ELSE IsBelow400(r.http)
             reason == IF a \in {"raw_http", "wreq", "curl_cffi"} THEN raw
                       ELSE IF a \in {"jina_reader", "scrapling"} THEN api ELSE engine
  <2>2. ok \in BOOLEAN /\ (ok => r.http < 400) /\ reason \in Reasons
    BY <1>4
  <2>3. Verdict(a, q, r, d) = Fetched(r, ok, Failed(reason))
    <3>1. CASE a = "raw_http" BY <1>3, <3>1 DEF Verdict, RawHttp
    <3>2. CASE a = "wreq" BY <1>3, <3>2 DEF Verdict, Wreq
    <3>3. CASE a = "curl_cffi" BY <1>3, <3>3 DEF Verdict, CurlCffi
    <3>4. CASE a = "jina_reader" BY <1>3, <3>4 DEF Verdict, JinaReader
    <3>5. CASE a = "requests" BY <1>3, <3>5 DEF Verdict, Requests
    <3>6. CASE a = "botasaurus" BY <1>3, <3>6 DEF Verdict, Botasaurus
    <3>7. CASE a = "scrapling" BY <1>3, <3>7 DEF Verdict, Scrapling
    <3>8. CASE a = "scrapy" BY <1>3, <3>8 DEF Verdict, Scrapy
    <3>9. CASE a = "playwright" BY <1>3, <3>9 DEF Verdict, Playwright
    <3>10. CASE a = "cdp" BY <1>3, <3>10 DEF Verdict, Cdp
    <3>11. QED
      BY <1>5, <3>1, <3>2, <3>3, <3>4, <3>5, <3>6, <3>7, <3>8, <3>9, <3>10
  <2> HIDE DEF ok, reason
  <2>4. Sound(a, q, r, Fetched(r, ok, Failed(reason)))
    BY <1>1, <2>1, <2>2, FetchedSound
  <2>5. QED
    BY <2>3, <2>4
<1>6. CASE a \in {"spider_rs", "patchright", "camoufox", "pydoll", "nodriver", "seleniumbase",
                  "crawlee", "helium"}
  <2>1. r.cost = Unreported /\ (q.screenshot => a \in Browsers)
    BY <1>1, <1>2, <1>6 DEF Browsers
  <2>2. \E reason \in Reasons : Verdict(a, q, r, d) = Rendered(r, Failed(reason))
    BY <1>3, <1>6
    DEF Verdict, SpiderRs, Patchright, Camoufox, Pydoll, Nodriver, SeleniumBase, Crawlee, Helium
  <2>3. QED
    BY <1>1, <2>1, <2>2, RenderedSound
<1>7. CASE a \in {"scrape_do", "scrapingbee", "zenrows"}
  <2>1. r.cost = Unreported /\ ~q.screenshot
    BY <1>1, <1>2, <1>7 DEF Browsers
  <2> DEFINE cost == EstimatedCostUnits(a, q)
  <2>2. cost \in Nat /\ Verdict(a, q, r, d) = PlainApi(q, r, cost)
    BY <1>7, Forecasts, UnitsType DEF Verdict, ScrapeDo, ScrapingBee, ZenRows
  <2>3. cost = EstimatedCostUnits(a, q)
    OBVIOUS
  <2> HIDE DEF cost
  <2>4. Sound(a, q, r, PlainApi(q, r, cost))
    BY <1>1, <2>1, <2>2, <2>3, PlainApiSound
  <2>5. QED
    BY <2>2, <2>4
<1>8. CASE a = "scraperapi"
  BY <1>1, <1>8, ScraperApiSound DEF Verdict
<1>9. CASE a = "brightdata"
  BY <1>1, <1>9, BrightDataSound DEF Verdict
<1>10. CASE a = "spider_cloud"
  BY <1>1, <1>2, <1>10, SpiderCloudSound DEF Verdict, Browsers
<1>11. CASE a = "oxylabs"
  BY <1>1, <1>11, OxylabsSound DEF Verdict
<1>12. CASE a = "crawl4ai"
  BY <1>1, <1>12, Crawl4AiSound DEF Verdict
<1>13. CASE a = "browserless"
  BY <1>1, <1>13, BrowserlessSound DEF Verdict
<1>14. CASE a = "firecrawl"
  BY <1>1, <1>14, FirecrawlSound DEF Verdict
<1>15. CASE a = "scrapfly"
  BY <1>1, <1>2, <1>15, ScrapflySound DEF Verdict, Browsers
<1>16. CASE a = "scrapingant"
  BY <1>1, <1>2, <1>16, ScrapingAntSound DEF Verdict, Browsers
<1>17. QED
  BY <1>5, <1>6, <1>7, <1>8, <1>9, <1>10, <1>11, <1>12, <1>13, <1>14, <1>15, <1>16
  DEF AdapterNames, Fetchers, Browsers, Free, Paid, Threaded

-----------------------------------------------------------------------------
(* What holds of one call, whatever the others do *)

\* The router asks an adapter only for what it can do, within its ceiling.
Asking(a, q) ==
    /\ a \in AdapterNames \cup {None}
    /\ q \in Asks
    /\ a # None =>
           /\ CanHandle(a, q)
           /\ q.capped => EstimatedCostUnits(a, q) <= q.allowance

\* Which adapters come to which phase; a second request knows the first reply.
Phased(a, q, p, f) ==
    /\ p \in Phases
    /\ f \in Shaped
    /\ p = "idle" <=> a = None
    /\ p = "waiting" => a \in Fetchers
    /\ p = "following" <=> f # NoReply
    /\ p = "following" => a \in Follows /\ f \in Replies(a, Lent(a, q))
    /\ p = "starting" => a = "helium"
    /\ p \in {"open", "shooting", "closing"} => a \in Browsers
    /\ p = "raised" => a # "helium"

Things == {"browser", "page", "worker", "thread"}
Session == {"starting", "open", "shooting", "closing"}
Work(a) == IF a \in Threaded THEN {"thread"} ELSE IF a = "scrapy" THEN {"worker"} ELSE {}
Place(a) == IF a = "cdp" THEN {"page"} ELSE {"browser"}

\* What runs on the call's behalf in each phase.
Holds(a, p, h, v) ==
    /\ h \in SUBSET Things
    /\ p \in {"idle", "called", "following"} => h = {}
    /\ p = "waiting" => h = Work(a)
    /\ p \in Session /\ a # "helium" => h = Place(a)
    /\ p = "answered" /\ a # "helium" /\ h # {} =>
           \/ a = "spider_rs" /\ v.reason = "timeout"
           \/ a = "cdp" /\ v.status = 0
    /\ p = "cancelled" /\ a # "helium" /\ h # {} =>
           a \in Threaded \cup {"scrapy", "cdp", "nodriver", "seleniumbase"}
    /\ a = "helium" =>
           /\ h \in SUBSET {"thread", "browser"}
           /\ "thread" \in h <=> p \in Session

\* The result so far; only a picture may still be missing from it.
Yields(a, q, p, v) ==
    /\ v \in Results
    /\ Usable(a, v)
    /\ v.ok /\ q.screenshot /\ p # "shooting" => v.shot \/ a \in {"pydoll", "crawlee"}
    /\ ~v.exact => v.cost <= EstimatedCostUnits(a, Lent(a, q))

\* A reported price is remembered until it is booked.
Bills(a, q, p, f, b, v) ==
    /\ b \in Nat
    /\ p \notin {"following", "answered", "cancelled"} \/ a \in Browsers => b = 0
    /\ p = "following" => b = (IF f.cost = Unreported THEN 0 ELSE f.cost)
    /\ p = "answered" /\ b # 0 =>
           /\ v.row /\ v.exact /\ v.cost = b
           /\ a = "scrapfly" /\ q.premium /\ q.capped => v.cost <= q.allowance

Good(a, q, p, f, h, b, v) ==
    /\ Asking(a, q)
    /\ Phased(a, q, p, f)
    /\ Holds(a, p, h, v)
    /\ Yields(a, q, p, v)
    /\ Bills(a, q, p, f, b, v)

Functions ==
    /\ adapter \in [Calls -> AdapterNames \cup {None}]
    /\ request \in [Calls -> Asks]
    /\ pc \in [Calls -> Phases]
    /\ first \in [Calls -> Shaped]
    /\ held \in [Calls -> SUBSET Things]
    /\ billed \in [Calls -> Nat]
    /\ result \in [Calls -> Results]

CallInv ==
    /\ Functions
    /\ \A c \in Calls :
           Good(adapter[c], request[c], pc[c], first[c], held[c], billed[c], result[c])

\* A session that met no other one: the current browser is its own or there is none,
\* and it holds nothing once it has ended.
Solo(c) ==
    /\ Running(c) =>
           /\ driver \in {c, None}
           /\ driver = None => pc[c] = "closing" /\ held[c] = {"thread"}
           /\ pc[c] \in {"open", "shooting"} => bound[c] = c
           /\ pc[c] = "closing" /\ result[c].ok => bound[c] = c
           /\ \A o \in Calls \ {c} : ~Running(o)
    /\ pc[c] \in {"answered", "cancelled"} => held[c] = {}
    /\ pc[c] = "answered" /\ result[c].ok => bound[c] = c

\* Helium's calls share one driver, the browser of a session that still runs.  Only a
\* Helium call goes on once nobody awaits it.
SoloInv ==
    /\ bound \in [Calls -> Calls \cup {None}]
    /\ driver \in Calls \cup {None}
    /\ awaited \in [Calls -> BOOLEAN]
    /\ alone \in [Calls -> BOOLEAN]
    /\ driver # None => Running(driver) /\ "browser" \in held[driver]
    /\ \A c \in Calls : ~awaited[c] => adapter[c] = "helium" /\ pc[c] \in Session \cup {"cancelled"}
    /\ \A c \in Calls : adapter[c] = "helium" /\ alone[c] => Solo(c)

IInv == CallInv /\ SoloInv

-----------------------------------------------------------------------------
(* Lemmas on results and second requests *)

\* A request with a country lent to it is a request.
LEMMA LentType ==
    ASSUME NEW a, NEW q \in Asks
    PROVE  Lent(a, q) \in Asks
  BY DEF Lent, Asks

\* The country that the router lends makes no call something the adapter cannot do.
LEMMA LentAsk ==
    ASSUME NEW a \in AdapterNames, NEW q, Asking(a, q)
    PROVE  /\ Lent(a, q) \in Asks
           /\ CanHandle(a, Lent(a, q))
           /\ Lent(a, q).screenshot = q.screenshot
           /\ Lent(a, q).premium = q.premium
           /\ EffectiveCostBudget(Lent(a, q)) = EffectiveCostBudget(q)
<1> DEFINE l == Lent(a, q)
<1>1. q \in Asks /\ CanHandle(a, q)
  BY DEF Asking, None, AdapterNames, Fetchers, Browsers, Free, Paid, Threaded
<1>2. l = [q EXCEPT !.country = q.country \/ (q.hinted /\ a \in CountryAware)]
  BY DEF Lent
<1>3. /\ l \in Asks
      /\ l.country <=> q.country \/ (q.hinted /\ a \in CountryAware)
      /\ l.render_js = q.render_js /\ l.premium = q.premium /\ l.screenshot = q.screenshot
      /\ l.hinted = q.hinted /\ l.capped = q.capped /\ l.allowance = q.allowance
  BY <1>1, <1>2 DEF Asks
<1> HIDE DEF l
<1>4. CanHandle(a, l)
  BY <1>1, <1>3 DEF CanHandle
<1>5. EffectiveCostBudget(l) = EffectiveCostBudget(q)
  BY <1>3 DEF EffectiveCostBudget
<1>6. QED
  BY <1>3, <1>4, <1>5 DEF l

\* A failure satisfies what is asked of a result.
LEMMA FailedYields ==
    ASSUME NEW a, NEW q, Asking(a, q), NEW p, NEW reason \in Reasons
    PROVE  Yields(a, q, p, Failed(reason))
<1>1. Failed(reason) \in Results
  BY FailedType
<1>2. EstimatedCostUnits(a, Lent(a, q)) \in Nat
  BY LentType, UnitsType DEF Asking
<1>3. Failed(reason).ok = FALSE /\ Failed(reason).cost = 0
  BY DEF Failed, Answer
<1>4. QED
  BY <1>1, <1>2, <1>3 DEF Yields, Usable

\* So does a sound verdict, once the picture that was asked for is there.
LEMMA SoundYields ==
    ASSUME NEW a \in AdapterNames, NEW q, Asking(a, q), NEW r, NEW v, NEW p,
           Sound(a, Lent(a, q), r, v),
           a \in Browsers /\ v.ok /\ q.screenshot => p = "shooting"
    PROVE  Yields(a, q, p, v)
<1>1. v \in Results /\ Usable(a, v)
  BY DEF Sound
<1>2. v.ok /\ q.screenshot /\ p # "shooting" => v.shot
  BY LentAsk DEF Sound, Shown
<1>3. ~v.exact => v.cost <= EstimatedCostUnits(a, Lent(a, q))
  BY DEF Sound, Priced
<1>4. QED
  BY <1>1, <1>2, <1>3 DEF Yields

\* An ASP call of Scrapfly is never charged more than the router had left.
LEMMA BudgetKept ==
    ASSUME NEW q, Asking("scrapfly", q), q.premium, q.capped,
           NEW r \in Replies("scrapfly", Lent("scrapfly", q)), r.cost # Unreported
    PROVE  r.cost <= q.allowance
<1> DEFINE a == "scrapfly"
           l == Lent(a, q)
           budget == EffectiveCostBudget(q)
<1>1. a \in AdapterNames /\ a # None
  BY DEF AdapterNames, Fetchers, Paid, None
<1>2. l \in Asks /\ l.premium /\ EffectiveCostBudget(l) = budget
  <2> HIDE DEF a, l, budget
  <2>1. QED
    BY <1>1, LentAsk DEF a, l, budget
<1>3. r \in Shaped /\ r.cost <= budget
  <2> HIDE DEF l, budget
  <2>1. r \in Replies(a, l)
    BY DEF l
  <2>2. QED
    BY <1>2, <2>1, ReplyShape
<1>4. budget \in Nat /\ q.allowance \in Nat /\ budget = EstimatedCostUnits(a, q)
  BY BudgetType, Forecasts DEF Asking, Asks, ScrapflyUnits
<1>5. budget <= q.allowance
  BY <1>1, <1>4 DEF Asking
<1> HIDE DEF budget
<1>6. QED
  BY <1>3, <1>4, <1>5 DEF Shaped

\* Only some adapters ever make a second request.
LEMMA SecondsFollow ==
    ASSUME NEW a, NEW q, NEW r, NeedsSecond(a, q, r)
    PROVE  a \in Follows
  BY DEF NeedsSecond, Follows

\* The verdict after a second request is sound, for the price of the first,
\* whichever of the two replies it is made of.
LEMMA FinalSound ==
    ASSUME NEW a \in Follows, NEW q \in Asks, CanHandle(a, q),
           NEW r \in Replies(a, q), NEW d \in Downloads(a, q)
    PROVE  \E s \in {r, d} : s.cost = r.cost /\ Sound(a, q, s, Final(a, q, r, d))
<1>1. a \in AdapterNames
  BY DEF Follows, AdapterNames, Fetchers, Free, Paid
<1>2. CASE a \in ProxyUsers
  <2>1. d \in Replies(a, q)
    BY <1>2 DEF Downloads, Replies
  <2>2. Sound(a, q, d, Verdict(a, q, d, NoReply))
    BY <1>1, <2>1, VerdictSound
  <2>3. r.cost = Unreported /\ d.cost = Unreported
    BY <1>2, <2>1, ReplyShape DEF ProxyUsers
  <2>4. Verdict(a, q, d, NoReply) = Final(a, q, r, d)
    BY <1>2 DEF Final
  <2>5. QED
    BY <2>2, <2>3, <2>4
<1>3. CASE a \notin ProxyUsers
  BY <1>1, <1>3, VerdictSound DEF Final
<1>4. QED
  BY <1>2, <1>3

-----------------------------------------------------------------------------
(* One step of one call *)

\* A call whose new values are good leaves every other call as it was.
LEMMA LocalStep ==
    ASSUME CallInv, UNCHANGED fixed, NEW c \in Calls, NEW p, NEW f, NEW h, NEW b, NEW v,
           pc' = [pc EXCEPT ![c] = p], first' = [first EXCEPT ![c] = f],
           held' = [held EXCEPT ![c] = h], billed' = [billed EXCEPT ![c] = b],
           result' = [result EXCEPT ![c] = v],
           Good(adapter[c], request[c], p, f, h, b, v)
    PROVE  CallInv'
<1>1. /\ p \in Phases /\ f \in Shaped /\ h \in SUBSET Things /\ b \in Nat /\ v \in Results
  BY DEF Good, Phased, Holds, Yields, Bills
<1>2. Functions'
  BY <1>1 DEF CallInv, Functions, fixed
<1>3. /\ pc'[c] = p /\ first'[c] = f /\ held'[c] = h /\ billed'[c] = b /\ result'[c] = v
      /\ adapter' = adapter /\ request' = request
  BY DEF CallInv, Functions, fixed
<1>4. \A e \in Calls \ {c} : /\ pc'[e] = pc[e] /\ first'[e] = first[e] /\ held'[e] = held[e]
                             /\ billed'[e] = billed[e] /\ result'[e] = result[e]
  BY DEF CallInv, Functions
<1>5. ASSUME NEW e \in Calls
      PROVE  Good(adapter'[e], request'[e], pc'[e], first'[e], held'[e], billed'[e], result'[e])
  <2>1. CASE e = c
    BY <1>3, <2>1
  <2>2. CASE e # c
    <3>1. Good(adapter[e], request[e], pc[e], first[e], held[e], billed[e], result[e])
      BY DEF CallInv
    <3>2. QED
      BY <1>3, <1>4, <2>2, <3>1
  <2>3. QED
    BY <2>1, <2>2
<1>6. QED
  BY <1>2, <1>5 DEF CallInv

\* What is left alone is replaced by itself.
LEMMA Same ==
    ASSUME CallInv, NEW c \in Calls
    PROVE  /\ pc = [pc EXCEPT ![c] = pc[c]]
           /\ first = [first EXCEPT ![c] = first[c]]
           /\ held = [held EXCEPT ![c] = held[c]]
           /\ billed = [billed EXCEPT ![c] = billed[c]]
           /\ result = [result EXCEPT ![c] = result[c]]
  BY DEF CallInv, Functions

\* A call that fails before it did anything.
LEMMA RefusalStep ==
    ASSUME CallInv, NEW c \in Calls, Unavailable(c) \/ MissingLibrary(c)
    PROVE  CallInv'
<1>1. PICK reason \in {"provider_unavailable", "provider_error"} :
          /\ pc' = [pc EXCEPT ![c] = "answered"]
          /\ result' = [result EXCEPT ![c] = Failed(reason)]
          /\ UNCHANGED <<fixed, billed, first, held>>
          /\ pc[c] = "called"
  BY DEF Unavailable, MissingLibrary, Return, At
<1> DEFINE a == adapter[c]
           q == request[c]
           v == Failed(reason)
<1>2. Good(a, q, "called", first[c], held[c], billed[c], result[c])
  BY <1>1 DEF CallInv
<1>3. reason \in Reasons
  BY DEF Reasons
<1> HIDE DEF a, q
<1>4. Asking(a, q)
  BY <1>2 DEF Good
<1>5. Phased(a, q, "answered", first[c])
  BY <1>2 DEF Good, Phased, Phases
<1>6. Holds(a, "answered", held[c], v)
  BY <1>2 DEF Good, Holds, Session
<1>7. Yields(a, q, "answered", v)
  BY <1>3, <1>4, FailedYields
<1>8. Bills(a, q, "answered", first[c], billed[c], v)
  BY <1>2 DEF Good, Bills
<1> HIDE DEF v
<1>9. Good(a, q, "answered", first[c], held[c], billed[c], v)
  BY <1>4, <1>5, <1>6, <1>7, <1>8 DEF Good
<1> DEFINE f == first[c]
           h == held[c]
           b == billed[c]
           p == "answered"
<1>10. /\ pc' = [pc EXCEPT ![c] = p] /\ first' = [first EXCEPT ![c] = f]
       /\ held' = [held EXCEPT ![c] = h] /\ billed' = [billed EXCEPT ![c] = b]
       /\ result' = [result EXCEPT ![c] = v] /\ UNCHANGED fixed
  BY <1>1, Same DEF v
<1>11. Good(adapter[c], request[c], p, f, h, b, v)
  BY <1>9 DEF a, q
<1> HIDE DEF f, h, b, p
<1>12. QED
  BY <1>10, <1>11, LocalStep

\* A call that starts its request, with the thread or worker that makes it.
LEMMA SubmitStep ==
    ASSUME CallInv, NEW c \in Calls, Submit(c)
    PROVE  CallInv'
<1> DEFINE a == adapter[c]
           q == request[c]
           f == first[c]
           h == Work(a)
           b == billed[c]
           v == result[c]
           p == "waiting"
<1>1. Good(a, q, "called", f, held[c], b, v) /\ a \in Fetchers
  BY DEF Submit, At, CallInv
<1>2. h = CASE a \in Threaded -> {"thread"} [] a = "scrapy" -> {"worker"} [] OTHER -> {}
  BY DEF Work, Threaded
<1>3. /\ pc' = [pc EXCEPT ![c] = p] /\ first' = [first EXCEPT ![c] = f]
      /\ held' = [held EXCEPT ![c] = h] /\ billed' = [billed EXCEPT ![c] = b]
      /\ result' = [result EXCEPT ![c] = v] /\ UNCHANGED fixed
  BY <1>2, Same DEF Submit, Go, Hold
<1> HIDE DEF a, q, f, b, v, p
<1>4. Asking(a, q)
  BY <1>1 DEF Good
<1>5. Phased(a, q, p, f)
  BY <1>1 DEF Good, Phased, Phases, p
<1>6. Holds(a, p, h, v)
  BY <1>1 DEF Holds, Things, Session, Work, Fetchers, Free, Paid, Threaded, p
<1>7. Yields(a, q, p, v)
  BY <1>1 DEF Good, Yields, p
<1>8. Bills(a, q, p, f, b, v)
  BY <1>1 DEF Good, Bills, p
<1> HIDE DEF h
<1>9. Good(adapter[c], request[c], p, f, h, b, v)
  BY <1>4, <1>5, <1>6, <1>7, <1>8 DEF Good, a, q
<1>10. QED
  BY <1>3, <1>9, LocalStep

\* A first reply: it is judged, or followed up.
LEMMA ReplyStep ==
    ASSUME CallInv, NEW c \in Calls, Reply(c)
    PROVE  CallInv'
<1> DEFINE a == adapter[c]
           q == request[c]
           l == Lent(a, q)
<1>1. PICK r \in Replies(a, l) :
        /\ IF NeedsSecond(a, l, r)
           THEN /\ pc' = [pc EXCEPT ![c] = "following"]
                /\ first' = [first EXCEPT ![c] = r]
                /\ UNCHANGED <<held, result>>
           ELSE /\ pc' = [pc EXCEPT ![c] = "answered"]
                /\ result' = [result EXCEPT ![c] = Verdict(a, l, r, NoReply)]
                /\ held' = [held EXCEPT ![c] = LeftRunning(c, r)]
                /\ UNCHANGED first
        /\ billed' = [billed EXCEPT ![c] = IF r.cost = Unreported THEN 0 ELSE r.cost]
        /\ UNCHANGED fixed
  BY DEF Reply, Asked, Return, Go, Hold
<1> DEFINE b == IF r.cost = Unreported THEN 0 ELSE r.cost
<1>2. Good(a, q, "waiting", first[c], held[c], billed[c], result[c])
  BY DEF Reply, At, CallInv
<1> HIDE DEF a, q
<1>3. a \in Fetchers /\ a \in AdapterNames /\ a \notin Browsers /\ a # "helium"
  BY <1>2 DEF Good, Phased, AdapterNames, Fetchers, Free, Paid, Threaded, Browsers
<1>4. Asking(a, q)
  BY <1>2 DEF Good
<1>5. l \in Asks /\ CanHandle(a, l) /\ l.screenshot = q.screenshot /\ l.premium = q.premium
      /\ EffectiveCostBudget(l) = EffectiveCostBudget(q)
  BY <1>3, <1>4, LentAsk
<1>6. r \in Shaped /\ r.event # "none" /\ b \in Nat
  BY <1>5, ReplyShape DEF Shaped
<1>7. CASE NeedsSecond(a, l, r)
  <2> DEFINE p == "following"
             f == r
             h == held[c]
             v == result[c]
  <2>1. a \in Follows
    BY <1>7, SecondsFollow
  <2>2. r # NoReply
    BY <1>6 DEF NoReply
  <2>3. /\ pc' = [pc EXCEPT ![c] = p] /\ first' = [first EXCEPT ![c] = f]
        /\ held' = [held EXCEPT ![c] = h] /\ billed' = [billed EXCEPT ![c] = b]
        /\ result' = [result EXCEPT ![c] = v] /\ UNCHANGED fixed
    BY <1>1, <1>7, Same
  <2> HIDE DEF l, h, v
  <2>4. Phased(a, q, p, f)
    BY <1>1, <1>2, <1>6, <2>1, <2>2 DEF Good, Phased, Phases, l
  <2>5. Holds(a, p, h, v)
    <3>1. h = {}
      BY <1>2, <2>1 DEF Good, Holds, Work, Follows, Threaded, h
    <3>2. QED
      BY <1>3, <3>1 DEF Holds, Session
  <2>6. Yields(a, q, p, v)
    BY <1>2 DEF Good, Yields, v
  <2>7. Bills(a, q, p, f, b, v)
    BY <1>3, <1>6 DEF Bills
  <2> HIDE DEF p, f, b
  <2>8. Good(adapter[c], request[c], p, f, h, b, v)
    BY <1>4, <2>4, <2>5, <2>6, <2>7 DEF Good, a, q
  <2>9. QED
    BY <2>3, <2>8, LocalStep
<1>8. CASE ~NeedsSecond(a, l, r)
  <2> DEFINE p == "answered"
             f == first[c]
             h == LeftRunning(c, r)
             v == Verdict(a, l, r, NoReply)
  <2>1. Sound(a, l, r, v)
    BY <1>3, <1>5, VerdictSound
  <2>2. /\ pc' = [pc EXCEPT ![c] = p] /\ first' = [first EXCEPT ![c] = f]
        /\ held' = [held EXCEPT ![c] = h] /\ billed' = [billed EXCEPT ![c] = b]
        /\ result' = [result EXCEPT ![c] = v] /\ UNCHANGED fixed
    BY <1>1, <1>8, Same
  <2>3. Phased(a, q, p, f)
    BY <1>2, <1>3 DEF Good, Phased, Phases, None, AdapterNames, Fetchers, Free, Paid, Threaded
  <2>4. Holds(a, p, h, v)
    <3>1. held[c] \in SUBSET Things
      BY <1>2 DEF Good, Holds
    <3>2. CASE a = "spider_rs" /\ r.event = "timeout"
      <4>1. v.reason = "timeout"
        BY <3>2 DEF Verdict, SpiderRs, Rendered, Fetched, ApiRaised, Failed, Answer, Shaped
      <4>2. h = held[c]
        BY <3>2 DEF LeftRunning, a
      <4> HIDE DEF h, v
      <4>3. QED
        BY <1>3, <3>1, <3>2, <4>1, <4>2 DEF Holds, Session
    <3>3. CASE ~(a = "spider_rs" /\ r.event = "timeout")
      <4>1. h = {}
        BY <3>3 DEF LeftRunning, a
      <4> HIDE DEF h, v
      <4>2. QED
        BY <1>3, <4>1 DEF Holds, Session
    <3>4. QED
      BY <3>2, <3>3
  <2>5. Yields(a, q, p, v)
    <3> HIDE DEF v, p
    <3>1. QED
      BY <1>3, <1>4, <2>1, SoundYields
  <2>6. Bills(a, q, p, f, b, v)
    <3>1. b # 0 => v.row /\ v.exact /\ v.cost = b
      BY <2>1 DEF Sound, Booked
    <3>2. ASSUME b # 0, a = "scrapfly", q.premium, q.capped
          PROVE  b <= q.allowance
      <4>1. b = r.cost /\ r.cost # Unreported
        BY <3>2
      <4>2. r.cost <= q.allowance
        BY <1>4, <3>2, <4>1, BudgetKept
      <4>3. QED
        BY <4>1, <4>2
    <3> HIDE DEF v, b
    <3>3. QED
      BY <1>3, <1>6, <3>1, <3>2 DEF Bills
  <2> HIDE DEF p, f, h, b, v
  <2>7. Good(adapter[c], request[c], p, f, h, b, v)
    BY <1>4, <2>3, <2>4, <2>5, <2>6 DEF Good, a, q
  <2>8. QED
    BY <2>2, <2>7, LocalStep
<1>9. QED
  BY <1>7, <1>8

\* A second request ends the call, for the price of the first.
LEMMA FollowUpStep ==
    ASSUME CallInv, NEW c \in Calls, FollowUp(c)
    PROVE  CallInv'
<1> DEFINE a == adapter[c]
           q == request[c]
           l == Lent(a, q)
           r == first[c]
<1>1. PICK d \in Downloads(a, l) :
        /\ pc' = [pc EXCEPT ![c] = "answered"]
        /\ result' = [result EXCEPT ![c] = Final(a, l, r, d)]
        /\ first' = [first EXCEPT ![c] = NoReply]
        /\ UNCHANGED <<fixed, billed, held>>
  BY DEF FollowUp, Asked, Return
<1> DEFINE p == "answered"
           f == NoReply
           h == held[c]
           b == billed[c]
           v == Final(a, l, r, d)
<1>2. Good(a, q, "following", r, held[c], billed[c], result[c])
  BY DEF FollowUp, At, CallInv
<1>3. /\ pc' = [pc EXCEPT ![c] = p] /\ first' = [first EXCEPT ![c] = f]
      /\ held' = [held EXCEPT ![c] = h] /\ billed' = [billed EXCEPT ![c] = b]
      /\ result' = [result EXCEPT ![c] = v] /\ UNCHANGED fixed
  BY <1>1, Same
<1> HIDE DEF a, q, r
<1>4. /\ a \in Follows /\ a \in AdapterNames /\ a \notin Browsers /\ a # "helium" /\ a # None
      /\ r \in Replies(a, l)
  BY <1>2 DEF Good, Phased, Follows, AdapterNames, Fetchers, Free, Paid, Threaded, Browsers, None
<1>5. Asking(a, q)
  BY <1>2 DEF Good
<1>6. l \in Asks /\ CanHandle(a, l) /\ l.screenshot = q.screenshot /\ l.premium = q.premium
      /\ EffectiveCostBudget(l) = EffectiveCostBudget(q)
  BY <1>4, <1>5, LentAsk
<1>7. PICK s \in {r, d} : s.cost = r.cost /\ Sound(a, l, s, v)
  BY <1>4, <1>6, FinalSound
<1>8. r \in Shaped /\ b \in Nat /\ b = (IF r.cost = Unreported THEN 0 ELSE r.cost)
  BY <1>2 DEF Good, Phased, Bills
<1>9. Phased(a, q, p, f)
  <2>1. NoReply \in Shaped
    BY UnreportedType DEF NoReply, Shaped, Events, Bodies
  <2>2. QED
    BY <1>4, <2>1 DEF Phased, Phases
<1>10. Holds(a, p, h, v)
  <2>1. h = {}
    BY <1>2 DEF Good, Holds
  <2> HIDE DEF h, v
  <2>2. QED
    BY <1>4, <2>1 DEF Holds, Session
<1>11. Yields(a, q, p, v)
  <2> HIDE DEF v, p
  <2>1. QED
    BY <1>4, <1>5, <1>7, SoundYields DEF l
<1>12. Bills(a, q, p, f, b, v)
  <2>1. b # 0 => v.row /\ v.exact /\ v.cost = b
    BY <1>7, <1>8 DEF Sound, Booked
  <2>2. ASSUME b # 0, a = "scrapfly", q.premium, q.capped
        PROVE  b <= q.allowance
    <3>1. b = r.cost /\ r.cost # Unreported
      BY <1>8, <2>2
    <3>2. r.cost <= q.allowance
      BY <1>4, <1>5, <2>2, <3>1, BudgetKept
    <3>3. QED
      BY <3>1, <3>2
  <2> HIDE DEF v, b
  <2>3. QED
    BY <1>4, <1>8, <2>1, <2>2 DEF Bills
<1> HIDE DEF p, f, h, b, v
<1>13. Good(adapter[c], request[c], p, f, h, b, v)
  BY <1>5, <1>9, <1>10, <1>11, <1>12 DEF Good, a, q
<1>14. QED
  BY <1>3, <1>13, LocalStep

\* A browser that starts.
LEMMA LaunchStep ==
    ASSUME CallInv, NEW c \in Calls, Launch(c)
    PROVE  CallInv'
<1> DEFINE a == adapter[c]
           q == request[c]
           p == "open"
           f == first[c]
           h == Place(a)
           b == billed[c]
           v == result[c]
<1>1. Good(a, q, "called", f, held[c], b, v) /\ a \in Browsers \ {"helium"}
  BY DEF Launch, At, CallInv
<1>2. /\ pc' = [pc EXCEPT ![c] = p] /\ first' = [first EXCEPT ![c] = f]
      /\ held' = [held EXCEPT ![c] = h] /\ billed' = [billed EXCEPT ![c] = b]
      /\ result' = [result EXCEPT ![c] = v] /\ UNCHANGED fixed
  BY Same DEF Launch, Go, Hold, Own, Place
<1> HIDE DEF a, q, f, b, v, p, h
<1>3. Asking(a, q)
  BY <1>1 DEF Good
<1>4. Phased(a, q, p, f)
  BY <1>1 DEF Good, Phased, Phases, p
<1>5. Holds(a, p, h, v)
  BY <1>1 DEF Holds, Things, Session, Place, p, h
<1>6. Yields(a, q, p, v)
  BY <1>1 DEF Good, Yields, p
<1>7. Bills(a, q, p, f, b, v)
  BY <1>1 DEF Good, Bills, p
<1>8. Good(adapter[c], request[c], p, f, h, b, v)
  BY <1>3, <1>4, <1>5, <1>6, <1>7 DEF Good, a, q
<1>9. QED
  BY <1>2, <1>8, LocalStep

\* A step inside a session: only the phase and the result change.
LEMMA SessionStep ==
    ASSUME CallInv, NEW c \in Calls, NEW p \in Session \ {"starting"}, NEW v,
           pc[c] \in Session, adapter[c] \in Browsers, Yields(adapter[c], request[c], p, v),
           pc' = [pc EXCEPT ![c] = p], result' = [result EXCEPT ![c] = v],
           UNCHANGED <<fixed, billed, first, held>>
    PROVE  CallInv'
<1> DEFINE a == adapter[c]
           q == request[c]
           f == first[c]
           h == held[c]
           b == billed[c]
           o == pc[c]
<1>1. Good(a, q, o, f, h, b, result[c])
  BY DEF CallInv
<1>2. /\ first' = [first EXCEPT ![c] = f]
      /\ held' = [held EXCEPT ![c] = h] /\ billed' = [billed EXCEPT ![c] = b]
      /\ UNCHANGED fixed
  BY Same
<1>3. o \in Session /\ a \in Browsers /\ Yields(a, q, p, v)
  OBVIOUS
<1> HIDE DEF a, q, f, h, b, o
<1>4. Asking(a, q)
  BY <1>1 DEF Good
<1>5. Phased(a, q, p, f)
  BY <1>1, <1>3 DEF Good, Phased, Phases, Session, None, Browsers
<1>6. Holds(a, p, h, v)
  BY <1>1, <1>3 DEF Good, Holds, Session
<1>7. Bills(a, q, p, f, b, v)
  BY <1>1, <1>3 DEF Good, Bills, Session
<1>8. Good(adapter[c], request[c], p, f, h, b, v)
  BY <1>3, <1>4, <1>5, <1>6, <1>7 DEF Good, a, q
<1>9. QED
  BY <1>2, <1>8, LocalStep

\* A browser's page is read: its verdict may lack only the picture.
LEMMA ReadPageStep ==
    ASSUME CallInv, NEW c \in Calls, ReadPage(c)
    PROVE  CallInv'
<1> DEFINE a == adapter[c]
           q == request[c]
           l == Lent(a, q)
<1>1. PICK r \in Replies(a, l) :
        /\ result' = [result EXCEPT ![c] = Verdict(a, l, r, NoReply)]
        /\ pc' = [pc EXCEPT ![c] = IF r.event = "reply" /\ l.screenshot THEN "shooting"
                                   ELSE "closing"]
        /\ UNCHANGED <<fixed, billed, first, held>>
  BY DEF ReadPage, Asked, Go
<1> DEFINE p == IF r.event = "reply" /\ l.screenshot THEN "shooting" ELSE "closing"
           v == Verdict(a, l, r, NoReply)
<1>2. Good(a, q, "open", first[c], held[c], billed[c], result[c]) /\ pc[c] = "open"
  BY DEF ReadPage, At, CallInv
<1>3. Asking(a, q) /\ a \in Browsers /\ a \in AdapterNames
  BY <1>2 DEF Good, Phased, AdapterNames
<1> HIDE DEF a, q
<1>4. l \in Asks /\ CanHandle(a, l) /\ l.screenshot = q.screenshot
  BY <1>3, LentAsk
<1>5. Sound(a, l, r, v)
  BY <1>3, <1>4, VerdictSound
<1>6. v.ok /\ q.screenshot => p = "shooting"
  BY <1>4, <1>5 DEF Sound
<1>7. p \in Session \ {"starting"}
  BY DEF Session
<1>8. pc' = [pc EXCEPT ![c] = p] /\ result' = [result EXCEPT ![c] = v]
  BY <1>1
<1> HIDE DEF v, p
<1>9. Yields(a, q, p, v)
  BY <1>3, <1>5, <1>6, SoundYields DEF l
<1>10. pc[c] \in Session
  BY <1>2 DEF Session
<1>11. adapter[c] \in Browsers /\ Yields(adapter[c], request[c], p, v)
  BY <1>3, <1>9 DEF a, q
<1>12. QED
  BY <1>1, <1>7, <1>8, <1>10, <1>11, SessionStep

\* The error that ends a session is one of the replies of its adapter.
LEMMA ErrorReply ==
    ASSUME NEW a, NEW q
    PROVE  [NoReply EXCEPT !.event = "error"] \in Replies(a, q)
  BY DEF Replies, Exceptions

\* A browser's picture is taken, spared, or costs the page.
LEMMA ShootStep ==
    ASSUME CallInv, NEW c \in Calls, Shoot(c)
    PROVE  CallInv'
<1> DEFINE a == adapter[c]
           q == request[c]
           l == Lent(a, q)
           error == [NoReply EXCEPT !.event = "error"]
           old == result[c]
           p == "closing"
<1>1. Good(a, q, "shooting", first[c], held[c], billed[c], old) /\ pc[c] = "shooting"
  BY DEF Shoot, At, CallInv
<1>2. Asking(a, q) /\ a \in Browsers /\ a \in AdapterNames /\ Yields(a, q, "shooting", old)
  BY <1>1 DEF Good, Phased, AdapterNames
<1>3. pc[c] \in Session /\ p \in Session \ {"starting"}
  BY <1>1 DEF Session
<1>4. pc' = [pc EXCEPT ![c] = p] /\ UNCHANGED <<fixed, billed, first, held>>
  BY DEF Shoot, Go
<1>5. ASSUME NEW v, Yields(a, q, p, v), result' = [result EXCEPT ![c] = v]
      PROVE  CallInv'
  <2> HIDE DEF p
  <2>1. QED
    BY <1>2, <1>3, <1>4, <1>5, SessionStep
<1>6. CASE result' = [result EXCEPT ![c].shot = TRUE]
  <2> DEFINE v == [old EXCEPT !.shot = TRUE]
  <2>1. old \in Results
    BY <1>2 DEF Yields
  <2>2. /\ v \in Results /\ v.shot = TRUE
        /\ v.ok = old.ok /\ v.reason = old.reason /\ v.html = old.html /\ v.status = old.status
        /\ v.cost = old.cost /\ v.exact = old.exact /\ v.row = old.row
    BY <2>1 DEF Results
  <2>3. result' = [result EXCEPT ![c] = v]
    BY <1>6
  <2> HIDE DEF v, old, a, q
  <2>4. Yields(a, q, p, v)
    BY <1>2, <2>2 DEF Yields, Usable
  <2>5. QED
    BY <1>5, <2>3, <2>4
<1>7. CASE SparesShot(c) /\ UNCHANGED result
  <2>1. result' = [result EXCEPT ![c] = old]
    BY <1>7, Same
  <2>2. a \in {"pydoll", "crawlee"}
    BY <1>7 DEF SparesShot
  <2> HIDE DEF old, a, q
  <2>3. Yields(a, q, p, old)
    BY <1>2, <2>2 DEF Yields
  <2>4. QED
    BY <1>5, <2>1, <2>3
<1>8. CASE result' = [result EXCEPT ![c] = Verdict(a, l, error, NoReply)]
  <2> DEFINE v == Verdict(a, l, error, NoReply)
  <2>1. error \in Replies(a, l)
    BY ErrorReply
  <2>2. error.event = "error"
    BY DEF NoReply
  <2> HIDE DEF error, a, q
  <2>3. Sound(a, l, error, v)
    BY <1>2, <2>1, LentAsk, VerdictSound
  <2>4. ~v.ok
    BY <2>2, <2>3 DEF Sound
  <2> HIDE DEF v, p
  <2>5. Yields(a, q, p, v)
    BY <1>2, <2>3, <2>4, SoundYields DEF l
  <2>6. QED
    BY <1>5, <1>8, <2>5 DEF v
<1>9. QED
  BY <1>6, <1>7, <1>8 DEF Shoot, Asked

\* What Helium raises becomes a failure.
LEMMA HeliumRaised ==
    ASSUME NEW q, NEW r \in Exceptions
    PROVE  \E reason \in Reasons : Helium(q, r) = Failed(reason)
<1>1. PICK event \in {"timeout", "proxy", "error"} : r = [NoReply EXCEPT !.event = event]
  BY DEF Exceptions
<1>2. r.event = event /\ [r EXCEPT !.http = 200].event = event
  BY <1>1 DEF NoReply
<1> DEFINE seen == [r EXCEPT !.http = 200]
<1>3. seen.event = event
  BY <1>2
<1> HIDE DEF seen
<1>4. Fetched(seen, TRUE, EngineRaised(event)) = EngineRaised(event)
  BY <1>3 DEF Fetched
<1>5. Helium(q, r) = EngineRaised(event)
  BY <1>2, <1>4 DEF Helium, Rendered, seen
<1>6. QED
  BY <1>5, RaisedSound

\* A session whose browser fails it goes on to its finally.
LEMMA FailingStep ==
    ASSUME CallInv, NEW c \in Calls, LosesBrowser(c) \/ StartFails(c)
    PROVE  /\ CallInv'
           /\ pc' = [pc EXCEPT ![c] = "closing"]
           /\ \E reason \in Reasons : result' = [result EXCEPT ![c] = Failed(reason)]
<1> DEFINE a == adapter[c]
           q == request[c]
           p == "closing"
<1>1. [NoReply EXCEPT !.event = "error"] \in Exceptions
  BY DEF Exceptions
<1>2. PICK r \in Exceptions : result' = [result EXCEPT ![c] = Helium(request[c], r)]
  BY <1>1 DEF LosesBrowser, StartFails, Raises
<1>3. PICK reason \in Reasons : Helium(request[c], r) = Failed(reason)
  BY HeliumRaised
<1>4. Asking(a, q)
  BY DEF CallInv, Good
<1> DEFINE v == Failed(reason)
<1>5. Yields(a, q, p, v)
  BY <1>4, FailedYields
<1>6. /\ pc[c] \in Session /\ p \in Session \ {"starting"} /\ adapter[c] \in Browsers
      /\ pc' = [pc EXCEPT ![c] = p] /\ result' = [result EXCEPT ![c] = v]
      /\ UNCHANGED <<fixed, billed, first, held>>
  BY <1>2, <1>3 DEF LosesBrowser, StartFails, Session, Browsers, Go, At
<1> HIDE DEF v, p
<1>7. CallInv'
  BY <1>5, <1>6, SessionStep
<1>8. QED
  BY <1>6, <1>7 DEF v, p

\* Helium asks the library for its current driver.
LEMMA GetDriverStep ==
    ASSUME CallInv, NEW c \in Calls, GetDriver(c)
    PROVE  CallInv'
<1> DEFINE p == "open"
           v == result[c]
<1>1. Yields(adapter[c], request[c], "starting", v)
  BY DEF CallInv, Good, GetDriver, At
<1>2. /\ pc[c] \in Session /\ p \in Session \ {"starting"} /\ adapter[c] \in Browsers
      /\ pc' = [pc EXCEPT ![c] = p] /\ result' = [result EXCEPT ![c] = v]
      /\ UNCHANGED <<fixed, billed, first, held>>
  BY Same DEF GetDriver, Session, Browsers, Go, At
<1> HIDE DEF v
<1>3. Yields(adapter[c], request[c], p, v)
  BY <1>1 DEF Yields
<1> HIDE DEF p
<1>4. QED
  BY <1>2, <1>3, SessionStep

\* A browser's call that ends: what it may leave behind depends on the adapter.
LEMMA EndStep ==
    ASSUME CallInv, NEW c \in Calls, adapter[c] \in Browsers,
           pc[c] \in Session \cup {"called"},
           NEW p \in {"answered", "raised", "cancelled"}, NEW h, NEW v,
           p = "raised" => adapter[c] # "helium",
           Yields(adapter[c], request[c], p, v), Holds(adapter[c], p, h, v),
           pc' = [pc EXCEPT ![c] = p], held' = [held EXCEPT ![c] = h],
           result' = [result EXCEPT ![c] = v],
           UNCHANGED <<fixed, billed, first>>
    PROVE  CallInv'
<1> DEFINE a == adapter[c]
           q == request[c]
           f == first[c]
           b == billed[c]
           o == pc[c]
<1>1. Good(a, q, o, f, held[c], b, result[c])
  BY DEF CallInv
<1>2. /\ first' = [first EXCEPT ![c] = f] /\ billed' = [billed EXCEPT ![c] = b]
      /\ UNCHANGED fixed
  BY Same
<1>3. /\ o \in Session \cup {"called"} /\ a \in Browsers /\ Yields(a, q, p, v) /\ Holds(a, p, h, v)
      /\ p = "raised" => a # "helium"
  OBVIOUS
<1> HIDE DEF a, q, f, b, o
<1>4. Asking(a, q)
  BY <1>1 DEF Good
<1>5. Phased(a, q, p, f)
  BY <1>1, <1>3 DEF Good, Phased, Phases, Session, None, Browsers
<1>6. Bills(a, q, p, f, b, v)
  BY <1>1, <1>3 DEF Good, Bills
<1>7. Good(adapter[c], request[c], p, f, h, b, v)
  BY <1>3, <1>4, <1>5, <1>6 DEF Good, a, q
<1>8. QED
  BY <1>2, <1>7, LocalStep

\* A close lets go of everything, but for the remote page of a call that failed.
LEMMA CloseStep ==
    ASSUME CallInv, NEW c \in Calls, Close(c)
    PROVE  CallInv'
<1> DEFINE a == adapter[c]
           p == Ended(c)
           v == result[c]
<1>1. PICK h \in {{}, Released(c)} : held' = [held EXCEPT ![c] = h]
  BY DEF Close, Hold
<1>2. Good(a, request[c], "closing", first[c], held[c], billed[c], v) /\ pc[c] = "closing"
  BY DEF Close, At, CallInv
<1>3. a \in Browsers /\ a # "helium" /\ p \in {"answered", "raised", "cancelled"}
      /\ held[c] = Place(a)
  BY <1>2 DEF Good, Phased, Holds, Session, Close, Ended
<1>4. /\ pc' = [pc EXCEPT ![c] = p] /\ result' = [result EXCEPT ![c] = v]
      /\ UNCHANGED <<fixed, billed, first>> /\ pc[c] \in Session
  BY <1>2, Same DEF Close, Go, Session
<1>5. Yields(a, request[c], p, v)
  BY <1>2, <1>3 DEF Good, Yields
<1>6. h = {} \/ (a = "cdp" /\ v.status = 0 /\ h = Place(a))
  BY <1>1, <1>3 DEF Released
<1> HIDE DEF p, v
<1>7. Holds(a, p, h, v)
  BY <1>3, <1>6 DEF Holds, Place, Things, Session
<1>8. QED
  BY <1>1, <1>3, <1>4, <1>5, <1>7, EndStep

\* A close that fails costs the page, or leaves as an exception.
LEMMA CloseFailsStep ==
    ASSUME CallInv, NEW c \in Calls, CloseFails(c)
    PROVE  CallInv'
<1> DEFINE a == adapter[c]
           q == request[c]
<1>1. Good(a, q, "closing", first[c], held[c], billed[c], result[c]) /\ pc[c] = "closing"
  BY DEF CloseFails, At, CallInv
<1>2. a \in Browsers /\ Asking(a, q) /\ pc[c] \in Session /\ UNCHANGED <<fixed, billed, first>>
  BY <1>1 DEF Good, Phased, CloseFails, Session
<1>3. CASE /\ a \in {"playwright", "patchright", "camoufox", "cdp"}
           /\ Return(c, Failed("provider_error"))
           /\ \E left \in {{}, IF a = "cdp" THEN held[c] ELSE {}} : Hold(c, left)
  <2> DEFINE p == "answered"
             reason == "provider_error"
             v == Failed(reason)
  <2>1. PICK h \in {{}, IF a = "cdp" THEN held[c] ELSE {}} : held' = [held EXCEPT ![c] = h]
    BY <1>3 DEF Hold
  <2>2. pc' = [pc EXCEPT ![c] = p] /\ result' = [result EXCEPT ![c] = v] /\ a # "helium"
    BY <1>3 DEF Return
  <2>3. v.status = 0 /\ reason \in Reasons
    BY DEF Failed, Answer, Reasons
  <2> HIDE DEF reason
  <2>4. Yields(a, q, p, v)
    BY <1>2, <2>3, FailedYields
  <2>5. held[c] \in SUBSET Things
    BY <1>1 DEF Good, Holds
  <2> HIDE DEF v
  <2>6. Holds(a, p, h, v)
    BY <2>1, <2>2, <2>3, <2>5 DEF Holds, Session
  <2> HIDE DEF p
  <2>7. p \in {"answered", "raised", "cancelled"}
    BY DEF p
  <2>8. QED
    BY <1>2, <2>1, <2>2, <2>4, <2>6, <2>7, EndStep
<1>4. CASE /\ a \in {"pydoll", "nodriver", "seleniumbase", "cdp"}
           /\ Go(c, "raised")
           /\ UNCHANGED <<held, result>>
  <2> DEFINE p == "raised"
             h == held[c]
             v == result[c]
  <2>1. /\ pc' = [pc EXCEPT ![c] = p] /\ result' = [result EXCEPT ![c] = v]
        /\ held' = [held EXCEPT ![c] = h] /\ a # "helium"
    BY <1>4, Same DEF Go
  <2>2. Yields(a, q, p, v)
    BY <1>1 DEF Good, Yields
  <2>3. Holds(a, p, h, v)
    BY <1>1, <2>1 DEF Good, Holds, Session
  <2> HIDE DEF p, h, v
  <2>4. p \in {"answered", "raised", "cancelled"}
    BY DEF p
  <2>5. QED
    BY <1>2, <2>1, <2>2, <2>3, <2>4, EndStep
<1>5. QED
  BY <1>3, <1>4 DEF CloseFails

\* A cancelled start leaves what is not in a variable yet.
LEMMA CancelLaunchStep ==
    ASSUME CallInv, NEW c \in Calls, CancelLaunch(c)
    PROVE  CallInv'
<1> DEFINE a == adapter[c]
           q == request[c]
           p == "cancelled"
           v == result[c]
<1>1. PICK h \in {{}, IF a \in {"nodriver", "seleniumbase", "cdp"} THEN Own(c) ELSE {}} :
          held' = [held EXCEPT ![c] = h]
  BY DEF CancelLaunch, Hold
<1>2. Good(a, q, "called", first[c], held[c], billed[c], v) /\ pc[c] = "called"
  BY DEF CancelLaunch, At, CallInv
<1>3. /\ a \in Browsers /\ pc[c] \in Session \cup {"called"}
      /\ UNCHANGED <<fixed, billed, first>>
      /\ pc' = [pc EXCEPT ![c] = p] /\ result' = [result EXCEPT ![c] = v]
  BY <1>2, Same DEF CancelLaunch, Go
<1>4. Yields(a, q, p, v)
  BY <1>2 DEF Good, Yields
<1>5. h = {} \/ (a \in {"nodriver", "seleniumbase", "cdp"} /\ h \in SUBSET Things)
  BY <1>1 DEF Own, Things
<1> HIDE DEF v
<1>6. Holds(a, p, h, v)
  BY <1>3, <1>5 DEF Holds, Session
<1>7. p \in {"answered", "raised", "cancelled"} /\ p # "raised"
  OBVIOUS
<1> HIDE DEF p
<1>8. QED
  BY <1>1, <1>3, <1>4, <1>6, <1>7, EndStep

\* A cancelled call forgets its reply and its result; a browser is still closed.
LEMMA CancelStep ==
    ASSUME CallInv, NEW c \in Calls, Cancel(c)
    PROVE  CallInv'
<1> DEFINE a == adapter[c]
           q == request[c]
           o == pc[c]
           p == IF a \in Browsers \ {"cdp"} THEN "closing" ELSE "cancelled"
           f == NoReply
           h == held[c]
           b == billed[c]
           reason == "pending"
           v == Failed(reason)
<1>1. Good(a, q, o, first[c], h, b, result[c])
  BY DEF CallInv
<1>2. o \in {"waiting", "following", "open", "shooting"} /\ a # "helium"
  BY DEF Cancel
<1>3. /\ pc' = [pc EXCEPT ![c] = p] /\ first' = [first EXCEPT ![c] = f]
      /\ held' = [held EXCEPT ![c] = h] /\ billed' = [billed EXCEPT ![c] = b]
      /\ result' = [result EXCEPT ![c] = v] /\ UNCHANGED fixed
  BY Same DEF Cancel, Go, NoResult
<1>4. reason \in Reasons
  BY DEF Reasons
<1> HIDE DEF a, q, o, h, b, reason
<1>5. Asking(a, q) /\ a # None /\ (o \in {"open", "shooting"} <=> a \in Browsers)
  BY <1>1, <1>2 DEF Good, Phased, Fetchers, Free, Paid, Threaded, Browsers, Follows, None
<1>6. Phased(a, q, p, f)
  <2>1. NoReply \in Shaped
    BY UnreportedType DEF NoReply, Shaped, Events, Bodies
  <2>2. QED
    BY <1>2, <1>5, <2>1 DEF Phased, Phases
<1>7. Holds(a, p, h, v)
  BY <1>1, <1>2, <1>5 DEF Good, Holds, Session, Work, Place
<1>8. Yields(a, q, p, v)
  <2> HIDE DEF p
  <2>1. QED
    BY <1>4, <1>5, FailedYields
<1>9. Bills(a, q, p, f, b, v)
  BY <1>1, <1>5 DEF Good, Bills
<1> HIDE DEF p, f, v
<1>10. Good(adapter[c], request[c], p, f, h, b, v)
  BY <1>5, <1>6, <1>7, <1>8, <1>9 DEF Good, a, q
<1>11. QED
  BY <1>3, <1>10, LocalStep

\* A thread or worker that was given up runs to its own end.
LEMMA RunsOutStep ==
    ASSUME CallInv, NEW c \in Calls, RunsOut(c)
    PROVE  CallInv'
<1> DEFINE a == adapter[c]
           q == request[c]
           p == pc[c]
           f == first[c]
           h == {}
           b == billed[c]
           v == result[c]
<1>1. Good(a, q, p, f, held[c], b, v) /\ p \in {"answered", "cancelled"}
  BY DEF CallInv, RunsOut
<1>2. /\ pc' = [pc EXCEPT ![c] = p] /\ first' = [first EXCEPT ![c] = f]
      /\ held' = [held EXCEPT ![c] = h] /\ billed' = [billed EXCEPT ![c] = b]
      /\ result' = [result EXCEPT ![c] = v] /\ UNCHANGED fixed
  BY Same DEF RunsOut, Hold
<1> HIDE DEF a, q, p, f, b, v
<1>3. Holds(a, p, h, v)
  BY <1>1 DEF Good, Holds, Session
<1> HIDE DEF h
<1>4. Good(adapter[c], request[c], p, f, h, b, v)
  BY <1>1, <1>3 DEF Good, a, q
<1>5. QED
  BY <1>2, <1>4, LocalStep

\* A Helium call that is no longer awaited goes on as it was.
LEMMA CancelSessionStep ==
    ASSUME CallInv, NEW c \in Calls, CancelSession(c)
    PROVE  CallInv'
  BY DEF CancelSession, CallInv, Functions, fixed

\* Helium starts a browser in a thread, or fails to.
LEMMA StartChromeStep ==
    ASSUME CallInv, NEW c \in Calls, StartChrome(c)
    PROVE  CallInv'
<1> DEFINE a == adapter[c]
           q == request[c]
           f == first[c]
           b == billed[c]
<1>1. Good(a, q, "called", f, held[c], b, result[c]) /\ a = "helium"
  BY DEF CallInv, StartChrome, At
<1>2. /\ first' = [first EXCEPT ![c] = f] /\ billed' = [billed EXCEPT ![c] = b]
      /\ UNCHANGED fixed
  BY Same DEF StartChrome
<1>3. ASSUME NEW p \in {"starting", "closing"}, NEW h, NEW v,
             {"thread"} \subseteq h, h \subseteq {"thread", "browser"}, Yields(a, q, p, v),
             pc' = [pc EXCEPT ![c] = p], held' = [held EXCEPT ![c] = h],
             result' = [result EXCEPT ![c] = v]
      PROVE  CallInv'
  <2> HIDE DEF a, q, f, b
  <2>1. Phased(a, q, p, f)
    BY <1>1, <1>3 DEF Good, Phased, Phases, Browsers
  <2>2. Holds(a, p, h, v)
    BY <1>1, <1>3 DEF Holds, Session, Things
  <2>3. Bills(a, q, p, f, b, v)
    BY <1>1, <1>3 DEF Good, Bills
  <2>4. Good(adapter[c], request[c], p, f, h, b, v)
    BY <1>1, <1>3, <2>1, <2>2, <2>3 DEF Good, a, q
  <2>5. QED
    BY <1>2, <1>3, <2>4, LocalStep
<1>4. CASE Go(c, "starting") /\ Hold(c, {"thread", "browser"}) /\ UNCHANGED result
  <2> DEFINE p == "starting"
             h == {"thread", "browser"}
             v == result[c]
  <2>1. /\ pc' = [pc EXCEPT ![c] = p] /\ held' = [held EXCEPT ![c] = h]
        /\ result' = [result EXCEPT ![c] = v]
    BY <1>4, Same DEF Go, Hold
  <2> HIDE DEF a, q, f, b, v
  <2>2. Yields(a, q, p, v)
    BY <1>1 DEF Good, Yields, v
  <2>3. p \in {"starting", "closing"} /\ {"thread"} \subseteq h /\ h \subseteq {"thread", "browser"}
    OBVIOUS
  <2> HIDE DEF p, h
  <2>4. QED
    BY <1>3, <2>1, <2>2, <2>3
<1>5. CASE Go(c, "closing") /\ Hold(c, {"thread"}) /\ Raises(c)
  <2> DEFINE p == "closing"
             h == {"thread"}
  <2>1. PICK r \in Exceptions : result' = [result EXCEPT ![c] = Helium(request[c], r)]
    BY <1>5 DEF Raises
  <2>2. PICK reason \in Reasons : Helium(request[c], r) = Failed(reason)
    BY HeliumRaised
  <2> DEFINE v == Failed(reason)
  <2>3. /\ pc' = [pc EXCEPT ![c] = p] /\ held' = [held EXCEPT ![c] = h]
        /\ result' = [result EXCEPT ![c] = v]
    BY <1>5, <2>1, <2>2 DEF Go, Hold
  <2> HIDE DEF a, q, f, b
  <2>4. Yields(a, q, p, v)
    <3> HIDE DEF p
    <3>1. QED
      BY <1>1, FailedYields DEF Good
  <2>5. p \in {"starting", "closing"} /\ {"thread"} \subseteq h /\ h \subseteq {"thread", "browser"}
    OBVIOUS
  <2> HIDE DEF p, h, v
  <2>6. QED
    BY <1>3, <2>3, <2>4, <2>5
<1>6. QED
  BY <1>4, <1>5 DEF StartChrome

\* Helium's finally takes the current browser, whoever started it.
LEMMA KillBrowserStep ==
    ASSUME CallInv, SoloInv, NEW c \in Calls, KillBrowser(c)
    PROVE  CallInv'
<1> DEFINE Gone(e) == (IF e = driver THEN {"browser"} ELSE {})
                        \cup (IF e = c THEN {"thread"} ELSE {})
           outcome == IF driver = None THEN Failed("provider_error") ELSE result[c]
           last == IF awaited[c] THEN "answered" ELSE "cancelled"
<1>1. /\ pc[c] = "closing" /\ adapter[c] = "helium"
      /\ held' = [e \in Calls |-> held[e] \ Gone(e)]
      /\ pc' = [pc EXCEPT ![c] = last]
      /\ UNCHANGED <<fixed, billed, first>>
  BY DEF KillBrowser, At, Go
<1>2. result' = [result EXCEPT ![c] = outcome]
  BY Same DEF KillBrowser
<1>3. Good(adapter[c], request[c], "closing", first[c], held[c], billed[c], result[c])
  BY <1>1 DEF CallInv
<1>4. Yields(adapter[c], request[c], last, outcome)
  <2>1. Asking(adapter[c], request[c])
    BY <1>3 DEF Good
  <2> DEFINE reason == "provider_error"
             a == adapter[c]
             q == request[c]
             p == last
  <2>2. reason \in Reasons
    BY DEF Reasons
  <2> HIDE DEF reason, p
  <2>3. Yields(a, q, p, Failed(reason))
    <3> HIDE DEF a, q
    <3>1. QED
      BY <2>1, <2>2, FailedYields DEF a, q
  <2>4. Yields(a, q, last, result[c])
    BY <1>3 DEF Good, Yields
  <2>5. QED
    BY <2>3, <2>4 DEF reason, p
<1>0. last \in {"answered", "cancelled"}
  OBVIOUS
<1> HIDE DEF outcome, last
<1>5. outcome \in Results
  BY <1>4 DEF Yields
<1>6. held \in [Calls -> SUBSET Things] /\ pc \in [Calls -> Phases] /\ result \in [Calls -> Results]
  BY DEF CallInv, Functions
<1>7. /\ \A e \in Calls : held'[e] = held[e] \ Gone(e)
      /\ pc'[c] = last /\ result'[c] = outcome
      /\ \A e \in Calls \ {c} : pc'[e] = pc[e] /\ result'[e] = result[e]
      /\ UNCHANGED <<adapter, request, billed, first>>
  BY <1>1, <1>2, <1>6 DEF fixed
<1>8. Functions'
  <2>1. held' \in [Calls -> SUBSET Things]
    BY <1>1, <1>6
  <2>2. pc' \in [Calls -> Phases] /\ result' \in [Calls -> Results]
    BY <1>0, <1>1, <1>2, <1>5, <1>6 DEF Phases
  <2>3. QED
    BY <1>7, <2>1, <2>2 DEF CallInv, Functions
<1>9. ASSUME NEW e \in Calls
      PROVE  Good(adapter'[e], request'[e], pc'[e], first'[e], held'[e], billed'[e], result'[e])
  <2> DEFINE a == adapter[e]
             q == request[e]
             f == first[e]
             b == billed[e]
             h == held[e]
             g == held[e] \ Gone(e)
  <2>1. Good(a, q, pc[e], f, h, b, result[e])
    BY DEF CallInv
  <2>2. CASE e = c
    <3>1. a = "helium" /\ g \in SUBSET {"browser"} /\ pc[e] = "closing"
      <4>1. h \in SUBSET {"thread", "browser"}
        BY <1>1, <2>1, <2>2 DEF Good, Holds
      <4>2. QED
        BY <1>1, <2>2, <4>1
    <3>2. Yields(a, q, last, outcome)
      BY <1>4, <2>2
    <3> HIDE DEF a, q, f, b, h, g
    <3>3. Phased(a, q, last, f)
      BY <1>0, <2>1, <3>1 DEF Good, Phased, Phases
    <3>4. Holds(a, last, g, outcome)
      BY <1>0, <3>1 DEF Holds, Things, Session
    <3>5. Bills(a, q, last, f, b, outcome)
      BY <1>0, <2>1, <3>1 DEF Good, Bills, Browsers
    <3>6. Good(a, q, last, f, g, b, outcome)
      BY <2>1, <3>2, <3>3, <3>4, <3>5 DEF Good
    <3>7. QED
      BY <1>7, <2>2, <3>6 DEF a, q, f, b, g
  <2>3. CASE e # c
    <3>1. g = h \/ (a = "helium" /\ g = h \ {"browser"})
      <4>1. e = driver => a = "helium"
        BY AdaptersAssumption DEF SoloInv, Running
      <4>2. Gone(e) = IF e = driver THEN {"browser"} ELSE {}
        BY <2>3
      <4>3. QED
        BY <4>1, <4>2
    <3> HIDE DEF a, q, f, b, h, g
    <3>2. Holds(a, pc[e], g, result[e])
      <4>1. CASE g = h
        BY <2>1, <4>1 DEF Good
      <4>2. CASE a = "helium" /\ g = h \ {"browser"}
        <5>1. pc[e] # "waiting"
          BY <2>1, <4>2 DEF Good, Phased, Fetchers, Free, Paid, Threaded
        <5>2. h \in SUBSET {"thread", "browser"} /\ (h = {} => g = {})
              /\ ("thread" \in h <=> "thread" \in g)
          BY <2>1, <4>2 DEF Good, Holds
        <5>3. g \in SUBSET {"thread", "browser"} /\ g \in SUBSET Things
          BY <4>2, <5>2 DEF Things
        <5>4. QED
          BY <2>1, <4>2, <5>1, <5>2, <5>3 DEF Good, Holds
      <4>3. QED
        BY <3>1, <4>1, <4>2
    <3>3. Good(a, q, pc[e], f, g, b, result[e])
      BY <2>1, <3>2 DEF Good
    <3>4. QED
      BY <1>7, <2>3, <3>3 DEF a, q, f, b, g
  <2>4. QED
    BY <2>2, <2>3
<1>10. QED
  BY <1>8, <1>9 DEF CallInv

\* The calls that the router makes are good ones before they start.
LEMMA CallInit == Init => CallInv
<1> SUFFICES ASSUME Init
             PROVE  CallInv
  OBVIOUS
<1>1. PICK a \in AdapterNames :
          adapter = [c \in Calls |-> IF c = First \/ a = "helium" THEN a ELSE None]
  BY DEF Init
<1>2. First \in Calls /\ adapter[First] = a
  BY <1>1, AdaptersAssumption
<1>3. a # None /\ AdapterNames \subseteq AdapterNames \cup {None}
  BY DEF AdapterNames, Fetchers, Free, Paid, Threaded, Browsers, None
<1>4. ASSUME NEW q \in Called(a)
      PROVE  Asking(a, q)
  <2>1. q \in [render_js : BOOLEAN, premium : BOOLEAN, screenshot : BOOLEAN, country : BOOLEAN,
               hinted : BOOLEAN, capped : BOOLEAN, allowance : Allowances, proxy : BOOLEAN]
    BY DEF Called
  <2>2. Allowances \subseteq Nat
    BY AdaptersAssumption
  <2>3. q \in Asks
    BY <2>1, <2>2 DEF Asks
  <2>4. CanHandle(a, q) /\ (q.capped => EstimatedCostUnits(a, q) <= q.allowance)
    BY DEF Called
  <2>5. QED
    BY <2>3, <2>4 DEF Asking
<1>5. ASSUME NEW x \in AdapterNames \cup {None}
      PROVE  Asking(x, NoRequest)
  <2>1. NoRequest \in Asks
    BY DEF NoRequest, Asks
  <2>2. CanHandle(x, NoRequest)
    BY DEF NoRequest, CanHandle
  <2>3. ~NoRequest.capped
    BY DEF NoRequest
  <2>4. QED
    BY <2>1, <2>2, <2>3 DEF Asking
<1>6. ASSUME NEW c \in Calls
      PROVE  Asking(adapter[c], request[c])
  <2>1. adapter[c] \in AdapterNames \cup {None}
    BY <1>1
  <2>2. c = First => request[c] \in Called(a)
    BY <1>2 DEF Init
  <2>3. c # First => request[c] = NoRequest
    BY DEF Init
  <2>4. QED
    BY <1>2, <1>4, <1>5, <2>1, <2>2, <2>3
<1> DEFINE reason == "pending"
           v == Failed(reason)
<1>7. v \in Results /\ NoReply \in Shaped
  <2>1. reason \in Reasons
    BY DEF Reasons
  <2> HIDE DEF reason
  <2>2. v \in Results
    BY <2>1, FailedType
  <2>3. NoReply \in Shaped
    BY UnreportedType DEF NoReply, Shaped, Events, Bodies
  <2>4. QED
    BY <2>2, <2>3
<1>8. ASSUME NEW c \in Calls
      PROVE  Good(adapter[c], request[c], pc[c], first[c], held[c], billed[c], result[c])
  <2> DEFINE x == adapter[c]
             q == request[c]
             p == pc[c]
  <2>1. p = (IF x = None THEN "idle" ELSE "called") /\ Asking(x, q)
    BY <1>6 DEF Init
  <2>2. first[c] = NoReply /\ held[c] = {} /\ billed[c] = 0 /\ result[c] = v
    BY DEF Init, NoResult
  <2> HIDE DEF x, q, p
  <2>3. Phased(x, q, p, NoReply)
    BY <1>7, <2>1 DEF Phased, Phases
  <2>4. Holds(x, p, {}, v)
    BY <2>1 DEF Holds, Session, Things
  <2>5. Yields(x, q, p, v)
    <3>1. reason \in Reasons
      BY DEF Reasons
    <3> HIDE DEF reason
    <3>2. QED
      BY <2>1, <3>1, FailedYields
  <2>6. Bills(x, q, p, NoReply, 0, v)
    BY <2>1 DEF Bills
  <2>7. Good(x, q, p, NoReply, {}, 0, v)
    BY <2>1, <2>3, <2>4, <2>5, <2>6 DEF Good
  <2>8. QED
    BY <2>2, <2>7 DEF x, q, p
<1>9. Functions
  <2>1. adapter \in [Calls -> AdapterNames \cup {None}] /\ request \in [Calls -> Asks]
    <3>1. request = [c \in Calls |-> request[c]]
      BY DEF Init
    <3>2. \A c \in Calls : request[c] \in Asks
      BY <1>6 DEF Asking
    <3>3. QED
      BY <1>1, <3>1, <3>2
  <2>2. pc \in [Calls -> Phases]
    BY DEF Init, Phases
  <2>3. held \in [Calls -> SUBSET Things] /\ billed \in [Calls -> Nat]
    BY DEF Init
  <2>4. first \in [Calls -> Shaped] /\ result \in [Calls -> Results]
    BY <1>7 DEF Init, NoResult
  <2>5. QED
    BY <2>1, <2>2, <2>3, <2>4 DEF Functions
<1>10. QED
  BY <1>8, <1>9 DEF CallInv

-----------------------------------------------------------------------------
(* Helium's shared driver *)

\* Whoever has the driver is a Helium call.
LEMMA DriverIsHelium ==
    ASSUME SoloInv, driver # None
    PROVE  driver \in Calls /\ adapter[driver] = "helium" /\ "thread" \in held[driver]
  BY DEF SoloInv, Running

\* A step of a call of another engine changes nothing for Helium's sessions.
LEMMA OtherEngineStep ==
    ASSUME CallInv, SoloInv, UNCHANGED fixed, UNCHANGED session, NEW c \in Calls,
           adapter[c] # "helium",
           \A e \in Calls \ {c} : pc'[e] = pc[e] /\ held'[e] = held[e] /\ result'[e] = result[e]
    PROVE  SoloInv'
<1>1. \A e \in Calls : adapter[e] = "helium" =>
          pc'[e] = pc[e] /\ held'[e] = held[e] /\ result'[e] = result[e]
  OBVIOUS
<1>2. \A e \in Calls : Running(e)' <=> Running(e)
  BY <1>1 DEF Running, fixed
<1>3. /\ bound' = bound /\ driver' = driver /\ awaited' = awaited /\ alone' = alone
      /\ adapter' = adapter
  BY DEF session, fixed
<1>4. driver' # None => Running(driver)' /\ "browser" \in held'[driver']
  BY <1>1, <1>2, <1>3, DriverIsHelium DEF SoloInv, Running
<1>5. \A e \in Calls : ~awaited'[e] => adapter'[e] = "helium" /\ pc'[e] \in Session \cup {"cancelled"}
  BY <1>1, <1>3 DEF SoloInv
<1>6. ASSUME NEW e \in Calls, adapter'[e] = "helium", alone'[e]
      PROVE  Solo(e)'
  BY <1>1, <1>2, <1>3, <1>6 DEF SoloInv, Solo
<1>7. QED
  BY <1>3, <1>4, <1>5, <1>6 DEF SoloInv

\* A step inside a Helium session, or one that ends the call before it started.
LEMMA InSessionStep ==
    ASSUME CallInv, SoloInv, UNCHANGED fixed, UNCHANGED session, UNCHANGED held, NEW c \in Calls,
           \A e \in Calls \ {c} : pc'[e] = pc[e] /\ result'[e] = result[e],
           \/ pc[c] \in {"open", "shooting"} /\ pc'[c] \in {"shooting", "closing"}
           \/ pc[c] = "starting" /\ pc'[c] = "closing" /\ ~result'[c].ok
           \/ /\ pc[c] = "called" /\ pc'[c] \in {"answered", "cancelled"}
              /\ pc'[c] = "answered" => ~result'[c].ok
    PROVE  SoloInv'
<1>1. \A e \in Calls : Running(e)' <=> Running(e)
  BY DEF Running, fixed
<1>2. /\ bound' = bound /\ driver' = driver /\ awaited' = awaited /\ alone' = alone
      /\ adapter' = adapter /\ held' = held
  BY DEF session, fixed
<1>3. driver' # None => Running(driver)' /\ "browser" \in held'[driver']
  BY <1>1, <1>2, DriverIsHelium DEF SoloInv, Running
<1>4. \A e \in Calls : ~awaited'[e] => adapter'[e] = "helium" /\ pc'[e] \in Session \cup {"cancelled"}
  BY <1>2 DEF SoloInv, Session
<1>5. ASSUME NEW e \in Calls, adapter'[e] = "helium", alone'[e]
      PROVE  Solo(e)'
  <2>1. Solo(e)
    BY <1>2, <1>5 DEF SoloInv
  <2>2. CASE e # c
    BY <1>1, <1>2, <2>1, <2>2 DEF Solo
  <2>3. CASE /\ e = c /\ pc[c] = "called" /\ pc'[c] \in {"answered", "cancelled"}
             /\ pc'[c] = "answered" => ~result'[c].ok
    <3>1. held[c] = {}
      BY <2>3 DEF CallInv, Good, Holds
    <3>2. ~Running(c)
      BY <3>1 DEF Running
    <3>3. QED
      BY <1>1, <1>2, <2>3, <3>1, <3>2 DEF Solo
  <2>4. CASE e = c /\ pc[c] \in {"open", "shooting"} /\ pc'[c] \in {"shooting", "closing"}
    <3>1. Running(c) => driver = c /\ bound[c] = c /\ \A o \in Calls \ {c} : ~Running(o)
      BY <2>1, <2>4 DEF Solo
    <3>2. c # None
      BY AdaptersAssumption
    <3>3. QED
      BY <1>1, <1>2, <2>4, <3>1, <3>2 DEF Solo
  <2>5. CASE e = c /\ pc[c] = "starting" /\ pc'[c] = "closing" /\ ~result'[c].ok
    <3>1. Running(c) => driver = c /\ \A o \in Calls \ {c} : ~Running(o)
      BY <2>1, <2>5 DEF Solo
    <3>2. c # None
      BY AdaptersAssumption
    <3>3. QED
      BY <1>1, <1>2, <2>5, <3>1, <3>2 DEF Solo
  <2>6. QED
    BY <2>2, <2>3, <2>4, <2>5, Zenon
<1>6. QED
  BY <1>2, <1>3, <1>4, <1>5 DEF SoloInv

\* A Helium call that is no longer awaited leaves the driver alone.
LEMMA CancelSessionSolo ==
    ASSUME CallInv, SoloInv, NEW c \in Calls, CancelSession(c)
    PROVE  SoloInv'
<1>1. /\ pc[c] \in Session /\ adapter[c] = "helium"
      /\ awaited' = [awaited EXCEPT ![c] = FALSE]
      /\ adapter' = adapter /\ pc' = pc /\ held' = held /\ bound' = bound /\ driver' = driver
      /\ alone' = alone /\ result' = result
  BY DEF CancelSession, Session, fixed
<1>2. awaited' \in [Calls -> BOOLEAN] /\ \A e \in Calls \ {c} : awaited'[e] = awaited[e]
  BY <1>1 DEF SoloInv
<1>3. \A e \in Calls : Running(e)' <=> Running(e)
  BY <1>1 DEF Running
<1>4. \A e \in Calls : Solo(e)' <=> Solo(e)
  BY <1>1, <1>3 DEF Solo
<1>5. driver' # None => Running(driver)' /\ "browser" \in held'[driver']
  BY <1>1, <1>3 DEF SoloInv
<1>6. \A e \in Calls : ~awaited'[e] => adapter'[e] = "helium" /\ pc'[e] \in Session \cup {"cancelled"}
  BY <1>1, <1>2 DEF SoloInv
<1>7. QED
  BY <1>1, <1>2, <1>4, <1>5, <1>6 DEF SoloInv

\* A session that starts while another runs is not alone, nor is the other; one that
\* starts by itself finds no current browser, whatever sessions came before.
LEMMA StartChromeSolo ==
    ASSUME CallInv, SoloInv, NEW c \in Calls, StartChrome(c)
    PROVE  SoloInv'
<1>1. /\ pc[c] = "called" /\ adapter[c] = "helium"
      /\ alone' = [e \in Calls |-> alone[e] /\ (e # c => ~Running(e))
                                            /\ (e = c => \A o \in Calls : ~Running(o))]
      /\ adapter' = adapter /\ bound' = bound /\ awaited' = awaited
  BY DEF StartChrome, At, fixed
<1>2. PICK p \in {"starting", "closing"}, h \in SUBSET {"thread", "browser"} :
        /\ pc' = [pc EXCEPT ![c] = p] /\ held' = [held EXCEPT ![c] = h] /\ "thread" \in h
        /\ \/ p = "starting" /\ "browser" \in h /\ driver' = c /\ result' = result
           \/ /\ p = "closing" /\ h = {"thread"} /\ driver' = driver
              /\ \E r \in Exceptions : result' = [result EXCEPT ![c] = Helium(request[c], r)]
  BY DEF StartChrome, Go, Hold, Raises
<1>3. /\ pc \in [Calls -> Phases] /\ held \in [Calls -> SUBSET Things]
      /\ result \in [Calls -> Results]
  BY DEF CallInv, Functions
<1>4. \A e \in Calls \ {c} : /\ pc'[e] = pc[e] /\ held'[e] = held[e] /\ result'[e] = result[e]
                             /\ Running(e)' <=> Running(e)
  BY <1>1, <1>2, <1>3 DEF Running
<1>5. pc'[c] = p /\ held'[c] = h
  BY <1>2, <1>3
<1>6. held[c] = {} /\ ~Running(c)
  BY <1>1 DEF CallInv, Good, Holds, Running
<1>7. p = "closing" => ~result'[c].ok
  <2> SUFFICES ASSUME p = "closing"
               PROVE  ~result'[c].ok
    OBVIOUS
  <2>1. PICK r \in Exceptions : result' = [result EXCEPT ![c] = Helium(request[c], r)]
    BY <1>2
  <2>2. PICK reason \in Reasons : Helium(request[c], r) = Failed(reason)
    BY HeliumRaised
  <2>3. result'[c] = Failed(reason)
    BY <1>3, <2>1, <2>2
  <2>4. QED
    BY <2>3 DEF Failed, Answer
<1>8. alone' \in [Calls -> BOOLEAN] /\ driver' \in Calls \cup {None}
  BY <1>1, <1>2 DEF SoloInv
<1>9. driver' # None => Running(driver)' /\ "browser" \in held'[driver']
  <2>1. CASE driver' = c
    <3>1. driver # c
      BY <1>6, AdaptersAssumption DEF SoloInv
    <3>2. "browser" \in h
      BY <1>2, <2>1, <3>1
    <3>3. QED
      BY <1>1, <1>2, <1>5, <2>1, <3>2 DEF Running
  <2>2. CASE driver' # c
    BY <1>2, <1>4, <2>2, DriverIsHelium DEF SoloInv
  <2>3. QED
    BY <2>1, <2>2
<1>10. \A e \in Calls : ~awaited'[e] => adapter'[e] = "helium" /\ pc'[e] \in Session \cup {"cancelled"}
  BY <1>1, <1>2, <1>4, <1>5 DEF SoloInv, Session
<1>11. ASSUME NEW e \in Calls, adapter'[e] = "helium", alone'[e]
       PROVE  Solo(e)'
  <2>1. CASE e = c
    <3>1. \A o \in Calls : ~Running(o)
      BY <1>1, <1>11, <2>1
    <3>2. driver = None
      BY <3>1 DEF SoloInv
    <3>3. /\ driver' \in {c, None}
          /\ driver' = None => p = "closing" /\ h = {"thread"}
      BY <1>2, <3>2, AdaptersAssumption
    <3>4. QED
      BY <1>2, <1>4, <1>5, <1>7, <2>1, <3>1, <3>3 DEF Solo
  <2>2. CASE e # c
    <3>1. alone[e] /\ ~Running(e) /\ adapter[e] = "helium"
      BY <1>1, <1>11, <2>2
    <3>2. Solo(e)
      BY <3>1 DEF SoloInv
    <3>3. QED
      BY <1>1, <1>4, <2>2, <3>1, <3>2 DEF Solo
  <2>3. QED
    BY <2>1, <2>2
<1>12. QED
  BY <1>1, <1>8, <1>9, <1>10, <1>11 DEF SoloInv

\* get_driver gives a session that runs alone the browser it started.
LEMMA GetDriverSolo ==
    ASSUME CallInv, SoloInv, NEW c \in Calls, GetDriver(c)
    PROVE  SoloInv'
<1>1. /\ pc[c] = "starting" /\ adapter[c] = "helium"
      /\ bound' = [bound EXCEPT ![c] = driver]
      /\ pc' = [pc EXCEPT ![c] = "open"]
      /\ adapter' = adapter /\ held' = held /\ driver' = driver /\ alone' = alone
      /\ awaited' = awaited /\ result' = result
  BY DEF GetDriver, At, Go, fixed
<1>2. /\ pc \in [Calls -> Phases]
      /\ bound \in [Calls -> Calls \cup {None}] /\ driver \in Calls \cup {None}
  BY DEF CallInv, Functions, SoloInv
<1>3. \A e \in Calls : Running(e)' <=> Running(e)
  BY <1>1 DEF Running
<1>4. /\ \A e \in Calls \ {c} : pc'[e] = pc[e] /\ bound'[e] = bound[e]
      /\ pc'[c] = "open" /\ bound'[c] = driver
  BY <1>1, <1>2
<1>5. ASSUME NEW e \in Calls, adapter'[e] = "helium", alone'[e]
      PROVE  Solo(e)'
  <2>1. Solo(e)
    BY <1>1, <1>5 DEF SoloInv
  <2>2. CASE e # c
    BY <1>1, <1>3, <1>4, <2>1, <2>2 DEF Solo
  <2>3. CASE e = c
    <3>1. Running(c) => driver = c /\ \A o \in Calls \ {c} : ~Running(o)
      BY <1>1, <2>1, <2>3 DEF Solo
    <3>2. c # None
      BY AdaptersAssumption
    <3>3. QED
      BY <1>1, <1>3, <1>4, <2>3, <3>1, <3>2 DEF Solo
  <2>4. QED
    BY <2>2, <2>3
<1>6. bound' \in [Calls -> Calls \cup {None}]
  BY <1>1, <1>2
<1>7. driver' # None => Running(driver)' /\ "browser" \in held'[driver']
  BY <1>1, <1>3, DriverIsHelium DEF SoloInv
<1>8. \A e \in Calls : ~awaited'[e] => adapter'[e] = "helium" /\ pc'[e] \in Session \cup {"cancelled"}
  BY <1>1, <1>4 DEF SoloInv, Session
<1>9. QED
  BY <1>1, <1>5, <1>6, <1>7, <1>8 DEF SoloInv

\* The finally of a session that ran alone takes its own browser, if it came to have one,
\* and its thread.
LEMMA KillBrowserSolo ==
    ASSUME CallInv, SoloInv, NEW c \in Calls, KillBrowser(c)
    PROVE  SoloInv'
<1> DEFINE Gone(e) == (IF e = driver THEN {"browser"} ELSE {})
                        \cup (IF e = c THEN {"thread"} ELSE {})
<1>1. /\ pc[c] = "closing" /\ adapter[c] = "helium"
      /\ held' = [e \in Calls |-> held[e] \ Gone(e)]
      /\ pc' = [pc EXCEPT ![c] = IF awaited[c] THEN "answered" ELSE "cancelled"]
      /\ driver' = None
      /\ adapter' = adapter /\ bound' = bound /\ awaited' = awaited /\ alone' = alone
      /\ result' = IF driver = None THEN [result EXCEPT ![c] = Failed("provider_error")] ELSE result
  BY DEF KillBrowser, At, Go, fixed
<1>2. pc \in [Calls -> Phases] /\ result \in [Calls -> Results]
  BY DEF CallInv, Functions
<1>3. /\ \A e \in Calls \ {c} : pc'[e] = pc[e] /\ result'[e] = result[e]
      /\ pc'[c] = IF awaited[c] THEN "answered" ELSE "cancelled"
  BY <1>1, <1>2
<1>4. \A e \in Calls : held'[e] = held[e] \ Gone(e)
  BY <1>1
<1>5. Running(c)
  BY <1>1 DEF CallInv, Good, Holds, Session, Running
<1>6. ASSUME NEW e \in Calls
      PROVE  Running(e)' => Running(e) /\ e # c
  <2>1. "thread" \notin held'[c]
    BY <1>4
  <2>2. held'[e] \subseteq held[e]
    BY <1>4
  <2>3. QED
    BY <1>1, <2>1, <2>2 DEF Running
<1>7. ASSUME NEW e \in Calls, adapter'[e] = "helium", alone'[e]
      PROVE  Solo(e)'
  <2>1. Solo(e)
    BY <1>1, <1>7 DEF SoloInv
  <2>2. CASE e = c
    <3>1. driver \in {c, None} /\ (driver = None => held[c] = {"thread"})
      BY <1>5, <2>1, <2>2 DEF Solo
    <3>2. held[c] \in SUBSET {"thread", "browser"}
      BY <1>1 DEF CallInv, Good, Holds
    <3>3. held'[c] = {}
      BY <1>4, <3>1, <3>2
    <3>4. result'[c].ok => bound[c] = c
      <4>1. CASE driver = None
        BY <1>1, <1>2, <4>1 DEF Failed, Answer
      <4>2. CASE driver # None
        BY <1>1, <1>5, <2>1, <2>2, <4>2 DEF Solo
      <4>3. QED
        BY <4>1, <4>2
    <3>5. QED
      BY <1>1, <1>6, <2>2, <3>3, <3>4 DEF Solo
  <2>3. CASE e # c
    <3>1. ~Running(e)
      BY <1>5, <2>1, <2>3 DEF Solo
    <3>2. held[e] = {} => held'[e] = {}
      BY <1>4
    <3>3. QED
      BY <1>1, <1>3, <1>6, <2>1, <2>3, <3>1, <3>2 DEF Solo
  <2>4. QED
    BY <2>2, <2>3
<1>8. \A e \in Calls : ~awaited'[e] => adapter'[e] = "helium" /\ pc'[e] \in Session \cup {"cancelled"}
  BY <1>1, <1>3 DEF SoloInv
<1>9. QED
  BY <1>1, <1>7, <1>8 DEF SoloInv

-----------------------------------------------------------------------------
(* The inductive invariant *)

\* Before any call started no session is running.
LEMMA SoloInit == Init => SoloInv
<1> SUFFICES ASSUME Init
             PROVE  SoloInv
  OBVIOUS
<1>1. \A c \in Calls : held[c] = {} /\ pc[c] \notin {"answered", "cancelled"}
  BY DEF Init
<1>2. \A c \in Calls : ~Running(c)
  BY <1>1 DEF Running
<1>3. /\ bound \in [Calls -> Calls \cup {None}] /\ driver = None
      /\ alone \in [Calls -> BOOLEAN] /\ awaited \in [Calls -> BOOLEAN]
      /\ \A c \in Calls : awaited[c]
  BY DEF Init
<1>4. QED
  BY <1>1, <1>2, <1>3 DEF SoloInv, Solo

\* Every step of a call keeps the invariant.
LEMMA StepKeeps ==
    ASSUME IInv, NEW c \in Calls, Step(c)
    PROVE  IInv'
<1>1. CallInv /\ SoloInv
  BY DEF IInv
<1>2. Functions /\ Good(adapter[c], request[c], pc[c], first[c], held[c], billed[c], result[c])
  BY <1>1 DEF CallInv
<1>3. ASSUME adapter[c] # "helium", UNCHANGED fixed, UNCHANGED session,
             \E p : pc' = [pc EXCEPT ![c] = p],
             held' = held \/ \E h : held' = [held EXCEPT ![c] = h],
             result' = result \/ \E v : result' = [result EXCEPT ![c] = v]
      PROVE  SoloInv'
  <2>1. \A e \in Calls \ {c} : pc'[e] = pc[e] /\ held'[e] = held[e] /\ result'[e] = result[e]
    BY <1>2, <1>3 DEF Functions
  <2>2. QED
    BY <1>1, <1>3, <2>1, OtherEngineStep
<1>4. ASSUME UNCHANGED fixed, UNCHANGED session, UNCHANGED held,
             \E p : pc' = [pc EXCEPT ![c] = p],
             result' = result \/ \E v : result' = [result EXCEPT ![c] = v],
             \/ pc[c] \in {"open", "shooting"} /\ pc'[c] \in {"shooting", "closing"}
             \/ pc[c] = "starting" /\ pc'[c] = "closing" /\ ~result'[c].ok
             \/ /\ pc[c] = "called" /\ pc'[c] \in {"answered", "cancelled"}
                /\ pc'[c] = "answered" => ~result'[c].ok
      PROVE  SoloInv'
  <2>1. \A e \in Calls \ {c} : pc'[e] = pc[e] /\ result'[e] = result[e]
    BY <1>2, <1>4 DEF Functions
  <2>2. QED
    BY <1>1, <1>4, <2>1, InSessionStep
<1>5. CASE Unavailable(c)
  <2>1. adapter[c] # "helium"
    BY <1>5 DEF Unavailable, Keyed, Paid
  <2>2. SoloInv'
    BY <1>3, <1>5, <2>1 DEF Unavailable, Return
  <2>3. QED
    BY <1>1, <1>5, <2>2, RefusalStep DEF IInv
<1>6. CASE MissingLibrary(c)
  <2>1. /\ pc[c] = "called" /\ result' = [result EXCEPT ![c] = Failed("provider_error")]
        /\ pc' = [pc EXCEPT ![c] = "answered"]
        /\ UNCHANGED fixed /\ UNCHANGED session /\ UNCHANGED held
    BY <1>6 DEF MissingLibrary, Return, At
  <2>2. pc'[c] = "answered" /\ ~result'[c].ok
    BY <1>2, <2>1 DEF Functions, Failed, Answer
  <2>3. SoloInv'
    BY <1>4, <2>1, <2>2
  <2>4. QED
    BY <1>1, <1>6, <2>3, RefusalStep DEF IInv
<1>7. CASE Submit(c)
  <2>1. adapter[c] # "helium"
    BY <1>7 DEF Submit, Fetchers, Free, Paid, Threaded
  <2>2. SoloInv'
    BY <1>3, <1>7, <2>1 DEF Submit, Go, Hold
  <2>3. QED
    BY <1>1, <1>7, <2>2, SubmitStep DEF IInv
<1>8. CASE Reply(c)
  <2>1. adapter[c] # "helium"
    BY <1>2, <1>8 DEF Reply, At, Good, Phased, Fetchers, Free, Paid, Threaded
  <2>2. SoloInv'
    BY <1>3, <1>8, <2>1 DEF Reply, Go, Hold, Return
  <2>3. QED
    BY <1>1, <1>8, <2>2, ReplyStep DEF IInv
<1>9. CASE FollowUp(c)
  <2>1. adapter[c] # "helium"
    BY <1>2, <1>9 DEF FollowUp, At, Good, Phased, Follows
  <2>2. SoloInv'
    BY <1>3, <1>9, <2>1 DEF FollowUp, Return
  <2>3. QED
    BY <1>1, <1>9, <2>2, FollowUpStep DEF IInv
<1>10. CASE Launch(c)
  <2>1. SoloInv'
    BY <1>3, <1>10 DEF Launch, Go, Hold
  <2>2. QED
    BY <1>1, <1>10, <2>1, LaunchStep DEF IInv
<1>11. CASE ReadPage(c)
  <2>1. PICK p \in {"shooting", "closing"} : pc' = [pc EXCEPT ![c] = p]
    BY <1>11 DEF ReadPage, Go
  <2>2. pc[c] = "open" /\ pc'[c] = p
    BY <1>2, <1>11, <2>1 DEF Functions, ReadPage, At
  <2>3. SoloInv'
    BY <1>4, <1>11, <2>1, <2>2 DEF ReadPage
  <2>4. QED
    BY <1>1, <1>11, <2>3, ReadPageStep DEF IInv
<1>12. CASE Shoot(c)
  <2>1. pc[c] = "shooting" /\ pc' = [pc EXCEPT ![c] = "closing"] /\ pc'[c] = "closing"
    BY <1>2, <1>12 DEF Functions, Shoot, At, Go
  <2>2. result' = result \/ \E v : result' = [result EXCEPT ![c] = v]
    BY <1>12 DEF Shoot
  <2>3. SoloInv'
    BY <1>4, <1>12, <2>1, <2>2 DEF Shoot
  <2>4. QED
    BY <1>1, <1>12, <2>3, ShootStep DEF IInv
<1>13. CASE Close(c)
  <2>1. SoloInv'
    BY <1>3, <1>13 DEF Close, Go, Hold
  <2>2. QED
    BY <1>1, <1>13, <2>1, CloseStep DEF IInv
<1>14. CASE CloseFails(c)
  <2>1. adapter[c] # "helium"
    BY <1>14 DEF CloseFails
  <2>2. SoloInv'
    BY <1>3, <1>14, <2>1 DEF CloseFails, Go, Hold, Return
  <2>3. QED
    BY <1>1, <1>14, <2>2, CloseFailsStep DEF IInv
<1>15. CASE StartChrome(c)
  BY <1>1, <1>15, StartChromeStep, StartChromeSolo DEF IInv
<1>16. CASE GetDriver(c)
  BY <1>1, <1>16, GetDriverStep, GetDriverSolo DEF IInv
<1>17. CASE LosesBrowser(c) \/ StartFails(c)
  <2>1. /\ CallInv' /\ pc' = [pc EXCEPT ![c] = "closing"]
        /\ \E reason \in Reasons : result' = [result EXCEPT ![c] = Failed(reason)]
    BY <1>1, <1>17, FailingStep
  <2>2. PICK reason \in Reasons : result' = [result EXCEPT ![c] = Failed(reason)]
    BY <2>1
  <2>3. pc'[c] = "closing" /\ ~result'[c].ok
    BY <1>2, <2>1, <2>2 DEF Functions, Failed, Answer
  <2>4. /\ UNCHANGED fixed /\ UNCHANGED session /\ UNCHANGED held
        /\ pc[c] \in {"open", "shooting", "starting"}
    BY <1>17 DEF LosesBrowser, StartFails, At
  <2>5. SoloInv'
    BY <1>4, <2>1, <2>2, <2>3, <2>4
  <2>6. QED
    BY <2>1, <2>5 DEF IInv
<1>18. CASE KillBrowser(c)
  BY <1>1, <1>18, KillBrowserStep, KillBrowserSolo DEF IInv
<1>19. CASE CancelLaunch(c)
  <2>1. ASSUME adapter[c] # "helium" PROVE SoloInv'
    BY <1>3, <1>19, <2>1 DEF CancelLaunch, Go, Hold
  <2>2. ASSUME adapter[c] = "helium" PROVE SoloInv'
    <3>1. pc[c] = "called" /\ held[c] = {}
      BY <1>2, <1>19 DEF CancelLaunch, At, Good, Holds
    <3>2. held' = [held EXCEPT ![c] = {}]
      BY <1>19, <2>2 DEF CancelLaunch, Hold
    <3>3. held' = held
      BY <1>2, <3>1, <3>2 DEF Functions
    <3>4. pc' = [pc EXCEPT ![c] = "cancelled"] /\ pc'[c] = "cancelled"
      BY <1>2, <1>19 DEF CancelLaunch, Go, Functions
    <3>5. QED
      BY <1>4, <1>19, <3>1, <3>3, <3>4 DEF CancelLaunch
  <2>3. QED
    BY <1>1, <1>19, <2>1, <2>2, CancelLaunchStep DEF IInv
<1>20. CASE Cancel(c)
  <2>1. SoloInv'
    BY <1>3, <1>20 DEF Cancel, Go
  <2>2. QED
    BY <1>1, <1>20, <2>1, CancelStep DEF IInv
<1>21. CASE RunsOut(c)
  <2>1. adapter[c] # "helium"
    BY <1>2, <1>21 DEF RunsOut, Good, Holds, Session
  <2>2. pc' = [pc EXCEPT ![c] = pc[c]]
    BY <1>2, <1>21 DEF RunsOut, Functions
  <2>3. SoloInv'
    BY <1>3, <1>21, <2>1, <2>2 DEF RunsOut, Hold
  <2>4. QED
    BY <1>1, <1>21, <2>3, RunsOutStep DEF IInv
<1>22. CASE CancelSession(c)
  BY <1>1, <1>22, CancelSessionStep, CancelSessionSolo DEF IInv
<1>23. QED
  BY <1>5, <1>6, <1>7, <1>8, <1>9, <1>10, <1>11, <1>12, <1>13, <1>14, <1>15, <1>16, <1>17, <1>18,
     <1>19, <1>20, <1>21, <1>22 DEF Step

\* The inductive invariant holds of every call the router makes.
THEOREM Invariant == Spec => []IInv
<1>1. Init => IInv
  BY CallInit, SoloInit DEF IInv
<1>2. IInv /\ [Next]_vars => IInv'
  <2> SUFFICES ASSUME IInv, [Next]_vars
               PROVE  IInv'
    OBVIOUS
  <2>1. CASE Next
    BY <2>1, StepKeeps DEF Next
  <2>2. CASE UNCHANGED vars
    BY <2>2 DEF vars, IInv, CallInv, Functions, SoloInv, Solo, Running
  <2>3. QED
    BY <2>1, <2>2
<1>3. QED
  BY <1>1, <1>2, PTL DEF Spec

-----------------------------------------------------------------------------
(* What it entails *)

\* Every call is in a phase, holds known things, and keeps a first reply exactly
\* while its second request is out.
THEOREM TypeCorrect == Spec => []TypeOK
<1>1. IInv => TypeOK
  <2> SUFFICES ASSUME IInv
               PROVE  TypeOK
    OBVIOUS
  <2>1. Functions /\ SoloInv
    BY DEF IInv, CallInv
  <2>2. \A c \in Calls : pc[c] = "following" <=> first[c] # NoReply
    BY DEF IInv, CallInv, Good, Phased
  <2>3. QED
    BY <2>1, <2>2 DEF TypeOK, Functions, SoloInv, Things
<1>2. QED
  BY <1>1, Invariant, PTL

\* For any statuses, cancellations, failed starts and overlapping sessions: browsers closed
\* on every way out are gone when the call is over, and so is what a Helium session held
\* that met no other; workers and threads are gone after an answer, but for the one
\* spider_rs gives up; and the library's current browser is that of a running session.
THEOREM LeavesNothing == Spec => []NothingLeftBehind
<1>1. IInv => NothingLeftBehind
  <2> SUFFICES ASSUME IInv
               PROVE  NothingLeftBehind
    OBVIOUS
  <2>1. ASSUME NEW c \in Calls, pc[c] \in {"answered", "cancelled"},
               adapter[c] \in Contained \/ (adapter[c] = "helium" /\ alone[c])
        PROVE  held[c] = {}
    <3>1. Holds(adapter[c], pc[c], held[c], result[c])
      BY DEF IInv, CallInv, Good
    <3>2. adapter[c] = "helium" => held[c] = {}
      BY <2>1 DEF IInv, SoloInv, Solo, Contained
    <3>3. QED
      BY <2>1, <3>1, <3>2 DEF Holds, Contained, Threaded
  <2>2. ASSUME NEW c \in Calls, Answered(c),
               adapter[c] \in Threaded \cup {"scrapy", "nodriver", "seleniumbase"}
        PROVE  held[c] = {} \/ (adapter[c] = "spider_rs" /\ result[c].reason = "timeout")
    <3>1. Holds(adapter[c], "answered", held[c], result[c])
      BY <2>2 DEF IInv, CallInv, Good, Answered
    <3>2. adapter[c] # "helium" /\ adapter[c] # "cdp"
      BY <2>2 DEF Threaded
    <3>3. QED
      BY <3>1, <3>2 DEF Holds
  <2>3. driver # None => Running(driver) /\ "browser" \in held[driver]
    BY DEF IInv, SoloInv
  <2>4. QED
    BY <2>1, <2>2, <2>3 DEF NothingLeftBehind
<1>2. QED
  BY <1>1, Invariant, PTL

\* A success carries a page or a picture, no failure reason, no refusal, and the
\* caller's own page unless two Helium sessions overlapped.
THEOREM SuccessUsable == Spec => []SuccessIsUsable
<1>1. IInv => SuccessIsUsable
  <2> SUFFICES ASSUME IInv, NEW c \in Calls, Answered(c), result[c].ok
               PROVE  /\ result[c].reason = "none"
                      /\ result[c].html \in {"none", "thin", "wall"} => result[c].shot
                      /\ request[c].screenshot => result[c].shot \/ SparesShot(c)
                      /\ result[c].status >= 400 =>
                             /\ adapter[c] \in Wrapping
                             /\ \/ ClassifyProviderFailure(result[c].status, "page") = "none"
                                \/ adapter[c] = "oxylabs" /\ result[c].shot
                      /\ adapter[c] = "helium" /\ alone[c] => bound[c] = c
    BY DEF SuccessIsUsable
  <2>1. pc[c] = "answered" /\ Yields(adapter[c], request[c], pc[c], result[c])
    BY DEF IInv, CallInv, Good, Answered
  <2>2. adapter[c] = "helium" /\ alone[c] => bound[c] = c
    BY <2>1 DEF IInv, SoloInv, Solo
  <2>3. QED
    BY <2>1, <2>2 DEF Yields, Usable, SparesShot
<1>2. QED
  BY <1>1, Invariant, PTL

\* What an adapter prices itself is within its own forecast for the request it was called
\* with, and within what the router had left if no country was lent to that request.
THEOREM BookedForecast == Spec => []BookedWithinForecast
<1>1. IInv => BookedWithinForecast
  <2> SUFFICES ASSUME IInv, NEW c \in Calls, Answered(c), ~result[c].exact
               PROVE  /\ result[c].cost <= EstimatedCostUnits(adapter[c], Asked(c))
                      /\ request[c].capped /\ Asked(c) = request[c] =>
                             result[c].cost <= request[c].allowance
    BY DEF BookedWithinForecast
  <2> DEFINE a == adapter[c]
             q == request[c]
             l == Lent(a, q)
             cost == result[c].cost
             units == EstimatedCostUnits(a, l)
             allowance == q.allowance
  <2>1. Good(a, q, "answered", first[c], held[c], billed[c], result[c])
    BY DEF IInv, CallInv, Answered
  <2>2. a # None /\ q \in Asks /\ result[c] \in Results
    BY <2>1 DEF Good, Asking, Phased, Yields
  <2>3. cost \in Nat /\ allowance \in Nat
    BY <2>2 DEF Asks, Results
  <2>4. units \in Nat
    BY <2>2, LentType, UnitsType
  <2>5. cost <= units /\ (q.capped /\ l = q => units <= allowance)
    BY <2>1, <2>2 DEF Good, Asking, Yields
  <2>6. Asked(c) = l
    BY DEF Asked
  <2> HIDE DEF a, q, l, cost, units, allowance
  <2>7. cost <= units /\ (q.capped /\ l = q => cost <= allowance)
    BY <2>3, <2>4, <2>5
  <2>8. QED
    BY <2>6, <2>7 DEF a, q, cost, units, allowance
<1>2. QED
  BY <1>1, Invariant, PTL

\* A price that a service reported is booked in a row, under the ceiling of an
\* ASP call of Scrapfly.
THEOREM PriceBooked == Spec => []ReportedPriceBooked
<1>1. IInv => ReportedPriceBooked
  <2>1. ASSUME IInv, NEW c \in Calls
        PROVE  Bills(adapter[c], request[c], pc[c], first[c], billed[c], result[c])
    BY <2>1 DEF IInv, CallInv, Good
  <2>2. QED
    BY <2>1 DEF Bills, ReportedPriceBooked, Answered
<1>2. QED
  BY <1>1, Invariant, PTL

-----------------------------------------------------------------------------
(* The contract of a provider call *)

Over == {"answered", "raised", "cancelled"}

\* The call is over for the router: it has a verdict or was left as an exception.
IsOver(c) == pc[c] \in Over \/ ~awaited[c]

\* What the router sees of a call that is not c's does not change; c itself had not been
\* answered, and is answered only while somebody awaits it.
OnlyOf(c) ==
    /\ pc[c] \notin Over
    /\ \A e \in Calls \ {c} : pc'[e] = pc[e] /\ result'[e] = result[e] /\ awaited'[e] = awaited[e]
    /\ ~awaited[c] => ~awaited'[c]
    /\ pc'[c] = "answered" => awaited[c] /\ awaited'[c]

\* A step disturbs the phase and result of one unfinished call, or of none: also where
\* kill_browser acts on another session's browser, and where a given-up thread ends.
LEMMA StepIsOfOne ==
    ASSUME IInv, NEW c \in Calls, Step(c)
    PROVE  UNCHANGED <<pc, result, awaited>> \/ OnlyOf(c)
<1>1. /\ pc \in [Calls -> Phases] /\ result \in [Calls -> Results]
      /\ awaited \in [Calls -> BOOLEAN]
  BY DEF IInv, CallInv, Functions, SoloInv
<1>2. ASSUME NEW p, NEW v, pc[c] \notin Over, pc' = [pc EXCEPT ![c] = p],
             result' = [result EXCEPT ![c] = v] \/ result' = result, awaited' = awaited,
             p = "answered" => awaited[c]
      PROVE  OnlyOf(c)
  BY <1>1, <1>2 DEF OnlyOf
<1>3. adapter[c] # "helium" \/ pc[c] = "called" => awaited[c]
  BY DEF IInv, SoloInv, Session
<1>4. CASE Unavailable(c) \/ MissingLibrary(c)
  BY <1>2, <1>3, <1>4 DEF Unavailable, MissingLibrary, Return, At, Over, session
<1>5. CASE Submit(c) \/ Launch(c) \/ GetDriver(c) \/ CancelLaunch(c)
  BY <1>2, <1>5 DEF Submit, Launch, GetDriver, CancelLaunch, Go, At, Over, session
<1>6. CASE StartChrome(c) \/ StartFails(c)
  BY <1>2, <1>6 DEF StartChrome, StartFails, Raises, Go, At, Over, session
<1>7. CASE Reply(c)
  <2>1. awaited[c]
    BY <1>3, <1>7 DEF Reply, At, IInv, SoloInv, Session
  <2>2. QED
    BY <1>2, <1>7, <2>1 DEF Reply, Return, Go, At, Over, session
<1>8. CASE FollowUp(c)
  <2>1. awaited[c]
    BY <1>3, <1>8 DEF FollowUp, At, IInv, SoloInv, Session
  <2>2. QED
    BY <1>2, <1>8, <2>1 DEF FollowUp, Return, At, Over, session
<1>9. CASE ReadPage(c)
  BY <1>2, <1>9 DEF ReadPage, Go, At, Over, session
<1>10. CASE Shoot(c)
  <2>1. pc[c] \notin Over /\ pc' = [pc EXCEPT ![c] = "closing"] /\ awaited' = awaited
    BY <1>10 DEF Shoot, Go, At, Over, session
  <2>2. \A e \in Calls \ {c} : result'[e] = result[e]
    BY <1>1, <1>10 DEF Shoot
  <2>3. QED
    BY <1>1, <2>1, <2>2 DEF OnlyOf
<1>11. CASE LosesBrowser(c)
  BY <1>2, <1>11 DEF LosesBrowser, Go, Over, session
<1>12. CASE Close(c)
  BY <1>2, <1>3, <1>12 DEF Close, Go, At, Over, session
<1>13. CASE CloseFails(c)
  <2>1. awaited[c]
    BY <1>3, <1>13 DEF CloseFails
  <2>2. QED
    BY <1>2, <1>13, <2>1 DEF CloseFails, Return, Go, At, Over, session
<1>14. CASE KillBrowser(c)
  BY <1>2, <1>14 DEF KillBrowser, Go, At, Over
<1>15. CASE Cancel(c)
  BY <1>2, <1>15 DEF Cancel, Go, Over, session
<1>16. CASE CancelSession(c)
  BY <1>1, <1>16 DEF CancelSession, OnlyOf, Over
<1>17. CASE RunsOut(c)
  BY <1>17 DEF RunsOut, session
<1>18. QED
  BY <1>4, <1>5, <1>6, <1>7, <1>8, <1>9, <1>10, <1>11, <1>12, <1>13, <1>14, <1>15, <1>16, <1>17
  DEF Step

\* What is not over is still calling, what has been left as an exception stays so, and
\* what is left alone stutters.
LEMMA ContractOfOne ==
    ASSUME NEW c \in Calls,
           \/ pc'[c] = pc[c] /\ result'[c] = result[c] /\ awaited'[c] = awaited[c]
           \/ /\ pc[c] \notin Over
              /\ ~awaited[c] => ~awaited'[c]
              /\ pc'[c] = "answered" => awaited[c] /\ awaited'[c]
    PROVE  [Contract(c)!Next]_(Contract(c)!vars)
<1>1. CASE pc'[c] = pc[c] /\ result'[c] = result[c] /\ awaited'[c] = awaited[c]
  BY <1>1 DEF Contract!vars
<1>2. CASE /\ pc[c] \notin Over
           /\ ~awaited[c] => ~awaited'[c]
           /\ pc'[c] = "answered" => awaited[c] /\ awaited'[c]
  <2>1. CASE pc'[c] = "answered"
    <3>1. \A ok : Contract(c)!FailuresThenVerdict(<<ok>>)
      BY DEF Contract!FailuresThenVerdict
    <3>2. Contract(c)!Answer
      BY <1>2, <2>1, <3>1 DEF Contract!Answer, Over
    <3>3. QED
      BY <3>2 DEF Contract!Next
  <2>2. CASE pc'[c] # "answered" /\ IsOver(c)'
    <3>1. CASE awaited[c]
      <4>1. Contract(c)!Raise
        BY <1>2, <2>2, <3>1 DEF Contract!Raise, IsOver, Over
      <4>2. QED
        BY <4>1 DEF Contract!Next
    <3>2. CASE ~awaited[c]
      BY <1>2, <2>2, <3>2 DEF Contract!vars, IsOver, Over
    <3>3. QED
      BY <3>1, <3>2
  <2>3. CASE ~IsOver(c)'
    BY <1>2, <2>3 DEF Contract!vars, IsOver, Over
  <2>4. QED
    BY <2>1, <2>2, <2>3
<1>3. QED
  BY <1>1, <1>2

\* For any overlapping calls, replies, prices and cancellations: a call is answered once or
\* leaves as an exception, and nothing that happens afterwards changes its verdict.
THEOREM ContractSafe == Spec => KeepsContract
<1>1. Init => \A c \in Calls : Contract(c)!Init
  <2> SUFFICES ASSUME Init, NEW c \in Calls
               PROVE  Contract(c)!Init
    OBVIOUS
  <2>1. pc[c] \in {"idle", "called"} /\ awaited[c]
    BY DEF Init
  <2>2. QED
    BY <2>1 DEF Contract!Init
<1>2. IInv /\ [Next]_vars => [\A c \in Calls : [Contract(c)!Next]_(Contract(c)!vars)]_vars
  <2> SUFFICES ASSUME IInv, Next, NEW e \in Calls
               PROVE  [Contract(e)!Next]_(Contract(e)!vars)
    OBVIOUS
  <2>1. PICK c \in Calls : Step(c)
    BY DEF Next
  <2>2. UNCHANGED <<pc, result, awaited>> \/ OnlyOf(c)
    BY <2>1, StepIsOfOne
  <2>3. \/ pc'[e] = pc[e] /\ result'[e] = result[e] /\ awaited'[e] = awaited[e]
        \/ /\ pc[e] \notin Over
           /\ ~awaited[e] => ~awaited'[e]
           /\ pc'[e] = "answered" => awaited[e] /\ awaited'[e]
    BY <2>2 DEF OnlyOf
  <2>4. QED
    BY <2>3, ContractOfOne
<1>3. QED
  BY <1>1, <1>2, Invariant, PTL DEF Spec, KeepsContract

=============================================================================
