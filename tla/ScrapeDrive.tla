----------------------------- MODULE ScrapeDrive -----------------------------
(***************************************************************************)
(* One call of ScrapeDriveProvider.scrape (providers/scrapedrive.py): the  *)
(* tier ladder standard, advanced, hyperdrive (or ScrapeDrive's own Auto   *)
(* escalation), each tier an attempt awaited inside one asyncio.timeout,   *)
(* started only if its price fits what the router left of the ceiling.     *)
(*                                                                         *)
(* The service is external.  `billed` is what it really reserved: a fixed  *)
(* price per job, or for Auto anything between the cheapest configuration  *)
(* and max_credits; nothing for a request it refused before any job.       *)
(***************************************************************************)
EXTENDS Integers, Sequences, SequencesExt

CONSTANTS
    BaseCost, RenderJsCost, ResidentialCost, ScreenshotCost, \* the price list
    Grain,     \* amounts are in fractions of a credit: this many make one
    MaxBudget  \* bound: largest allowance the router passes

ASSUME ScrapeDriveAssumption ==
    /\ BaseCost \in Nat \ {0} /\ RenderJsCost \in Nat
    /\ ResidentialCost \in Nat /\ ScreenshotCost \in Nat
    /\ Grain \in Nat \ {0} /\ MaxBudget \in Nat

VARIABLES
    request,   \* what the caller asked, and the adapter's configuration
    hinted,    \* the router injected a TLD country after it read the estimate
    budget,    \* _remaining_cost_units in request.metadata
    pc,        \* "ladder", "waiting", "done" or "raised"
    todo,      \* tiers not finished; the head is the active one
    attempted, \* attempted_tiers
    ledger,    \* [tier, ok] rows
    remaining, \* remaining_cost
    spent,     \* sum of the ledger's cost_units
    billed     \* history: what the service charged for

vars == <<request, hinted, budget, pc, todo, attempted, ledger, remaining, spent, billed>>
fixed == <<request, hinted, budget>>

-----------------------------------------------------------------------------
(* Tiers and prices *)

TierOrder == <<"standard", "advanced", "hyperdrive">>
Tiers == {"standard", "advanced", "hyperdrive", "auto"}

Requests == [render_js : BOOLEAN, screenshot : BOOLEAN, premium : BOOLEAN,
             country : BOOLEAN, start_tier : {"none", "standard", "advanced", "hyperdrive"},
             capped : BOOLEAN, auto : BOOLEAN, async : BOOLEAN]

When(condition, cost) == IF condition THEN cost ELSE 0

ShapeCost(residential, js, shot) ==
    BaseCost + When(js \/ shot, RenderJsCost) + When(residential, ResidentialCost)
        + When(shot, ScreenshotCost)

AutoFloor(q) == ShapeCost(FALSE, q.render_js \/ q.screenshot, q.screenshot)
AutoCeiling(q) == ShapeCost(TRUE, TRUE, q.screenshot)

Lesser(m, n) == IF m < n THEN m ELSE n
Greater(m, n) == IF m > n THEN m ELSE n

\* _auto_max_credits: a whole number of credits, never below the floor.
AutoMaxCredits(q, allowance) ==
    IF ~q.capped THEN AutoCeiling(q)
    ELSE Greater((Lesser(AutoCeiling(q), allowance) \div Grain) * Grain, AutoFloor(q))

TierCost(q, allowance, tier) ==
    IF tier = "auto" THEN AutoMaxCredits(q, allowance)
    ELSE ShapeCost(tier \in {"advanced", "hyperdrive"},
                   q.render_js \/ q.screenshot \/ tier = "hyperdrive", q.screenshot)

\* A remembered tier wins over the premium flag, and that over the country.
StartTier(q, country) ==
    CASE q.start_tier # "none" -> q.start_tier
      [] q.start_tier = "none" /\ q.premium -> "hyperdrive"
      [] q.start_tier = "none" /\ ~q.premium /\ country -> "advanced"
      [] OTHER -> "standard"

\* Auto refuses a request that names a country.
Ladder(q, country) ==
    IF q.auto /\ ~country THEN <<"auto">>
    ELSE SubSeq(TierOrder, CHOOSE i \in 1..3 : TierOrder[i] = StartTier(q, country), 3)

\* The forecast of the cheapest tier, whatever tier the ladder starts from.
BadEstimatedCostUnits(q, allowance) ==
    IF q.auto /\ ~q.country THEN AutoMaxCredits(q, allowance)
    ELSE TierCost(q, allowance, "standard")

\* The router asks before it injects its country.
EstimatedCostUnits(q, allowance) ==
    TierCost(q, allowance, Ladder(q, q.country)[1])

-----------------------------------------------------------------------------
\* Types; and a call in progress always has a tier in hand.
TypeOK ==
    /\ request \in Requests /\ hinted \in BOOLEAN
    /\ budget \in Nat /\ remaining \in Nat /\ spent \in Nat /\ billed \in Nat
    /\ pc \in {"ladder", "waiting", "done", "raised"}
    /\ todo \in Seq(Tiers) /\ attempted \in Seq(Tiers)
    /\ ledger \in Seq([tier : Tiers, ok : BOOLEAN])
    /\ pc \in {"ladder", "waiting"} => todo # <<>>

\* The router admitted the call: its forecast fits the allowance.
Init ==
    /\ request \in Requests
    /\ hinted \in BOOLEAN /\ (hinted => ~request.country)
    /\ budget \in 0..MaxBudget
    /\ request.capped => EstimatedCostUnits(request, budget) <= budget
    /\ pc = "ladder"
    /\ todo = Ladder(request, request.country \/ hinted)
    /\ attempted = <<>> /\ ledger = <<>>
    /\ remaining = budget
    /\ spent = 0 /\ billed = 0

-----------------------------------------------------------------------------
(* The ladder *)

Price == TierCost(request, budget, Head(todo))

\* Each tier is compared with the whole allowance.
BadAffordable(cost) == ~request.capped \/ cost <= budget

Affordable(cost) == ~request.capped \/ cost <= remaining

\* The next tier does not fit: the call returns what it has, perhaps nothing.
BudgetStop ==
    /\ pc = "ladder"
    /\ ~Affordable(Price)
    /\ pc' = "done"
    /\ UNCHANGED <<fixed, todo, attempted, ledger, remaining, spent, billed>>

Submit ==
    /\ pc = "ladder"
    /\ Affordable(Price)
    /\ attempted' = Append(attempted, Head(todo))
    /\ pc' = "waiting"
    /\ UNCHANGED <<fixed, todo, ledger, remaining, spent, billed>>

Book(cost, ok) ==
    /\ ledger' = Append(ledger, [tier |-> Head(todo), ok |-> ok])
    /\ spent' = spent + cost
    /\ remaining' = Greater(0, remaining - cost)

\* A failure of the last tier is escalated too.
BadSettle(cost, ok) ==
    /\ pc = "waiting"
    /\ Book(cost, ok)
    /\ todo' = Tail(todo)
    /\ pc' = IF ok THEN "done" ELSE "ladder"
    /\ UNCHANGED <<fixed, attempted>>

\* A success is escalated like a failure.
BadSettleOnward(cost, ok) ==
    /\ pc = "waiting"
    /\ Book(cost, ok)
    /\ todo' = Tail(todo)
    /\ pc' = IF Tail(todo) = <<>> THEN "done" ELSE "ladder"
    /\ UNCHANGED <<fixed, attempted>>

\* An attempt came back: its row is booked; a failure escalates while a tier is left.
Settle(cost, ok) ==
    /\ pc = "waiting"
    /\ Book(cost, ok)
    /\ todo' = Tail(todo)
    /\ pc' = IF ok \/ Tail(todo) = <<>> THEN "done" ELSE "ladder"
    /\ UNCHANGED <<fixed, attempted>>

-----------------------------------------------------------------------------
(* The service *)

\* What a job that was created may have cost.
Charges ==
    IF Head(todo) = "auto" THEN {AutoFloor(request), Price} ELSE {Price}

Bill(charge) == billed' = billed + charge

\* Keys off the status alone: a target's own 429 looks like a refusal.
BadWasCharged(refusal, job) == ~refusal

\* `refusal`: the status is 401, 402, 422 or 429; `job`: a job id came with it.
WasCharged(refusal, job) == job \/ ~refusal

\* Sync: an answer carries the target's status.  With a job id it was billed; without
\* one a refusal was not, and nothing else is known.  An exception is booked like an
\* answer of unknown status.
SyncAnswered ==
    /\ ~request.async
    /\ \E refusal, job, ok \in BOOLEAN :
         /\ ok => ~refusal
         /\ Settle(IF WasCharged(refusal, job) THEN Price ELSE 0, ok)
         /\ \/ job /\ \E charge \in Charges : Bill(charge)
            \/ ~job /\ ~refusal /\ \E charge \in Charges \cup {0} : Bill(charge)
            \/ ~job /\ refusal /\ Bill(0)

\* Async: refused at submission; or accepted, or its answer lost, and then no poll url,
\* a failing poll or an exception ends the attempt.  failed() books all of them as free.
AsyncFailed ==
    /\ request.async
    /\ Settle(0, FALSE)
    /\ \E charge \in Charges \cup {0} : Bill(charge)

\* Async: the job settled; it states its credits, or it is booked at its price.
AsyncFinished ==
    /\ request.async /\ pc = "waiting"
    /\ \E charge \in Charges \cup {0}, ok \in BOOLEAN :
         /\ Settle(charge, ok) \/ Settle(Price, ok)
         /\ Bill(charge)

\* Async: the screenshot download raises outside any try: the call ends without a row.
AsyncRaises ==
    /\ pc = "waiting"
    /\ request.async /\ request.screenshot
    /\ pc' = "raised"
    /\ \E charge \in Charges : Bill(charge)
    /\ UNCHANGED <<fixed, todo, attempted, ledger, remaining, spent>>

\* The attempt that was cut off leaves no row.
BadTimeout ==
    /\ pc = "waiting"
    /\ pc' = "done"
    /\ \E charge \in Charges \cup {0} : Bill(charge)
    /\ UNCHANGED <<fixed, todo, attempted, ledger, remaining, spent>>

\* asyncio.timeout cuts the active attempt off; it is booked at its full price.
Timeout ==
    /\ pc = "waiting"
    /\ Book(Price, FALSE)
    /\ pc' = "done"
    /\ \E charge \in Charges \cup {0} : Bill(charge)
    /\ UNCHANGED <<fixed, todo, attempted>>

Next ==
    \/ BudgetStop \/ Submit \/ Timeout
    \/ SyncAnswered \/ AsyncFailed \/ AsyncFinished \/ AsyncRaises

\* The ladder runs without an await between two attempts, and the deadline always
\* fires; that the service ever answers is not assumed.
Spec == Init /\ [][Next]_vars /\ WF_vars(BudgetStop \/ Submit) /\ WF_vars(Timeout)

-----------------------------------------------------------------------------
(* Properties *)

\* Escalation stays inside the allowance: however many tiers fail, and whatever a job
\* bills, what the call books never exceeds what the router left it.
BookedWithinBudget ==
    request.capped => spent <= budget

\* Sync calls never book less than the service charged, and so the service never
\* charges beyond the allowance, timeouts and lost answers included.
SyncBillBooked ==
    ~request.async => /\ billed <= spent
                      /\ request.capped => billed <= budget

\* One row per tier attempted, in ladder order, also for the attempt the deadline cut
\* off; and no tier is tried after a success.
AttemptsItemised ==
    pc = "done" =>
        /\ [i \in DOMAIN ledger |-> ledger[i].tier] = attempted
        /\ IsPrefix(attempted, Ladder(request, request.country \/ hinted))
        /\ \A i \in DOMAIN ledger : ledger[i].ok => i = Len(ledger)

\* A call the router admitted makes at least one attempt: the forecast and the ladder
\* agree on the first tier, unless a country was injected between the two.
AdmittedCallAttempts ==
    pc = "done" /\ ~hinted => attempted # <<>>

\* scrapedrive.py, _was_charged: "A job id means a job was created and run, so it is
\* billable whatever the target answered".  No finished call books less than its bill.
EveryJobBooked == pc = "done" => billed <= spent

\* _provider_ledger: a call that returns no rows gets one made from its result.
ProviderLedger ==
    IF ledger = <<>> THEN <<FALSE>> ELSE [i \in DOMAIN ledger |-> ledger[i].ok]

Call == INSTANCE AdapterCall WITH
    state <- CASE pc = "done" -> "answered" [] pc = "raised" -> "raised"
               [] OTHER -> "calling",
    rows <- IF pc = "done" THEN ProviderLedger ELSE <<>>

\* The call keeps the contract the router relies on: it returns at most once, with
\* failures and then a verdict, and it always ends.
KeepsContract == Call!Spec

=============================================================================
