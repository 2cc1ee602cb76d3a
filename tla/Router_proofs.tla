--------------------------- MODULE Router_proofs ---------------------------
(***************************************************************************)
(* Theorems about Router, for any set of runs and providers and any        *)
(* ceiling: type correctness, the cost ceiling, the confinement of the TLD *)
(* hint, and what the cache, the report and the ledger say of a run.       *)
(***************************************************************************)
EXTENDS Router, FiniteSetTheorems, TLAPS

-----------------------------------------------------------------------------
(* Lemmas on the operators *)

\* A gateway has finitely many adapters, no more than there are.
LEMMA GatewayFinite ==
    ASSUME NEW r \in Runs
    PROVE  /\ Gateway[r] \subseteq Providers /\ IsFiniteSet(Gateway[r])
           /\ Cardinality(Gateway[r]) \in Nat /\ Cardinality(Providers) \in Nat
           /\ Cardinality(Gateway[r]) <= Cardinality(Providers)
<1>1. Gateway[r] \subseteq Providers /\ IsFiniteSet(Providers)
  BY RouterAssumption
<1>2. QED
  BY <1>1, FS_Subset, FS_CardinalityType

\* A planned order is a sequence of adapters.
LEMMA OrderType ==
    ASSUME NEW r \in Runs
    PROVE  \A order \in SetToSeqs(Gateway[r]) : order \in Seq(Gateway[r])
<1>1. Cardinality(Gateway[r]) \in Nat
  BY GatewayFinite
<1>2. QED
  BY <1>1 DEF SetToSeqs

\* A call leaves a sequence of ledger rows of its provider.
LEMMA CallRowsType ==
    ASSUME NEW p \in Providers, NEW n \in 1..MaxRows, NEW ok \in BOOLEAN
    PROVE  CallRows(p, n, ok) \in Seq(Row)
<1>1. n \in Nat
  BY RouterAssumption
<1>2. \A i \in 1..n : [provider |-> p, ok |-> ok /\ i = n] \in Row
  BY DEF Row
<1>3. QED
  BY <1>1, <1>2 DEF CallRows

-----------------------------------------------------------------------------
(* Type correctness *)

\* What type correctness rests on: a call is made to the head of `todo`, and only an
\* accepted capture is ever saved.
ControlInv ==
    \A r \in Runs :
        /\ pc[r] = "calling" => todo[r] # <<>>
        /\ pc[r] = "caching" => result[r] = "success"
        /\ result[r] = "success" => page[r] \in Page

TypeInv == TypeOK /\ ControlInv

\* A run that has not started satisfies the invariant.
LEMMA TypeInit == Init => TypeInv
  BY RouterAssumption DEF Init, TypeInv, TypeOK, ControlInv, Locations, Outcomes

\* One provider call's bookkeeping, shared by the three kinds of answer.
LEMMA BookCallType ==
    ASSUME TypeInv, NEW r \in Runs, NEW ok \in BOOLEAN, BookCall(r, ok)
    PROVE  /\ rows' \in [Runs -> Seq(Row)]
           /\ spent' \in [Runs -> Nat]
           /\ overrun' \in [Runs -> Nat]
           /\ country' \in [Runs -> {"caller", "hint"}]
           /\ country'[r] = "caller"
           /\ forecast' \in [Runs -> Nat]
           /\ todo' \in [Runs -> Seq(Providers)]
           /\ UNCHANGED <<skip, skipped, called, cache, history, reports, ledger>>
<1> USE RouterAssumption DEF TypeInv, TypeOK, ControlInv
<1>1. pc[r] = "calling" /\ todo[r] # <<>>
  BY DEF BookCall
<1>2. Candidate(r) \in Providers /\ Tail(todo[r]) \in Seq(Providers)
  BY <1>1 DEF Candidate
<1>3. PICK n \in 1..MaxRows, cost \in 0..MaxBill :
        /\ rows' = [rows EXCEPT ![r] = @ \o CallRows(Candidate(r), n, ok)]
        /\ spent' = [spent EXCEPT ![r] = @ + cost]
        /\ overrun' = [overrun EXCEPT ![r] = @ + Excess(r, cost)]
  BY DEF BookCall
<1>4. CallRows(Candidate(r), n, ok) \in Seq(Row)
  BY <1>2, CallRowsType
<1>5. rows' \in [Runs -> Seq(Row)]
  BY <1>3, <1>4
<1>6. cost \in Nat /\ Excess(r, cost) \in Nat
  BY DEF Excess
<1>7. spent' \in [Runs -> Nat] /\ overrun' \in [Runs -> Nat]
  BY <1>3, <1>6
<1>8. /\ country' \in [Runs -> {"caller", "hint"}]
      /\ country'[r] = "caller"
      /\ forecast' \in [Runs -> Nat]
      /\ todo' \in [Runs -> Seq(Providers)]
      /\ UNCHANGED <<skip, skipped, called, cache, history, reports, ledger>>
  BY <1>2 DEF BookCall, RestoredCountry, storeVars
<1>9. QED
  BY <1>5, <1>7, <1>8

\* Every step of scrape(), and a crash, keeps the invariant: one case per action.
LEMMA TypeStep == TypeInv /\ [Next]_vars => TypeInv'
<1> SUFFICES ASSUME TypeInv, [Next]_vars PROVE TypeInv'
  OBVIOUS
<1> USE RouterAssumption DEF TypeInv, TypeOK, ControlInv
<1>1. CASE UNCHANGED vars
  BY <1>1 DEF vars
<1>2. ASSUME NEW r \in Runs, CacheHit(r) PROVE TypeInv'
  BY <1>2 DEF CacheHit, storeVars, Locations, Outcomes, NoPage, Page
<1>3. ASSUME NEW r \in Runs, PlanRoute(r) PROVE TypeInv'
  <2>1. \A order \in SetToSeqs(Gateway[r]) : order \in Seq(Providers)
    BY OrderType, GatewayFinite
  <2>2. todo' \in [Runs -> Seq(Providers)]
    BY <1>3, <2>1 DEF PlanRoute
  <2>3. QED
    BY <1>3, <2>2 DEF PlanRoute, storeVars, Locations
<1>4. ASSUME NEW r \in Runs, Considering(r) 
      PROVE  Candidate(r) \in Providers /\ Tail(todo[r]) \in Seq(Providers)
  BY <1>4 DEF Considering, Candidate
<1>5. ASSUME NEW r \in Runs, SkipProvider(r) PROVE TypeInv'
  BY <1>5, <1>4 DEF SkipProvider, storeVars, Considering
<1>6. ASSUME NEW r \in Runs, BudgetStop(r) PROVE TypeInv'
  BY <1>6, <1>4 DEF BudgetStop, storeVars, Locations, Outcomes
<1>7. ASSUME NEW r \in Runs, StartCall(r) PROVE TypeInv'
  <2>1. forecast' \in [Runs -> Nat]
    BY <1>7 DEF StartCall, Affordable, Forecasts, Unusable
  <2>2. QED
    BY <1>7, <1>4, <2>1 DEF StartCall, storeVars, Locations, Considering
<1>8. ASSUME NEW r \in Runs, AnswerFailed(r) PROVE TypeInv'
  <2>1. BookCall(r, FALSE)
    BY <1>8 DEF AnswerFailed
  <2>2. PICK o \in {"failed", "rejected", "stopped"} :
          result' = [result EXCEPT ![r] = o]
    BY <1>8 DEF AnswerFailed
  <2>3. pc' = [pc EXCEPT ![r] = "loop"] /\ page' = page
    BY <1>8 DEF AnswerFailed
  <2>4. TypeOK'
    BY <2>1, <2>2, <2>3, BookCallType DEF Locations, Outcomes
  <2>5. \A s \in Runs \ {r} : todo'[s] = todo[s]
    BY <2>1 DEF BookCall
  <2>6. ControlInv'
    BY <2>2, <2>3, <2>5
  <2>7. QED
    BY <2>4, <2>6
<1>9. ASSUME NEW r \in Runs, AnswerStops(r) PROVE TypeInv'
  <2>1. BookCall(r, FALSE)
    BY <1>9 DEF AnswerStops
  <2>2. PICK o \in {"failed", "rejected", "stopped"} :
          result' = [result EXCEPT ![r] = o]
    BY <1>9 DEF AnswerStops
  <2>3. pc' = [pc EXCEPT ![r] = "evaluating"] /\ page' = page
    BY <1>9 DEF AnswerStops
  <2>4. TypeOK'
    BY <2>1, <2>2, <2>3, BookCallType DEF Locations, Outcomes
  <2>5. \A s \in Runs \ {r} : todo'[s] = todo[s]
    BY <2>1 DEF BookCall
  <2>6. ControlInv'
    BY <2>2, <2>3, <2>5
  <2>7. QED
    BY <2>4, <2>6
<1>10. ASSUME NEW r \in Runs, AnswerAccepted(r) PROVE TypeInv'
  <2>1. BookCall(r, TRUE)
    BY <1>10 DEF AnswerAccepted
  <2>2. PICK kind \in {"html", "image"} :
          page' = [page EXCEPT ![r] =
                     [kind |-> kind, by |-> r, country |-> country'[r],
                      validated |-> kind = "html" /\ ~skip[r]]]
    BY <1>10 DEF AnswerAccepted
  <2>3. [kind |-> kind, by |-> r, country |-> country'[r],
         validated |-> kind = "html" /\ ~skip[r]] \in Page
    BY <2>1, BookCallType DEF Page
  <2>4. page' \in [Runs -> Page \cup {NoPage}] /\ page'[r] \in Page
    BY <2>2, <2>3
  <2>5. \A s \in Runs \ {r} : page'[s] = page[s]
    BY <2>2
  <2>6. /\ pc' = [pc EXCEPT ![r] = "evaluating"]
        /\ result' = [result EXCEPT ![r] = "success"]
    BY <1>10 DEF AnswerAccepted
  <2>7. TypeOK'
    BY <2>1, <2>4, <2>6, BookCallType DEF Locations, Outcomes
  <2>8. pc[r] = "calling" /\ \A s \in Runs \ {r} : todo'[s] = todo[s]
    BY <2>1 DEF BookCall
  <2>9. ControlInv'
    BY <2>4, <2>5, <2>6, <2>8
  <2>10. QED
    BY <2>7, <2>9
<1>11. ASSUME NEW r \in Runs, LadderExhausted(r) PROVE TypeInv'
  BY <1>11 DEF LadderExhausted, storeVars, Locations
<1>12. ASSUME NEW r \in Runs, Evaluate(r) PROVE TypeInv'
  BY <1>12 DEF Evaluate, Goto, storeVars, Locations
<1>13. ASSUME NEW r \in Runs, SaveCache(r) PROVE TypeInv'
  <2>1. page[r] \in Page /\ country[r] \in {"caller", "hint"}
    BY <1>13 DEF SaveCache, Goto
  <2>2. [kind |-> page[r].kind, by |-> page[r].by, country |-> country[r],
         validated |-> page[r].validated] \in Page
    BY <2>1 DEF Page
  <2>3. QED
    BY <1>13, <2>2 DEF SaveCache, Goto, Locations
<1>14. ASSUME NEW r \in Runs, RecordScrape(r) PROVE TypeInv'
  BY <1>14 DEF RecordScrape, Goto, Locations
<1>15. ASSUME NEW r \in Runs, WriteReport(r) PROVE TypeInv'
  BY <1>15 DEF WriteReport, Goto, Locations
<1>16. ASSUME NEW r \in Runs, RecordAttemptLedger(r) PROVE TypeInv'
  BY <1>16 DEF RecordAttemptLedger, Goto, Locations
<1>17. ASSUME NEW r \in Runs, Crash(r) PROVE TypeInv'
  BY <1>17 DEF Crash, storeVars, Locations, RestoredCountry
<1>18. QED
  BY <1>1, <1>2, <1>3, <1>5, <1>6, <1>7, <1>8, <1>9, <1>10, <1>11, <1>12, <1>13,
     <1>14, <1>15, <1>16, <1>17 DEF Next, Step

\* The specification never leaves the invariant.
LEMMA TypeInvariance == Spec => []TypeInv
  BY TypeInit, TypeStep, PTL DEF Spec

\* Every variable of a run and of the stores keeps its type.
THEOREM TypeCorrect == Spec => []TypeOK
  BY TypeInvariance, PTL DEF TypeInv

-----------------------------------------------------------------------------
(* The cost ceiling *)

\* A step that books nothing and starts no call keeps the ceiling.
LEMMA CeilingFrame ==
    ASSUME TypeInv, SpendWithinCeiling,
           UNCHANGED <<spent, overrun, forecast>>,
           \A r \in Runs : pc'[r] = "calling" => pc[r] = "calling"
    PROVE  SpendWithinCeiling'
<1>1. SUFFICES ASSUME Capped, NEW s \in Runs
      PROVE  spent[s] + (IF pc'[s] = "calling" THEN forecast[s] ELSE 0)
               <= MaxCost + overrun[s]
  BY DEF SpendWithinCeiling
<1>2. spent[s] + (IF pc[s] = "calling" THEN forecast[s] ELSE 0) <= MaxCost + overrun[s]
  BY <1>1 DEF SpendWithinCeiling
<1>3. spent[s] \in Nat /\ forecast[s] \in Nat /\ overrun[s] \in Nat /\ MaxCost \in Nat
  BY RouterAssumption DEF TypeInv, TypeOK
<1>4. CASE pc'[s] = "calling"
  BY <1>2, <1>4
<1>5. CASE pc'[s] # "calling"
  <2>1. spent[s] <= MaxCost + overrun[s]
    BY <1>2, <1>3
  <2>2. QED
    BY <1>3, <1>5, <2>1
<1>6. QED
  BY <1>4, <1>5

\* Booking: what leaves the forecast enters the spend, or the overrun.
LEMMA CeilingArithmetic ==
    ASSUME NEW before \in Nat, NEW expected \in Nat, NEW cost \in Nat, NEW ceiling \in Nat,
           NEW over \in Nat, NEW excess \in Nat,
           before + expected <= ceiling + over, cost <= expected + excess
    PROVE  before + cost <= ceiling + (over + excess)
  OBVIOUS

\* Booking a call: what it cost is at most its forecast plus its excess.
LEMMA CeilingBook ==
    ASSUME TypeInv, SpendWithinCeiling, NEW r \in Runs, NEW ok \in BOOLEAN,
           BookCall(r, ok), NEW loc, loc # "calling", pc' = [pc EXCEPT ![r] = loc]
    PROVE  SpendWithinCeiling'
<1> USE RouterAssumption DEF TypeInv, TypeOK
<1>1. PICK cost \in 0..MaxBill :
        /\ spent' = [spent EXCEPT ![r] = @ + cost]
        /\ overrun' = [overrun EXCEPT ![r] = @ + Excess(r, cost)]
  BY DEF BookCall
<1>2. cost \in Nat /\ forecast[r] \in Nat /\ cost <= forecast[r] + Excess(r, cost)
  BY DEF Excess
<1>3. Excess(r, cost) \in Nat
  BY <1>2 DEF Excess
<1>4. pc[r] = "calling" /\ \A s \in Runs \ {r} : forecast'[s] = forecast[s]
  BY DEF BookCall
<1>5. SUFFICES ASSUME Capped, NEW s \in Runs
      PROVE  spent'[s] + (IF pc'[s] = "calling" THEN forecast'[s] ELSE 0)
               <= MaxCost + overrun'[s]
  BY DEF SpendWithinCeiling
<1>6. spent[s] + (IF pc[s] = "calling" THEN forecast[s] ELSE 0) <= MaxCost + overrun[s]
  BY <1>5 DEF SpendWithinCeiling
<1>7. CASE s = r
  <2>1. /\ spent'[r] = spent[r] + cost
        /\ overrun'[r] = overrun[r] + Excess(r, cost)
        /\ pc'[r] # "calling"
    BY <1>1
  <2>2. spent[r] + forecast[r] <= MaxCost + overrun[r]
    BY <1>4, <1>6, <1>7
  <2>3. /\ spent[r] \in Nat /\ overrun[r] \in Nat /\ MaxCost \in Nat
    OBVIOUS
  <2>4. spent[r] + cost <= MaxCost + (overrun[r] + Excess(r, cost))
    BY <1>2, <1>3, <2>2, <2>3, CeilingArithmetic
  <2>5. QED
    BY <1>7, <2>1, <2>3, <2>4, <1>2
<1>8. CASE s # r
  BY <1>1, <1>4, <1>6, <1>8
<1>9. QED
  BY <1>7, <1>8

\* A call starts only if its forecast fits what is left.
LEMMA CeilingStart ==
    ASSUME TypeInv, SpendWithinCeiling, NEW r \in Runs, StartCall(r)
    PROVE  SpendWithinCeiling'
<1> USE RouterAssumption DEF TypeInv, TypeOK
<1>1. SUFFICES ASSUME Capped, NEW s \in Runs
      PROVE  spent'[s] + (IF pc'[s] = "calling" THEN forecast'[s] ELSE 0)
               <= MaxCost + overrun'[s]
  BY DEF SpendWithinCeiling
<1>2. PICK f \in Forecasts :
        Affordable(r, f) /\ forecast' = [forecast EXCEPT ![r] = f]
  BY <1>1 DEF StartCall
<1>3. f \in Nat /\ f <= Remaining(r)
  BY <1>1, <1>2 DEF Affordable, Forecasts, Unusable
<1>4. spent[s] + (IF pc[s] = "calling" THEN forecast[s] ELSE 0) <= MaxCost + overrun[s]
  BY <1>1 DEF SpendWithinCeiling
<1>5. spent' = spent /\ overrun' = overrun /\ pc[r] = "loop"
  BY DEF StartCall, Considering
<1>6. CASE s = r
  <2>1. spent[r] + f <= MaxCost + overrun[r]
    BY <1>3, <1>4, <1>5, <1>6 DEF Remaining
  <2>2. forecast'[r] = f
    BY <1>2
  <2>3. QED
    BY <1>4, <1>5, <1>6, <2>1, <2>2
<1>7. CASE s # r
  <2>1. pc'[s] = pc[s] /\ forecast'[s] = forecast[s]
    BY <1>2, <1>7 DEF StartCall
  <2>2. QED
    BY <1>4, <1>5, <2>1
<1>8. QED
  BY <1>6, <1>7

\* Every step keeps the ceiling: only the start of a call and its booking touch it.
LEMMA CeilingStep ==
    TypeInv /\ SpendWithinCeiling /\ [Next]_vars => SpendWithinCeiling'
<1> SUFFICES ASSUME TypeInv, SpendWithinCeiling, [Next]_vars
             PROVE  SpendWithinCeiling'
  OBVIOUS
<1>1. CASE UNCHANGED vars
  BY <1>1, CeilingFrame DEF vars
<1>2. ASSUME NEW r \in Runs, StartCall(r) PROVE SpendWithinCeiling'
  BY <1>2, CeilingStart
<1>3. ASSUME NEW r \in Runs, AnswerFailed(r) PROVE SpendWithinCeiling'
  BY <1>3, CeilingBook DEF AnswerFailed
<1>4. ASSUME NEW r \in Runs, AnswerStops(r) PROVE SpendWithinCeiling'
  BY <1>4, CeilingBook DEF AnswerStops
<1>5. ASSUME NEW r \in Runs, AnswerAccepted(r) PROVE SpendWithinCeiling'
  BY <1>5, CeilingBook DEF AnswerAccepted
<1>6. ASSUME NEW r \in Runs,
             \/ CacheHit(r) \/ PlanRoute(r) \/ SkipProvider(r) \/ BudgetStop(r)
             \/ LadderExhausted(r) \/ Evaluate(r) \/ SaveCache(r)
             \/ RecordScrape(r) \/ WriteReport(r) \/ RecordAttemptLedger(r) \/ Crash(r)
      PROVE  SpendWithinCeiling'
  <2>1. UNCHANGED <<spent, overrun, forecast>>
    BY <1>6 DEF CacheHit, PlanRoute, SkipProvider, BudgetStop, LadderExhausted,
         Evaluate, SaveCache, RecordScrape, WriteReport, RecordAttemptLedger, Crash, Goto
  <2>2. \A s \in Runs : pc'[s] = "calling" => pc[s] = "calling"
    BY <1>6 DEF CacheHit, PlanRoute, SkipProvider, BudgetStop, LadderExhausted,
         Evaluate, SaveCache, RecordScrape, WriteReport, RecordAttemptLedger, Crash,
         Goto, TypeInv, TypeOK
  <2>3. QED
    BY <2>1, <2>2, CeilingFrame
<1>7. QED
  BY <1>1, <1>2, <1>3, <1>4, <1>5, <1>6 DEF Next, Step

\* Booked spend exceeds max_cost_per_url at most by what adapters billed beyond their
\* own forecasts, whatever the providers, their order and their answers.
THEOREM CeilingHolds == Spec => []SpendWithinCeiling
<1>1. Init => SpendWithinCeiling
  BY RouterAssumption DEF Init, SpendWithinCeiling
<1>2. QED
  BY <1>1, CeilingStep, TypeInvariance, PTL DEF Spec

-----------------------------------------------------------------------------
(* The TLD hint *)

\* HintNeverLeaks strengthened: nothing a run holds, in flight or captured, carries the
\* hint once its call is over.
HintInv ==
    /\ cache.kind # "none" => cache.country = "caller"
    /\ \A r \in Runs :
         /\ country[r] = "hint" => pc[r] = "calling"
         /\ page[r].kind # "none" => page[r].country = "caller"
         /\ result[r] = "hit" => page[r].kind # "none"

\* Steps that touch neither request.country, the captures nor the cache.
LEMMA HintFrame ==
    ASSUME TypeInv, HintInv, UNCHANGED <<country, page, cache>>,
           \A r \in Runs : pc[r] = "calling" => pc'[r] = "calling",
           \A r \in Runs : result'[r] = "hit" => result[r] = "hit"
    PROVE  HintInv'
  BY DEF HintInv

\* An answer takes the hint back; the capture it may leave is the caller's.
LEMMA HintBook ==
    ASSUME TypeInv, HintInv, NEW r \in Runs, NEW ok \in BOOLEAN, BookCall(r, ok),
           \A s \in Runs \ {r} : pc'[s] = pc[s] /\ page'[s] = page[s]
                                   /\ result'[s] = result[s],
           result'[r] # "hit",
           page'[r] = page[r] \/ page'[r].country = "caller"
    PROVE  HintInv'
<1> USE DEF TypeInv, TypeOK
<1>1. cache' = cache /\ country' = [country EXCEPT ![r] = "caller"]
  BY DEF BookCall, RestoredCountry, storeVars
<1>2. country'[r] = "caller" /\ \A s \in Runs \ {r} : country'[s] = country[s]
  BY <1>1
<1>3. QED
  BY <1>1, <1>2 DEF HintInv

\* Every step keeps the hint inside a call: one case per action.
LEMMA HintStep == TypeInv /\ HintInv /\ [Next]_vars => HintInv'
<1> SUFFICES ASSUME TypeInv, HintInv, [Next]_vars PROVE HintInv'
  OBVIOUS
<1> USE DEF TypeInv, TypeOK
<1>1. CASE UNCHANGED vars
  BY <1>1, HintFrame DEF vars
<1>2. ASSUME NEW r \in Runs, CacheHit(r) PROVE HintInv'
  BY <1>2 DEF CacheHit, storeVars, HintInv
<1>3. ASSUME NEW r \in Runs, StartCall(r) PROVE HintInv'
  <2>1. UNCHANGED <<page, cache, result>> /\ pc' = [pc EXCEPT ![r] = "calling"]
    BY <1>3 DEF StartCall, storeVars
  <2>2. \A s \in Runs \ {r} : country'[s] = country[s]
    BY <1>3 DEF StartCall
  <2>3. QED
    BY <2>1, <2>2 DEF HintInv
<1>4. ASSUME NEW r \in Runs, AnswerFailed(r) PROVE HintInv'
  <2>1. BookCall(r, FALSE) /\ page' = page /\ pc' = [pc EXCEPT ![r] = "loop"]
    BY <1>4 DEF AnswerFailed
  <2>2. PICK o \in {"failed", "rejected"} : result' = [result EXCEPT ![r] = o]
    BY <1>4 DEF AnswerFailed
  <2>3. QED
    BY <2>1, <2>2, HintBook
<1>5. ASSUME NEW r \in Runs, AnswerStops(r) PROVE HintInv'
  BY <1>5, HintBook DEF AnswerStops
<1>6. ASSUME NEW r \in Runs, AnswerAccepted(r) PROVE HintInv'
  <2>1. /\ BookCall(r, TRUE) /\ pc' = [pc EXCEPT ![r] = "evaluating"]
        /\ result' = [result EXCEPT ![r] = "success"]
    BY <1>6 DEF AnswerAccepted
  <2>2. country'[r] = "caller"
    BY <2>1, BookCallType
  <2>3. PICK kind \in {"html", "image"} :
          page' = [page EXCEPT ![r] =
                     [kind |-> kind, by |-> r, country |-> country'[r],
                      validated |-> kind = "html" /\ ~skip[r]]]
    BY <1>6 DEF AnswerAccepted
  <2>4. page'[r].country = "caller"
    BY <2>2, <2>3
  <2>5. \A s \in Runs \ {r} : page'[s] = page[s]
    BY <2>3
  <2>6. QED
    BY <2>1, <2>4, <2>5, HintBook
<1>7. ASSUME NEW r \in Runs, SaveCache(r) PROVE HintInv'
  <2>1. /\ cache' = [kind |-> page[r].kind, by |-> page[r].by, country |-> country[r],
                     validated |-> page[r].validated]
        /\ UNCHANGED <<country, page, result>>
        /\ pc[r] = "caching"
    BY <1>7 DEF SaveCache, Goto
  <2>2. country[r] = "caller"
    BY <2>1 DEF HintInv
  <2>3. cache'.country = "caller"
    BY <2>1, <2>2
  <2>4. \A s \in Runs : pc[s] = "calling" => pc'[s] = "calling"
    BY <1>7 DEF SaveCache, Goto
  <2>5. QED
    BY <2>1, <2>3, <2>4 DEF HintInv
<1>8. ASSUME NEW r \in Runs, Crash(r) PROVE HintInv'
  BY <1>8 DEF Crash, RestoredCountry, storeVars, HintInv
<1>9. ASSUME NEW r \in Runs,
             \/ PlanRoute(r) \/ SkipProvider(r) \/ BudgetStop(r) \/ LadderExhausted(r)
             \/ Evaluate(r) \/ RecordScrape(r) \/ WriteReport(r) \/ RecordAttemptLedger(r)
      PROVE  HintInv'
  <2>1. UNCHANGED <<country, page, cache>>
    BY <1>9 DEF PlanRoute, SkipProvider, BudgetStop, LadderExhausted, Evaluate,
         RecordScrape, WriteReport, RecordAttemptLedger, Goto, storeVars
  <2>2. \A s \in Runs : pc[s] = "calling" => pc'[s] = "calling"
    BY <1>9 DEF PlanRoute, SkipProvider, BudgetStop, LadderExhausted, Evaluate,
         RecordScrape, WriteReport, RecordAttemptLedger, Goto, Considering
  <2>3. \A s \in Runs : result'[s] = "hit" => result[s] = "hit"
    BY <1>9 DEF PlanRoute, SkipProvider, BudgetStop, LadderExhausted, Evaluate,
         RecordScrape, WriteReport, RecordAttemptLedger, Goto
  <2>4. QED
    BY <2>1, <2>2, <2>3, HintFrame
<1>10. QED
  BY <1>1, <1>2, <1>3, <1>4, <1>5, <1>6, <1>7, <1>8, <1>9 DEF Next, Step

\* Whatever interrupts a call, a hint taken from the TLD is never filed in the cache nor
\* served by a hit, and is in force only while a call is awaited.
THEOREM HintConfined == Spec => []HintNeverLeaks
<1>1. Init => HintInv
  BY DEF Init, HintInv, NoPage
<1>2. HintInv => HintNeverLeaks
  BY DEF HintInv, HintNeverLeaks
<1>3. QED
  BY <1>1, <1>2, HintStep, TypeInvariance, PTL DEF Spec

-----------------------------------------------------------------------------
(* What a hit serves *)

\* HitWasAccepted strengthened: whoever is named as the origin of a capture, in the cache
\* or behind a hit, has succeeded, and a run that has is past its ladder for good.
AcceptedInv ==
    /\ cache.kind # "none" => result[cache.by] = "success"
    /\ \A r \in Runs :
         /\ pc[r] \in {"start", "loop", "calling"} => result[r] \notin {"success", "hit"}
         /\ result[r] = "success" => page[r].by = r
         /\ result[r] = "hit" => page[r].kind = "html" /\ result[page[r].by] = "success"

\* The origin of a capture is a run.
LEMMA OriginIsRun ==
    ASSUME TypeInv
    PROVE  /\ cache.kind # "none" => cache.by \in Runs
           /\ \A r \in Runs : page[r].kind # "none" => page[r].by \in Runs
BY DEF TypeInv, TypeOK, Page, NoPage

\* Steps that leave captures and results alone, and start no ladder again.
LEMMA AcceptedFrame ==
    ASSUME TypeInv, AcceptedInv, UNCHANGED <<result, page, cache>>,
           \A r \in Runs : pc'[r] \in {"start", "loop", "calling"} =>
                             pc[r] \in {"start", "loop", "calling"}
    PROVE  AcceptedInv'
BY DEF AcceptedInv

\* A run still on its ladder gets a result of its own: nobody's capture rests on it yet.
LEMMA AcceptedVerdict ==
    ASSUME TypeInv, AcceptedInv, NEW r \in Runs, pc[r] \in {"start", "loop", "calling"},
           UNCHANGED cache,
           \A s \in Runs \ {r} : pc'[s] = pc[s] /\ page'[s] = page[s] /\ result'[s] = result[s],
           pc'[r] \in {"start", "loop", "calling"} => result'[r] \notin {"success", "hit"},
           result'[r] = "success" => page'[r].by = r,
           result'[r] = "hit" => page'[r] = cache /\ cache.kind = "html"
    PROVE  AcceptedInv'
<1>1. result[r] # "success"
  BY DEF AcceptedInv
<1>2. \A s \in Runs : result[s] = "success" => result'[s] = "success"
  BY <1>1
<1>3. cache'.kind # "none" => result'[cache'.by] = "success"
  BY <1>2, OriginIsRun DEF AcceptedInv
<1>4. ASSUME NEW s \in Runs \ {r}, result[s] = "hit"
      PROVE  page[s].kind = "html" /\ result'[page[s].by] = "success"
  <2>1. page[s].kind = "html" /\ result[page[s].by] = "success"
    BY <1>4 DEF AcceptedInv
  <2>2. page[s].by \in Runs
    BY <2>1, OriginIsRun
  <2>3. QED
    BY <1>2, <2>1, <2>2
<1>5. ASSUME result'[r] = "hit"
      PROVE  page'[r].kind = "html" /\ result'[page'[r].by] = "success"
  BY <1>3, <1>5
<1>6. QED
  BY <1>3, <1>4, <1>5 DEF AcceptedInv

\* Every step keeps it: captures move from an accepting run to the cache and on to hits.
LEMMA AcceptedStep == TypeInv /\ AcceptedInv /\ [Next]_vars => AcceptedInv'
<1> SUFFICES ASSUME TypeInv, AcceptedInv, [Next]_vars PROVE AcceptedInv'
  OBVIOUS
<1>1. CASE UNCHANGED vars
  BY <1>1, AcceptedFrame DEF vars
<1>2. ASSUME NEW r \in Runs, CacheHit(r) PROVE AcceptedInv'
  <2>1. page' = [page EXCEPT ![r] = cache] /\ cache.kind = "html" /\ pc[r] = "start"
    BY <1>2 DEF CacheHit
  <2>2. page'[r] = cache /\ result'[r] = "hit" /\ pc'[r] = "evaluating" /\ cache' = cache
    BY <1>2 DEF CacheHit, storeVars, TypeInv, TypeOK
  <2>3. \A s \in Runs \ {r} : pc'[s] = pc[s] /\ page'[s] = page[s] /\ result'[s] = result[s]
    BY <1>2 DEF CacheHit, TypeInv, TypeOK
  <2>4. QED
    BY <2>1, <2>2, <2>3, AcceptedVerdict
<1>3. ASSUME NEW r \in Runs, BudgetStop(r) PROVE AcceptedInv'
  <2>1. pc[r] = "loop" /\ UNCHANGED <<page, cache>>
    BY <1>3 DEF BudgetStop, Considering, storeVars
  <2>2. result'[r] = "budget" /\ \A s \in Runs \ {r} : pc'[s] = pc[s] /\ result'[s] = result[s]
    BY <1>3 DEF BudgetStop, TypeInv, TypeOK
  <2>3. QED
    BY <2>1, <2>2, AcceptedVerdict
<1>4. ASSUME NEW r \in Runs, AnswerFailed(r) \/ AnswerStops(r) PROVE AcceptedInv'
  <2>1. pc[r] = "calling" /\ UNCHANGED <<page, cache>>
    BY <1>4 DEF AnswerFailed, AnswerStops, BookCall, storeVars
  <2>2. result'[r] \in {"failed", "rejected", "stopped"}
    BY <1>4 DEF AnswerFailed, AnswerStops, TypeInv, TypeOK
  <2>3. \A s \in Runs \ {r} : pc'[s] = pc[s] /\ result'[s] = result[s]
    BY <1>4 DEF AnswerFailed, AnswerStops, TypeInv, TypeOK
  <2>4. QED
    BY <2>1, <2>2, <2>3, AcceptedVerdict
<1>5. ASSUME NEW r \in Runs, AnswerAccepted(r) PROVE AcceptedInv'
  <2>1. pc[r] = "calling" /\ cache' = cache
    BY <1>5 DEF AnswerAccepted, BookCall, storeVars
  <2>2. PICK kind \in {"html", "image"} :
          page' = [page EXCEPT ![r] =
                     [kind |-> kind, by |-> r, country |-> country'[r],
                      validated |-> kind = "html" /\ ~skip[r]]]
    BY <1>5 DEF AnswerAccepted
  <2>3. page'[r].by = r /\ \A s \in Runs \ {r} : page'[s] = page[s]
    BY <2>2 DEF TypeInv, TypeOK
  <2>4. /\ result'[r] = "success" /\ pc'[r] = "evaluating"
        /\ \A s \in Runs \ {r} : pc'[s] = pc[s] /\ result'[s] = result[s]
    BY <1>5 DEF AnswerAccepted, TypeInv, TypeOK
  <2>5. QED
    BY <2>1, <2>3, <2>4, AcceptedVerdict
<1>6. ASSUME NEW r \in Runs, SaveCache(r) PROVE AcceptedInv'
  <2>1. /\ cache'.by = page[r].by
        /\ UNCHANGED <<page, result>>
        /\ pc[r] = "caching"
    BY <1>6 DEF SaveCache, Goto
  <2>2. result[cache'.by] = "success"
    BY <2>1 DEF TypeInv, ControlInv, AcceptedInv
  <2>3. \A s \in Runs : pc'[s] \in {"start", "loop", "calling"} => pc'[s] = pc[s]
    BY <1>6 DEF SaveCache, Goto, TypeInv, TypeOK
  <2>4. QED
    BY <2>1, <2>2, <2>3 DEF AcceptedInv
<1>7. ASSUME NEW r \in Runs,
             \/ PlanRoute(r) \/ SkipProvider(r) \/ StartCall(r) \/ LadderExhausted(r)
             \/ Evaluate(r) \/ RecordScrape(r) \/ WriteReport(r) \/ RecordAttemptLedger(r)
             \/ Crash(r)
      PROVE  AcceptedInv'
  <2>1. UNCHANGED <<result, page, cache>>
    BY <1>7 DEF PlanRoute, SkipProvider, StartCall, LadderExhausted, Evaluate,
         RecordScrape, WriteReport, RecordAttemptLedger, Crash, Goto, storeVars
  <2>2. \A s \in Runs : pc'[s] \in {"start", "loop", "calling"} =>
                          pc[s] \in {"start", "loop", "calling"}
    BY <1>7 DEF PlanRoute, SkipProvider, StartCall, LadderExhausted, Evaluate, Considering,
         RecordScrape, WriteReport, RecordAttemptLedger, Crash, Goto, TypeInv, TypeOK
  <2>3. QED
    BY <2>1, <2>2, AcceptedFrame
<1>8. QED
  BY <1>1, <1>2, <1>3, <1>4, <1>5, <1>6, <1>7 DEF Next, Step

\* A hit serves only a page that a run fetched and accepted, however many runs share the
\* cache and wherever they crash.
THEOREM HitsAccepted == Spec => []HitWasAccepted
<1>1. Init => AcceptedInv
  BY DEF Init, AcceptedInv, NoPage
<1>2. AcceptedInv => HitWasAccepted
  BY DEF AcceptedInv, HitWasAccepted
<1>3. QED
  BY <1>1, <1>2, AcceptedStep, TypeInvariance, PTL DEF Spec

-----------------------------------------------------------------------------
(* What has been written when the ledger is *)

\* EvidenceHasReport strengthened, place by place in the tail of scrape().
TailInv ==
    \A r \in Runs :
        /\ ledger[r] # <<>> => pc[r] = "done"
        /\ pc[r] \in {"recording", "done"} /\ r \in Reporting => r \in reports
        /\ (/\ pc[r] \in {"reporting", "recording", "done"}
            /\ result[r] = "success" /\ page[r].kind = "html") => r \in history

\* Steps on the ladder, and a crash: the run is not in its tail afterwards.
LEMMA TailFrame ==
    ASSUME TypeInv, TailInv, NEW r \in Runs, NEW loc, pc[r] # "done",
           loc \notin {"reporting", "recording", "done"}, pc' = [pc EXCEPT ![r] = loc],
           UNCHANGED <<history, reports, ledger>>,
           \A s \in Runs \ {r} : page'[s] = page[s] /\ result'[s] = result[s]
    PROVE  TailInv'
<1>1. pc'[r] = loc /\ \A s \in Runs \ {r} : pc'[s] = pc[s]
  BY DEF TypeInv, TypeOK
<1>2. QED
  BY <1>1 DEF TailInv

\* Every step keeps it: only the five writes of the tail move a run inside the tail.
LEMMA TailStep == TypeInv /\ TailInv /\ [Next]_vars => TailInv'
<1> SUFFICES ASSUME TypeInv, TailInv, [Next]_vars PROVE TailInv'
  OBVIOUS
<1> USE DEF TypeInv, TypeOK
<1>1. CASE UNCHANGED vars
  BY <1>1 DEF vars, TailInv
<1>2. ASSUME NEW r \in Runs, CacheHit(r) PROVE TailInv'
  <2>1. \A s \in Runs \ {r} : page'[s] = page[s] /\ result'[s] = result[s]
    BY <1>2 DEF CacheHit
  <2>2. QED
    BY <1>2, <2>1, TailFrame DEF CacheHit, storeVars
<1>3. ASSUME NEW r \in Runs, AnswerFailed(r) \/ AnswerStops(r) \/ AnswerAccepted(r)
      PROVE  TailInv'
  <2>1. pc[r] = "calling" /\ UNCHANGED <<history, reports, ledger>>
    BY <1>3 DEF AnswerFailed, AnswerStops, AnswerAccepted, BookCall, storeVars
  <2>2. \A s \in Runs \ {r} : page'[s] = page[s] /\ result'[s] = result[s]
    BY <1>3 DEF AnswerFailed, AnswerStops, AnswerAccepted
  <2>3. PICK loc \in {"loop", "evaluating"} : pc' = [pc EXCEPT ![r] = loc]
    BY <1>3 DEF AnswerFailed, AnswerStops, AnswerAccepted
  <2>4. QED
    BY <2>1, <2>2, <2>3, TailFrame
<1>4. ASSUME NEW r \in Runs, PlanRoute(r) \/ BudgetStop(r) \/ StartCall(r) \/ LadderExhausted(r)
      PROVE  TailInv'
  <2>1. pc[r] \in {"start", "loop"} /\ UNCHANGED <<page, history, reports, ledger>>
    BY <1>4 DEF PlanRoute, BudgetStop, StartCall, LadderExhausted, Considering, storeVars
  <2>2. \A s \in Runs \ {r} : result'[s] = result[s]
    BY <1>4 DEF PlanRoute, BudgetStop, StartCall, LadderExhausted
  <2>3. PICK loc \in {"loop", "evaluating", "calling"} : pc' = [pc EXCEPT ![r] = loc]
    BY <1>4 DEF PlanRoute, BudgetStop, StartCall, LadderExhausted
  <2>4. QED
    BY <2>1, <2>2, <2>3, TailFrame
<1>5. ASSUME NEW r \in Runs, SkipProvider(r) PROVE TailInv'
  BY <1>5 DEF SkipProvider, storeVars, TailInv
<1>6. ASSUME NEW r \in Runs, Crash(r) PROVE TailInv'
  BY <1>6, TailFrame DEF Crash, storeVars
<1>7. ASSUME NEW r \in Runs, Evaluate(r) PROVE TailInv'
  BY <1>7 DEF Evaluate, Goto, storeVars, TailInv
<1>8. ASSUME NEW r \in Runs, SaveCache(r) PROVE TailInv'
  BY <1>8 DEF SaveCache, Goto, TailInv
<1>9. ASSUME NEW r \in Runs, RecordScrape(r) PROVE TailInv'
  BY <1>9 DEF RecordScrape, Goto, TailInv
<1>10. ASSUME NEW r \in Runs, WriteReport(r) PROVE TailInv'
  BY <1>10 DEF WriteReport, Goto, TailInv
<1>11. ASSUME NEW r \in Runs, RecordAttemptLedger(r) PROVE TailInv'
  BY <1>11 DEF RecordAttemptLedger, Goto, TailInv
<1>12. QED
  BY <1>1, <1>2, <1>3, <1>4, <1>5, <1>6, <1>7, <1>8, <1>9, <1>10, <1>11 DEF Next, Step

\* Recorded attempts have their report if telemetry is on, and a recorded success its page
\* history in any case, wherever runs crash.
THEOREM EvidenceReported == Spec => []EvidenceHasReport
<1>1. Init => TailInv
  BY DEF Init, TailInv
<1>2. TailInv => EvidenceHasReport
  BY DEF TailInv, EvidenceHasReport
<1>3. QED
  BY <1>1, <1>2, TailStep, TypeInvariance, PTL DEF Spec

-----------------------------------------------------------------------------
(* What the recorded rows say *)

Good(rs) == {i \in DOMAIN rs : rs[i].ok}
Named(rs) == {rs[i].provider : i \in DOMAIN rs}

\* The rows of one call: only the last may be a success, and all name the provider.
LEMMA CallRowsSay ==
    ASSUME NEW rs \in Seq(Row), NEW p \in Providers, NEW n \in 1..MaxRows, NEW ok \in BOOLEAN
    PROVE  /\ ok => Good(rs \o CallRows(p, n, ok))
                       = Good(rs) \cup {Len(rs \o CallRows(p, n, ok))}
           /\ ~ok => Good(rs \o CallRows(p, n, ok)) = Good(rs)
           /\ Named(rs \o CallRows(p, n, ok)) = Named(rs) \cup {p}
<1> DEFINE all == rs \o CallRows(p, n, ok)
<1>1. n \in Nat /\ n >= 1 /\ Len(rs) \in Nat
  BY RouterAssumption
<1>2. CallRows(p, n, ok) \in Seq(Row) /\ Len(CallRows(p, n, ok)) = n
  <2>1. CallRows(p, n, ok) \in Seq(Row)
    BY CallRowsType
  <2>2. DOMAIN CallRows(p, n, ok) = 1..n
    BY DEF CallRows
  <2>3. QED
    BY <1>1, <2>1, <2>2
<1>3. DOMAIN rs = 1..Len(rs) /\ DOMAIN all = 1..(Len(rs) + n) /\ Len(all) = Len(rs) + n
  BY <1>1, <1>2
<1>4. \A i \in 1..Len(rs) : all[i] = rs[i]
  BY <1>1, <1>2
<1>5. \A i \in 1..n : CallRows(p, n, ok)[i] = [provider |-> p, ok |-> ok /\ i = n]
  BY DEF CallRows
<1>6. \A i \in (Len(rs) + 1)..(Len(rs) + n) : all[i] = CallRows(p, n, ok)[i - Len(rs)]
  BY <1>1, <1>2
<1>7. \A i \in (Len(rs) + 1)..(Len(rs) + n) :
        all[i].provider = p /\ (all[i].ok <=> ok /\ i = Len(rs) + n)
  <2> SUFFICES ASSUME NEW i \in (Len(rs) + 1)..(Len(rs) + n)
               PROVE  all[i].provider = p /\ (all[i].ok <=> ok /\ i = Len(rs) + n)
    OBVIOUS
  <2>1. i - Len(rs) \in 1..n /\ (i - Len(rs) = n <=> i = Len(rs) + n)
    BY <1>1
  <2>2. all[i] = [provider |-> p, ok |-> ok /\ i - Len(rs) = n]
    BY <1>5, <1>6, <2>1
  <2>3. all[i].provider = p /\ all[i].ok = (ok /\ i - Len(rs) = n)
    BY <2>2
  <2>4. QED
    BY <2>1, <2>3
<1>8. \A i \in DOMAIN all : i \in 1..Len(rs) \/ i \in (Len(rs) + 1)..(Len(rs) + n)
  BY <1>1, <1>3
<1>9. Len(rs) + n \in DOMAIN all /\ Len(rs) + n \in (Len(rs) + 1)..(Len(rs) + n)
      /\ 1..Len(rs) \subseteq DOMAIN all
  BY <1>1, <1>3
<1> HIDE DEF all
<1>10. /\ ok => Good(all) = Good(rs) \cup {Len(all)}
       /\ ~ok => Good(all) = Good(rs)
  BY <1>3, <1>4, <1>7, <1>8, <1>9 DEF Good
<1>11. Named(all) = Named(rs) \cup {p}
  BY <1>3, <1>4, <1>7, <1>8, <1>9 DEF Named
<1>12. QED
  BY <1>10, <1>11 DEF all

\* What one call adds to the rows of a run, and to those of no other.
LEMMA BookedRows ==
    ASSUME TypeInv, NEW r \in Runs, NEW ok \in BOOLEAN, BookCall(r, ok)
    PROVE  /\ ok => Good(rows'[r]) = Good(rows[r]) \cup {Len(rows'[r])}
           /\ ~ok => Good(rows'[r]) = Good(rows[r])
           /\ Named(rows'[r]) = Named(rows[r]) \cup {Head(todo[r])}
           /\ \A s \in Runs \ {r} : rows'[s] = rows[s]
<1> USE DEF TypeInv, TypeOK, ControlInv
<1>1. PICK n \in 1..MaxRows : rows' = [rows EXCEPT ![r] = @ \o CallRows(Candidate(r), n, ok)]
  BY DEF BookCall
<1>2. Candidate(r) \in Providers /\ Candidate(r) = Head(todo[r])
  BY DEF BookCall, Candidate
<1>3. rows'[r] = rows[r] \o CallRows(Candidate(r), n, ok) /\ rows[r] \in Seq(Row)
  BY <1>1
<1>4. \A s \in Runs \ {r} : rows'[s] = rows[s]
  BY <1>1
<1>5. QED
  BY <1>2, <1>3, <1>4, CallRowsSay

\* EvidenceMatchesOutcome strengthened: the rows of a run agree with its result at any time,
\* and the recorded ones are the run's.
VerdictInv ==
    \A r \in Runs :
        /\ Good(rows[r]) = IF result[r] = "success" THEN {Len(rows[r])} ELSE {}
        /\ pc[r] \in {"start", "loop", "calling"} => result[r] \notin {"success", "hit"}
        /\ pc[r] = "start" \/ result[r] = "hit" => rows[r] = <<>>
        /\ ledger[r] = IF pc[r] = "done" THEN rows[r] ELSE <<>>

\* Steps that book nothing and end no run.
LEMMA VerdictFrame ==
    ASSUME TypeInv, VerdictInv, NEW r \in Runs,
           UNCHANGED <<rows, ledger>>, pc[r] # "done", pc'[r] \notin {"start", "done"},
           \A s \in Runs \ {r} : pc'[s] = pc[s] /\ result'[s] = result[s],
           pc'[r] \in {"start", "loop", "calling"} => pc[r] \in {"start", "loop", "calling"},
           \/ result'[r] = result[r]
           \/ /\ pc[r] \in {"start", "loop"} /\ pc'[r] = "evaluating"
              /\ \/ result'[r] = "budget"
                 \/ result'[r] = "hit" /\ pc[r] = "start"
    PROVE  VerdictInv'
BY DEF VerdictInv

\* The verdict on a call is the verdict in its last row.
LEMMA VerdictBook ==
    ASSUME TypeInv, VerdictInv, NEW r \in Runs, NEW ok \in BOOLEAN, BookCall(r, ok),
           pc'[r] \in {"loop", "evaluating"}, result'[r] # "hit",
           ok <=> result'[r] = "success",
           ok => pc'[r] = "evaluating",
           \A s \in Runs \ {r} : pc'[s] = pc[s] /\ result'[s] = result[s]
    PROVE  VerdictInv'
<1>1. pc[r] = "calling" /\ ledger' = ledger
  BY DEF BookCall, storeVars
<1>2. Good(rows[r]) = {} /\ ledger[r] = <<>>
  BY <1>1 DEF VerdictInv
<1>3. Good(rows'[r]) = IF result'[r] = "success" THEN {Len(rows'[r])} ELSE {}
  BY <1>2, BookedRows
<1>4. \A s \in Runs \ {r} : rows'[s] = rows[s]
  BY BookedRows
<1>5. QED
  BY <1>1, <1>2, <1>3, <1>4 DEF VerdictInv

\* Every step keeps it: a verdict and its rows come in one step.
LEMMA VerdictStep == TypeInv /\ VerdictInv /\ [Next]_vars => VerdictInv'
<1> SUFFICES ASSUME TypeInv, VerdictInv, [Next]_vars PROVE VerdictInv'
  OBVIOUS
<1> USE DEF TypeInv, TypeOK
<1>1. CASE UNCHANGED vars
  BY <1>1 DEF vars, VerdictInv
<1>2. ASSUME NEW r \in Runs,
             \/ CacheHit(r) \/ PlanRoute(r) \/ BudgetStop(r) \/ StartCall(r)
             \/ LadderExhausted(r)
      PROVE  VerdictInv'
  <2>1. UNCHANGED <<rows, ledger>> /\ pc[r] \in {"start", "loop"}
    BY <1>2 DEF CacheHit, PlanRoute, BudgetStop, StartCall, LadderExhausted, Considering,
         storeVars
  <2>2. pc'[r] \in {"loop", "calling", "evaluating"}
    BY <1>2 DEF CacheHit, PlanRoute, BudgetStop, StartCall, LadderExhausted
  <2>3. \A s \in Runs \ {r} : pc'[s] = pc[s] /\ result'[s] = result[s]
    BY <1>2 DEF CacheHit, PlanRoute, BudgetStop, StartCall, LadderExhausted
  <2>4. \/ result'[r] = result[r]
        \/ /\ pc'[r] = "evaluating"
           /\ result'[r] = "budget" \/ (result'[r] = "hit" /\ pc[r] = "start")
    BY <1>2 DEF CacheHit, PlanRoute, BudgetStop, StartCall, LadderExhausted
  <2>5. QED
    BY <2>1, <2>2, <2>3, <2>4, VerdictFrame
<1>3. ASSUME NEW r \in Runs, SkipProvider(r) PROVE VerdictInv'
  BY <1>3 DEF SkipProvider, storeVars, VerdictInv
<1>4. ASSUME NEW r \in Runs, AnswerFailed(r) \/ AnswerStops(r) PROVE VerdictInv'
  <2>1. BookCall(r, FALSE) /\ pc'[r] \in {"loop", "evaluating"}
    BY <1>4 DEF AnswerFailed, AnswerStops
  <2>2. result'[r] \in {"failed", "rejected", "stopped"}
    BY <1>4 DEF AnswerFailed, AnswerStops
  <2>3. \A s \in Runs \ {r} : pc'[s] = pc[s] /\ result'[s] = result[s]
    BY <1>4 DEF AnswerFailed, AnswerStops
  <2>4. QED
    BY <2>1, <2>2, <2>3, VerdictBook
<1>5. ASSUME NEW r \in Runs, AnswerAccepted(r) PROVE VerdictInv'
  <2>1. BookCall(r, TRUE) /\ pc'[r] = "evaluating" /\ result'[r] = "success"
    BY <1>5 DEF AnswerAccepted
  <2>2. \A s \in Runs \ {r} : pc'[s] = pc[s] /\ result'[s] = result[s]
    BY <1>5 DEF AnswerAccepted
  <2>3. QED
    BY <2>1, <2>2, VerdictBook
<1>6. ASSUME NEW r \in Runs, Evaluate(r) \/ SaveCache(r) \/ RecordScrape(r) \/ Crash(r)
      PROVE  VerdictInv'
  <2>1. UNCHANGED <<rows, ledger, result>> /\ pc[r] # "done"
    BY <1>6 DEF Evaluate, SaveCache, RecordScrape, Crash, Goto, storeVars
  <2>2. pc'[r] \in {"caching", "reporting", "history", "crashed"}
    BY <1>6 DEF Evaluate, SaveCache, RecordScrape, Crash, Goto
  <2>3. \A s \in Runs \ {r} : pc'[s] = pc[s]
    BY <1>6 DEF Evaluate, SaveCache, RecordScrape, Crash, Goto
  <2>4. QED
    BY <2>1, <2>2, <2>3, VerdictFrame
<1>7. ASSUME NEW r \in Runs, WriteReport(r) PROVE VerdictInv'
  BY <1>7 DEF WriteReport, Goto, VerdictInv
<1>8. ASSUME NEW r \in Runs, RecordAttemptLedger(r) PROVE VerdictInv'
  BY <1>8 DEF RecordAttemptLedger, Goto, VerdictInv
<1>9. QED
  BY <1>1, <1>2, <1>3, <1>4, <1>5, <1>6, <1>7, <1>8 DEF Next, Step

\* The specification never leaves it.
LEMMA VerdictInvariance == Spec => []VerdictInv
<1>1. Init => VerdictInv
  BY DEF Init, VerdictInv, Good
<1>2. QED
  BY <1>1, VerdictStep, TypeInvariance, PTL DEF Spec

\* What routing learns is what the caller saw: a finished run has a success row, its last,
\* exactly when it returned a page it fetched.
THEOREM EvidenceAgrees == Spec => []EvidenceMatchesOutcome
<1>1. TypeInv /\ VerdictInv => EvidenceMatchesOutcome
  <2> SUFFICES ASSUME VerdictInv, NEW r \in Runs, pc[r] = "done"
               PROVE  Good(ledger[r]) = IF result[r] = "success" THEN {Len(ledger[r])} ELSE {}
    BY DEF EvidenceMatchesOutcome, Good
  <2>1. QED
    BY DEF VerdictInv
<1>2. QED
  BY <1>1, VerdictInvariance, TypeInvariance, PTL

-----------------------------------------------------------------------------
(* No provider is forgotten *)

\* An order of a gateway's adapters contains all of them.
LEMMA OrderIsComplete ==
    ASSUME NEW r \in Runs
    PROVE  \A order \in SetToSeqs(Gateway[r]) : Range(order) = Gateway[r]
<1> SUFFICES ASSUME NEW order \in SetToSeqs(Gateway[r]) PROVE Range(order) = Gateway[r]
  OBVIOUS
<1> DEFINE n == Cardinality(Gateway[r])
<1>1. n \in Nat /\ IsFiniteSet(Gateway[r])
  BY GatewayFinite
<1>2. order \in Injection(1..n, Gateway[r])
  BY DEF SetToSeqs, Injection, IsInjective
<1>3. Cardinality(1..n) = n
  BY <1>1, FS_Interval
<1>4. order \in Surjection(1..n, Gateway[r])
  BY <1>1, <1>2, <1>3, FS_Injection
<1>5. QED
  BY <1>4 DEF Surjection, Range

\* What considering its first provider leaves of a list.
LEMMA HeadAndRest ==
    ASSUME NEW list \in Seq(Providers), list # <<>>
    PROVE  Range(list) = {Head(list)} \cup Range(Tail(list))
<1>1. Len(list) \in Nat /\ Len(list) >= 1 /\ DOMAIN list = 1..Len(list)
  OBVIOUS
<1>2. /\ Len(Tail(list)) = Len(list) - 1 /\ DOMAIN Tail(list) = 1..(Len(list) - 1)
      /\ \A i \in 1..(Len(list) - 1) : Tail(list)[i] = list[i + 1]
  BY <1>1
<1>3. \A i \in 1..Len(list) : i = 1 \/ (i - 1 \in 1..(Len(list) - 1) /\ (i - 1) + 1 = i)
  BY <1>1
<1>4. \A i \in 1..(Len(list) - 1) : i + 1 \in 1..Len(list)
  BY <1>1
<1>5. Head(list) = list[1] /\ 1 \in 1..Len(list)
  BY <1>1
<1>6. Range(list) \subseteq {Head(list)} \cup Range(Tail(list))
  <2> SUFFICES ASSUME NEW i \in 1..Len(list) PROVE list[i] \in {Head(list)} \cup Range(Tail(list))
    BY <1>1 DEF Range
  <2>1. CASE i = 1
    BY <1>5, <2>1
  <2>2. CASE i - 1 \in 1..(Len(list) - 1) /\ (i - 1) + 1 = i
    <3>1. Tail(list)[i - 1] = list[i]
      BY <1>2, <2>2
    <3>2. QED
      BY <1>2, <2>2, <3>1 DEF Range
  <2>3. QED
    BY <1>3, <2>1, <2>2
<1>7. {Head(list)} \cup Range(Tail(list)) \subseteq Range(list)
  <2>1. Head(list) \in Range(list)
    BY <1>1, <1>5 DEF Range
  <2>2. ASSUME NEW i \in 1..(Len(list) - 1) PROVE Tail(list)[i] \in Range(list)
    BY <1>1, <1>2, <1>4 DEF Range
  <2>3. QED
    BY <1>2, <2>1, <2>2 DEF Range
<1>8. QED
  BY <1>6, <1>7

\* EveryAttemptRecorded strengthened: on the ladder every provider was called, was skipped or
\* is still listed, and the rows name those that were called, but for a call in flight.
Covered(r) ==
    /\ pc[r] = "start" => called[r] = {} /\ skipped[r] = {}
    /\ pc[r] \notin {"calling", "crashed"} => Named(rows[r]) = called[r]
    /\ pc[r] = "calling" => Named(rows[r]) \cup {Head(todo[r])} = called[r]
    /\ pc[r] \in {"loop", "calling"} =>
         called[r] \cup skipped[r] \cup Range(todo[r]) = Gateway[r]
    /\ (/\ pc[r] \notin {"start", "loop", "calling", "crashed"}
        /\ result[r] \in {"none", "failed", "rejected"}) =>
         called[r] \cup skipped[r] = Gateway[r]

CoverInv == \A r \in Runs : Covered(r)

\* Steps that concern one run only.
CoverOthers(r) ==
    \A s \in Runs \ {r} : /\ pc'[s] = pc[s] /\ rows'[s] = rows[s] /\ called'[s] = called[s]
                          /\ todo'[s] = todo[s] /\ skipped'[s] = skipped[s]
                          /\ result'[s] = result[s]

\* Such a step need only be looked at where it takes place.
LEMMA CoverFrame ==
    ASSUME CoverInv, NEW r \in Runs, CoverOthers(r), Covered(r)'
    PROVE  CoverInv'
<1>1. ASSUME NEW s \in Runs \ {r} PROVE Covered(s)'
  BY <1>1 DEF CoverInv, CoverOthers, Covered
<1>2. QED
  BY <1>1 DEF CoverInv

\* A call is booked, and its provider leaves the list.
LEMMA CoverBook ==
    ASSUME TypeInv, CoverInv, NEW r \in Runs, NEW ok \in BOOLEAN, BookCall(r, ok),
           \/ pc'[r] = "loop"
           \/ pc'[r] = "evaluating" /\ result'[r] \in {"stopped", "success"},
           \A s \in Runs \ {r} : pc'[s] = pc[s] /\ result'[s] = result[s]
    PROVE  CoverInv'
<1>1. pc[r] = "calling" /\ todo[r] # <<>> /\ todo[r] \in Seq(Providers)
  BY DEF BookCall, TypeInv, TypeOK, ControlInv
<1>2. UNCHANGED <<called, skipped>> /\ todo' = [todo EXCEPT ![r] = Tail(@)]
  BY DEF BookCall
<1>3. todo'[r] = Tail(todo[r]) /\ \A s \in Runs \ {r} : todo'[s] = todo[s]
  BY <1>2 DEF TypeInv, TypeOK
<1>4. Named(rows'[r]) = called'[r] /\ Head(todo[r]) \in called[r]
  BY <1>1, <1>2, BookedRows DEF CoverInv, Covered
<1>5. called'[r] \cup skipped'[r] \cup Range(todo'[r]) = Gateway[r]
  BY <1>1, <1>2, <1>3, <1>4, HeadAndRest DEF CoverInv, Covered
<1>6. \A s \in Runs \ {r} : rows'[s] = rows[s]
  BY BookedRows
<1>7. CoverOthers(r)
  BY <1>2, <1>3, <1>6 DEF CoverOthers
<1>8. pc'[r] \notin {"start", "calling", "crashed"}
      /\ (pc'[r] # "loop" => result'[r] \notin {"none", "failed", "rejected"})
  OBVIOUS
<1>9. QED
  BY <1>4, <1>5, <1>7, <1>8 DEF CoverInv, Covered, CoverOthers

\* Every step keeps it: providers move from the list to the called or the skipped ones.
LEMMA CoverStep == TypeInv /\ CoverInv /\ [Next]_vars => CoverInv'
<1> SUFFICES ASSUME TypeInv, CoverInv, [Next]_vars PROVE CoverInv'
  OBVIOUS
<1> USE DEF TypeInv, TypeOK
<1>1. CASE UNCHANGED vars
  BY <1>1 DEF vars, CoverInv, Covered
<1>2. ASSUME NEW r \in Runs, CacheHit(r) PROVE CoverInv'
  BY <1>2 DEF CacheHit, CoverInv, Covered
<1>3. ASSUME NEW r \in Runs, PlanRoute(r) PROVE CoverInv'
  <2>1. Range(todo'[r]) = Gateway[r] /\ \A s \in Runs \ {r} : todo'[s] = todo[s]
    <3>1. PICK order \in SetToSeqs(Gateway[r]) : todo' = [todo EXCEPT ![r] = order]
      BY <1>3 DEF PlanRoute
    <3>2. QED
      BY <3>1, OrderIsComplete
  <2>2. called[r] = {} /\ skipped[r] = {}
    BY <1>3 DEF PlanRoute, CoverInv, Covered
  <2>3. QED
    BY <1>3, <2>1, <2>2 DEF PlanRoute, CoverInv, Covered
<1>4. ASSUME NEW r \in Runs, Considering(r)
      PROVE  Range(todo[r]) = {Candidate(r)} \cup Range(Tail(todo[r]))
  BY <1>4, HeadAndRest DEF Considering, Candidate
<1>5. ASSUME NEW r \in Runs, SkipProvider(r) PROVE CoverInv'
  <2>1. /\ todo'[r] = Tail(todo[r]) /\ skipped'[r] = skipped[r] \cup {Candidate(r)}
        /\ UNCHANGED <<pc, rows, called, result>> /\ pc[r] = "loop"
    BY <1>5 DEF SkipProvider, Considering
  <2>2. CoverOthers(r)
    BY <1>5 DEF SkipProvider, CoverOthers
  <2>3. called[r] \cup skipped'[r] \cup Range(todo'[r]) = Gateway[r]
    BY <1>4, <1>5, <2>1 DEF SkipProvider, CoverInv, Covered
  <2>4. QED
    BY <2>1, <2>2, <2>3 DEF CoverInv, Covered, CoverOthers
<1>6. ASSUME NEW r \in Runs, BudgetStop(r) PROVE CoverInv'
  <2>1. /\ UNCHANGED <<rows, called, todo>> /\ pc[r] = "loop"
        /\ pc'[r] = "evaluating" /\ result'[r] = "budget"
    BY <1>6 DEF BudgetStop, Considering
  <2>2. CoverOthers(r)
    BY <1>6 DEF BudgetStop, CoverOthers
  <2>3. QED
    BY <2>1, <2>2 DEF CoverInv, Covered, CoverOthers
<1>7. ASSUME NEW r \in Runs, StartCall(r) PROVE CoverInv'
  <2>1. /\ UNCHANGED <<rows, todo, skipped, result>> /\ pc[r] = "loop" /\ pc'[r] = "calling"
        /\ called'[r] = called[r] \cup {Head(todo[r])}
    BY <1>7 DEF StartCall, Considering, Candidate
  <2>2. CoverOthers(r)
    BY <1>7 DEF StartCall, CoverOthers
  <2>3. Head(todo[r]) \in Range(todo[r])
    BY <1>4, <1>7 DEF StartCall, Candidate
  <2>4. Named(rows'[r]) \cup {Head(todo'[r])} = called'[r]
    BY <2>1 DEF CoverInv, Covered
  <2>5. called'[r] \cup skipped'[r] \cup Range(todo'[r]) = Gateway[r]
    <3>1. called[r] \cup skipped[r] \cup Range(todo[r]) = Gateway[r]
      BY <2>1 DEF CoverInv, Covered
    <3>2. QED
      BY <2>1, <2>3, <3>1
  <2>6. QED
    BY <2>1, <2>2, <2>4, <2>5, CoverFrame DEF Covered
<1>8. ASSUME NEW r \in Runs, AnswerFailed(r) PROVE CoverInv'
  <2>1. BookCall(r, FALSE) /\ pc'[r] = "loop"
    BY <1>8 DEF AnswerFailed
  <2>2. \A s \in Runs \ {r} : pc'[s] = pc[s] /\ result'[s] = result[s]
    BY <1>8 DEF AnswerFailed
  <2>3. QED
    BY <2>1, <2>2, CoverBook
<1>9. ASSUME NEW r \in Runs, AnswerStops(r) PROVE CoverInv'
  <2>1. BookCall(r, FALSE) /\ pc'[r] = "evaluating" /\ result'[r] = "stopped"
    BY <1>9 DEF AnswerStops
  <2>2. \A s \in Runs \ {r} : pc'[s] = pc[s] /\ result'[s] = result[s]
    BY <1>9 DEF AnswerStops
  <2>3. QED
    BY <2>1, <2>2, CoverBook
<1>10. ASSUME NEW r \in Runs, AnswerAccepted(r) PROVE CoverInv'
  <2>1. BookCall(r, TRUE) /\ pc'[r] = "evaluating" /\ result'[r] = "success"
    BY <1>10 DEF AnswerAccepted
  <2>2. \A s \in Runs \ {r} : pc'[s] = pc[s] /\ result'[s] = result[s]
    BY <1>10 DEF AnswerAccepted
  <2>3. QED
    BY <2>1, <2>2, CoverBook
<1>11. ASSUME NEW r \in Runs, LadderExhausted(r) PROVE CoverInv'
  <2>1. UNCHANGED <<rows, todo, skipped, called, result>> /\ pc[r] = "loop"
        /\ pc'[r] = "evaluating" /\ \A s \in Runs \ {r} : pc'[s] = pc[s]
    BY <1>11 DEF LadderExhausted
  <2>2. Range(todo[r]) = {}
    BY <1>11 DEF LadderExhausted, Range
  <2>3. called[r] \cup skipped[r] = Gateway[r]
    BY <2>1, <2>2 DEF CoverInv, Covered
  <2>4. QED
    BY <2>1, <2>3 DEF CoverInv, Covered
<1>12. ASSUME NEW r \in Runs,
              \/ Evaluate(r) \/ SaveCache(r) \/ RecordScrape(r) \/ WriteReport(r)
              \/ RecordAttemptLedger(r) \/ Crash(r)
       PROVE  CoverInv'
  <2>1. UNCHANGED <<rows, todo, skipped, called, result>>
    BY <1>12 DEF Evaluate, SaveCache, RecordScrape, WriteReport, RecordAttemptLedger, Crash, Goto
  <2>2. \/ pc'[r] = "crashed"
        \/ /\ pc[r] \in {"evaluating", "caching", "history", "reporting", "recording"}
           /\ pc'[r] \in {"caching", "history", "reporting", "recording", "done"}
    BY <1>12 DEF Evaluate, SaveCache, RecordScrape, WriteReport, RecordAttemptLedger, Crash, Goto
  <2>3. \A s \in Runs \ {r} : pc'[s] = pc[s]
    BY <1>12 DEF Evaluate, SaveCache, RecordScrape, WriteReport, RecordAttemptLedger, Crash, Goto
  <2>4. QED
    BY <2>1, <2>2, <2>3 DEF CoverInv, Covered
<1>13. QED
  BY <1>1, <1>2, <1>3, <1>5, <1>6, <1>7, <1>8, <1>9, <1>10, <1>11, <1>12 DEF Next, Step

\* The recorded rows name exactly the providers that were called, and a run that gives up
\* without an early stop has called or skipped every one.
THEOREM AttemptsRecorded == Spec => []EveryAttemptRecorded
<1>1. Init => CoverInv
  BY DEF Init, CoverInv, Covered, Named
<1>2. TypeInv /\ VerdictInv /\ CoverInv => EveryAttemptRecorded
  <2> SUFFICES ASSUME VerdictInv, CoverInv, NEW r \in Runs, pc[r] = "done"
               PROVE  /\ Named(ledger[r]) = called[r]
                      /\ result[r] \in {"none", "failed", "rejected"} =>
                           called[r] \cup skipped[r] = Gateway[r]
    BY DEF EveryAttemptRecorded, Named
  <2>1. ledger[r] = rows[r]
    BY DEF VerdictInv
  <2>2. QED
    BY <2>1 DEF CoverInv, Covered
<1>3. QED
  BY <1>1, <1>2, CoverStep, VerdictInvariance, TypeInvariance, PTL DEF Spec

-----------------------------------------------------------------------------
(* How many steps a run has left *)

\* The number is a number.
LEMMA StepsNatural ==
    ASSUME NEW at \in Locations, NEW list \in Seq(Providers)
    PROVE  StepsLeft(at, list) \in Nat
<1>1. Cardinality(Providers) \in Nat
  BY RouterAssumption, FS_CardinalityType
<1>2. Len(list) \in Nat
  OBVIOUS
<1>3. QED
  BY <1>1, <1>2 DEF StepsLeft, Locations

\* A planned order is no longer than there are providers.
LEMMA OrderLength ==
    ASSUME NEW r \in Runs
    PROVE  \A order \in SetToSeqs(Gateway[r]) :
               Len(order) \in Nat /\ Len(order) <= Cardinality(Providers)
<1>1. /\ Cardinality(Gateway[r]) \in Nat
      /\ Cardinality(Gateway[r]) <= Cardinality(Providers)
  BY GatewayFinite
<1>2. \A order \in SetToSeqs(Gateway[r]) : Len(order) = Cardinality(Gateway[r])
  BY <1>1 DEF SetToSeqs
<1>3. QED
  BY <1>1, <1>2

\* A step that brings one run nearer to its end.
Advance(r) ==
    /\ StepsLeft(pc'[r], todo'[r]) < StepsLeft(pc[r], todo[r])
    /\ \A s \in Runs \ {r} : StepsLeft(pc'[s], todo'[s]) = StepsLeft(pc[s], todo[s])

\* A step of one run leaves the others where they are.
LEMMA AdvanceFrame ==
    ASSUME TypeInv, NEW r \in Runs, NEW at, NEW list,
           pc' = [pc EXCEPT ![r] = at], todo' = [todo EXCEPT ![r] = list],
           StepsLeft(at, list) < StepsLeft(pc[r], todo[r])
    PROVE  Advance(r)
<1>1. pc \in [Runs -> Locations] /\ todo \in [Runs -> Seq(Providers)]
  BY DEF TypeInv, TypeOK
<1>2. pc'[r] = at /\ todo'[r] = list
  BY <1>1
<1>3. \A s \in Runs \ {r} : pc'[s] = pc[s] /\ todo'[s] = todo[s]
  BY <1>1
<1>4. QED
  BY <1>2, <1>3 DEF Advance

\* The same, of a step that leaves the list of its run alone.
LEMMA AdvanceAlong ==
    ASSUME TypeInv, NEW r \in Runs, NEW at, pc' = [pc EXCEPT ![r] = at], UNCHANGED todo,
           StepsLeft(at, todo[r]) < StepsLeft(pc[r], todo[r])
    PROVE  Advance(r)
<1>1. todo' = [todo EXCEPT ![r] = todo[r]]
  BY DEF TypeInv, TypeOK
<1>2. QED
  BY <1>1, AdvanceFrame

\* Considering a provider shortens the list.
LEMMA ShorterList ==
    ASSUME NEW list \in Seq(Providers), list # <<>>
    PROVE  Len(list) \in Nat /\ Len(list) >= 1 /\ Len(Tail(list)) = Len(list) - 1
OBVIOUS

LEMMA AdvanceStep == TypeInv /\ [Next]_vars => [\E r \in Runs : Advance(r)]_vars
<1> SUFFICES ASSUME TypeInv, Next PROVE \E r \in Runs : Advance(r)
  OBVIOUS
<1> PICK r \in Runs : Step(r) \/ Crash(r)
  BY DEF Next
<1> DEFINE list == todo[r]
<1>0. list \in Seq(Providers) /\ Len(list) \in Nat /\ Cardinality(Providers) \in Nat
  BY RouterAssumption, FS_CardinalityType DEF TypeInv, TypeOK
<1>1. CASE CacheHit(r)
  <2>1. pc[r] = "start" /\ pc' = [pc EXCEPT ![r] = "evaluating"] /\ todo' = todo
    BY <1>1 DEF CacheHit
  <2>2. StepsLeft("evaluating", list) < StepsLeft("start", list)
    BY <1>0 DEF StepsLeft
  <2>3. QED
    BY <2>1, <2>2, AdvanceAlong
<1>2. CASE PlanRoute(r)
  <2>1. PICK order \in SetToSeqs(Gateway[r]) : todo' = [todo EXCEPT ![r] = order]
    BY <1>2 DEF PlanRoute
  <2>2. pc[r] = "start" /\ pc' = [pc EXCEPT ![r] = "loop"]
    BY <1>2 DEF PlanRoute
  <2>3. StepsLeft("loop", order) < StepsLeft("start", list)
    BY <1>0, OrderLength DEF StepsLeft
  <2>4. QED
    BY <2>1, <2>2, <2>3, AdvanceFrame
<1>3. CASE SkipProvider(r)
  <2>1. pc[r] = "loop" /\ list # <<>> /\ todo' = [todo EXCEPT ![r] = Tail(list)] /\ pc' = pc
    BY <1>3 DEF SkipProvider, Considering
  <2>2. pc' = [pc EXCEPT ![r] = "loop"]
    BY <2>1 DEF TypeInv, TypeOK
  <2>3. StepsLeft("loop", Tail(list)) < StepsLeft("loop", list)
    BY <1>0, <2>1, ShorterList DEF StepsLeft
  <2> HIDE DEF list
  <2>4. QED
    BY <2>1, <2>2, <2>3, AdvanceFrame DEF list
<1>4. CASE BudgetStop(r)
  <2>1. pc[r] = "loop" /\ pc' = [pc EXCEPT ![r] = "evaluating"] /\ todo' = todo
    BY <1>4 DEF BudgetStop, Considering
  <2>2. StepsLeft("evaluating", list) < StepsLeft("loop", list)
    BY <1>0 DEF StepsLeft
  <2>3. QED
    BY <2>1, <2>2, AdvanceAlong
<1>5. CASE StartCall(r)
  <2>1. pc[r] = "loop" /\ pc' = [pc EXCEPT ![r] = "calling"] /\ todo' = todo
    BY <1>5 DEF StartCall, Considering
  <2>2. StepsLeft("calling", list) < StepsLeft("loop", list)
    BY <1>0 DEF StepsLeft
  <2>3. QED
    BY <2>1, <2>2, AdvanceAlong
<1>6. ASSUME NEW ok \in BOOLEAN, BookCall(r, ok), NEW at \in {"loop", "evaluating"},
             pc' = [pc EXCEPT ![r] = at]
      PROVE  Advance(r)
  <2>1. pc[r] = "calling" /\ todo' = [todo EXCEPT ![r] = Tail(list)]
    BY <1>6 DEF BookCall
  <2>2. list # <<>>
    BY <2>1 DEF TypeInv, ControlInv
  <2>3. StepsLeft(at, Tail(list)) < StepsLeft("calling", list)
    BY <1>0, <2>2, ShorterList DEF StepsLeft
  <2> HIDE DEF list
  <2>4. QED
    BY <1>6, <2>1, <2>3, AdvanceFrame DEF list
<1>7. CASE AnswerFailed(r) \/ AnswerStops(r) \/ AnswerAccepted(r)
  <2>1. \E ok \in BOOLEAN : \E at \in {"loop", "evaluating"} :
           BookCall(r, ok) /\ pc' = [pc EXCEPT ![r] = at]
    BY <1>7 DEF AnswerFailed, AnswerStops, AnswerAccepted
  <2>2. QED
    BY <2>1, <1>6
<1>8. CASE LadderExhausted(r)
  <2>1. pc[r] = "loop" /\ pc' = [pc EXCEPT ![r] = "evaluating"] /\ todo' = todo
    BY <1>8 DEF LadderExhausted
  <2>2. StepsLeft("evaluating", list) < StepsLeft("loop", list)
    BY <1>0 DEF StepsLeft
  <2>3. QED
    BY <2>1, <2>2, AdvanceAlong
<1>9. ASSUME NEW from, NEW to, Goto(r, from, to), StepsLeft(to, list) < StepsLeft(from, list)
      PROVE  Advance(r)
  <2>1. pc[r] = from /\ pc' = [pc EXCEPT ![r] = to] /\ todo' = todo
    BY <1>9 DEF Goto
  <2>2. QED
    BY <1>9, <2>1, AdvanceAlong
<1>10. /\ StepsLeft("caching", list) < StepsLeft("evaluating", list)
       /\ StepsLeft("reporting", list) < StepsLeft("evaluating", list)
       /\ StepsLeft("history", list) < StepsLeft("caching", list)
       /\ StepsLeft("reporting", list) < StepsLeft("caching", list)
       /\ StepsLeft("reporting", list) < StepsLeft("history", list)
       /\ StepsLeft("done", list) < StepsLeft("reporting", list)
       /\ StepsLeft("recording", list) < StepsLeft("reporting", list)
       /\ StepsLeft("done", list) < StepsLeft("recording", list)
  BY DEF StepsLeft
<1>11. CASE Evaluate(r) \/ SaveCache(r) \/ RecordScrape(r) \/ WriteReport(r)
            \/ RecordAttemptLedger(r)
  <2>1. \/ Goto(r, "evaluating", "caching") \/ Goto(r, "evaluating", "reporting")
        \/ Goto(r, "caching", "history") \/ Goto(r, "caching", "reporting")
        \/ Goto(r, "history", "reporting")
        \/ Goto(r, "reporting", "done") \/ Goto(r, "reporting", "recording")
        \/ Goto(r, "recording", "done")
    BY <1>11 DEF Evaluate, SaveCache, RecordScrape, WriteReport, RecordAttemptLedger
  <2> HIDE DEF list
  <2>2. QED
    BY <2>1, <1>9, <1>10
<1>12. CASE Crash(r)
  <2>1. pc[r] \in Locations \ {"done", "crashed"}
    BY <1>12 DEF Crash, TypeInv, TypeOK
  <2>2. pc' = [pc EXCEPT ![r] = "crashed"] /\ todo' = todo
    BY <1>12 DEF Crash
  <2>3. StepsLeft("crashed", list) < StepsLeft(pc[r], list)
    BY <1>0, <2>1 DEF StepsLeft, Locations
  <2>4. QED
    BY <2>2, <2>3, AdvanceAlong
<1>13. QED
  BY <1>1, <1>2, <1>3, <1>4, <1>5, <1>7, <1>8, <1>11, <1>12 DEF Step

\* For any runs, providers and ceiling: every step brings one run nearer to its end and no
\* other further from it, so that a run takes at most 2 * Cardinality(Providers) + 7 steps,
\* whatever its providers answer.  It is what of RunsEnd needs no fairness.
THEOREM EveryStepAdvances == Spec => RunsAdvance
<1>1. TypeInv /\ [Next]_vars => [\E r \in Runs : Advance(r)]_vars
  BY AdvanceStep
<1>2. QED
  BY <1>1, TypeInvariance, PTL DEF Spec, RunsAdvance, Advance

=============================================================================
