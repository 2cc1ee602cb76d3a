------------------------- MODULE ScrapeDrive_proofs -------------------------
(***************************************************************************)
(* Theorems about ScrapeDrive, for any price list and any allowance: type  *)
(* correctness, the budget of one call, what sync calls book, that an      *)
(* admitted call attempts something, that every attempt has its row, and   *)
(* that every step is one of AdapterCall.                                  *)
(***************************************************************************)
EXTENDS ScrapeDrive, TLAPS

-----------------------------------------------------------------------------
(* Lemmas on prices and ladders *)

\* Every shape has a price.
LEMMA ShapeCostType ==
    ASSUME NEW residential \in BOOLEAN, NEW js \in BOOLEAN, NEW shot \in BOOLEAN
    PROVE  ShapeCost(residential, js, shot) \in Nat
  BY ScrapeDriveAssumption DEF ShapeCost, When

\* An Auto job reserves at least the cheapest configuration.
LEMMA AutoPrice ==
    ASSUME NEW q \in Requests, NEW allowance \in Nat
    PROVE  /\ AutoFloor(q) \in Nat
           /\ AutoMaxCredits(q, allowance) \in Nat
           /\ AutoFloor(q) <= AutoMaxCredits(q, allowance)
<1>1. q.render_js \in BOOLEAN /\ q.screenshot \in BOOLEAN
  BY DEF Requests
<1>2. AutoFloor(q) \in Nat /\ AutoCeiling(q) \in Nat
  BY <1>1, ShapeCostType DEF AutoFloor, AutoCeiling
<1>3. AutoFloor(q) <= AutoCeiling(q)
  BY <1>1, ScrapeDriveAssumption DEF AutoFloor, AutoCeiling, ShapeCost, When
<1>4. Lesser(AutoCeiling(q), allowance) \in Nat
  BY <1>2 DEF Lesser
<1>5. ASSUME NEW n \in Nat
      PROVE  (n \div Grain) * Grain \in Nat
  <2>1. n \div Grain \in Nat
    BY ScrapeDriveAssumption
  <2>2. QED
    BY <2>1, ScrapeDriveAssumption
<1>6. QED
  BY <1>2, <1>3, <1>4, <1>5 DEF AutoMaxCredits, Greater

\* Every tier has a price, and Auto's is never below its floor.
LEMMA TierCostType ==
    ASSUME NEW q \in Requests, NEW allowance \in Nat, NEW tier \in Tiers
    PROVE  TierCost(q, allowance, tier) \in Nat
<1>1. q.render_js \in BOOLEAN /\ q.screenshot \in BOOLEAN
  BY DEF Requests
<1>2. CASE tier = "auto"
  BY <1>2, AutoPrice DEF TierCost
<1>3. CASE tier # "auto"
  <2>1. TierCost(q, allowance, tier)
          = ShapeCost(tier \in {"advanced", "hyperdrive"},
                      q.render_js \/ q.screenshot \/ tier = "hyperdrive", q.screenshot)
    BY <1>3 DEF TierCost
  <2>2. QED
    BY <1>1, <2>1, ScrapeDriveAssumption DEF ShapeCost, When
<1>4. QED
  BY <1>2, <1>3

\* A ladder is a non-empty sequence of tiers.
LEMMA LadderType ==
    ASSUME NEW q \in Requests, NEW country \in BOOLEAN
    PROVE  Ladder(q, country) \in Seq(Tiers) /\ Ladder(q, country) # <<>>
<1>1. StartTier(q, country) \in {"standard", "advanced", "hyperdrive"}
  BY DEF StartTier, Requests
<1>2. \E i \in 1..3 : TierOrder[i] = StartTier(q, country)
  BY <1>1 DEF TierOrder
<1> DEFINE first == CHOOSE i \in 1..3 : TierOrder[i] = StartTier(q, country)
<1>3. first \in 1..3
  BY <1>2
<1> HIDE DEF first
<1>4. SubSeq(TierOrder, first, 3) \in Seq(Tiers) /\ SubSeq(TierOrder, first, 3) # <<>>
  <2>1. TierOrder \in Seq(Tiers) /\ Len(TierOrder) = 3
    BY DEF TierOrder, Tiers
  <2>2. SubSeq(TierOrder, first, 3) \in Seq(Tiers)
    BY <1>3, <2>1
  <2>3. Len(SubSeq(TierOrder, first, 3)) = 3 - first + 1
    BY <1>3, <2>1
  <2>4. SubSeq(TierOrder, first, 3) # <<>>
    <3>1. 3 - first + 1 # 0 /\ Len(<<>>) = 0
      BY <1>3
    <3>2. QED
      BY <2>3, <3>1
  <2>5. QED
    BY <2>2, <2>4
<1>5. <<"auto">> \in Seq(Tiers) /\ <<"auto">> # <<>>
  BY DEF Tiers
<1>6. QED
  BY <1>4, <1>5 DEF Ladder, first

-----------------------------------------------------------------------------
(* Type correctness *)

\* The first ladder is well typed.
LEMMA TypeInit == Init => TypeOK
<1> SUFFICES ASSUME Init
             PROVE  TypeOK
  OBVIOUS
<1>1. request \in Requests /\ hinted \in BOOLEAN /\ budget \in Nat
  BY DEF Init
<1>2. request.country \/ hinted \in BOOLEAN
  BY <1>1 DEF Requests
<1>3. todo \in Seq(Tiers) /\ todo # <<>>
  BY <1>1, <1>2, LadderType DEF Init
<1>4. QED
  BY <1>1, <1>3 DEF Init, TypeOK

\* The price of the tier in hand, and what a job may cost, are amounts.
LEMMA PriceType ==
    ASSUME TypeOK, pc \in {"ladder", "waiting"}
    PROVE  /\ Head(todo) \in Tiers /\ Tail(todo) \in Seq(Tiers)
           /\ Price \in Nat
           /\ Charges \subseteq Nat
<1>1. Head(todo) \in Tiers /\ Tail(todo) \in Seq(Tiers)
  BY DEF TypeOK
<1>2. Price \in Nat
  BY <1>1, TierCostType DEF TypeOK, Price
<1>3. QED
  BY <1>1, <1>2, AutoPrice DEF TypeOK, Charges

\* A job never costs more than the price the allowance was checked against.
LEMMA ChargesBounded ==
    ASSUME TypeOK, pc \in {"ladder", "waiting"}, NEW charge \in Charges
    PROVE  charge <= Price
<1>1. Price \in Nat
  BY PriceType
<1>2. CASE Head(todo) = "auto"
  <2>1. Price = AutoMaxCredits(request, budget)
    BY <1>2 DEF Price, TierCost
  <2>2. AutoFloor(request) <= Price
    BY <2>1, AutoPrice DEF TypeOK
  <2>3. charge \in {AutoFloor(request), Price}
    BY <1>2 DEF Charges
  <2>4. QED
    BY <1>1, <2>2, <2>3
<1>3. CASE Head(todo) # "auto"
  BY <1>1, <1>3 DEF Charges
<1>4. QED
  BY <1>2, <1>3

\* Booking a row of any cost keeps the types of the ledger and of the amounts.
LEMMA BookType ==
    ASSUME TypeOK, pc = "waiting", NEW cost \in Nat, NEW ok \in BOOLEAN, Book(cost, ok)
    PROVE  /\ ledger' \in Seq([tier : Tiers, ok : BOOLEAN])
           /\ spent' \in Nat /\ remaining' \in Nat
<1>1. [tier |-> Head(todo), ok |-> ok] \in [tier : Tiers, ok : BOOLEAN]
  BY PriceType
<1>2. ledger' \in Seq([tier : Tiers, ok : BOOLEAN])
  BY <1>1 DEF TypeOK, Book
<1>3. spent' \in Nat /\ remaining' \in Nat
  BY DEF TypeOK, Book, Greater
<1>4. QED
  BY <1>2, <1>3

\* Settling an attempt keeps every type but the bill's, which the service decides.
LEMMA SettleType ==
    ASSUME TypeOK, NEW cost \in Nat, NEW ok \in BOOLEAN, Settle(cost, ok), billed' \in Nat
    PROVE  TypeOK'
<1>1. pc = "waiting"
  BY DEF Settle
<1>2. /\ ledger' \in Seq([tier : Tiers, ok : BOOLEAN])
      /\ spent' \in Nat /\ remaining' \in Nat
  BY <1>1, BookType DEF Settle
<1>3. todo' \in Seq(Tiers)
  BY <1>1, PriceType DEF Settle
<1>4. QED
  BY <1>2, <1>3 DEF TypeOK, Settle, fixed

\* Every step keeps the types: one case per action.
LEMMA TypeStep == TypeOK /\ [Next]_vars => TypeOK'
<1> SUFFICES ASSUME TypeOK, [Next]_vars
             PROVE  TypeOK'
  OBVIOUS
<1>1. CASE BudgetStop
  BY <1>1 DEF TypeOK, BudgetStop, fixed
<1>2. CASE Submit
  BY <1>2, PriceType DEF TypeOK, Submit, fixed
<1>3. CASE SyncAnswered
  <2>1. PICK refusal \in BOOLEAN, job \in BOOLEAN, ok \in BOOLEAN :
          /\ Settle(IF WasCharged(refusal, job) THEN Price ELSE 0, ok)
          /\ \E charge \in Charges \cup {0} : Bill(charge)
    BY <1>3 DEF SyncAnswered
  <2>2. pc = "waiting"
    BY <2>1 DEF Settle
  <2>3. (IF WasCharged(refusal, job) THEN Price ELSE 0) \in Nat
    BY <2>2, PriceType
  <2>4. billed' \in Nat
    BY <2>1, <2>2, PriceType DEF Bill, TypeOK
  <2>5. QED
    BY <2>1, <2>3, <2>4, SettleType
<1>4. CASE AsyncFailed
  <2>1. pc = "waiting"
    BY <1>4 DEF AsyncFailed, Settle
  <2>2. billed' \in Nat
    BY <1>4, <2>1, PriceType DEF AsyncFailed, Bill, TypeOK
  <2>3. QED
    BY <1>4, <2>2, SettleType DEF AsyncFailed
<1>5. CASE AsyncFinished
  <2>1. pc = "waiting"
    BY <1>5 DEF AsyncFinished
  <2>2. PICK charge \in Charges \cup {0}, ok \in BOOLEAN :
          (Settle(charge, ok) \/ Settle(Price, ok)) /\ Bill(charge)
    BY <1>5 DEF AsyncFinished
  <2>3. charge \in Nat /\ Price \in Nat
    BY <2>1, PriceType
  <2>4. billed' \in Nat
    BY <2>2, <2>3 DEF Bill, TypeOK
  <2>5. QED
    BY <2>2, <2>3, <2>4, SettleType
<1>6. CASE AsyncRaises
  <2>1. billed' \in Nat
    BY <1>6, PriceType DEF AsyncRaises, Bill, TypeOK
  <2>2. QED
    BY <1>6, <2>1 DEF AsyncRaises, TypeOK, fixed
<1>7. CASE Timeout
  <2>1. pc = "waiting"
    BY <1>7 DEF Timeout
  <2>2. Price \in Nat
    BY <2>1, PriceType
  <2>3. billed' \in Nat
    BY <1>7, <2>1, PriceType DEF Timeout, Bill, TypeOK
  <2>4. QED
    BY <1>7, <2>1, <2>2, <2>3, BookType DEF Timeout, TypeOK, fixed
<1>8. CASE UNCHANGED vars
  BY <1>8 DEF TypeOK, vars
<1>9. QED
  BY <1>1, <1>2, <1>3, <1>4, <1>5, <1>6, <1>7, <1>8 DEF Next

\* Every variable keeps its type, for any price list and any allowance.
THEOREM TypeCorrect == Spec => []TypeOK
  BY TypeInit, TypeStep, PTL DEF Spec

-----------------------------------------------------------------------------
(* The allowance *)

\* Why the allowance holds: what is booked and what remains always add up to it, and
\* the attempt in flight was admitted against what remained.
BudgetInv ==
    request.capped =>
        /\ spent + remaining = budget
        /\ pc = "waiting" => Price <= remaining

\* Booking an admitted cost moves it from the remainder to the bill.
LEMMA BookArithmetic ==
    ASSUME NEW s \in Nat, NEW m \in Nat, NEW b \in Nat, NEW cost \in Nat,
           s + m = b, cost <= m
    PROVE  (s + cost) + Greater(0, m - cost) = b
  BY DEF Greater

\* Settling an attempt at no more than its price keeps the sum.
LEMMA SettleBudget ==
    ASSUME TypeOK, BudgetInv, pc = "waiting", UNCHANGED fixed, pc' # "waiting",
           NEW cost \in Nat, cost <= Price, NEW ok \in BOOLEAN, Book(cost, ok)
    PROVE  BudgetInv'
<1> SUFFICES ASSUME request.capped
             PROVE  spent' + remaining' = budget'
  BY DEF BudgetInv, fixed
<1>1. Price \in Nat /\ Price <= remaining /\ spent + remaining = budget
  BY PriceType DEF BudgetInv
<1>2. spent \in Nat /\ remaining \in Nat /\ budget \in Nat
  BY DEF TypeOK
<1>3. cost <= remaining
  BY <1>1, <1>2
<1>4. spent' = spent + cost /\ remaining' = Greater(0, remaining - cost) /\ budget' = budget
  BY DEF Book, fixed
<1>5. QED
  BY <1>1, <1>2, <1>3, <1>4, BookArithmetic

\* Every step keeps the sum: only an attempt that comes back, or is cut off, books.
LEMMA BudgetStep == TypeOK /\ BudgetInv /\ [Next]_vars => BudgetInv'
<1> SUFFICES ASSUME TypeOK, BudgetInv, [Next]_vars
             PROVE  BudgetInv'
  OBVIOUS
<1>1. CASE BudgetStop
  BY <1>1 DEF BudgetStop, BudgetInv, fixed
<1>2. CASE Submit
  <2>1. Price' = Price
    BY <1>2 DEF Submit, Price, fixed
  <2>2. QED
    BY <1>2, <2>1 DEF Submit, BudgetInv, Affordable, fixed
<1>3. ASSUME NEW cost \in Nat, NEW ok \in BOOLEAN, Settle(cost, ok), cost <= Price
      PROVE  BudgetInv'
  BY <1>3, SettleBudget DEF Settle
<1>4. CASE SyncAnswered
  <2>1. pc = "waiting"
    BY <1>4 DEF SyncAnswered, Settle
  <2>2. Price \in Nat
    BY <2>1, PriceType
  <2>3. PICK refusal \in BOOLEAN, job \in BOOLEAN, ok \in BOOLEAN :
          Settle(IF WasCharged(refusal, job) THEN Price ELSE 0, ok)
    BY <1>4 DEF SyncAnswered
  <2>4. CASE WasCharged(refusal, job)
    BY <1>3, <2>2, <2>3, <2>4
  <2>5. CASE ~WasCharged(refusal, job)
    BY <1>3, <2>2, <2>3, <2>5
  <2>6. QED
    BY <2>4, <2>5
<1>5. CASE AsyncFailed
  <2>1. pc = "waiting"
    BY <1>5 DEF AsyncFailed, Settle
  <2>2. Price \in Nat
    BY <2>1, PriceType
  <2>3. 0 <= Price
    BY <2>2
  <2>4. Settle(0, FALSE)
    BY <1>5 DEF AsyncFailed
  <2>5. QED
    BY <1>3, <2>3, <2>4
<1>6. CASE AsyncFinished
  <2>1. pc = "waiting"
    BY <1>6 DEF AsyncFinished
  <2>2. PICK charge \in Charges \cup {0}, ok \in BOOLEAN :
          Settle(charge, ok) \/ Settle(Price, ok)
    BY <1>6 DEF AsyncFinished
  <2>3. charge \in Nat /\ Price \in Nat /\ charge <= Price
    BY <2>1, PriceType, ChargesBounded
  <2>4. QED
    BY <1>3, <2>2, <2>3
<1>7. CASE AsyncRaises
  BY <1>7 DEF AsyncRaises, BudgetInv, fixed
<1>8. CASE Timeout
  <2>1. pc = "waiting"
    BY <1>8 DEF Timeout
  <2>2. Price \in Nat
    BY <2>1, PriceType
  <2>3. Price <= Price
    BY <2>2
  <2>4. Book(Price, FALSE) /\ UNCHANGED fixed /\ pc' # "waiting"
    BY <1>8 DEF Timeout, fixed
  <2>5. QED
    BY <2>1, <2>2, <2>3, <2>4, SettleBudget
<1>9. CASE UNCHANGED vars
  BY <1>9 DEF vars, BudgetInv, Price
<1>10. QED
  BY <1>1, <1>2, <1>4, <1>5, <1>6, <1>7, <1>8, <1>9 DEF Next

\* Whatever tiers fail and whatever each job bills, one call never books more than the
\* allowance the router gave it.
THEOREM BudgetKept == Spec => []BookedWithinBudget
<1>1. Init => BudgetInv
  BY DEF Init, BudgetInv
<1>2. Spec => []BudgetInv
  BY <1>1, TypeCorrect, BudgetStep, PTL DEF Spec
<1>3. TypeOK /\ BudgetInv => BookedWithinBudget
  BY DEF TypeOK, BudgetInv, BookedWithinBudget
<1>4. QED
  BY <1>2, <1>3, TypeCorrect, PTL

-----------------------------------------------------------------------------
(* What sync calls book *)

\* What is billed is always booked already: attempts are billed and booked together.
BillInv == ~request.async => billed <= spent

\* A sync step bills at most what it books: a refused request without a job id is the
\* only one booked as free, and the service did not charge for it.
LEMMA BillStep == TypeOK /\ BillInv /\ [Next]_vars => BillInv'
<1> SUFFICES ASSUME TypeOK, BillInv, [Next]_vars, ~request.async
             PROVE  BillInv'
  BY DEF Next, vars, fixed, BillInv, BudgetStop, Submit, Timeout, SyncAnswered,
         AsyncFailed, AsyncFinished, AsyncRaises, Settle
<1>1. billed \in Nat /\ spent \in Nat /\ billed <= spent
  BY DEF TypeOK, BillInv
<1>2. CASE SyncAnswered
  <2>1. PICK refusal \in BOOLEAN, job \in BOOLEAN, ok \in BOOLEAN :
          /\ Settle(IF WasCharged(refusal, job) THEN Price ELSE 0, ok)
          /\ \/ job /\ \E charge \in Charges : Bill(charge)
             \/ ~job /\ ~refusal /\ \E charge \in Charges \cup {0} : Bill(charge)
             \/ ~job /\ refusal /\ Bill(0)
    BY <1>2 DEF SyncAnswered
  <2>2. pc = "waiting"
    BY <2>1 DEF Settle
  <2>3. Price \in Nat /\ Charges \subseteq Nat
        /\ \A charge \in Charges : charge <= Price
    BY <2>2, PriceType, ChargesBounded
  <2>4. CASE WasCharged(refusal, job)
    <3>1. spent' = spent + Price
      BY <2>1, <2>4 DEF Settle, Book
    <3>2. PICK charge \in Charges \cup {0} : billed' = billed + charge
      BY <2>1 DEF Bill
    <3>3. charge \in Nat /\ charge <= Price
      BY <2>3
    <3>4. billed' <= spent'
      BY <1>1, <2>3, <3>1, <3>2, <3>3
    <3>5. QED
      BY <3>4 DEF BillInv
  <2>5. CASE ~WasCharged(refusal, job)
    <3>1. spent' = spent + 0
      BY <2>1, <2>5 DEF Settle, Book
    <3>2. billed' = billed + 0
      BY <2>1, <2>5 DEF WasCharged, Bill
    <3>3. QED
      BY <1>1, <3>1, <3>2 DEF BillInv
  <2>6. QED
    BY <2>4, <2>5
<1>3. CASE Timeout
  <2>1. PICK charge \in Charges \cup {0} : billed' = billed + charge
    BY <1>3 DEF Timeout, Bill
  <2>2. Price \in Nat /\ charge \in Nat /\ charge <= Price
    BY <1>3, PriceType, ChargesBounded DEF Timeout
  <2>3. spent' = spent + Price
    BY <1>3 DEF Timeout, Book
  <2>4. billed' <= spent'
    BY <1>1, <2>1, <2>2, <2>3
  <2>5. QED
    BY <2>4 DEF BillInv
<1>4. CASE UNCHANGED <<request, spent, billed>>
  BY <1>4 DEF BillInv
<1>5. QED
  BY <1>2, <1>3, <1>4
     DEF Next, vars, fixed, BudgetStop, Submit, AsyncFailed, AsyncFinished, AsyncRaises

\* Sync calls book at least what the service charged, and so it never charges beyond
\* the allowance.
THEOREM SyncBillsBooked == Spec => []SyncBillBooked
<1>1. Init => BillInv
  BY DEF Init, BillInv
<1>2. Spec => []BillInv
  BY <1>1, TypeCorrect, BillStep, PTL DEF Spec
<1>3. TypeOK /\ BillInv /\ BookedWithinBudget => SyncBillBooked
  BY DEF TypeOK, BillInv, BookedWithinBudget, SyncBillBooked
<1>4. QED
  BY <1>2, <1>3, TypeCorrect, BudgetKept, PTL

-----------------------------------------------------------------------------
(* An admitted call makes an attempt *)

\* Without an injected country, a call that has attempted nothing is still at the tier whose
\* price the router was told, with the whole allowance left.
AdmitInv ==
    ~hinted /\ attempted = <<>> =>
        pc = "ladder" /\ (request.capped => Price <= remaining)

\* The first price of the ladder is the forecast.
LEMMA AdmitInit == Init => AdmitInv
<1> SUFFICES ASSUME Init, ~hinted PROVE pc = "ladder" /\ (request.capped => Price <= remaining)
  BY DEF AdmitInv
<1>1. (request.country \/ hinted) = request.country /\ request.country \in BOOLEAN
  BY DEF Init, Requests
<1>2. todo = Ladder(request, request.country) /\ todo \in Seq(Tiers) /\ todo # <<>>
  BY <1>1, LadderType DEF Init
<1>3. Head(todo) = todo[1]
  BY <1>2
<1>4. Price = EstimatedCostUnits(request, budget)
  BY <1>2, <1>3 DEF Price, EstimatedCostUnits
<1>5. QED
  BY <1>4 DEF Init

\* Only an attempt leaves the first tier, as its price fits.
LEMMA AdmitStep == TypeOK /\ AdmitInv /\ [Next]_vars => AdmitInv'
<1> SUFFICES ASSUME TypeOK, AdmitInv, [Next]_vars PROVE AdmitInv'
  OBVIOUS
<1>1. CASE BudgetStop
  BY <1>1 DEF BudgetStop, AdmitInv, Affordable, fixed
<1>2. CASE Submit
  <2>1. attempted' = Append(attempted, Head(todo)) /\ attempted \in Seq(Tiers)
    BY <1>2 DEF Submit, TypeOK
  <2>2. attempted' # <<>>
    BY <2>1
  <2>3. QED
    BY <2>2 DEF AdmitInv
<1>3. CASE SyncAnswered \/ AsyncFailed \/ AsyncFinished \/ AsyncRaises \/ Timeout
  <2>1. pc = "waiting" /\ UNCHANGED <<hinted, attempted>>
    BY <1>3 DEF SyncAnswered, AsyncFailed, AsyncFinished, AsyncRaises, Timeout, Settle, fixed
  <2>2. QED
    BY <2>1 DEF AdmitInv
<1>4. CASE UNCHANGED vars
  BY <1>4 DEF vars, AdmitInv, Price
<1>5. QED
  BY <1>1, <1>2, <1>3, <1>4 DEF Next

\* A call that the router admitted makes an attempt, unless a country was injected between
\* the forecast and the call.
THEOREM AdmittedAttempts == Spec => []AdmittedCallAttempts
<1>1. AdmitInv => AdmittedCallAttempts
  BY DEF AdmitInv, AdmittedCallAttempts
<1>2. QED
  BY <1>1, AdmitInit, AdmitStep, TypeCorrect, PTL DEF Spec

-----------------------------------------------------------------------------
(* One row per attempt *)

Whole == Ladder(request, request.country \/ hinted)

\* What was attempted, and what is left, are the ladder, place by place; the rows are those
\* of what was attempted, but for the attempt in flight; and no row before the last is a
\* success.
ItemInv ==
    /\ Whole \in Seq(Tiers)
    /\ Len(attempted) <= Len(Whole)
    /\ \A i \in 1..Len(attempted) : attempted[i] = Whole[i]
    /\ \A i \in 1..Len(ledger) : i \in 1..Len(attempted) /\ ledger[i].tier = attempted[i]
    /\ pc \in {"ladder", "waiting"} =>
         /\ Len(ledger) + Len(todo) = Len(Whole)
         /\ \A i \in 1..Len(todo) : todo[i] = Whole[Len(ledger) + i]
         /\ \A i \in 1..Len(ledger) : ~ledger[i].ok
    /\ pc \in {"ladder", "done"} => Len(attempted) = Len(ledger)
    /\ pc = "waiting" => Len(attempted) = Len(ledger) + 1
    /\ pc = "done" => \A i \in 1..Len(ledger) : ledger[i].ok => i = Len(ledger)

\* The attempt in flight gets its row.
LEMMA BookItem ==
    ASSUME TypeOK, ItemInv, pc = "waiting", NEW cost, NEW ok \in BOOLEAN, Book(cost, ok),
           UNCHANGED <<request, hinted, attempted>>
    PROVE  /\ Len(ledger') = Len(ledger) + 1 /\ Len(ledger) \in Nat
           /\ Len(attempted') = Len(ledger')
           /\ \A i \in 1..Len(ledger') :
                i \in 1..Len(attempted') /\ ledger'[i].tier = attempted'[i]
           /\ \A i \in 1..Len(ledger') : ledger'[i].ok => i = Len(ledger') /\ ok
<1> DEFINE row == [tier |-> Head(todo), ok |-> ok]
<1>1. /\ ledger \in Seq([tier : Tiers, ok : BOOLEAN]) /\ Len(ledger) \in Nat
      /\ todo \in Seq(Tiers) /\ todo # <<>>
      /\ ledger' = Append(ledger, row)
  BY DEF TypeOK, Book
<1>2. row \in [tier : Tiers, ok : BOOLEAN]
  BY PriceType
<1>3. /\ Len(ledger') = Len(ledger) + 1 /\ ledger'[Len(ledger) + 1] = row
      /\ \A i \in 1..Len(ledger) : ledger'[i] = ledger[i]
  <2> HIDE DEF row
  <2>1. QED
    BY <1>1, <1>2
<1>4. \A i \in 1..(Len(ledger) + 1) : i \in 1..Len(ledger) \/ i = Len(ledger) + 1
  BY <1>1
<1>5. Head(todo) = todo[1] /\ 1 \in 1..Len(todo) /\ Len(todo) \in Nat
  BY <1>1
<1>6. Len(attempted) = Len(ledger) + 1 /\ Len(ledger) + 1 \in 1..(Len(ledger) + 1)
  BY <1>1 DEF ItemInv
<1>7. attempted[Len(ledger) + 1] = Head(todo)
  <2>1. attempted[Len(ledger) + 1] = Whole[Len(ledger) + 1]
    BY <1>6 DEF ItemInv
  <2>2. todo[1] = Whole[Len(ledger) + 1]
    BY <1>5 DEF ItemInv
  <2>3. QED
    BY <1>5, <2>1, <2>2
<1>8. row.tier = Head(todo) /\ row.ok = ok
  OBVIOUS
<1> HIDE DEF row
<1>9. \A i \in 1..Len(ledger') : i \in 1..Len(attempted') /\ ledger'[i].tier = attempted'[i]
  BY <1>3, <1>4, <1>6, <1>7, <1>8 DEF ItemInv
<1>10. \A i \in 1..Len(ledger) : ~ledger[i].ok
  BY DEF ItemInv
<1>11. \A i \in 1..Len(ledger') : ledger'[i].ok => i = Len(ledger') /\ ok
  BY <1>3, <1>4, <1>8, <1>10
<1>12. QED
  BY <1>1, <1>3, <1>6, <1>9, <1>11

\* What holds of the ladder and of what was attempted stays while neither changes.
LEMMA WholeKept ==
    ASSUME ItemInv, UNCHANGED <<request, hinted, attempted>>
    PROVE  /\ Whole' = Whole /\ Whole \in Seq(Tiers)
           /\ Len(attempted') <= Len(Whole')
           /\ \A i \in 1..Len(attempted') : attempted'[i] = Whole'[i]
BY DEF ItemInv, Whole

\* An attempt that comes back has its row, and what is left is one tier less.
LEMMA SettleItem ==
    ASSUME TypeOK, ItemInv, NEW cost, NEW ok \in BOOLEAN, Settle(cost, ok)
    PROVE  ItemInv'
<1>1. /\ pc = "waiting" /\ Book(cost, ok) /\ UNCHANGED <<request, hinted, attempted>>
      /\ todo' = Tail(todo) /\ pc' \in {"done", "ladder"} /\ (ok => pc' = "done")
  BY DEF Settle, fixed
<1>2. /\ Len(ledger') = Len(ledger) + 1 /\ Len(ledger) \in Nat
      /\ Len(attempted') = Len(ledger')
  BY <1>1, BookItem
<1>3. \A i \in 1..Len(ledger') : i \in 1..Len(attempted') /\ ledger'[i].tier = attempted'[i]
  BY <1>1, BookItem
<1>4. \A i \in 1..Len(ledger') : ledger'[i].ok => i = Len(ledger') /\ ok
  BY <1>1, BookItem
<1>5. todo \in Seq(Tiers) /\ todo # <<>>
  BY <1>1 DEF TypeOK
<1>6. /\ Len(todo) \in Nat /\ Len(todo') = Len(todo) - 1
      /\ \A i \in 1..Len(todo') : todo'[i] = todo[i + 1] /\ i + 1 \in 1..Len(todo)
  BY <1>1, <1>5
<1>7. /\ Len(ledger) + Len(todo) = Len(Whole)
      /\ \A i \in 1..Len(todo) : todo[i] = Whole[Len(ledger) + i]
  BY <1>1 DEF ItemInv
<1>8. Len(ledger') + Len(todo') = Len(Whole')
  <2>1. Whole' = Whole
    BY <1>1, WholeKept
  <2>2. (Len(ledger) + 1) + (Len(todo) - 1) = Len(ledger) + Len(todo)
    BY <1>2, <1>6
  <2>3. QED
    BY <1>2, <1>6, <1>7, <2>1, <2>2
<1>9. \A i \in 1..Len(todo') : todo'[i] = Whole'[Len(ledger') + i]
  <2> SUFFICES ASSUME NEW i \in 1..Len(todo') PROVE todo'[i] = Whole'[Len(ledger') + i]
    OBVIOUS
  <2>1. Len(ledger') + i = Len(ledger) + (i + 1)
    BY <1>2
  <2>2. todo'[i] = Whole[Len(ledger) + (i + 1)]
    BY <1>6, <1>7
  <2>3. QED
    BY <1>1, <2>1, <2>2, WholeKept
<1>10. QED
  BY <1>1, <1>2, <1>3, <1>4, <1>8, <1>9, WholeKept DEF ItemInv

\* The first ladder is whole.
LEMMA ItemInit == Init => ItemInv
<1> SUFFICES ASSUME Init PROVE ItemInv
  OBVIOUS
<1>1. request \in Requests /\ (request.country \/ hinted) \in BOOLEAN
  BY DEF Init, Requests
<1>2. Whole \in Seq(Tiers) /\ todo = Whole
  BY <1>1, LadderType DEF Init, Whole
<1>3. Len(ledger) = 0 /\ Len(attempted) = 0 /\ Len(Whole) \in Nat
  BY <1>2 DEF Init
<1>4. \A i \in 1..Len(todo) : 0 + i = i
  BY <1>2, <1>3
<1>5. QED
  BY <1>2, <1>3, <1>4 DEF Init, ItemInv

\* Every step keeps it: one case per action.
LEMMA ItemStep == TypeOK /\ ItemInv /\ [Next]_vars => ItemInv'
<1> SUFFICES ASSUME TypeOK, ItemInv, [Next]_vars PROVE ItemInv'
  OBVIOUS
<1>1. CASE BudgetStop
  <2>1. /\ UNCHANGED <<request, hinted, attempted, ledger, todo>>
        /\ pc = "ladder" /\ pc' = "done"
    BY <1>1 DEF BudgetStop, fixed
  <2>2. QED
    BY <2>1, WholeKept DEF ItemInv
<1>2. CASE Submit
  <2>1. /\ UNCHANGED <<request, hinted, ledger, todo>>
        /\ pc = "ladder" /\ pc' = "waiting" /\ attempted' = Append(attempted, Head(todo))
    BY <1>2 DEF Submit, fixed
  <2>2. /\ todo \in Seq(Tiers) /\ todo # <<>> /\ attempted \in Seq(Tiers)
        /\ Len(attempted) \in Nat
    BY <2>1 DEF TypeOK
  <2>3. Head(todo) = todo[1] /\ 1 \in 1..Len(todo) /\ Len(todo) \in Nat /\ Len(todo) >= 1
        /\ Head(todo) \in Tiers
    BY <2>2
  <2>4. /\ Len(attempted') = Len(attempted) + 1
        /\ attempted'[Len(attempted) + 1] = Head(todo)
        /\ \A i \in 1..Len(attempted) : attempted'[i] = attempted[i]
    BY <2>1, <2>2, <2>3
  <2>5. Len(attempted) = Len(ledger) /\ Len(ledger) + Len(todo) = Len(Whole)
        /\ todo[1] = Whole[Len(ledger) + 1]
    BY <2>1, <2>3 DEF ItemInv
  <2>6. Whole' = Whole
    BY <2>1 DEF Whole
  <2>7. \A i \in 1..(Len(attempted) + 1) : i \in 1..Len(attempted) \/ i = Len(attempted) + 1
    BY <2>2
  <2>8. \A i \in 1..Len(attempted') : attempted'[i] = Whole'[i]
    BY <2>3, <2>4, <2>5, <2>6, <2>7 DEF ItemInv
  <2>9. Len(attempted') <= Len(Whole')
    BY <2>2, <2>3, <2>4, <2>5, <2>6
  <2>10. \A i \in 1..Len(ledger) :
           i \in 1..Len(attempted') /\ ledger[i].tier = attempted'[i]
    <3> SUFFICES ASSUME NEW i \in 1..Len(ledger)
                 PROVE  i \in 1..Len(attempted') /\ ledger[i].tier = attempted'[i]
      OBVIOUS
    <3>1. i \in 1..Len(attempted) /\ ledger[i].tier = attempted[i]
      BY DEF ItemInv
    <3>2. i \in 1..Len(attempted')
      BY <2>2, <2>4, <3>1
    <3>3. QED
      BY <2>4, <3>1, <3>2
  <2>11. QED
    BY <2>1, <2>4, <2>5, <2>6, <2>8, <2>9, <2>10 DEF ItemInv
<1>3. CASE SyncAnswered
  <2>1. PICK ok \in BOOLEAN : \E cost : Settle(cost, ok)
    BY <1>3 DEF SyncAnswered
  <2>2. QED
    BY <2>1, SettleItem
<1>4. CASE AsyncFailed
  BY <1>4, SettleItem DEF AsyncFailed
<1>5. CASE AsyncFinished
  <2>1. PICK ok \in BOOLEAN : \E cost : Settle(cost, ok)
    BY <1>5 DEF AsyncFinished
  <2>2. QED
    BY <2>1, SettleItem
<1>6. CASE AsyncRaises
  <2>1. UNCHANGED <<request, hinted, attempted, ledger>> /\ pc' = "raised"
    BY <1>6 DEF AsyncRaises, fixed
  <2>2. QED
    BY <2>1, WholeKept DEF ItemInv
<1>7. CASE Timeout
  <2>1. /\ pc = "waiting" /\ Book(Price, FALSE) /\ pc' = "done"
        /\ UNCHANGED <<request, hinted, attempted>>
    BY <1>7 DEF Timeout, fixed
  <2>2. /\ Len(attempted') = Len(ledger')
        /\ \A i \in 1..Len(ledger') :
             i \in 1..Len(attempted') /\ ledger'[i].tier = attempted'[i]
        /\ \A i \in 1..Len(ledger') : ledger'[i].ok => i = Len(ledger')
    BY <2>1, BookItem
  <2>3. QED
    BY <2>1, <2>2, WholeKept DEF ItemInv
<1>8. CASE UNCHANGED vars
  BY <1>8 DEF vars, ItemInv, Whole
<1>9. QED
  BY <1>1, <1>2, <1>3, <1>4, <1>5, <1>6, <1>7, <1>8 DEF Next

\* A finished call has one row per tier it attempted, in ladder order, the one that the
\* deadline cut off included, and attempted nothing after a success.
THEOREM EveryAttemptItemised == Spec => []AttemptsItemised
<1>1. TypeOK /\ ItemInv => AttemptsItemised
  <2> SUFFICES ASSUME TypeOK, ItemInv, pc = "done"
               PROVE  /\ [i \in DOMAIN ledger |-> ledger[i].tier] = attempted
                      /\ IsPrefix(attempted, Whole)
                      /\ \A i \in DOMAIN ledger : ledger[i].ok => i = Len(ledger)
    BY DEF AttemptsItemised, Whole
  <2>1. /\ ledger \in Seq([tier : Tiers, ok : BOOLEAN]) /\ attempted \in Seq(Tiers)
        /\ DOMAIN ledger = 1..Len(ledger) /\ DOMAIN attempted = 1..Len(attempted)
        /\ Len(attempted) = Len(ledger)
    BY DEF TypeOK, ItemInv
  <2>2. [i \in DOMAIN ledger |-> ledger[i].tier] = attempted
    <3> DEFINE tiers == [i \in DOMAIN ledger |-> ledger[i].tier]
    <3>1. DOMAIN tiers = DOMAIN attempted /\ \A i \in DOMAIN attempted : tiers[i] = attempted[i]
      BY <2>1 DEF ItemInv
    <3>2. tiers = [i \in DOMAIN tiers |-> tiers[i]]
          /\ attempted = [i \in DOMAIN attempted |-> attempted[i]]
      BY <2>1
    <3> HIDE DEF tiers
    <3>3. tiers = attempted
      BY <3>1, <3>2, Zenon
    <3>4. QED
      BY <3>3 DEF tiers
  <2>3. IsPrefix(attempted, Whole)
    <3>1. Len(attempted) \in Nat /\ Len(attempted) \in 0..Len(attempted)
      BY <2>1
    <3>2. Len(attempted) <= Len(Whole)
      BY DEF ItemInv
    <3>3. Whole \in Seq(Tiers)
      BY DEF ItemInv
    <3>4. \A i \in 1..Len(attempted) : attempted[i] = Whole[i]
      BY DEF ItemInv
    <3>5. SubSeq(attempted, 1, Len(attempted)) = [i \in 1..Len(attempted) |-> attempted[i]]
      BY <2>1, <3>1
    <3>6. SubSeq(Whole, 1, Len(attempted)) = [i \in 1..Len(attempted) |-> Whole[i]]
      BY <3>1, <3>2, <3>3
    <3>7. [i \in 1..Len(attempted) |-> attempted[i]] = [i \in 1..Len(attempted) |-> Whole[i]]
      BY <3>4
    <3>8. attempted = [i \in 1..Len(attempted) |-> attempted[i]]
      BY <2>1
    <3> HIDE DEF Whole
    <3>9. QED
      BY <3>1, <3>2, <3>5, <3>6, <3>7, <3>8 DEF IsPrefix
  <2>4. QED
    BY <2>1, <2>2, <2>3 DEF ItemInv
<1>2. QED
  BY <1>1, ItemInit, ItemStep, TypeCorrect, PTL DEF Spec

-----------------------------------------------------------------------------
(* The contract with the router *)

\* The abstract state of a call, and the rows it answers with.
State == CASE pc = "done" -> "answered" [] pc = "raised" -> "raised" [] OTHER -> "calling"

Rows == IF pc = "done" THEN ProviderLedger ELSE <<>>

\* What a finished call returns is failures and then a verdict.
Verdict == pc = "done" => Rows # <<>> /\ \A i \in DOMAIN Rows : Rows[i] => i = Len(Rows)

LEMMA AnswersVerdict == TypeOK /\ ItemInv => Verdict
<1> SUFFICES ASSUME TypeOK, ItemInv, pc = "done"
             PROVE  Rows # <<>> /\ \A i \in DOMAIN Rows : Rows[i] => i = Len(Rows)
  BY DEF Verdict
<1>1. ledger \in Seq([tier : Tiers, ok : BOOLEAN])
  BY DEF TypeOK
<1>2. CASE ledger = <<>>
  <2>1. Rows = <<FALSE>>
    BY <1>2 DEF Rows, ProviderLedger
  <2>2. QED
    BY <2>1
<1>3. CASE ledger # <<>>
  <2>1. Rows = [i \in DOMAIN ledger |-> ledger[i].ok]
    BY <1>3, Zenon DEF Rows, ProviderLedger
  <2>2. DOMAIN ledger = 1..Len(ledger) /\ Len(ledger) \in Nat /\ Len(ledger) # 0
    BY <1>1, <1>3
  <2>3. DOMAIN Rows = 1..Len(ledger) /\ Rows \in Seq(BOOLEAN) /\ Len(Rows) = Len(ledger)
    <3>1. \A i \in 1..Len(ledger) : ledger[i] \in [tier : Tiers, ok : BOOLEAN]
      <4> DEFINE Entries == [tier : Tiers, ok : BOOLEAN]
      <4>1. ledger \in Seq(Entries)
        BY <1>1
      <4> HIDE DEF Entries
      <4>2. \A i \in 1..Len(ledger) : ledger[i] \in Entries
        BY <4>1
      <4>3. QED
        BY <4>2 DEF Entries
    <3>2. \A i \in 1..Len(ledger) : ledger[i].ok \in BOOLEAN
      BY <3>1
    <3>3. [i \in 1..Len(ledger) |-> ledger[i].ok] \in Seq(BOOLEAN)
      BY <2>2, <3>2
    <3>4. Rows = [i \in 1..Len(ledger) |-> ledger[i].ok]
      BY <2>1, <2>2
    <3>5. DOMAIN Rows = 1..Len(ledger)
      BY <3>4
    <3>6. Rows \in Seq(BOOLEAN)
      BY <3>3, <3>4
    <3>7. QED
      BY <2>2, <3>5, <3>6
  <2>4. \A i \in 1..Len(ledger) : Rows[i] = ledger[i].ok
    BY <2>1, <2>2
  <2>5. \A i \in 1..Len(ledger) : ledger[i].ok => i = Len(ledger)
    BY DEF ItemInv
  <2>6. \A i \in DOMAIN Rows : Rows[i] => i = Len(Rows)
    BY <2>3, <2>4, <2>5, Zenon
  <2>7. Rows # <<>>
    BY <2>2, <2>3
  <2>8. QED
    BY <2>6, <2>7
<1>4. QED
  BY <1>2, <1>3

\* Every step of the call is a step of the contract, or none.
LEMMA ContractStep == Verdict' /\ [Next]_vars => [Call!Next]_(Call!vars)
<1> SUFFICES ASSUME Verdict', [Next]_vars
             PROVE  [Call!Next]_(Call!vars)
  OBVIOUS
<1>1. CASE UNCHANGED vars
  <2>1. State' = State /\ Rows' = Rows
    BY <1>1 DEF vars, State, Rows, ProviderLedger
  <2>2. QED
    BY <2>1 DEF Call!vars, State, Rows
<1>2. CASE Next
  <2>1. pc \in {"ladder", "waiting"} /\ pc' \in {"ladder", "waiting", "done", "raised"}
    BY <1>2 DEF Next, BudgetStop, Submit, Timeout, SyncAnswered, AsyncFailed, AsyncFinished,
                AsyncRaises, Settle
  <2>2. State = "calling" /\ Rows = <<>>
    BY <2>1 DEF State, Rows
  <2>3. CASE pc' = "done"
    <3>1. State' = "answered"
      BY <2>3 DEF State
    <3>2. Rows' # <<>> /\ \A i \in DOMAIN Rows' : Rows'[i] => i = Len(Rows')
      BY <2>3 DEF Verdict
    <3>3. Call!Answer
      BY <2>2, <3>1, <3>2 DEF Call!Answer, Call!FailuresThenVerdict, State, Rows
    <3>4. QED
      BY <3>3 DEF Call!Next
  <2>4. CASE pc' = "raised"
    <3>1. State' = "raised" /\ Rows' = <<>>
      BY <2>4 DEF State, Rows
    <3>2. Call!Raise
      BY <2>2, <3>1 DEF Call!Raise, State, Rows
    <3>3. QED
      BY <3>2 DEF Call!Next
  <2>5. CASE pc' \in {"ladder", "waiting"}
    <3>1. State' = "calling" /\ Rows' = <<>>
      BY <2>5 DEF State, Rows
    <3>2. QED
      BY <2>2, <3>1 DEF Call!vars, State, Rows
  <2>6. QED
    BY <2>1, <2>3, <2>4, <2>5
<1>3. QED
  BY <1>1, <1>2

\* For any price list, a call is one of AdapterCall, but for its end: it returns at most once,
\* with failures and then a verdict, or raises.
THEOREM ContractSafe == Spec => Call!Init /\ [][Call!Next]_(Call!vars)
<1>1. Init => Call!Init
  BY DEF Init, Call!Init
<1>2. QED
  BY <1>1, AnswersVerdict, ContractStep, ItemInit, ItemStep, TypeCorrect, PTL DEF Spec

=============================================================================
