------------------------ MODULE RoutingMemory_proofs ------------------------
(***************************************************************************)
(* Theorems about RoutingMemory, for any set of scrapes and providers and  *)
(* any thresholds: types, the agreement of the probe query with the skip   *)
(* query, and what a probe does to the ledger.  They rest on the order of  *)
(* the rows, oldest first.                                                 *)
(***************************************************************************)
EXTENDS RoutingMemory, FiniteSetTheorems, TLAPS

-----------------------------------------------------------------------------
(* Lemmas on the operators *)

OldestFirst(s) == \A i, j \in DOMAIN s : i < j => s[i].age >= s[j].age

\* Each query's "last" rows are the youngest.
Chronological ==
    \A p \in Providers : OldestFirst(ledger[p])

\* A planned order is a sequence of providers.
LEMMA OrderType ==
    \A o \in SetToSeqs(Providers) : o \in Seq(Providers)
<1>1. Cardinality(Providers) \in Nat
  BY MemoryAssumption, FS_CardinalityType
<1>2. QED
  BY <1>1 DEF SetToSeqs

\* The rows of a sequence of rows have an outcome and an age.
LEMMA RowsTyped ==
    ASSUME NEW s \in Seq(Row), NEW i \in 1..Len(s)
    PROVE  s[i] \in Row /\ s[i].ok \in BOOLEAN /\ s[i].age \in 0..Horizon /\ s[i].age \in Nat
<1>1. s[i] \in Row
  OBVIOUS
<1>2. Horizon \in Nat
  BY MemoryAssumption DEF Horizon
<1>3. s[i].ok \in BOOLEAN /\ s[i].age \in 0..Horizon
  BY <1>1 DEF Row
<1>4. QED
  BY <1>1, <1>2, <1>3

\* Dropping the rows no query sees leaves a sequence of rows, in the same order.
LEMMA VisibleKeeps ==
    ASSUME NEW s \in Seq(Row)
    PROVE  /\ Visible(s) \in Seq(Row)
           /\ OldestFirst(s) => OldestFirst(Visible(s))
<1> DEFINE m == Cardinality(Invisible(s)) + 1
<1>1. m \in Nat /\ m >= 1
  <2>1. IsFiniteSet(1..Len(s))
    BY FS_Interval
  <2>2. Invisible(s) \subseteq 1..Len(s)
    BY DEF Invisible
  <2>3. Cardinality(Invisible(s)) \in Nat
    BY <2>1, <2>2, FS_Subset, FS_CardinalityType
  <2>4. QED
    BY <2>3
<1>2. Visible(s) = SubSeq(s, m, Len(s))
  BY DEF Visible
<1> HIDE DEF m
<1>3. SubSeq(s, m, Len(s)) \in Seq(Row)
  BY <1>1
<1>4. \A i \in DOMAIN SubSeq(s, m, Len(s)) :
        /\ i + m - 1 \in DOMAIN s
        /\ SubSeq(s, m, Len(s))[i] = s[i + m - 1]
  BY <1>1
<1>5. ASSUME OldestFirst(s)
      PROVE  OldestFirst(SubSeq(s, m, Len(s)))
  BY <1>1, <1>4, <1>5 DEF OldestFirst
<1>6. QED
  BY <1>2, <1>3, <1>5

\* The rows of a run, put after the older rows of the ledger.
LEMMA AppendKeeps ==
    ASSUME NEW s \in Seq(Row), NEW b \in Seq(BOOLEAN)
    PROVE  /\ s \o Stamped(b) \in Seq(Row)
           /\ OldestFirst(s) => OldestFirst(s \o Stamped(b))
<1>1. Horizon \in Nat
  BY MemoryAssumption DEF Horizon
<1>2. \A i \in 1..Len(b) : [ok |-> b[i], age |-> 0] \in Row
  BY <1>1 DEF Row
<1>3. Stamped(b) \in Seq(Row) /\ Len(Stamped(b)) = Len(b)
  BY <1>2 DEF Stamped
<1>4. \A i \in 1..Len(b) : Stamped(b)[i].age = 0
  BY DEF Stamped
<1> DEFINE t == s \o Stamped(b)
<1>5. /\ t \in Seq(Row)
      /\ Len(t) = Len(s) + Len(b)
      /\ \A i \in 1..Len(s) : t[i] = s[i]
      /\ \A i \in 1..Len(t) : i > Len(s) => t[i].age = 0
  BY <1>3, <1>4
<1> HIDE DEF t
<1>6. ASSUME OldestFirst(s), NEW i \in 1..Len(t), NEW j \in 1..Len(t), i < j
      PROVE  t[i].age >= t[j].age
  <2>1. t[i].age \in Nat
    BY <1>5, RowsTyped
  <2>2. CASE j <= Len(s)
    <3>1. i \in DOMAIN s /\ j \in DOMAIN s
      BY <1>5, <1>6, <2>2
    <3>2. t[i] = s[i] /\ t[j] = s[j]
      BY <1>5, <3>1
    <3>3. QED
      BY <1>6, <3>1, <3>2 DEF OldestFirst
  <2>3. CASE j > Len(s)
    <3>1. t[j].age = 0
      BY <1>5, <2>3
    <3>2. QED
      BY <2>1, <3>1
  <2>4. QED
    BY <1>5, <2>2, <2>3
<1>7. DOMAIN t = 1..Len(t)
  BY <1>5
<1>8. OldestFirst(s) => OldestFirst(t)
  BY <1>6, <1>7 DEF OldestFirst
<1>9. QED
  BY <1>5, <1>8 DEF t

\* A tick keeps types and order: ages grow together, up to the same horizon.
LEMMA TickKeeps ==
    ASSUME NEW s \in Seq(Row)
    PROVE  LET t == [i \in DOMAIN s |-> Older(s[i])]
           IN  /\ t \in Seq(Row)
               /\ OldestFirst(s) => OldestFirst(t)
<1> DEFINE t == [i \in DOMAIN s |-> Older(s[i])]
<1>1. \A row \in Row : Older(row) \in Row
  BY MemoryAssumption DEF Older, Row, Horizon
<1>2. t \in Seq(Row) /\ DOMAIN t = DOMAIN s
  BY <1>1
<1>3. \A a, b \in Row : a.age >= b.age => Older(a).age >= Older(b).age
  BY MemoryAssumption DEF Older, Row, Horizon
<1>4. OldestFirst(s) => OldestFirst(t)
  BY <1>2, <1>3 DEF OldestFirst
<1>5. QED
  BY <1>2, <1>4

\* A provider that is due has no row inside the window, so no skip rule applies to it.
LEMMA DueIsAdmitted ==
    ASSUME NEW s \in Seq(Row), OldestFirst(s), Due(s)
    PROVE  ~ShouldSkip(s)
<1>1. Len(s) \in 1..Len(s)
  BY MemoryAssumption DEF Due, FailureTail
<1>2. \A i \in 1..Len(s) : s[i].age \in Nat /\ s[Len(s)].age \in Nat
  BY <1>1, RowsTyped
<1>3. ASSUME NEW i \in 1..Len(s)
      PROVE  s[i].age >= s[Len(s)].age
  <2>1. CASE i = Len(s)
    BY <1>2, <2>1
  <2>2. CASE i < Len(s)
    BY <1>1, <2>2 DEF OldestFirst
  <2>3. QED
    BY <2>1, <2>2
<1>4. s[Len(s)].age > Window
  BY DEF Due
<1>5. \A i \in DOMAIN s : ~(s[i].age <= Window)
  BY <1>2, <1>3, <1>4, MemoryAssumption
<1>6. ASSUME NEW ok \in BOOLEAN
      PROVE  WindowRows(s, ok) = 0
  <2>1. {i \in DOMAIN s : s[i].age <= Window /\ s[i].ok = ok} = {}
    BY <1>5
  <2>2. QED
    BY <2>1, FS_EmptySet DEF WindowRows
<1>7. WindowRows(s, TRUE) = 0 /\ WindowRows(s, FALSE) = 0
  BY <1>6
<1>8. ~(0 >= CloseAfter) /\ ~(0 >= DilutedAfter) /\ ~(0 > 0)
  BY MemoryAssumption
<1>9. QED
  BY <1>7, <1>8, Zenon DEF ShouldSkip

-----------------------------------------------------------------------------
(* Type correctness *)

\* A call is always made to the head of a non-empty order.
CallingHead == \A r \in Runs : pc[r] = "calling" => order[r] # <<>>

TypeInv == TypeOK /\ CallingHead

\* The empty stores satisfy the invariant.
LEMMA TypeInit == Init => TypeInv
  BY DEF Init, TypeInv, TypeOK, CallingHead, NothingBooked

\* The rows of one call are outcomes.
LEMMA CallOutcomesType ==
    ASSUME NEW n \in 1..MaxCallRows, NEW outcome
    PROVE  CallOutcomes(n, outcome) \in Seq(BOOLEAN)
<1>1. n \in Nat /\ n - 1 \in Nat
  BY MemoryAssumption
<1>2. [i \in 1..n |-> outcome = "success" /\ i = n] \in Seq(BOOLEAN)
  BY <1>1
<1>3. [i \in 1..n - 1 |-> FALSE] \in Seq(BOOLEAN)
  BY <1>1
<1>4. QED
  BY <1>2, <1>3, Zenon DEF CallOutcomes

\* Every step keeps the invariant: one case per action.
LEMMA TypeStep == TypeInv /\ [Next]_vars => TypeInv'
<1> SUFFICES ASSUME TypeInv, [Next]_vars
             PROVE  TypeInv'
  OBVIOUS
<1> USE DEF TypeInv, TypeOK, CallingHead
<1>1. CASE Tick
  <2>1. ledger' \in [Providers -> Seq(Row)]
    BY <1>1, TickKeeps DEF Tick
  <2>2. QED
    BY <1>1, <2>1 DEF Tick
<1>2. ASSUME NEW r \in Runs, Plan(r)
      PROVE  TypeInv'
  BY <1>2, OrderType DEF Plan, DueProviders
<1>3. ASSUME NEW r \in Runs, SkipBadHistory(r)
      PROVE  TypeInv'
  BY <1>3 DEF SkipBadHistory
<1>4. ASSUME NEW r \in Runs, Call(r)
      PROVE  TypeInv'
  BY <1>4 DEF Call
<1>5. ASSUME NEW r \in Runs, EndLadder(r)
      PROVE  TypeInv'
  BY <1>5 DEF EndLadder
<1>6. ASSUME NEW r \in Runs, NEW outcome \in {"failure", "success", "proxy", "budget"},
             Answer(r, outcome)
      PROVE  TypeInv'
  <2>1. PICK n \in 1..MaxCallRows :
          booked' = [booked EXCEPT ![r] =
                       [@ EXCEPT ![Candidate(r)] = CallOutcomes(n, outcome)]]
    BY <1>6 DEF Answer
  <2>2. CallOutcomes(n, outcome) \in Seq(BOOLEAN)
    BY CallOutcomesType
  <2>3. booked' \in [Runs -> [Providers -> Seq(BOOLEAN)]]
    BY <2>1, <2>2
  <2>4. order' \in [Runs -> Seq(Providers)]
    BY <1>6 DEF Answer
  <2>5. QED
    BY <1>6, <2>3, <2>4 DEF Answer
<1>7. ASSUME NEW r \in Runs, Record(r)
      PROVE  TypeInv'
  <2>1. ledger' \in [Providers -> Seq(Row)]
    BY <1>7, AppendKeeps, VisibleKeeps DEF Record
  <2>2. NothingBooked \in [Providers -> Seq(BOOLEAN)]
    BY DEF NothingBooked
  <2>3. QED
    BY <1>7, <2>1, <2>2 DEF Record
<1>8. ASSUME NEW r \in Runs, Crash(r)
      PROVE  TypeInv'
  BY <1>8 DEF Crash, NothingBooked
<1>9. CASE UNCHANGED vars
  BY <1>9 DEF vars
<1>10. QED
  BY <1>1, <1>2, <1>3, <1>4, <1>5, <1>6, <1>7, <1>8, <1>9 DEF Next

\* The specification never leaves the invariant.
LEMMA TypeInvariance == Spec => []TypeInv
  BY TypeInit, TypeStep, PTL DEF Spec

\* Every variable keeps its type, for any number of scrapes and providers.
THEOREM TypeCorrect == Spec => []TypeOK
  BY TypeInvariance, PTL DEF TypeInv

-----------------------------------------------------------------------------
(* The order of the evidence and what the two queries make of it *)

\* Recording appends at age 0, and ages grow together.
LEMMA ChronologicalStep == TypeInv /\ Chronological /\ [Next]_vars => Chronological'
<1> SUFFICES ASSUME TypeInv, Chronological, [Next]_vars
             PROVE  Chronological'
  OBVIOUS
<1> USE DEF TypeInv, TypeOK, Chronological
<1>1. CASE Tick
  BY <1>1, TickKeeps DEF Tick
<1>2. ASSUME NEW r \in Runs, Record(r)
      PROVE  Chronological'
  BY <1>2, AppendKeeps, VisibleKeeps DEF Record
<1>3. CASE UNCHANGED ledger
  BY <1>3
<1>4. QED
  BY <1>1, <1>2, <1>3
     DEF Next, vars, Plan, SkipBadHistory, Call, EndLadder, Answer, Crash

\* The ledger of every provider is ordered by age, so the "last rows" of a query are
\* the youngest.
LEMMA EvidenceChronological == Spec => []Chronological
<1>1. Init => Chronological
  BY DEF Init, Chronological, OldestFirst
<1>2. QED
  BY <1>1, TypeInvariance, ChronologicalStep, PTL DEF Spec

\* A provider due for a recovery probe is never skipped for bad history at the same
\* moment: whatever the thresholds and the window, no provider is shut out by the two
\* queries disagreeing.
THEOREM ProbesAdmitted == Spec => []ProbeAdmitted
<1>1. TypeInv /\ Chronological => ProbeAdmitted
  BY DueIsAdmitted DEF TypeInv, TypeOK, Chronological, ProbeAdmitted
<1>2. QED
  BY <1>1, TypeInvariance, EvidenceChronological, PTL

-----------------------------------------------------------------------------
(* What a probe does to the ledger *)

\* The size of an interval.
LEMMA IntervalSize ==
    ASSUME NEW a \in Int, NEW b \in Int, a <= b + 1
    PROVE  IsFiniteSet(a..b) /\ Cardinality(a..b) = b - a + 1
<1>1. IsFiniteSet(a..b) /\ Cardinality(a..b) = IF a > b THEN 0 ELSE b - a + 1
  BY FS_Interval
<1>2. QED
  BY <1>1

\* A provider that is due has no row inside the window.
LEMMA DueIsAged ==
    ASSUME NEW s \in Seq(Row), OldestFirst(s), Due(s)
    PROVE  \A i \in 1..Len(s) : s[i].age > Window
<1>1. Len(s) \in 1..Len(s) /\ s[Len(s)].age > Window
  BY MemoryAssumption DEF Due, FailureTail
<1>2. \A i \in 1..Len(s) : s[i].age \in Nat /\ s[Len(s)].age \in Nat
  BY <1>1, RowsTyped
<1>3. \A i \in 1..Len(s) : i < Len(s) => s[i].age >= s[Len(s)].age
  BY <1>1 DEF OldestFirst
<1>4. Window \in Nat
  BY MemoryAssumption
<1>5. QED
  BY <1>1, <1>2, <1>3, <1>4

\* The ledger after a probe: what is left of the aged rows, then those of the probe.  At
\* most the aged rows are dropped, and never one of the last CloseAfter + 1.
LEMMA AfterProbe ==
    ASSUME NEW s \in Seq(Row), \A i \in 1..Len(s) : s[i].age > Window, Len(s) >= CloseAfter,
           NEW b \in Seq(BOOLEAN), Len(b) >= 1
    PROVE  \E m \in 0..Len(s) :
             /\ m <= Len(s) + Len(b) - CloseAfter - 1
             /\ Len(Visible(s \o Stamped(b))) = Len(s) - m + Len(b)
             /\ \A k \in 1..(Len(s) - m) : Visible(s \o Stamped(b))[k] = s[m + k]
             /\ \A k \in 1..Len(b) :
                  Visible(s \o Stamped(b))[Len(s) - m + k] = [ok |-> b[k], age |-> 0]
<1> DEFINE t == s \o Stamped(b)
           m == Cardinality(Invisible(t))
<1>0. Len(s) \in Nat /\ Len(b) \in Nat /\ CloseAfter \in Nat /\ Window \in Nat
  BY MemoryAssumption
<1>1. t \in Seq(Row)
  BY AppendKeeps
<1>2. Stamped(b) = [k \in 1..Len(b) |-> [ok |-> b[k], age |-> 0]]
  BY DEF Stamped
<1>3. Horizon \in Nat /\ \A k \in 1..Len(b) : [ok |-> b[k], age |-> 0] \in Row
  BY MemoryAssumption DEF Horizon, Row
<1>4. Stamped(b) \in Seq(Row) /\ Len(Stamped(b)) = Len(b)
  BY <1>0, <1>2, <1>3
<1>5. /\ Len(t) = Len(s) + Len(b)
      /\ \A k \in 1..Len(s) : t[k] = s[k]
      /\ \A k \in 1..Len(b) : t[Len(s) + k] = [ok |-> b[k], age |-> 0]
  BY <1>0, <1>2, <1>4
<1> HIDE DEF t
<1>6. Invisible(t) \subseteq 1..Len(s)
  <2> SUFFICES ASSUME NEW i \in DOMAIN t, t[i].age > Window PROVE i \in 1..Len(s)
    BY DEF Invisible
  <2>1. CASE i <= Len(s)
    BY <1>0, <1>1, <2>1
  <2>2. CASE i > Len(s)
    <3>1. i - Len(s) \in 1..Len(b) /\ Len(s) + (i - Len(s)) = i
      BY <1>0, <1>1, <1>5, <2>2
    <3>2. t[Len(s) + (i - Len(s))] = [ok |-> b[i - Len(s)], age |-> 0]
      BY <1>5, <3>1
    <3>3. t[i] = [ok |-> b[i - Len(s)], age |-> 0]
      BY <3>1, <3>2
    <3>4. t[i].age = 0
      BY <3>3
    <3>5. QED
      BY <1>0, <3>4
  <2>3. QED
    BY <1>0, <1>1, <2>1, <2>2
<1>7. Invisible(t) \subseteq 1..(Len(s) + Len(b) - CloseAfter - 1)
  BY <1>0, <1>1, <1>5 DEF Invisible
<1>8. m \in 0..Len(s) /\ m <= Len(s) + Len(b) - CloseAfter - 1
  <2>1. /\ IsFiniteSet(1..Len(s)) /\ Cardinality(1..Len(s)) = Len(s)
        /\ IsFiniteSet(1..(Len(s) + Len(b) - CloseAfter - 1))
        /\ Cardinality(1..(Len(s) + Len(b) - CloseAfter - 1)) = Len(s) + Len(b) - CloseAfter - 1
    <3> DEFINE l == Len(s)
    <3>0. l \in Int /\ 1 <= l + 1
      BY <1>0
    <3> HIDE DEF l
    <3>1. IsFiniteSet(1..l) /\ Cardinality(1..l) = l - 1 + 1
      BY <3>0, IntervalSize
    <3> DEFINE n == Len(s) + Len(b) - CloseAfter - 1
    <3>2. n \in Int /\ 1 <= n + 1
      BY <1>0
    <3> HIDE DEF n
    <3>3. IsFiniteSet(1..n) /\ Cardinality(1..n) = n - 1 + 1
      BY <3>2, IntervalSize
    <3>4. Cardinality(1..n) = n
      BY <3>2, <3>3
    <3>5. QED
      BY <3>0, <3>1, <3>3, <3>4 DEF l, n
  <2>2. m <= Cardinality(1..Len(s)) /\ IsFiniteSet(Invisible(t))
    BY <1>6, <2>1, FS_Subset
  <2>3. m <= Cardinality(1..(Len(s) + Len(b) - CloseAfter - 1))
    BY <1>7, <2>1, FS_Subset
  <2>4. m \in Nat
    BY <2>2, FS_CardinalityType
  <2>5. QED
    BY <1>0, <2>1, <2>2, <2>3, <2>4
<1>9. Visible(t) = SubSeq(t, m + 1, Len(t))
  BY DEF Visible
<1> HIDE DEF m
<1>10. /\ Len(Visible(t)) = Len(s) - m + Len(b)
       /\ \A k \in 1..(Len(s) - m + Len(b)) : Visible(t)[k] = t[m + k]
  <2>1. Len(t) \in Nat /\ m \in Nat /\ m <= Len(t) /\ Len(t) - (m + 1) + 1 = Len(s) - m + Len(b)
    BY <1>0, <1>5, <1>8
  <2>2. /\ Len(SubSeq(t, m + 1, Len(t))) = Len(t) - (m + 1) + 1
        /\ \A k \in 1..(Len(t) - (m + 1) + 1) : SubSeq(t, m + 1, Len(t))[k] = t[m + k]
    <3> DEFINE d == m + 1
    <3>1. d \in Nat /\ d >= 1 /\ d <= Len(t) + 1
      BY <2>1
    <3> HIDE DEF d
    <3>2. Len(SubSeq(t, d, Len(t))) = Len(t) - d + 1
      <4>1. SubSeq(t, d, Len(t)) = [k \in 1..(Len(t) - d + 1) |-> t[k + d - 1]]
        BY <1>1, <2>1, <3>1
      <4>2. Len(t) - d + 1 \in Nat
        BY <2>1, <3>1
      <4>3. DOMAIN SubSeq(t, d, Len(t)) = 1..(Len(t) - d + 1)
        BY <4>1
      <4>4. SubSeq(t, d, Len(t)) \in Seq(Row)
        BY <1>1, <2>1, <3>1
      <4>5. QED
        BY <4>2, <4>3, <4>4
    <3>3. \A k \in 1..(Len(t) - d + 1) : SubSeq(t, d, Len(t))[k] = t[k + d - 1]
      BY <1>1, <2>1, <3>1
    <3>4. \A k \in 1..(Len(t) - d + 1) : k + d - 1 = m + k
      BY <2>1, <3>1 DEF d
    <3>5. QED
      BY <3>2, <3>3, <3>4 DEF d
  <2>3. QED
    BY <1>9, <2>1, <2>2
<1>11. \A k \in 1..(Len(s) - m) : Visible(t)[k] = s[m + k]
  BY <1>0, <1>5, <1>8, <1>10
<1>12. ASSUME NEW k \in 1..Len(b)
       PROVE  Visible(t)[Len(s) - m + k] = [ok |-> b[k], age |-> 0]
  <2>1. Len(s) - m + k \in 1..(Len(s) - m + Len(b)) /\ m + (Len(s) - m + k) = Len(s) + k
    BY <1>0, <1>8
  <2>2. QED
    BY <1>5, <1>10, <2>1
<1>13. QED
  BY <1>8, <1>10, <1>11, <1>12 DEF t

\* One more failure, more than a window after the last one, closes the provider again.
LEMMA FailureRecloses ==
    ASSUME NEW s \in Seq(Row), OldestFirst(s), Due(s),
           NEW b \in Seq(BOOLEAN), Len(b) = 1, ~b[1]
    PROVE  ShouldSkip(Visible(s \o Stamped(b)))
<1> DEFINE v == Visible(s \o Stamped(b))
<1>1. /\ Len(s) \in Nat /\ Len(s) >= CloseAfter /\ CloseAfter \in Nat /\ CloseAfter >= 1
      /\ Window \in Nat
      /\ \A i \in Len(s) - CloseAfter + 1 .. Len(s) : ~s[i].ok
  BY MemoryAssumption DEF Due, FailureTail, Failed
<1>2. \A i \in 1..Len(s) : s[i].age > Window
  BY DueIsAged
<1>0. Len(b) >= 1
  OBVIOUS
<1>3. PICK m \in 0..Len(s) :
        /\ m <= Len(s) + Len(b) - CloseAfter - 1
        /\ Len(v) = Len(s) - m + Len(b)
        /\ \A k \in 1..(Len(s) - m) : v[k] = s[m + k]
        /\ \A k \in 1..Len(b) : v[Len(s) - m + k] = [ok |-> b[k], age |-> 0]
  BY <1>0, <1>1, <1>2, AfterProbe, Zenon
<1>4. v \in Seq(Row)
  BY AppendKeeps, VisibleKeeps
<1> HIDE DEF v
<1>5. /\ m <= Len(s) - CloseAfter /\ Len(v) = Len(s) - m + 1
      /\ v[Len(v)].ok = b[1] /\ v[Len(v)].age = 0
  BY <1>1, <1>3
<1>6. \A k \in 1..(Len(v) - 1) : v[k] = s[m + k] /\ m + k \in 1..Len(s)
  BY <1>1, <1>3, <1>5
<1>7. \A k \in 1..(Len(v) - 1) : v[k].age > Window
  BY <1>2, <1>6
<1>8. \A k \in 1..Len(v) : k \in 1..(Len(v) - 1) \/ k = Len(v)
  BY <1>4
<1>9. FailureTail(v, CloseAfter + 1)
  <2>1. Len(v) >= CloseAfter + 1 /\ Len(v) \in Nat
    BY <1>1, <1>4, <1>5
  <2>2. ASSUME NEW k \in Len(v) - (CloseAfter + 1) + 1 .. Len(v), k # Len(v)
        PROVE  ~v[k].ok
    <3>1. k \in 1..(Len(v) - 1)
      BY <1>1, <2>1, <2>2
    <3>2. k \in Int /\ k >= Len(v) - CloseAfter /\ k <= Len(v) - 1
      BY <1>1, <2>1, <2>2
    <3>3. Len(v) = Len(s) - m + 1 /\ m \in Int
      BY <1>1, <1>5
    <3>4. m + k \in Len(s) - CloseAfter + 1 .. Len(s)
      BY <1>1, <3>2, <3>3
    <3>5. v[k] = s[m + k] /\ ~s[m + k].ok
      BY <1>1, <1>6, <3>1, <3>4
    <3>6. QED
      BY <3>5
  <2>3. QED
    BY <1>5, <2>1, <2>2 DEF FailureTail, Failed
<1>10. v[Len(v) - 1].age > v[Len(v)].age + Window
  <2>1. Len(v) - 1 \in 1..(Len(v) - 1)
    BY <1>1, <1>4, <1>5
  <2>2. QED
    BY <1>1, <1>5, <1>7, <2>1
<1>11. WindowRows(v, TRUE) = 0
  <2>1. ASSUME NEW k \in 1..Len(v), v[k].age <= Window
        PROVE  v[k].ok # TRUE
    <3>1. v[k].age \in Nat
      BY <1>4, RowsTyped
    <3>2. k = Len(v)
      BY <1>1, <1>7, <1>8, <2>1, <3>1
    <3>3. v[Len(v)].ok # TRUE
      BY <1>5
    <3>4. QED
      BY <3>2, <3>3
  <2>2. {k \in DOMAIN v : v[k].age <= Window /\ v[k].ok = TRUE} = {}
    <3>1. DOMAIN v = 1..Len(v)
      BY <1>4
    <3>2. QED
      BY <2>1, <3>1, Zenon
  <2>3. QED
    BY <2>2, FS_EmptySet DEF WindowRows
<1>12. WindowRows(v, FALSE) > 0
  <2> DEFINE fails == {k \in DOMAIN v : v[k].age <= Window /\ v[k].ok = FALSE}
  <2>1. Len(v) \in DOMAIN v /\ v[Len(v)].age <= Window
    BY <1>1, <1>4, <1>5
  <2>2. v[Len(v)].ok = FALSE
    BY <1>5
  <2>3. Len(v) \in fails
    BY <2>1, <2>2
  <2>4. IsFiniteSet(1..Len(v)) /\ fails \subseteq 1..Len(v)
    BY <1>4, FS_Interval
  <2>5. IsFiniteSet(fails) /\ Cardinality(fails) \in Nat
    BY <2>4, FS_Subset, FS_CardinalityType
  <2> HIDE DEF fails
  <2>6. Cardinality(fails) # 0
    BY <2>3, <2>5, FS_EmptySet
  <2>7. QED
    BY <2>5, <2>6 DEF WindowRows, fails
<1>13. FailedProbeReclosed(v)
  BY <1>9, <1>10 DEF FailedProbeReclosed
<1>14. QED
  BY <1>11, <1>12, <1>13 DEF ShouldSkip, v

\* A success among at most DilutedAfter rows reopens it.
LEMMA SuccessReopens ==
    ASSUME NEW s \in Seq(Row), OldestFirst(s), Due(s),
           NEW b \in Seq(BOOLEAN), Len(b) <= DilutedAfter, NEW w \in 1..Len(b), b[w]
    PROVE  ~ShouldSkip(Visible(s \o Stamped(b))) /\ ~Due(Visible(s \o Stamped(b)))
<1> DEFINE v == Visible(s \o Stamped(b))
           wins == {k \in DOMAIN v : v[k].age <= Window /\ v[k].ok = TRUE}
           fails == {k \in DOMAIN v : v[k].age <= Window /\ v[k].ok = FALSE}
<1>1. /\ Len(s) \in Nat /\ Len(s) >= CloseAfter /\ Window \in Nat
      /\ Len(b) \in Nat /\ Len(b) >= 1 /\ DilutedAfter \in Nat
  BY MemoryAssumption DEF Due, FailureTail
<1>2. \A i \in 1..Len(s) : s[i].age > Window
  BY DueIsAged
<1>3. PICK m \in 0..Len(s) :
        /\ m <= Len(s) + Len(b) - CloseAfter - 1
        /\ Len(v) = Len(s) - m + Len(b)
        /\ \A k \in 1..(Len(s) - m) : v[k] = s[m + k]
        /\ \A k \in 1..Len(b) : v[Len(s) - m + k] = [ok |-> b[k], age |-> 0]
  BY <1>1, <1>2, AfterProbe
<1>0. v \in Seq(Row)
  BY AppendKeeps, VisibleKeeps
<1> HIDE DEF v
<1>4. v \in Seq(Row) /\ DOMAIN v = 1..Len(v)
  BY <1>0
<1>5. Len(s) - m + w \in 1..Len(v) /\ v[Len(s) - m + w] = [ok |-> b[w], age |-> 0]
  <2>1. Len(v) = Len(s) - m + Len(b) /\ m \in 0..Len(s)
    BY <1>3
  <2>2. Len(s) - m + w \in 1..Len(v)
    BY <1>1, <2>1
  <2>3. v[Len(s) - m + w] = [ok |-> b[w], age |-> 0]
    BY <1>3
  <2>4. QED
    BY <2>2, <2>3
<1>6. Len(s) - m + w \in wins
  <2>1. v[Len(s) - m + w].ok = b[w] /\ v[Len(s) - m + w].age = 0 /\ 0 <= Window
    BY <1>1, <1>5
  <2>2. b[w] = TRUE
    OBVIOUS
  <2>3. QED
    BY <1>4, <1>5, <2>1, <2>2
<1>7. fails \subseteq (Len(s) - m + 1 .. Len(v)) \ {Len(s) - m + w}
  <2> SUFFICES ASSUME NEW k \in 1..Len(v), v[k].age <= Window, v[k].ok = FALSE
               PROVE  k \in (Len(s) - m + 1 .. Len(v)) \ {Len(s) - m + w}
    BY <1>4
  <2>1. v[k].age \in Nat
    BY <1>4, RowsTyped
  <2>2. ~(k \in 1..(Len(s) - m))
    <3> SUFFICES ASSUME k \in 1..(Len(s) - m) PROVE FALSE
      OBVIOUS
    <3>1. m + k \in 1..Len(s) /\ v[k] = s[m + k]
      BY <1>1, <1>3
    <3>2. v[k].age > Window
      BY <1>2, <3>1
    <3>3. QED
      BY <1>1, <2>1, <3>2
  <2>3. k \in Len(s) - m + 1 .. Len(v)
    BY <1>1, <1>3, <2>2
  <2>4. v[Len(s) - m + w].ok = b[w]
    BY <1>5
  <2>5. k # Len(s) - m + w
    BY <2>4
  <2>6. QED
    BY <2>3, <2>5
<1>8. Cardinality(fails) < DilutedAfter /\ Cardinality(fails) \in Nat
  <2> DEFINE new == Len(s) - m + 1 .. Len(v)
  <2>1. IsFiniteSet(new) /\ Cardinality(new) = Len(b)
    <3>1. Len(v) - (Len(s) - m + 1) + 1 = Len(b) /\ Len(s) - m + 1 <= Len(v)
          /\ Len(s) - m + 1 \in Int /\ Len(v) \in Int
      BY <1>1, <1>3
    <3>2. Len(s) - m + 1 <= Len(v) + 1
      BY <3>1
    <3>3. IsFiniteSet(new) /\ Cardinality(new) = Len(v) - (Len(s) - m + 1) + 1
      BY <3>1, <3>2, IntervalSize
    <3> HIDE DEF new
    <3>4. QED
      BY <3>1, <3>3
  <2>2. Len(s) - m + w \in new
    BY <1>1, <1>3
  <2> HIDE DEF new
  <2>3. /\ IsFiniteSet(new \ {Len(s) - m + w})
        /\ Cardinality(new \ {Len(s) - m + w}) = Len(b) - 1
    BY <2>1, <2>2, FS_RemoveElement
  <2>4. fails \subseteq new \ {Len(s) - m + w}
    BY <1>7 DEF new
  <2> HIDE DEF fails
  <2>5. IsFiniteSet(fails) /\ Cardinality(fails) <= Len(b) - 1
    BY <2>3, <2>4, FS_Subset
  <2>6. Cardinality(fails) \in Nat
    BY <2>5, FS_CardinalityType
  <2>7. QED
    BY <1>1, <2>5, <2>6
<1>9. Cardinality(wins) # 0
  <2>1. IsFiniteSet(1..Len(v)) /\ wins \subseteq 1..Len(v)
    BY <1>1, <1>3, <1>4, FS_Interval
  <2>2. IsFiniteSet(wins)
    BY <2>1, FS_Subset
  <2> HIDE DEF wins
  <2>3. QED
    BY <1>6, <2>2, FS_EmptySet
<1>10. WindowRows(v, TRUE) # 0 /\ ~(WindowRows(v, FALSE) >= DilutedAfter)
  <2>1. WindowRows(v, TRUE) = Cardinality(wins) /\ WindowRows(v, FALSE) = Cardinality(fails)
    BY DEF WindowRows
  <2> HIDE DEF wins, fails
  <2>2. ~(Cardinality(fails) >= DilutedAfter)
    BY <1>1, <1>8
  <2>3. QED
    BY <1>9, <2>1, <2>2, Zenon
<1>11. ~ShouldSkip(v)
  BY <1>10, Zenon DEF ShouldSkip
<1>12. ~Due(v)
  <2>1. Len(b) \in 1..Len(b) /\ Len(s) - m + Len(b) = Len(v)
    BY <1>1, <1>3
  <2>2. v[Len(v)] = [ok |-> b[Len(b)], age |-> 0]
    BY <1>3, <2>1
  <2>3. v[Len(v)].age = 0
    BY <2>2
  <2>4. QED
    BY <1>1, <2>3 DEF Due
<1>13. QED
  BY <1>11, <1>12 DEF v

\* A failed probe of a single row closes the provider for another window, for any thresholds
\* and whatever other scrapes do, if the provider is still due when the row is recorded.
THEOREM FailedProbesClose == Spec => LoneFailedProbeCloses
<1>1. TypeInv /\ Chronological /\ [Next]_vars =>
        \A r \in Runs, p \in Providers :
          (ProbeFailed(r, p) /\ Len(booked[r][p]) = 1 /\ Due(ledger[p])) => ShouldSkip(ledger'[p])
  <2> SUFFICES ASSUME TypeInv, Chronological, NEW r \in Runs, NEW p \in Providers,
                      ProbeFailed(r, p), Len(booked[r][p]) = 1, Due(ledger[p])
               PROVE  ShouldSkip(ledger'[p])
    OBVIOUS
  <2>1. ledger[p] \in Seq(Row) /\ booked[r][p] \in Seq(BOOLEAN) /\ OldestFirst(ledger[p])
    BY DEF TypeInv, TypeOK, Chronological
  <2>2. ledger'[p] = Visible(ledger[p] \o Stamped(booked[r][p]))
    BY DEF ProbeFailed, Record
  <2>3. ~booked[r][p][1]
    BY <2>1 DEF ProbeFailed
  <2>4. QED
    BY <2>1, <2>2, <2>3, FailureRecloses
<1>2. QED
  BY <1>1, TypeInvariance, EvidenceChronological, PTL DEF Spec, LoneFailedProbeCloses

\* A successful probe reopens the provider at once, however many tiers failed before it in
\* the same probe, short of the dilution threshold.
THEOREM SuccessfulProbesReopen == Spec => SuccessfulProbeReopens
<1>1. TypeInv /\ Chronological /\ [Next]_vars =>
        \A r \in Runs, p \in Providers :
          (ProbeSucceeded(r, p) /\ Due(ledger[p]) /\ Len(booked[r][p]) <= DilutedAfter)
             => ~ShouldSkip(ledger'[p]) /\ ~Due(ledger'[p])
  <2> SUFFICES ASSUME TypeInv, Chronological, NEW r \in Runs, NEW p \in Providers,
                      ProbeSucceeded(r, p), Due(ledger[p]), Len(booked[r][p]) <= DilutedAfter
               PROVE  ~ShouldSkip(ledger'[p]) /\ ~Due(ledger'[p])
    OBVIOUS
  <2>1. ledger[p] \in Seq(Row) /\ booked[r][p] \in Seq(BOOLEAN) /\ OldestFirst(ledger[p])
    BY DEF TypeInv, TypeOK, Chronological
  <2>2. ledger'[p] = Visible(ledger[p] \o Stamped(booked[r][p]))
    BY DEF ProbeSucceeded, Record
  <2>3. PICK w \in 1..Len(booked[r][p]) : booked[r][p][w]
    BY <2>1 DEF ProbeSucceeded
  <2>4. QED
    BY <2>1, <2>2, <2>3, SuccessReopens
<1>2. QED
  BY <1>1, TypeInvariance, EvidenceChronological, PTL DEF Spec, SuccessfulProbeReopens


=============================================================================
