-------------------------- MODULE Workspace_proofs ---------------------------
(***************************************************************************)
(* Theorems about Workspace, for any providers, targets, requests, batches *)
(* and settings: what the console lists, how the ledger grows, what a run  *)
(* id groups, what the feed delivers, which routes the jobs run on, when a *)
(* provider is explored, and the types.                                    *)
(***************************************************************************)
EXTENDS Workspace, ProviderOrder_proofs

-----------------------------------------------------------------------------
(* The console's list *)

\* The list, and that there is a job for each request.
ListInv ==
    /\ jobs = [j \in Jobs |-> jobs[j]]
    /\ ListsItsRuns

\* A scrape that is opened is listed if its job was.
LEMMA OpenedKeepsListed ==
    ASSUME NEW old, NEW url, NEW configured, NEW pick, NEW recipe, NEW strategy, NEW run,
           NEW job \in Opened(old, url, configured, pick, recipe, strategy, run)
    PROVE  job.listed = old.listed
BY DEF Opened, Idle

LEMMA ListInit == Init => ListInv
<1> SUFFICES ASSUME Init PROVE ListInv
  OBVIOUS
<1>1. jobs = [j \in Jobs |-> Idle] /\ active = {}
  BY DEF Init
<1>2. \A n \in Requests : n \in Jobs /\ ~Idle.listed
  BY DEF Jobs, Idle
<1>3. QED
  BY <1>1, <1>2 DEF ListInv, ListsItsRuns

\* One request's job changes and its entry with it.
LEMMA ListStep ==
    ASSUME ListInv, NEW n \in Requests, NEW job, jobs' = [jobs EXCEPT ![n] = job],
           active' = IF job.listed THEN active \cup {n} ELSE active \ {n}
    PROVE  ListInv'
<1>1. n \in Jobs
  BY DEF Jobs
<1>2. jobs' = [j \in Jobs |-> IF j = n THEN job ELSE jobs[j]]
  BY <1>1 DEF ListInv
<1>3. \A m \in Requests : m \in Jobs
  BY DEF Jobs
<1>4. jobs' = [j \in Jobs |-> jobs'[j]]
  BY <1>2
<1>5. \A m \in Requests : jobs'[m] = IF m = n THEN job ELSE jobs[m]
  BY <1>2, <1>3
<1>6. active' = {m \in Requests : jobs'[m].listed}
  <2>1. CASE job.listed
    BY <2>1, <1>5 DEF ListInv, ListsItsRuns
  <2>2. CASE ~job.listed
    BY <2>2, <1>5 DEF ListInv, ListsItsRuns
  <2>3. QED
    BY <2>1, <2>2
<1>7. QED
  BY <1>4, <1>6 DEF ListInv, ListsItsRuns

LEMMA ListNext == WorkspaceAssumption /\ ListInv /\ [Next]_vars => ListInv'
<1> SUFFICES ASSUME WorkspaceAssumption, ListInv, [Next]_vars PROVE ListInv'
  OBVIOUS
<1>0. Batch \notin Requests
  BY DEF WorkspaceAssumption
<1>1. ASSUME NEW n \in Requests, NEW url \in ConsoleUrls, NEW pick \in Names \cup {"none"},
             Accept(n, url, pick)
      PROVE  ListInv'
  <2> DEFINE job == [Idle EXCEPT !.pc = "created", !.listed = TRUE, !.url = url,
                                 !.pick = pick, !.run = n]
  <2>1. job.listed
    BY DEF Idle
  <2>2. jobs' = [jobs EXCEPT ![n] = job] /\ active' = active \cup {n}
    BY <1>1 DEF Accept
  <2> HIDE DEF job
  <2>3. QED
    BY <2>1, <2>2, ListStep
<1>2. ASSUME NEW n \in Requests, NEW url \in ConsoleUrls, Serve(n, url)
      PROVE  ListInv'
  <2>1. PICK job \in Opened(Idle, url, Gateway, "none", Recipe[url], "none", n) :
          jobs' = [jobs EXCEPT ![n] = job]
    BY <1>2 DEF Serve
  <2>2. job.listed = FALSE
    BY OpenedKeepsListed DEF Idle
  <2>3. jobs[n] = Idle /\ active' = active
    BY <1>2 DEF Serve
  <2>4. n \notin active
    BY <2>3 DEF ListInv, ListsItsRuns, Idle
  <2>5. QED
    BY <2>1, <2>2, <2>3, <2>4, ListStep
<1>3. ASSUME NEW n \in Requests, Execute(n)
      PROVE  ListInv'
  <2>1. PICK job \in Opened(jobs[n], jobs[n].url, Gateway, jobs[n].pick, Recipe[jobs[n].url],
                            "none", n) :
          jobs' = [jobs EXCEPT ![n] = job]
    BY <1>3 DEF Execute
  <2>2. job.listed = jobs[n].listed
    BY OpenedKeepsListed
  <2>3. active' = active
    BY <1>3 DEF Execute
  <2>4. n \in active <=> jobs[n].listed
    BY DEF ListInv, ListsItsRuns
  <2>5. active' = IF job.listed THEN active \cup {n} ELSE active \ {n}
    BY <2>2, <2>3, <2>4
  <2>6. QED
    BY <2>1, <2>5, ListStep
<1>4. ASSUME NEW n \in Requests, Release(n)
      PROVE  ListInv'
  <2>1. ~Ended.listed
    BY DEF Ended, Idle
  <2>2. jobs' = [jobs EXCEPT ![n] = Ended] /\ active' = active \ {n}
    BY <1>4 DEF Release
  <2>3. QED
    BY <2>1, <2>2, ListStep
<1>5. ASSUME Restart
      PROVE  ListInv'
  <2>1. /\ jobs' = [j \in Jobs |-> IF j # Batch /\ jobs[j] # Idle THEN Ended ELSE jobs[j]]
        /\ active' = {}
    BY <1>5 DEF Restart
  <2>2. ~Ended.listed /\ ~Idle.listed
    BY DEF Ended, Idle
  <2>3. \A m \in Requests : m \in Jobs /\ m # Batch
    BY <1>0 DEF Jobs
  <2>4. \A m \in Requests : jobs'[m] \in {Ended, Idle}
    BY <2>1, <2>3
  <2>5. jobs' = [j \in Jobs |-> jobs'[j]]
    BY <2>1
  <2>6. QED
    BY <2>1, <2>2, <2>4, <2>5 DEF ListInv, ListsItsRuns
<1>6. ASSUME NEW job, jobs' = [jobs EXCEPT ![Batch] = job], UNCHANGED active
      PROVE  ListInv'
  <2>1. jobs' = [j \in Jobs |-> IF j = Batch THEN job ELSE jobs[j]]
    BY <1>6 DEF ListInv, Jobs
  <2>2. \A m \in Requests : m \in Jobs /\ m # Batch
    BY <1>0 DEF Jobs
  <2>3. \A m \in Requests : jobs'[m] = jobs[m]
    BY <2>1, <2>2
  <2>4. jobs' = [j \in Jobs |-> jobs'[j]]
    BY <2>1
  <2>5. QED
    BY <1>6, <2>3, <2>4 DEF ListInv, ListsItsRuns
<1>7. ASSUME UNCHANGED <<jobs, active>>
      PROVE  ListInv'
  BY <1>7 DEF ListInv, ListsItsRuns
<1>8. ASSUME NextUrl
      PROVE  ListInv'
  <2>1. \E job : jobs' = [jobs EXCEPT ![Batch] = job]
    BY <1>8 DEF NextUrl
  <2>2. UNCHANGED active
    BY <1>8 DEF NextUrl
  <2>3. QED
    BY <2>1, <2>2, <1>6
<1>9. CASE \E n \in Requests : FinishHit(n) \/ Finish(n)
  BY <1>9, <1>4 DEF FinishHit, Finish
<1>10. CASE BatchHit \/ BatchRecord
  BY <1>10, <1>6 DEF BatchHit, BatchRecord
<1>11. CASE \/ \E saved \in Settings : ApplySettings(saved)
            \/ \E command \in Commands : StartBatch(command)
            \/ PrintTable \/ BuildFeed \/ Acknowledge \/ Discard \/ Tick
            \/ UNCHANGED vars
  BY <1>11, <1>7 DEF ApplySettings, StartBatch, PrintTable, BuildFeed, Acknowledge, Discard,
                     Tick, vars
<1>12. QED
  BY <1>1, <1>2, <1>3, <1>5, <1>8, <1>9, <1>10, <1>11 DEF Next

\* Whatever the order of answers, restarts and changes of the settings, the console lists
\* exactly the runs it started whose task has not ended.
THEOREM ConsoleListsRuns == Spec => []ListsItsRuns
<1>1. ListInv => ListsItsRuns
  BY DEF ListInv
<1>2. QED
  BY <1>1, ListInit, ListNext, WorkspaceAssumption, PTL DEF Spec

-----------------------------------------------------------------------------
(* How the ledger grows *)

LedgerIsSeq == ledger \in Seq(Range(ledger))

LEMMA SeqOfItsRange ==
    ASSUME NEW S, NEW s \in Seq(S)
    PROVE  s \in Seq(Range(s))
<1>1. Len(s) \in Nat /\ s \in [1..Len(s) -> S] /\ DOMAIN s = 1..Len(s)
  BY LenProperties
<1>2. \A i \in 1..Len(s) : s[i] \in Range(s)
  BY <1>1 DEF Range
<1>3. s \in [1..Len(s) -> Range(s)]
  BY <1>1, <1>2
<1>4. QED
  BY <1>1, <1>3, SeqDef

\* The rows of n calls of a job are added at the end.
Appended(job, n, calls) ==
    /\ n \in Nat /\ DOMAIN calls = 1..n
    /\ ~Clashes(job.run, calls)
    /\ Len(ledger') = Len(ledger) + n
    /\ DOMAIN ledger' = 1..(Len(ledger) + n)
    /\ \A i \in 1..Len(ledger) : ledger'[i] = ledger[i]
    /\ \A i \in 1..n : ledger'[Len(ledger) + i] = Rows(job, calls)[i]
    /\ LedgerIsSeq'

\* A ladder's calls are numbered from 1, and their outcomes are of the three kinds.
LEMMA LaddersNumbered ==
    ASSUME WorkspaceAssumption, OrderAssumption, NEW order, NEW calls \in Ladders(order)
    PROVE  \E n \in Nat : /\ DOMAIN calls = 1..n
                          /\ \A i \in 1..n : calls[i].outcome \in {"ok", "failed", "not_domain"}
<1>1. Cardinality(Names) \in Nat
  BY FS_CardinalityType DEF OrderAssumption
<1>2. PICK n \in 0..Cardinality(Names) : calls \in Calls(n, order)
  BY DEF Ladders
<1>3. PICK at \in Ascending(n, order), outcome \in Outcomes(n) :
          calls = [i \in 1..n |-> [provider |-> order[at[i]], outcome |-> outcome[i]]]
  BY <1>2 DEF Calls
<1>4. outcome \in [1..n -> {"ok", "failed", "not_domain"}]
  BY DEF Outcomes
<1>5. n \in Nat
  BY <1>1
<1>6. QED
  BY <1>3, <1>4, <1>5

LEMMA InsertAppends ==
    ASSUME WorkspaceAssumption, OrderAssumption, LedgerIsSeq, NEW job, NEW order,
           NEW calls \in Ladders(order), Insert(job, calls)
    PROVE  ledger' = ledger \/ \E n : Appended(job, n, calls)
<1>1. CASE Clashes(job.run, calls)
  BY <1>1 DEF Insert
<1>2. CASE ~Clashes(job.run, calls)
  <2>1. PICK n \in Nat : DOMAIN calls = 1..n
    BY LaddersNumbered
  <2> DEFINE rows == Rows(job, calls)
             all == Range(ledger) \cup Range(rows)
  <2>2. DOMAIN rows = 1..n /\ rows = [i \in 1..n |-> rows[i]]
    BY <2>1 DEF Rows
  <2>3. ledger' = ledger \o rows
    BY <1>2 DEF Insert
  <2> HIDE DEF rows
  <2>4. rows \in Seq(all) /\ Len(rows) = n
    <3>1. \A i \in 1..n : rows[i] \in all
      BY <2>2 DEF Range
    <3>2. rows \in [1..n -> all]
      BY <2>2, <3>1
    <3>3. rows \in Seq(all)
      BY <3>2, SeqDef
    <3>4. QED
      BY <2>2, <3>3, LenProperties
  <2>5. ledger \in Seq(all) /\ Len(ledger) \in Nat
    BY SeqMonotonic, LenProperties DEF LedgerIsSeq
  <2> HIDE DEF all
  <2>6. /\ Len(ledger') = Len(ledger) + n
        /\ ledger' \in Seq(all)
        /\ \A i \in 1..(Len(ledger) + n) :
              ledger'[i] = IF i <= Len(ledger) THEN ledger[i] ELSE rows[i - Len(ledger)]
    <3>1. /\ Len(ledger \o rows) = Len(ledger) + Len(rows)
          /\ ledger \o rows \in Seq(all)
          /\ \A i \in 1..(Len(ledger) + Len(rows)) :
                (ledger \o rows)[i] = IF i <= Len(ledger) THEN ledger[i] ELSE rows[i - Len(ledger)]
      BY <2>4, <2>5, ConcatProperties
    <3>2. QED
      BY <2>3, <2>4, <3>1
  <2>7. DOMAIN ledger' = 1..(Len(ledger) + n)
    BY <2>6, LenProperties
  <2>8. \A i \in 1..Len(ledger) : ledger'[i] = ledger[i]
    BY <2>5, <2>6
  <2>9. \A i \in 1..n : ledger'[Len(ledger) + i] = rows[i]
    <3>1. \A i \in 1..n : /\ Len(ledger) + i \in 1..(Len(ledger) + n)
                          /\ ~(Len(ledger) + i <= Len(ledger))
                          /\ (Len(ledger) + i) - Len(ledger) = i
      BY <2>1, <2>5
    <3>2. QED
      BY <2>6, <3>1
  <2>10. LedgerIsSeq'
    BY <2>6, SeqOfItsRange DEF LedgerIsSeq
  <2>11. QED
    BY <1>2, <2>1, <2>6, <2>7, <2>8, <2>9, <2>10 DEF Appended, rows
<1>3. QED
  BY <1>1, <1>2

\* Every step leaves the ledger alone or adds the rows of the job it ends.
LEMMA LedgerStep ==
    ASSUME WorkspaceAssumption, OrderAssumption, LedgerIsSeq, [Next]_vars
    PROVE  \/ UNCHANGED ledger
           \/ /\ UNCHANGED <<now, feed>>
              /\ \E j \in Jobs : \E n, calls :
                    /\ jobs[j].pc = "calling" /\ calls \in Ladders(jobs[j].route.order)
                    /\ Appended(jobs[j], n, calls)
<1>1. ASSUME NEW n \in Requests, Finish(n)
      PROVE  \/ UNCHANGED ledger
             \/ /\ UNCHANGED <<now, feed>>
                /\ \E j \in Jobs : \E k, calls :
                      /\ jobs[j].pc = "calling" /\ calls \in Ladders(jobs[j].route.order)
                      /\ Appended(jobs[j], k, calls)
  <2>1. PICK calls \in Ladders(jobs[n].route.order) : Insert(jobs[n], calls)
    BY <1>1 DEF Finish
  <2>2. jobs[n].pc = "calling" /\ UNCHANGED <<now, feed>>
    BY <1>1 DEF Finish
  <2>3. n \in Jobs
    BY DEF Jobs
  <2>4. QED
    BY <2>1, <2>2, <2>3, InsertAppends
<1>2. ASSUME BatchRecord
      PROVE  \/ UNCHANGED ledger
             \/ /\ UNCHANGED <<now, feed>>
                /\ \E j \in Jobs : \E k, calls :
                      /\ jobs[j].pc = "calling" /\ calls \in Ladders(jobs[j].route.order)
                      /\ Appended(jobs[j], k, calls)
  <2>1. PICK calls \in Ladders(jobs[Batch].route.order) : Insert(jobs[Batch], calls)
    BY <1>2 DEF BatchRecord
  <2>2. jobs[Batch].pc = "calling" /\ UNCHANGED <<now, feed>>
    BY <1>2 DEF BatchRecord
  <2>3. Batch \in Jobs
    BY DEF Jobs
  <2>4. QED
    BY <2>1, <2>2, <2>3, InsertAppends
<1>3. CASE ~(\E n \in Requests : Finish(n)) /\ ~BatchRecord
  BY <1>3 DEF Next, Accept, Serve, Execute, FinishHit, ApplySettings, Restart, StartBatch,
              NextUrl, BatchHit, PrintTable, BuildFeed, Acknowledge, Discard, Tick, vars
<1>4. QED
  BY <1>1, <1>2, <1>3

LEMMA LedgerInit == WorkspaceAssumption /\ Init => LedgerIsSeq
<1> SUFFICES ASSUME WorkspaceAssumption, Init PROVE LedgerIsSeq
  OBVIOUS
<1>1. ledger \in Seq(Row)
  BY DEF WorkspaceAssumption, Init
<1>2. QED
  BY <1>1, SeqOfItsRange DEF LedgerIsSeq

LEMMA LedgerNext ==
    WorkspaceAssumption /\ OrderAssumption /\ LedgerIsSeq /\ [Next]_vars => LedgerIsSeq'
BY LedgerStep DEF Appended, LedgerIsSeq

-----------------------------------------------------------------------------
(* What a run id groups *)

\* The rows of an earlier run keep to themselves, those that are added are numbered from 1,
\* and an added run that were not new would clash with the row numbered 1.
LEMMA BlocksAppend ==
    ASSUME LedgerIsSeq, WholeRuns(ledger), NEW job, NEW n, NEW calls, Appended(job, n, calls)
    PROVE  WholeRuns(ledger')
<1> DEFINE old == Len(ledger)
<1>1. old \in Nat /\ n \in Nat /\ DOMAIN ledger = 1..old /\ DOMAIN ledger' = 1..(old + n)
  BY DEF LedgerIsSeq, Appended
<1>2. \A i \in 1..old : ledger'[i] = ledger[i]
  BY DEF Appended
<1>3. \A i \in 1..n : /\ ledger'[old + i].run = job.run /\ ledger'[old + i].index = i
                      /\ ledger'[old + i].url = job.url /\ ledger'[old + i].stamp = now
  <2>1. \A i \in 1..n : Rows(job, calls)[i].run = job.run /\ Rows(job, calls)[i].index = i
    BY DEF Appended, Rows
  <2>2. \A i \in 1..n : Rows(job, calls)[i].url = job.url /\ Rows(job, calls)[i].stamp = now
    BY DEF Appended, Rows
  <2>3. \A i \in 1..n : ledger'[old + i] = Rows(job, calls)[i]
    BY DEF Appended
  <2>4. QED
    BY <2>1, <2>2, <2>3
<1>0. \A i \in DOMAIN ledger :
        \E k \in DOMAIN ledger : ledger[k].run = ledger[i].run /\ ledger[k].index = 1
  BY DEF WholeRuns
<1>4. \A i \in 1..old : n > 0 => ledger[i].run # job.run
  <2> SUFFICES ASSUME NEW i \in 1..old, n > 0, ledger[i].run = job.run PROVE FALSE
    OBVIOUS
  <2>1. PICK k \in DOMAIN ledger : ledger[k].run = job.run /\ ledger[k].index = 1
    <3>1. i \in DOMAIN ledger
      BY <1>1
    <3>2. QED
      BY <1>0, <3>1
  <2>2. 1 \in DOMAIN calls
    BY <1>1 DEF Appended
  <2>3. QED
    BY <1>1, <2>1, <2>2 DEF Appended, Clashes
<1>5. \A i \in 1..(old + n) : i \in 1..old \/ (i - old \in 1..n /\ i = old + (i - old))
  BY <1>1
<1>6. ASSUME NEW i \in 1..(old + n)
      PROVE  \E k \in 1..(old + n) : ledger'[k].run = ledger'[i].run /\ ledger'[k].index = 1
  <2>1. CASE i \in 1..old
    <3>1. PICK k \in DOMAIN ledger : ledger[k].run = ledger[i].run /\ ledger[k].index = 1
      BY <1>0, <1>1, <2>1
    <3>2. k \in 1..old /\ k \in 1..(old + n)
      BY <1>1
    <3>3. QED
      BY <1>2, <2>1, <3>1, <3>2
  <2>2. CASE i - old \in 1..n
    <3>1. 1 \in 1..n /\ old + 1 \in 1..(old + n) /\ i = old + (i - old)
      BY <1>1, <2>2
    <3>2. ledger'[i].run = job.run /\ ledger'[old + 1].run = job.run /\ ledger'[old + 1].index = 1
      BY <1>3, <2>2, <3>1
    <3>3. QED
      BY <3>1, <3>2
  <2>3. QED
    BY <1>5, <2>1, <2>2
<1>7. ASSUME NEW i \in 1..(old + n), NEW j \in 1..(old + n), i < j,
             ledger'[i].run = ledger'[j].run
      PROVE  /\ ledger'[j].index = ledger'[i].index + (j - i)
             /\ ledger'[j].url = ledger'[i].url /\ ledger'[j].stamp = ledger'[i].stamp
  <2>1. CASE j \in 1..old
    <3>1. i \in 1..old
      BY <1>1, <1>7, <2>1
    <3>2. QED
      <4>1. ledger'[i] = ledger[i] /\ ledger'[j] = ledger[j]
        BY <1>2, <2>1, <3>1
      <4>2. i \in DOMAIN ledger /\ j \in DOMAIN ledger
        BY <1>1, <2>1, <3>1
      <4>3. \A x, y \in DOMAIN ledger :
              (x < y /\ ledger[x].run = ledger[y].run) =>
                  /\ ledger[y].index = ledger[x].index + (y - x)
                  /\ ledger[y].url = ledger[x].url /\ ledger[y].stamp = ledger[x].stamp
        BY DEF WholeRuns
      <4>4. QED
        BY <1>7, <4>1, <4>2, <4>3
  <2>2. CASE i \in 1..old /\ j - old \in 1..n
    <3>1. ledger'[j].run = job.run /\ n > 0
      <4>1. j = old + (j - old) /\ n > 0
        BY <1>1, <2>2
      <4>2. QED
        BY <1>3, <2>2, <4>1
    <3>2. ledger[i].run = job.run
      BY <1>2, <1>7, <2>2, <3>1
    <3>3. QED
      BY <1>4, <2>2, <3>1, <3>2
  <2>3. CASE i - old \in 1..n /\ j - old \in 1..n
    <3>1. i = old + (i - old) /\ j = old + (j - old) /\ j - old = (i - old) + (j - i)
      BY <1>1
    <3>2. /\ ledger'[i].index = i - old /\ ledger'[j].index = j - old
          /\ ledger'[i].url = job.url /\ ledger'[j].url = job.url
          /\ ledger'[i].stamp = now /\ ledger'[j].stamp = now
      BY <1>3, <2>3, <3>1
    <3>3. QED
      BY <3>1, <3>2
  <2>4. QED
    <3>1. i \in 1..old \/ j - old \in 1..n \/ j \in 1..old
      BY <1>5
    <3>2. j - old \in 1..n => (i \in 1..old \/ i - old \in 1..n)
      BY <1>5
    <3>3. QED
      BY <1>5, <2>1, <2>2, <2>3, <3>2
<1>8. QED
  <2>1. \A i \in DOMAIN ledger' :
          \E k \in DOMAIN ledger' : ledger'[k].run = ledger'[i].run /\ ledger'[k].index = 1
    BY <1>1, <1>6
  <2>2. \A i, j \in DOMAIN ledger' :
          (i < j /\ ledger'[i].run = ledger'[j].run) =>
              /\ ledger'[j].index = ledger'[i].index + (j - i)
              /\ ledger'[j].url = ledger'[i].url /\ ledger'[j].stamp = ledger'[i].stamp
    BY <1>1, <1>7
  <2>3. QED
    BY <2>1, <2>2 DEF WholeRuns

LEMMA BlocksNext ==
    WorkspaceAssumption /\ OrderAssumption /\ LedgerIsSeq /\ RunIsOneBlock /\ [Next]_vars
    => RunIsOneBlock'
<1> SUFFICES ASSUME WorkspaceAssumption, OrderAssumption, LedgerIsSeq, RunIsOneBlock, [Next]_vars
             PROVE  RunIsOneBlock'
  OBVIOUS
<1>1. CASE UNCHANGED ledger
  BY <1>1 DEF RunIsOneBlock
<1>2. CASE \E j \in Jobs : \E n, calls : Appended(jobs[j], n, calls)
  BY <1>2, BlocksAppend DEF RunIsOneBlock
<1>3. QED
  BY <1>1, <1>2, LedgerStep

\* Reports and feed may group rows by run id: for any batches and any histories that keep to
\* it, the rows of one id are one block of one target and one time, numbered from 1.
THEOREM RunsAreBlocks == Spec => []RunIsOneBlock
<1>1. Init => LedgerIsSeq /\ RunIsOneBlock
  BY LedgerInit, WorkspaceAssumption DEF Init, RunIsOneBlock, WorkspaceAssumption
<1>2. LedgerIsSeq /\ RunIsOneBlock /\ [Next]_vars => (LedgerIsSeq /\ RunIsOneBlock)'
  BY LedgerNext, BlocksNext, WorkspaceAssumption, OrderAssumption
<1>3. QED
  BY <1>1, <1>2, PTL DEF Spec

-----------------------------------------------------------------------------
(* What the feed delivers *)

FeedInv ==
    /\ feed = [pc |-> feed.pc, runs |-> feed.runs, mark |-> feed.mark,
               cursor |-> feed.cursor, delivered |-> feed.delivered]
    /\ feed.pc \in {"idle", "built"}
    /\ feed.cursor \in 0..Len(ledger)
    /\ FeedDelivers
    /\ feed.pc = "built" =>
         /\ feed.mark \in feed.cursor..Len(ledger)
         /\ UNION feed.runs =
              {i \in (feed.cursor + 1)..feed.mark : ledger[i].url \in Public}

\* The rows below i of a page that begins after c.
LEMMA RowsBelow ==
    ASSUME NEW c \in Nat, NEW i \in Nat, c < i
    PROVE  Cardinality((c + 1)..(i - 1)) = i - 1 - c
<1>1. c + 1 \in Int /\ i - 1 \in Int
  OBVIOUS
<1>2. Cardinality((c + 1)..(i - 1)) =
        IF c + 1 > i - 1 THEN 0 ELSE (i - 1) - (c + 1) + 1
  BY <1>1, FS_Interval
<1>3. QED
  BY <1>2

LEMMA GreatestOfInterval ==
    ASSUME NEW a \in Nat, NEW b \in Nat, a <= b
    PROVE  Max(a..b) = b
<1>1. b \in a..b /\ \A y \in a..b : b >= y
  OBVIOUS
<1>2. \A x \in a..b : (\A y \in a..b : x >= y) => x = b
  BY <1>1
<1>3. QED
  BY <1>1, <1>2 DEF Max

\* A page is the rows from the cursor to its mark.
LEMMA PageIsInterval ==
    ASSUME WorkspaceAssumption, LedgerIsSeq, feed.cursor \in 0..Len(ledger)
    PROVE  /\ Mark(Selected) \in feed.cursor..Len(ledger)
           /\ Page(Selected) = (feed.cursor + 1)..Mark(Selected)
<1> DEFINE c == feed.cursor
           last == Len(ledger)
           top == IF last <= c + Limit THEN last ELSE c + Limit
<1>1. c \in Nat /\ last \in Nat /\ c <= last /\ Limit \in Nat /\ Limit > 0 /\ DOMAIN ledger = 1..last
  BY LenProperties DEF LedgerIsSeq, WorkspaceAssumption
<1>2. Selected = (c + 1)..last
  BY <1>1 DEF Selected
<1> HIDE DEF c, last
<1>3. \A i \in (c + 1)..last : Cardinality({k \in (c + 1)..last : k < i}) = i - 1 - c
  <2> SUFFICES ASSUME NEW i \in (c + 1)..last
               PROVE  Cardinality({k \in (c + 1)..last : k < i}) = i - 1 - c
    OBVIOUS
  <2>1. {k \in (c + 1)..last : k < i} = (c + 1)..(i - 1)
    BY <1>1
  <2>2. i \in Nat /\ c < i
    BY <1>1
  <2>3. QED
    BY <1>1, <2>1, <2>2, RowsBelow
<1>4. Page(Selected) = {i \in (c + 1)..last : i - 1 - c < Limit}
  BY <1>2, <1>3 DEF Page
<1>5. top \in c..last /\ (c < last => c < top) /\ top \in Nat
  BY <1>1
<1>6. Page(Selected) = (c + 1)..top
  BY <1>1, <1>4
<1> HIDE DEF top
<1>7. CASE c = top
  <2>1. Page(Selected) = {}
    BY <1>1, <1>6, <1>7
  <2>2. Mark(Selected) = c
    BY <2>1 DEF Mark, c
  <2>3. QED
    BY <1>5, <1>6, <1>7, <2>2 DEF c, last
<1>8. CASE c < top
  <2>1. Page(Selected) # {} /\ c + 1 \in Nat /\ c + 1 <= top
    <3>1. c + 1 \in Nat /\ c + 1 <= top /\ c + 1 \in (c + 1)..top
      BY <1>1, <1>5, <1>8
    <3>2. QED
      BY <1>6, <3>1
  <2>2. Mark(Selected) = top
    BY <1>5, <1>6, <2>1, GreatestOfInterval DEF Mark
  <2>3. QED
    BY <1>5, <1>6, <2>2 DEF c, last
<1>9. QED
  BY <1>1, <1>5, <1>7, <1>8

\* Grouping by run loses no row and invents none.
LEMMA GroupingIsTotal == \A ids : UNION Grouped(ids) = ids
BY DEF Grouped

LEMMA FeedInit == WorkspaceAssumption /\ Init => FeedInv
<1> SUFFICES ASSUME WorkspaceAssumption, Init PROVE FeedInv
  OBVIOUS
<1>1. feed = [pc |-> "idle", runs |-> {}, mark |-> 0, cursor |-> Len(ledger),
              delivered |-> {i \in DOMAIN ledger : ledger[i].url \in Public}]
  BY DEF Init
<1>2. Len(ledger) \in Nat /\ DOMAIN ledger = 1..Len(ledger)
  BY LedgerInit, LenProperties DEF LedgerIsSeq
<1>3. QED
  BY <1>1, <1>2 DEF FeedInv, FeedDelivers

\* The rows that a feed speaks of do not change when the ledger grows.
LEMMA FeedUndisturbed ==
    ASSUME LedgerIsSeq, FeedInv, feed' = feed, Len(ledger') \in Nat, Len(ledger) <= Len(ledger'),
           \A i \in 1..Len(ledger) : ledger'[i] = ledger[i]
    PROVE  FeedInv'
<1>1. Len(ledger) \in Nat
  BY LenProperties DEF LedgerIsSeq
<1>2. feed.cursor \in 0..Len(ledger')
  BY <1>1 DEF FeedInv
<1>3. feed.delivered = {i \in 1..feed.cursor : ledger'[i].url \in Public}
  <2>1. \A i \in 1..feed.cursor : ledger'[i] = ledger[i]
    BY <1>1 DEF FeedInv
  <2>2. QED
    BY <2>1 DEF FeedInv, FeedDelivers
<1>4. ASSUME feed.pc = "built"
      PROVE  /\ feed.mark \in feed.cursor..Len(ledger')
             /\ UNION feed.runs =
                  {i \in (feed.cursor + 1)..feed.mark : ledger'[i].url \in Public}
  <2>1. \A i \in (feed.cursor + 1)..feed.mark : ledger'[i] = ledger[i]
    BY <1>1, <1>4 DEF FeedInv
  <2>2. feed.mark \in feed.cursor..Len(ledger')
    BY <1>1, <1>4 DEF FeedInv
  <2>3. QED
    BY <1>4, <2>1, <2>2 DEF FeedInv
<1>5. QED
  BY <1>2, <1>3, <1>4 DEF FeedInv, FeedDelivers

LEMMA FeedNext ==
    WorkspaceAssumption /\ OrderAssumption /\ LedgerIsSeq /\ FeedInv /\ [Next]_vars => FeedInv'
<1> SUFFICES ASSUME WorkspaceAssumption, OrderAssumption, LedgerIsSeq, FeedInv, [Next]_vars
             PROVE  FeedInv'
  OBVIOUS
<1>0. Len(ledger) \in Nat /\ DOMAIN ledger = 1..Len(ledger)
  BY LenProperties DEF LedgerIsSeq
<1>1. CASE BuildFeed
  <2>1. feed' = [feed EXCEPT !.pc = "built", !.mark = Mark(Selected),
                             !.runs = Grouped(Exportable(Page(Selected)))]
        /\ ledger' = ledger
    BY <1>1 DEF BuildFeed
  <2>2. /\ feed'.pc = "built" /\ feed'.mark = Mark(Selected)
        /\ feed'.runs = Grouped(Exportable(Page(Selected)))
        /\ feed'.cursor = feed.cursor /\ feed'.delivered = feed.delivered
        /\ feed' = [pc |-> feed'.pc, runs |-> feed'.runs, mark |-> feed'.mark,
                    cursor |-> feed'.cursor, delivered |-> feed'.delivered]
    BY <2>1 DEF FeedInv
  <2>3. /\ Mark(Selected) \in feed.cursor..Len(ledger)
        /\ Page(Selected) = (feed.cursor + 1)..Mark(Selected)
    BY PageIsInterval DEF FeedInv
  <2>4. UNION feed'.runs = Exportable(Page(Selected))
    BY <2>2, GroupingIsTotal
  <2>5. Exportable(Page(Selected)) =
          {i \in (feed.cursor + 1)..Mark(Selected) : ledger[i].url \in Public}
    BY <2>3 DEF Exportable
  <2>6. QED
    BY <2>1, <2>2, <2>3, <2>4, <2>5 DEF FeedInv, FeedDelivers
<1>2. CASE Acknowledge
  <2>1. /\ feed.pc = "built" /\ ledger' = ledger
        /\ feed' = [pc |-> "idle", runs |-> {}, mark |-> 0,
                    cursor |-> feed.mark, delivered |-> feed.delivered \cup UNION feed.runs]
    BY <1>2 DEF Acknowledge
  <2>2. /\ feed'.pc = "idle" /\ feed'.cursor = feed.mark
        /\ feed'.delivered = feed.delivered \cup UNION feed.runs
        /\ feed' = [pc |-> feed'.pc, runs |-> feed'.runs, mark |-> feed'.mark,
                    cursor |-> feed'.cursor, delivered |-> feed'.delivered]
    BY <2>1
  <2>3. 1..feed.mark = (1..feed.cursor) \cup ((feed.cursor + 1)..feed.mark)
    BY <1>0, <2>1 DEF FeedInv
  <2>4. feed.delivered \cup UNION feed.runs = {i \in 1..feed.mark : ledger[i].url \in Public}
    BY <2>1, <2>3 DEF FeedInv, FeedDelivers
  <2>5. feed.mark \in 0..Len(ledger)
    BY <1>0, <2>1 DEF FeedInv
  <2>6. QED
    BY <2>1, <2>2, <2>4, <2>5 DEF FeedInv, FeedDelivers
<1>3. CASE Discard
  <2>1. ledger' = ledger /\ feed' = [feed EXCEPT !.pc = "idle", !.runs = {}, !.mark = 0]
    BY <1>3 DEF Discard
  <2>2. /\ feed'.pc = "idle" /\ feed'.cursor = feed.cursor /\ feed'.delivered = feed.delivered
        /\ feed' = [pc |-> feed'.pc, runs |-> feed'.runs, mark |-> feed'.mark,
                    cursor |-> feed'.cursor, delivered |-> feed'.delivered]
    BY <2>1 DEF FeedInv
  <2>3. QED
    BY <2>1, <2>2 DEF FeedInv, FeedDelivers
<1>4. CASE UNCHANGED feed
  <2>1. CASE UNCHANGED ledger
    BY <1>0, <1>4, <2>1, FeedUndisturbed
  <2>2. CASE \E job, n, calls : Appended(job, n, calls)
    <3>1. PICK job, n, calls : Appended(job, n, calls)
      BY <2>2
    <3>2. n \in Nat /\ Len(ledger') = Len(ledger) + n
      BY <3>1 DEF Appended
    <3>3. \A i \in 1..Len(ledger) : ledger'[i] = ledger[i]
      BY <3>1 DEF Appended
    <3>4. Len(ledger') \in Nat /\ Len(ledger) <= Len(ledger')
      BY <1>0, <3>2
    <3>5. QED
      BY <1>4, <3>3, <3>4, FeedUndisturbed
  <2>3. QED
    BY <2>1, <2>2, LedgerStep
<1>5. CASE ~BuildFeed /\ ~Acknowledge /\ ~Discard
  <2>1. UNCHANGED feed
    BY <1>5 DEF Next, Accept, Serve, Execute, FinishHit, Finish, ApplySettings, Restart,
                StartBatch, NextUrl, BatchHit, BatchRecord, PrintTable, Tick, vars
  <2>2. QED
    BY <1>4, <2>1
<1>6. QED
  BY <1>1, <1>2, <1>3, <1>5

\* For any page limit, and whatever is discarded or written meanwhile, the receiver has every
\* exportable row up to its cursor and no other.
THEOREM FeedIsExact == Spec => []FeedDelivers
<1>1. Init => LedgerIsSeq /\ FeedInv
  BY LedgerInit, FeedInit, WorkspaceAssumption
<1>2. LedgerIsSeq /\ FeedInv /\ [Next]_vars => (LedgerIsSeq /\ FeedInv)'
  BY LedgerNext, FeedNext, WorkspaceAssumption, OrderAssumption
<1>3. FeedInv => FeedDelivers
  BY DEF FeedInv
<1>4. QED
  BY <1>1, <1>2, <1>3, PTL DEF Spec

-----------------------------------------------------------------------------
(* The routes that jobs run on *)

\* A created job has a target, one that is away has a complete route.
JobTyped(job) ==
    /\ job.pc = "created" => job.url \in Urls
    /\ job.pc = "calling" =>
         /\ job.gateway \subseteq Names
         /\ Complete(job.route, job.gateway)
         /\ Obeys(job.route, job.gateway, job.pick)

\* The batch has a next URL whenever it scrapes, and uses providers that exist.
BatchTyped ==
    /\ batch = [pc |-> batch.pc, list |-> batch.list, done |-> batch.done,
                strategy |-> batch.strategy, gateway |-> batch.gateway,
                metadata |-> batch.metadata]
    /\ batch.pc \in {"idle", "next", "scraping", "finished", "raised"}
    /\ batch.gateway \subseteq Names
    /\ batch.list \in Seq(Urls) /\ batch.done \in 0..Len(batch.list)
    /\ batch.pc = "scraping" => batch.done < Len(batch.list)
    /\ batch.metadata.recipe \in Seq(Names)

\* What a route reads of a row.
RowTyped(row) ==
    /\ row.provider \in Names /\ row.outcome \in {"ok", "failed", "not_domain"}
    /\ row.cost \in Nat

RowsTyped == \A i \in DOMAIN ledger : RowTyped(ledger[i])

PlanInv ==
    /\ jobs = [j \in Jobs |-> jobs[j]]
    /\ \A j \in Jobs : JobTyped(jobs[j])
    /\ BatchTyped
    /\ RowsTyped

\* A new process uses providers that exist.
LEMMA GatewayTyped == WorkspaceAssumption => Gateway \subseteq Names
BY DEF WorkspaceAssumption, Gateway, Built

\* A job that scrape() has just opened: a hit, or away on a route planned on the ledger.
Planned(job) ==
    \E old, pick, strategy, run : \E url \in Urls :
        \E configured \in SUBSET Names : \E recipe \in Seq(Names) :
            job \in Opened(old, url, configured, pick, recipe, strategy, run)

\* Whatever the ledger holds, it is planned on a complete route.
LEMMA PlannedTyped ==
    ASSUME WorkspaceAssumption, OrderAssumption, LedgerIsSeq, RowsTyped,
           NEW job, Planned(job)
    PROVE  JobTyped(job)
<1>1. PICK old, pick, strategy, run : \E url \in Urls :
        \E configured \in SUBSET Names : \E recipe \in Seq(Names) :
            job \in Opened(old, url, configured, pick, recipe, strategy, run)
  BY DEF Planned
<1>2. PICK url \in Urls, configured \in SUBSET Names, recipe \in Seq(Names) :
            job \in Opened(old, url, configured, pick, recipe, strategy, run)
  BY <1>1
<1> DEFINE route == Ordered(ledger, Domain[url], now, configured, pick, recipe, strategy)
<1>3. job.pc = "hit" \/ (/\ job.pc = "calling" /\ job.gateway = configured
                         /\ job.route = route /\ job.pick = pick)
  BY <1>2 DEF Opened, Idle
<1>4. ledger \in Seq(Range(ledger)) /\ \A i \in DOMAIN ledger : ledger[i].cost \in Nat
  BY DEF LedgerIsSeq, RowsTyped, RowTyped
<1>5. Complete(route, configured) /\ Obeys(route, configured, pick)
  BY <1>4, RouteComplete
<1> HIDE DEF route
<1>6. QED
  BY <1>3, <1>5 DEF JobTyped

LEMMA PlanInit == WorkspaceAssumption /\ Init => PlanInv
<1> SUFFICES ASSUME WorkspaceAssumption, Init PROVE PlanInv
  OBVIOUS
<1>1. BatchTyped
  <2> DEFINE empty == <<>>
             clean == NoMetadata
  <2>1. batch = [pc |-> "idle", list |-> empty, done |-> 0, strategy |-> "none",
                 gateway |-> {}, metadata |-> clean]
    BY DEF Init, NoBatch
  <2>2. /\ empty \in Seq(Urls) /\ Len(empty) = 0 /\ 0 \in 0..Len(empty)
        /\ clean.recipe \in Seq(Names)
    BY EmptySeq DEF NoMetadata
  <2> HIDE DEF empty, clean
  <2>3. QED
    BY <2>1, <2>2 DEF BatchTyped
<1>2. jobs = [j \in Jobs |-> jobs[j]] /\ \A j \in Jobs : JobTyped(jobs[j])
  BY DEF Init, Idle, JobTyped
<1>3. ledger \in Seq(Row)
  BY DEF WorkspaceAssumption, Init
<1>4. \A i \in DOMAIN ledger : ledger[i] \in Row
  BY <1>3, LenProperties, ElementOfSeq
<1>5. RowsTyped
  BY <1>4 DEF RowsTyped, RowTyped, Row
<1>6. QED
  BY <1>1, <1>2, <1>5 DEF PlanInv

\* The batch's next URL, and the recipe it is scraped with.
LEMMA NextUrlTyped ==
    ASSUME WorkspaceAssumption, BatchTyped, batch.done < Len(batch.list)
    PROVE  /\ batch.list[batch.done + 1] \in Urls
           /\ BatchRecipe(batch.list[batch.done + 1]) \in Seq(Names)
<1>1. batch.list \in Seq(Urls) /\ Len(batch.list) \in Nat /\ batch.done \in 0..Len(batch.list)
  BY LenProperties DEF BatchTyped
<1>2. batch.done + 1 \in 1..Len(batch.list)
  BY <1>1
<1>3. batch.list[batch.done + 1] \in Urls
  BY <1>1, <1>2, ElementOfSeq
<1>4. QED
  BY <1>3 DEF BatchRecipe, WorkspaceAssumption, BatchTyped

LEMMA BatchNext == WorkspaceAssumption /\ BatchTyped /\ [Next]_vars => BatchTyped'
<1> SUFFICES ASSUME WorkspaceAssumption, BatchTyped, [Next]_vars PROVE BatchTyped'
  OBVIOUS
<1>0. Len(batch.list) \in Nat /\ batch.done \in 0..Len(batch.list)
  BY LenProperties DEF BatchTyped
<1>1. CASE UNCHANGED batch
  BY <1>1 DEF BatchTyped
<1>2. ASSUME NEW command \in Commands, StartBatch(command)
      PROVE  BatchTyped'
  <2>1. command.list \in Seq(Urls) /\ Len(command.list) \in Nat
    BY LenProperties DEF WorkspaceAssumption
  <2>2. batch' = [pc |-> "next", list |-> command.list, done |-> 0,
                  strategy |-> command.strategy, gateway |-> Gateway, metadata |-> NoMetadata]
    BY <1>2 DEF StartBatch
  <2>3. NoMetadata.recipe \in Seq(Names)
    BY DEF NoMetadata
  <2>4. QED
    BY <2>1, <2>2, <2>3, GatewayTyped DEF BatchTyped
<1>3. ASSUME NextUrl
      PROVE  BatchTyped'
  <2> DEFINE url == batch.list[batch.done + 1]
             metadata == [run |-> BatchRun, recipe |-> BatchRecipe(url)]
  <2>1. batch' = [batch EXCEPT !.pc = "scraping", !.metadata = metadata]
    BY <1>3 DEF NextUrl
  <2>2. batch.done < Len(batch.list)
    BY <1>3 DEF NextUrl
  <2>3. metadata.recipe \in Seq(Names)
    BY <2>2, NextUrlTyped
  <2> HIDE DEF metadata
  <2>4. batch' = [pc |-> "scraping", list |-> batch.list, done |-> batch.done,
                  strategy |-> batch.strategy, gateway |-> batch.gateway, metadata |-> metadata]
    BY <2>1 DEF BatchTyped
  <2>5. QED
    BY <2>2, <2>3, <2>4 DEF BatchTyped
<1>5. ASSUME batch.pc = "scraping", batch' = [batch EXCEPT !.pc = "next", !.done = @ + 1]
      PROVE  BatchTyped'
  <2>1. batch' = [pc |-> "next", list |-> batch.list, done |-> batch.done + 1,
                  strategy |-> batch.strategy, gateway |-> batch.gateway,
                  metadata |-> batch.metadata]
    BY <1>5 DEF BatchTyped
  <2>2. batch.done + 1 \in 0..Len(batch.list)
    BY <1>0, <1>5 DEF BatchTyped
  <2>3. QED
    BY <2>1, <2>2 DEF BatchTyped
<1>6. ASSUME \/ batch' = [NoBatch EXCEPT !.pc = "raised"]
             \/ batch' = [NoBatch EXCEPT !.pc = "finished"]
      PROVE  BatchTyped'
  <2> DEFINE empty == <<>>
             clean == NoMetadata
  <2>1. PICK pc \in {"raised", "finished"} :
          batch' = [pc |-> pc, list |-> empty, done |-> 0, strategy |-> "none",
                    gateway |-> {}, metadata |-> clean]
    BY <1>6 DEF NoBatch
  <2>2. /\ empty \in Seq(Urls) /\ Len(empty) = 0 /\ 0 \in 0..Len(empty)
        /\ clean.recipe \in Seq(Names)
    BY EmptySeq DEF NoMetadata
  <2> HIDE DEF empty, clean
  <2>3. QED
    BY <2>1, <2>2 DEF BatchTyped
<1>7. CASE BatchHit
  BY <1>5, <1>7 DEF BatchHit
<1>8. CASE BatchRecord
  <2>1. \/ batch' = [NoBatch EXCEPT !.pc = "raised"]
        \/ batch' = [batch EXCEPT !.pc = "next", !.done = @ + 1]
    BY <1>8 DEF BatchRecord
  <2>2. batch.pc = "scraping"
    BY <1>8 DEF BatchRecord
  <2>3. QED
    BY <2>1, <2>2, <1>5, <1>6
<1>9. CASE PrintTable
  BY <1>6, <1>9 DEF PrintTable
<1>10. QED
  BY <1>1, <1>2, <1>3, <1>7, <1>8, <1>9 DEF Next, Accept, Serve, Execute, FinishHit, Finish,
     ApplySettings, Restart, BuildFeed, Acknowledge, Discard, Tick, vars

\* A step changes at most one job, to one that is opened or does not call, or ends several.
LEMMA JobStep ==
    ASSUME WorkspaceAssumption, PlanInv, [Next]_vars
    PROVE  /\ jobs' = [j \in Jobs |-> jobs'[j]]
           /\ \A j \in Jobs : \/ jobs'[j] = jobs[j]
                              \/ jobs'[j].pc # "calling" /\ JobTyped(jobs'[j])
                              \/ Planned(jobs'[j]) /\ UNCHANGED <<ledger, now>>
<1> DEFINE Goal == /\ jobs' = [j \in Jobs |-> jobs'[j]]
                   /\ \A j \in Jobs : \/ jobs'[j] = jobs[j]
                                      \/ jobs'[j].pc # "calling" /\ JobTyped(jobs'[j])
                                      \/ Planned(jobs'[j]) /\ UNCHANGED <<ledger, now>>
<1>0. jobs = [j \in Jobs |-> jobs[j]] /\ Gateway \in SUBSET Names
  BY GatewayTyped DEF PlanInv
<1>1. ASSUME NEW n \in Jobs, NEW job, jobs' = [jobs EXCEPT ![n] = job],
             Planned(job), UNCHANGED <<ledger, now>>
      PROVE  Goal
  <2>1. jobs' = [j \in Jobs |-> IF j = n THEN job ELSE jobs[j]]
    BY <1>0, <1>1
  <2>2. QED
    BY <1>1, <2>1
<1>ended. ASSUME NEW n \in Jobs, NEW job, jobs' = [jobs EXCEPT ![n] = job],
                job.pc # "calling", JobTyped(job)
         PROVE  Goal
  <2>1. jobs' = [j \in Jobs |-> IF j = n THEN job ELSE jobs[j]]
    BY <1>0, <1>ended
  <2>2. QED
    BY <1>ended, <2>1
<1>2. \A n \in Requests : n \in Jobs
  BY DEF Jobs
<1>3. Batch \in Jobs
  BY DEF Jobs
<1>4. /\ Ended.pc # "calling" /\ Idle.pc # "calling"
      /\ JobTyped(Ended) /\ JobTyped(Idle)
  BY DEF Ended, Idle, JobTyped
<1>5. ASSUME NEW n \in Requests, NEW url \in ConsoleUrls, NEW pick \in Names \cup {"none"},
             Accept(n, url, pick)
      PROVE  Goal
  <2> DEFINE job == [Idle EXCEPT !.pc = "created", !.listed = TRUE, !.url = url,
                                 !.pick = pick, !.run = n]
  <2>1. job.pc # "calling" /\ JobTyped(job)
    BY DEF Idle, JobTyped, WorkspaceAssumption
  <2>2. jobs' = [jobs EXCEPT ![n] = job]
    BY <1>5 DEF Accept
  <2> HIDE DEF job, Goal
  <2>3. QED
    BY <1>ended, <1>2, <2>1, <2>2
<1>6. ASSUME NEW n \in Requests, NEW url \in ConsoleUrls, Serve(n, url)
      PROVE  Goal
  <2>1. PICK job \in Opened(Idle, url, Gateway, "none", Recipe[url], "none", n) :
          jobs' = [jobs EXCEPT ![n] = job]
    BY <1>6 DEF Serve
  <2>2. Planned(job) /\ UNCHANGED <<ledger, now>>
    <3>1. url \in Urls /\ Recipe[url] \in Seq(Names)
      BY DEF WorkspaceAssumption
    <3>2. QED
      BY <1>0, <1>6, <2>1, <3>1 DEF Serve, Planned
  <2> HIDE DEF Goal
  <2>3. QED
    BY <1>1, <1>2, <2>1, <2>2
<1>7. ASSUME NEW n \in Requests, Execute(n)
      PROVE  Goal
  <2>1. PICK job \in Opened(jobs[n], jobs[n].url, Gateway, jobs[n].pick, Recipe[jobs[n].url],
                            "none", n) :
          jobs' = [jobs EXCEPT ![n] = job]
    BY <1>7 DEF Execute
  <2>2. UNCHANGED <<ledger, now>>
    BY <1>7 DEF Execute
  <2>3. Planned(job)
    <3>1. jobs[n].pc = "created" /\ JobTyped(jobs[n])
      BY <1>2, <1>7 DEF Execute, PlanInv
    <3>2. jobs[n].url \in Urls /\ Recipe[jobs[n].url] \in Seq(Names)
      BY <3>1 DEF JobTyped, WorkspaceAssumption
    <3>3. QED
      BY <1>0, <2>1, <3>2 DEF Planned
  <2> HIDE DEF Goal
  <2>4. QED
    BY <1>1, <1>2, <2>1, <2>2, <2>3
<1>8. ASSUME NEW n \in Requests, FinishHit(n) \/ Finish(n)
      PROVE  Goal
  <2>1. jobs' = [jobs EXCEPT ![n] = Ended]
    BY <1>8 DEF FinishHit, Finish, Release
  <2> HIDE DEF Goal
  <2>2. QED
    BY <1>ended, <1>2, <1>4, <2>1
<1>9. ASSUME Restart
      PROVE  Goal
  <2>1. jobs' = [j \in Jobs |-> IF j # Batch /\ jobs[j] # Idle THEN Ended ELSE jobs[j]]
    BY <1>9 DEF Restart
  <2>2. QED
    BY <1>4, <2>1
<1>10. ASSUME NextUrl
       PROVE  Goal
  <2> DEFINE url == batch.list[batch.done + 1]
  <2>1. PICK job \in Opened(Idle, url, batch.gateway, "none", BatchRecipe(url), batch.strategy,
                            BatchRun) :
          jobs' = [jobs EXCEPT ![Batch] = job]
    BY <1>10 DEF NextUrl
  <2>2. UNCHANGED <<ledger, now>> /\ batch.done < Len(batch.list) /\ BatchTyped
    BY <1>10 DEF NextUrl, PlanInv
  <2>3. url \in Urls /\ BatchRecipe(url) \in Seq(Names) /\ batch.gateway \in SUBSET Names
    BY <2>2, NextUrlTyped DEF BatchTyped
  <2> HIDE DEF url, Goal
  <2>5. Planned(job)
    BY <2>1, <2>3 DEF Planned
  <2>4. QED
    BY <1>1, <1>3, <2>1, <2>2, <2>5
<1>11. ASSUME BatchHit \/ BatchRecord
       PROVE  Goal
  <2>1. jobs' = [jobs EXCEPT ![Batch] = Idle]
    BY <1>11 DEF BatchHit, BatchRecord
  <2> HIDE DEF Goal
  <2>2. QED
    BY <1>ended, <1>3, <1>4, <2>1
<1>12. ASSUME UNCHANGED jobs
       PROVE  Goal
  BY <1>0, <1>12
<1>15. QED
  <2> HIDE DEF Goal
  <2>1. Goal
    BY <1>5, <1>6, <1>7, <1>8, <1>9, <1>10, <1>11, <1>12
       DEF Next, ApplySettings, StartBatch, PrintTable, BuildFeed, Acknowledge, Discard, Tick, vars
  <2>2. QED
    BY <2>1 DEF Goal

\* The calls that a ladder leaves are of providers in its order.
LEMMA LaddersCall ==
    ASSUME WorkspaceAssumption, OrderAssumption, NEW order, NEW calls \in Ladders(order)
    PROVE  \A i \in DOMAIN calls : calls[i].provider \in Range(order)
<1>1. Cardinality(Names) \in Nat
  BY FS_CardinalityType DEF OrderAssumption
<1>2. PICK n \in 0..Cardinality(Names) : calls \in Calls(n, order)
  BY DEF Ladders
<1>3. PICK at \in Ascending(n, order), outcome \in Outcomes(n) :
          calls = [i \in 1..n |-> [provider |-> order[at[i]], outcome |-> outcome[i]]]
  BY <1>2 DEF Calls
<1>4. \A i \in 1..n : at[i] \in DOMAIN order
  BY DEF Ascending
<1>5. QED
  BY <1>3, <1>4 DEF Range

\* The rows of a job are of providers of its gateway.
LEMMA AppendedTyped ==
    ASSUME WorkspaceAssumption, OrderAssumption, LedgerIsSeq, RowsTyped, NEW job,
           JobTyped(job), job.pc = "calling", NEW n, NEW calls \in Ladders(job.route.order),
           Appended(job, n, calls)
    PROVE  RowsTyped'
<1> DEFINE old == Len(ledger)
<1>0. /\ old \in Nat /\ n \in Nat /\ DOMAIN ledger = 1..old /\ DOMAIN ledger' = 1..(old + n)
      /\ DOMAIN calls = 1..n
  BY LenProperties DEF LedgerIsSeq, Appended
<1>1. \A i \in 1..n : calls[i].provider \in Names
  <2>1. Range(job.route.order) = job.gateway /\ job.gateway \subseteq Names
    BY DEF JobTyped, Complete, Headed, Lists
  <2>2. QED
    BY <1>0, <2>1, LaddersCall
<1>2. \A i \in 1..n : calls[i].outcome \in {"ok", "failed", "not_domain"}
  <2>1. \A i \in DOMAIN calls : calls[i].outcome \in {"ok", "failed", "not_domain"}
    BY LaddersNumbered
  <2>2. QED
    BY <1>0, <2>1
<1>3. \A i \in 1..n : RowTyped(Rows(job, calls)[i])
  BY <1>0, <1>1, <1>2 DEF RowTyped, Rows, WorkspaceAssumption
<1>4. \A i \in 1..old : ledger'[i] = ledger[i]
  BY DEF Appended
<1>5. \A i \in 1..n : ledger'[old + i] = Rows(job, calls)[i]
  BY DEF Appended
<1>6. \A i \in 1..(old + n) : i \in 1..old \/ (i - old \in 1..n /\ i = old + (i - old))
  BY <1>0
<1>7. \A i \in 1..(old + n) : RowTyped(ledger'[i])
  <2> SUFFICES ASSUME NEW i \in 1..(old + n) PROVE RowTyped(ledger'[i])
    OBVIOUS
  <2>1. CASE i \in 1..old
    BY <1>0, <1>4, <2>1 DEF RowsTyped
  <2>2. CASE i - old \in 1..n
    <3>1. ledger'[i] = Rows(job, calls)[i - old]
      BY <1>5, <1>6, <2>2
    <3>2. QED
      BY <1>3, <2>2, <3>1
  <2>3. QED
    BY <1>6, <2>1, <2>2
<1>8. QED
  BY <1>0, <1>7 DEF RowsTyped

LEMMA PlanNext ==
    WorkspaceAssumption /\ OrderAssumption /\ LedgerIsSeq /\ PlanInv /\ [Next]_vars => PlanInv'
<1> SUFFICES ASSUME WorkspaceAssumption, OrderAssumption, LedgerIsSeq, PlanInv, [Next]_vars
             PROVE  PlanInv'
  OBVIOUS
<1>1. BatchTyped'
  BY BatchNext DEF PlanInv
<1>2. RowsTyped'
  <2>1. CASE UNCHANGED ledger
    BY <2>1 DEF PlanInv, RowsTyped
  <2>2. CASE \E j \in Jobs : \E n, calls :
                 /\ jobs[j].pc = "calling" /\ calls \in Ladders(jobs[j].route.order)
                 /\ Appended(jobs[j], n, calls)
    <3>1. PICK j \in Jobs : \E n, calls :
                 /\ jobs[j].pc = "calling" /\ calls \in Ladders(jobs[j].route.order)
                 /\ Appended(jobs[j], n, calls)
      BY <2>2
    <3>2. PICK n, calls : /\ jobs[j].pc = "calling" /\ calls \in Ladders(jobs[j].route.order)
                          /\ Appended(jobs[j], n, calls)
      BY <3>1
    <3>3. JobTyped(jobs[j]) /\ RowsTyped
      BY DEF PlanInv
    <3>4. QED
      BY <3>2, <3>3, AppendedTyped
  <2>3. QED
    BY <2>1, <2>2, LedgerStep
<1>3. \A j \in Jobs : JobTyped(jobs'[j])
  <2> SUFFICES ASSUME NEW j \in Jobs PROVE JobTyped(jobs'[j])
    OBVIOUS
  <2>1. CASE jobs'[j] = jobs[j]
    BY <2>1 DEF PlanInv
  <2>2. CASE Planned(jobs'[j])
    BY <2>2, PlannedTyped DEF PlanInv
  <2>3. QED
    BY <2>1, <2>2, JobStep
<1>4. jobs' = [j \in Jobs |-> jobs'[j]]
  BY JobStep
<1>5. QED
  BY <1>1, <1>2, <1>3, <1>4 DEF PlanInv

\* Whatever the ledger has come to hold, and whatever the settings were when the job was
\* accepted: its route tries each provider of the gateway it runs on once, and its decision
\* names the first, none if there is none, or a probe for one that the gateway lacks; it is
\* the request's preference exactly if the gateway has the pick, which then goes first.
THEOREM DecisionsNameHead == Spec => []DecisionNamesHead
<1>1. Init => LedgerIsSeq /\ PlanInv
  BY LedgerInit, PlanInit, WorkspaceAssumption
<1>2. LedgerIsSeq /\ PlanInv /\ [Next]_vars => (LedgerIsSeq /\ PlanInv)'
  BY LedgerNext, PlanNext, WorkspaceAssumption, OrderAssumption
<1>3. PlanInv => DecisionNamesHead
  <2> SUFFICES ASSUME PlanInv, NEW j \in Jobs, jobs[j].pc = "calling"
               PROVE  LET route == jobs[j].route IN
                      /\ IsInjective(route.order) /\ Range(route.order) = jobs[j].gateway
                      /\ \/ route.order # <<>> /\ route.provider = route.order[1]
                         \/ route.order = <<>> /\ route.provider = "none"
                         \/ /\ route.kind = "recovery_probe"
                            /\ route.provider \notin jobs[j].gateway
                      /\ route.kind = "request_preference" <=> jobs[j].pick \in jobs[j].gateway
                      /\ jobs[j].pick \in jobs[j].gateway => route.provider = jobs[j].pick
    BY DEF DecisionNamesHead
  <2>1. JobTyped(jobs[j])
    BY DEF PlanInv
  <2>2. QED
    BY <2>1 DEF JobTyped, Complete, Obeys, Headed, Lists
<1>4. QED
  BY <1>1, <1>2, <1>3, PTL DEF Spec

-----------------------------------------------------------------------------
(* When a provider is explored *)

\* A row that speaks of a provider on a domain.
Speaks(row, domain, p) ==
    row.domain = domain /\ row.provider = p /\ row.outcome # "not_domain"

\* What an exploring job saw of its provider was older than the interval.
Spared(job, rows, t) ==
    (job.pc = "calling" /\ job.route.kind = "exploration") =>
        /\ job.seen \in 0..Len(rows)
        /\ \A i \in 1..job.seen :
             Speaks(rows[i], Domain[job.url], job.route.provider) =>
               rows[i].stamp + Interval < t

Stamped(rows, t) == \A i \in DOMAIN rows : rows[i].stamp \in Nat /\ rows[i].stamp <= t

\* The same of a row that was an exploration.
RowSpared(rows, j) ==
    rows[j].explored =>
        /\ rows[j].seen \in 0..(j - 1)
        /\ \A i \in 1..rows[j].seen :
             Speaks(rows[i], rows[j].domain, rows[j].provider) =>
               rows[i].stamp + Interval < rows[j].stamp

ExploreInv ==
    /\ now \in Nat
    /\ Stamped(ledger, now)
    /\ \A j \in Jobs : Spared(jobs[j], ledger, now)
    /\ \A j \in DOMAIN ledger : RowSpared(ledger, j)

\* A job is opened on what its route saw.
LEMMA PlannedSpared ==
    ASSUME WorkspaceAssumption, OrderAssumption, LedgerIsSeq, now \in Nat, Stamped(ledger, now),
           NEW job, Planned(job)
    PROVE  Spared(job, ledger, now)
<1>4. PICK old, pick, strategy, run : \E url \in Urls :
        \E configured \in SUBSET Names : \E recipe \in Seq(Names) :
            job \in Opened(old, url, configured, pick, recipe, strategy, run)
  BY DEF Planned
<1>5. PICK url \in Urls, configured \in SUBSET Names, recipe \in Seq(Names) :
            job \in Opened(old, url, configured, pick, recipe, strategy, run)
  BY <1>4
<1> DEFINE route == Ordered(ledger, Domain[url], now, configured, pick, recipe, strategy)
<1>0. Len(ledger) \in Nat /\ DOMAIN ledger = 1..Len(ledger) /\ Interval \in Nat
  BY LenProperties DEF LedgerIsSeq, OrderAssumption
<1>1. CASE job.pc # "calling"
  BY <1>1 DEF Spared
<1>2. CASE job.pc = "calling" /\ job.route.kind = "exploration"
  <2>1. job.route = route /\ job.url = url
        /\ (route.kind = "exploration" => job.seen = Len(ledger))
    BY <1>2, <1>5 DEF Opened, Idle
  <2>2. DueForExploration(ledger, Domain[url], route.provider, now)
    BY <1>2, <2>1, ExploredIsDue
  <2> HIDE DEF route
  <2>3. ASSUME NEW i \in 1..Len(ledger), Speaks(ledger[i], Domain[url], route.provider)
        PROVE  ledger[i].stamp + Interval < now
    <3>1. i \in UsableRows(ledger, Domain[url], route.provider)
      BY <1>0, <2>3 DEF UsableRows, Speaks
    <3>2. ledger[i].stamp \notin (now - Interval)..now
      BY <2>2, <3>1 DEF DueForExploration, Within
    <3>3. ledger[i].stamp \in Nat /\ ledger[i].stamp <= now
      BY <1>0 DEF Stamped
    <3>4. QED
      BY <1>0, <3>2, <3>3
  <2>4. QED
    BY <1>0, <1>2, <2>1, <2>3 DEF Spared
<1>3. CASE job.pc = "calling" /\ job.route.kind # "exploration"
  BY <1>3 DEF Spared
<1>6. QED
  BY <1>1, <1>2, <1>3

\* Neither time nor the growth of the ledger makes a job less spared.
LEMMA SparedStays ==
    ASSUME LedgerIsSeq, OrderAssumption, Stamped(ledger, now), NEW job, Spared(job, ledger, now),
           NEW t \in Nat, now \in Nat, now <= t, NEW rows, Len(rows) \in Nat,
           Len(ledger) <= Len(rows), \A i \in 1..Len(ledger) : rows[i] = ledger[i]
    PROVE  Spared(job, rows, t)
<1> SUFFICES ASSUME job.pc = "calling", job.route.kind = "exploration"
             PROVE  /\ job.seen \in 0..Len(rows)
                    /\ \A i \in 1..job.seen :
                         Speaks(rows[i], Domain[job.url], job.route.provider) =>
                           rows[i].stamp + Interval < t
  BY DEF Spared
<1>0. Len(ledger) \in Nat /\ DOMAIN ledger = 1..Len(ledger) /\ Interval \in Nat
  BY LenProperties DEF LedgerIsSeq, OrderAssumption
<1>1. job.seen \in 0..Len(ledger)
  BY DEF Spared
<1>2. ASSUME NEW i \in 1..job.seen, Speaks(rows[i], Domain[job.url], job.route.provider)
      PROVE  rows[i].stamp + Interval < t
  <2>1. i \in 1..Len(ledger) /\ rows[i] = ledger[i]
    BY <1>0, <1>1
  <2>2. ledger[i].stamp + Interval < now
    BY <1>2, <2>1 DEF Spared
  <2>3. ledger[i].stamp \in Nat
    BY <1>0, <2>1 DEF Stamped
  <2>4. QED
    BY <1>0, <2>1, <2>2, <2>3
<1>3. QED
  BY <1>0, <1>1, <1>2

\* The rows of a spared job are spared.
LEMMA AppendedSpared ==
    ASSUME WorkspaceAssumption, OrderAssumption, LedgerIsSeq, ExploreInv, NEW job,
           Spared(job, ledger, now), job.pc = "calling", NEW n, NEW calls,
           Appended(job, n, calls)
    PROVE  Stamped(ledger', now) /\ \A j \in DOMAIN ledger' : RowSpared(ledger', j)
<1> DEFINE old == Len(ledger)
<1>0. /\ old \in Nat /\ n \in Nat /\ DOMAIN ledger = 1..old /\ DOMAIN ledger' = 1..(old + n)
      /\ DOMAIN calls = 1..n
  BY LenProperties DEF LedgerIsSeq, Appended
<1>1. \A i \in 1..old : ledger'[i] = ledger[i]
  BY DEF Appended
<1>2. \A i \in 1..n : ledger'[old + i] = Rows(job, calls)[i]
  BY DEF Appended
<1>3. \A i \in 1..n : /\ Rows(job, calls)[i].stamp = now
                      /\ Rows(job, calls)[i].domain = Domain[job.url]
                      /\ Rows(job, calls)[i].seen = job.seen
  BY <1>0 DEF Rows
<1>4. \A i \in 1..n : Rows(job, calls)[i].explored =>
        job.route.kind = "exploration" /\ Rows(job, calls)[i].provider = job.route.provider
  BY <1>0 DEF Rows
<1>5. \A j \in 1..(old + n) : j \in 1..old \/ (j - old \in 1..n /\ j = old + (j - old))
  BY <1>0
<1>6. Stamped(ledger', now)
  <2> SUFFICES ASSUME NEW j \in 1..(old + n)
               PROVE  ledger'[j].stamp \in Nat /\ ledger'[j].stamp <= now
    BY <1>0 DEF Stamped
  <2>1. now \in Nat /\ now <= now
    BY DEF ExploreInv
  <2>2. CASE j \in 1..old
    BY <1>0, <1>1, <2>2 DEF ExploreInv, Stamped
  <2>3. CASE j - old \in 1..n
    BY <1>2, <1>3, <1>5, <2>1, <2>3
  <2>4. QED
    BY <1>5, <2>2, <2>3
<1>7. ASSUME NEW j \in 1..(old + n) PROVE RowSpared(ledger', j)
  <2>1. CASE j \in 1..old
    <3>1. RowSpared(ledger, j)
      BY <1>0, <2>1 DEF ExploreInv
    <3>2. ledger'[j] = ledger[j]
      BY <1>0, <1>1, <2>1
    <3>3. ledger[j].explored => \A i \in 1..ledger[j].seen : i \in 1..old
      BY <1>0, <2>1, <3>1 DEF RowSpared
    <3>4. QED
      BY <1>1, <3>1, <3>2, <3>3 DEF RowSpared
  <2>2. CASE j - old \in 1..n
    <3> SUFFICES ASSUME ledger'[j].explored
                 PROVE  /\ ledger'[j].seen \in 0..(j - 1)
                        /\ \A i \in 1..ledger'[j].seen :
                             Speaks(ledger'[i], ledger'[j].domain, ledger'[j].provider)
                             => ledger'[i].stamp + Interval < ledger'[j].stamp
      BY DEF RowSpared
    <3>1. ledger'[j] = Rows(job, calls)[j - old]
      BY <1>2, <1>5, <2>2
    <3>2. /\ job.route.kind = "exploration" /\ ledger'[j].provider = job.route.provider
          /\ ledger'[j].stamp = now /\ ledger'[j].domain = Domain[job.url]
          /\ ledger'[j].seen = job.seen
      BY <1>3, <1>4, <2>2, <3>1
    <3>3. job.seen \in 0..old
      BY <3>2 DEF Spared
    <3>4. \A i \in 1..job.seen : ledger'[i] = ledger[i]
      BY <1>0, <1>1, <3>3
    <3>5. \A i \in 1..job.seen : Speaks(ledger[i], Domain[job.url], job.route.provider) =>
                                   ledger[i].stamp + Interval < now
      BY <3>2 DEF Spared
    <3>6. job.seen \in 0..(j - 1)
      BY <1>0, <2>2, <3>3
    <3>7. QED
      BY <3>2, <3>4, <3>5, <3>6
  <2>3. QED
    BY <1>5, <2>1, <2>2
<1>8. QED
  BY <1>0, <1>6, <1>7

LEMMA ExploreInit == WorkspaceAssumption /\ Init => ExploreInv
<1> SUFFICES ASSUME WorkspaceAssumption, Init PROVE ExploreInv
  OBVIOUS
<1>1. now \in Nat
  BY DEF Init, WorkspaceAssumption
<1>3. \A j \in Jobs : jobs[j] = Idle
  BY DEF Init
<1>4. \A j \in Jobs : Spared(jobs[j], ledger, now)
  <2>1. Idle.pc # "calling"
    BY DEF Idle
  <2>2. QED
    BY <1>3, <2>1 DEF Spared
<1>5. ledger \in Seq(Row) /\ \A i \in DOMAIN ledger : ledger[i].stamp <= now /\ ~ledger[i].explored
  BY DEF Init, WorkspaceAssumption
<1>6. \A i \in DOMAIN ledger : ledger[i].stamp \in Nat
  <2>1. \A i \in DOMAIN ledger : ledger[i] \in Row
    BY <1>5, LenProperties, ElementOfSeq
  <2>2. QED
    BY <2>1 DEF Row
<1>7. Stamped(ledger, now) /\ \A j \in DOMAIN ledger : RowSpared(ledger, j)
  BY <1>5, <1>6 DEF Stamped, RowSpared
<1>8. QED
  BY <1>1, <1>4, <1>7 DEF ExploreInv

LEMMA ExploreNext ==
    /\ WorkspaceAssumption /\ OrderAssumption /\ LedgerIsSeq /\ PlanInv /\ ExploreInv
    /\ [Next]_vars
    => ExploreInv'
<1> SUFFICES ASSUME WorkspaceAssumption, OrderAssumption, LedgerIsSeq, PlanInv, ExploreInv,
                    [Next]_vars
             PROVE  ExploreInv'
  OBVIOUS
<1>0. Len(ledger) \in Nat /\ DOMAIN ledger = 1..Len(ledger) /\ now \in Nat
  BY LenProperties DEF LedgerIsSeq, ExploreInv
<1>2. now' \in Nat /\ now <= now'
  <2>1. now' = now \/ now' = now + 1
    BY DEF Next, Accept, Serve, Execute, FinishHit, Finish, ApplySettings, Restart,
           StartBatch, NextUrl, BatchHit, BatchRecord, PrintTable, BuildFeed, Acknowledge,
           Discard, Tick, vars
  <2>2. QED
    BY <1>0, <2>1
<1>3. /\ Stamped(ledger', now') /\ \A j \in DOMAIN ledger' : RowSpared(ledger', j)
      /\ Len(ledger') \in Nat /\ Len(ledger) <= Len(ledger')
      /\ \A i \in 1..Len(ledger) : ledger'[i] = ledger[i]
  <2>1. CASE UNCHANGED ledger
    <3>1. Stamped(ledger, now')
      BY <1>0, <1>2 DEF ExploreInv, Stamped
    <3>2. QED
      BY <1>0, <2>1, <3>1 DEF ExploreInv
  <2>2. CASE /\ UNCHANGED <<now, feed>>
             /\ \E j \in Jobs : \E n, calls :
                   /\ jobs[j].pc = "calling" /\ calls \in Ladders(jobs[j].route.order)
                   /\ Appended(jobs[j], n, calls)
    <3>0. PICK j \in Jobs :
            \E n, calls : jobs[j].pc = "calling" /\ Appended(jobs[j], n, calls)
      BY <2>2
    <3>1. PICK n, calls : jobs[j].pc = "calling" /\ Appended(jobs[j], n, calls)
      BY <3>0
    <3>2. Stamped(ledger', now) /\ \A i \in DOMAIN ledger' : RowSpared(ledger', i)
      BY <3>1, AppendedSpared DEF ExploreInv
    <3>3. n \in Nat /\ Len(ledger') = Len(ledger) + n
          /\ \A i \in 1..Len(ledger) : ledger'[i] = ledger[i]
      BY <3>1 DEF Appended
    <3>4. Len(ledger') \in Nat /\ Len(ledger) <= Len(ledger')
      BY <1>0, <3>3
    <3>5. QED
      BY <2>2, <3>2, <3>3, <3>4
  <2>3. QED
    BY <2>1, <2>2, LedgerStep
<1>4. \A j \in Jobs : Spared(jobs'[j], ledger', now')
  <2> SUFFICES ASSUME NEW j \in Jobs PROVE Spared(jobs'[j], ledger', now')
    OBVIOUS
  <2>1. CASE jobs'[j] = jobs[j]
    <3>1. Spared(jobs[j], ledger, now) /\ Stamped(ledger, now)
      BY DEF ExploreInv
    <3>2. QED
      BY <1>0, <1>2, <1>3, <2>1, <3>1, SparedStays
  <2>2. CASE jobs'[j].pc # "calling"
    BY <2>2 DEF Spared
  <2>3. CASE Planned(jobs'[j]) /\ UNCHANGED <<ledger, now>>
    <3>1. Spared(jobs'[j], ledger, now)
      BY <1>0, <2>3, PlannedSpared DEF ExploreInv
    <3>2. QED
      BY <2>3, <3>1
  <2>4. QED
    BY <2>1, <2>2, <2>3, JobStep
<1>5. QED
  BY <1>2, <1>3, <1>4 DEF ExploreInv

\* For any providers, prices, thresholds and interval, and whatever else was written while
\* the scrape was away: an exploration that is recorded was planned on a ledger without
\* usable evidence of its provider within the interval.
THEOREM EvidenceSpares == Spec => []EvidenceEndsExploration
<1>1. Init => LedgerIsSeq /\ PlanInv /\ ExploreInv
  BY LedgerInit, PlanInit, ExploreInit, WorkspaceAssumption
<1>2. LedgerIsSeq /\ PlanInv /\ ExploreInv /\ [Next]_vars
      => (LedgerIsSeq /\ PlanInv /\ ExploreInv)'
  BY LedgerNext, PlanNext, ExploreNext, WorkspaceAssumption, OrderAssumption
<1>3. LedgerIsSeq /\ ExploreInv => EvidenceEndsExploration
  <2> SUFFICES ASSUME LedgerIsSeq, ExploreInv, NEW i \in DOMAIN ledger, NEW j \in DOMAIN ledger,
                      ledger[j].explored,
                      ledger[i].provider = ledger[j].provider,
                      ledger[i].domain = ledger[j].domain, ledger[i].outcome # "not_domain",
                      ledger[i].stamp \in (ledger[j].stamp - Interval)..ledger[j].stamp
               PROVE  ledger[j].seen < i
    BY DEF EvidenceEndsExploration
  <2>1. ledger[i].stamp \in Nat /\ ledger[j].stamp \in Nat /\ Interval \in Nat /\ i \in Nat /\ i > 0
    BY OrderAssumption, LenProperties DEF LedgerIsSeq, ExploreInv, Stamped, OrderAssumption
  <2>2. ledger[j].seen \in 0..(j - 1) /\ RowSpared(ledger, j)
    BY DEF ExploreInv, RowSpared
  <2>3. ~(ledger[i].stamp + Interval < ledger[j].stamp)
    BY <2>1
  <2>4. Speaks(ledger[i], ledger[j].domain, ledger[j].provider)
    BY DEF Speaks
  <2>5. i \notin 1..ledger[j].seen
    BY <2>2, <2>3, <2>4 DEF RowSpared
  <2>6. QED
    BY <2>1, <2>2, <2>5
<1>4. QED
  BY <1>1, <1>2, <1>3, PTL DEF Spec

-----------------------------------------------------------------------------
(* The types *)

\* The clock keeps to its bound, and what is saved are flags of providers.
ClockInv == now \in Start..Stop /\ settings \in Switches

LEMMA ClockInit == WorkspaceAssumption /\ Init => ClockInv
<1> SUFFICES ASSUME WorkspaceAssumption, Init PROVE ClockInv
  OBVIOUS
<1>1. now \in Start..Stop
  BY DEF WorkspaceAssumption, Init
<1>2. settings \in [{} -> BOOLEAN] /\ {} \in SUBSET Names
  BY DEF Init
<1>3. QED
  BY <1>1, <1>2 DEF ClockInv, Switches

LEMMA ClockNext == WorkspaceAssumption /\ ClockInv /\ [Next]_vars => ClockInv'
<1> SUFFICES ASSUME WorkspaceAssumption, ClockInv, [Next]_vars PROVE ClockInv'
  OBVIOUS
<1>1. CASE \E saved \in Settings : ApplySettings(saved)
  BY <1>1 DEF ApplySettings, ClockInv, WorkspaceAssumption
<1>2. CASE Tick
  BY <1>2 DEF Tick, ClockInv, WorkspaceAssumption
<1>3. CASE UNCHANGED <<now, settings>>
  BY <1>3 DEF ClockInv
<1>4. QED
  BY <1>1, <1>2, <1>3 DEF Next, Accept, Serve, Execute, FinishHit, Finish, Restart, StartBatch,
     NextUrl, BatchHit, BatchRecord, PrintTable, BuildFeed, Acknowledge, Discard, vars

\* The types hold for any providers, targets, batches and ledgers to begin with: no row is
\* from the future, and the feed's cursor and what it delivered stay within the ledger.
THEOREM TypeCorrect == Spec => []TypeOK
<1> DEFINE IInv == LedgerIsSeq /\ PlanInv /\ ExploreInv /\ FeedInv /\ ClockInv
<1>1. Init => IInv
  BY LedgerInit, PlanInit, ExploreInit, FeedInit, ClockInit, WorkspaceAssumption
<1>2. IInv /\ [Next]_vars => IInv'
  BY LedgerNext, PlanNext, ExploreNext, FeedNext, ClockNext, WorkspaceAssumption,
     OrderAssumption
<1>3. IInv => TypeOK
  <2> SUFFICES ASSUME IInv PROVE TypeOK
    OBVIOUS
  <2>1. Len(ledger) \in Nat /\ DOMAIN ledger = 1..Len(ledger)
    BY LenProperties DEF LedgerIsSeq
  <2>2. \A i \in DOMAIN ledger :
          /\ ledger[i].provider \in Names /\ ledger[i].outcome \in {"ok", "failed", "not_domain"}
          /\ ledger[i].stamp <= now
    BY DEF PlanInv, RowsTyped, RowTyped, ExploreInv, Stamped
  <2>3. feed.delivered \subseteq DOMAIN ledger
    BY <2>1 DEF FeedInv, FeedDelivers
  <2>4. feed.pc \in {"idle", "built"} /\ feed.cursor \in 0..Len(ledger)
    BY DEF FeedInv
  <2>5. QED
    BY <2>2, <2>3, <2>4 DEF TypeOK, ClockInv, PlanInv, BatchTyped
<1>4. QED
  BY <1>1, <1>2, <1>3, PTL DEF Spec

=============================================================================
