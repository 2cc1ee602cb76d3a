--------------------------- MODULE RoutingMemory ---------------------------
(***************************************************************************)
(* Domain memory as the router's circuit breaker (memory.py with the loop  *)
(* of router.py): which providers a scrape skips for bad history, which it *)
(* puts first as a half-open recovery probe, and how the ledger rows that  *)
(* concurrent scrapes write change both.                                   *)
(*                                                                         *)
(* One domain and one request profile: every query of memory.py matches    *)
(* both exactly.  ledger[p] holds p's usable rows, oldest first; rows whose*)
(* failure is not the domain's (provider_unavailable, proxy_error) are     *)
(* invisible to every query and are left out.  A row carries its age in    *)
(* ticks instead of a timestamp, up to Horizon: beyond it no query can     *)
(* tell ages apart.                                                        *)
(***************************************************************************)
EXTENDS Integers, Sequences, FiniteSets, SequencesExt

CONSTANTS
    Runs,          \* concurrent scrapes
    Providers,     \* adapters, all available and capable
    Window,        \* evidence_window_seconds, in ticks
    CloseAfter,    \* failures that close a provider (5)
    DilutedAfter,  \* failures from which the success ratio counts (10)
    SuccessShare,  \* 1 / the ratio below which it closes (1 / 0.2)
    Heedless,      \* the scrapes that run with use_memory=False
    MaxCallRows,   \* bound: ledger rows one provider call leaves
    MaxWindowRows  \* bound: no scrape starts beyond this many rows in a window

ASSUME MemoryAssumption ==
    /\ IsFiniteSet(Providers)
    /\ Window \in Nat \ {0}           \* DomainMemory.__init__ rejects 0
    /\ CloseAfter \in Nat \ {0} /\ DilutedAfter \in Nat \ {0}
    /\ SuccessShare \in Nat \ {0} /\ Heedless \subseteq Runs
    /\ MaxCallRows \in Nat \ {0} /\ MaxWindowRows \in Nat

VARIABLES
    ledger,   \* usable attempt_ledger rows of each provider
    pc,       \* where each scrape is
    order,    \* providers it has not considered yet
    probes,   \* providers due for a probe when it planned its order
    booked    \* its run_ledger: the outcomes of each provider's rows

vars == <<ledger, pc, order, probes, booked>>

-----------------------------------------------------------------------------
(* The queries of memory.py *)

Horizon == 2 * Window + 1

Row == [ok : BOOLEAN, age : 0..Horizon]

Failed(s, i) == ~s[i].ok

\* The number of rows inside the evidence window, by outcome.
WindowRows(s, ok) ==
    Cardinality({i \in DOMAIN s : s[i].age <= Window /\ s[i].ok = ok})

\* The last n rows exist and are failures.
FailureTail(s, n) ==
    /\ Len(s) >= n
    /\ \A i \in Len(s) - n + 1 .. Len(s) : Failed(s, i)

\* _failed_probe_reclosed: the last failure came more than a window after the one
\* before it, as the failure of a half-open probe does.
FailedProbeReclosed(s) ==
    /\ FailureTail(s, CloseAfter + 1)
    /\ s[Len(s) - 1].age > s[Len(s)].age + Window

\* Looks at one row too few: five old failures alone look like a failed probe.
BadShouldSkip(s) ==
    LET wins == WindowRows(s, TRUE)
        fails == WindowRows(s, FALSE)
    IN  \/ wins = 0 /\ fails >= CloseAfter
        \/ fails >= DilutedAfter /\ wins * SuccessShare < fails
        \/ wins = 0 /\ FailureTail(s, CloseAfter)

\* The failed probe is not remembered as one.
BadShouldSkipNoReclose(s) ==
    LET wins == WindowRows(s, TRUE)
        fails == WindowRows(s, FALSE)
    IN  \/ wins = 0 /\ fails >= CloseAfter
        \/ fails >= DilutedAfter /\ wins * SuccessShare < fails

\* Counts failures without their window.
BadShouldSkipForever(s) ==
    Cardinality({i \in DOMAIN s : Failed(s, i)}) >= CloseAfter

\* should_skip_provider
ShouldSkip(s) ==
    LET wins == WindowRows(s, TRUE)
        fails == WindowRows(s, FALSE)
    IN  \/ wins = 0 /\ fails >= CloseAfter
        \/ fails >= DilutedAfter /\ wins * SuccessShare < fails
        \/ wins = 0 /\ fails > 0 /\ FailedProbeReclosed(s)

\* providers_due_for_probe: a full tail of failures, the last one aged out.
Due(s) == FailureTail(s, CloseAfter) /\ s[Len(s)].age > Window

DueProviders == {p \in Providers : Due(ledger[p])}

-----------------------------------------------------------------------------
NothingBooked == [p \in Providers |-> <<>>]

\* Types of the ledger and of the scrapes in flight; a scrape that is over has no rows
\* left that a later one could record once more.
TypeOK ==
    /\ ledger \in [Providers -> Seq(Row)]
    /\ pc \in [Runs -> {"idle", "loop", "calling", "recording"}]
    /\ order \in [Runs -> Seq(Providers)]
    /\ probes \in [Runs -> SUBSET Providers]
    /\ booked \in [Runs -> [Providers -> Seq(BOOLEAN)]]
    /\ \A r \in Runs : pc[r] = "idle" => booked[r] = NothingBooked

Init ==
    /\ ledger = [p \in Providers |-> <<>>]
    /\ pc = [r \in Runs |-> "idle"]
    /\ order = [r \in Runs |-> <<>>]
    /\ probes = [r \in Runs |-> {}]
    /\ booked = [r \in Runs |-> NothingBooked]

-----------------------------------------------------------------------------
(* A scrape *)

ProbesFirst(o) ==
    \A i, j \in DOMAIN o : (o[j] \in DueProviders /\ i < j) => o[i] \in DueProviders

\* _ordered_providers: the order that costs gave, with every provider due for a probe
\* moved to the front; or, when the request, a recipe or the strategy names a provider,
\* the order they ask for, without looking for probes.
Plan(r) ==
    /\ pc[r] = "idle"
    /\ \A p \in Providers :
         WindowRows(ledger[p], TRUE) + WindowRows(ledger[p], FALSE) < MaxWindowRows
    /\ \E o \in SetToSeqs(Providers), preferred \in BOOLEAN :
         /\ preferred \/ ProbesFirst(o)
         /\ order' = [order EXCEPT ![r] = o]
         /\ probes' = [probes EXCEPT ![r] = IF preferred THEN {} ELSE DueProviders]
    /\ pc' = [pc EXCEPT ![r] = "loop"]
    /\ UNCHANGED <<ledger, booked>>

Candidate(r) == Head(order[r])

\* Memory is read again for each provider, as the ledger is at that moment.
SkipBadHistory(r) ==
    /\ pc[r] = "loop" /\ order[r] # <<>>
    /\ r \notin Heedless
    /\ ShouldSkip(ledger[Candidate(r)])
    /\ order' = [order EXCEPT ![r] = Tail(@)]
    /\ UNCHANGED <<ledger, pc, probes, booked>>

Call(r) ==
    /\ pc[r] = "loop" /\ order[r] # <<>>
    /\ r \in Heedless \/ ~ShouldSkip(ledger[Candidate(r)])
    /\ pc' = [pc EXCEPT ![r] = "calling"]
    /\ UNCHANGED <<ledger, order, probes, booked>>

\* One call leaves n rows, failures but perhaps the last; the ladder of an adapter
\* such as ScrapeDrive leaves one per tier.  The row of a proxy error is not usable.
CallOutcomes(n, outcome) ==
    IF outcome = "proxy" THEN [i \in 1..n - 1 |-> FALSE]
    ELSE [i \in 1..n |-> outcome = "success" /\ i = n]

\* A proxy error and an adapter's own budget stop end the ladder, as a success does.
Answer(r, outcome) ==
    /\ pc[r] = "calling"
    /\ \E n \in 1..MaxCallRows :
         booked' = [booked EXCEPT ![r] =
                      [@ EXCEPT ![Candidate(r)] = CallOutcomes(n, outcome)]]
    /\ order' = [order EXCEPT ![r] = Tail(@)]
    /\ pc' = [pc EXCEPT ![r] = IF outcome = "failure" THEN "loop" ELSE "recording"]
    /\ UNCHANGED <<ledger, probes>>

\* No provider is left, or the router's budget check stops before the next one.
EndLadder(r) ==
    /\ pc[r] = "loop"
    /\ pc' = [pc EXCEPT ![r] = "recording"]
    /\ UNCHANGED <<ledger, order, probes, booked>>

\* Rows that no query can see any more: outside the window and older than the longest
\* tail.  SQLite keeps them; here they are dropped, so that the ledger stays finite.
Invisible(s) == {i \in DOMAIN s : s[i].age > Window /\ i < Len(s) - CloseAfter}

Visible(s) == SubSeq(s, Cardinality(Invisible(s)) + 1, Len(s))

Stamped(outcomes) == [i \in DOMAIN outcomes |-> [ok |-> outcomes[i], age |-> 0]]

\* One run_ledger serves all scrapes: the next one records these rows again.
BadRecord(r) ==
    /\ pc[r] = "recording"
    /\ ledger' = [p \in Providers |-> Visible(ledger[p] \o Stamped(booked[r][p]))]
    /\ probes' = [probes EXCEPT ![r] = {}]
    /\ order' = [order EXCEPT ![r] = <<>>]
    /\ pc' = [pc EXCEPT ![r] = "idle"]
    /\ UNCHANGED booked

\* record_attempt_ledger: one transaction, one timestamp for all rows of the run.
Record(r) ==
    /\ pc[r] = "recording"
    /\ ledger' = [p \in Providers |-> Visible(ledger[p] \o Stamped(booked[r][p]))]
    /\ booked' = [booked EXCEPT ![r] = NothingBooked]
    /\ probes' = [probes EXCEPT ![r] = {}]
    /\ order' = [order EXCEPT ![r] = <<>>]
    /\ pc' = [pc EXCEPT ![r] = "idle"]

\* A crash, a cancellation or a raising adapter loses the rows of the run.
Crash(r) ==
    /\ pc[r] # "idle"
    /\ pc' = [pc EXCEPT ![r] = "idle"]
    /\ booked' = [booked EXCEPT ![r] = NothingBooked]
    /\ probes' = [probes EXCEPT ![r] = {}]
    /\ order' = [order EXCEPT ![r] = <<>>]
    /\ UNCHANGED ledger

Older(row) ==
    [ok |-> row.ok, age |-> IF row.age < Horizon THEN row.age + 1 ELSE row.age]

Tick ==
    /\ ledger' = [p \in Providers |->
                    [i \in DOMAIN ledger[p] |-> Older(ledger[p][i])]]
    /\ UNCHANGED <<pc, order, probes, booked>>

Next ==
    \/ Tick
    \/ \E r \in Runs :
         \/ Plan(r) \/ SkipBadHistory(r) \/ Call(r) \/ EndLadder(r)
         \/ \E outcome \in {"failure", "success", "proxy", "budget"} : Answer(r, outcome)
         \/ Record(r) \/ Crash(r)

\* Time passes.  Nothing obliges anyone to scrape, nor a run to finish.
Spec == Init /\ [][Next]_vars /\ WF_vars(Tick)

-----------------------------------------------------------------------------
(* Properties *)

\* The probe query and the skip query never contradict each other: a provider put first
\* as a recovery probe is admitted by should_skip_provider at that same moment.  If both
\* held, it would be skipped in every scrape and never recover.
ProbeAdmitted == \A p \in Providers : Due(ledger[p]) => ~ShouldSkip(ledger[p])

ProbeFailed(r, p) ==
    Record(r) /\ p \in probes[r] /\ booked[r][p] # <<>>
        /\ \A i \in DOMAIN booked[r][p] : ~booked[r][p][i]

ProbeSucceeded(r, p) ==
    Record(r) /\ p \in probes[r] /\ \E i \in DOMAIN booked[r][p] : booked[r][p][i]

\* docs/configuration.md: "A failed probe closes the provider for another window".
FailedProbeCloses ==
    [][\A r \in Runs, p \in Providers : ProbeFailed(r, p) => ShouldSkip(ledger'[p])]_vars

\* The same where it holds: the probe was a single call, and the provider is still due
\* for one when its answer is recorded.
LoneFailedProbeCloses ==
    [][\A r \in Runs, p \in Providers :
         (ProbeFailed(r, p) /\ Len(booked[r][p]) = 1 /\ Due(ledger[p]))
            => ShouldSkip(ledger'[p])]_vars

\* docs/configuration.md: "a successful probe restores it immediately", however many
\* tiers failed within the same probe, short of the dilution threshold.
SuccessfulProbeReopens ==
    [][\A r \in Runs, p \in Providers :
         (ProbeSucceeded(r, p) /\ Due(ledger[p]) /\ Len(booked[r][p]) <= DilutedAfter)
            => ~ShouldSkip(ledger'[p]) /\ ~Due(ledger'[p])]_vars

\* No provider is shut out for good: a skipped one is not called, so its failures age
\* out of the window, whatever runs were already in flight.  Only scrapes that ignore
\* memory can renew the evidence against it.
NeverClosedForever ==
    \A p \in Providers :
        ShouldSkip(ledger[p])
            ~> (~ShouldSkip(ledger[p]) \/ \E r \in Heedless : pc[r] # "idle")

=============================================================================
