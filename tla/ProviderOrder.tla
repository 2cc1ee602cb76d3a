--------------------------- MODULE ProviderOrder ----------------------------
(***************************************************************************)
(* The route of a scrape: _ordered_providers of router.py over the queries *)
(* of memory.py that it reads (provider_cost_effectiveness,                *)
(* provider_due_for_cost_exploration, providers_due_for_probe).            *)
(*                                                                         *)
(* A ledger is a sequence of rows, the position of a row is its id.  A row *)
(* has the fields domain, provider, outcome, cost, exact and stamp; its    *)
(* outcome is "ok", "failed", or "not_domain" for the failures that say    *)
(* nothing of the domain (provider_unavailable, proxy_error).  One request *)
(* profile: every query matches country, render_js, premium, mobile and    *)
(* screenshot exactly.  start_tier, which only ScrapeDrive reads, is left  *)
(* to ScrapeDrive.tla.                                                     *)
(***************************************************************************)
EXTENDS Integers, Sequences, FiniteSets, FiniteSetsExt, SequencesExt

CONSTANTS
    Names,         \* every provider that a configuration or a ledger may name
    Rank,          \* cost_rank of each
    Place,         \* place of each in the configuration
    Alphabet,      \* place of each name in alphabetical order
    MinAttempts,   \* MIN_COST_EFFECTIVENESS_ATTEMPTS (5)
    MinSuccesses,  \* MIN_COST_EFFECTIVENESS_SUCCESSES (2)
    Interval,      \* COST_EXPLORATION_INTERVAL_SECONDS, in ticks
    Window,        \* evidence_window_seconds, in ticks
    TailLength     \* failures that make a provider due for a probe (5)

ASSUME OrderAssumption ==
    /\ IsFiniteSet(Names) /\ "none" \notin Names
    /\ Rank \in [Names -> Nat]
    /\ Place \in [Names -> Nat] /\ IsInjective(Place)
    /\ Alphabet \in [Names -> Nat] /\ IsInjective(Alphabet)
    /\ MinAttempts \in Nat \ {0} /\ MinSuccesses \in Nat \ {0}
    /\ Interval \in Nat \ {0} /\ Window \in Nat \ {0} /\ TailLength \in Nat \ {0}

-----------------------------------------------------------------------------
(* The ledger's evidence *)

\* The ids of p's usable rows of a domain.
UsableRows(ledger, domain, p) ==
    {i \in DOMAIN ledger : /\ ledger[i].domain = domain
                           /\ ledger[i].provider = p
                           /\ ledger[i].outcome # "not_domain"}

Within(ledger, rows, from, until) == {i \in rows : ledger[i].stamp \in from..until}

Wins(ledger, rows) == {i \in rows : ledger[i].outcome = "ok"}

\* 1.0 for a price the provider reported, 0.5 for an estimate; here twice that.
Weight(row) == IF row.exact THEN 2 ELSE 1

Spend(ledger, rows) == MapThenSumSet(LAMBDA i : ledger[i].cost * Weight(ledger[i]), rows)
WeightOf(ledger, rows) == MapThenSumSet(LAMBDA i : Weight(ledger[i]), rows)

Score(ledger, domain, p, now) ==
    LET rows == Within(ledger, UsableRows(ledger, domain, p), now - Window, now)
        wins == Wins(ledger, rows)
    IN  [attempts |-> Cardinality(rows), wins |-> Cardinality(wins),
         spend |-> Spend(ledger, rows), weightedWins |-> WeightOf(ledger, wins)]

Qualifies(score) == score.attempts >= MinAttempts /\ score.wins >= MinSuccesses

\* Compares spend per success without dividing.
SpendsLess(s, t) == s.spend * t.weightedWins < t.spend * s.weightedWins
SpendsEqually(s, t) == s.spend * t.weightedWins = t.spend * s.weightedWins

\* Looks for a success, so a provider that fails is explored again at once.
BadDueForExploration(ledger, domain, p, now) ==
    Wins(ledger, Within(ledger, UsableRows(ledger, domain, p), now - Interval, now)) = {}

DueForExploration(ledger, domain, p, now) ==
    Within(ledger, UsableRows(ledger, domain, p), now - Interval, now) = {}

\* Orders rows by time, and by id within one transaction.
Later(ledger, i, j) ==
    \/ ledger[i].stamp > ledger[j].stamp
    \/ ledger[i].stamp = ledger[j].stamp /\ i > j

\* Every provider the ledger names is asked for, configured or not.
DueForProbe(ledger, domain, now) ==
    {p \in Names :
        LET rows == {i \in UsableRows(ledger, domain, p) : ledger[i].stamp <= now}
            tail == {i \in rows :
                       Cardinality({j \in rows : Later(ledger, j, i)}) < TailLength}
        IN /\ Cardinality(tail) = TailLength
           /\ Wins(ledger, tail) = {}
           /\ \A i \in tail : ledger[i].stamp < now - Window}

-----------------------------------------------------------------------------
(* The order and the routing decision that goes into the report *)

Route(order, kind, provider) == [order |-> order, kind |-> kind, provider |-> provider]

\* Python's sorted; the keys below tell any two apart.
Sorted(S, Before(_, _)) ==
    CHOOSE order \in Bijection(1..Cardinality(S), S) :
        \A i, j \in DOMAIN order : i < j => Before(order[i], order[j])

ByRank(gateway) ==
    Sorted(gateway, LAMBDA p, q :
        Rank[p] < Rank[q] \/ (Rank[p] = Rank[q] /\ Place[p] < Place[q]))

\* preferred + rest
Preferring(p, gateway) == <<p>> \o ByRank(gateway \ {p})

\* The recipe's configured providers, each at the last place it names it.
AsNamed(recipe, gateway) ==
    LET LastPlace(p) == Max({i \in DOMAIN recipe : recipe[i] = p})
    IN Sorted(gateway \cap Range(recipe), LAMBDA p, q : LastPlace(p) < LastPlace(q))

\* Trusts the name without looking it up among the configured providers.
BadPicks(name, gateway) == name # "none"

\* A provider that the request or the strategy asks for; unknown names fall through.
Picks(name, gateway) == name # "none" /\ name \in gateway

\* No provider has evidence enough: cost-rank order.
RankRoute(gateway) ==
    Route(ByRank(gateway), "cost_rank", IF gateway = {} THEN "none" ELSE ByRank(gateway)[1])

\* Breaks ties between providers that spend the same.
Ahead(p, q) == Rank[p] < Rank[q] \/ (Rank[p] = Rank[q] /\ Alphabet[p] < Alphabet[q])

\* Qualified providers go first, the one that spends least per success before the others.
ByCost(score, qualified, gateway) ==
    Sorted(gateway, LAMBDA p, q :
        \/ p \in qualified /\ q \notin qualified
        \/ {p, q} \subseteq qualified /\ SpendsLess(score[p], score[q])
        \/ /\ {p, q} \subseteq qualified => SpendsEqually(score[p], score[q])
           /\ p \in qualified <=> q \in qualified
           /\ Ahead(p, q))

Candidates(ledger, domain, now, gateway, winner) ==
    {p \in gateway \ {winner} :
        Rank[p] < Rank[winner] /\ DueForExploration(ledger, domain, p, now)}

Cheapest(providers) == CHOOSE p \in providers : \A q \in providers \ {p} : Ahead(p, q)

\* Observed spend per success first; one cheaper provider without evidence from the last
\* day goes ahead of the winner.
CostRoute(ledger, domain, now, gateway) ==
    LET score == [p \in gateway |-> Score(ledger, domain, p, now)]
        qualified == {p \in gateway : Qualifies(score[p])}
        order == ByCost(score, qualified, gateway)
        candidates == Candidates(ledger, domain, now, gateway, order[1])
        probe == Cheapest(candidates)
    IN  IF qualified = {} THEN RankRoute(gateway)
        ELSE IF candidates = {} THEN Route(order, "observed_cost", order[1])
        ELSE Route(<<probe>> \o ByCost(score, qualified, gateway \ {probe}), "exploration", probe)

PlaceIn(order, p) == CHOOSE i \in DOMAIN order : order[i] = p

\* sorted by whether they are chosen, which leaves the order as it is otherwise.
First(order, chosen) ==
    Sorted(Range(order), LAMBDA p, q :
        \/ p \in chosen /\ q \notin chosen
        \/ /\ p \in chosen <=> q \in chosen
           /\ PlaceIn(order, p) < PlaceIn(order, q))

\* Half-open probes go ahead of the learned order; when none of them is configured the
\* decision still names one.
WithProbes(ledger, domain, now, gateway, learned) ==
    LET due == DueForProbe(ledger, domain, now)
        order == First(learned.order, due)
    IN  IF due = {} THEN learned
        ELSE Route(order, "recovery_probe",
                   IF gateway \cap due # {} THEN order[1]
                   ELSE CHOOSE p \in due : \A q \in due : Alphabet[p] <= Alphabet[q])

\* _ordered_providers
Ordered(ledger, domain, now, gateway, pick, recipe, strategy) ==
    LET named == AsNamed(recipe, gateway)
    IN  CASE Picks(pick, gateway) ->
               Route(Preferring(pick, gateway), "request_preference", pick)
          [] ~Picks(pick, gateway) /\ named # <<>> ->
               Route(named \o ByRank(gateway \ Range(named)), "recipe", named[1])
          [] ~Picks(pick, gateway) /\ named = <<>> /\ Picks(strategy, gateway) ->
               Route(Preferring(strategy, gateway), "strategy", strategy)
          [] OTHER ->
               WithProbes(ledger, domain, now, gateway, CostRoute(ledger, domain, now, gateway))

=============================================================================
