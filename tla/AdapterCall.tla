----------------------------- MODULE AdapterCall -----------------------------
(***************************************************************************)
(* One provider call as the router relies on it: `await provider.scrape`   *)
(* returns once, with at least one ledger row of which only the last may   *)
(* be a success, or it raises.  An adapter that limits each of its awaits  *)
(* in time owes Ends besides.  Router's CallRows is this contract, and its *)
(* fairness is Ends of the adapters in Bounded; ScrapeDrive is shown to    *)
(* implement all of it, and Adapters all but Ends.                         *)
(***************************************************************************)
EXTENDS Naturals, Sequences

VARIABLES
    state, \* "calling", "answered" or "raised"
    rows   \* the outcomes of the rows _provider_ledger returns

vars == <<state, rows>>

Init == state = "calling" /\ rows = <<>>

FailuresThenVerdict(s) ==
    s # <<>> /\ \A i \in DOMAIN s : s[i] => i = Len(s)

Answer ==
    /\ state = "calling"
    /\ FailuresThenVerdict(rows')
    /\ state' = "answered"

Raise ==
    /\ state = "calling"
    /\ state' = "raised"
    /\ UNCHANGED rows

Next == Answer \/ Raise

\* The router waits without a timeout of its own.
Ends == <>(state # "calling")

Spec == Init /\ [][Next]_vars /\ Ends

=============================================================================
