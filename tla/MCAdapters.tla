----------------------------- MODULE MCAdapters -----------------------------
(* Instances of Adapters: one call of any adapter, or two of Helium. *)
EXTENDS Adapters

\* A page, an error page, a proxy's refusal, a throttle, a failure, and a status
\* outside HTTP's range.
MCPageStatuses == {200, 404, 407, 429, 503, 999}

\* 409 is ScrapingAnt's limit.
MCApiStatuses == {200, 401, 409, 503}

\* Below, at and above every forecast but the dearest.
MCCosts == {1, 30, Unreported}

NoPrices == {Unreported}

MCAllowances == {0, 1, 10, 30}

=============================================================================
