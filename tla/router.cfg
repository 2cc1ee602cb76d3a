\* Two concurrent runs over the same stores: one of a gateway with two adapters, of which
\* only one bounds its awaits, and telemetry; one of a gateway with one adapter and no
\* telemetry.  A ceiling of 1 unit, forecasts up to 2, bills up to 1, one or two rows a call.
SPECIFICATION Spec
CONSTANTS
    r1 = r1  r2 = r2  p1 = p1  p2 = p2
    Runs <- TwoRuns
    Providers <- TwoProviders
    Gateway <- BothThenOne
    Reporting <- OnlyR1
    CountryCapable <- OnlyP1
    Bounded <- OnlyP1
    TldHint = TRUE
    SkipModes <- SecondSkips
    Capped = TRUE
    MaxCost = 1
    MaxForecast = 2
    MaxBill = 1
    MaxRows = 2
INVARIANTS
    TypeOK
    SpendWithinCeiling
    EvidenceMatchesOutcome
    EveryAttemptRecorded
    EvidenceHasReport
    HintNeverLeaks
    HitWasAccepted
PROPERTIES
    RunsEnd
    RunsAdvance
CHECK_DEADLOCK FALSE
