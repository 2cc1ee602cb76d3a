\* Runs that want validation next to runs that skip it.
SPECIFICATION Spec
CONSTANTS
    r1 = r1  r2 = r2  p1 = p1  p2 = p2
    Runs <- TwoRuns
    Providers <- TwoProviders
    Gateway <- OneEach
    Reporting <- OnlyR1
    CountryCapable <- OnlyP1
    Bounded <- OnlyP1
    TldHint = FALSE
    SkipModes <- EitherMode
    Capped = FALSE
    MaxCost = 0
    MaxForecast = 0
    MaxBill = 0
    MaxRows = 1
INVARIANTS
    HitUnderSameOptions
CHECK_DEADLOCK FALSE
