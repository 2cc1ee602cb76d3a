\* Two concurrent scrapes of one provider whose calls leave one or two rows; thresholds
\* scaled from 5 / 10 / 0.2 to 2 / 4 / 0.5.
SPECIFICATION Spec
CONSTANTS
    r1 = r1  r2 = r2  p1 = p1
    Runs <- TwoRuns
    Providers <- OneProvider
    Window = 1
    CloseAfter = 2
    DilutedAfter = 4
    SuccessShare = 2
    Heedless <- OnlyR2
    MaxCallRows = 2
    MaxWindowRows = 4
INVARIANTS
    TypeOK
    ProbeAdmitted
PROPERTIES
    LoneFailedProbeCloses
    SuccessfulProbeReopens
    NeverClosedForever
CHECK_DEADLOCK FALSE
