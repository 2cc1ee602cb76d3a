\* The thresholds of the code; one scrape at a time, two rows a call.
SPECIFICATION Spec
CONSTANTS
    r1 = r1  r2 = r2  p1 = p1
    Runs <- OneRun
    Providers <- OneProvider
    Window = 1
    CloseAfter = 5
    DilutedAfter = 10
    SuccessShare = 5
    Heedless <- Nobody
    MaxCallRows = 2
    MaxWindowRows = 10
PROPERTIES
    FailedProbeCloses
CHECK_DEADLOCK FALSE
