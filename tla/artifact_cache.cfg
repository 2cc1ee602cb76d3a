\* Two processes that save, look up and purge one entry, with crashes anywhere.
SPECIFICATION Spec
CONSTANTS
    c1 = c1  c2 = c2  g1 = g1  g2 = g2  g3 = g3
    Processes <- TwoProcesses
    Pages <- TwoPages
    Missing = Missing  Torn = Torn  Unknown = Unknown
    Demanding <- OnlyC2
SYMMETRY Symmetry
INVARIANTS
    TypeOK
    UndisturbedWriteHolds
    QuietLookupIsExact
    UndisturbedNeverFails
CHECK_DEADLOCK FALSE
