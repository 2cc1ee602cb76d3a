\* The same instance, with the claim of cache.py:106.
SPECIFICATION Spec
CONSTANTS
    c1 = c1  c2 = c2  g1 = g1  g2 = g2  g3 = g3
    Processes <- TwoProcesses
    Pages <- TwoPages
    Missing = Missing  Torn = Torn  Unknown = Unknown
    Demanding <- OnlyC2
SYMMETRY Symmetry
INVARIANT HitIsOneGeneration
CHECK_DEADLOCK FALSE
