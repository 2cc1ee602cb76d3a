\* The same instance: what the ledger books against what the service charged.
SPECIFICATION Spec
CONSTANTS
    BaseCost = 2
    RenderJsCost = 2
    ResidentialCost = 2
    ScreenshotCost = 2
    Grain = 2
    MaxBudget = 25
INVARIANTS
    EveryJobBooked
CHECK_DEADLOCK FALSE
