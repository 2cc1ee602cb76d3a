\* Every shape of request, sync and async, with and without Auto, a ceiling, a
\* remembered tier and an injected country; each price is one credit, amounts are in
\* half credits, and the allowance runs from nothing to beyond the whole ladder.
SPECIFICATION Spec
CONSTANTS
    BaseCost = 2
    RenderJsCost = 2
    ResidentialCost = 2
    ScreenshotCost = 2
    Grain = 2
    MaxBudget = 25
INVARIANTS
    TypeOK
    BookedWithinBudget
    SyncBillBooked
    AttemptsItemised
    AdmittedCallAttempts
PROPERTIES
    KeepsContract
CHECK_DEADLOCK FALSE
