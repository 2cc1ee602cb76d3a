SPECIFICATION Spec
CONSTANTS
    Calls = {c1, c2}
    First = c1
    PageStatuses <- MCPageStatuses
    ApiStatuses <- MCApiStatuses
    Costs <- MCCosts
    Allowances <- MCAllowances
INVARIANTS
    TypeOK
    NothingLeftBehind
    SuccessIsUsable
    BookedWithinForecast
    ReportedPriceBooked
PROPERTIES
    KeepsContract
CHECK_DEADLOCK FALSE
