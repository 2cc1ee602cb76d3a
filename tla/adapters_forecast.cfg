\* No service reports a price of its own: what is booked is what the adapter computes.
SPECIFICATION Spec
CONSTANTS
    Calls = {c1, c2}
    First = c1
    PageStatuses <- MCPageStatuses
    ApiStatuses <- MCApiStatuses
    Costs <- NoPrices
    Allowances <- MCAllowances
INVARIANTS
    ForecastIsUpperBound
CHECK_DEADLOCK FALSE
