\* An order found at the provider is adopted.
SPECIFICATION Spec
CONSTANTS
    Keys = {k1}
    Workers = {w1}
    OrderIds = {o1}
    NoOrder = NoOrder
    NoRow = NoRow
    NoId = NoId
    Durable = TRUE
    MaxPolls = 1
    MaxCalls = 2
    MaxPasses = 0
    MaxCrashes = 0
INVARIANTS
    FoundIsAdopted
CHECK_DEADLOCK FALSE
