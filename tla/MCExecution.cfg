\* Two overlapping callers of one plan, retries, late submissions, a crash
\* and one reconciliation pass, over a durable store.
SPECIFICATION Spec
CONSTANTS
    Keys = {k1}
    Workers = {w1, w2}
    OrderIds = {o1, o2}
    NoOrder = NoOrder
    NoRow = NoRow
    NoId = NoId
    Durable = TRUE
    MaxPolls = 1
    MaxCalls = 3
    MaxPasses = 1
    MaxCrashes = 1
SYMMETRY Interchangeable
INVARIANTS
    TypeOK
    AtMostOneOrder
    OrdersAreReconcilable
    ResultsAreTrue
PROPERTIES
    IdsAreKept
    ImplementsLedger
CHECK_DEADLOCK FALSE
