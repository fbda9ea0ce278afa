\* Two plans and one caller at a time, or a tracker that polls once before its
\* time is over, with a reconciliation pass over both rows: no row and no
\* result ever holds the other plan's order, and every call and every pass
\* ends. No symmetry: it is not sound for liveness.
SPECIFICATION FairSpec
CONSTANTS
    Keys = {k1, k2}
    Workers = {w1}
    OrderIds = {o1}
    NoOrder = NoOrder
    NoRow = NoRow
    NoId = NoId
    Durable = TRUE
    MaxPolls = 1
    MaxCalls = 2
    MaxPasses = 1
    MaxCrashes = 0
INVARIANTS
    IdsAreOurs
PROPERTIES
    CallsReturn
    PassesEnd
CHECK_DEADLOCK FALSE
