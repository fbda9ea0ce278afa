\* One position and its exit plan, priced as the quote says.
SPECIFICATION Spec
CONSTANTS
    PositionIds = {p1}
    Symbols = {s1}
    SymbolOf <- OneSymbol
    SideOf <- AllLong
    Prefix <- OnePrefix
    Workers = {w1}
    OrderIds = {o1}
    NoRow = NoRow
    NoOrder = NoOrder
    NoId = NoId
    NoPlan = NoPlan
    MaxQty = 1
    MaxHeld = 1
    MaxPlans = 1
INVARIANT ExitsAreAuthorized
CHECK_DEADLOCK FALSE
