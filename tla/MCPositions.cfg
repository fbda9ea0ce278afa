\* Two positions of one symbol, two exit plans, a monitor's passes, and someone
\* else who trades the symbol once.
SPECIFICATION Spec
CONSTANTS
    PositionIds = {p1, p2}
    Symbols = {s1}
    SymbolOf <- OneSymbol
    SideOf <- AllLong
    Prefix <- OnePrefix
    Workers = {w1}
    OrderIds = {o1, o2}
    NoRow = NoRow
    NoOrder = NoOrder
    NoId = NoId
    NoPlan = NoPlan
    MaxQty = 2
    MaxHeld = 2
    MaxPlans = 2
SYMMETRY Interchangeable
INVARIANTS
    TypeOK
    ExitsFitThePosition
    FlagsHaveCause
PROPERTIES
    OneExitNeverReverses
    MismatchedIsNotDecided
    ImplementsLedger
CHECK_DEADLOCK FALSE
