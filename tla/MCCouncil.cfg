\* Four symbols of either universe, of which two of a category and three in all go on to the deep
\* analysis, and two become candidates.
SPECIFICATION Spec
CONSTANTS
    None = None
    RealizedVolatility <- MCVolatility
    Symbols <- MCSymbols
    Listings <- MCListings
    ETFs <- MCETFs
    Heard <- MCHeard
    Weights <- MCWeights
    MinPrice = 500
    MinDollarVolume = 5000000
    MinHistory = 50
    MaxPerGroup = 2
    DeepK = 3
    FinalK = 2
    Log10 <- MCLog10
    Requests <- MCRequests
INVARIANTS
    TypeOK
    FinalistsAreBest
    TotalsStayInRange
    CompleteRunsAddUp
