\* Two prices, every hard gate, every reduction, and a market that moves between the stages.
SPECIFICATION Spec
CONSTANTS
    Contexts <- MCContexts
    Markets <- MCMarkets
    Chains <- MCChains
    Quotes <- MCQuotes
    Permissions <- MCPermissions
INVARIANTS
    TypeOK
    AuthorizedFitsM4
    PlansFitTheBudget
    RejectionIsFinal
    MoreExposureNeverHelps
    OrdersStayNearTheCeiling
CHECK_DEADLOCK FALSE
