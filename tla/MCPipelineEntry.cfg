\* An approved thesis and the stock order planned for it.
SPECIFICATION Spec
CONSTANTS
    Contexts <- MCContexts
    Markets <- MCMarkets
    Chains <- MCChains
    Quotes <- MCQuotes
    Permissions <- MCPermissions
INVARIANTS
    StockEntriesAreAuthorized
CHECK_DEADLOCK FALSE
