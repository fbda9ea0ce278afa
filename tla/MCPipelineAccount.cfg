\* An account that cannot be read.
SPECIFICATION Spec
CONSTANTS
    Contexts <- MCContexts
    Markets <- MCMarkets
    Chains <- MCChains
    Quotes <- MCQuotes
    Permissions <- MCPermissions
INVARIANTS
    UnreadableAccountIsRejected
CHECK_DEADLOCK FALSE
