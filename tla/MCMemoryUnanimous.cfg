\* A trade all the agents agreed on.
SPECIFICATION Spec
CONSTANTS
    None = None
    MinSamples = 2
    Positions = {1, 2}
    Workers = {w1, w2}
    Evidence <- MCUnanimous
    Queries <- MCQueries
    MaxTime = 3
INVARIANTS
    SummariesAreGiven
CHECK_DEADLOCK FALSE
