\* Two threads, three calls, two trades of which one is evaluated again, and crashes.
SPECIFICATION Spec
CONSTANTS
    None = None
    MinSamples = 2
    Positions = {1, 2}
    Workers = {w1, w2}
    Evidence <- MCAllEvidence
    Queries <- MCQueries
    MaxTime = 3
SYMMETRY MCSymmetry
INVARIANTS
    TypeOK
    RowsHaveTrades
    NewestFirst
    SummariesAddUp
    CalibrationIsSound
PROPERTIES
    CreatedAtIsKept
    LatestNeverGoesBack
CHECK_DEADLOCK FALSE
