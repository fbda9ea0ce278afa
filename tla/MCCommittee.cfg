\* Three confidences, none among them: every combination of the four agents.
SPECIFICATION Spec
CONSTANTS
    Full = 10
    Confidences = {0, 3, 10}
    EnableRebuttal = TRUE
INVARIANTS
    TypeOK
    AtMostOneIsSilent
    LongNeedsSupport
    ShortNeedsSupport
PROPERTIES
    ChallengesHaveOpponents
