SPECIFICATION FairSpec
CONSTANTS
    MaxLevel = 2
    HISTORY = 2
    MaxInFlight = 2
    MaxFrames = 2
INVARIANTS
    TypeOK
    RingsFollowAnswers
    VisibleTabIsFresh
PROPERTIES
    DetailsCatchUp
