SPECIFICATION FairSpec
CONSTANTS
    Caller = {c1, c2}
    Boot = Boot
INVARIANTS
    TypeOK
    OneCellAtATime
    HeadCanMove
    AnswersFitTogether
PROPERTIES
    EveryCallAnswered
