SPECIFICATION FairSpec
CONSTANTS
    Kinds <- MCKinds
    Cap = 2
    MaxRequests = 4
PROPERTY InOrder
PROPERTY AnsweredUnlessWedged
PROPERTY RelaysEnd
CHECK_DEADLOCK FALSE
