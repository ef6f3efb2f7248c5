SPECIFICATION FairSpec
CONSTANTS
    Kinds <- FileKinds
    Cap = 2
    MaxRequests = 1
PROPERTY AlwaysAnswered
CHECK_DEADLOCK FALSE
