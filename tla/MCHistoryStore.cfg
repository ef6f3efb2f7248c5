SPECIFICATION Spec
CONSTANTS
    Processes = {p1, p2}
    Sessions = {s1, s2, s3}
    NoSession = NoSession
    IndexLimit = 1
    HistoryLimit = 1
    MaxMessages = 2
    MaxMishaps = 1
SYMMETRY Symmetry
CHECK_DEADLOCK FALSE
INVARIANT NothingLost
INVARIANT ListedAsSaved
