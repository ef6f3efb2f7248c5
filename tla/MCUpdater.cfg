SPECIFICATION UpdaterSpec
CONSTANTS
    v1 = v1
    rc = rc
    server = server
    client = client
    Updaters = {u1, u2}
    Programs = {server, client}
    Careful = {server}
    Versions = {v1, rc}
    Tag <- MCTag
    NoNum = NoNum
    First = v1
    Keep = 2
    MaxTime = 1
    MaxUpdates = 3
    Torn = Torn
    Junk = Junk
    NoFile = NoFile
INVARIANT AlwaysRunnable
INVARIANT BackupSurvives
PROPERTY OnlyForward
CHECK_DEADLOCK FALSE
SYMMETRY Symm
