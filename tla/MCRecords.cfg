SPECIFICATION RecordsSpec
CONSTANTS
    Ids = {i1, i2}
    Tools = {t1, t2}
    Clients = {k1, k2}
    Codes = {c1, c2, c3}
    Day = 2
    Month = 3
    MaxTime = 3
    MaxRows = 2
    MaxEntries = 3
    MaxCount = 2
    MaxLimits = 1
    MaxFailures = 2
    MaxUses = 2
    Limit = 1
    None = None
    Torn = Torn
SYMMETRY Alike
INVARIANT SavedIsFound
INVARIANT QuotaFresh
INVARIANT PagesCover
INVARIANT DailyAgrees
INVARIANT RedeemedWithinLimit
INVARIANT PrintedIsPending
CHECK_DEADLOCK FALSE
