SPECIFICATION Spec
CONSTANTS
    Tools = {claude, gemini}
    claude = claude
    Window = 1
    CleanupAge = 1
    DailyLimit = 1
    MonthlyLimit = 2
    Day = 1
    Month = 3
    FailureThreshold = 1
    RecoveryThreshold = 1
    NoLatency = 1
    Modes = {"local", "server"}
    MaxFrames = 2
    Conns = {c1, c2}
    Ips = {ip}
    IpOf <- MCIpOf
    Dashboards = {d}
    MaxRequests = 2
    MaxConnections = 2
    AutoFailover = TRUE
    DefaultTool = claude
    Latencies = {0}
    MaxTime = 1
    NoTool = NoTool
    NoBucket = NoBucket
    NoQuota = NoQuota
INVARIANT TypeOK
INVARIANT QuotaOvershoot
INVARIANT TotalCoversTools
INVARIANT RelayedWhole
PROPERTY ExcludedStaysOut
SYMMETRY Symmetry
CHECK_DEADLOCK FALSE
