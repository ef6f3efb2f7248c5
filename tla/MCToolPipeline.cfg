SPECIFICATION Spec
CONSTANTS
    claude = claude
    cursor = cursor
    ollama = ollama
    perplexity = perplexity
    Prompts = {p1, p2}
    Tools <- MCFewTools
    Adapters = {claude, cursor}
    Eager = {claude}
    Deferred = {cursor}
    Priority <- MCPriority
    Strategy = "on_limit"
    Cap = 1
    MaxOut = 1
    MaxErr = 1
    MayWedge = {}
    NoTool = NoTool
    NoOutput = NoOutput
INVARIANT MarkedBeforeNotice
INVARIANT NoMutualSwitch
INVARIANT UsageAccounted
SYMMETRY Symmetry
CHECK_DEADLOCK FALSE
