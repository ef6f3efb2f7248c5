SPECIFICATION FairSpec
CONSTANTS
    claude = claude
    cursor = cursor
    ollama = ollama
    perplexity = perplexity
    Prompts = {p1}
    Tools <- MCTools
    Adapters = {claude, cursor, ollama}
    Eager = {claude}
    Deferred = {cursor}
    Priority <- MCPriority
    Strategy = "round_robin"
    Cap = 1
    MaxOut = 3
    MaxErr = 2
    MayWedge = {p1}
    NoTool = NoTool
    NoOutput = NoOutput
INVARIANT OutputComplete
PROPERTY ExitedIsAnswered
CHECK_DEADLOCK FALSE
