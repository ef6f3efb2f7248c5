SPECIFICATION Spec
CONSTANTS
    claude = claude
    gemini = gemini
    Tools = {claude, gemini}
    Configured = {claude, gemini}
    Priority <- MCPriority
    Strategy = "on_limit"
    DefaultTool = claude
    MaxExecs = 2
    Interfaces = {"tui", "plain"}
    Sessions = {s1, s2}
    First = s1
    s1 = s1
    Cap = 1
    MaxLines = 1
    MaxNames = 2
    NoTool = NoTool
    NoSession = NoSession
    NoEntry = NoEntry
INVARIANT TypeOK
INVARIANT AnswerAtHome
INVARIANT CombinedIsWhole
INVARIANT NextIsAvailable
INVARIANT NeverSilent
CHECK_DEADLOCK FALSE
