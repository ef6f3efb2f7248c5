SPECIFICATION FairSpec
CONSTANTS
    Interfaces = {"tui", "cli", "once"}
    Tools = {claude, gemini}
    Claude = claude
    DefaultTool = gemini
    NoTool = NoTool
    Cap = 1
    MaxRequests = 3
    MaxParts = 1
CHECK_DEADLOCK FALSE
INVARIANT PairedUnlessExhausted
INVARIANT AnswerKept
INVARIANT ToolAgrees
PROPERTY PromptReturns
