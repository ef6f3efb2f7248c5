SPECIFICATION Spec
CONSTANTS
    slash = slash
    wide = wide
    combining = combining
    Chars = {slash, wide, combining}
    Slash = slash
    Width <- MCWidth
    MaxInput = 2
    MaxLines = 2
    MaxScroll = 3
    Page = 2
    Bottom = 3
    Sessions = {s1, s2}
    Project = {s1}
    Matching = {s2}
    Recent = 1
    Query = "query"
INVARIANT ColumnFollows
INVARIANT TitleMatchesList
CHECK_DEADLOCK FALSE
