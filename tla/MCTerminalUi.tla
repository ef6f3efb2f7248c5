---------------------------- MODULE MCTerminalUi ----------------------------
EXTENDS TerminalUi

\* A slash, a wide character and a combining one.
CONSTANTS slash, wide, combining

MCWidth == [c \in Chars |-> CASE c = slash -> 1 [] c = wide -> 2 [] c = combining -> 0]
=============================================================================
