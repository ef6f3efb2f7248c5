---------------------------- MODULE MCLocalChat ----------------------------
EXTENDS LocalChat

CONSTANTS claude, gemini
MCPriority == <<claude, gemini>>
=============================================================================
