-------------------------- MODULE MCToolPipeline --------------------------
(* Instances of ToolPipeline for TLC. *)
EXTENDS ToolPipeline, TLC

\* Model values for the tools: an eager adapter, a deferred one, one that never
\* reports a limit, and a tool without an adapter.
CONSTANTS claude, cursor, ollama, perplexity

MCTools == {claude, cursor, ollama, perplexity}
MCFewTools == MCTools \ {ollama}
Symmetry == Permutations(Prompts)
MCPriority == <<claude, perplexity, cursor>>
=============================================================================
