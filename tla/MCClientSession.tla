--------------------------- MODULE MCClientSession ---------------------------
(* Three requests of the user, prompts that stream two messages, and room for *)
(* one in the channel of the terminal interface.                              *)
EXTENDS ClientSession
=============================================================================
