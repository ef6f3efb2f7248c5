-------------------------- MODULE MCConnectionLoop --------------------------
(* Instances of ConnectionLoop for TLC. *)
EXTENDS ConnectionLoop

\* Ping and its like; a file of two chunks; a prompt; Disconnect; an Auth that
\* fails, or bytes that do not decode.
MCKinds == {[replies |-> 1, stream |-> 0, fails |-> FALSE],
            [replies |-> 3, stream |-> 0, fails |-> FALSE],
            [replies |-> 0, stream |-> 2, fails |-> FALSE],
            [replies |-> 0, stream |-> 0, fails |-> FALSE],
            [replies |-> 0, stream |-> 0, fails |-> TRUE]}

\* One file, of as many chunks as the channel holds, and no streams.
FileKinds == {[replies |-> Cap + 1, stream |-> 0, fails |-> FALSE]}
=============================================================================
