----------------------------- MODULE ReplyOrder -----------------------------
(***************************************************************************)
(* What a connection of polyglot-server promises its client: requests are  *)
(* answered in the order they were sent, nothing is lost, repeated or      *)
(* invented, and the output a prompt streams comes in its own order, after *)
(* the replies to what was asked before it.  ConnectionLoop implements it. *)
(***************************************************************************)
EXTENDS Naturals, Sequences, FiniteSets

CONSTANT Kinds  \* requests, by the number of replies and of streamed messages

VARIABLES
    asked,  \* the requests sent
    got     \* the messages received: part n of what answers request r

vars == <<asked, got>>

Count(msgs, r) == Cardinality({i \in DOMAIN msgs : msgs[i].req = r})

Init == asked = <<>> /\ got = <<>>

Ask ==
    /\ \E k \in Kinds : asked' = Append(asked, k)
    /\ UNCHANGED got

\* The next message for request r: a reply to it waits for those of the earlier
\* requests, and so does what its prompt streams.
Answer(r) ==
    /\ Count(got, r) < asked[r].replies + asked[r].stream
    /\ \A q \in 1..(r - 1) : Count(got, q) >= asked[q].replies
    /\ got' = Append(got, [req |-> r, part |-> Count(got, r) + 1])
    /\ UNCHANGED asked

Next == Ask \/ \E r \in DOMAIN asked : Answer(r)

Spec == Init /\ [][Next]_vars
=============================================================================
