--------------------------- MODULE ConnectionLoop ---------------------------
(***************************************************************************)
(* One connection of polyglot-server: the loop of handle_connection        *)
(* (server/src/main.rs), the replies handle_message sends, and the tasks   *)
(* that stream what prompts print.                                         *)
(*                                                                         *)
(*   client --requests--> loop: read, decode, handle --+                   *)
(*                                                     +--> channel --+    *)
(*                       relays, one per prompt -------+              |    *)
(*   client <--messages-- loop: write <-------------------------------+    *)
(*                                                                         *)
(* The loop is one task: while it handles a request it does not write, and *)
(* a handler that finds the channel full waits for a place in it.          *)
(*                                                                         *)
(* A request is known by the number of replies its handler sends and of    *)
(* messages its relay streams.  Bytes are left out: what a read brings is  *)
(* some number of whole requests (decode_client_message keeps the rest).   *)
(* The client reads what it is sent, and QUIC keeps the order.             *)
(***************************************************************************)
EXTENDS Naturals, Sequences, FiniteSets

CONSTANTS
    Kinds,       \* requests, as [replies, stream, fails]
    Cap,         \* capacity of the response channel (100 in the code)
    MaxRequests  \* bound: requests on the connection

ASSUME KindsAssumption ==
    /\ Kinds \subseteq [replies : Nat, stream : Nat, fails : BOOLEAN]
    /\ \A k \in Kinds : k.replies = 0 \/ k.stream = 0
    /\ \A k \in Kinds : k.fails => k.replies = 0 /\ k.stream = 0
ASSUME BoundsAssumption == Cap \in Nat \ {0} /\ MaxRequests \in Nat

Message == [req : 1..MaxRequests, part : Nat]

VARIABLES
    sent,     \* the requests the client has sent
    gone,     \* the client has closed the stream or the connection is lost
    turn,     \* of the loop: "select", "decode", "handle", "ended"
    arrived,  \* requests read from the stream
    handled,  \* requests given to handle_message
    next,     \* the next reply of the request being handled
    streamed, \* per request, messages its relay is done with
    channel,  \* response_tx .. response_rx
    got       \* what was written to the client

vars == <<sent, gone, turn, arrived, handled, next, streamed, channel, got>>

Init ==
    /\ sent = <<>> /\ gone = FALSE
    /\ turn = "select" /\ arrived = 0 /\ handled = 0 /\ next = 1
    /\ streamed = [r \in 1..MaxRequests |-> 0]
    /\ channel = <<>> /\ got = <<>>

-----------------------------------------------------------------------------
(* The client.                                                             *)

Ask(k) ==
    /\ ~gone /\ Len(sent) < MaxRequests
    /\ sent' = Append(sent, k)
    /\ UNCHANGED <<gone, turn, arrived, handled, next, streamed, channel, got>>

HangUp ==
    /\ ~gone
    /\ gone' = TRUE
    /\ UNCHANGED <<sent, turn, arrived, handled, next, streamed, channel, got>>

-----------------------------------------------------------------------------
(* The loop.                                                               *)

\* A read brings the requests up to some point of the stream.
Read ==
    /\ turn = "select"
    /\ \E n \in (arrived + 1)..Len(sent) : arrived' = n
    /\ turn' = "decode"
    /\ UNCHANGED <<sent, gone, handled, next, streamed, channel, got>>

\* `while let Some(msg) = reader.try_read()`: the next request buffered, or
\* back to select.
Decode ==
    /\ turn = "decode"
    /\ IF handled < arrived
       THEN turn' = "handle" /\ handled' = handled + 1 /\ next' = 1
       ELSE turn' = "select" /\ UNCHANGED <<handled, next>>
    /\ UNCHANGED <<sent, gone, arrived, streamed, channel, got>>

Room == Len(channel) < Cap

\* Seeded fault: try_send, which drops the reply when the channel is full.
ReplyOrDrop ==
    /\ turn = "handle" /\ ~sent[handled].fails /\ next <= sent[handled].replies
    /\ channel' = IF Room THEN Append(channel, [req |-> handled, part |-> next]) ELSE channel
    /\ next' = next + 1
    /\ UNCHANGED <<sent, gone, turn, arrived, handled, streamed, got>>

\* `response_tx.send(..).await`.
Reply ==
    /\ turn = "handle" /\ next <= sent[handled].replies
    /\ Room
    /\ channel' = Append(channel, [req |-> handled, part |-> next])
    /\ next' = next + 1
    /\ UNCHANGED <<sent, gone, turn, arrived, handled, streamed, got>>

\* Seeded fault: after a request the loop goes straight back to select.
ReturnToSelect ==
    /\ turn = "handle" /\ ~sent[handled].fails /\ next > sent[handled].replies
    /\ turn' = "select"
    /\ UNCHANGED <<sent, gone, arrived, handled, next, streamed, channel, got>>

Return ==
    /\ turn = "handle" /\ ~sent[handled].fails /\ next > sent[handled].replies
    /\ turn' = "decode"
    /\ UNCHANGED <<sent, gone, arrived, handled, next, streamed, channel, got>>

\* handle_connection returns: the receiver is dropped with what it holds.
End ==
    /\ turn' = "ended" /\ channel' = <<>>
    /\ UNCHANGED <<sent, gone, arrived, handled, next, streamed, got>>

\* `?`: the request could not be decoded, or its handler failed.
Fail == turn = "handle" /\ sent[handled].fails /\ End

\* The stream is at its end, a read fails, or a write does.
Close == turn = "select" /\ gone /\ End

Write ==
    /\ turn = "select" /\ channel # <<>>
    /\ got' = Append(got, Head(channel))
    /\ channel' = Tail(channel)
    /\ UNCHANGED <<sent, gone, turn, arrived, handled, next, streamed>>

Loop == Read \/ Decode \/ Reply \/ Return \/ Fail \/ Close \/ Write

-----------------------------------------------------------------------------
(* The relays.  What a relay hands on is the `delivered` of ToolPipeline.  *)

Streaming(r) == r <= handled /\ streamed[r] < sent[r].stream

\* Seeded fault: the relay keeps what it cannot send.
RelayWhileOpen(r) ==
    /\ Streaming(r)
    /\ turn # "ended" /\ Room
    /\ channel' = Append(channel, [req |-> r, part |-> streamed[r] + 1])
    /\ streamed' = [streamed EXCEPT ![r] = @ + 1]
    /\ UNCHANGED <<sent, gone, turn, arrived, handled, next, got>>

\* `send(..).await.ok()`: once the receiver is gone a message goes nowhere.
Relay(r) ==
    /\ Streaming(r)
    /\ \/ /\ turn # "ended" /\ Room
          /\ channel' = Append(channel, [req |-> r, part |-> streamed[r] + 1])
       \/ turn = "ended" /\ UNCHANGED channel
    /\ streamed' = [streamed EXCEPT ![r] = @ + 1]
    /\ UNCHANGED <<sent, gone, turn, arrived, handled, next, got>>

Next ==
    \/ \E k \in Kinds : Ask(k)
    \/ HangUp
    \/ Loop
    \/ \E r \in 1..MaxRequests : Relay(r)

Spec == Init /\ [][Next]_vars

\* The runtime polls the loop and every relay.  select! picks between reading
\* and writing at random; with MaxRequests reads at most, neither starves.
Fairness == WF_vars(Loop) /\ \A r \in 1..MaxRequests : WF_vars(Relay(r))

FairSpec == Spec /\ Fairness

-----------------------------------------------------------------------------
(* Every variable has its type; the channel keeps its capacity, and the loop
   never gets ahead of the client. *)
TypeOK ==
    /\ sent \in Seq(Kinds) /\ Len(sent) <= MaxRequests
    /\ gone \in BOOLEAN
    /\ turn \in {"select", "decode", "handle", "ended"}
    /\ arrived \in 0..Len(sent) /\ handled \in 0..arrived /\ next \in Nat \ {0}
    /\ turn = "handle" => handled > 0
    /\ streamed \in [1..MaxRequests -> Nat]
    /\ channel \in Seq(Message) /\ Len(channel) <= Cap
    /\ got \in Seq(Message)

Promise == INSTANCE ReplyOrder WITH asked <- sent

(* The loop keeps the order of replies: with requests pipelined, prompts
   streaming into the same channel and the connection ending anywhere, what
   the client has received is a run of ReplyOrder. *)
InOrder == Promise!Spec

\* The handler waits for a place in the channel that only the loop, which is
\* waiting for the handler, could make.
Wedged == turn = "handle" /\ next <= sent[handled].replies /\ ~Room

Complete(r) == Promise!Count(got, r) = sent[r].replies + sent[r].stream
Sent(r) == r <= Len(sent)
Over == turn = "ended" \/ gone

(* A request is answered in full, unless the connection ends or wedges: no
   request stays in the reader's buffer and no relay starves. *)
AnsweredUnlessWedged ==
    \A r \in 1..MaxRequests : Sent(r) ~> (Sent(r) /\ Complete(r)) \/ Wedged \/ Over

(* When the connection has ended its relays run dry: none is left waiting for
   a channel that nobody reads, holding its tool's output. *)
RelaysEnd ==
    turn = "ended" ~> \A r \in 1..MaxRequests : ~Streaming(r)

(* README, "File Sync: Real-time or on-demand file synchronization in
   client-server mode": a file that is requested arrives, as does everything
   else that is asked of a connection that stays up.  (A reply of more chunks
   than the channel holds, or a stream that fills it during a request, stops
   the loop for good.) *)
AlwaysAnswered ==
    \A r \in 1..MaxRequests : Sent(r) ~> (Sent(r) /\ Complete(r)) \/ Over
=============================================================================
