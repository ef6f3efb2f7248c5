---------------------------- MODULE ClientSession ----------------------------
(***************************************************************************)
(* The client of polyglot-server: ClientConnection (client/src/connection  *)
(* .rs) and the three ways to use it (client/src/main.rs): the terminal    *)
(* interface, the plain command line and the commands that ask once.       *)
(*                                                                         *)
(*   user --> interface --requests--> server                               *)
(*                ^  |                   |                                 *)
(*                |  +--- recv_message <-+-- replies, streams of prompts   *)
(*                |           |                                            *)
(*                +- channel <+   (terminal interface, prompts only)       *)
(*                                                                         *)
(* A message does not say which request it answers: the client takes the   *)
(* next one. Of the server there is what its modules promise: requests are *)
(* handled in order (ReplyOrder), and what a prompt streams ends with one  *)
(* last message, or with none when its tool could not be started           *)
(* (ToolPipeline). Texts and figures are left out.                         *)
(***************************************************************************)
EXTENDS Naturals, Sequences

CONSTANTS
    Interfaces,   \* of "tui", "cli", "once"
    Tools,
    Claude,       \* what set_connected shows until the server names its tool
    DefaultTool,  \* config.tools.default_tool of the server
    NoTool,
    Cap,          \* capacity of the channel of the terminal interface (100)
    MaxRequests,  \* bound: requests of the user
    MaxParts      \* bound: messages streamed for a prompt, but for the last

ASSUME ConstantsAssumption ==
    /\ Interfaces \subseteq {"tui", "cli", "once"}
    /\ Claude \in Tools /\ DefaultTool \in Tools /\ NoTool \notin Tools
    /\ Cap \in Nat \ {0} /\ MaxRequests \in Nat /\ MaxParts \in Nat

VARIABLES
    ui,        \* the interface in use
    at,        \* where the client is
    link,      \* "none": no streams; "up"; "lost": the connection has failed
    asked,     \* requests of the user sent so far; 0 while connecting
    asking,    \* what the last one was
    hand,      \* the message prompt_streaming is putting into the channel
    channel,   \* response_tx .. response_rx
    shown,     \* messages of each prompt that came out of the channel
    tool,      \* app.current_tool
    exhausted, \* history: a rate limit without another tool was received
    up,        \* requests on their way to the server
    wire,      \* messages on their way to the client
    stage,     \* of a prompt's stream: "none", "running", "limited", "ended"
    streamed,  \* messages streamed for a prompt
    selected   \* the server's current_tool

client == <<ui, at, link, asked, asking, hand, channel, shown, tool, exhausted>>
server == <<stage, streamed, selected>>
vars == <<client, up, wire, server>>

Requests == 1..MaxRequests
Commands == {"usage", "tools", "switch", "sync", "health"}
Request == [req : 0..MaxRequests, tool : Tools \cup {NoTool},
            kind : Commands \cup {"handshake", "auth", "version", "prompt"}]
Message == [req : 0..MaxRequests, tool : Tools \cup {NoTool}, part : 0..(MaxParts + 1),
            kind : Commands \cup {"handshake", "auth", "version", "refusal", "error",
                                 "out", "notice", "exhausted", "done"}]
Nothing == [req |-> 0, kind |-> "none", part |-> 0, tool |-> NoTool]

Init ==
    /\ ui \in Interfaces
    /\ at = "connect" /\ link = "none"
    /\ asked = 0 /\ asking = "none"
    /\ hand = Nothing /\ channel = <<>>
    /\ shown = [r \in Requests |-> 0]
    /\ tool = NoTool /\ exhausted = FALSE
    /\ up = <<>> /\ wire = <<>>
    /\ stage = [r \in Requests |-> "none"]
    /\ streamed = [r \in Requests |-> 0]
    /\ selected = NoTool

-----------------------------------------------------------------------------
(* The server, as its own modules describe it.                             *)

Msg(r, k, n, t) == [req |-> r, kind |-> k, part |-> n, tool |-> t]

\* What a request can be answered with: a reply of its own kind, AuthResult
\* without success, ServerMessage::Error. Requests for the health, the quota, the
\* metrics and the history ("health") fall to the last arm: Unhandled message.
Replies(k) ==
    IF k = "auth" THEN {"auth", "refusal"}
    ELSE IF k = "health" THEN {"error"}
    ELSE IF k \in {"handshake", "switch", "sync"} THEN {k, "error"}
    ELSE {k}

\* handle_message for the next request, but a prompt: one reply.
Answer ==
    /\ link = "up" /\ up # <<>>
    /\ LET q == Head(up) IN
       /\ q.kind # "prompt"
       /\ \E k \in Replies(q.kind) :
             /\ selected' = IF k = "auth" THEN DefaultTool
                            ELSE IF k = "switch" THEN q.tool ELSE selected
             /\ wire' = Append(wire, Msg(q.req, k, 0,
                            IF k \in {"tools", "switch"} THEN selected' ELSE NoTool))
    /\ up' = Tail(up)
    /\ UNCHANGED <<client, stage, streamed>>

\* The Prompt arm spawns the relay, which has sent nothing yet, and returns.
Spawn ==
    /\ link = "up" /\ up # <<>> /\ Head(up).kind = "prompt"
    /\ stage' = [stage EXCEPT ![Head(up).req] = "running"]
    /\ streamed' = [streamed EXCEPT ![Head(up).req] = 0]
    /\ up' = Tail(up)
    /\ UNCHANGED <<client, wire, selected>>

Streaming(r) == link = "up" /\ stage[r] \in {"running", "limited"}

Send(r, k) ==
    /\ streamed' = [streamed EXCEPT ![r] = @ + 1]
    /\ wire' = Append(wire, Msg(r, k, streamed[r] + 1, NoTool))
    /\ UNCHANGED <<client, up, selected>>

\* A line of output, or a rate limit reported while the tool goes on.
Stream(r) ==
    /\ Streaming(r) /\ streamed[r] < MaxParts
    /\ \E k \in {"out", "notice", "exhausted"} :
          /\ Send(r, k)
          /\ stage' = [stage EXCEPT ![r] = IF k = "out" THEN @ ELSE "limited"]

\* The last message: Done or Error, which both end the answer, or what a rate
\* limit leads to, once more if it was reported before.
Finish(r) ==
    /\ Streaming(r)
    /\ \E k \in {"notice", "exhausted"}
                \cup (IF stage[r] = "limited" THEN {} ELSE {"done"}) : Send(r, k)
    /\ stage' = [stage EXCEPT ![r] = "ended"]

\* No adapter, or a tool that cannot be started: execute's error goes to no one.
EndUnanswered(r) ==
    /\ Streaming(r) /\ streamed[r] = 0
    /\ stage' = [stage EXCEPT ![r] = "ended"]
    /\ UNCHANGED <<client, up, wire, streamed, selected>>

-----------------------------------------------------------------------------
(* Connecting: handshake and authentication, then, for an interface, the   *)
(* tools and the version; a failure leads on to the interface all the same. *)

\* What is asked while connecting, by what was asked before.
Following == [none |-> "handshake", handshake |-> "auth", auth |-> "tools", tools |-> "version"]
Last == IF ui = "once" THEN "auth" ELSE "version"
Ready == IF ui = "once" THEN "over" ELSE "idle"

rest == <<hand, channel, shown, server>>

Connect ==
    /\ at = "connect"
    /\ \/ link' = "up" /\ at' = "start"
       \/ UNCHANGED link /\ at' = Ready
    /\ UNCHANGED <<ui, asked, asking, tool, exhausted, up, wire, rest>>

\* send_message
Ask(k, t, l, n) ==
    /\ link = "up"
    /\ asked' = n /\ asking' = k
    /\ up' = Append(up, [req |-> n, kind |-> k, tool |-> t])
    /\ at' = l
    /\ UNCHANGED <<ui, link, tool, exhausted, wire, rest>>

Start == at = "start" /\ Ask(Following[asking], NoTool, "greet", 0)

\* send_message on a connection that is gone, while starting.
StartFails ==
    /\ at = "start" /\ link = "lost"
    /\ at' = Ready
    /\ UNCHANGED <<ui, link, asked, asking, tool, exhausted, up, wire, rest>>

-----------------------------------------------------------------------------
(* What the user asks for. A request on a connection that is gone gives an  *)
(* error line and nothing else.                                             *)

\* handle_command; the plain command line knows two.
CommandsOf == [tui |-> Commands \ {"health"}, cli |-> {"usage", "tools"}]

ToolsNamed(k) == IF k = "switch" THEN Tools ELSE IF k = "prompt" THEN {tool} ELSE {NoTool}

AskFor(k, l) == asked < MaxRequests /\ \E t \in ToolsNamed(k) : Ask(k, t, l, asked + 1)

\* usage, list_tools, select_tool, sync: ask, then read once.
Command == at = "idle" /\ \E k \in CommandsOf[ui] : AskFor(k, "reply")

\* prompt_streaming for the terminal interface, prompt for the command line.
Prompt == at = "idle" /\ AskFor("prompt", IF ui = "tui" THEN "stream" ELSE "reply")

\* polyglot prompt, sync, usage, tools, switch, health ...
RunOnce == at = "once" /\ \E k \in Commands \cup {"prompt"} : AskFor(k, "reply")

\* disconnect: the streams are dropped, the connection closed.
Quit ==
    /\ at = "idle"
    /\ at' = "over" /\ link' = "none"
    /\ UNCHANGED <<ui, asked, asking, tool, exhausted, up, wire, rest>>

-----------------------------------------------------------------------------
(* What comes back.                                                        *)

\* recv_message: the next message, whatever it answers.
Take ==
    /\ wire # <<>>
    /\ wire' = Tail(wire)
    /\ exhausted' = (exhausted \/ Head(wire).kind = "exhausted")

\* The reply to a request of the script: handshake and auth must succeed.
Started ==
    /\ at = "greet"
    /\ Take
    /\ LET m == Head(wire) IN
       /\ at' = IF m.kind # asking /\ asking \in {"handshake", "auth"} THEN Ready
                ELSE IF asking # Last THEN "start"
                ELSE IF ui = "once" THEN "once" ELSE "idle"
       /\ tool' = IF ui = "once" \/ m.kind # asking THEN tool
                  ELSE IF m.kind = "auth" THEN Claude
                  ELSE IF m.kind = "tools" THEN m.tool ELSE tool
    /\ UNCHANGED <<ui, link, asked, asking, up, rest>>

\* Seeded fault: the tool changes without a look at what the reply is.
ToolAfterAny(m) == IF asking \in {"tools", "switch"} THEN m.tool ELSE tool

\* app.current_tool: from the ToolList or the ToolSwitched that was asked for.
ToolAfter(m) == IF m.kind = asking /\ asking \in {"tools", "switch"} THEN m.tool ELSE tool

\* The terminal interface reads the reply to a command.
Replied ==
    /\ at = "reply" /\ ui = "tui"
    /\ Take
    /\ at' = "idle"
    /\ tool' = ToolAfter(Head(wire))
    /\ UNCHANGED <<ui, link, asked, asking, up, rest>>

\* The command line prints the one message it reads, of a prompt as well.
PrintedLine ==
    /\ at = "reply" /\ ui = "cli"
    /\ Take
    /\ at' = "idle"
    /\ UNCHANGED <<ui, link, asked, asking, tool, up, rest>>

\* And so do run_prompt, run_sync, run_usage ..., which then end or exit.
PrintedOnce ==
    /\ at = "reply" /\ ui = "once"
    /\ Take
    /\ at' = "over" /\ link' = "none"
    /\ UNCHANGED <<ui, asked, asking, tool, up, rest>>

\* Seeded fault: a switch notice ends the answer.
EndsAtNotice(m) == m.kind \in {"done", "notice", "exhausted"}

\* is_done of prompt_streaming
Ends(m) == m.kind \in {"done", "error", "exhausted"}

\* prompt_streaming: the next message, and into the channel with it.
StreamTake ==
    /\ at = "stream"
    /\ Take
    /\ hand' = Head(wire)
    /\ at' = "give"
    /\ UNCHANGED <<ui, link, asked, asking, channel, shown, tool, up, server>>

Room == Len(channel) < Cap

\* Seeded fault: try_send.
GiveOrDrop ==
    /\ at = "give"
    /\ channel' = IF Room THEN Append(channel, hand) ELSE channel
    /\ hand' = Nothing
    /\ at' = IF Ends(hand) THEN "idle" ELSE "stream"
    /\ UNCHANGED <<ui, link, asked, asking, shown, tool, exhausted, up, wire, server>>

\* `response_tx.send(response).await`, in the task that would receive.
Give ==
    /\ at = "give" /\ Room
    /\ channel' = Append(channel, hand)
    /\ hand' = Nothing
    /\ at' = IF Ends(hand) THEN "idle" ELSE "stream"
    /\ UNCHANGED <<ui, link, asked, asking, shown, tool, exhausted, up, wire, server>>

\* The other branch of the select!: what no prompt streams is ignored.
Show ==
    /\ at = "idle" /\ channel # <<>>
    /\ LET m == Head(channel) IN
       shown' = IF m.part = 0 THEN shown ELSE [shown EXCEPT ![m.req] = @ + 1]
    /\ channel' = Tail(channel)
    /\ UNCHANGED <<ui, at, link, asked, asking, hand, tool, exhausted, up, wire, server>>

Cut == link = "lost" /\ wire = <<>>

\* Seeded fault: prompt_streaming does not leave its loop on an error.
RecvFailsOnce ==
    /\ at \in {"greet", "reply"} /\ Cut
    /\ at' = Ready
    /\ UNCHANGED <<ui, link, asked, asking, tool, exhausted, up, wire, rest>>

\* recv_message fails once what had arrived is read; the interface goes on.
RecvFails ==
    /\ at \in {"greet", "reply", "stream"} /\ Cut
    /\ at' = Ready
    /\ UNCHANGED <<ui, link, asked, asking, tool, exhausted, up, wire, rest>>

-----------------------------------------------------------------------------
(* The connection fails, or the server ends it (a handler's error): what is *)
(* on its way may be lost from some point on.                               *)
Lose ==
    /\ link = "up"
    /\ link' = "lost" /\ up' = <<>>
    /\ \E n \in 0..Len(wire) : wire' = SubSeq(wire, 1, n)
    /\ UNCHANGED <<ui, at, asked, asking, tool, exhausted, rest>>

\* max_idle_timeout, with no keep-alive: nothing comes while the client waits.
IdleTimeout ==
    /\ link = "up" /\ wire = <<>> /\ at \in {"greet", "reply", "stream"}
    /\ link' = "lost" /\ up' = <<>>
    /\ UNCHANGED <<ui, at, asked, asking, tool, exhausted, wire, rest>>

Server == Answer \/ Spawn
Relay(r) == Stream(r) \/ Finish(r) \/ EndUnanswered(r)
Receive ==
    \/ Started \/ Replied \/ PrintedLine \/ PrintedOnce
    \/ StreamTake \/ Give \/ RecvFails

Next ==
    \/ Connect \/ Start \/ StartFails
    \/ Command \/ Prompt \/ RunOnce \/ Quit
    \/ Receive \/ Show
    \/ Server \/ \E r \in Requests : Relay(r)
    \/ Lose \/ IdleTimeout

Spec == Init /\ [][Next]_vars

\* The client's task is polled, and a connection on which nothing moves times
\* out. Nothing is assumed of the user, the server or its tools.
Fairness == WF_vars(Receive) /\ WF_vars(Show) /\ WF_vars(IdleTimeout)

FairSpec == Spec /\ Fairness

-----------------------------------------------------------------------------
(* Every variable has its type and the channel keeps its capacity. *)
TypeOK ==
    /\ ui \in Interfaces
    /\ at \in {"connect", "start", "greet", "once", "idle", "reply", "stream", "give", "over"}
    /\ link \in {"none", "up", "lost"}
    /\ asked \in 0..MaxRequests
    /\ asking \in Commands \cup {"none", "handshake", "auth", "version", "prompt"}
    /\ hand \in Message \cup {Nothing} /\ (at = "give") = (hand # Nothing)
    /\ channel \in Seq(Message) /\ Len(channel) <= Cap
    /\ shown \in [Requests -> Nat]
    /\ tool \in Tools \cup {NoTool}
    /\ exhausted \in BOOLEAN
    /\ up \in Seq(Request) /\ wire \in Seq(Message)
    /\ stage \in [Requests -> {"none", "running", "limited", "ended"}]
    /\ streamed \in [Requests -> 0..(MaxParts + 1)]
    /\ selected \in Tools \cup {NoTool}

\* The message a waiting request is about to take answers that request.
Paired ==
    at \in {"greet", "reply", "stream"} /\ wire # <<>> => Head(wire).req = asked

(* Messages carry no request number, and the client relies on having read    *)
(* all of one answer before it asks again. In the terminal interface it has, *)
(* until the tool of a prompt reports a rate limit with no tool to switch to *)
(* and goes on: that error ends the prompt for prompt_streaming, not for the *)
(* server.                                                                   *)
PairedUnlessExhausted == ui # "cli" /\ ~exhausted => Paired

\* What is on its way to the screen, oldest first, and where in it a prompt's parts are.
Pipe == channel \o (IF hand = Nothing THEN <<>> ELSE <<hand>>) \o wire
OnTheWay(r) == {i \in DOMAIN Pipe : Pipe[i].req = r}
Parts(r) == {Pipe[i].part : i \in OnTheWay(r)}

(* In the terminal interface an answer comes to the screen in the order it   *)
(* was streamed and without a gap, through the wire, prompt_streaming and    *)
(* the channel; as long as the connection is up, none of it is lost.         *)
AnswerKept ==
    ui = "tui" /\ ~exhausted =>
        \A r \in Requests :
            stage[r] # "none" =>
               /\ \A i, j \in OnTheWay(r) : i < j => Pipe[i].part < Pipe[j].part
               /\ Parts(r) \subseteq (shown[r] + 1)..streamed[r]
               /\ \A n \in Parts(r) : (shown[r] + 1)..n \subseteq Parts(r)
               /\ link = "up" => (shown[r] + 1)..streamed[r] \subseteq Parts(r)

(* Between requests the terminal interface names the tool the server uses,   *)
(* whichever switches were refused or authentications failed.                *)
ToolAgrees == ui = "tui" /\ at = "idle" /\ link = "up" /\ ~exhausted => tool = selected

\* prompt_streaming waits for room in a channel that its own task drains.
Frozen == at = "give" /\ ~Room

(* A prompt gives the terminal interface back, by an answer, an error or the *)
(* idle timeout, unless the answer is longer than the channel.               *)
PromptReturns == at = "stream" ~> (at \in {"idle", "over"} \/ Frozen)
=============================================================================
