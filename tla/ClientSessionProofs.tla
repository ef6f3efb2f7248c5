-------------------------- MODULE ClientSessionProofs --------------------------
(***************************************************************************)
(* What a client of ClientSession reads answers what it asked.             *)
(*                                                                         *)
(* Nothing in a message says which request it is for. So the invariant has  *)
(* to say that a client that is not waiting has nothing on its way (Quiet), *)
(* that one that waits has on its way only what answers its last request   *)
(* (Belonging), of a command one message (Single), and that nothing follows *)
(* the message that ends an answer (Closing).                              *)
(*                                                                         *)
(* That an answer comes whole to the screen is then shown on the one       *)
(* sequence it passes through, the channel, the hands of prompt_streaming  *)
(* and the wire (Pipe): taking and giving do not change it, showing takes  *)
(* its head, streaming appends to it, a command's reply is taken from its  *)
(* middle, and a connection that fails cuts it off (KeptInv).              *)
(***************************************************************************)
EXTENDS ClientSession, TLAPS

Asking == {"greet", "reply", "stream", "give"}
Live(r) == stage[r] \in {"running", "limited"}
Idle == \A r \in Requests : ~Live(r)
Clear == up = <<>> /\ wire = <<>> /\ Idle
Final(m) == m.kind \in {"done", "error"}

\* Where the client can be, by its interface and its last request.
Places ==
    /\ at = "connect" => link = "none" /\ asking = "none"
    /\ at = "start" => asking \in {"none", "handshake"} \cup (IF ui = "once" THEN {} ELSE {"auth", "tools"})
    /\ at = "greet" => asking \in {"handshake", "auth"} \cup (IF ui = "once" THEN {} ELSE {"tools", "version"})
    /\ at = "idle" => ui \in {"tui", "cli"}
    /\ at = "once" => ui = "once"
    /\ at \in {"stream", "give"} => ui = "tui" /\ asking = "prompt"
    /\ at = "reply" => asking \in Commands \cup (IF ui = "tui" THEN {} ELSE {"prompt"})
    /\ \A r \in Requests : Live(r) => streamed[r] <= MaxParts

Quiet == at = "connect" \/ (link = "up" /\ at \in {"start", "once", "idle"}) => Clear

Belonging ==
    at \in Asking =>
        /\ \A i \in 1..Len(wire) : wire[i].req = asked
        /\ link = "up" =>
              /\ \A i \in 1..Len(up) : up[i].req = asked /\ up[i].kind = asking
              /\ up # <<>> => Len(up) = 1 /\ wire = <<>> /\ Idle
              /\ \A r \in Requests : Live(r) => r = asked

Single == at \in {"greet", "reply"} /\ asking # "prompt" /\ link = "up" => Len(wire) <= 1 /\ Idle

Closing ==
    at \in {"stream", "give"} /\ link = "up" =>
        /\ \A i \in 1..Len(wire) : Final(wire[i]) => i = Len(wire) /\ up = <<>> /\ Idle
        /\ at = "give" => up = <<>>
        /\ at = "give" /\ Final(hand) => Clear

Noted == at = "give" => hand.kind # "exhausted"

Pairing == ui # "cli" /\ ~exhausted => Quiet /\ Belonging /\ Single /\ Closing /\ Noted

\* A reply to a request for the tools or for a switch, against what both ends
\* will say once it is read.
Settles(m) == IF m.kind = asking THEN m.tool = selected ELSE tool = selected

\* Where both ends name the same tool, and where a reply on its way will see to it.
Agreeing ==
    /\ at = "connect" => tool = selected
    /\ ui = "tui" /\ link = "up" /\ ~exhausted =>
          /\ at \in {"idle", "stream", "give"} => tool = selected
          /\ at = "start" /\ asking # "auth" => tool = selected
          /\ at \in {"greet", "reply"} =>
                /\ up # <<>> /\ asking # "tools" => tool = selected
                /\ asking \in {"tools", "switch"} => \A i \in 1..Len(wire) : Settles(wire[i])
                /\ asking = "auth" =>
                      \A i \in 1..Len(wire) : wire[i].kind # "auth" => tool = selected
                /\ asking \notin {"auth", "tools", "switch"} => tool = selected

IInv == TypeOK /\ Places /\ Pairing /\ Agreeing

-----------------------------------------------------------------------------
(* Types.                                                                  *)

\* What the steps put into the sequences has the types of their elements.
LEMMA MsgType ==
    ASSUME NEW r \in 0..MaxRequests, NEW n \in 0..(MaxParts + 1), NEW t \in Tools \cup {NoTool},
           NEW k \in Commands \cup {"handshake", "auth", "version", "refusal", "error",
                                    "out", "notice", "exhausted", "done"}
    PROVE  Msg(r, k, n, t) \in Message
BY DEF Msg, Message

LEMMA NothingNoMessage == Nothing \notin Message
BY DEF Nothing, Message, Commands

\* Head and tail of a sequence that is not empty.
LEMMA HeadTail ==
    ASSUME NEW S, NEW s \in Seq(S), s # <<>>
    PROVE  /\ Head(s) \in S /\ Tail(s) \in Seq(S)
           /\ Head(s) = s[1] /\ Len(s) >= 1 /\ Len(Tail(s)) = Len(s) - 1
           /\ \A i \in 1..Len(Tail(s)) : Tail(s)[i] = s[i + 1]
OBVIOUS

\* The first messages of the wire are what a lost connection leaves.
LEMMA Cut0 ==
    ASSUME NEW S, NEW s \in Seq(S), NEW n \in 0..Len(s)
    PROVE  /\ SubSeq(s, 1, n) \in Seq(S) /\ Len(SubSeq(s, 1, n)) = n
           /\ \A i \in 1..n : SubSeq(s, 1, n)[i] = s[i]
OBVIOUS

LEMMA TypeStep == TypeOK /\ Places /\ [Next]_vars => TypeOK'
<1> SUFFICES ASSUME TypeOK, Places, [Next]_vars PROVE TypeOK'
  OBVIOUS
<1> USE ConstantsAssumption
<1>1. CASE UNCHANGED vars
  BY <1>1 DEF TypeOK, vars, client, server
<1>2. CASE Connect
  BY <1>2 DEF Connect, rest, server, TypeOK, Ready
<1>3. CASE Start
  BY <1>3 DEF Start, rest, server, TypeOK, Ask, Following, Places, Request, Commands
<1>4. CASE StartFails
  BY <1>4 DEF StartFails, rest, server, TypeOK, Ready
<1>5. CASE Command
  BY <1>5 DEF Command, rest, server, TypeOK, AskFor, Ask, ToolsNamed, CommandsOf, Commands, Places, Request
<1>6. CASE Prompt
  BY <1>6 DEF Prompt, rest, server, TypeOK, AskFor, Ask, ToolsNamed, Commands, Places, Request
<1>7. CASE RunOnce
  BY <1>7 DEF RunOnce, rest, server, TypeOK, AskFor, Ask, ToolsNamed, Commands, Places, Request
<1>8. CASE Quit
  BY <1>8 DEF Quit, rest, server, TypeOK
<1>9. CASE Started
  <2> DEFINE m == Head(wire)
  <2>1. m \in Message /\ Tail(wire) \in Seq(Message)
    BY <1>9, HeadTail DEF Started, Take, TypeOK
  <2>2. m.tool \in Tools \cup {NoTool}
    BY <2>1 DEF Message
  <2> QED
    BY <1>9, <2>1, <2>2 DEF Started, Take, rest, server, TypeOK, Ready, Last
<1>10. CASE Replied
  <2> DEFINE m == Head(wire)
  <2>1. m \in Message /\ Tail(wire) \in Seq(Message)
    BY <1>10, HeadTail DEF Replied, Take, TypeOK
  <2>2. m.tool \in Tools \cup {NoTool}
    BY <2>1 DEF Message
  <2> QED
    BY <1>10, <2>1, <2>2 DEF Replied, Take, rest, server, TypeOK, ToolAfter
<1>11. CASE PrintedLine
  <2> DEFINE m == Head(wire)
  <2>1. m \in Message /\ Tail(wire) \in Seq(Message)
    BY <1>11, HeadTail DEF PrintedLine, Take, TypeOK
  <2>2. m.tool \in Tools \cup {NoTool}
    BY <2>1 DEF Message
  <2> QED
    BY <1>11, <2>1, <2>2 DEF PrintedLine, Take, rest, server, TypeOK
<1>12. CASE PrintedOnce
  <2> DEFINE m == Head(wire)
  <2>1. m \in Message /\ Tail(wire) \in Seq(Message)
    BY <1>12, HeadTail DEF PrintedOnce, Take, TypeOK
  <2>2. m.tool \in Tools \cup {NoTool}
    BY <2>1 DEF Message
  <2> QED
    BY <1>12, <2>1, <2>2 DEF PrintedOnce, Take, rest, server, TypeOK
<1>13. CASE StreamTake
  <2>1. Head(wire) \in Message /\ Tail(wire) \in Seq(Message)
    BY <1>13, HeadTail DEF StreamTake, Take, TypeOK
  <2> QED
    BY <1>13, <2>1, NothingNoMessage DEF StreamTake, Take, server, TypeOK
<1>14. CASE Give
  <2>1. hand \in Message /\ Len(channel) < Cap
    BY <1>14 DEF Give, Room, TypeOK
  <2>2. Append(channel, hand) \in Seq(Message) /\ Len(Append(channel, hand)) <= Cap
    BY <2>1 DEF TypeOK
  <2> QED
    BY <1>14, <2>2 DEF Give, server, TypeOK
<1>15. CASE RecvFails
  BY <1>15 DEF RecvFails, Ready, rest, server, TypeOK
<1>16. CASE Show
  <2>1. Tail(channel) \in Seq(Message) /\ Len(Tail(channel)) <= Cap
    BY <1>16, HeadTail DEF Show, TypeOK
  <2>2. shown \in [Requests -> Nat] /\ \A q \in Requests : shown[q] + 1 \in Nat
    BY DEF TypeOK
  <2>3. shown' = shown \/ shown' = [shown EXCEPT ![Head(channel).req] = @ + 1]
    BY <1>16 DEF Show
  <2>4. shown' \in [Requests -> Nat]
    BY <2>2, <2>3
  <2> QED
    BY <1>16, <2>1, <2>4 DEF Show, server, TypeOK
<1>17. CASE Answer
  <2> DEFINE q == Head(up)
  <2>1. q \in Request /\ Tail(up) \in Seq(Request) /\ q.kind # "prompt"
    BY <1>17, HeadTail DEF Answer, TypeOK
  <2>2. q.req \in 0..MaxRequests /\ q.tool \in Tools \cup {NoTool} /\ q.kind \in Commands \cup {"handshake", "auth", "version"}
    BY <2>1 DEF Request
  <2>3. PICK k \in Replies(q.kind) :
           /\ selected' = IF k = "auth" THEN DefaultTool ELSE IF k = "switch" THEN q.tool ELSE selected
           /\ wire' = Append(wire, Msg(q.req, k, 0, IF k \in {"tools", "switch"} THEN selected' ELSE NoTool))
    BY <1>17 DEF Answer
  <2>4. k \in Commands \cup {"handshake", "auth", "version", "refusal", "error"}
    BY <2>2, <2>3 DEF Replies, Commands
  <2>5. selected' \in Tools \cup {NoTool}
    BY <2>2, <2>3 DEF TypeOK
  <2> DEFINE t == IF k \in {"tools", "switch"} THEN selected' ELSE NoTool
  <2>6. t \in Tools \cup {NoTool} /\ 0 \in 0..(MaxParts + 1)
    BY <2>5
  <2>7. Msg(q.req, k, 0, t) \in Message
    BY <2>2, <2>4, <2>6, MsgType
  <2>8. wire' \in Seq(Message)
    BY <2>3, <2>7 DEF TypeOK
  <2> QED
    BY <1>17, <2>1, <2>5, <2>8 DEF Answer, client, TypeOK
<1>18. CASE Spawn
  <2>1. Tail(up) \in Seq(Request)
    BY <1>18, HeadTail DEF Spawn, TypeOK
  <2>2. stage' \in [Requests -> {"none", "running", "limited", "ended"}]
    BY <1>18 DEF Spawn, TypeOK
  <2>3. streamed' \in [Requests -> 0..(MaxParts + 1)]
    <3>1. 0 \in 0..(MaxParts + 1) /\ streamed \in [Requests -> 0..(MaxParts + 1)]
      BY DEF TypeOK
    <3>2. streamed' = [streamed EXCEPT ![Head(up).req] = 0]
      BY <1>18 DEF Spawn
    <3> QED
      BY <3>1, <3>2
  <2> QED
    BY <1>18, <2>1, <2>2, <2>3 DEF Spawn, client, TypeOK
<1>19. ASSUME NEW r \in Requests, Relay(r) PROVE TypeOK'
  <2>1. r \in 0..MaxRequests /\ streamed[r] \in Nat /\ (Streaming(r) => streamed[r] <= MaxParts)
    BY DEF TypeOK, Places, Live, Streaming, Requests
  <2>2. ASSUME NEW k \in {"out", "notice", "exhausted", "done"}, Streaming(r), Send(r, k)
        PROVE  streamed' \in [Requests -> 0..(MaxParts + 1)] /\ wire' \in Seq(Message)
    <3>1. streamed[r] + 1 \in 0..(MaxParts + 1) /\ NoTool \in Tools \cup {NoTool}
      BY <2>1, <2>2
    <3>2. Msg(r, k, streamed[r] + 1, NoTool) \in Message
      BY <2>1, <3>1, MsgType
    <3> QED
      BY <2>2, <3>1, <3>2 DEF Send, TypeOK
  <2>3. CASE Stream(r)
    BY <2>2, <2>3 DEF Stream, Send, client, TypeOK
  <2>4. CASE Finish(r)
    BY <2>2, <2>4 DEF Finish, Send, client, TypeOK
  <2>5. CASE EndUnanswered(r)
    BY <2>5 DEF EndUnanswered, client, TypeOK
  <2> QED
    BY <1>19, <2>3, <2>4, <2>5 DEF Relay
<1>20. CASE Lose
  <2>1. wire' \in Seq(Message) /\ up' = <<>>
    BY <1>20, Cut0 DEF Lose, TypeOK
  <2> QED
    BY <1>20, <2>1 DEF Lose, rest, server, TypeOK
<1>21. CASE IdleTimeout
  BY <1>21 DEF IdleTimeout, rest, server, TypeOK
<1> QED
  BY <1>1, <1>2, <1>3, <1>4, <1>5, <1>6, <1>7, <1>8, <1>9, <1>10, <1>11, <1>12, <1>13, <1>14, <1>15, <1>16, <1>17, <1>18, <1>19, <1>20, <1>21 DEF Next, Receive, Server

LEMMA PlacesStep == TypeOK /\ Places /\ [Next]_vars => Places'
<1> SUFFICES ASSUME TypeOK, Places, [Next]_vars PROVE Places'
  OBVIOUS
<1> USE ConstantsAssumption DEF Places, Live
<1>1. CASE UNCHANGED vars
  BY <1>1 DEF vars, client, server
<1>2. CASE Connect
  BY <1>2 DEF Connect, Ready, rest, server, TypeOK
<1>3. CASE Start
  BY <1>3 DEF Start, Ask, Following, rest, server, TypeOK
<1>4. CASE StartFails
  BY <1>4 DEF StartFails, Ready, rest, server, TypeOK
<1>5. CASE Command
  <2>1. PICK k \in CommandsOf[ui] : AskFor(k, "reply")
    BY <1>5 DEF Command
  <2>2. k \in Commands /\ at = "idle"
    BY <1>5, <2>1 DEF Command, CommandsOf, Commands
  <2> QED
    BY <2>1, <2>2 DEF AskFor, Ask, rest, server, TypeOK
<1>6. CASE Prompt
  BY <1>6 DEF Prompt, AskFor, Ask, rest, server, TypeOK
<1>7. CASE RunOnce
  BY <1>7 DEF RunOnce, AskFor, Ask, rest, server, TypeOK
<1>8. CASE Quit
  BY <1>8 DEF Quit, rest, server
<1>9. CASE Started
  BY <1>9 DEF Started, Take, Ready, Last, rest, server, TypeOK
<1>10. CASE Replied
  BY <1>10 DEF Replied, Take, rest, server
<1>11. CASE PrintedLine
  BY <1>11 DEF PrintedLine, Take, rest, server
<1>12. CASE PrintedOnce
  BY <1>12 DEF PrintedOnce, Take, rest, server
<1>13. CASE StreamTake
  BY <1>13 DEF StreamTake, Take, server
<1>14. CASE Give
  BY <1>14 DEF Give, server
<1>15. CASE RecvFails
  BY <1>15 DEF RecvFails, Ready, rest, server, TypeOK
<1>16. CASE Show
  BY <1>16 DEF Show, server
<1>17. CASE Answer
  BY <1>17 DEF Answer, client
<1>18. CASE Spawn
  <2>1. ASSUME NEW r \in Requests PROVE stage'[r] \in {"running", "limited"} => streamed'[r] <= MaxParts
    BY <1>18 DEF Spawn, TypeOK
  <2> QED
    BY <1>18, <2>1 DEF Spawn, client
<1>19. ASSUME NEW q \in Requests, Relay(q) PROVE Places'
  <2>1. UNCHANGED client
    BY <1>19 DEF Relay, Stream, Finish, EndUnanswered, Send
  <2>2. ASSUME NEW r \in Requests, stage'[r] \in {"running", "limited"} PROVE streamed'[r] <= MaxParts
    <3>1. CASE Stream(q)
      <4>1. streamed'[r] = IF r = q THEN streamed[q] + 1 ELSE streamed[r]
        BY <3>1 DEF Stream, Send, TypeOK
      <4>2. streamed[q] \in Nat /\ streamed[q] < MaxParts /\ (r # q => stage'[r] = stage[r])
        BY <3>1 DEF Stream, TypeOK
      <4> QED
        BY <2>2, <4>1, <4>2
    <3>2. CASE Finish(q)
      BY <2>2, <3>2 DEF Finish, Send, TypeOK
    <3>3. CASE EndUnanswered(q)
      BY <2>2, <3>3 DEF EndUnanswered, TypeOK
    <3> QED
      BY <1>19, <3>1, <3>2, <3>3 DEF Relay
  <2> QED
    BY <2>1, <2>2 DEF client
<1>20. CASE Lose
  BY <1>20 DEF Lose, rest, server
<1>21. CASE IdleTimeout
  BY <1>21 DEF IdleTimeout, rest, server
<1> QED
  BY <1>1, <1>2, <1>3, <1>4, <1>5, <1>6, <1>7, <1>8, <1>9, <1>10, <1>11, <1>12,
     <1>13, <1>14, <1>15, <1>16, <1>17, <1>18, <1>19, <1>20, <1>21 DEF Next, Receive, Server

-----------------------------------------------------------------------------
(* Pairing.                                                                *)

\* A client with nothing on its way asks, and waits for that answer.
LEMMA AskPairs ==
    ASSUME TypeOK, Clear,
           NEW k, NEW t, NEW l \in {"greet", "reply", "stream"}, NEW n, Ask(k, t, l, n),
           l = "stream" => k = "prompt"
    PROVE  Quiet' /\ Belonging' /\ Single' /\ Closing' /\ Noted'
<1> DEFINE q == [req |-> n, kind |-> k, tool |-> t]
<1>1. up' = <<q>> /\ wire' = <<>> /\ stage' = stage /\ at' = l /\ asked' = n /\ asking' = k
  BY DEF Ask, Clear, rest, server
<1>2. Len(up') = 1 /\ up'[1] = q /\ Len(wire') = 0
  BY <1>1
<1>3. Idle'
  BY <1>1 DEF Clear, Idle, Live
<1> QED
  BY <1>1, <1>2, <1>3 DEF Quiet, Belonging, Single, Closing, Noted, Idle

\* One message was on its way, and it has been taken: nothing is left.
LEMMA TakenLast ==
    ASSUME TypeOK, Belonging, Single, Take, at \in {"greet", "reply"}, asking # "prompt",
           link = "up", UNCHANGED <<up, stage>>
    PROVE  Clear'
<1>1. up = <<>>
  BY DEF Belonging, Asking, Take
<1>2. wire' = <<>>
  <2>1. wire # <<>> /\ wire \in Seq(Message) /\ wire' = Tail(wire) /\ Len(wire) <= 1
    BY DEF Take, Single, TypeOK
  <2>2. Tail(wire) \in Seq(Message) /\ Len(Tail(wire)) = Len(wire) - 1 /\ Len(wire) >= 1
    BY <2>1, HeadTail
  <2>3. Len(wire) \in Nat
    BY <2>1
  <2>4. Len(Tail(wire)) = 0
    BY <2>1, <2>2, <2>3
  <2> QED
    BY <2>1, <2>2, <2>4
<1>3. Idle'
  BY DEF Single, Idle, Live
<1> QED
  BY <1>1, <1>2, <1>3 DEF Clear

LEMMA PairingStep == TypeOK /\ Places /\ Pairing /\ [Next]_vars => Pairing'
<1> SUFFICES ASSUME TypeOK, Places, Pairing, [Next]_vars, ui' # "cli", ~exhausted'
             PROVE  Quiet' /\ Belonging' /\ Single' /\ Closing' /\ Noted'
  BY DEF Pairing
<1>1. CASE UNCHANGED vars
  BY <1>1 DEF Pairing, Quiet, Belonging, Single, Closing, Noted, Clear, Idle, Live, vars, client, server
<1>2. CASE Connect
  <2>1. Clear
    BY <1>2 DEF Connect, Pairing, Quiet
  <2>2. Clear'
    BY <1>2, <2>1 DEF Connect, rest, server, Clear, Idle, Live
  <2> QED
    BY <1>2, <2>2 DEF Connect, Ready, Quiet, Belonging, Single, Closing, Noted, Asking
<1>3. CASE Start
  <2>1. Clear
    BY <1>3 DEF Start, Ask, Pairing, Quiet
  <2> QED
    BY <1>3, <2>1, AskPairs DEF Start
<1>4. CASE StartFails
  BY <1>4 DEF StartFails, Ready, Quiet, Belonging, Single, Closing, Noted, Asking
<1>5. ASSUME NEW k, NEW l \in {"reply", "stream"}, l = "stream" => k = "prompt",
             at \in {"idle", "once"}, AskFor(k, l)
      PROVE  Quiet' /\ Belonging' /\ Single' /\ Closing' /\ Noted'
  <2>1. PICK t \in ToolsNamed(k) : Ask(k, t, l, asked + 1)
    BY <1>5 DEF AskFor
  <2>2. Clear
    BY <1>5, <2>1 DEF Ask, Pairing, Quiet, rest
  <2> QED
    BY <1>5, <2>1, <2>2, AskPairs
<1>6. CASE Command
  BY <1>5, <1>6 DEF Command
<1>7. CASE Prompt
  BY <1>5, <1>7 DEF Prompt
<1>8. CASE RunOnce
  BY <1>5, <1>8 DEF RunOnce
<1>9. CASE Quit
  BY <1>9 DEF Quit, Quiet, Belonging, Single, Closing, Noted, Asking
<1>10. CASE Started
  <2>1. /\ asking # "prompt" /\ link' = link /\ Take /\ UNCHANGED <<up, stage>>
        /\ at = "greet" /\ at' \in {"over", "idle", "start", "once"} /\ Belonging /\ Single
    BY <1>10 DEF Started, Take, Ready, rest, server, Places, Pairing
  <2>2. link = "up" => Clear'
    BY <2>1, TakenLast
  <2> QED
    BY <2>1, <2>2 DEF Quiet, Belonging, Single, Closing, Noted, Asking
<1>11. CASE Replied
  <2>1. /\ asking # "prompt" /\ link' = link /\ Take /\ UNCHANGED <<up, stage>>
        /\ at = "reply" /\ at' = "idle" /\ Belonging /\ Single
    BY <1>11 DEF Replied, Take, rest, server, Places, Commands, Pairing
  <2>2. link = "up" => Clear'
    BY <2>1, TakenLast
  <2> QED
    BY <2>1, <2>2 DEF Quiet, Belonging, Single, Closing, Noted, Asking
<1>12. CASE PrintedLine
  BY <1>12 DEF PrintedLine
<1>13. CASE PrintedOnce
  BY <1>13 DEF PrintedOnce, Quiet, Belonging, Single, Closing, Noted, Asking
<1>14. CASE StreamTake
  <2> DEFINE w == Tail(wire)
  <2>1. /\ w \in Seq(Message) /\ Len(wire) >= 1 /\ Len(w) = Len(wire) - 1
        /\ Head(wire) = wire[1] /\ \A i \in 1..Len(w) : w[i] = wire[i + 1]
    BY <1>14, HeadTail DEF StreamTake, Take, TypeOK
  <2>2. /\ at = "stream" /\ at' = "give" /\ wire' = w /\ hand' = wire[1] /\ wire # <<>>
        /\ UNCHANGED <<link, asked, asking, up, stage>>
        /\ hand'.kind # "exhausted" /\ Belonging /\ Closing /\ asking = "prompt"
    BY <1>14, <2>1 DEF StreamTake, Take, server, Pairing, Places
  <2>3. Idle' <=> Idle
    BY <2>2 DEF Idle, Live
  <2>4. Belonging'
    BY <2>1, <2>2, <2>3 DEF Belonging, Asking, Live
  <2>5. Closing'
    <3>1. SUFFICES ASSUME link = "up" PROVE Closing'
      BY <2>2 DEF Closing
    <3>2. up = <<>>
      BY <2>2, <3>1 DEF Belonging, Asking
    <3> HIDE DEF w
    <3>3. \A i \in 1..Len(wire) : Final(wire[i]) => i = Len(wire) /\ Idle
      BY <2>2, <3>1 DEF Closing
    <3>4. ASSUME NEW i \in 1..Len(w), Final(w[i]) PROVE i = Len(w) /\ Idle
      <4>1. w[i] = wire[i + 1] /\ i + 1 \in 1..Len(wire) /\ Len(w) = Len(wire) - 1 /\ Len(wire) \in Nat
        BY <2>1 DEF TypeOK
      <4> QED
        BY <3>3, <3>4, <4>1
    <3>5. ASSUME Final(wire[1]) PROVE w = <<>> /\ Idle
      <4>1. 1 \in 1..Len(wire) /\ Len(wire) \in Nat
        BY <2>1 DEF TypeOK
      <4>2. Len(w) = 0 /\ Idle
        BY <2>1, <3>3, <3>5, <4>1
      <4> QED
        BY <2>1, <4>2
    <3> QED
      BY <2>2, <2>3, <3>2, <3>4, <3>5 DEF Closing, Clear, Final
  <2> QED
    BY <2>2, <2>4, <2>5 DEF Quiet, Single, Noted
<1>15. CASE Give
  <2>1. /\ at = "give" /\ at' = (IF Ends(hand) THEN "idle" ELSE "stream")
        /\ UNCHANGED <<link, asked, asking, up, wire, stage>>
        /\ Belonging /\ Closing /\ Noted
    BY <1>15 DEF Give, server, Pairing
  <2>2. Idle' <=> Idle
    BY <2>1 DEF Idle, Live
  <2>3. CASE Ends(hand)
    <3>1. link = "up" => Clear
      BY <2>1, <2>3 DEF Closing, Noted, Ends, Final
    <3> QED
      BY <2>1, <2>2, <2>3, <3>1 DEF Quiet, Belonging, Single, Closing, Noted, Asking, Clear
  <2>4. CASE ~Ends(hand)
    BY <2>1, <2>2, <2>4 DEF Quiet, Belonging, Single, Closing, Noted, Asking, Live
  <2> QED
    BY <2>3, <2>4
<1>16. CASE RecvFails
  BY <1>16 DEF RecvFails, Cut, Ready, Quiet, Belonging, Single, Closing, Noted, Asking
<1>17. CASE Show
  BY <1>17 DEF Show, server, Pairing, Quiet, Belonging, Single, Closing, Noted, Clear, Idle, Live, Asking
<1>18. CASE Answer
  <2>1. /\ link = "up" /\ link' = link /\ up # <<>> /\ up' = Tail(up) /\ Head(up).kind # "prompt"
        /\ UNCHANGED <<at, asked, asking, hand, stage>>
        /\ Quiet /\ Belonging /\ Single /\ Closing /\ Noted
    BY <1>18 DEF Answer, client, Pairing
  <2>2. CASE at \notin Asking
    <3>1. at \notin {"connect", "start", "once", "idle"}
      BY <2>1 DEF Quiet, Clear
    <3> QED
      BY <2>1, <2>2, <3>1 DEF Quiet, Belonging, Single, Closing, Noted, Asking
  <2>3. CASE at \in Asking
    <3>1. Len(up) = 1 /\ wire = <<>> /\ Idle /\ up[1].req = asked /\ up[1].kind = asking
      BY <2>1, <2>3 DEF Belonging
    <3>2. Head(up) = up[1] /\ Tail(up) \in Seq(Request) /\ Len(Tail(up)) = 0
      BY <2>1, <3>1, HeadTail DEF TypeOK
    <3>3. up' = <<>> /\ asking # "prompt" /\ at \in {"greet", "reply"}
      BY <2>1, <2>3, <3>1, <3>2 DEF Places, Asking
    <3>4. PICK k, t : wire' = Append(wire, Msg(Head(up).req, k, 0, t))
      BY <1>18 DEF Answer
    <3>5. wire' = <<Msg(asked, k, 0, t)>>
      BY <3>1, <3>2, <3>4
    <3>6. Len(wire') = 1 /\ wire'[1].req = asked
      BY <3>5 DEF Msg
    <3>7. Idle'
      BY <2>1, <3>1 DEF Idle, Live
    <3>8. \A r \in Requests : ~Live(r)'
      BY <3>7 DEF Idle
    <3> QED
      BY <2>1, <3>3, <3>6, <3>7, <3>8 DEF Quiet, Belonging, Single, Closing, Noted
  <2> QED
    BY <2>2, <2>3
<1>19. CASE Spawn
  <2>1. /\ link = "up" /\ link' = link /\ up # <<>> /\ up' = Tail(up) /\ Head(up).kind = "prompt"
        /\ stage' = [stage EXCEPT ![Head(up).req] = "running"]
        /\ UNCHANGED <<at, asked, asking, hand, wire>>
        /\ Quiet /\ Belonging /\ Single /\ Closing /\ Noted
    BY <1>19 DEF Spawn, client, Pairing
  <2>2. CASE at \notin Asking
    <3>1. at \notin {"connect", "start", "once", "idle"}
      BY <2>1 DEF Quiet, Clear
    <3> QED
      BY <2>1, <2>2, <3>1 DEF Quiet, Belonging, Single, Closing, Noted, Asking
  <2>3. CASE at \in Asking
    <3>1. Len(up) = 1 /\ wire = <<>> /\ Idle /\ up[1].req = asked /\ up[1].kind = asking
      BY <2>1, <2>3 DEF Belonging
    <3>2. Head(up) = up[1] /\ Tail(up) \in Seq(Request) /\ Len(Tail(up)) = 0
      BY <2>1, <3>1, HeadTail DEF TypeOK
    <3>3. up' = <<>> /\ asking = "prompt" /\ wire' = <<>> /\ at # "give"
      BY <2>1, <3>1, <3>2 DEF Closing
    <3>4. \A r \in Requests : Live(r)' => r = asked
      BY <2>1, <3>1, <3>2 DEF Idle, Live, TypeOK
    <3> QED
      BY <2>1, <2>3, <3>3, <3>4 DEF Quiet, Belonging, Single, Closing, Noted, Asking
  <2> QED
    BY <2>2, <2>3
<1>20. ASSUME NEW r \in Requests, Relay(r)
       PROVE  Quiet' /\ Belonging' /\ Single' /\ Closing' /\ Noted'
  <2>1. /\ link = "up" /\ Live(r) /\ UNCHANGED <<link, at, asked, asking, hand, up>>
        /\ \A q \in Requests : q # r => stage'[q] = stage[q]
        /\ Quiet /\ Belonging /\ Single /\ Closing /\ Noted
    BY <1>20 DEF Relay, Stream, Finish, EndUnanswered, Send, Streaming, Live, client, Pairing, TypeOK
  <2>2. CASE at \notin Asking
    <3>1. at \notin {"connect", "start", "once", "idle"}
      BY <2>1 DEF Quiet, Clear, Idle
    <3> QED
      BY <2>1, <2>2, <3>1 DEF Quiet, Belonging, Single, Closing, Noted, Asking
  <2>3. CASE at \in Asking
    <3>1. r = asked /\ up = <<>> /\ ~Idle
      BY <2>1, <2>3 DEF Belonging, Idle
    <3>2. asking = "prompt" \/ at = "stream" \/ at = "give"
      BY <2>1, <2>3, <3>1 DEF Single, Asking
    <3>3. \A q \in Requests : Live(q)' => q = asked
      BY <2>1, <2>3, <3>1 DEF Belonging, Live
    <3>4. at \in {"stream", "give"} => \A i \in 1..Len(wire) : ~Final(wire[i])
      BY <2>1, <3>1 DEF Closing
    <3>5. at = "give" => ~Final(hand)
      BY <2>1, <3>1 DEF Closing, Clear
    <3>6. CASE EndUnanswered(r)
      <4>1. wire' = wire
        BY <3>6 DEF EndUnanswered
      <4> QED
        BY <2>1, <2>3, <3>1, <3>2, <3>3, <3>4, <3>5, <4>1
        DEF Quiet, Belonging, Single, Closing, Noted, Asking, Places, Final
    <3>7. CASE Stream(r) \/ Finish(r)
      <4>1. PICK k : /\ wire' = Append(wire, Msg(r, k, streamed[r] + 1, NoTool))
                     /\ k \in {"done", "error"} => stage'[r] = "ended"
        BY <3>7 DEF Stream, Finish, Send, TypeOK
      <4>2. /\ Len(wire') = Len(wire) + 1 /\ Len(wire) \in Nat
            /\ \A i \in 1..Len(wire) : wire'[i] = wire[i]
            /\ wire'[Len(wire')].req = asked /\ wire'[Len(wire')].kind = k
        BY <3>1, <4>1 DEF Msg, TypeOK
      <4>3. k \in {"done", "error"} => Idle'
        BY <3>1, <3>3, <4>1 DEF Idle, Live
      <4>4. Belonging'
        BY <2>1, <2>3, <3>1, <3>3, <4>2 DEF Belonging
      <4>5. at \in {"stream", "give"} =>
              \A i \in 1..Len(wire') : Final(wire'[i]) => i = Len(wire') /\ Idle'
        BY <3>4, <4>2, <4>3 DEF Final
      <4> QED
        BY <2>1, <2>3, <3>1, <3>2, <3>5, <4>4, <4>5
        DEF Quiet, Single, Closing, Noted, Asking, Places, Final
    <3> QED
      BY <1>20, <3>6, <3>7 DEF Relay
  <2> QED
    BY <2>2, <2>3
<1>21. CASE Lose
  <2>1. PICK n \in 0..Len(wire) : wire' = SubSeq(wire, 1, n)
    BY <1>21 DEF Lose
  <2>2. Len(wire') = n /\ \A i \in 1..n : wire'[i] = wire[i]
    BY <2>1, Cut0 DEF TypeOK
  <2>3. link = "up" /\ link' = "lost" /\ UNCHANGED <<at, asked, hand>> /\ Quiet /\ Belonging /\ Noted
    BY <1>21 DEF Lose, rest, Pairing
  <2>4. Len(wire) \in Nat /\ n \in 0..Len(wire)
    BY <2>1 DEF TypeOK
  <2>5. at # "connect"
    BY <2>3 DEF Places
  <2> QED
    BY <2>2, <2>3, <2>4, <2>5 DEF Quiet, Belonging, Single, Closing, Noted
<1>22. CASE IdleTimeout
  <2>1. at # "connect" /\ link' = "lost" /\ Belonging /\ Noted
        /\ UNCHANGED <<at, asked, hand, wire>>
    BY <1>22 DEF IdleTimeout, rest, Pairing
  <2> QED
    BY <2>1 DEF Quiet, Belonging, Single, Closing, Noted
<1> QED
  BY <1>1, <1>2, <1>3, <1>4, <1>6, <1>7, <1>8, <1>9, <1>10, <1>11, <1>12, <1>13,
     <1>14, <1>15, <1>16, <1>17, <1>18, <1>19, <1>20, <1>21, <1>22 DEF Next, Receive, Server

-----------------------------------------------------------------------------
(* The tool in use.                                                        *)

LEMMA AgreeStep == TypeOK /\ Places /\ Pairing /\ Agreeing /\ [Next]_vars => Agreeing'
<1> SUFFICES ASSUME TypeOK, Places, Pairing, Agreeing, [Next]_vars PROVE Agreeing'
  OBVIOUS
<1>1. CASE UNCHANGED vars
  BY <1>1 DEF Agreeing, Settles, vars, client, server
<1>2. CASE Connect
  BY <1>2 DEF Connect, Ready, rest, server, Agreeing
<1>3. CASE Start
  <2>1. at = "start" /\ at' = "greet" /\ link = "up" /\ UNCHANGED <<ui, link, tool, selected, exhausted, wire>>
        /\ asking' = Following[asking] /\ asking' # "switch"
    BY <1>3 DEF Start, Ask, rest, server, Following, Places
  <2>2. ui = "tui" /\ ~exhausted => wire = <<>>
    BY <2>1 DEF Pairing, Quiet, Clear
  <2>3. ui = "tui" /\ ~exhausted /\ asking' # "tools" => tool = selected
    BY <2>1 DEF Agreeing, Following, Places
  <2> QED
    BY <2>1, <2>2, <2>3 DEF Agreeing
<1>4. CASE StartFails
  BY <1>4 DEF StartFails, Ready, Agreeing
<1>5. ASSUME NEW k, NEW l \in {"reply", "stream"}, at \in {"idle", "once"}, AskFor(k, l)
      PROVE  Agreeing'
  <2>1. PICK t \in ToolsNamed(k) : Ask(k, t, l, asked + 1)
    BY <1>5 DEF AskFor
  <2>2. at' = l /\ link = "up" /\ UNCHANGED <<ui, link, tool, selected, exhausted, wire>>
    BY <2>1 DEF Ask, rest, server
  <2>3. ui = "tui" /\ ~exhausted => wire = <<>> /\ tool = selected
    BY <1>5, <2>2 DEF Pairing, Quiet, Clear, Agreeing, Places
  <2> QED
    BY <2>2, <2>3 DEF Agreeing
<1>6. CASE Command
  BY <1>5, <1>6 DEF Command
<1>7. CASE Prompt
  BY <1>5, <1>7 DEF Prompt
<1>8. CASE RunOnce
  BY <1>5, <1>8 DEF RunOnce
<1>9. CASE Quit
  BY <1>9 DEF Quit, Agreeing
<1>10. CASE Started
  <2>1. /\ at = "greet" /\ wire # <<>> /\ UNCHANGED <<ui, link, asking, up, selected>>
        /\ exhausted' = (exhausted \/ Head(wire).kind = "exhausted")
        /\ at' \in {"over", "idle", "start", "once"}
        /\ at' = IF Head(wire).kind # asking /\ asking \in {"handshake", "auth"} THEN Ready
                 ELSE IF asking # Last THEN "start"
                 ELSE IF ui = "once" THEN "once" ELSE "idle"
        /\ tool' = IF ui = "once" \/ Head(wire).kind # asking THEN tool
                   ELSE IF Head(wire).kind = "auth" THEN Claude
                   ELSE IF Head(wire).kind = "tools" THEN Head(wire).tool ELSE tool
    BY <1>10 DEF Started, Take, Ready, rest, server
  <2>2. Head(wire) = wire[1] /\ 1 \in 1..Len(wire)
    BY <2>1, HeadTail DEF TypeOK
  <2>3. SUFFICES ASSUME ui = "tui", link = "up", ~exhausted
                 PROVE  /\ at' = "idle" => tool' = selected
                        /\ at' = "start" /\ asking # "auth" => tool' = selected
    BY <2>1 DEF Agreeing
  <2>4. asking \in {"handshake", "auth", "tools", "version"}
    BY <2>1, <2>3 DEF Places
  <2>5. CASE asking = "auth"
    BY <2>1, <2>2, <2>3, <2>5 DEF Agreeing, Last
  <2>6. CASE asking = "tools"
    BY <2>1, <2>2, <2>3, <2>6 DEF Agreeing, Settles
  <2>7. CASE asking \in {"handshake", "version"}
    BY <2>1, <2>3, <2>7 DEF Agreeing
  <2> QED
    BY <2>4, <2>5, <2>6, <2>7
<1>11. CASE Replied
  <2>1. /\ at = "reply" /\ at' = "idle" /\ wire # <<>> /\ UNCHANGED <<ui, link, asking, up, selected>>
        /\ exhausted' = (exhausted \/ Head(wire).kind = "exhausted")
        /\ tool' = ToolAfter(Head(wire))
    BY <1>11 DEF Replied, Take, rest, server
  <2>2. Head(wire) = wire[1] /\ 1 \in 1..Len(wire)
    BY <2>1, HeadTail DEF TypeOK
  <2>3. ui = "tui" /\ link = "up" /\ ~exhausted => tool' = selected
    <3> SUFFICES ASSUME ui = "tui", link = "up", ~exhausted PROVE tool' = selected
      OBVIOUS
    <3>1. CASE asking \in {"tools", "switch"}
      BY <2>1, <2>2, <3>1 DEF Agreeing, Settles, ToolAfter
    <3>2. CASE asking = "auth"
      BY <2>1, <3>2 DEF Places, Commands
    <3>3. CASE asking \notin {"auth", "tools", "switch"}
      BY <2>1, <3>3 DEF Agreeing, ToolAfter
    <3> QED
      BY <3>1, <3>2, <3>3
  <2> QED
    BY <2>1, <2>3 DEF Agreeing
<1>12. CASE PrintedLine
  BY <1>12 DEF PrintedLine, Agreeing
<1>13. CASE PrintedOnce
  BY <1>13 DEF PrintedOnce, Agreeing
<1>14. CASE StreamTake
  BY <1>14 DEF StreamTake, Take, server, Agreeing
<1>15. CASE Give
  BY <1>15 DEF Give, server, Agreeing
<1>16. CASE RecvFails
  BY <1>16 DEF RecvFails, Cut, Ready, Agreeing
<1>17. CASE Show
  BY <1>17 DEF Show, server, Agreeing
<1>18. CASE Answer
  <2> DEFINE q == Head(up)
  <2>1. /\ link = "up" /\ up # <<>> /\ q.kind # "prompt" /\ up' = Tail(up)
        /\ UNCHANGED <<ui, at, link, asking, tool, exhausted>>
    BY <1>18 DEF Answer, client
  <2>2. SUFFICES ASSUME ui = "tui", ~exhausted, at \in {"connect", "start", "idle"} \cup Asking
                 PROVE  Agreeing'
    BY <2>1 DEF Agreeing, Asking, Places
  <2>3. at \in Asking
    BY <2>1, <2>2 DEF Pairing, Quiet, Clear
  <2>4. Len(up) = 1 /\ wire = <<>> /\ up[1].kind = asking
    BY <2>1, <2>2, <2>3 DEF Pairing, Belonging
  <2>5. q.kind = asking /\ Tail(up) \in Seq(Request) /\ Len(Tail(up)) = 0
    BY <2>1, <2>4, HeadTail DEF TypeOK
  <2>6. up' = <<>> /\ at \in {"greet", "reply"}
    BY <2>1, <2>3, <2>5 DEF Places, Asking
  <2>7. PICK k \in Replies(asking) :
           /\ selected' = IF k = "auth" THEN DefaultTool ELSE IF k = "switch" THEN q.tool ELSE selected
           /\ wire' = Append(wire, Msg(q.req, k, 0, IF k \in {"tools", "switch"} THEN selected' ELSE NoTool))
    BY <1>18, <2>5 DEF Answer
  <2> DEFINE t == IF k \in {"tools", "switch"} THEN selected' ELSE NoTool
  <2>8. wire' = <<Msg(q.req, k, 0, t)>>
    BY <2>4, <2>7
  <2>9. Len(wire') = 1 /\ wire'[1].kind = k /\ wire'[1].tool = t
    BY <2>8 DEF Msg
  <2>10. asking # "tools" => tool = selected
    BY <2>1, <2>2, <2>6 DEF Agreeing
  <2>11. CASE k = asking
    BY <2>1, <2>6, <2>7, <2>9, <2>10, <2>11 DEF Agreeing, Settles
  <2>12. CASE k # asking
    <3>1. k \in {"refusal", "error"} /\ asking # "tools"
      BY <2>7, <2>12 DEF Replies
    <3> QED
      BY <2>1, <2>6, <2>7, <2>9, <2>10, <2>12, <3>1 DEF Agreeing, Settles
  <2> QED
    BY <2>11, <2>12
<1>19. CASE Spawn
  <2>1. /\ link = "up" /\ up # <<>> /\ UNCHANGED <<ui, at, link, asking, tool, exhausted, wire, selected>>
    BY <1>19 DEF Spawn, client
  <2> QED
    BY <2>1 DEF Agreeing, Settles
<1>20. ASSUME NEW r \in Requests, Relay(r) PROVE Agreeing'
  <2>1. /\ link = "up" /\ Live(r) /\ UNCHANGED <<ui, at, link, asking, tool, exhausted, up, selected>>
    BY <1>20 DEF Relay, Stream, Finish, EndUnanswered, Send, Streaming, Live, client
  <2>2. SUFFICES ASSUME ui = "tui", ~exhausted PROVE Agreeing'
    BY <2>1 DEF Agreeing
  <2>3. at \in {"greet", "reply"} => asking = "prompt"
    BY <2>1, <2>2 DEF Pairing, Single, Idle
  <2> QED
    BY <2>1, <2>2, <2>3 DEF Agreeing
<1>21. CASE Lose
  BY <1>21 DEF Lose, rest, server, Agreeing
<1>22. CASE IdleTimeout
  BY <1>22 DEF IdleTimeout, rest, server, Agreeing
<1> QED
  BY <1>1, <1>2, <1>3, <1>4, <1>6, <1>7, <1>8, <1>9, <1>10, <1>11, <1>12, <1>13,
     <1>14, <1>15, <1>16, <1>17, <1>18, <1>19, <1>20, <1>21, <1>22 DEF Next, Receive, Server

-----------------------------------------------------------------------------
(* The results.                                                            *)

(* The invariant holds in every reachable state, whatever the interfaces, the *)
(* tools, the capacity of the channel and the length of answers.              *)
THEOREM Invariance == Spec => []IInv
<1>1. Init => IInv
  <2> SUFFICES ASSUME Init PROVE IInv
    OBVIOUS
  <2>1. TypeOK
    <3>1. 0 \in 0..(MaxParts + 1) /\ 0 \in 0..MaxRequests /\ Cap \in Nat
      BY ConstantsAssumption
    <3>2. streamed \in [Requests -> 0..(MaxParts + 1)] /\ shown \in [Requests -> Nat]
      BY <3>1 DEF Init
    <3>3. (at = "give") = (hand # Nothing)
      BY DEF Init
    <3>4. up \in Seq(Request) /\ wire \in Seq(Message) /\ channel \in Seq(Message) /\ Len(channel) = 0
      BY DEF Init
    <3>5. stage \in [Requests -> {"none", "running", "limited", "ended"}]
      BY DEF Init
    <3>6. /\ ui \in Interfaces /\ asked \in 0..MaxRequests /\ Len(channel) <= Cap
          /\ hand \in Message \cup {Nothing}
          /\ tool \in Tools \cup {NoTool} /\ selected \in Tools \cup {NoTool}
      BY <3>1, <3>4 DEF Init
    <3>7. /\ at = "connect" /\ link = "none" /\ asking = "none" /\ exhausted \in BOOLEAN
      BY DEF Init
    <3> QED
      BY <3>2, <3>3, <3>4, <3>5, <3>6, <3>7 DEF TypeOK
  <2>2. Clear
    BY DEF Init, Clear, Idle, Live
  <2>3. Places
    BY DEF Init, Places, Live
  <2> QED
    BY <2>1, <2>2, <2>3
    DEF Init, IInv, Pairing, Quiet, Belonging, Single, Closing, Noted, Asking, Agreeing
<1>2. IInv /\ [Next]_vars => IInv'
  BY TypeStep, PlacesStep, PairingStep, AgreeStep DEF IInv
<1> QED
  BY <1>1, <1>2, PTL DEF Spec

(* Every variable keeps its type and the channel its capacity. *)
THEOREM TypeCorrect == Spec => []TypeOK
<1>1. IInv => TypeOK
  BY DEF IInv
<1> QED
  BY <1>1, Invariance, PTL

(* The next message of a client that waits answers what it asked last: the    *)
(* terminal interface and the commands that ask once read whole answers.      *)
THEOREM RepliesMatch == Spec => []PairedUnlessExhausted
<1>1. IInv => PairedUnlessExhausted
  <2> SUFFICES ASSUME IInv, ui # "cli", ~exhausted, at \in {"greet", "reply", "stream"}, wire # <<>>
               PROVE  Head(wire).req = asked
    BY DEF PairedUnlessExhausted, Paired
  <2>1. wire \in Seq(Message)
    BY DEF IInv, TypeOK
  <2>2. Head(wire) = wire[1] /\ Len(wire) >= 1 /\ Len(wire) \in Nat
    BY <2>1, HeadTail
  <2>3. \A i \in 1..Len(wire) : wire[i].req = asked
    BY DEF IInv, Pairing, Belonging, Asking
  <2> QED
    BY <2>2, <2>3
<1> QED
  BY <1>1, Invariance, PTL

(* Between requests the terminal interface names the tool that the server     *)
(* runs its prompts with.                                                     *)
THEOREM ToolsAgree == Spec => []ToolAgrees
<1>1. IInv => ToolAgrees
  BY DEF IInv, Agreeing, ToolAgrees
<1> QED
  BY <1>1, Invariance, PTL

-----------------------------------------------------------------------------
(* The way of an answer to the screen.                                     *)

\* Requests to come, and one on its way to the server, have no messages yet.
ToCome(r) == r > asked \/ (link = "up" /\ up # <<>> /\ r = asked)
Absent(r, q) == \A i \in DOMAIN q : q[i].req # r
Later ==
    \A r \in Requests : ToCome(r) => stage[r] = "none" /\ shown[r] = 0 /\ Absent(r, Pipe)

\* Only prompts are streamed, and none before the user can ask.
Unstarted ==
    /\ at \in {"connect", "start", "greet"} => asked = 0
    /\ at \in {"greet", "reply"} /\ asking # "prompt" =>
          \A r \in Requests : r = asked => stage[r] = "none"

\* What AnswerKept says of one prompt.
Streamed(r, q, lost, n, all) ==
    /\ \A i, j \in DOMAIN q : i < j /\ q[i].req = r /\ q[j].req = r => q[i].part < q[j].part
    /\ \A i \in DOMAIN q : q[i].req = r =>
          /\ q[i].part \in (n + 1)..all
          /\ \A k \in (n + 1)..q[i].part : \E j \in DOMAIN q : q[j].req = r /\ q[j].part = k
    /\ lost \/ \A k \in (n + 1)..all : \E j \in DOMAIN q : q[j].req = r /\ q[j].part = k
    /\ n <= all

Kept == \A r \in Requests : stage[r] # "none" => Streamed(r, Pipe, link # "up", shown[r], streamed[r])

\* The terminal interface ends by closing the connection.
Closed == at = "over" => link = "none"

KeptInv == ui = "tui" /\ ~exhausted => Later /\ Unstarted /\ Closed /\ Kept

Parcels == Seq(Message)

\* Two sequences joined.
LEMMA Joined ==
    ASSUME NEW S, NEW a \in Seq(S), NEW b \in Seq(S)
    PROVE  /\ a \o b \in Seq(S) /\ Len(a \o b) = Len(a) + Len(b)
           /\ DOMAIN (a \o b) = 1..(Len(a) + Len(b))
           /\ \A i \in 1..(Len(a) + Len(b)) : (a \o b)[i] = IF i <= Len(a) THEN a[i] ELSE b[i - Len(a)]
OBVIOUS

\* s is a, of length A, and behind it b, of length B.
Join(s, a, b, A, B) ==
    /\ s \in Parcels /\ Len(s) = A + B /\ DOMAIN s = 1..(A + B)
    /\ \A i \in 1..(A + B) : s[i] = IF i <= A THEN a[i] ELSE b[i - A]

LEMMA JoinedAs ==
    ASSUME NEW a, NEW b, NEW A, NEW B, a \in Parcels, b \in Parcels, Len(a) = A, Len(b) = B
    PROVE  Join(a \o b, a, b, A, B)
BY Joined DEF Parcels, Join

\* A prompt's parts when one is taken from the front.
LEMMA StreamedTail ==
    ASSUME NEW q \in Parcels, q # <<>>, NEW r, NEW lost \in BOOLEAN, NEW n \in Nat, NEW all \in Nat,
           Streamed(r, q, lost, n, all)
    PROVE  Streamed(r, Tail(q), lost, IF Head(q).req = r THEN n + 1 ELSE n, all)
<1>1. /\ Len(q) \in Nat /\ Len(q) >= 1 /\ DOMAIN q = 1..Len(q)
      /\ DOMAIN Tail(q) = 1..(Len(q) - 1) /\ Head(q) = q[1]
      /\ \A i \in 1..(Len(q) - 1) : Tail(q)[i] = q[i + 1]
  BY DEF Parcels
<1>2. \A i \in DOMAIN q : q[i] \in Message
  BY DEF Parcels
<1>3. \A i \in DOMAIN q : q[i].part \in Nat
  BY <1>2, ConstantsAssumption DEF Message
<1>4. \A i, j \in DOMAIN q : i < j /\ q[i].req = r /\ q[j].req = r => q[i].part < q[j].part
  BY DEF Streamed
<1>5. ASSUME NEW i \in DOMAIN q, q[i].req = r
      PROVE  /\ q[i].part \in (n + 1)..all
             /\ \A k \in (n + 1)..q[i].part : \E j \in DOMAIN q : q[j].req = r /\ q[j].part = k
  BY <1>5 DEF Streamed
<1>6. /\ lost \/ \A k \in (n + 1)..all : \E j \in DOMAIN q : q[j].req = r /\ q[j].part = k
      /\ n <= all
  BY DEF Streamed
<1> DEFINE t == Tail(q)
<1>7. DOMAIN t = 1..(Len(q) - 1) /\ \A i \in 1..(Len(q) - 1) : t[i] = q[i + 1]
  BY <1>1
<1> HIDE DEF t
<1>8. \A i \in DOMAIN t : i + 1 \in DOMAIN q /\ t[i] = q[i + 1] /\ i \in Nat
  BY <1>1, <1>7
<1>9. \A i, j \in DOMAIN t : i < j /\ t[i].req = r /\ t[j].req = r => t[i].part < t[j].part
  <2> SUFFICES ASSUME NEW i \in DOMAIN t, NEW j \in DOMAIN t, i < j, t[i].req = r, t[j].req = r
               PROVE  t[i].part < t[j].part
    OBVIOUS
  <2>1. i + 1 < j + 1
    BY <1>8
  <2> QED BY <1>4, <1>8, <2>1
\* Parts behind the first are still there.
<1>10. ASSUME NEW k \in Nat, NEW j \in DOMAIN q, q[j].req = r, q[j].part = k, j # 1
       PROVE  \E i \in DOMAIN t : t[i].req = r /\ t[i].part = k
  <2>1. j - 1 \in DOMAIN t /\ t[j - 1] = q[j]
    BY <1>1, <1>7, <1>10
  <2> QED BY <1>10, <2>1
<1>11. CASE Head(q).req = r
  <2>1. q[1].req = r /\ 1 \in DOMAIN q
    BY <1>1, <1>11
  <2>2. q[1].part \in (n + 1)..all
    BY <1>5, <2>1
  <2>3. q[1].part = n + 1
    <3>1. n + 1 \in (n + 1)..q[1].part
      BY <2>2
    <3>2. PICK j \in DOMAIN q : q[j].req = r /\ q[j].part = n + 1
      BY <1>5, <2>1, <3>1
    <3>3. CASE j = 1
      BY <3>2, <3>3
    <3>4. CASE j # 1
      <4>1. 1 < j
        BY <1>1, <3>4
      <4>2. q[1].part < q[j].part
        BY <1>4, <2>1, <3>2, <4>1
      <4> QED BY <2>2, <3>2, <4>2
    <3> QED BY <3>3, <3>4
  <2>4. ASSUME NEW k \in (n + 2)..all, NEW j \in DOMAIN q, q[j].req = r, q[j].part = k
        PROVE  \E i \in DOMAIN t : t[i].req = r /\ t[i].part = k
    <3>1. j # 1 /\ k \in Nat
      BY <2>3, <2>4
    <3> QED BY <1>10, <2>4, <3>1
  <2>5. ASSUME NEW i \in DOMAIN t, t[i].req = r
        PROVE  /\ t[i].part \in (n + 2)..all
               /\ \A k \in (n + 2)..t[i].part : \E j \in DOMAIN t : t[j].req = r /\ t[j].part = k
    <3>1. i + 1 \in DOMAIN q /\ t[i] = q[i + 1] /\ 1 < i + 1
      BY <1>7, <1>8, <1>1
    <3>2. q[1].part < q[i + 1].part /\ q[i + 1].part \in (n + 1)..all
      BY <1>4, <1>5, <2>1, <2>5, <3>1
    <3>3. t[i].part \in (n + 2)..all
      BY <2>3, <3>1, <3>2
    <3>4. ASSUME NEW k \in (n + 2)..t[i].part
          PROVE  \E j \in DOMAIN t : t[j].req = r /\ t[j].part = k
      <4>1. k \in (n + 1)..q[i + 1].part /\ k \in (n + 2)..all
        BY <3>1, <3>3
      <4>2. PICK j \in DOMAIN q : q[j].req = r /\ q[j].part = k
        BY <1>5, <2>5, <3>1, <4>1
      <4> QED BY <2>4, <4>1, <4>2
    <3> QED BY <3>3, <3>4
  <2>6. lost \/ \A k \in (n + 2)..all : \E j \in DOMAIN t : t[j].req = r /\ t[j].part = k
    <3>1. ASSUME ~lost, NEW k \in (n + 2)..all
          PROVE  \E j \in DOMAIN t : t[j].req = r /\ t[j].part = k
      <4>1. k \in (n + 1)..all
        OBVIOUS
      <4>2. PICK j \in DOMAIN q : q[j].req = r /\ q[j].part = k
        BY <1>6, <3>1, <4>1
      <4> QED BY <2>4, <4>2
    <3> QED BY <3>1
  <2>7. n + 1 <= all /\ (n + 1) + 1 = n + 2
    BY <2>2
  <2>8. Streamed(r, t, lost, n + 1, all)
    BY <1>9, <2>5, <2>6, <2>7 DEF Streamed
  <2> QED BY <1>11, <2>8 DEF t
<1>12. CASE Head(q).req # r
  <2>1. ASSUME NEW k \in Nat, NEW j \in DOMAIN q, q[j].req = r, q[j].part = k
        PROVE  \E i \in DOMAIN t : t[i].req = r /\ t[i].part = k
    <3>1. j # 1
      BY <1>1, <1>12, <2>1
    <3> QED BY <1>10, <2>1, <3>1
  <2>2. ASSUME NEW i \in DOMAIN t, t[i].req = r
        PROVE  /\ t[i].part \in (n + 1)..all
               /\ \A k \in (n + 1)..t[i].part : \E j \in DOMAIN t : t[j].req = r /\ t[j].part = k
    <3>1. i + 1 \in DOMAIN q /\ t[i] = q[i + 1] /\ q[i + 1].req = r
      BY <1>8, <2>2
    <3>2. t[i].part \in (n + 1)..all
      BY <1>5, <3>1
    <3>3. ASSUME NEW k \in (n + 1)..t[i].part
          PROVE  \E j \in DOMAIN t : t[j].req = r /\ t[j].part = k
      <4>1. k \in (n + 1)..q[i + 1].part /\ k \in Nat
        BY <3>1
      <4>2. PICK j \in DOMAIN q : q[j].req = r /\ q[j].part = k
        BY <1>5, <3>1, <4>1
      <4> QED BY <2>1, <4>1, <4>2
    <3> QED BY <3>2, <3>3
  <2>3. lost \/ \A k \in (n + 1)..all : \E j \in DOMAIN t : t[j].req = r /\ t[j].part = k
    <3>1. ASSUME ~lost, NEW k \in (n + 1)..all
          PROVE  \E j \in DOMAIN t : t[j].req = r /\ t[j].part = k
      <4>1. k \in Nat
        OBVIOUS
      <4>2. PICK j \in DOMAIN q : q[j].req = r /\ q[j].part = k
        BY <1>6, <3>1
      <4> QED BY <2>1, <4>1, <4>2
    <3> QED BY <3>1
  <2>4. Streamed(r, t, lost, n, all)
    BY <1>6, <1>9, <2>2, <2>3 DEF Streamed
  <2> QED BY <1>12, <2>4 DEF t
<1> QED BY <1>11, <1>12

\* When the next one is streamed.
LEMMA StreamedNext ==
    ASSUME NEW q \in Parcels, NEW m \in Message, NEW n \in Nat, NEW all \in Nat,
           Streamed(m.req, q, FALSE, n, all), m.part = all + 1
    PROVE  Streamed(m.req, Append(q, m), FALSE, n, all + 1)
<1> DEFINE a == Append(q, m)
           L == Len(q)
           r == m.req
<1>1. /\ L \in Nat /\ DOMAIN q = 1..L /\ DOMAIN a = 1..(L + 1)
      /\ a[L + 1] = m /\ \A i \in 1..L : a[i] = q[i]
  BY DEF Parcels
<1>2. \A i, j \in DOMAIN q : i < j /\ q[i].req = r /\ q[j].req = r => q[i].part < q[j].part
  BY DEF Streamed
<1>3. ASSUME NEW i \in DOMAIN q, q[i].req = r
      PROVE  /\ q[i].part \in (n + 1)..all
             /\ \A k \in (n + 1)..q[i].part : \E j \in DOMAIN q : q[j].req = r /\ q[j].part = k
  BY <1>3 DEF Streamed
<1>4. /\ \A k \in (n + 1)..all : \E j \in DOMAIN q : q[j].req = r /\ q[j].part = k
      /\ n <= all
  BY DEF Streamed
<1> HIDE DEF a, L
<1>5. \A i \in DOMAIN a : i \in DOMAIN q \/ i = L + 1
  BY <1>1
<1>6. \A k : (\E j \in DOMAIN q : q[j].req = r /\ q[j].part = k)
             => \E j \in DOMAIN a : a[j].req = r /\ a[j].part = k
  BY <1>1
<1>7. m.part \in Nat /\ all + 1 \in Nat /\ r = m.req /\ n <= all + 1
  BY <1>4
<1>8. ASSUME NEW i \in DOMAIN a, NEW j \in DOMAIN a, i < j, a[i].req = r, a[j].req = r
      PROVE  a[i].part < a[j].part
  <2>1. i \in DOMAIN q /\ a[i] = q[i] /\ q[i].part \in (n + 1)..all
    BY <1>1, <1>3, <1>5, <1>8
  <2>2. CASE j \in DOMAIN q
    BY <1>1, <1>2, <1>8, <2>1, <2>2
  <2>3. CASE j = L + 1
    BY <1>1, <2>1, <2>3
  <2> QED BY <1>5, <2>2, <2>3
<1>9. ASSUME NEW k \in (n + 1)..(all + 1)
      PROVE  \E j \in DOMAIN a : a[j].req = r /\ a[j].part = k
  <2>1. CASE k = all + 1
    BY <1>1, <2>1
  <2>2. CASE k # all + 1
    <3>1. k \in (n + 1)..all
      BY <2>2
    <3> QED BY <1>4, <1>6, <1>9, <3>1
  <2> QED BY <2>1, <2>2
<1>10. ASSUME NEW i \in DOMAIN q, q[i].req = r
       PROVE  /\ q[i].part \in (n + 1)..(all + 1)
              /\ \A k \in (n + 1)..q[i].part : \E j \in DOMAIN a : a[j].req = r /\ a[j].part = k
  BY <1>3, <1>6, <1>10
<1>11. \A i \in DOMAIN a : a[i].req = r =>
          /\ a[i].part \in (n + 1)..(all + 1)
          /\ \A k \in (n + 1)..a[i].part : \E j \in DOMAIN a : a[j].req = r /\ a[j].part = k
  <2> SUFFICES ASSUME NEW i \in DOMAIN a, a[i].req = r
               PROVE  /\ a[i].part \in (n + 1)..(all + 1)
                      /\ \A k \in (n + 1)..a[i].part : \E j \in DOMAIN a : a[j].req = r /\ a[j].part = k
    OBVIOUS
  <2>1. CASE i \in DOMAIN q
    BY <1>1, <1>10, <2>1
  <2>2. CASE i = L + 1
    <3>1. a[i].part = all + 1 /\ all + 1 \in (n + 1)..(all + 1)
      BY <1>1, <1>4, <1>7, <2>2
    <3> QED BY <1>9, <3>1
  <2> QED BY <1>5, <2>1, <2>2
<1>12. \A k \in (n + 1)..(all + 1) : \E j \in DOMAIN a : a[j].req = r /\ a[j].part = k
  BY <1>4, <1>9
<1>13. \A i, j \in DOMAIN a : i < j /\ a[i].req = r /\ a[j].req = r => a[i].part < a[j].part
  BY <1>8
<1>14. Streamed(r, a, FALSE, n, all + 1)
  BY <1>7, <1>11, <1>12, <1>13 DEF Streamed
<1> QED BY <1>14 DEF a

\* p has of r what q has, in the same order: the i-th is the f[i]-th of q.
Aligned(p, q, f, r) ==
    /\ \A i \in DOMAIN p : p[i].req = r => f[i] \in DOMAIN q /\ p[i] = q[f[i]]
    /\ \A i, j \in DOMAIN p : i < j /\ p[i].req = r /\ p[j].req = r => f[i] < f[j]
    /\ \A j \in DOMAIN q : q[j].req = r => \E i \in DOMAIN p : p[i] = q[j]

\* When the prompt's messages, and their order, are the same.
LEMMA StreamedLike ==
    ASSUME NEW q \in Parcels, NEW p \in Parcels, NEW f, NEW r, NEW lost \in BOOLEAN,
           NEW n \in Nat, NEW all \in Nat, Streamed(r, q, lost, n, all),
           Aligned(p, q, f, r)
    PROVE  Streamed(r, p, lost, n, all)
<1>1. \A i, j \in DOMAIN q : i < j /\ q[i].req = r /\ q[j].req = r => q[i].part < q[j].part
  BY DEF Streamed
<1>2. \A i \in DOMAIN q : q[i].req = r =>
         /\ q[i].part \in (n + 1)..all
         /\ \A k \in (n + 1)..q[i].part : \E j \in DOMAIN q : q[j].req = r /\ q[j].part = k
  BY DEF Streamed
<1>3. /\ lost \/ \A k \in (n + 1)..all : \E j \in DOMAIN q : q[j].req = r /\ q[j].part = k
      /\ n <= all
  BY DEF Streamed
<1>4. \A i, j \in DOMAIN p : i < j /\ p[i].req = r /\ p[j].req = r => p[i].part < p[j].part
  BY <1>1 DEF Aligned
<1>5. \A k : (\E j \in DOMAIN q : q[j].req = r /\ q[j].part = k)
             => \E i \in DOMAIN p : p[i].req = r /\ p[i].part = k
  BY DEF Aligned
<1>6. \A i \in DOMAIN p : p[i].req = r =>
         /\ p[i].part \in (n + 1)..all
         /\ \A k \in (n + 1)..p[i].part : \E j \in DOMAIN p : p[j].req = r /\ p[j].part = k
  <2> SUFFICES ASSUME NEW i \in DOMAIN p, p[i].req = r
               PROVE  /\ p[i].part \in (n + 1)..all
                      /\ \A k \in (n + 1)..p[i].part : \E j \in DOMAIN p : p[j].req = r /\ p[j].part = k
    OBVIOUS
  <2>1. f[i] \in DOMAIN q /\ p[i] = q[f[i]]
    BY DEF Aligned
  <2> QED BY <1>2, <1>5, <2>1
<1> QED BY <1>3, <1>4, <1>5, <1>6 DEF Streamed

\* When another request's message follows.
LEMMA StreamedOther ==
    ASSUME NEW q \in Parcels, NEW m \in Message, NEW r, m.req # r, NEW lost \in BOOLEAN,
           NEW n \in Nat, NEW all \in Nat, Streamed(r, q, lost, n, all)
    PROVE  Streamed(r, Append(q, m), lost, n, all)
<1> DEFINE p == Append(q, m)
           f == [i \in DOMAIN p |-> i]
<1>1. /\ p \in Parcels /\ Len(q) \in Nat /\ DOMAIN q = 1..Len(q) /\ DOMAIN p = 1..(Len(q) + 1)
      /\ p[Len(q) + 1] = m /\ \A i \in 1..Len(q) : p[i] = q[i]
  BY DEF Parcels
<1> HIDE DEF p
<1>2. \A i \in DOMAIN p : p[i].req = r => f[i] \in DOMAIN q /\ p[i] = q[f[i]]
  BY <1>1
<1>3. \A i, j \in DOMAIN p : i < j /\ p[i].req = r /\ p[j].req = r => f[i] < f[j]
  OBVIOUS
<1>4. \A j \in DOMAIN q : q[j].req = r => \E i \in DOMAIN p : p[i] = q[j]
  BY <1>1
<1> HIDE DEF f
<1>5. Streamed(r, p, lost, n, all)
  <2>1. Aligned(p, q, f, r)
    BY <1>2, <1>3, <1>4 DEF Aligned
  <2> QED BY <1>1, <2>1, StreamedLike
<1> QED BY <1>5 DEF p

\* When another request's message is taken from between.
LEMMA StreamedPast ==
    ASSUME NEW a \in Parcels, NEW w \in Parcels, w # <<>>, NEW r, Head(w).req # r,
           NEW lost \in BOOLEAN, NEW n \in Nat, NEW all \in Nat,
           Streamed(r, a \o w, lost, n, all)
    PROVE  Streamed(r, a \o Tail(w), lost, n, all)
<1> DEFINE q == a \o w
           t == Tail(w)
           p == a \o t
           A == Len(a)
           f == [i \in DOMAIN p |-> IF i <= A THEN i ELSE i + 1]
<1>1. /\ A \in Nat /\ Len(w) \in Nat /\ Len(w) >= 1 /\ t \in Parcels /\ Len(t) = Len(w) - 1
      /\ Head(w) = w[1] /\ \A i \in 1..(Len(w) - 1) : t[i] = w[i + 1]
  BY DEF Parcels
<1>2. /\ q \in Parcels /\ DOMAIN q = 1..(A + Len(w))
      /\ \A i \in 1..(A + Len(w)) : q[i] = IF i <= A THEN a[i] ELSE w[i - A]
  BY DEF Parcels
<1>3. Streamed(r, q, lost, n, all)
  OBVIOUS
<1> HIDE DEF q, t
<1>4. /\ p \in Parcels /\ DOMAIN p = 1..(A + Len(t))
      /\ \A i \in 1..(A + Len(t)) : p[i] = IF i <= A THEN a[i] ELSE t[i - A]
  BY <1>1, Joined DEF Parcels
<1> HIDE DEF p, A
<1>5. \A i \in DOMAIN p : f[i] \in DOMAIN q /\ p[i] = q[f[i]]
  <2> SUFFICES ASSUME NEW i \in DOMAIN p PROVE f[i] \in DOMAIN q /\ p[i] = q[f[i]]
    OBVIOUS
  <2>1. CASE i <= A
    BY <1>1, <1>2, <1>4, <2>1
  <2>2. CASE ~(i <= A)
    <3>1. i \in Nat /\ i - A \in 1..(Len(w) - 1) /\ p[i] = t[i - A] /\ f[i] = i + 1
      BY <1>1, <1>4, <2>2
    <3>2. i + 1 \in 1..(A + Len(w)) /\ ~(i + 1 <= A) /\ (i + 1) - A = (i - A) + 1
      BY <1>1, <1>4, <2>2, <3>1
    <3>3. q[i + 1] = w[(i - A) + 1]
      BY <1>2, <3>2
    <3> QED BY <1>1, <1>2, <3>1, <3>2, <3>3
  <2> QED BY <2>1, <2>2
<1>6. \A i, j \in DOMAIN p : i < j => f[i] < f[j]
  BY <1>1, <1>4
<1>7. \A j \in DOMAIN q : q[j].req = r => \E i \in DOMAIN p : p[i] = q[j]
  <2> SUFFICES ASSUME NEW j \in DOMAIN q, q[j].req = r PROVE \E i \in DOMAIN p : p[i] = q[j]
    OBVIOUS
  <2>1. CASE j <= A
    BY <1>1, <1>2, <1>4, <2>1
  <2>2. CASE ~(j <= A)
    <3>1. j \in Nat /\ q[j] = w[j - A] /\ j - A \in 1..Len(w)
      BY <1>1, <1>2, <2>2
    <3>2. j - A # 1
      BY <1>1, <3>1
    <3>3. j - 1 \in 1..(A + Len(t)) /\ ~(j - 1 <= A) /\ (j - 1) - A \in 1..(Len(w) - 1)
          /\ ((j - 1) - A) + 1 = j - A
      BY <1>1, <3>1, <3>2
    <3>4. p[j - 1] = t[(j - 1) - A] /\ t[(j - 1) - A] = w[((j - 1) - A) + 1]
      BY <1>1, <1>4, <3>3
    <3> QED BY <1>4, <3>1, <3>3, <3>4
  <2> QED BY <2>1, <2>2
<1> HIDE DEF f
<1>8. Streamed(r, p, lost, n, all)
  <2>1. Aligned(p, q, f, r)
    BY <1>5, <1>6, <1>7 DEF Aligned
  <2> QED BY <1>2, <1>3, <1>4, <2>1, StreamedLike
<1> QED BY <1>8 DEF p, t

\* When what follows is lost.
LEMMA StreamedCut ==
    ASSUME NEW q \in Parcels, NEW l \in 0..Len(q), NEW r, NEW lost \in BOOLEAN,
           NEW n \in Nat, NEW all \in Nat, Streamed(r, q, lost, n, all)
    PROVE  Streamed(r, SubSeq(q, 1, l), TRUE, n, all)
<1> DEFINE p == SubSeq(q, 1, l)
<1>1. /\ Len(q) \in Nat /\ DOMAIN q = 1..Len(q) /\ DOMAIN p = 1..l
      /\ \A i \in 1..l : p[i] = q[i]
  BY DEF Parcels
<1> HIDE DEF p
<1>2. \A i, j \in DOMAIN q : i < j /\ q[i].req = r /\ q[j].req = r => q[i].part < q[j].part
  BY DEF Streamed
<1>3. \A i \in DOMAIN q : q[i].req = r =>
         /\ q[i].part \in (n + 1)..all
         /\ \A k \in (n + 1)..q[i].part : \E j \in DOMAIN q : q[j].req = r /\ q[j].part = k
  BY DEF Streamed
<1>4. \A i \in DOMAIN p : i \in DOMAIN q /\ p[i] = q[i]
  BY <1>1
<1>5. \A i, j \in DOMAIN p : i < j /\ p[i].req = r /\ p[j].req = r => p[i].part < p[j].part
  BY <1>2, <1>4
<1>6. ASSUME NEW i \in DOMAIN p, p[i].req = r
      PROVE  /\ p[i].part \in (n + 1)..all
             /\ \A k \in (n + 1)..p[i].part : \E j \in DOMAIN p : p[j].req = r /\ p[j].part = k
  <2>1. i \in DOMAIN q /\ p[i] = q[i] /\ q[i].part \in (n + 1)..all
    BY <1>3, <1>4, <1>6
  <2>2. ASSUME NEW k \in (n + 1)..q[i].part
        PROVE  \E j \in DOMAIN p : p[j].req = r /\ p[j].part = k
    <3>1. PICK j \in DOMAIN q : q[j].req = r /\ q[j].part = k
      BY <1>3, <1>6, <2>1
    <3>2. j <= i
      <4>1. CASE i < j
        <5>1. q[i].part < k
          BY <1>2, <1>6, <2>1, <3>1, <4>1
        <5> QED BY <2>1, <5>1
      <4>2. CASE ~(i < j)
        BY <1>1, <2>1, <4>2
      <4> QED BY <4>1, <4>2
    <3>3. j \in DOMAIN p /\ p[j] = q[j]
      BY <1>1, <3>2
    <3> QED BY <3>1, <3>3
  <2> QED BY <2>1, <2>2
<1>7. n <= all
  BY DEF Streamed
<1>8. Streamed(r, p, TRUE, n, all)
  BY <1>5, <1>6, <1>7 DEF Streamed
<1> QED BY <1>8 DEF p

\* An absent request stays absent when none of its messages is added.
LEMMA AbsentOther ==
    ASSUME NEW q \in Parcels, NEW m \in Message, NEW r, m.req # r, Absent(r, q)
    PROVE  Absent(r, Append(q, m))
BY DEF Absent, Parcels

LEMMA AbsentPast ==
    ASSUME NEW a \in Parcels, NEW w \in Parcels, w # <<>>, NEW r, Absent(r, a \o w)
    PROVE  Absent(r, a \o Tail(w))
<1> DEFINE t == Tail(w)
           p == a \o t
           q == a \o w
<1>1. /\ Len(a) \in Nat /\ Len(w) \in Nat /\ Len(w) >= 1 /\ t \in Parcels /\ Len(t) = Len(w) - 1
      /\ \A i \in 1..(Len(w) - 1) : t[i] = w[i + 1]
  BY DEF Parcels
<1>2. /\ DOMAIN q = 1..(Len(a) + Len(w))
      /\ \A i \in 1..(Len(a) + Len(w)) : q[i] = IF i <= Len(a) THEN a[i] ELSE w[i - Len(a)]
  <2>1. a \in Parcels /\ w \in Parcels /\ Len(a) = Len(a) /\ Len(w) = Len(w)
    OBVIOUS
  <2>2. Join(a \o w, a, w, Len(a), Len(w))
    BY <2>1, JoinedAs
  <2> QED BY <2>2 DEF Join
<1>3. Absent(r, q)
  OBVIOUS
<1> HIDE DEF q, t
<1>4. /\ DOMAIN p = 1..(Len(a) + Len(t))
      /\ \A i \in 1..(Len(a) + Len(t)) : p[i] = IF i <= Len(a) THEN a[i] ELSE t[i - Len(a)]
  <2>1. a \in Parcels /\ t \in Parcels /\ Len(a) = Len(a) /\ Len(t) = Len(t)
    BY <1>1
  <2>2. Join(a \o t, a, t, Len(a), Len(t))
    BY <2>1, JoinedAs
  <2> QED BY <1>1, <2>2 DEF Join
<1> HIDE DEF p
<1>5. ASSUME NEW i \in DOMAIN p PROVE p[i].req # r
  <2>1. CASE i <= Len(a)
    <3>1. i \in DOMAIN q /\ q[i] = p[i]
      BY <1>1, <1>2, <1>4, <2>1
    <3> QED BY <1>3, <3>1 DEF Absent
  <2>2. CASE ~(i <= Len(a))
    <3>1. i \in Nat /\ i - Len(a) \in 1..(Len(w) - 1) /\ p[i] = t[i - Len(a)]
      BY <1>1, <1>4, <2>2
    <3>2. i + 1 \in DOMAIN q /\ ~(i + 1 <= Len(a)) /\ (i + 1) - Len(a) = (i - Len(a)) + 1
      BY <1>1, <1>2, <1>4, <2>2, <3>1
    <3>3. q[i + 1] = p[i]
      BY <1>1, <1>2, <3>1, <3>2
    <3> QED BY <1>3, <3>2, <3>3 DEF Absent
  <2> QED BY <2>1, <2>2
<1>6. Absent(r, p)
  BY <1>5 DEF Absent
<1> QED BY <1>6 DEF p, t

-----------------------------------------------------------------------------
(* What the steps do to the way to the screen.                             *)

LEMMA SameParcels ==
    ASSUME NEW S, NEW p \in Seq(S), NEW q \in Seq(S), Len(p) = Len(q),
           \A i \in 1..Len(q) : p[i] = q[i]
    PROVE  p = q
OBVIOUS

Held == IF hand = Nothing THEN <<>> ELSE <<hand>>

LEMMA PipeType == TypeOK => Held \in Parcels /\ channel \in Parcels /\ wire \in Parcels
                            /\ channel \o Held \in Parcels /\ Pipe = (channel \o Held) \o wire
                            /\ Pipe \in Parcels
<1> SUFFICES ASSUME TypeOK
             PROVE  Held \in Parcels /\ channel \in Parcels /\ wire \in Parcels
                    /\ channel \o Held \in Parcels /\ Pipe = (channel \o Held) \o wire
                    /\ Pipe \in Parcels
  OBVIOUS
<1>1. channel \in Parcels /\ wire \in Parcels
  BY DEF TypeOK, Parcels
<1>2. Held \in Parcels
  BY DEF Held, Parcels, TypeOK
<1>3. Pipe = (channel \o Held) \o wire
  BY DEF Pipe, Held
<1>4. channel \o Held \in Parcels
  BY <1>1, <1>2 DEF Parcels
<1>5. (channel \o Held) \o wire \in Parcels
  BY <1>1, <1>4 DEF Parcels
<1> QED BY <1>1, <1>2, <1>3, <1>4, <1>5

\* From the wire into the hands of prompt_streaming.
LEMMA PipeTaken ==
    ASSUME NEW c \in Parcels, NEW w \in Parcels, w # <<>>
    PROVE  (c \o <<Head(w)>>) \o Tail(w) = (c \o <<>>) \o w
<1> DEFINE h == <<Head(w)>>
           t == Tail(w)
           e == <<>>
           p == (c \o h) \o t
           q == (c \o e) \o w
           C == Len(c)
           W == Len(w)
<1>1. /\ C \in Nat /\ W \in Nat /\ W >= 1 /\ h \in Parcels /\ Len(h) = 1 /\ h[1] = w[1]
      /\ t \in Parcels /\ Len(t) = W - 1 /\ \A i \in 1..(W - 1) : t[i] = w[i + 1]
      /\ e \in Parcels /\ Len(e) = 0
  BY DEF Parcels
<1> HIDE DEF h, t, e
<1>2. /\ c \o h \in Parcels /\ Len(c \o h) = C + 1
      /\ \A i \in 1..(C + 1) : (c \o h)[i] = IF i <= C THEN c[i] ELSE h[i - C]
  <2>1. c \in Parcels /\ h \in Parcels /\ Len(c) = C /\ Len(h) = 1
    BY <1>1
  <2>2. Join(c \o h, c, h, C, 1)
    BY <2>1, JoinedAs
  <2> QED BY <1>1, <2>2 DEF Join
<1>3. /\ c \o e \in Parcels /\ Len(c \o e) = C
      /\ \A i \in 1..C : (c \o e)[i] = c[i]
  <2>1. c \in Parcels /\ e \in Parcels /\ Len(c) = C /\ Len(e) = 0
    BY <1>1
  <2>2. Join(c \o e, c, e, C, 0)
    BY <2>1, JoinedAs
  <2> QED BY <1>1, <2>2 DEF Join
<1>4. /\ p \in Parcels /\ Len(p) = (C + 1) + (W - 1)
      /\ \A i \in 1..((C + 1) + (W - 1)) : p[i] = IF i <= C + 1 THEN (c \o h)[i] ELSE t[i - (C + 1)]
  <2>1. c \o h \in Parcels /\ t \in Parcels /\ Len(c \o h) = C + 1 /\ Len(t) = W - 1
    BY <1>1, <1>2
  <2>2. Join((c \o h) \o t, c \o h, t, C + 1, W - 1)
    BY <2>1, JoinedAs
  <2> QED BY <1>1, <1>2, <2>2 DEF Join
<1>5. /\ q \in Parcels /\ Len(q) = C + W
      /\ \A i \in 1..(C + W) : q[i] = IF i <= C THEN (c \o e)[i] ELSE w[i - C]
  <2>1. c \o e \in Parcels /\ w \in Parcels /\ Len(c \o e) = C /\ Len(w) = W
    BY <1>1, <1>3
  <2>2. Join((c \o e) \o w, c \o e, w, C, W)
    BY <2>1, JoinedAs
  <2> QED BY <1>1, <1>3, <2>2 DEF Join
<1> HIDE DEF p, q, C, W
<1>6. Len(p) = Len(q)
  BY <1>1, <1>4, <1>5
<1>7. ASSUME NEW i \in 1..Len(q) PROVE p[i] = q[i]
  <2>1. CASE i <= C
    BY <1>1, <1>2, <1>3, <1>4, <1>5, <2>1
  <2>2. CASE i = C + 1
    <3>1. i - C = 1 /\ i \in 1..((C + 1) + (W - 1)) /\ i \in 1..(C + W) /\ i <= C + 1 /\ ~(i <= C)
          /\ i \in 1..(C + 1)
      BY <1>1, <2>2
    <3>2. p[i] = h[1]
      BY <1>2, <1>4, <3>1
    <3>3. q[i] = w[1]
      BY <1>5, <3>1
    <3> QED BY <1>1, <3>2, <3>3
  <2>3. CASE i > C + 1
    <3>1. i - (C + 1) \in 1..(W - 1) /\ ~(i <= C + 1) /\ ~(i <= C) /\ (i - (C + 1)) + 1 = i - C
          /\ i \in 1..((C + 1) + (W - 1)) /\ i \in 1..(C + W)
      BY <1>1, <1>5, <2>3
    <3>2. p[i] = w[(i - (C + 1)) + 1]
      BY <1>1, <1>4, <3>1
    <3>3. q[i] = w[i - C]
      BY <1>5, <3>1
    <3> QED BY <3>1, <3>2, <3>3
  <2>4. i \in Nat
    OBVIOUS
  <2> QED BY <1>1, <2>1, <2>2, <2>3, <2>4
<1>8. p = q
  BY <1>4, <1>5, <1>6, <1>7, SameParcels DEF Parcels
<1> QED BY <1>8 DEF p, q, h, t, e

\* From there into the channel.
LEMMA PipeGiven ==
    ASSUME NEW c \in Parcels, NEW m \in Message, NEW w \in Parcels
    PROVE  (Append(c, m) \o <<>>) \o w = (c \o <<m>>) \o w
<1>1. Append(c, m) = c \o <<m>>
  BY DEF Parcels
<1>2. Append(c, m) \o <<>> = Append(c, m)
  BY DEF Parcels
<1> QED BY <1>1, <1>2

\* Out of the channel.
FirstLeft(c, h, w) ==
    /\ (Tail(c) \o h) \o w = Tail((c \o h) \o w)
    /\ Head((c \o h) \o w) = Head(c) /\ (c \o h) \o w # <<>>

LEMMA PipeShown ==
    ASSUME NEW c \in Parcels, c # <<>>, NEW h \in Parcels, NEW w \in Parcels
    PROVE  FirstLeft(c, h, w)
<1> DEFINE t == Tail(c)
           a == c \o h
           b == t \o h
           q == a \o w
           p == b \o w
           C == Len(c)
           H == Len(h)
           W == Len(w)
<1>1. /\ C \in Nat /\ H \in Nat /\ W \in Nat /\ C >= 1 /\ Head(c) = c[1]
      /\ t \in Parcels /\ Len(t) = C - 1 /\ \A i \in 1..(C - 1) : t[i] = c[i + 1]
  BY DEF Parcels
<1> HIDE DEF t
<1>2. /\ a \in Parcels /\ Len(a) = C + H
      /\ \A i \in 1..(C + H) : a[i] = IF i <= C THEN c[i] ELSE h[i - C]
  <2>1. c \in Parcels /\ h \in Parcels /\ Len(c) = C /\ Len(h) = H
    BY <1>1
  <2>2. Join(c \o h, c, h, C, H)
    BY <2>1, JoinedAs
  <2> QED BY <1>1, <2>2 DEF Join
<1>3. /\ b \in Parcels /\ Len(b) = (C - 1) + H
      /\ \A i \in 1..((C - 1) + H) : b[i] = IF i <= C - 1 THEN t[i] ELSE h[i - (C - 1)]
  <2>1. t \in Parcels /\ h \in Parcels /\ Len(t) = C - 1 /\ Len(h) = H
    BY <1>1
  <2>2. Join(t \o h, t, h, C - 1, H)
    BY <2>1, JoinedAs
  <2> QED BY <1>1, <2>2 DEF Join
<1> HIDE DEF a, b
<1>4. /\ q \in Parcels /\ Len(q) = (C + H) + W
      /\ \A i \in 1..((C + H) + W) : q[i] = IF i <= C + H THEN a[i] ELSE w[i - (C + H)]
  <2>1. a \in Parcels /\ w \in Parcels /\ Len(a) = C + H /\ Len(w) = W
    BY <1>1, <1>2
  <2>2. Join(a \o w, a, w, C + H, W)
    BY <2>1, JoinedAs
  <2> QED BY <1>1, <1>2, <2>2 DEF Join
<1>5. /\ p \in Parcels /\ Len(p) = ((C - 1) + H) + W
      /\ \A i \in 1..(((C - 1) + H) + W) : p[i] = IF i <= (C - 1) + H THEN b[i] ELSE w[i - ((C - 1) + H)]
  <2>1. b \in Parcels /\ w \in Parcels /\ Len(b) = (C - 1) + H /\ Len(w) = W
    BY <1>1, <1>3
  <2>2. Join(b \o w, b, w, (C - 1) + H, W)
    BY <2>1, JoinedAs
  <2> QED BY <1>1, <1>3, <2>2 DEF Join
<1> HIDE DEF p, q, C, H, W
<1>6. /\ Tail(q) \in Parcels /\ Len(Tail(q)) = Len(p) /\ q # <<>> /\ Head(q) = q[1]
      /\ \A i \in 1..Len(p) : Tail(q)[i] = q[i + 1]
  <2>1. q # <<>> /\ q \in Seq(Message)
    BY <1>1, <1>4 DEF Parcels
  <2>2. Len(Tail(q)) = Len(q) - 1 /\ Len(p) = Len(q) - 1 /\ Len(p) \in Nat
    BY <1>1, <1>4, <1>5, <2>1, HeadTail
  <2> QED BY <2>1, <2>2, HeadTail DEF Parcels
<1>7. ASSUME NEW i \in 1..Len(p) PROVE p[i] = q[i + 1]
  <2>0. i \in Nat /\ i >= 1 /\ i <= ((C - 1) + H) + W
    BY <1>1, <1>5
  <2>1. CASE i <= C - 1
    <3>1. i \in 1..(C - 1) /\ i \in 1..((C - 1) + H) /\ i <= (C - 1) + H /\ i \in 1..(((C - 1) + H) + W)
          /\ i + 1 <= C /\ i + 1 \in 1..(C + H) /\ i + 1 \in 1..((C + H) + W) /\ i + 1 <= C + H
      BY <1>1, <2>0, <2>1
    <3>2. p[i] = c[i + 1]
      BY <1>1, <1>3, <1>5, <3>1
    <3>3. q[i + 1] = c[i + 1]
      BY <1>2, <1>4, <3>1
    <3> QED BY <3>2, <3>3
  <2>2. CASE ~(i <= C - 1) /\ i <= (C - 1) + H
    <3>1. i \in 1..((C - 1) + H) /\ i \in 1..(((C - 1) + H) + W)
          /\ ~(i + 1 <= C) /\ i + 1 \in 1..(C + H) /\ i + 1 \in 1..((C + H) + W) /\ i + 1 <= C + H
          /\ (i + 1) - C = i - (C - 1)
      BY <1>1, <2>0, <2>2
    <3>2. p[i] = h[i - (C - 1)]
      BY <1>3, <1>5, <2>2, <3>1
    <3>3. q[i + 1] = h[(i + 1) - C]
      BY <1>2, <1>4, <3>1
    <3> QED BY <3>1, <3>2, <3>3
  <2>3. CASE ~(i <= (C - 1) + H)
    <3>1. i \in 1..(((C - 1) + H) + W) /\ ~(i + 1 <= C + H) /\ i + 1 \in 1..((C + H) + W)
          /\ (i + 1) - (C + H) = i - ((C - 1) + H)
      BY <1>1, <2>0, <2>3
    <3>2. p[i] = w[i - ((C - 1) + H)]
      BY <1>5, <2>3, <3>1
    <3>3. q[i + 1] = w[(i + 1) - (C + H)]
      BY <1>4, <3>1
    <3> QED BY <3>1, <3>2, <3>3
  <2> QED BY <2>1, <2>2, <2>3
<1>8. p = Tail(q)
  BY <1>5, <1>6, <1>7, SameParcels DEF Parcels
<1>9. q[1] = c[1]
  <2>1. 1 \in 1..((C + H) + W) /\ 1 \in 1..(C + H) /\ 1 <= C /\ 1 <= C + H
    BY <1>1
  <2> QED BY <1>2, <1>4, <2>1
<1> QED BY <1>1, <1>6, <1>8, <1>9 DEF p, q, a, b, t, FirstLeft

\* Onto the wire.
LEMMA PipeSent ==
    ASSUME NEW a \in Parcels, NEW w \in Parcels, NEW m \in Message
    PROVE  a \o Append(w, m) = Append(a \o w, m)
BY DEF Parcels

\* Off it, when the connection fails.
LEMMA PipeLost ==
    ASSUME NEW a \in Parcels, NEW w \in Parcels, NEW n \in 0..Len(w)
    PROVE  /\ Len(a) + n \in 0..Len(a \o w)
           /\ a \o SubSeq(w, 1, n) = SubSeq(a \o w, 1, Len(a) + n)
<1> DEFINE s == SubSeq(w, 1, n)
           p == a \o s
           q == a \o w
           l == Len(a) + n
           t == SubSeq(q, 1, l)
<1>1. /\ Len(a) \in Nat /\ Len(w) \in Nat /\ n \in Nat /\ n <= Len(w)
      /\ s \in Parcels /\ Len(s) = n /\ \A i \in 1..n : s[i] = w[i]
  BY DEF Parcels
<1> HIDE DEF s
<1>2. /\ q \in Parcels /\ Len(q) = Len(a) + Len(w)
      /\ \A i \in 1..(Len(a) + Len(w)) : q[i] = IF i <= Len(a) THEN a[i] ELSE w[i - Len(a)]
  <2>1. a \in Parcels /\ w \in Parcels /\ Len(a) = Len(a) /\ Len(w) = Len(w)
    BY <1>1
  <2>2. Join(a \o w, a, w, Len(a), Len(w))
    BY <2>1, JoinedAs
  <2> QED BY <1>1, <2>2 DEF Join
<1>3. /\ p \in Parcels /\ Len(p) = l
      /\ \A i \in 1..l : p[i] = IF i <= Len(a) THEN a[i] ELSE s[i - Len(a)]
  <2>1. a \in Parcels /\ s \in Parcels /\ Len(a) = Len(a) /\ Len(s) = n
    BY <1>1
  <2>2. Join(a \o s, a, s, Len(a), n)
    BY <2>1, JoinedAs
  <2> QED BY <1>1, <2>2 DEF Join
<1> HIDE DEF p, q
<1>4. l \in 0..Len(q)
  BY <1>1, <1>2
<1>5. /\ t \in Parcels /\ Len(t) = l /\ \A i \in 1..l : t[i] = q[i]
  BY <1>2, <1>4, Cut0 DEF Parcels
<1> HIDE DEF t
<1>6. ASSUME NEW i \in 1..l PROVE p[i] = t[i]
  <2>1. CASE i <= Len(a)
    BY <1>1, <1>2, <1>3, <1>5, <2>1
  <2>2. CASE ~(i <= Len(a))
    <3>1. i - Len(a) \in 1..n /\ i \in 1..(Len(a) + Len(w))
      BY <1>1, <2>2
    <3>2. p[i] = w[i - Len(a)]
      BY <1>1, <1>3, <2>2, <3>1
    <3>3. t[i] = w[i - Len(a)]
      BY <1>2, <1>5, <2>2, <3>1
    <3> QED BY <3>2, <3>3
  <2> QED BY <2>1, <2>2
<1>7. p = t
  <2>1. \A i \in 1..Len(t) : p[i] = t[i]
    BY <1>5, <1>6
  <2> QED BY <1>3, <1>5, <2>1, SameParcels DEF Parcels
<1> QED BY <1>4, <1>7 DEF p, q, t, s

-----------------------------------------------------------------------------
(* The way of an answer, step by step.                                     *)

LEMMA StreamedLost ==
    ASSUME NEW r, NEW q, NEW lost \in BOOLEAN, NEW n, NEW all, Streamed(r, q, lost, n, all)
    PROVE  Streamed(r, q, TRUE, n, all)
BY DEF Streamed

\* A step that touches neither the way nor the server's side of it.
LEMMA KeptSame ==
    ASSUME Kept, Pipe' = Pipe, UNCHANGED <<stage, shown, streamed>>, link' = link \/ link' # "up"
    PROVE  Kept'
<1>1. ASSUME NEW r \in Requests, stage'[r] # "none"
      PROVE  Streamed(r, Pipe', link' # "up", shown'[r], streamed'[r])
  <2>1. Streamed(r, Pipe, link # "up", shown[r], streamed[r])
    BY <1>1 DEF Kept
  <2>2. Streamed(r, Pipe, link' # "up", shown[r], streamed[r])
    <3>1. CASE link' = link
      BY <2>1, <3>1
    <3>2. CASE link' # "up"
      <4>1. Streamed(r, Pipe, TRUE, shown[r], streamed[r])
        BY <2>1, StreamedLost
      <4> QED BY <3>2, <4>1
    <3> QED BY <3>1, <3>2
  <2> QED BY <2>2
<1> QED BY <1>1 DEF Kept

\* One that makes nothing wait to come.
LEMMA LaterSame ==
    ASSUME Later, Pipe' = Pipe, UNCHANGED <<stage, shown>>,
           \A r \in Requests : ToCome(r)' => ToCome(r)
    PROVE  Later'
BY DEF Later

\* Where prompt_streaming holds no message.
LEMMA EmptyHanded == TypeOK /\ at # "give" => Held = <<>>
BY DEF TypeOK, Held

LEMMA PipeSame == UNCHANGED <<channel, hand, wire>> => Pipe' = Pipe
BY DEF Pipe

\* The reply to a command is read past the answers of prompts.
LEMMA ReplyRead ==
    ASSUME TypeOK, Kept, Later, at # "give", wire # <<>>, wire' = Tail(wire),
           UNCHANGED <<channel, hand, stage, shown, streamed, link, up, asked>>,
           \A r \in Requests : Head(wire).req = r => stage[r] = "none"
    PROVE  Kept' /\ Later'
<1> DEFINE a == channel \o Held
<1>1. a \in Parcels /\ wire \in Parcels /\ Pipe = a \o wire
  BY PipeType
<1>2. Pipe' = a \o Tail(wire)
  BY DEF Pipe, Held
<1> HIDE DEF a
<1>3. ASSUME NEW r \in Requests, stage'[r] # "none"
      PROVE  Streamed(r, Pipe', link' # "up", shown'[r], streamed'[r])
  <2>1. Streamed(r, a \o wire, link # "up", shown[r], streamed[r]) /\ Head(wire).req # r
    BY <1>1, <1>3 DEF Kept
  <2>2. shown[r] \in Nat /\ streamed[r] \in Nat
    BY ConstantsAssumption DEF TypeOK
  <2>3. Streamed(r, a \o Tail(wire), link # "up", shown[r], streamed[r])
    BY <1>1, <2>1, <2>2, StreamedPast
  <2> QED BY <1>2, <2>3
<1>4. ASSUME NEW r \in Requests, ToCome(r)'
      PROVE  stage'[r] = "none" /\ shown'[r] = 0 /\ Absent(r, Pipe')
  <2>1. stage[r] = "none" /\ shown[r] = 0 /\ Absent(r, a \o wire)
    BY <1>1, <1>4 DEF Later, ToCome
  <2>2. Absent(r, a \o Tail(wire))
    BY <1>1, <2>1, AbsentPast
  <2> QED BY <1>2, <2>1, <2>2
<1> QED BY <1>3, <1>4 DEF Kept, Later

\* A message for the screen.
LEMMA OneShown ==
    ASSUME TypeOK, Kept, Later, Show
    PROVE  Kept' /\ Later'
<1>1. /\ channel \in Parcels /\ Held \in Parcels /\ wire \in Parcels
      /\ Pipe = (channel \o Held) \o wire /\ Pipe \in Parcels
  BY PipeType
<1>2. channel # <<>> /\ channel' = Tail(channel)
      /\ UNCHANGED <<hand, wire, stage, streamed, link, up, asked>>
      /\ shown' = IF Head(channel).part = 0 THEN shown ELSE [shown EXCEPT ![Head(channel).req] = @ + 1]
  BY DEF Show, server
<1>3. Pipe' = (Tail(channel) \o Held) \o wire
  BY <1>2 DEF Pipe, Held
<1>4. Pipe' = Tail(Pipe) /\ Head(Pipe) = Head(channel) /\ Pipe # <<>>
  <2>1. FirstLeft(channel, Held, wire)
    BY <1>1, <1>2, PipeShown
  <2> QED BY <1>1, <1>3, <2>1 DEF FirstLeft
<1>5. 1 \in DOMAIN Pipe /\ Pipe[1] = Head(Pipe) /\ \A i \in DOMAIN Tail(Pipe) : \E j \in DOMAIN Pipe : Tail(Pipe)[i] = Pipe[j]
  <2>1. Pipe \in Seq(Message) /\ Pipe # <<>>
    BY <1>1, <1>4 DEF Parcels
  <2>2. /\ Head(Pipe) = Pipe[1] /\ Len(Pipe) >= 1 /\ Len(Tail(Pipe)) = Len(Pipe) - 1
        /\ Tail(Pipe) \in Seq(Message)
        /\ \A i \in 1..Len(Tail(Pipe)) : Tail(Pipe)[i] = Pipe[i + 1]
    BY <2>1, HeadTail
  <2>3. DOMAIN Pipe = 1..Len(Pipe) /\ DOMAIN Tail(Pipe) = 1..Len(Tail(Pipe)) /\ Len(Pipe) \in Nat
    BY <2>1, <2>2
  <2>4. \A i \in DOMAIN Tail(Pipe) : i + 1 \in DOMAIN Pipe /\ Tail(Pipe)[i] = Pipe[i + 1]
    BY <2>2, <2>3
  <2> QED BY <2>2, <2>3, <2>4
<1>6. ASSUME NEW r \in Requests, stage'[r] # "none"
      PROVE  Streamed(r, Pipe', link' # "up", shown'[r], streamed'[r])
  <2>1. Streamed(r, Pipe, link # "up", shown[r], streamed[r])
    BY <1>2, <1>6 DEF Kept
  <2>2. shown[r] \in Nat /\ streamed[r] \in Nat /\ shown \in [Requests -> Nat]
    BY ConstantsAssumption DEF TypeOK
  <2>3. Streamed(r, Tail(Pipe), link # "up", IF Head(Pipe).req = r THEN shown[r] + 1 ELSE shown[r], streamed[r])
    BY <1>1, <1>4, <2>1, <2>2, StreamedTail
  <2>4. Head(Pipe).req = r => Head(Pipe).part # 0
    <3>1. Pipe[1].req = r => Pipe[1].part \in (shown[r] + 1)..streamed[r]
      BY <1>5, <2>1 DEF Streamed
    <3> QED BY <1>5, <2>2, <3>1
  <2>5. shown'[r] = IF Head(Pipe).req = r THEN shown[r] + 1 ELSE shown[r]
    BY <1>2, <1>4, <2>2, <2>4
  <2> QED BY <1>2, <1>4, <2>3, <2>5
<1>7. ASSUME NEW r \in Requests, ToCome(r)'
      PROVE  stage'[r] = "none" /\ shown'[r] = 0 /\ Absent(r, Pipe')
  <2>1. stage[r] = "none" /\ shown[r] = 0 /\ Absent(r, Pipe)
    BY <1>2, <1>7 DEF Later, ToCome
  <2>2. Head(channel).req # r /\ Absent(r, Tail(Pipe))
    BY <1>4, <1>5, <2>1 DEF Absent
  <2>3. shown'[r] = 0
    BY <1>2, <2>1, <2>2 DEF TypeOK
  <2> QED BY <1>2, <1>4, <2>1, <2>2, <2>3
<1> QED BY <1>6, <1>7 DEF Kept, Later

\* A message of a prompt joins the others.
LEMMA OneSent ==
    ASSUME TypeOK, Kept, Later, Places, NEW q \in Requests, Stream(q) \/ Finish(q)
    PROVE  Kept' /\ Later'
<1> DEFINE a == channel \o Held
<1>1. a \in Parcels /\ wire \in Parcels /\ Pipe = a \o wire /\ Pipe \in Parcels
  BY PipeType
<1>2. PICK k \in {"out", "notice", "exhausted", "done"} : Send(q, k)
  BY DEF Stream, Finish
<1> DEFINE m == Msg(q, k, streamed[q] + 1, NoTool)
<1>3. /\ streamed' = [streamed EXCEPT ![q] = @ + 1] /\ wire' = Append(wire, m)
      /\ UNCHANGED <<channel, hand, shown, link, up, asked>> /\ link = "up" /\ Live(q)
      /\ \A r \in Requests : r # q => stage'[r] = stage[r]
  BY <1>2 DEF Stream, Finish, Send, Streaming, Live, client, TypeOK
<1>4. m \in Message /\ m.req = q /\ m.part = streamed[q] + 1
  <2>1. streamed[q] \in Nat /\ streamed[q] <= MaxParts /\ q \in 0..MaxRequests /\ NoTool \in Tools \cup {NoTool}
    BY <1>3, ConstantsAssumption DEF TypeOK, Places, Requests
  <2>2. streamed[q] + 1 \in 0..(MaxParts + 1)
    BY <2>1, ConstantsAssumption
  <2>3. m \in Message
    BY <1>2, <2>1, <2>2, MsgType
  <2> QED BY <2>3 DEF Msg
<1> HIDE DEF a, m
<1>5. Pipe' = a \o wire'
  BY <1>3 DEF Pipe, Held, a
<1>6. Pipe' = Append(Pipe, m)
  BY <1>1, <1>3, <1>4, <1>5, PipeSent
<1>7. ASSUME NEW r \in Requests, stage'[r] # "none"
      PROVE  Streamed(r, Pipe', link' # "up", shown'[r], streamed'[r])
  <2>1. Streamed(r, Pipe, FALSE, shown[r], streamed[r])
    BY <1>3, <1>7 DEF Kept, Live
  <2>2. shown[r] \in Nat /\ streamed[r] \in Nat /\ streamed \in [Requests -> Nat]
    BY ConstantsAssumption DEF TypeOK
  <2>3. CASE r = q
    <3>1. Streamed(r, Append(Pipe, m), FALSE, shown[r], streamed[r] + 1)
      BY <1>1, <1>4, <2>1, <2>2, <2>3, StreamedNext
    <3>2. streamed'[r] = streamed[r] + 1
      BY <1>3, <2>2, <2>3
    <3> QED BY <1>3, <1>6, <3>1, <3>2
  <2>4. CASE r # q
    <3>1. Streamed(r, Append(Pipe, m), FALSE, shown[r], streamed[r])
      BY <1>1, <1>4, <2>1, <2>2, <2>4, StreamedOther
    <3>2. streamed'[r] = streamed[r]
      BY <1>3, <2>2, <2>4
    <3> QED BY <1>3, <1>6, <3>1, <3>2
  <2> QED BY <2>3, <2>4
<1>8. ASSUME NEW r \in Requests, ToCome(r)'
      PROVE  stage'[r] = "none" /\ shown'[r] = 0 /\ Absent(r, Pipe')
  <2>1. stage[r] = "none" /\ shown[r] = 0 /\ Absent(r, Pipe)
    BY <1>3, <1>8 DEF Later, ToCome
  <2>2. r # q
    BY <1>3, <2>1 DEF Live
  <2>3. Absent(r, Append(Pipe, m))
    BY <1>1, <1>4, <2>1, <2>2, AbsentOther
  <2> QED BY <1>3, <1>6, <2>1, <2>2, <2>3
<1> QED BY <1>7, <1>8 DEF Kept, Later

\* What the connection still brings when it has failed.
LEMMA SomeLost ==
    ASSUME TypeOK, Kept, Later, Lose
    PROVE  Kept' /\ Later'
<1> DEFINE a == channel \o Held
<1>1. a \in Parcels /\ wire \in Parcels /\ Pipe = a \o wire /\ Pipe \in Parcels
  BY PipeType
<1>2. PICK n \in 0..Len(wire) : wire' = SubSeq(wire, 1, n)
  BY DEF Lose
<1>3. UNCHANGED <<channel, hand, stage, shown, streamed, asked>> /\ link' # "up"
  BY DEF Lose, rest, server
<1>4. Pipe' = a \o SubSeq(wire, 1, n)
  BY <1>2, <1>3 DEF Pipe, Held
<1> HIDE DEF a
<1> DEFINE l == Len(a) + n
<1>5. l \in 0..Len(Pipe) /\ Pipe' = SubSeq(Pipe, 1, l)
  BY <1>1, <1>4, PipeLost
<1> HIDE DEF l
<1>6. ASSUME NEW r \in Requests, stage'[r] # "none"
      PROVE  Streamed(r, Pipe', link' # "up", shown'[r], streamed'[r])
  <2>1. Streamed(r, Pipe, link # "up", shown[r], streamed[r])
    BY <1>3, <1>6 DEF Kept
  <2>2. shown[r] \in Nat /\ streamed[r] \in Nat
    BY ConstantsAssumption DEF TypeOK
  <2>3. Streamed(r, SubSeq(Pipe, 1, l), TRUE, shown[r], streamed[r])
    BY <1>1, <1>5, <2>1, <2>2, StreamedCut
  <2> QED BY <1>3, <1>5, <2>3
<1>7. ASSUME NEW r \in Requests, ToCome(r)'
      PROVE  stage'[r] = "none" /\ shown'[r] = 0 /\ Absent(r, Pipe')
  <2>1. stage[r] = "none" /\ shown[r] = 0 /\ Absent(r, Pipe)
    BY <1>3, <1>7 DEF Later, ToCome
  <2>2. \A i \in DOMAIN SubSeq(Pipe, 1, l) : i \in DOMAIN Pipe /\ SubSeq(Pipe, 1, l)[i] = Pipe[i]
    BY <1>1, <1>5 DEF Parcels
  <2>3. Absent(r, SubSeq(Pipe, 1, l))
    BY <2>1, <2>2 DEF Absent
  <2> QED BY <1>3, <1>5, <2>1, <2>3
<1> QED BY <1>6, <1>7 DEF Kept, Later

\* The client asks: nothing has been streamed for it.
LEMMA AskKept ==
    ASSUME TypeOK, Kept, Later, NEW k, NEW t, NEW l, NEW n, Ask(k, t, l, n),
           n \in {asked, asked + 1}, n = asked => n = 0
    PROVE  Kept' /\ Later'
<1>1. Pipe' = Pipe /\ UNCHANGED <<stage, shown, streamed, link>> /\ asked' = n
  BY PipeSame DEF Ask, rest, server
<1>2. Kept'
  BY <1>1, KeptSame
<1>3. ASSUME NEW r \in Requests, ToCome(r)'
      PROVE  ToCome(r)
  <2>1. r \in Nat /\ r >= 1 /\ asked \in Nat
    BY ConstantsAssumption DEF Requests, TypeOK
  <2>2. r > n \/ r = n
    BY <1>1, <1>3 DEF ToCome
  <2>3. r > asked
    BY <2>1, <2>2
  <2> QED BY <2>3 DEF ToCome
<1>4. Later'
  BY <1>1, <1>3, LaterSame
<1> QED BY <1>2, <1>4

\* Where the terminal interface is when the server has a request.
LEMMA Waiting ==
    ASSUME IInv, ui = "tui", ~exhausted, Closed, link = "up", up # <<>>
    PROVE  /\ at \in Asking /\ Len(up) = 1 /\ up[1].req = asked /\ up[1].kind = asking
           /\ Head(up) = up[1] /\ Tail(up) = <<>>
<1>1. at \in Asking
  BY DEF IInv, Pairing, Quiet, Clear, Closed, Places, TypeOK, Asking
<1>2. Len(up) = 1 /\ \A i \in 1..Len(up) : up[i].req = asked /\ up[i].kind = asking
  BY <1>1 DEF IInv, Pairing, Belonging
<1>3. up \in Seq(Request)
  BY DEF IInv, TypeOK
<1>4. Head(up) = up[1] /\ Tail(up) \in Seq(Request) /\ Len(Tail(up)) = 0
  BY <1>2, <1>3, HeadTail
<1>5. \A s \in Seq(Request) : Len(s) = 0 => s = <<>>
  OBVIOUS
<1>6. Tail(up) = <<>>
  BY <1>4, <1>5
<1> QED BY <1>1, <1>2, <1>4, <1>6

LEMMA KeptStep ==
    ASSUME IInv, KeptInv, [Next]_vars
    PROVE  KeptInv'
<1> SUFFICES ASSUME ui' = "tui", ~exhausted'
             PROVE  Later' /\ Unstarted' /\ Closed' /\ Kept'
  BY DEF KeptInv
<1> TypeOK /\ Places /\ Pairing
  BY DEF IInv
<1>0. ui = "tui" /\ (~exhausted => Later /\ Unstarted /\ Closed /\ Kept)
  <2>1. ui' = ui
    BY DEF Next, vars, client, Connect, Start, Ask, StartFails, Command, Prompt, RunOnce, AskFor, Quit,
           Receive, Started, Replied, PrintedLine, PrintedOnce, StreamTake, Give, RecvFails, Show,
           Server, Answer, Spawn, Relay, Stream, Finish, EndUnanswered, Send, Lose, IdleTimeout
  <2> QED BY <2>1 DEF KeptInv
<1>1. CASE UNCHANGED vars
  <2>1. UNCHANGED <<client, up, wire, server>> /\ ~exhausted
    BY <1>1 DEF vars, client
  <2>2. Pipe' = Pipe /\ UNCHANGED <<stage, shown, streamed, link, up, asked, at, asking>>
    BY <2>1, PipeSame DEF client, server
  <2> QED BY <1>0, <2>1, <2>2, KeptSame, LaterSame DEF Unstarted, Closed, ToCome
<1>2. CASE Connect
  <2>1. /\ UNCHANGED <<channel, hand, wire, stage, shown, streamed, up, asked, exhausted, asking>>
        /\ at = "connect" /\ at' \in {"start", "idle"}
    BY <1>0, <1>2 DEF Connect, rest, server, Ready
  <2>2. Pipe' = Pipe /\ asked = 0 /\ Later
    BY <1>0, <2>1, PipeSame DEF Unstarted
  <2>3. \A r \in Requests : r > asked
    BY <2>2, ConstantsAssumption DEF Requests
  <2>4. \A r \in Requests : stage'[r] = "none" /\ ToCome(r)
    BY <2>1, <2>2, <2>3 DEF Later, ToCome
  <2>5. Kept'
    BY <2>4 DEF Kept
  <2>6. Later'
    BY <2>1, <2>2, <2>4, LaterSame
  <2> QED BY <2>1, <2>2, <2>5, <2>6 DEF Unstarted, Closed
<1>3. CASE Start
  <2>1. at = "start" /\ Ask(Following[asking], NoTool, "greet", 0) /\ ~exhausted
    BY <1>3 DEF Start, Ask
  <2>2. asked = 0 /\ 0 \in {asked, asked + 1}
    BY <1>0, <2>1 DEF Unstarted
  <2>3. Kept' /\ Later'
    BY <1>0, <2>1, <2>2, AskKept
  <2>4. at' = "greet" /\ asked' = 0
    BY <2>1 DEF Ask
  <2>5. Unstarted' /\ Closed'
    BY <2>4 DEF Unstarted, Closed, Requests
  <2> QED BY <2>3, <2>5
<1>4. CASE StartFails
  <2>1. /\ UNCHANGED <<channel, hand, wire, stage, shown, streamed, link, up, asked, exhausted>>
        /\ at' = "idle"
    BY <1>0, <1>4 DEF StartFails, rest, server, Ready
  <2>2. Pipe' = Pipe
    BY <2>1, PipeSame
  <2> QED BY <1>0, <2>1, <2>2, KeptSame, LaterSame DEF Unstarted, Closed, ToCome
<1>5. ASSUME NEW k, NEW l \in {"reply", "stream"}, AskFor(k, l)
      PROVE  Later' /\ Unstarted' /\ Closed' /\ Kept'
  <2>1. PICK t \in ToolsNamed(k) : Ask(k, t, l, asked + 1)
    BY <1>5 DEF AskFor
  <2>2. ~exhausted /\ at' = l /\ asked' = asked + 1 /\ asked \in Nat /\ UNCHANGED stage
    BY <2>1, ConstantsAssumption DEF Ask, TypeOK, rest, server
  <2>3. Kept' /\ Later'
    BY <1>0, <2>1, <2>2, AskKept
  <2>4. \A r \in Requests : r = asked + 1 => stage[r] = "none"
    BY <1>0, <2>2 DEF Later, ToCome
  <2>5. Unstarted' /\ Closed'
    BY <2>2, <2>4 DEF Unstarted, Closed
  <2> QED BY <2>3, <2>5
<1>6. CASE Command
  BY <1>5, <1>6 DEF Command
<1>7. CASE Prompt
  BY <1>5, <1>7 DEF Prompt
<1>8. CASE RunOnce
  BY <1>5, <1>8 DEF RunOnce
<1>9. CASE Quit
  <2>1. /\ UNCHANGED <<channel, hand, wire, stage, shown, streamed, up, asked, exhausted>>
        /\ at' = "over" /\ link' = "none"
    BY <1>9 DEF Quit, rest, server
  <2>2. Pipe' = Pipe
    BY <2>1, PipeSame
  <2> QED BY <1>0, <2>1, <2>2, KeptSame, LaterSame DEF Unstarted, Closed, ToCome
\* A command's reply is read: prompts are not touched.
<1>10. ASSUME Started \/ Replied
       PROVE  Later' /\ Unstarted' /\ Closed' /\ Kept'
  <2>1. /\ UNCHANGED <<channel, hand, stage, shown, streamed, link, up, asked>>
        /\ wire # <<>> /\ wire' = Tail(wire) /\ at \in {"greet", "reply"}
        /\ at' \in {"start", "idle"} /\ (at' = "start" => at = "greet") /\ ~exhausted
    BY <1>0, <1>10 DEF Started, Replied, Take, rest, server, Ready, Last
  <2>2. asking # "prompt"
    BY <1>0, <2>1 DEF Places, Commands
  <2>3. Head(wire).req = asked
    <3>1. wire[1].req = asked
      <4>1. 1 \in 1..Len(wire)
        BY <2>1, HeadTail DEF TypeOK
      <4> QED BY <1>0, <2>1, <4>1 DEF Pairing, Belonging, Asking
    <3> QED BY <2>1, <3>1, HeadTail DEF TypeOK
  <2>4. \A r \in Requests : Head(wire).req = r => stage[r] = "none"
    BY <1>0, <2>1, <2>2, <2>3 DEF Unstarted
  <2>5. Kept' /\ Later'
    BY <1>0, <2>1, <2>4, ReplyRead
  <2> QED BY <1>0, <2>1, <2>5 DEF Unstarted, Closed
<1>12. CASE PrintedLine
  BY <1>0, <1>12 DEF PrintedLine
<1>13. CASE PrintedOnce
  BY <1>0, <1>13 DEF PrintedOnce
<1>14. CASE StreamTake
  <2>1. /\ UNCHANGED <<channel, stage, shown, streamed, link, up, asked>> /\ ~exhausted
        /\ wire # <<>> /\ wire' = Tail(wire) /\ hand' = Head(wire) /\ at = "stream" /\ at' = "give"
    BY <1>14 DEF StreamTake, Take, server
  <2>2. hand' \in Message
    BY <2>1, HeadTail DEF TypeOK
  <2>3. Held = <<>> /\ Held' = <<Head(wire)>>
    BY <2>1, <2>2, EmptyHanded, NothingNoMessage DEF Held
  <2>4. channel \in Parcels /\ wire \in Parcels /\ Pipe = (channel \o <<>>) \o wire
    BY <2>3, PipeType
  <2>5. Pipe' = (channel \o <<Head(wire)>>) \o Tail(wire)
    BY <2>1, <2>3 DEF Pipe, Held
  <2>6. Pipe' = Pipe
    BY <2>1, <2>4, <2>5, PipeTaken
  <2> QED BY <1>0, <2>1, <2>6, KeptSame, LaterSame DEF Unstarted, Closed, ToCome
<1>15. CASE Give
  <2>1. /\ UNCHANGED <<wire, stage, shown, streamed, link, up, asked, exhausted>>
        /\ channel' = Append(channel, hand) /\ hand' = Nothing /\ at = "give" /\ at' \in {"idle", "stream"}
    BY <1>15 DEF Give, server
  <2>2. hand \in Message /\ hand # Nothing
    BY <2>1 DEF TypeOK
  <2>3. Held = <<hand>> /\ Held' = <<>>
    BY <2>1, <2>2 DEF Held
  <2>4. channel \in Parcels /\ wire \in Parcels /\ Pipe = (channel \o <<hand>>) \o wire
    BY <2>3, PipeType
  <2>5. Pipe' = (Append(channel, hand) \o <<>>) \o wire
    BY <2>1, <2>3 DEF Pipe, Held
  <2>6. Pipe' = Pipe
    BY <2>2, <2>4, <2>5, PipeGiven
  <2> QED BY <1>0, <2>1, <2>6, KeptSame, LaterSame DEF Unstarted, Closed, ToCome
<1>16. CASE RecvFails
  <2>1. /\ UNCHANGED <<channel, hand, wire, stage, shown, streamed, link, up, asked, exhausted>>
        /\ at' = "idle"
    BY <1>0, <1>16 DEF RecvFails, rest, server, Ready
  <2>2. Pipe' = Pipe
    BY <2>1, PipeSame
  <2> QED BY <1>0, <2>1, <2>2, KeptSame, LaterSame DEF Unstarted, Closed, ToCome
<1>17. CASE Show
  <2>1. UNCHANGED <<at, link, asked, asking, exhausted, stage>>
    BY <1>17 DEF Show, server
  <2> QED BY <1>0, <1>17, <2>1, OneShown DEF Unstarted, Closed
\* A reply goes onto the wire behind what is there, for a request that streams nothing.
<1>18. CASE Answer
  <2>1. /\ UNCHANGED <<channel, hand, stage, shown, streamed, link, asked, at, asking, exhausted>>
        /\ link = "up" /\ up # <<>> /\ up' = Tail(up) /\ Head(up).kind # "prompt"
    BY <1>18 DEF Answer, client
  <2>2. Head(up).req = asked /\ Tail(up) = <<>>
    BY <1>0, <2>1, Waiting
  <2>3. PICK k, t : wire' = Append(wire, Msg(asked, k, 0, t))
    BY <1>18, <2>2 DEF Answer
  <2> DEFINE m == Msg(asked, k, 0, t)
  <2>4. m.req = asked
    BY DEF Msg
  <2> HIDE DEF m
  <2>5. m \in Message
    <3>1. wire' \in Seq(Message)
      BY TypeStep DEF TypeOK
    <3>2. wire' = Append(wire, m) /\ wire \in Seq(Message)
      BY <2>3 DEF m, TypeOK
    <3>3. wire'[Len(wire) + 1] = m /\ Len(wire) + 1 \in 1..Len(wire')
      BY <3>2
    <3> QED BY <3>1, <3>3
  <2> DEFINE a == channel \o Held
  <2>6. a \in Parcels /\ wire \in Parcels /\ Pipe = a \o wire /\ Pipe \in Parcels
    BY PipeType
  <2>7. Pipe' = a \o wire'
    BY <2>1 DEF Pipe, Held
  <2> HIDE DEF a
  <2>8. Pipe' = Append(Pipe, m)
    BY <2>3, <2>5, <2>6, <2>7, PipeSent DEF m
  <2>9. ASSUME NEW r \in Requests, stage'[r] # "none"
        PROVE  Streamed(r, Pipe', link' # "up", shown'[r], streamed'[r])
    <3>1. Streamed(r, Pipe, link # "up", shown[r], streamed[r])
      BY <1>0, <2>1, <2>9 DEF Kept
    <3>2. r # asked
      BY <1>0, <2>1, <2>9 DEF Later, ToCome
    <3>3. shown[r] \in Nat /\ streamed[r] \in Nat
      BY ConstantsAssumption DEF TypeOK
    <3>4. Streamed(r, Append(Pipe, m), link # "up", shown[r], streamed[r])
      BY <2>4, <2>5, <2>6, <3>1, <3>2, <3>3, StreamedOther
    <3> QED BY <2>1, <2>8, <3>4
  <2>10. ASSUME NEW r \in Requests, ToCome(r)'
         PROVE  stage'[r] = "none" /\ shown'[r] = 0 /\ Absent(r, Pipe')
    <3>1. r > asked
      BY <2>1, <2>2, <2>10 DEF ToCome
    <3>2. r # asked
      BY <3>1, ConstantsAssumption DEF Requests, TypeOK
    <3>3. stage[r] = "none" /\ shown[r] = 0 /\ Absent(r, Pipe)
      BY <1>0, <2>1, <3>1 DEF Later, ToCome
    <3>4. Absent(r, Append(Pipe, m))
      BY <2>4, <2>5, <2>6, <3>2, <3>3, AbsentOther
    <3> QED BY <2>1, <2>8, <3>3, <3>4
  <2>11. Kept' /\ Later'
    BY <2>9, <2>10 DEF Kept, Later
  <2> QED BY <1>0, <2>1, <2>11 DEF Unstarted, Closed
<1>19. CASE Spawn
  <2>1. /\ UNCHANGED <<channel, hand, wire, shown, link, asked, at, asking, exhausted>>
        /\ link = "up" /\ up # <<>> /\ up' = Tail(up) /\ Head(up).kind = "prompt"
        /\ stage' = [stage EXCEPT ![Head(up).req] = "running"]
        /\ streamed' = [streamed EXCEPT ![Head(up).req] = 0]
    BY <1>19 DEF Spawn, client
  <2>2. Head(up).req = asked /\ Tail(up) = <<>> /\ asking = "prompt" /\ at \in Asking
    BY <1>0, <2>1, Waiting
  <2>3. Pipe' = Pipe
    BY <2>1, PipeSame
  <2>4. ASSUME NEW r \in Requests, stage'[r] # "none"
        PROVE  Streamed(r, Pipe', link' # "up", shown'[r], streamed'[r])
    <3>1. CASE r = asked
      <4>1. shown[r] = 0 /\ Absent(r, Pipe)
        BY <1>0, <2>1, <3>1 DEF Later, ToCome
      <4>2. streamed'[r] = 0
        BY <2>1, <2>2, <3>1 DEF TypeOK
      <4>3. Streamed(r, Pipe, FALSE, 0, 0)
        BY <4>1 DEF Absent, Streamed
      <4> QED BY <2>1, <2>3, <4>1, <4>2, <4>3
    <3>2. CASE r # asked
      <4>1. stage'[r] = stage[r] /\ streamed'[r] = streamed[r]
        BY <2>1, <2>2, <3>2 DEF TypeOK
      <4>2. Streamed(r, Pipe, link # "up", shown[r], streamed[r])
        BY <1>0, <2>1, <2>4, <4>1 DEF Kept
      <4> QED BY <2>1, <2>3, <4>1, <4>2
    <3> QED BY <3>1, <3>2
  <2>5. ASSUME NEW r \in Requests, ToCome(r)'
        PROVE  stage'[r] = "none" /\ shown'[r] = 0 /\ Absent(r, Pipe')
    <3>1. r > asked
      BY <2>1, <2>2, <2>5 DEF ToCome
    <3>2. r # asked
      BY <3>1, ConstantsAssumption DEF Requests, TypeOK
    <3>3. stage[r] = "none" /\ shown[r] = 0 /\ Absent(r, Pipe)
      BY <1>0, <2>1, <3>1 DEF Later, ToCome
    <3>4. stage'[r] = stage[r]
      BY <2>1, <2>2, <3>2 DEF TypeOK
    <3> QED BY <2>1, <2>3, <3>3, <3>4
  <2>6. Kept' /\ Later'
    BY <2>4, <2>5 DEF Kept, Later
  <2> QED BY <1>0, <2>1, <2>2, <2>6 DEF Unstarted, Closed
<1>20. ASSUME NEW q \in Requests, Relay(q)
       PROVE  Later' /\ Unstarted' /\ Closed' /\ Kept'
  <2>1. /\ UNCHANGED <<at, link, asked, asking, exhausted, up>>
        /\ \A r \in Requests : r # q => stage'[r] = stage[r]
        /\ stage[q] # "none"
    BY <1>20 DEF Relay, Stream, Finish, EndUnanswered, Send, Streaming, client, TypeOK
  <2>2. Unstarted' /\ Closed'
    BY <1>0, <2>1 DEF Unstarted, Closed
  <2>3. CASE Stream(q) \/ Finish(q)
    BY <1>0, <2>1, <2>2, <2>3, OneSent
  <2>4. CASE EndUnanswered(q)
    <3>1. Pipe' = Pipe /\ UNCHANGED <<shown, streamed>>
      BY <2>4, PipeSame DEF EndUnanswered, client
    <3>2. \A r \in Requests : stage'[r] = "none" <=> stage[r] = "none"
      BY <2>1, <2>4 DEF EndUnanswered, TypeOK
    <3>3. Kept'
      BY <1>0, <2>1, <3>1, <3>2 DEF Kept
    <3>4. Later'
      BY <1>0, <2>1, <3>1, <3>2 DEF Later, ToCome
    <3> QED BY <2>2, <3>3, <3>4
  <2> QED BY <1>20, <2>3, <2>4 DEF Relay
<1>21. CASE Lose
  <2>1. UNCHANGED <<at, asked, asking, exhausted, stage>> /\ link = "up"
    BY <1>21 DEF Lose, rest, server
  <2> QED BY <1>0, <1>21, <2>1, SomeLost DEF Unstarted, Closed
<1>22. CASE IdleTimeout
  <2>1. /\ UNCHANGED <<channel, hand, wire, stage, shown, streamed, asked, exhausted, at, asking>>
        /\ link = "up" /\ link' = "lost"
    BY <1>22 DEF IdleTimeout, rest, server
  <2>2. Pipe' = Pipe
    BY <2>1, PipeSame
  <2> QED BY <1>0, <2>1, <2>2, KeptSame, LaterSame DEF Unstarted, Closed, ToCome
<1> QED
  BY <1>1, <1>2, <1>3, <1>4, <1>6, <1>7, <1>8, <1>9, <1>10, <1>12, <1>13,
     <1>14, <1>15, <1>16, <1>17, <1>18, <1>19, <1>20, <1>21, <1>22 DEF Next, Receive, Server

(* An answer comes to the terminal interface in the order in which it was     *)
(* streamed, without a gap, and whole as long as the connection is up,        *)
(* whatever the capacity of the channel and the length of answers.            *)
THEOREM AnswersKept == Spec => []AnswerKept
<1>1. Init => KeptInv
  <2> SUFFICES ASSUME Init PROVE Later /\ Unstarted /\ Closed /\ Kept
    BY DEF KeptInv
  <2>1. Pipe = <<>>
    BY DEF Init, Pipe
  <2>2. DOMAIN Pipe = {}
    BY <2>1
  <2>3. \A r \in Requests : Absent(r, Pipe)
    BY <2>2 DEF Absent
  <2> QED BY <2>3 DEF Init, Later, Unstarted, Closed, Kept
<1>2. IInv /\ KeptInv /\ [Next]_vars => KeptInv'
  BY KeptStep
<1>3. KeptInv => AnswerKept
  <2> SUFFICES ASSUME KeptInv, ui = "tui", ~exhausted, NEW r \in Requests, stage[r] # "none"
               PROVE  /\ \A i, j \in OnTheWay(r) : i < j => Pipe[i].part < Pipe[j].part
                      /\ Parts(r) \subseteq (shown[r] + 1)..streamed[r]
                      /\ \A n \in Parts(r) : (shown[r] + 1)..n \subseteq Parts(r)
                      /\ link = "up" => (shown[r] + 1)..streamed[r] \subseteq Parts(r)
    BY DEF AnswerKept
  <2>1. Streamed(r, Pipe, link # "up", shown[r], streamed[r])
    BY DEF KeptInv, Kept
  <2>2. \A i \in OnTheWay(r) : i \in DOMAIN Pipe /\ Pipe[i].req = r
    BY DEF OnTheWay
  <2>3. \A k : k \in Parts(r) <=> \E j \in DOMAIN Pipe : Pipe[j].req = r /\ Pipe[j].part = k
    BY DEF Parts, OnTheWay
  <2> QED BY <2>1, <2>2, <2>3 DEF Streamed
<1> QED BY <1>1, <1>2, <1>3, Invariance, PTL DEF Spec
==============================================================================
