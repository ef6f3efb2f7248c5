---------------------------- MODULE ToolPipeline ----------------------------
(***************************************************************************)
(* How a prompt runs on the server: the task the Prompt arm spawns         *)
(* (server/src/main.rs), ToolManager::execute and its monitor              *)
(* (tools/manager.rs), and the adapter with its child process and the two  *)
(* tasks that read the child's pipes (tools/claude.rs and its siblings).   *)
(*                                                                         *)
(*   child --stdout--> ReadOut --+                                         *)
(*   child --stderr--> ReadErr --+--> inner --> monitor --> outer --> relay *)
(*                      Finish --+                                         *)
(*                                                                         *)
(* inner and outer are bounded channels: a sender waits while its channel  *)
(* is full.  What the relay makes of an output is added to `delivered`; it *)
(* takes the next when the connection has accepted that, which            *)
(* ConnectionLoop models: its bounded channel may be full for a while, or  *)
(* for good.  The prompts are of any connections.  Lines are numbered,     *)
(* their text is left out; tool probes may answer anything.                *)
(***************************************************************************)
EXTENDS Naturals, Sequences, FiniteSets

CONSTANTS
    Prompts,    \* prompts a client submits
    Tools,      \* tools a client may name
    Adapters,   \* those the server has an adapter for
    Eager,      \* adapters that report a rate-limit line as they read it
    Deferred,   \* adapters that report one after the child has ended
    Priority,   \* the order get_next_tool scans, as a sequence
    Strategy,   \* config.tools.rotation_strategy
    Cap,        \* capacity of the two channels (100 in the code)
    MaxOut, MaxErr, \* bounds: lines a child writes on stdout and on stderr
    MayWedge,   \* bound: prompts whose connection may stop for good
    NoTool, NoOutput

ASSUME ToolsAssumption ==
    /\ Adapters \subseteq Tools
    /\ Eager \cup Deferred \subseteq Adapters
    /\ Eager \cap Deferred = {}
    /\ Priority \in Seq(Tools)
    /\ NoTool \notin Tools
ASSUME StrategyAssumption == Strategy \in {"on_limit", "priority", "round_robin"}
ASSUME BoundsAssumption ==
    Cap \in Nat \ {0} /\ MaxOut \in Nat /\ MaxErr \in Nat /\ MayWedge \subseteq Prompts

\* ToolOutput: a line, a rate limit, or an end.
Output == [kind : {"out", "note", "limit", "done", "error"}, line : 0..MaxOut]
Event(k) == [kind |-> k, line |-> 0]
Line(n) == [kind |-> "out", line |-> n]

\* ServerMessage as far as the relay makes them.
Message == [kind : {"out", "note", "done", "error", "switch", "exhausted"},
            line : 0..MaxOut, to : Tools \cup {NoTool}]

ASSUME OutputAssumption == NoOutput \notin Output

VARIABLES
    asked,     \* the tool a prompt runs with
    phase,     \* of the execute task: "idle", "queued", "running", "ended"
    child,     \* "none", "running", "ok" or "failed"
    stdout, stderr, \* the pipes: lines written and not yet read
    wrote,     \* lines written to stdout so far
    noted,     \* lines written to stderr so far
    outEof, errEof, \* the reading tasks have ended
    limited,   \* the stderr task's rate_limited
    inner, hand, outer, \* the two channels, and what the monitor holds between
    delivered, \* what the relay made of them for the connection
    relay,     \* whether the relay waits to hand on its last: "free", "waiting", "stuck"
    available, hits, errors, requests \* ToolUsage, per adapter

pipes == <<child, stdout, stderr, wrote, noted>>
readers == <<outEof, errEof, limited>>
usage == <<available, hits, errors, requests>>
vars == <<asked, phase, pipes, readers, inner, hand, outer, delivered, relay, usage>>

Init ==
    /\ asked = [p \in Prompts |-> NoTool]
    /\ phase = [p \in Prompts |-> "idle"]
    /\ child = [p \in Prompts |-> "none"]
    /\ stdout = [p \in Prompts |-> <<>>]
    /\ stderr = [p \in Prompts |-> <<>>]
    /\ wrote = [p \in Prompts |-> 0]
    /\ noted = [p \in Prompts |-> 0]
    /\ outEof = [p \in Prompts |-> FALSE]
    /\ errEof = [p \in Prompts |-> FALSE]
    /\ limited = [p \in Prompts |-> FALSE]
    /\ inner = [p \in Prompts |-> <<>>]
    /\ hand = [p \in Prompts |-> NoOutput]
    /\ outer = [p \in Prompts |-> <<>>]
    /\ delivered = [p \in Prompts |-> <<>>]
    /\ relay = [p \in Prompts |-> "free"]
    /\ available = [t \in Adapters |-> TRUE]
    /\ hits = [t \in Adapters |-> 0]
    /\ errors = [t \in Adapters |-> 0]
    /\ requests = [t \in Adapters |-> 0]

-----------------------------------------------------------------------------
(* The execute task.                                                       *)

\* The Prompt arm: the tool is settled, the relay and execute are spawned.
Submit(p, t) ==
    /\ phase[p] = "idle"
    /\ asked' = [asked EXCEPT ![p] = t]
    /\ phase' = [phase EXCEPT ![p] = "queued"]
    /\ UNCHANGED <<pipes, readers, inner, hand, outer, delivered, relay, usage>>

\* ToolManager::execute without an adapter for the tool: NotAvailable, which
\* goes to no one.
Refuse(p) ==
    /\ phase[p] = "queued"
    /\ asked[p] \notin Adapters
    /\ phase' = [phase EXCEPT ![p] = "ended"]
    /\ UNCHANGED <<asked, pipes, readers, inner, hand, outer, delivered, relay, usage>>

\* The request is counted and the child spawned; when that fails, `?` ends the
\* adapter without an output.
Launch(p) ==
    /\ phase[p] = "queued"
    /\ asked[p] \in Adapters
    /\ requests' = [requests EXCEPT ![asked[p]] = @ + 1]
    /\ \/ /\ phase' = [phase EXCEPT ![p] = "running"]
          /\ child' = [child EXCEPT ![p] = "running"]
       \/ /\ phase' = [phase EXCEPT ![p] = "ended"]
          /\ UNCHANGED child
    /\ UNCHANGED <<asked, stdout, stderr, wrote, noted, readers, inner, hand, outer,
                   delivered, relay, available, hits, errors>>

Room(q) == Len(q) < Cap

LastOutput(p) ==
    Event(IF limited[p] THEN "limit" ELSE IF child[p] = "ok" THEN "done" ELSE "error")
Exited(p) == child[p] \in {"ok", "failed"}

\* Seeded fault: the adapter does not wait for its stdout task.
FinishEarly(p) ==
    /\ phase[p] = "running"
    /\ Exited(p) /\ errEof[p]
    /\ Room(inner[p])
    /\ inner' = [inner EXCEPT ![p] = Append(@, LastOutput(p))]
    /\ phase' = [phase EXCEPT ![p] = "ended"]
    /\ UNCHANGED <<asked, pipes, readers, hand, outer, delivered, relay, usage>>

\* Seeded fault: a child that failed is not reported.
FinishSilent(p) ==
    /\ phase[p] = "running"
    /\ Exited(p) /\ outEof[p] /\ errEof[p]
    /\ Room(inner[p])
    /\ inner' = IF ~limited[p] /\ child[p] = "failed" THEN inner
                ELSE [inner EXCEPT ![p] = Append(@, LastOutput(p))]
    /\ phase' = [phase EXCEPT ![p] = "ended"]
    /\ UNCHANGED <<asked, pipes, readers, hand, outer, delivered, relay, usage>>

\* After wait() and both joins the adapter sends its last output: RateLimited
\* (even if the stderr task already sent one), Done or Error.
Finish(p) ==
    /\ phase[p] = "running"
    /\ Exited(p) /\ outEof[p] /\ errEof[p]
    /\ Room(inner[p])
    /\ inner' = [inner EXCEPT ![p] = Append(@, LastOutput(p))]
    /\ phase' = [phase EXCEPT ![p] = "ended"]
    /\ UNCHANGED <<asked, pipes, readers, hand, outer, delivered, relay, usage>>

-----------------------------------------------------------------------------
(* The child process.                                                      *)

WriteOut(p) ==
    /\ child[p] = "running"
    /\ wrote[p] < MaxOut
    /\ wrote' = [wrote EXCEPT ![p] = @ + 1]
    /\ stdout' = [stdout EXCEPT ![p] = Append(@, wrote'[p])]
    /\ UNCHANGED <<asked, phase, child, stderr, noted, readers, inner, hand, outer,
                   delivered, relay, usage>>

\* A line on stderr: is_rate_limit_message or not.
WriteErr(p, kind) ==
    /\ child[p] = "running"
    /\ noted[p] < MaxErr
    /\ noted' = [noted EXCEPT ![p] = @ + 1]
    /\ stderr' = [stderr EXCEPT ![p] = Append(@, kind)]
    /\ UNCHANGED <<asked, phase, child, stdout, wrote, readers, inner, hand, outer,
                   delivered, relay, usage>>

Exit(p, status) ==
    /\ child[p] = "running"
    /\ child' = [child EXCEPT ![p] = status]
    /\ UNCHANGED <<asked, phase, stdout, stderr, wrote, noted, readers, inner, hand,
                   outer, delivered, relay, usage>>

-----------------------------------------------------------------------------
(* The two tasks that read the child's pipes.                              *)

ReadOut(p) ==
    /\ stdout[p] # <<>> /\ ~outEof[p]
    /\ Room(inner[p])
    /\ stdout' = [stdout EXCEPT ![p] = Tail(@)]
    /\ inner' = [inner EXCEPT ![p] = Append(@, Line(Head(stdout[p])))]
    /\ UNCHANGED <<asked, phase, child, stderr, wrote, noted, readers, hand, outer,
                   delivered, relay, usage>>

\* An eager adapter turns a rate-limit line into RateLimited; a deferred one
\* passes the line on and remembers it; any other only passes it on.
ReadErr(p) ==
    /\ stderr[p] # <<>> /\ ~errEof[p]
    /\ Room(inner[p])
    /\ LET isLimit == Head(stderr[p]) = "limit" IN
       /\ inner' = [inner EXCEPT ![p] = Append(@, Event(
                      IF isLimit /\ asked[p] \in Eager THEN "limit" ELSE "note"))]
       /\ limited' = [limited EXCEPT ![p] =
                        @ \/ (isLimit /\ asked[p] \in Eager \cup Deferred)]
    /\ stderr' = [stderr EXCEPT ![p] = Tail(@)]
    /\ UNCHANGED <<asked, phase, child, stdout, wrote, noted, outEof, errEof, hand,
                   outer, delivered, relay, usage>>

\* The task ends, dropping its sender, when the child has closed the pipe and
\* nothing is left in it, or at a line that is not UTF-8: next_line fails, and
\* what the pipe holds from there on stays unread.
EndOut(p) ==
    /\ ~outEof[p]
    /\ stdout[p] # <<>> \/ Exited(p)
    /\ outEof' = [outEof EXCEPT ![p] = TRUE]
    /\ UNCHANGED <<asked, phase, pipes, errEof, limited, inner, hand, outer,
                   delivered, relay, usage>>

EndErr(p) ==
    /\ ~errEof[p]
    /\ stderr[p] # <<>> \/ Exited(p)
    /\ errEof' = [errEof EXCEPT ![p] = TRUE]
    /\ UNCHANGED <<asked, phase, pipes, outEof, limited, inner, hand, outer,
                   delivered, relay, usage>>

-----------------------------------------------------------------------------
(* The monitor of ToolManager::execute, and the relay of the Prompt arm.   *)

\* Seeded fault: the monitor forwards a rate limit before it records it.
MonitorTakeOnly(p) ==
    /\ hand[p] = NoOutput
    /\ inner[p] # <<>>
    /\ hand' = [hand EXCEPT ![p] = Head(inner[p])]
    /\ inner' = [inner EXCEPT ![p] = Tail(@)]
    /\ UNCHANGED <<asked, phase, pipes, readers, outer, delivered, relay, usage>>

\* What the monitor takes is recorded before it is forwarded.
MonitorTake(p) ==
    /\ hand[p] = NoOutput
    /\ inner[p] # <<>>
    /\ LET o == Head(inner[p])
           t == asked[p] IN
       /\ hand' = [hand EXCEPT ![p] = o]
       /\ hits' = IF o.kind = "limit" THEN [hits EXCEPT ![t] = @ + 1] ELSE hits
       /\ available' = IF o.kind = "limit" THEN [available EXCEPT ![t] = FALSE] ELSE available
       /\ errors' = IF o.kind = "error" THEN [errors EXCEPT ![t] = @ + 1] ELSE errors
    /\ inner' = [inner EXCEPT ![p] = Tail(@)]
    /\ UNCHANGED <<asked, phase, pipes, readers, outer, delivered, relay, requests>>

MonitorForward(p) ==
    /\ hand[p] # NoOutput
    /\ Room(outer[p])
    /\ outer' = [outer EXCEPT ![p] = Append(@, hand[p])]
    /\ hand' = [hand EXCEPT ![p] = NoOutput]
    /\ UNCHANGED <<asked, phase, pipes, readers, inner, delivered, relay, usage>>

\* n is the first of order that is in S, or there is none.
FirstOf(order, S, n) ==
    \/ /\ n = NoTool
       /\ \A i \in DOMAIN order : order[i] \notin S
    \/ \E i \in DOMAIN order :
          /\ order[i] = n /\ n \in S
          /\ \A j \in DOMAIN order : j < i => order[j] \notin S

\* The scan of round_robin: the places after t's own, around to the one before.
After(t) ==
    LET N == Len(Priority)
        Places == {i \in 1..N : Priority[i] = t}
        at == IF Places = {} THEN 1 ELSE CHOOSE i \in Places : TRUE IN
    [i \in 1..(N - 1) |-> Priority[((at - 1 + i) % N) + 1]]

\* Seeded fault: the switch ignores the usage flags.
NextToolUnchecked(t, probed, n) == FirstOf(Priority, probed \ {t}, n)

\* get_next_tool, when the adapters in `probed` answer their probe.  The usage
\* flags only ever go down, so that reading them one by one gives what reading
\* them at once gives.  Round robin does not read them.
NextTool(t, probed, n) ==
    IF Strategy = "round_robin"
    THEN FirstOf(After(t), probed, n)
    ELSE FirstOf(Priority, {u \in probed \ {t} : available[u]}, n)

Deliver(p, k, n, t) ==
    delivered' = [delivered EXCEPT ![p] = Append(@, [kind |-> k, line |-> n, to |-> t])]

\* Seeded fault: with nothing to switch to, the client is not told.
RelayUnlessExhausted(p) ==
    /\ relay[p] = "free" /\ outer[p] # <<>>
    /\ outer' = [outer EXCEPT ![p] = Tail(@)]
    /\ relay' = [relay EXCEPT ![p] = "waiting"]
    /\ LET o == Head(outer[p]) IN
       \/ o.kind # "limit" /\ Deliver(p, o.kind, o.line, NoTool)
       \/ /\ o.kind = "limit"
          /\ \E probed \in SUBSET Adapters, n \in Tools \cup {NoTool} :
                /\ NextTool(asked[p], probed, n)
                /\ IF n = NoTool THEN UNCHANGED delivered ELSE Deliver(p, "switch", 0, n)
    /\ UNCHANGED <<asked, phase, pipes, readers, inner, hand, usage>>

\* One output becomes one message; a rate limit becomes a switch notice or,
\* with no tool to switch to, an error.  The prompt is not run again.  The
\* relay then waits for a place in the response channel.
Relay(p) ==
    /\ relay[p] = "free" /\ outer[p] # <<>>
    /\ outer' = [outer EXCEPT ![p] = Tail(@)]
    /\ relay' = [relay EXCEPT ![p] = "waiting"]
    /\ LET o == Head(outer[p]) IN
       \/ o.kind # "limit" /\ Deliver(p, o.kind, o.line, NoTool)
       \/ /\ o.kind = "limit"
          /\ \E probed \in SUBSET Adapters, n \in Tools \cup {NoTool} :
                /\ NextTool(asked[p], probed, n)
                /\ Deliver(p, IF n = NoTool THEN "exhausted" ELSE "switch", 0, n)
    /\ UNCHANGED <<asked, phase, pipes, readers, inner, hand, usage>>

\* `response_tx_clone.send(..).await.ok()` returns: the message has a place, or
\* the connection is no more and the message goes nowhere.
HandOn(p) ==
    /\ relay[p] = "waiting"
    /\ relay' = [relay EXCEPT ![p] = "free"]
    /\ UNCHANGED <<asked, phase, pipes, readers, inner, hand, outer, delivered, usage>>

\* It never does: the channel is full, and the connection's loop waits for a
\* place in it itself (ConnectionLoop's Wedged) or for a client that no longer
\* reads.
Wedge(p) ==
    /\ p \in MayWedge
    /\ relay[p] = "waiting"
    /\ relay' = [relay EXCEPT ![p] = "stuck"]
    /\ UNCHANGED <<asked, phase, pipes, readers, inner, hand, outer, delivered, usage>>

Child(p) ==
    \/ WriteOut(p)
    \/ \E kind \in {"note", "limit"} : WriteErr(p, kind)
    \/ \E status \in {"ok", "failed"} : Exit(p, status)

\* The tokio tasks of prompt p.
Tasks(p) ==
    \/ Refuse(p) \/ Launch(p) \/ Finish(p)
    \/ ReadOut(p) \/ ReadErr(p) \/ EndOut(p) \/ EndErr(p)
    \/ MonitorTake(p) \/ MonitorForward(p)
    \/ Relay(p) \/ HandOn(p)

Next ==
    \E p \in Prompts :
        \/ \E t \in Tools : Submit(p, t)
        \/ Child(p)
        \/ Tasks(p)
        \/ Wedge(p)

Spec == Init /\ [][Next]_vars

\* The runtime goes on polling every task that can move, and gives the places
\* of a channel to those that wait in the order they came.  Nothing is assumed
\* of the clients and of the child processes: no timeout ends a tool, and any
\* connection may wedge.
Fairness ==
    \A p \in Prompts :
        /\ WF_vars(Refuse(p) \/ Launch(p))
        /\ WF_vars(Finish(p))
        /\ WF_vars(ReadOut(p) \/ EndOut(p))
        /\ WF_vars(ReadErr(p) \/ EndErr(p))
        /\ WF_vars(MonitorTake(p) \/ MonitorForward(p))
        /\ WF_vars(Relay(p) \/ HandOn(p))

FairSpec == Spec /\ Fairness

-----------------------------------------------------------------------------
Quiet(p) ==
    /\ phase[p] = "ended"
    /\ inner[p] = <<>> /\ hand[p] = NoOutput /\ outer[p] = <<>> /\ relay[p] = "free"
Kinds(p, K) == {i \in DOMAIN delivered[p] : delivered[p][i].kind \in K}
Ends == {"done", "error", "switch", "exhausted"}

(* Every variable has its type, and the channels keep their capacity. *)
TypeOK ==
    /\ asked \in [Prompts -> Tools \cup {NoTool}]
    /\ phase \in [Prompts -> {"idle", "queued", "running", "ended"}]
    /\ child \in [Prompts -> {"none", "running", "ok", "failed"}]
    /\ stdout \in [Prompts -> Seq(1..MaxOut)]
    /\ stderr \in [Prompts -> Seq({"note", "limit"})]
    /\ wrote \in [Prompts -> 0..MaxOut] /\ noted \in [Prompts -> 0..MaxErr]
    /\ outEof \in [Prompts -> BOOLEAN] /\ errEof \in [Prompts -> BOOLEAN]
    /\ limited \in [Prompts -> BOOLEAN]
    /\ inner \in [Prompts -> Seq(Output)]
    /\ hand \in [Prompts -> Output \cup {NoOutput}]
    /\ outer \in [Prompts -> Seq(Output)]
    /\ \A p \in Prompts : Len(inner[p]) <= Cap /\ Len(outer[p]) <= Cap
    /\ delivered \in [Prompts -> Seq(Message)]
    /\ relay \in [Prompts -> {"free", "waiting", "stuck"}]
    /\ available \in [Adapters -> BOOLEAN]
    /\ hits \in [Adapters -> Nat] /\ errors \in [Adapters -> Nat]
    /\ requests \in [Adapters -> Nat]

(* The client gets the tool's stdout as it was written: the lines arrive in
   order without a gap, and when the end arrives none is missing but those a
   line that is not UTF-8 left unread, through two bounded channels and the
   reading task, the adapter, the monitor and the relay. *)
OutputComplete ==
    \A p \in Prompts :
        LET d == delivered[p]
            out == Kinds(p, {"out"})
            lines == {d[i].line : i \in out} IN
        /\ \A i, j \in out : i < j => d[i].line < d[j].line
        /\ \A n \in lines : 1..n \subseteq lines
        /\ Kinds(p, {"done", "error"}) # {} => lines = 1..(wrote[p] - Len(stdout[p]))

(* A switch notice is only ever sent for a tool already marked as limited. *)
MarkedBeforeNotice ==
    \A p \in Prompts :
        Kinds(p, {"switch", "exhausted"}) # {} => ~available[asked[p]]

(* Except under round robin, two prompts are never told to swap their tools:
   once a notice sent a user away from a tool, none sends another there. *)
NoMutualSwitch ==
    Strategy # "round_robin" =>
        \A p, q \in Prompts : \A i \in Kinds(p, {"switch"}), j \in Kinds(q, {"switch"}) :
            ~(delivered[p][i].to = asked[q] /\ delivered[q][j].to = asked[p])

\* What the monitor of p has taken, oldest first: told, queued or held.
Held(p) == IF hand[p] = NoOutput THEN <<>> ELSE <<hand[p]>>
Taken(p) == delivered[p] \o outer[p] \o Held(p)
Reports(t, K) ==
    UNION {{p} \X {i \in DOMAIN Taken(p) : Taken(p)[i].kind \in K} : p \in {q \in Prompts : asked[q] = t}}

(* The usage figures are what the clients were told: each rate-limit hit and
   each error counted for a tool is one message, delivered or on its way. *)
UsageAccounted ==
    \A t \in Adapters :
        /\ hits[t] = Cardinality(Reports(t, {"limit", "switch", "exhausted"}))
        /\ errors[t] = Cardinality(Reports(t, {"error"}))

FiguresGrow ==
    \A t \in Adapters :
        /\ available'[t] => available[t]
        /\ hits'[t] >= hits[t] /\ errors'[t] >= errors[t] /\ requests'[t] >= requests[t]

(* A rate limit is final: no step makes an adapter available again (nothing
   calls reset_availability), and the figures never go back. *)
UsageMonotone == [][FiguresGrow]_vars

(* Once its child has ended, a prompt is answered and its tasks are through, *)
(* unless its connection wedges: neither full channels nor the joins leave   *)
(* the tasks waiting on each other, however long a send waits.               *)
ExitedIsAnswered ==
    \A p \in Prompts :
        Exited(p) ~> (Quiet(p) /\ Kinds(p, Ends) # {}) \/ relay[p] = "stuck"
=============================================================================
