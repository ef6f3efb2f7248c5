------------------------------ MODULE LocalChat ------------------------------
(***************************************************************************)
(* The local program's loops (crates/local/src/main.rs, tui.rs) and the    *)
(* tools they run (tools.rs).  The terminal interface takes keys and the   *)
(* outputs of the running tools, one at a time; every prompt is a task of  *)
(* its own, a prompt to several models one task a model, and nothing stops *)
(* the user from asking again or opening another chat meanwhile.  The plain *)
(* command line reads its next line when the prompt before is through.     *)
(*                                                                         *)
(* An answer's text is the sequence of the executions its lines came from, *)
(* and of the notices the loop itself puts among them.                     *)
(* Context prefixes, summaries, search, the request and error counts and   *)
(* what is merely drawn are left out, and so is what happens once the      *)
(* program is left; HistoryStore is what becomes of a session on disk.     *)
(***************************************************************************)
EXTENDS Integers, Sequences, FiniteSets, SequencesExt

CONSTANTS
    Tools,      \* Tool::all()
    Configured, \* those with a configuration
    Priority,   \* the order get_next_tool scans, a sequence without repetition
    Strategy,   \* rotation_strategy
    DefaultTool,
    MaxExecs,   \* bound: executions of a tool
    Interfaces, \* a subset of {"tui", "plain"}
    Sessions,   \* chats: bounds how many are opened
    First,      \* the chat that is open at the start
    Cap,        \* capacity of the response channels (100 in the code)
    MaxLines,   \* bound: lines a tool writes
    MaxNames,   \* bound: models a /multi names
    NoTool, NoSession, NoEntry

ASSUME ChatAssumption ==
    /\ Configured \subseteq Tools /\ DefaultTool \in Tools
    /\ Priority \in Seq(Tools) /\ IsInjective(Priority)
    /\ Strategy \in {"on_limit", "priority", "round_robin"}
    /\ First \in Sessions /\ Interfaces \subseteq {"tui", "plain"}
    /\ Cap \in Nat \ {0} /\ {MaxLines, MaxExecs, MaxNames} \subseteq Nat
    /\ NoTool \notin Tools /\ NoSession \notin Sessions
    /\ NoEntry \notin Seq(Nat)

\* Executions are numbered in the order in which their tasks are spawned.
Execs == 1..MaxExecs
\* The line "[ERROR] .." or "[Rate limited]" in what a model said.
Notice == 0
Lines == Execs \cup {Notice}

VARIABLES
    ui,         \* the interface of this process
    (* the loop *)
    current,    \* app.current_tool
    response,   \* app.current_response
    enabled, selected, responses, completed, \* app.multi_model
    (* the history manager *)
    open,       \* the current session
    used,       \* sessions created
    log,        \* ChatSession::messages
    (* the tools *)
    exec,       \* the executions
    single, multi, \* the two response channels
    available, hits, \* ToolUsage
    (* for the properties only *)
    rounds,     \* prompts sent
    crossed,    \* executions during which another prompt or chat began
    told        \* executions whose end, error or limit was taken by the loop

app == <<ui, current, response, enabled, selected, responses, completed>>
history == <<open, used, log>>
usage == <<available, hits>>
tools == <<exec, single, multi, usage>>
ghosts == <<rounds, crossed, told>>
vars == <<app, history, tools, ghosts>>

\* n is the first of order that is in S, or there is none.
FirstOf(order, S, n) ==
    \/ n = NoTool /\ \A i \in DOMAIN order : order[i] \notin S
    \/ \E i \in DOMAIN order :
          /\ order[i] = n /\ n \in S
          /\ \A j \in DOMAIN order : j < i => order[j] \notin S

Idle == [pc |-> "free", tool |-> NoTool, home |-> NoSession, round |-> 0,
         multi |-> FALSE, wrote |-> 0, stderr |-> "reading", pick |-> NoTool,
         limited |-> FALSE, outcome |-> "none"]

Init ==
    /\ ui \in Interfaces
    /\ current \in Tools \cup {NoTool} /\ FirstOf(Priority, Configured, current) \* check_available()[0]
    /\ response = <<>>
    /\ enabled = FALSE /\ selected = <<>>
    /\ responses = [t \in Tools |-> NoEntry]
    /\ completed = [t \in Tools |-> "absent"]
    /\ open = First /\ used = {First}
    /\ log = [s \in Sessions |-> <<>>]
    /\ exec = [e \in Execs |-> Idle]
    /\ single = <<>> /\ multi = <<>>
    /\ available = [t \in Tools |-> TRUE]
    /\ hits = [t \in Tools |-> 0]
    /\ rounds = 0 /\ crossed = {} /\ told = {}

At(e, where) == exec[e].pc = where
Spawned == Cardinality({e \in Execs : ~At(e, "free")})

\* A task that runs, or whose outputs the loop has not taken yet.
Active(e) ==
    \/ exec[e].pc \notin {"free", "ended"}
    \/ \E i \in DOMAIN single : single[i].e = e
    \/ \E i \in DOMAIN multi : multi[i].e = e
\* The executions of every round of which one is active.
Running == {e \in Execs : \E f \in Execs : Active(f) /\ exec[f].round = exec[e].round}

-----------------------------------------------------------------------------
(* LocalToolManager: one execution of a tool.                              *)

Out(e, k, n) == [e |-> e, kind |-> k, next |-> n]

\* Seeded fault: a channel without a capacity.
SendUnbounded(e, m) ==
    IF exec[e].multi
    THEN multi' = Append(multi, m) /\ UNCHANGED single
    ELSE single' = Append(single, m) /\ UNCHANGED multi

\* An execution sends on the channel of its prompt.  In front of the second
\* channel each model has one of its own, which only adds delay.
Send(e, m) ==
    IF exec[e].multi
    THEN Len(multi) < Cap /\ multi' = Append(multi, m) /\ UNCHANGED single
    ELSE Len(single) < Cap /\ single' = Append(single, m) /\ UNCHANGED multi

\* execute_streaming: the tool is looked up; without a configuration the error
\* is the caller's to report.
Start(e) ==
    LET t == exec[e].tool IN
    /\ At(e, "start")
    /\ exec' = [exec EXCEPT ![e].pc = IF t \in Configured THEN "spawn" ELSE "failed"]
    /\ UNCHANGED <<app, history, single, multi, usage, ghosts>>

\* The child is spawned.
Spawn(e) ==
    /\ At(e, "spawn")
    /\ exec' = [exec EXCEPT ![e].pc = "run"]
    /\ UNCHANGED <<app, history, single, multi, usage, ghosts>>

\* The sandbox refuses or the child cannot be spawned: the error is sent and
\* returned, which makes the single prompt's task send one more; the task of
\* several models drops what it is returned.
SpawnFails(e) ==
    /\ At(e, "spawn")
    /\ Send(e, Out(e, "error", NoTool))
    /\ exec' = [exec EXCEPT ![e].pc = IF exec[e].multi THEN "ended" ELSE "failed",
                            ![e].outcome = "error"]
    /\ UNCHANGED <<app, history, usage, ghosts>>

\* run_tui's task for a single prompt.  The plain command line passes the error
\* on as its own, which ends the program: the execution stays as it is.
Report(e) ==
    /\ At(e, "failed") /\ ui = "tui"
    /\ Send(e, Out(e, "error", NoTool))
    /\ exec' = [exec EXCEPT ![e].pc = "ended", ![e].outcome = "error"]
    /\ UNCHANGED <<app, history, usage, ghosts>>

\* The stdout task passes a line on (and for several models the stderr task).
Write(e) ==
    /\ At(e, "run")
    /\ exec[e].wrote < MaxLines
    /\ Send(e, Out(e, "line", NoTool))
    /\ exec' = [exec EXCEPT ![e].wrote = @ + 1]
    /\ UNCHANGED <<app, history, usage, ghosts>>

\* get_next_tool: by priority, or round from the place of the limited tool (the
\* first place for a tool that is not in the list).
Place(t) == IF \E i \in DOMAIN Priority : Priority[i] = t
            THEN CHOOSE i \in DOMAIN Priority : Priority[i] = t ELSE 1
Scanned(t) ==
    IF Strategy = "round_robin"
    THEN [i \in 1..(Len(Priority) - 1) |-> Priority[((Place(t) + i - 1) % Len(Priority)) + 1]]
    ELSE Priority
Usable(u) == u \in Configured /\ available[u]

\* Seeded fault: the next in line, whatever is known of it.
NextToolBlind(t, n) == FirstOf(Scanned(t), Tools \ {t}, n)

NextTool(t, n) ==
    FirstOf(Scanned(t), {u \in Tools : Usable(u) /\ (Strategy = "round_robin" \/ u # t)}, n)

\* The stderr task reads a line that names a rate limit: it picks the next
\* tool...
RateLimit(e) ==
    /\ At(e, "run") /\ exec[e].stderr = "reading"
    /\ hits[exec[e].tool] < MaxLines
    /\ \E n \in Tools \cup {NoTool} :
          /\ NextTool(exec[e].tool, n)
          /\ exec' = [exec EXCEPT ![e].stderr = "picked", ![e].limited = TRUE, ![e].pick = n]
    /\ UNCHANGED <<app, history, single, multi, usage, ghosts>>

\* ...announces it...
Announce(e) ==
    /\ exec[e].stderr = "picked"
    /\ Send(e, Out(e, "limit", exec[e].pick))
    /\ exec' = [exec EXCEPT ![e].stderr = "announced", ![e].pick = NoTool]
    /\ UNCHANGED <<app, history, usage, ghosts>>

\* ...and only then marks its own.
MarkLimited(e) ==
    /\ exec[e].stderr = "announced"
    /\ available' = [available EXCEPT ![exec[e].tool] = FALSE]
    /\ hits' = [hits EXCEPT ![exec[e].tool] = @ + 1]
    /\ exec' = [exec EXCEPT ![e].stderr = "reading"]
    /\ UNCHANGED <<app, history, single, multi, ghosts>>

\* The child has ended and both reading tasks are through.
Ended(e, how) == exec' = [exec EXCEPT ![e].pc = "ended", ![e].outcome = how]

ExitLimited(e) ==
    /\ At(e, "run") /\ exec[e].limited /\ exec[e].stderr = "reading"
    /\ Ended(e, "limit")
    /\ UNCHANGED <<app, history, single, multi, usage, ghosts>>

ExitOk(e) ==
    /\ At(e, "run") /\ ~exec[e].limited
    /\ Send(e, Out(e, "done", NoTool))
    /\ Ended(e, "done")
    /\ UNCHANGED <<app, history, usage, ghosts>>

\* Seeded fault: a child that failed is not reported.
ExitSilent(e) ==
    /\ At(e, "run") /\ ~exec[e].limited
    /\ Ended(e, "error")
    /\ UNCHANGED <<app, history, single, multi, usage, ghosts>>

ExitFailed(e) ==
    /\ At(e, "run") /\ ~exec[e].limited
    /\ Send(e, Out(e, "error", NoTool))
    /\ Ended(e, "error")
    /\ UNCHANGED <<app, history, usage, ghosts>>

Execute(e) ==
    \/ Start(e) \/ Spawn(e) \/ SpawnFails(e) \/ Report(e)
    \/ Write(e) \/ RateLimit(e) \/ Announce(e) \/ MarkLimited(e)
    \/ ExitLimited(e) \/ ExitOk(e) \/ ExitFailed(e)

-----------------------------------------------------------------------------
(* Keys.                                                                   *)

Task(t, m) == [Idle EXCEPT !.pc = "start", !.tool = t, !.home = open,
                           !.round = rounds + 1, !.multi = m]
Said(who, r, lines) == [who |-> who, round |-> r, lines |-> lines]
Remember(m) == log' = [log EXCEPT ![open] = Append(@, m)]

\* A new prompt crosses those that run, and they cross it.
Crossing(new) ==
    /\ rounds' = rounds + 1
    /\ crossed' = IF Running = {} THEN crossed ELSE crossed \cup Running \cup new
    /\ UNCHANGED told

MultiOn == enabled /\ Len(selected) >= 2

\* Seeded fault: the text of the prompt before is still there.
SendPromptUncleared(e) ==
    /\ ~MultiOn /\ e = Spawned + 1 /\ e \in Execs
    /\ Remember(Said("user", rounds + 1, <<>>))
    /\ exec' = [exec EXCEPT ![e] = Task(IF current = NoTool THEN DefaultTool ELSE current, FALSE)]
    /\ Crossing({e})
    /\ UNCHANGED <<app, open, used, single, multi, usage>>

\* Enter in the chat, with a single model.
SendPrompt(e) ==
    /\ ~MultiOn /\ e = Spawned + 1 /\ e \in Execs
    /\ Remember(Said("user", rounds + 1, <<>>))
    /\ response' = <<>>
    /\ exec' = [exec EXCEPT ![e] = Task(IF current = NoTool THEN DefaultTool ELSE current, FALSE)]
    /\ Crossing({e})
    /\ UNCHANGED <<ui, current, enabled, selected, responses, completed,
                   open, used, single, multi, usage>>

Cleared(sel) ==
    /\ responses' = [t \in Tools |-> IF t \in sel THEN <<>> ELSE NoEntry]
    /\ completed' = [t \in Tools |-> IF t \in sel THEN "pending" ELSE "absent"]

\* Enter in the chat with at least two models: a task for each name, a name given
\* twice included.
SendMulti ==
    LET task(e) == selected[e - Spawned]
        new == (Spawned + 1)..(Spawned + Len(selected))
    IN  /\ MultiOn /\ new \subseteq Execs
        /\ Remember(Said("user", rounds + 1, <<>>))
        /\ Cleared(Range(selected))
        /\ exec' = [e \in Execs |-> IF e \in new THEN Task(task(e), TRUE) ELSE exec[e]]
        /\ Crossing(new)
        /\ UNCHANGED <<ui, current, response, enabled, selected,
                       open, used, single, multi, usage>>

\* /switch: is_available asks the tool itself, not its usage.
SwitchTool(t) ==
    /\ t \in Configured
    /\ current' = t
    /\ UNCHANGED <<ui, response, enabled, selected, responses, completed,
                   open, used, log, tools, ghosts>>

Leave == crossed' = crossed \cup Running /\ UNCHANGED <<rounds, told>>

\* Ctrl-N and /new.
NewChat(s) ==
    /\ s \notin used
    /\ open' = s
    /\ used' = used \cup {s}
    /\ Leave
    /\ UNCHANGED <<ui, current, response, enabled, selected, responses, completed,
                   log, tools>>

\* Enter in the history: a session without messages was never listed.
ResumeSession(s) ==
    /\ log[s] # <<>>
    /\ open' = s
    /\ current' \in Configured \cup {current}
    /\ Leave
    /\ UNCHANGED <<ui, response, enabled, selected, responses, completed,
                   used, log, tools>>

\* /multi with names, in the order given.  The list in which F6 and a bare /multi
\* let the user toggle models is never on the screen (TerminalUi), so this is the
\* only way to a selection.
EnableMulti(sel) ==
    /\ enabled' = TRUE /\ selected' = sel
    /\ Cleared(Range(sel))
    /\ Leave
    /\ UNCHANGED <<ui, current, response, history, tools>>

\* /single and Ctrl-M.
DisableMulti ==
    /\ enabled
    /\ enabled' = FALSE /\ selected' = <<>>
    /\ Cleared({})
    /\ Leave
    /\ UNCHANGED <<ui, current, response, history, tools>>

TuiKey ==
    \/ \E e \in Execs : SendPrompt(e)
    \/ SendMulti
    \/ \E t \in Tools : SwitchTool(t)
    \/ \E s \in Sessions : NewChat(s) \/ ResumeSession(s)
    \/ \E n \in 2..MaxNames : \E sel \in [1..n -> Tools] : EnableMulti(sel)
    \/ DisableMulti

\* The plain command line waits for the end of the prompt: of its channel, then
\* of its task.
Through == single = <<>> /\ \A e \in Execs : exec[e].pc \in {"free", "ended"}

\* A prompt, /switch or /new; what else it knows only prints.
PlainLine ==
    /\ Through
    /\ \/ \E e \in Execs : SendPrompt(e)
       \/ \E t \in Tools : SwitchTool(t)
       \/ \E s \in Sessions : NewChat(s)

Key ==
    \/ ui = "tui" /\ TuiKey
    \/ ui = "plain" /\ PlainLine

-----------------------------------------------------------------------------
(* Outputs of a single prompt.                                             *)

Take(kinds) ==
    /\ single # <<>> /\ Head(single).kind \in kinds
    /\ single' = Tail(single)
    /\ UNCHANGED <<ui, enabled, selected, responses, completed, open, used,
                   exec, multi, usage, rounds, crossed>>
Tell(m) == told' = told \cup {m.e}

TakeLine ==
    /\ Take({"line"})
    /\ response' = Append(response, Head(single).e)
    /\ UNCHANGED <<current, log, told>>

\* Done: what was collected is the answer, and goes to the open session.
TakeDone ==
    /\ Take({"done"})
    /\ Tell(Head(single))
    /\ IF response = <<>> THEN UNCHANGED log
       ELSE Remember(Said("answer", exec[Head(single).e].round, response))
    /\ response' = <<>>
    /\ UNCHANGED current

\* Error: shown; what was collected stays until the next prompt.
TakeError ==
    /\ Take({"error"})
    /\ Tell(Head(single))
    /\ UNCHANGED <<current, response, log>>

\* RateLimited: the next prompt goes to the next tool.
TakeLimit ==
    LET n == Head(single).next IN
    /\ Take({"limit"})
    /\ Tell(Head(single))
    /\ current' = IF n = NoTool THEN current ELSE n
    /\ UNCHANGED <<response, log>>

-----------------------------------------------------------------------------
(* Outputs of several models.                                              *)

TakeTagged(kinds) ==
    /\ multi # <<>> /\ Head(multi).kind \in kinds
    /\ multi' = Tail(multi)
    /\ UNCHANGED <<ui, current, response, enabled, selected, open, used,
                   exec, single, usage, rounds, crossed>>
ToolOf(m) == exec[m.e].tool

\* add_line drops a line for a tool without an entry.
TakeTaggedLine ==
    LET t == ToolOf(Head(multi)) IN
    /\ TakeTagged({"line"})
    /\ responses' = IF responses[t] = NoEntry THEN responses
                    ELSE [responses EXCEPT ![t] = Append(@, Head(multi).e)]
    /\ UNCHANGED <<completed, log, told>>

\* Seeded fault: the first model that is through ends the round.
AllDoneAny(c) == selected # <<>> /\ \E t \in Tools : c[t] = "done"

AllDone(c) == selected # <<>> /\ \A t \in Tools : c[t] # "pending"

\* A section for each tool selected (for one selected twice, the same twice).
Listed == {t \in Range(selected) : responses[t] # NoEntry}
Combined == [t \in Tools |-> IF t \in Listed THEN responses[t] ELSE NoEntry]

\* Done: the last one through saves what all of them said.
TakeTaggedDone ==
    LET c == [completed EXCEPT ![ToolOf(Head(multi))] = "done"] IN
    /\ TakeTagged({"done"})
    /\ completed' = c
    /\ IF AllDone(c) /\ Listed # {}
       THEN Remember([who |-> "combined", round |-> exec[Head(multi).e].round, parts |-> Combined])
       ELSE UNCHANGED log
    /\ Tell(Head(multi))
    /\ UNCHANGED responses

\* An error or a rate limit is noted among the model's lines and ends it; nothing
\* is saved then.
TakeTaggedEnd ==
    LET t == ToolOf(Head(multi)) IN
    /\ TakeTagged({"error", "limit"})
    /\ responses' = IF responses[t] = NoEntry THEN responses
                    ELSE [responses EXCEPT ![t] = Append(@, Notice)]
    /\ completed' = [completed EXCEPT ![t] = "done"]
    /\ Tell(Head(multi))
    /\ UNCHANGED log

TakeSingle == TakeLine \/ TakeDone \/ TakeError \/ TakeLimit
TakeMulti == TakeTaggedLine \/ TakeTaggedDone \/ TakeTaggedEnd

Next == (Key \/ TakeSingle \/ TakeMulti \/ \E e \in Execs : Execute(e))

Spec == Init /\ [][Next]_vars

-----------------------------------------------------------------------------
Message ==
    [who : {"user", "answer"}, round : Nat, lines : Seq(Execs)]
    \cup [who : {"combined"}, round : Nat, parts : [Tools -> Seq(Lines) \cup {NoEntry}]]
Execution == [pc : {"free", "start", "spawn", "failed", "run", "ended"},
              tool : Tools \cup {NoTool}, home : Sessions \cup {NoSession},
              round : Nat, multi : BOOLEAN, wrote : 0..MaxLines,
              stderr : {"reading", "picked", "announced"},
              pick : Tools \cup {NoTool}, limited : BOOLEAN,
              outcome : {"none", "done", "error", "limit"}]
Output == [e : Execs, kind : {"line", "done", "error", "limit"}, next : Tools \cup {NoTool}]

(* The loop's state keeps its shape: an entry of the multi-model state     *)
(* exists exactly for the tools it was cleared for, and no channel holds   *)
(* more than its capacity.                                                 *)
TypeOK ==
    /\ ui \in Interfaces
    /\ current \in Tools \cup {NoTool}
    /\ response \in Seq(Execs)
    /\ enabled \in BOOLEAN /\ selected \in Seq(Tools)
    /\ responses \in [Tools -> Seq(Lines) \cup {NoEntry}]
    /\ completed \in [Tools -> {"absent", "pending", "done"}]
    /\ \A t \in Tools : completed[t] = "pending" => responses[t] # NoEntry
    /\ open \in used /\ used \subseteq Sessions
    /\ log \in [Sessions -> Seq(Message)]
    /\ exec \in [Execs -> Execution]
    /\ single \in Seq(Output) /\ Len(single) <= Cap
    /\ multi \in Seq(Output) /\ Len(multi) <= Cap
    /\ available \in [Tools -> BOOLEAN]
    /\ hits \in [Tools -> Nat]
    /\ rounds \in Nat /\ crossed \subseteq Execs /\ told \subseteq Execs

Answers(s, r) == {i \in DOMAIN log[s] : log[s][i].who = "answer" /\ log[s][i].round = r}

(* An answer that nothing crossed is saved as the tool wrote it, all of it *)
(* and nothing else, in the session its prompt is in: no line of an        *)
(* earlier prompt that failed or was limited leaks into it.                *)
AnswerAtHome ==
    \A e \in told \ crossed :
        (~exec[e].multi /\ exec[e].outcome = "done" /\ exec[e].wrote > 0) =>
            \E i \in Answers(exec[e].home, exec[e].round) :
                log[exec[e].home][i].lines = [n \in 1..exec[e].wrote |-> e]

NamedTwice(r) == \E e, f \in Execs : e # f /\ exec[e].round = r /\ exec[f].round = r
                                     /\ exec[e].tool = exec[f].tool

\* What stands under a model in the end: its lines, and the notice of its error.
AsWritten(e) ==
    [n \in 1..(exec[e].wrote + (IF exec[e].outcome = "error" THEN 1 ELSE 0)) |->
        IF n <= exec[e].wrote THEN e ELSE Notice]

(* A combined answer that is saved of a round nothing crossed is so once, in *)
(* the round's session, and has under each model that was not limited what  *)
(* it wrote, all of it, with the notice of its error if it met one, and     *)
(* nothing else, whatever the others met.  It takes different models: one   *)
(* that /multi named twice is through when its first execution is, and the  *)
(* end of the second saves once more.                                       *)
CombinedIsWhole ==
    \A s \in Sessions : \A i \in DOMAIN log[s] :
        LET m == log[s][i] IN
        (m.who = "combined" /\ ~NamedTwice(m.round)) =>
            \A e \in Execs \ crossed :
                exec[e].round = m.round =>
                    /\ ~exec[e].limited =>
                          exec[e].home = s /\ m.parts[exec[e].tool] = AsWritten(e)
                    /\ \A j \in DOMAIN log[s] :
                          log[s][j].who = "combined" /\ log[s][j].round = m.round => j = i

(* The limit is announced before the tool is marked.  Without another      *)
(* execution at the same time that does no harm: the tool the loop is told *)
(* to switch to is not a limited one.                                      *)
NextIsAvailable ==
    \A i \in DOMAIN single :
        LET m == single[i] IN
        (m.kind = "limit" /\ m.next # NoTool /\ m.e \notin crossed) =>
            m.next # exec[m.e].tool /\ Usable(m.next)

(* No execution ends silently: once its task is through and the loop has   *)
(* taken all it sent, the user was told of its end, an error or a limit,   *)
(* whatever failed on the way.                                             *)
NeverSilent ==
    \A e \in Execs : (At(e, "ended") /\ ~Active(e)) => e \in told

=============================================================================
