----------------------------- MODULE TerminalUi -----------------------------
(***************************************************************************)
(* The terminal interfaces: App of the local program (crates/local/src/    *)
(* tui.rs, with what its loop in main.rs does to App on an action) and App *)
(* of the client (crates/client/src/tui/mod.rs), which has the same input  *)
(* line, fewer views and no history.  Which of the two is running is       *)
(* chosen at the start.                                                    *)
(*                                                                         *)
(* Of a character only its width counts, and whether it is the slash; the  *)
(* words of a command are abstracted to the command they make.  What the   *)
(* tools are asked and answer is LocalChat and ClientSession: here outputs *)
(* come at any time.  The list of sessions is read from an index that      *)
(* others save to meanwhile (HistoryStore).                                *)
(***************************************************************************)
EXTENDS Integers, Sequences, FiniteSets, SequencesExt

CONSTANTS
    Chars, Slash, \* characters, and the one that starts a command
    Width,        \* columns a character takes: 0, 1 or 2
    MaxInput,     \* bound: characters typed
    MaxLines,     \* bound: lines of output
    MaxScroll,    \* bound: scrolling past the end
    Page, Bottom, \* 10 and 9999 in the code
    Sessions, Project, Matching, \* sessions: those of the project, those the query finds
    Recent,       \* other sessions the list shows (5 in the code)
    Query         \* a query; a list without one shows what is accessible

ASSUME TerminalAssumption ==
    /\ Slash \in Chars /\ Width \in [Chars -> 0..2]
    /\ {MaxInput, MaxLines, MaxScroll, Page, Bottom, Recent} \subseteq Nat
    /\ Project \subseteq Sessions /\ Matching \subseteq Sessions
    /\ Query # ""

VARIABLES
    ui,                    \* the program: "local" or "client"
    input, cursor, column, \* input, cursor_position, cursor_display_pos
    lines, scroll,         \* output.len(), scroll_offset
    view, multi, quit,     \* view, multi_model.enabled, should_quit
    list, selected, search, \* history, history_selected, history_search
    saved, readable,       \* the index on disk, newest first; can it be read now
    listed                 \* for the properties only: the query list answers

line == <<input, cursor, column>>
output == <<lines, scroll>>
history == <<list, selected, search, listed>>
disk == <<saved, readable>>
vars == <<ui, line, output, view, multi, quit, history, disk>>

Monus(a, b) == IF a > b THEN a - b ELSE 0
Views == {"Chat", "Tools", "Usage", "History", "Help", "MultiSelect", "About"}

\* get_accessible_history: the project's sessions and the newest of the others.
Accessible ==
    LET others == SelectSeq(saved, LAMBDA s : s \notin Project)
        shown(s) == s \in Project \/ \E i \in 1..Recent : i <= Len(others) /\ others[i] = s
    IN  SelectSeq(saved, shown)
\* HistoryManager::search.
Found == SelectSeq(saved, LAMBDA s : s \in Matching)

Init ==
    /\ ui \in {"local", "client"}
    /\ input = <<>> /\ cursor = 0 /\ column = 0
    /\ lines = 1 /\ scroll = 0
    /\ view = "Chat" /\ multi = FALSE /\ quit = FALSE
    /\ saved \in {s \in SeqOf(Sessions, Cardinality(Sessions)) : IsInjective(s)}
    /\ readable \in BOOLEAN
    /\ list = IF ui = "local" /\ readable THEN Accessible ELSE <<>>
    /\ selected = 0 /\ search = ""
    /\ listed = IF ui = "local" /\ readable THEN "" ELSE "unread"

-----------------------------------------------------------------------------
(* The output.                                                             *)

\* add_output, n times: the newest line is the one scrolled to.
Say(n) ==
    /\ lines + n <= MaxLines
    /\ lines' = lines + n
    /\ scroll' = lines + n - 1

\* The loop takes something a tool or the server sent, and shows it.
Output ==
    /\ ~quit
    /\ Say(1)
    /\ UNCHANGED <<ui, line, view, multi, quit, history, disk>>

\* output.clear(), scroll_offset = 0, and n lines.
Restart(n) == lines' = n /\ scroll' = Monus(n, 1)

Up(n) == scroll' = Monus(scroll, n)

\* Only the client stops at the last line.
Down(n) ==
    /\ scroll + n <= MaxScroll
    /\ scroll' = IF ui = "client" /\ scroll + n > Monus(lines, 1) THEN Monus(lines, 1)
                 ELSE scroll + n

-----------------------------------------------------------------------------
(* The input line: keys of the chat view.                                  *)

Columns(s, n) == FoldFunction(+, 0, [i \in 1..n |-> Width[s[i]]])

\* update_cursor_display_pos
Place(s, n) == input' = s /\ cursor' = n /\ column' = Columns(s, n)

\* The line is emptied and the cursor put at its start, but not where it is drawn.
Empty == input' = <<>> /\ cursor' = 0 /\ UNCHANGED column

Type(c) == Len(input) < MaxInput /\ Place(InsertAt(input, cursor + 1, c), cursor + 1)

\* Seeded fault: the cursor is drawn where it was.
BackspaceInPlace ==
    /\ cursor > 0
    /\ input' = RemoveAt(input, cursor) /\ cursor' = cursor - 1
    /\ UNCHANGED column

Backspace == cursor > 0 /\ Place(RemoveAt(input, cursor), cursor - 1)

Delete ==
    /\ cursor < Len(input)
    /\ input' = RemoveAt(input, cursor + 1)
    /\ UNCHANGED <<cursor, column>>

Left == Place(input, Monus(cursor, 1))
Right == Place(input, IF cursor < Len(input) THEN cursor + 1 ELSE cursor)
Home == Place(input, 0)
End == Place(input, Len(input))

\* Esc and Ctrl-U, which the client does not have.
Clear == ui = "local" /\ Empty

Edit ==
    /\ ~quit
    /\ view = "Chat"
    /\ \/ \E c \in Chars : Type(c)
       \/ Backspace \/ Delete \/ Left \/ Right \/ Home \/ End \/ Clear
    /\ UNCHANGED <<ui, output, view, multi, quit, history, disk>>

-----------------------------------------------------------------------------
(* The local program's views and actions, as its loop carries them out.    *)

Show(v) == view' = v /\ UNCHANGED <<multi, quit, output, history>>

\* F2, F6, Ctrl-M, /tools and /multi put up view v and ask for the tools; the loop
\* gets them and puts up theirs.
RequestTools(v) == Show("Tools")

\* Reading the index answers query q, or fails and leaves the list.
Read(q, found) ==
    IF readable THEN list' = found /\ selected' = 0 /\ listed' = q
    ELSE listed' = "unread" /\ UNCHANGED <<list, selected>>

\* RequestHistory
RequestHistory ==
    /\ search' = "" /\ Read("", Accessible)
    /\ view' = "History"
    /\ UNCHANGED <<multi, quit, output>>

\* SearchHistory
SearchHistory ==
    /\ search' = Query /\ Read(Query, Found)
    /\ view' = "History"
    /\ UNCHANGED <<multi, quit, output>>

\* NewChat: one line, or two with the context that was transferred.
NewChat ==
    /\ \E n \in 1..2 : Restart(n)
    /\ view' = "Chat"
    /\ UNCHANGED <<multi, quit, history>>

\* ResumeSession: its last messages, or an error when its file is gone.
Resume(s) ==
    /\ \/ \E n \in 1..MaxLines : Restart(n) /\ s \in Range(saved)
       \/ Say(1) /\ s \notin Range(saved)
    /\ view' = "Chat"
    /\ UNCHANGED <<multi, quit, history>>

\* EnableMultiModel, DisableMultiModel: App and then the loop speak.
EnableMulti == Say(2) /\ multi' = TRUE /\ UNCHANGED <<view, quit, history>>
DisableMulti == Say(1) /\ multi' = FALSE /\ UNCHANGED <<view, quit, history>>

\* PerformUpdate: an installed one ends the program.
PerformUpdate == Say(2) /\ quit' \in BOOLEAN /\ UNCHANGED <<view, multi, history>>

Quit == quit' = TRUE /\ UNCHANGED <<view, multi, output, history>>
ClearOutput == Restart(0) /\ UNCHANGED <<view, multi, quit, history>>
OneLine == Say(1) /\ UNCHANGED <<view, multi, quit, history>>

\* handle_command
LocalCommand ==
    \/ \E v \in {"Usage", "Help", "About"} : Show(v)
    \/ \E v \in {"Tools", "MultiSelect"} : RequestTools(v)
    \/ RequestHistory \/ SearchHistory \/ NewChat
    \/ EnableMulti \/ DisableMulti
    \/ PerformUpdate \/ Quit \/ ClearOutput
    \/ OneLine

\* The client's handle_command.
ClientCommand ==
    \/ \E v \in {"Usage", "Tools", "Help", "About"} : Show(v)
    \/ Quit \/ ClearOutput
    \/ OneLine

\* Enter with text: a prompt is shown, and sent by the loop.
Enter ==
    /\ ~quit
    /\ view = "Chat" /\ input # <<>>
    /\ Empty
    /\ \/ Head(input) # Slash /\ OneLine
       \/ Head(input) = Slash /\ ui = "local" /\ LocalCommand
       \/ Head(input) = Slash /\ ui = "client" /\ ClientCommand
    /\ UNCHANGED <<ui, disk>>

\* Keys that work in every view.
LocalKey ==
    \/ \E v \in {"Chat", "Usage", "Help", "About"} : Show(v)
    \/ \E v \in {"Tools", "MultiSelect"} : RequestTools(v)
    \/ RequestHistory
    \/ NewChat
    \/ IF multi THEN DisableMulti ELSE RequestTools("MultiSelect")

ClientKey == \E v \in {"Chat", "Tools", "Usage", "Help", "About"} : Show(v)

FunctionKey ==
    /\ ~quit
    /\ \/ ui = "local" /\ LocalKey
       \/ ui = "client" /\ ClientKey
       \/ Quit
    /\ UNCHANGED <<ui, line, disk>>

\* Arrows and pages, and in the local program's other views the ends.
Scroll ==
    /\ ~quit
    /\ view # "History"
    /\ \/ Up(Page) \/ Down(Page)
       \/ ui = "local" /\ (Up(1) \/ Down(1))
       \/ ui = "local" /\ view # "Chat" /\ scroll' \in {0, Bottom}
    /\ UNCHANGED <<ui, line, lines, view, multi, quit, history, disk>>

-----------------------------------------------------------------------------
(* The list of sessions.                                                   *)

Move ==
    /\ ~quit
    /\ view = "History"
    /\ selected' \in {Monus(selected, 1),
                      IF selected + 1 < Len(list) THEN selected + 1 ELSE Monus(Len(list), 1)}
    /\ UNCHANGED <<ui, line, output, view, multi, quit, list, search, listed, disk>>

\* Home and End scroll the chat instead.
HistoryEnds ==
    /\ ~quit
    /\ view = "History"
    /\ scroll' \in {0, Bottom}
    /\ UNCHANGED <<ui, line, lines, view, multi, quit, history, disk>>

Open ==
    /\ ~quit
    /\ view = "History" /\ selected < Len(list)
    /\ Resume(list[selected + 1])
    /\ UNCHANGED <<ui, line, disk>>

\* Seeded fault: the query goes, what it found stays.
LeaveSearchOnly ==
    /\ ~quit
    /\ view = "History"
    /\ IF search # "" THEN search' = "" /\ UNCHANGED <<list, selected, listed, view, multi, quit, output>>
       ELSE Show("Chat")
    /\ UNCHANGED <<ui, line, disk>>

\* Esc leaves the search first.
LeaveSearch ==
    /\ ~quit
    /\ view = "History"
    /\ IF search # "" THEN RequestHistory ELSE Show("Chat")
    /\ UNCHANGED <<ui, line, disk>>

\* A session is saved or deleted, by this program or by another one, which leaves
\* the index half written for a moment.
Save(s) == saved' = <<s>> \o SelectSeq(saved, LAMBDA t : t # s) /\ UNCHANGED readable
Drop(s) == saved' = SelectSeq(saved, LAMBDA t : t # s) /\ UNCHANGED readable
Toggle == readable' = ~readable /\ UNCHANGED saved

OnDisk ==
    /\ ~quit
    /\ \/ \E s \in Sessions : Save(s) \/ Drop(s)
       \/ Toggle
    /\ UNCHANGED <<ui, line, output, view, multi, quit, history>>

-----------------------------------------------------------------------------
Next ==
    \/ Output \/ Edit \/ Enter \/ FunctionKey \/ Scroll
    \/ Move \/ HistoryEnds \/ Open \/ LeaveSearch
    \/ OnDisk

Spec == Init /\ [][Next]_vars

-----------------------------------------------------------------------------
(* The state keeps its shape: the cursor is on the line and the highlighted *)
(* session on the list, which is replaced under it at any time.            *)
TypeOK ==
    /\ ui \in {"local", "client"}
    /\ input \in Seq(Chars) /\ cursor \in 0..Len(input) /\ column \in Nat
    /\ lines \in 0..MaxLines /\ scroll \in Nat
    /\ view \in Views /\ multi \in BOOLEAN /\ quit \in BOOLEAN
    /\ list \in Seq(Sessions) /\ selected \in 0..Monus(Len(list), 1)
    /\ search \in {"", Query} /\ listed \in {"", Query, "unread"}
    /\ saved \in Seq(Sessions) /\ readable \in BOOLEAN

(* The cursor is drawn where the next character goes, characters of any    *)
(* width before it, whatever was typed, deleted and moved since.  Only     *)
(* with an empty line may it stand where the line before it left it.       *)
ColumnFollows == input # <<>> => column = Columns(input, cursor)

(* The list of sessions is the one its title announces, that of the search *)
(* or that of the accessible sessions, unless the index could not be read  *)
(* when it was asked for.                                                  *)
TitleMatchesList == view = "History" => listed \in {search, "unread"}

(* The client always has some output to draw: it never scrolls past it.    *)
ScrollInside == ui = "client" => scroll <= Monus(lines, 1)

(* The screen on which models are selected by digits never comes up:       *)
(* whatever asks for it asks for the tools too, and is shown those.        *)
NeverSelecting == view # "MultiSelect"

=============================================================================
