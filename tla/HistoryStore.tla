----------------------------- MODULE HistoryStore -----------------------------
(***************************************************************************)
(* The chat history of polyglot-local (src/crates/local/src/history.rs)    *)
(* and the commands that use it (local/src/main.rs). Every process has a   *)
(* HistoryManager with one session in memory; all of them share a          *)
(* directory with a file per session and one index of all sessions. A save *)
(* truncates and writes the session file, then reads, changes, truncates   *)
(* and writes the index, without any lock.                                 *)
(*                                                                         *)
(* A message is its number: numbers grow with time, so a session's         *)
(* messages are a set and its updated_at is the greatest of them. Titles,  *)
(* summaries and projects decide only what is shown. An absent index reads *)
(* as an empty one and is represented so.                                  *)
(***************************************************************************)
EXTENDS Naturals, Sequences, FiniteSets

CONSTANTS
    Processes,     \* running copies of polyglot-local
    Sessions,      \* session uuids
    NoSession,     \* current_session is None
    IndexLimit,    \* entries update_index keeps (100)
    HistoryLimit,  \* max_history_sessions (100)
    MaxMessages,   \* bound: messages of all sessions
    MaxMishaps     \* bound: crashes and failed file operations

ASSUME ConstantsAssumption ==
    /\ NoSession \notin Sessions
    /\ IsFiniteSet(Sessions)
    /\ IndexLimit \in Nat /\ HistoryLimit \in Nat /\ IndexLimit <= HistoryLimit
    /\ MaxMessages \in Nat /\ MaxMishaps \in Nat

VARIABLES
    files,    \* session files: state, and messages when whole
    index,    \* index.json: state, and the messages each entry counts when whole
    current,  \* HistoryManager.current_session of each process
    pc,       \* where in save_session, update_index or auto_prune a process is
    then,     \* what the call returns to, and the session it opens
    loaded,   \* the changed index between its reading and its writing
    said,     \* session each message was added to
    issued,   \* uuids given out
    listed,   \* history: sessions that some index listed
    hurt,     \* history: sessions met by a crash, a failed operation or two holders
    lapses,   \* history: ways entries were lost
    mishaps   \* crashes and failed operations so far

vars == <<files, index, current, pc, then, loaded, said, issued, listed, hurt,
          lapses, mishaps>>

Messages == 1..MaxMessages
Entries == [Sessions -> SUBSET Messages]
NoEntries == [s \in Sessions |-> {}]
Closed == [id |-> NoSession, msgs |-> {}]
NoCall == [what |-> "none", id |-> NoSession]
Unloaded == [of |-> NoEntries, stale |-> FALSE]

Saves == {"create", "write", "load", "open", "put"}

(* A file truncated by the one process that writes it, one that mixes the    *)
(* texts of several or was cut, and a complete one.                          *)
Blank == [state |-> "blank", msgs |-> {}]
Torn == [state |-> "torn", msgs |-> {}]
Whole(ms) == [state |-> "whole", msgs |-> ms]
BlankIndex == [state |-> "blank", of |-> NoEntries]
TornIndex == [state |-> "torn", of |-> NoEntries]
WholeIndex(e) == [state |-> "whole", of |-> e]

TypeOK ==
    /\ files \in [Sessions -> [state : {"absent", "blank", "torn", "whole"},
                               msgs : SUBSET Messages]]
    /\ index \in [state : {"blank", "torn", "whole"}, of : Entries]
    /\ current \in [Processes -> [id : Sessions \cup {NoSession}, msgs : SUBSET Messages]]
    /\ pc \in [Processes -> {"off", "idle", "create", "write", "load", "open", "put",
                             "prune", "back"}]
    /\ then \in [Processes -> [what : {"none", "new", "resume", "quit", "drop"},
                               id : Sessions \cup {NoSession}]]
    /\ loaded \in [Processes -> [of : Entries, stale : BOOLEAN]]
    /\ said \in Seq(Sessions) /\ Len(said) <= MaxMessages
    /\ issued \in SUBSET Sessions
    /\ listed \in SUBSET Sessions
    /\ hurt \in SUBSET Sessions
    /\ lapses \in SUBSET {"blank", "race", "shared"}
    /\ mishaps \in 0..MaxMishaps
    \* only a session with messages is saved
    /\ \A p \in Processes : pc[p] \in Saves =>
          current[p].id # NoSession /\ current[p].msgs # {}

Init ==
    /\ files = [s \in Sessions |-> [state |-> "absent", msgs |-> {}]]
    /\ index = WholeIndex(NoEntries)
    /\ current = [p \in Processes |-> Closed]
    /\ pc = [p \in Processes |-> "off"]
    /\ then = [p \in Processes |-> NoCall]
    /\ loaded = [p \in Processes |-> Unloaded]
    /\ said = <<>>
    /\ issued = {}
    /\ listed = {}
    /\ hurt = {}
    /\ lapses = {}
    /\ mishaps = 0

-----------------------------------------------------------------------------
(* The index.                                                              *)

Listed(e) == {s \in Sessions : e[s] # {}}

\* updated_at of a is after that of b
Newer(a, b) == \E m \in a : \A k \in b : k < m

\* what sort_by updated_at, newest first, and truncate(n) may keep
Keeps(e, n) ==
    {kept \in SUBSET Listed(e) :
        /\ Cardinality(kept) = IF Cardinality(Listed(e)) > n THEN n ELSE Cardinality(Listed(e))
        /\ \A s \in kept, t \in Listed(e) \ kept : ~Newer(e[t], e[s])}

Only(e, kept) == [s \in Sessions |-> IF s \in kept THEN e[s] ELSE {}]

\* load_index().unwrap_or_default()
LoadedOrDefault == IF index.state = "whole" THEN index.of ELSE NoEntries

\* Seeded fault: an entry is never written again.
WithEntryOnce(e, s, ms) == {IF e[s] = {} THEN [e EXCEPT ![s] = ms] ELSE e}

\* update_index, up to writing
WithEntry(e, s, ms) ==
    LET f == [e EXCEPT ![s] = ms] IN {Only(f, kept) : kept \in Keeps(f, IndexLimit)}

-----------------------------------------------------------------------------
(* Commands of a process, while it is not saving.                          *)

GoTo(p, l) == pc' = [pc EXCEPT ![p] = l]

(* main: a process starts with no session in memory. *)
Start(p) ==
    /\ pc[p] = "off"
    /\ GoTo(p, "idle")
    /\ UNCHANGED <<files, index, current, then, loaded, said, issued, listed, hurt, lapses,
                   mishaps>>

(* add_user_message and add_assistant_message: into the session in memory, *)
(* a new one if there is none.                                             *)
Say(p) ==
    /\ pc[p] = "idle"
    /\ Len(said) < MaxMessages
    /\ \E s \in IF current[p].id = NoSession THEN Sessions \ issued ELSE {current[p].id} :
          /\ current' = [current EXCEPT ![p] =
                [id |-> s, msgs |-> current[p].msgs \cup {Len(said) + 1}]]
          /\ said' = Append(said, s)
          /\ issued' = issued \cup {s}
    /\ UNCHANGED <<files, index, pc, then, loaded, listed, hurt, lapses, mishaps>>

LeaveUnsaved(p, what, s) ==
    /\ pc[p] = "idle"
    /\ then' = [then EXCEPT ![p] = [what |-> what, id |-> s]]
    /\ GoTo(p, IF what # "resume" /\ current[p].msgs # {} THEN "create" ELSE "back")
    /\ UNCHANGED <<files, index, current, loaded, said, listed, hurt, lapses, mishaps>>

(* A session with messages is saved first, one without is not; save_current *)
(* of a session without messages still prunes.                              *)
SaveStart(p, what) ==
    IF current[p].msgs # {} THEN "create"
    ELSE IF what \in {"quit", "drop"} /\ current[p].id # NoSession THEN "prune"
    ELSE "back"

Leave(p, what, s) ==
    /\ pc[p] = "idle"
    /\ then' = [then EXCEPT ![p] = [what |-> what, id |-> s]]
    /\ GoTo(p, SaveStart(p, what))
    /\ UNCHANGED <<files, index, current, loaded, said, listed, hurt, lapses, mishaps>>

(* new_session, transfer_to_new_session *)
NewChat(p) ==
    \E s \in Sessions \ issued : Leave(p, "new", s) /\ issued' = issued \cup {s}

(* resume_session of a session the user has seen listed; when the index cannot *)
(* be read the list on the screen is an earlier one.                           *)
Resume(p) ==
    \E s \in listed : Leave(p, "resume", s) /\ UNCHANGED issued

(* The TUI saves before it returns and again when the manager is dropped, *)
(* the plain command line only when it is dropped.                        *)
Quit(p) ==
    \E what \in {"quit", "drop"} : Leave(p, what, NoSession) /\ UNCHANGED issued

-----------------------------------------------------------------------------
(* save_session, update_index, auto_prune: one action per file operation.  *)

Saved(p) == IF then[p].what \in {"quit", "drop"} THEN "prune" ELSE "back"

\* another process has the same file open
AlsoWriting(p) ==
    \E q \in Processes \ {p} : pc[q] = "write" /\ current[q].id = current[p].id
AlsoPutting(p) == \E q \in Processes \ {p} : pc[q] = "put"

(* File::create truncates the session file; a process that is writing it goes *)
(* on behind the cut.                                                         *)
CreateFile(p) ==
    /\ pc[p] = "create"
    /\ files' = [files EXCEPT ![current[p].id] =
          IF AlsoWriting(p) THEN Torn ELSE Blank]
    /\ GoTo(p, "write")
    /\ UNCHANGED <<index, current, then, loaded, said, issued, listed, hurt, lapses, mishaps>>

(* A file that only this process had open is whole afterwards; two texts      *)
(* written into the same file may mix.                                        *)
WriteFile(p) ==
    /\ pc[p] = "write"
    /\ LET s == current[p].id
           new == Whole(current[p].msgs)
       IN  \E f \in IF files[s].state = "blank" THEN {new} ELSE {new, Torn} :
              files' = [files EXCEPT ![s] = f]
    /\ GoTo(p, "load")
    /\ UNCHANGED <<index, current, then, loaded, said, issued, listed, hurt, lapses, mishaps>>

(* An index that cannot be read counts as empty. *)
LoadIndex(p) ==
    /\ pc[p] = "load"
    /\ \E e \in WithEntry(LoadedOrDefault, current[p].id, current[p].msgs) :
          loaded' = [loaded EXCEPT ![p] = [of |-> e, stale |-> FALSE]]
    /\ lapses' = lapses \cup (IF index.state = "whole" THEN {} ELSE {"blank"})
    /\ GoTo(p, "open")
    /\ UNCHANGED <<files, index, current, then, said, issued, listed, hurt, mishaps>>

\* history: what the others have loaded is out of date
Outdate(p) ==
    [q \in Processes |-> [loaded[q] EXCEPT !.stale =
        @ \/ (q # p /\ pc[q] \in {"open", "put"})]]
Race(p) == IF loaded[p].stale THEN {"race"} ELSE {}

OpenIndex(p) ==
    /\ pc[p] = "open"
    /\ index' = IF AlsoPutting(p) THEN TornIndex ELSE BlankIndex
    /\ loaded' = Outdate(p)
    /\ lapses' = lapses \cup Race(p)
    /\ GoTo(p, "put")
    /\ UNCHANGED <<files, current, then, said, issued, listed, hurt, mishaps>>

PutIndex(p) ==
    /\ pc[p] = "put"
    /\ IF index.state = "blank"
       THEN index' = WholeIndex(loaded[p].of)
       ELSE index' \in {WholeIndex(loaded[p].of), TornIndex}
    /\ listed' = listed \cup Listed(index'.of)
    /\ loaded' = [Outdate(p) EXCEPT ![p] = Unloaded]
    /\ lapses' = lapses \cup Race(p)
    /\ GoTo(p, Saved(p))
    /\ UNCHANGED <<files, current, then, said, issued, hurt, mishaps>>

Deleted(kept) ==
    [s \in Sessions |-> IF s \in Listed(index.of) \ kept
                       THEN [state |-> "absent", msgs |-> {}] ELSE files[s]]

(* prune_old_sessions: an index that cannot be read lists nothing here and is *)
(* left alone. With the two limits of the code the index is never longer than *)
(* it keeps; were it, files and entries go in one step here.                  *)
Prune(p) ==
    /\ pc[p] = "prune"
    /\ \E kept \in Keeps(index.of, HistoryLimit) :
          /\ files' = Deleted(kept)
          /\ index' = [index EXCEPT !.of = Only(index.of, kept)]
    /\ GoTo(p, "back")
    /\ UNCHANGED <<current, then, loaded, said, issued, listed, hurt, lapses, mishaps>>

-----------------------------------------------------------------------------
(* What the save returns to, whether it succeeded or not.                  *)

Return(p, l) == GoTo(p, l) /\ then' = [then EXCEPT ![p] = NoCall]

BackToNew(p) ==
    /\ pc[p] = "back" /\ then[p].what = "new"
    /\ current' = [current EXCEPT ![p] = [id |-> then[p].id, msgs |-> {}]]
    /\ Return(p, "idle")
    /\ UNCHANGED <<files, index, loaded, said, issued, listed, hurt, lapses, mishaps>>

HeldByOther(p, s) == \E q \in Processes \ {p} : current[q].id = s

(* load_session: a file that cannot be read leaves the session in memory. *)
BackToResume(p) ==
    LET s == then[p].id IN
    /\ pc[p] = "back" /\ then[p].what = "resume"
    /\ IF files[s].state = "whole"
       THEN /\ current' = [current EXCEPT ![p] = [id |-> s, msgs |-> files[s].msgs]]
            /\ IF HeldByOther(p, s)
               THEN hurt' = hurt \cup {s} /\ lapses' = lapses \cup {"shared"}
               ELSE UNCHANGED <<hurt, lapses>>
       ELSE UNCHANGED <<current, hurt, lapses>>
    /\ Return(p, "idle")
    /\ UNCHANGED <<files, index, loaded, said, issued, listed, mishaps>>

(* After the TUI's own save the manager is dropped, and saves once more. *)
BackToQuit(p) ==
    /\ pc[p] = "back" /\ then[p].what = "quit"
    /\ then' = [then EXCEPT ![p].what = "drop"]
    /\ GoTo(p, SaveStart(p, "drop"))
    /\ UNCHANGED <<files, index, current, loaded, said, issued, listed, hurt, lapses, mishaps>>

BackToDrop(p) ==
    /\ pc[p] = "back" /\ then[p].what = "drop"
    /\ current' = [current EXCEPT ![p] = Closed]
    /\ Return(p, "off")
    /\ UNCHANGED <<files, index, loaded, said, issued, listed, hurt, lapses, mishaps>>

Back(p) == BackToNew(p) \/ BackToResume(p) \/ BackToQuit(p) \/ BackToDrop(p)

-----------------------------------------------------------------------------
(* What can go wrong.                                                      *)

Mishap(p) ==
    /\ mishaps < MaxMishaps
    /\ mishaps' = mishaps + 1
    /\ hurt' = hurt \cup ({current[p].id} \cap Sessions)

(* The process is killed, or leaves by std::process::exit: nothing is saved, *)
(* a file being written stays cut.                                           *)
Crash(p) ==
    /\ pc[p] # "off"
    /\ Mishap(p)
    /\ current' = [current EXCEPT ![p] = Closed]
    /\ loaded' = [loaded EXCEPT ![p] = Unloaded]
    /\ Return(p, "off")
    /\ UNCHANGED <<files, index, said, issued, listed, lapses>>

(* A create fails: the error goes back to a caller that ignores it. *)
CreateFails(p) ==
    /\ pc[p] \in {"create", "open"}
    /\ Mishap(p)
    /\ loaded' = [loaded EXCEPT ![p] = Unloaded]
    /\ GoTo(p, "back")
    /\ UNCHANGED <<files, index, current, then, said, issued, listed, lapses>>

(* A write fails. The last part of the text is written when the BufWriter is *)
(* dropped, where an error is lost: the save may go on as if it had worked.  *)
WriteFails(p) ==
    /\ Mishap(p)
    /\ \/ /\ pc[p] = "write"
          /\ files' = [files EXCEPT ![current[p].id] = Torn]
          /\ \E l \in {"back", "load"} : GoTo(p, l)
          /\ UNCHANGED <<index, loaded>>
       \/ /\ pc[p] = "put"
          /\ index' = TornIndex
          /\ loaded' = [Outdate(p) EXCEPT ![p] = Unloaded]
          /\ \E l \in {"back", Saved(p)} : GoTo(p, l)
          /\ UNCHANGED files
    /\ UNCHANGED <<current, then, said, issued, listed, lapses>>

Next ==
    \E p \in Processes :
        \/ Start(p) \/ Say(p)
        \/ NewChat(p) \/ Resume(p) \/ Quit(p)
        \/ CreateFile(p) \/ WriteFile(p)
        \/ LoadIndex(p) \/ OpenIndex(p) \/ PutIndex(p) \/ Prune(p)
        \/ Back(p)
        \/ Crash(p) \/ CreateFails(p) \/ WriteFails(p)

Spec == Init /\ [][Next]_vars

-----------------------------------------------------------------------------
(* Properties.                                                             *)

(* A listed session has a file, though it may not be readable: the file is *)
(* created before the entry is written, and an entry goes before its file. *)
ListedHasFile ==
    index.state = "whole" => \A s \in Listed(index.of) : files[s].state # "absent"

(* Opening another session and quitting lose no message: each message is in *)
(* the file of its session or in the memory of a process, unless that       *)
(* session met a crash, a failed operation, or two processes held it.       *)
NothingLost ==
    \A m \in DOMAIN said :
        \/ said[m] \in hurt
        \/ m \in files[said[m]].msgs
        \/ \E p \in Processes : current[p].id = said[m] /\ m \in current[p].msgs

\* p is between the truncation of s's file and the entry for it
Saving(p, s) == current[p].id = s /\ pc[p] \in {"write", "load", "open", "put"}

(* The index describes the files: the entry of a session that nobody is     *)
(* saving counts the messages of its file, or is missing because the index  *)
(* is full of newer ones; unless an index was unreadable when it was loaded, *)
(* two processes overlapped in changing it, or had one session open at once. *)
ListedAsSaved ==
    index.state = "whole" /\ lapses = {} =>
        \A s \in Sessions \ hurt :
            \/ \E p \in Processes : Saving(p, s)
            \/ index.of[s] = files[s].msgs
            \/ /\ index.of[s] = {}
               /\ Cardinality(Listed(index.of)) = IndexLimit
               /\ \A t \in Listed(index.of) : ~Newer(files[s].msgs, index.of[t])

(* auto_prune deletes nothing: update_index has cut the index to as many    *)
(* entries as are kept, so the files of the entries it dropped stay behind. *)
FilesStay ==
    [][\A s \in Sessions :
          files[s].state # "absent" => files'[s].state # "absent"]_vars

=============================================================================
