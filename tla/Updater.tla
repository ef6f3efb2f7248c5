------------------------------- MODULE Updater -------------------------------
(***************************************************************************)
(* Self-update: crates/common/src/updater.rs and the perform_update of the *)
(* server, the client and the local program.  An update is a process that  *)
(* works on files: the executable, "<executable>.new" beside it, and a     *)
(* directory of backups that all programs share.  There is no lock: two    *)
(* updates may run at once, and each may be killed between any two steps.  *)
(*                                                                         *)
(* A file's content is the version whose binary it is, Torn while it is    *)
(* written, or Junk when it is no binary at all.  The platform is Linux: a *)
(* running executable cannot be opened for writing, but can be replaced.   *)
(***************************************************************************)
EXTENDS Integers, Sequences, FiniteSets, SequencesExt

CONSTANTS
    Updaters,  \* processes that run an update
    Programs,
    Careful,   \* programs that roll back and set the mode early: the server
    Versions,  \* releases, and what is installed
    Tag,       \* a version's tag: components, each [num, pre]
    NoNum,     \* a component that is not a number
    First,     \* the version installed at the start
    Keep,      \* backups cleanup_old_backups leaves (3 in the code)
    MaxTime,   \* bound on the clock, in seconds
    MaxUpdates,\* bound on the updates started
    Torn, Junk, NoFile

ASSUME UpdaterAssumption ==
    /\ Programs # {} /\ Careful \subseteq Programs
    /\ First \in Versions
    /\ Tag \in [Versions -> Seq([num : Nat \cup {NoNum}, pre : BOOLEAN])]
    /\ Keep \in Nat \ {0} /\ {MaxTime, MaxUpdates} \subseteq Nat
    /\ {Torn, Junk} \cap Versions = {}
    /\ NoFile \notin [content : Versions \cup {Torn, Junk}, exec : BOOLEAN]

VARIABLES
    exe,     \* the executable of a program: [content, exec]
    image,   \* how often it was replaced: which file a process runs from
    temp,    \* "<executable>.new", or NoFile
    backups, \* the backup files, by time of the last write: [prog, at, content]
    now,     \* the clock that names backups
    run,     \* the updates
    started, \* updates started
    overlap  \* for the properties: programs two updates ran for at once

updaterVars == <<exe, image, temp, backups, now, run, started, overlap>>

Idle == [pc |-> "idle", prog |-> CHOOSE p \in Programs : TRUE, version |-> First,
         target |-> First, forced |-> FALSE, image |-> 0, at |-> 0, later |-> 0,
         got |-> First, fd |-> "none"]

UpdaterInit ==
    /\ exe = [p \in Programs |-> [content |-> First, exec |-> TRUE]]
    /\ image = [p \in Programs |-> 0]
    /\ temp = [p \in Programs |-> NoFile]
    /\ backups = <<>>
    /\ now = 0
    /\ run = [u \in Updaters |-> Idle]
    /\ started = 0
    /\ overlap = {}

At(u, where) == run[u].pc = where
Go(u, where) == run' = [run EXCEPT ![u].pc = where]
EndRun(u) == run' = [run EXCEPT ![u] = Idle]
Prog(u) == run[u].prog
Busy(p) == {u \in Updaters : ~At(u, "idle") /\ Prog(u) = p}

-----------------------------------------------------------------------------
(* Versions.                                                               *)

\* version_compare: a suffix is cut off its component, a component that is not
\* a number is dropped, and those behind it move up.
Numeric(v) == {k \in DOMAIN Tag[v] : Tag[v][k].num # NoNum}
Nth(v, i) == {k \in Numeric(v) : Cardinality({j \in Numeric(v) : j <= k}) = i}
Parsed(v) ==
    [i \in 1..3 |-> IF Nth(v, i) = {} THEN 0 ELSE Tag[v][CHOOSE k \in Nth(v, i) : TRUE].num]

Later(a, b) == \E i \in 1..3 : a[i] > b[i] /\ \A j \in 1..(i - 1) : a[j] = b[j]

\* Seeded fault: any difference is an update.
OfferedDiffers(new, old) == Parsed(new) # Parsed(old)

\* update_available of check_for_updates_github.
Offered(new, old) == Later(Parsed(new), Parsed(old))

-----------------------------------------------------------------------------
(* run_update: a release is found, and the user agrees to install it.  A    *)
(* check alone, a refusal or a release without a file for the platform     *)
(* changes nothing.                                                        *)

Start(u, p, v, forced) ==
    /\ At(u, "idle") /\ started < MaxUpdates
    /\ exe[p].exec /\ exe[p].content \in Versions
    /\ forced \/ Offered(v, exe[p].content)
    /\ run' = [run EXCEPT ![u] = [Idle EXCEPT !.pc = "backup", !.prog = p, !.target = v,
                                  !.version = exe[p].content, !.forced = forced,
                                  !.image = image[p]]]
    /\ started' = started + 1
    /\ overlap' = IF Busy(p) = {} THEN overlap ELSE overlap \cup {p}
    /\ UNCHANGED <<exe, image, temp, backups, now>>

-----------------------------------------------------------------------------
(* create_backup and cleanup_old_backups.                                  *)

Named(b, u) == b.prog = Prog(u) /\ b.at = run[u].at

\* the backup of u's program of a second, and the others
BackupAt(u, at) == {i \in DOMAIN backups : backups[i].prog = Prog(u) /\ backups[i].at = at}
Others(u, at) ==
    IF BackupAt(u, at) = {} THEN backups ELSE RemoveAt(backups, CHOOSE i \in BackupAt(u, at) : TRUE)

\* the steps of an update that has a backup and may need it
Backing == {"download", "create", "write", "mode", "verify", "rename", "restore"}

\* w's backup, which was newer than u's, no longer is once u's is written.
Passed(w, u, at) ==
    /\ run[w].pc \in Backing \cup {"copy"}
    /\ \E i \in DOMAIN backups : Named(backups[i], w) /\ \A j \in BackupAt(u, at) : j < i

\* A write makes u's backup the newest of all: files are told apart by when they
\* were last modified (two in the same instant are left out).
WriteBackup(u, at, c, pc, late) ==
    /\ backups' = Append(Others(u, at), [prog |-> Prog(u), at |-> at, content |-> c])
    /\ run' = [w \in Updaters |->
                  IF w = u THEN [run[u] EXCEPT !.pc = pc, !.at = at, !.later = late]
                  ELSE IF Passed(w, u, at) /\ run[w].later < Keep
                       THEN [run[w] EXCEPT !.later = @ + 1] ELSE run[w]]

\* The copy is named after the program and the second, and starts empty: a
\* backup of the same second is overwritten.
BackupBegin(u) ==
    /\ At(u, "backup")
    /\ run[u].image = image[Prog(u)]
    /\ WriteBackup(u, now, Torn, "copy", 0)
    /\ UNCHANGED <<exe, image, temp, now, started, overlap>>

\* The file this process runs from was replaced meanwhile: get_current_exe
\* returns a name that does not exist, and `?` ends the update.
ExeGone(u) ==
    /\ At(u, "backup")
    /\ run[u].image # image[Prog(u)]
    /\ EndRun(u)
    /\ UNCHANGED <<exe, image, temp, backups, now, started, overlap>>

\* The copy is written, the last time wholly; its metadata follow, which nobody
\* reads.  If another update's cleanup has removed it, the writes go nowhere.
BackupWrite(u) ==
    /\ At(u, "copy")
    /\ IF BackupAt(u, run[u].at) = {}
       THEN Go(u, "download") /\ UNCHANGED backups
       ELSE \E part \in BOOLEAN :
               WriteBackup(u, run[u].at, IF part THEN Torn ELSE exe[Prog(u)].content,
                           IF part THEN "copy" ELSE "download",
                           IF run[u].later < Keep THEN 0 ELSE Keep)
    /\ UNCHANGED <<exe, image, temp, now, started, overlap>>

\* Seeded fault: the oldest are kept.
CleanupNewest(u) ==
    /\ At(u, "cleanup")
    /\ backups' = SubSeq(backups, 1, IF Len(backups) < Keep THEN Len(backups) ELSE Keep)
    /\ EndRun(u)
    /\ UNCHANGED <<exe, image, temp, now, started, overlap>>

\* The last written are kept, of all programs together; the update is complete.
Cleanup(u) ==
    /\ At(u, "cleanup")
    /\ backups' = SubSeq(backups, IF Len(backups) < Keep THEN 1 ELSE Len(backups) - Keep + 1,
                         Len(backups))
    /\ EndRun(u)
    /\ UNCHANGED <<exe, image, temp, now, started, overlap>>

-----------------------------------------------------------------------------
(* perform_update.                                                         *)

\* Where a step that failed leads: the server restores its backup first.
Failed(u) == IF Prog(u) \in Careful THEN Go(u, "restore") ELSE EndRun(u)

\* The download: the file, or something else under a matching name; a bad
\* status; no answer (where the server does not restore either).
Download(u) ==
    /\ At(u, "download")
    /\ \/ \E c \in {run[u].target, Junk} :
             run' = [run EXCEPT ![u].pc = "create", ![u].got = c]
       \/ Failed(u)
       \/ EndRun(u)
    /\ UNCHANGED <<exe, image, temp, backups, now, started, overlap>>

\* fs::write opens and empties the file, whose mode stays if it was there.
Create(u) ==
    LET p == Prog(u) IN
    /\ At(u, "create")
    /\ temp' = [temp EXCEPT ![p] =
                   [content |-> Torn, exec |-> IF @ = NoFile THEN FALSE ELSE @.exec]]
    /\ run' = [run EXCEPT ![u].pc = "write", ![u].fd = "temp"]
    /\ UNCHANGED <<exe, image, backups, now, started, overlap>>

CannotWrite(u) ==
    /\ run[u].pc \in {"create", "write"}
    /\ Failed(u)
    /\ UNCHANGED <<exe, image, temp, backups, now, started, overlap>>

\* What was downloaded is in the file that was opened, wherever it is now.
Write(u) ==
    LET p == Prog(u) IN
    /\ At(u, "write")
    /\ temp' = IF run[u].fd = "temp" /\ temp[p] # NoFile
               THEN [temp EXCEPT ![p].content = run[u].got] ELSE temp
    /\ exe' = IF run[u].fd = "exe" THEN [exe EXCEPT ![p].content = run[u].got] ELSE exe
    /\ run' = [run EXCEPT ![u].pc = IF p \in Careful THEN "mode" ELSE "verify",
                          ![u].fd = "none"]
    /\ UNCHANGED <<image, backups, now, started, overlap>>

\* The server makes the new file executable before it is in place.
ModeEarly(u) ==
    LET p == Prog(u) IN
    /\ At(u, "mode")
    /\ IF temp[p] = NoFile
       THEN EndRun(u) /\ UNCHANGED temp
       ELSE Go(u, "verify") /\ temp' = [temp EXCEPT ![p].exec = TRUE]
    /\ UNCHANGED <<exe, image, backups, now, started, overlap>>

\* verify_binary looks at the first four bytes.
Verified(p) == temp[p] # NoFile /\ temp[p].content # Junk

\* Files opened as "<executable>.new" that is now removed, or in place.
Moved(p, where) ==
    [u \in Updaters |->
        IF ~At(u, "write") \/ Prog(u) # p THEN run[u]
        ELSE [run[u] EXCEPT !.fd = IF @ = "temp" THEN where ELSE "none"]]

\* Seeded fault: the check comes without its return.
VerifyOnly(u) ==
    /\ At(u, "verify")
    /\ Go(u, "rename")
    /\ UNCHANGED <<exe, image, temp, backups, now, started, overlap>>

Verify(u) ==
    LET p == Prog(u) IN
    /\ At(u, "verify")
    /\ IF Verified(p)
       THEN Go(u, "rename") /\ UNCHANGED temp
       ELSE /\ temp' = [temp EXCEPT ![p] = NoFile]
            /\ run' = [Moved(p, "none") EXCEPT
                          ![u] = IF p \in Careful THEN [run[u] EXCEPT !.pc = "restore"] ELSE Idle]
    /\ UNCHANGED <<exe, image, backups, now, started, overlap>>

\* The new file takes the executable's place; if it is gone, `?` ends the update.
Rename(u) ==
    LET p == Prog(u) IN
    /\ At(u, "rename")
    /\ IF temp[p] = NoFile
       THEN EndRun(u) /\ UNCHANGED <<exe, image, temp>>
       ELSE /\ exe' = [exe EXCEPT ![p] = temp[p]]
            /\ image' = [image EXCEPT ![p] = @ + 1]
            /\ temp' = [temp EXCEPT ![p] = NoFile]
            /\ run' = [Moved(p, "exe") EXCEPT
                          ![u].pc = IF p \in Careful THEN "cleanup" ELSE "chmod"]
    /\ UNCHANGED <<backups, now, started, overlap>>

\* The client and the local program set the mode once it is in place.
Chmod(u) ==
    /\ At(u, "chmod")
    /\ exe' = [exe EXCEPT ![Prog(u)].exec = TRUE]
    /\ Go(u, "cleanup")
    /\ UNCHANGED <<image, temp, backups, now, started, overlap>>

\* restore_backup: nothing to copy from, or the executable is the file some
\* update runs from: an error.  Otherwise it is emptied...
RestoreBegin(u) ==
    LET p == Prog(u)
        running == \E w \in Busy(p) : run[w].image = image[p]
        found == BackupAt(u, run[u].at) # {}
    IN  /\ At(u, "restore")
        /\ IF running \/ ~found
           THEN EndRun(u) /\ UNCHANGED exe
           ELSE Go(u, "restoring") /\ exe' = [exe EXCEPT ![p].content = Torn]
        /\ UNCHANGED <<image, temp, backups, now, started, overlap>>

\* ...and filled from the backup.
RestoreEnd(u) ==
    LET from == BackupAt(u, run[u].at) IN
    /\ At(u, "restoring")
    /\ exe' = [exe EXCEPT ![Prog(u)] =
                  [content |-> IF from = {} THEN Torn
                               ELSE backups[CHOOSE i \in from : TRUE].content,
                   exec |-> TRUE]]
    /\ EndRun(u)
    /\ UNCHANGED <<image, temp, backups, now, started, overlap>>

\* The update is killed, or a step of it fails that no branch is for: the files
\* stay as they are.
Crash(u) ==
    /\ ~At(u, "idle")
    /\ EndRun(u)
    /\ UNCHANGED <<exe, image, temp, backups, now, started, overlap>>

Tick ==
    /\ now < MaxTime
    /\ now' = now + 1
    /\ UNCHANGED <<exe, image, temp, backups, run, started, overlap>>

Step(u) ==
    \/ BackupBegin(u) \/ ExeGone(u) \/ BackupWrite(u) \/ Download(u) \/ Create(u) \/ CannotWrite(u)
    \/ Write(u) \/ ModeEarly(u) \/ Verify(u) \/ Rename(u) \/ Chmod(u) \/ Cleanup(u)
    \/ RestoreBegin(u) \/ RestoreEnd(u)

UpdaterNext ==
    \/ \E u \in Updaters :
          \/ \E p \in Programs, v \in Versions, f \in BOOLEAN : Start(u, p, v, f)
          \/ Step(u)
          \/ Crash(u)
    \/ Tick

UpdaterSpec == UpdaterInit /\ [][UpdaterNext]_updaterVars

-----------------------------------------------------------------------------
Content == Versions \cup {Torn, Junk}
File == [content : Content, exec : BOOLEAN]
Steps == {"idle", "backup", "copy", "download", "create", "write", "mode", "verify",
          "rename", "chmod", "cleanup", "restore", "restoring"}

Backup == [prog : Programs, at : Nat, content : Content]
Run == [pc : Steps, prog : Programs, version : Versions, target : Versions, forced : BOOLEAN,
        image : Nat, at : Nat, later : 0..Keep, got : Content, fd : {"none", "temp", "exe"}]

(* Files and updates keep their shape; no two backups have the same name. *)
UpdaterTypeOK ==
    /\ exe \in [Programs -> File] /\ image \in [Programs -> Nat]
    /\ temp \in [Programs -> File \cup {NoFile}]
    /\ backups \in Seq(Backup)
    /\ \A i, j \in DOMAIN backups :
          (backups[i].prog = backups[j].prog /\ backups[i].at = backups[j].at) => i = j
    /\ now \in Nat /\ started \in Nat /\ overlap \subseteq Programs
    /\ run \in [Updaters -> Run]

(* A program that no two updates worked on at once always has a whole      *)
(* binary in place, at whatever step an update fails or is killed; and the *)
(* server's can always be executed.                                        *)
AlwaysRunnable ==
    \A p \in Programs \ overlap :
        /\ exe[p].content \in Versions
        /\ p \in Careful => exe[p].exec

(* Until an update replaces the executable there is a whole backup of it.  *)
(* The other programs' updates clean up the same directory, so this lasts  *)
(* for as long as there were never, since its copy began, Keep backups     *)
(* written after its own.                                                  *)
BackupSurvives ==
    \A u \in Updaters :
        (run[u].pc \in Backing /\ Prog(u) \notin overlap /\ run[u].later < Keep) =>
            \E i \in DOMAIN backups :
                Named(backups[i], u) /\ backups[i].content = run[u].version

\* Semantic versions: the numbers decide; tags are compared only if they are
\* well formed, three numbers of which the last may begin a pre-release.
WellFormed(v) ==
    /\ Len(Tag[v]) >= 3
    /\ \A i \in 1..3 : Tag[v][i].num # NoNum
    /\ \A i \in 1..2 : ~Tag[v][i].pre
Numbers(v) == [i \in 1..3 |-> Tag[v][i].num]

\* what p runs is replaced, at one update's work that was not forced
Turned(p) ==
    /\ exe[p].content # exe'[p].content
    /\ {exe[p].content, exe'[p].content} \subseteq Versions
    /\ p \notin overlap /\ \A u \in Busy(p) : ~run[u].forced

(* What an update that was not forced puts in place, of a program it alone *)
(* works on, is later than what it replaces: neither the release it found  *)
(* nor what a killed update left beside the executable turns it back.      *)
OnlyForward ==
    [][\A p \in Programs :
          (Turned(p) /\ WellFormed(exe[p].content) /\ WellFormed(exe'[p].content)) =>
              Later(Numbers(exe'[p].content), Numbers(exe[p].content))]_updaterVars

=============================================================================
