--------------------------- MODULE ServerSessions ---------------------------
(***************************************************************************)
(* Users, sessions and per-session environments of polyglot-server         *)
(* (server/src/main.rs, auth/session.rs, auth/users.rs).                   *)
(*                                                                         *)
(* Every connection has a task of its own that handles one message at a    *)
(* time; the tasks share the user table (SQLite behind a mutex), the       *)
(* session map and the environment map (one lock each).  A message whose   *)
(* handler takes one lock is one action.  Auth takes the user-table mutex  *)
(* once per query, so the other tasks, the administrator's command line    *)
(* and a crash fall between its queries: each query is an action, and pc   *)
(* says which query comes next.                                            *)
(*                                                                         *)
(* Messages that only read (Ping, ListTools, SyncRequest, ...) are not     *)
(* actions here; what Prompt reads is EnvOf and ToolOf.  Replies are the   *)
(* subject of ConnectionLoop.                                              *)
(***************************************************************************)
EXTENDS Naturals

CONSTANTS
    Conns,         \* connection slots of the server
    Fingerprints,  \* certificate fingerprints a client may present
    UserIds,       \* supply of fresh user uuids (its size is a bound)
    SessionIds,    \* supply of fresh session uuids (its size is a bound)
    EnvValues,     \* environments a client may set
    Adapters,      \* tools the server has an adapter for
    DefaultTool,   \* config.tools.default_tool
    Names,         \* user names
    DefaultName,   \* the name of the self-registered user, "default"
    MaxCrashes,    \* bound: how often the process dies and restarts
    NoFp, NoUser, NoSession, NoTool, NoEnv, Absent, Gone

ASSUME NamesAssumption == DefaultName \in Names
ASSUME SentinelAssumption ==
    /\ NoFp \notin Fingerprints
    /\ NoUser \notin UserIds
    /\ NoSession \notin SessionIds
    /\ NoEnv \notin EnvValues
    /\ NoTool \notin Adapters \cup {DefaultTool}
    /\ Absent \notin [name : Names, fp : Fingerprints \cup {NoFp}]
    /\ Gone \notin [user : UserIds, tool : Adapters \cup {NoTool}, expired : BOOLEAN]
ASSUME CrashAssumption == MaxCrashes \in Nat

VARIABLES
    users,      \* the user table
    sessions,   \* SessionManager.sessions
    sessionEnv, \* ServerState.session_env
    pc,         \* where each connection's task is
    sid,        \* handle_connection's session_id
    tool,       \* handle_connection's current_tool
    login,      \* the Auth in progress: fingerprint sent and user found or made
    crashes,
    \* History, read by no action:
    issued,     \* uuids handed out so far
    signedWith, \* the fingerprint each session was opened with
    lastEnv,    \* what a connection set since it last opened or ended a session
    abandoned,  \* sessions whose connection let go of them without removing them
    selfMade,   \* users a connection registered by itself
    interrupted \* those whose registration stopped between insert and bind

shared == <<users, sessions, sessionEnv>>
history == <<issued, signedWith, lastEnv, abandoned, selfMade, interrupted>>
vars == <<shared, pc, sid, tool, login, crashes, history>>

UserRow == [name : Names, fp : Fingerprints \cup {NoFp}]
Session == [user : UserIds, tool : Adapters \cup {NoTool}, expired : BOOLEAN]
ToolValues == Adapters \cup {DefaultTool, NoTool}

\* The queries of an Auth handler still to come.
AuthSteps == {"mode", "name", "insert", "bind", "open_new", "open_known", "touch"}

Rows == {u \in UserIds : users[u] # Absent}
NameTaken(n) == \E u \in Rows : users[u].name = n
Present(s) == s \in SessionIds /\ sessions[s] # Gone
NoLogin == [fp |-> NoFp, user |-> NoUser]

\* What a Prompt of connection c runs with.
EnvOf(c) == IF sid[c] = NoSession THEN NoEnv ELSE sessionEnv[sid[c]]
ToolOf(c, asked) ==
    IF asked # NoTool THEN asked ELSE IF tool[c] # NoTool THEN tool[c] ELSE DefaultTool

-----------------------------------------------------------------------------
Init ==
    /\ users = [u \in UserIds |-> Absent]
    /\ sessions = [s \in SessionIds |-> Gone]
    /\ sessionEnv = [s \in SessionIds |-> NoEnv]
    /\ pc = [c \in Conns |-> "down"]
    /\ sid = [c \in Conns |-> NoSession]
    /\ tool = [c \in Conns |-> NoTool]
    /\ login = [c \in Conns |-> NoLogin]
    /\ crashes = 0
    /\ issued = {}
    /\ signedWith = [s \in SessionIds |-> NoFp]
    /\ lastEnv = [c \in Conns |-> NoEnv]
    /\ abandoned = {}
    /\ selfMade = {}
    /\ interrupted = {}

Accept(c) ==
    /\ pc[c] = "down"
    /\ pc' = [pc EXCEPT ![c] = "ready"]
    /\ UNCHANGED <<shared, sid, tool, login, crashes, history>>

\* The task ends: its local variables go with it.
EndTask(c) ==
    /\ pc' = [pc EXCEPT ![c] = "down"]
    /\ sid' = [sid EXCEPT ![c] = NoSession]
    /\ tool' = [tool EXCEPT ![c] = NoTool]
    /\ login' = [login EXCEPT ![c] = NoLogin]
    /\ lastEnv' = [lastEnv EXCEPT ![c] = NoEnv]

\* An error propagated with `?`: handle_connection returns without reaching
\* its cleanup, and whatever session it held stays in the maps.
Fail(c) ==
    /\ EndTask(c)
    /\ abandoned' = abandoned \cup ({sid[c]} \ {NoSession})
    /\ UNCHANGED <<shared, crashes, issued, signedWith, selfMade>>

Goto(c, step) ==
    /\ pc' = [pc EXCEPT ![c] = step]
    /\ UNCHANGED <<shared, sid, tool, crashes, history>>

\* Seeded fault: signing off ends every session of the same user.
DropEntriesOfUser(s) ==
    /\ sessions' = [t \in SessionIds |->
                      IF Present(s) /\ Present(t) /\ sessions[t].user = sessions[s].user
                      THEN Gone ELSE sessions[t]]
    /\ sessionEnv' = [t \in SessionIds |-> IF t = s THEN NoEnv ELSE sessionEnv[t]]

\* The entries of session s leave both maps.
DropEntries(s) ==
    /\ sessions' = [t \in SessionIds |-> IF t = s THEN Gone ELSE sessions[t]]
    /\ sessionEnv' = [t \in SessionIds |-> IF t = s THEN NoEnv ELSE sessionEnv[t]]

\* Seeded fault: the task ends cleanly without removing its session.
CloseStreamKeeping(c) ==
    /\ pc[c] = "ready"
    /\ EndTask(c)
    /\ UNCHANGED <<shared, crashes, issued, signedWith, abandoned, selfMade, interrupted>>

\* The client closed its stream, or reading failed: the loop breaks and the
\* cleanup below it runs.
CloseStream(c) ==
    /\ pc[c] = "ready"
    /\ EndTask(c)
    /\ DropEntries(sid[c])
    /\ UNCHANGED <<users, crashes, issued, signedWith, abandoned, selfMade, interrupted>>

\* A message that does not decode, or a reply that cannot be written.
BreakStream(c) == pc[c] = "ready" /\ Fail(c) /\ UNCHANGED interrupted

-----------------------------------------------------------------------------
(* Auth, one action per query of the user table.                           *)

\* get_user_by_fingerprint.  An error of the database counts as "not found".
AuthLookup(c, f) ==
    /\ pc[c] = "ready"
    /\ \/ /\ \E u \in Rows : /\ users[u].fp = f
                             /\ login' = [login EXCEPT ![c] = [fp |-> f, user |-> u]]
          /\ pc' = [pc EXCEPT ![c] = "open_known"]
       \/ /\ login' = [login EXCEPT ![c] = [fp |-> f, user |-> NoUser]]
          /\ pc' = [pc EXCEPT ![c] = "mode"]
    /\ UNCHANGED <<shared, sid, tool, crashes, history>>

SingleUserMode == \A u, v \in Rows : u = v    \* user_count() <= 1

\* is_single_user_mode: otherwise the client is told "Unknown certificate".
AuthMode(c) ==
    /\ pc[c] = "mode"
    /\ IF SingleUserMode
       THEN Goto(c, "name") /\ UNCHANGED login
       ELSE Goto(c, "ready") /\ login' = [login EXCEPT ![c] = NoLogin]

\* create_user, its own check.  An error of the database reads as "free".
AuthName(c) ==
    /\ pc[c] = "name"
    /\ \/ NameTaken(DefaultName) /\ Fail(c) /\ UNCHANGED interrupted
       \/ Goto(c, "insert") /\ UNCHANGED login

\* The row of user u under name n, no certificate yet.
InsertRow(u, n) ==
    /\ u \in UserIds \ issued
    /\ users' = [users EXCEPT ![u] = [name |-> n, fp |-> NoFp]]
    /\ issued' = issued \cup {u}

\* Seeded fault: the new row never gets its certificate.
RegisterUnbound(c) ==
    /\ \E u \in UserIds : /\ InsertRow(u, DefaultName)
                          /\ login' = [login EXCEPT ![c].user = u]
                          /\ selfMade' = selfMade \cup {u}
    /\ pc' = [pc EXCEPT ![c] = "open_new"]
    /\ UNCHANGED <<sessions, sessionEnv, sid, tool, crashes, signedWith,
                   lastEnv, abandoned, interrupted>>

\* The INSERT of create_user, of a row made by connection c itself.
Register(c) ==
    /\ \E u \in UserIds : /\ InsertRow(u, DefaultName)
                          /\ login' = [login EXCEPT ![c].user = u]
                          /\ selfMade' = selfMade \cup {u}
    /\ pc' = [pc EXCEPT ![c] = "bind"]
    /\ UNCHANGED <<sessions, sessionEnv, sid, tool, crashes, signedWith,
                   lastEnv, abandoned, interrupted>>

\* Seeded fault: the table has no UNIQUE constraint.
AuthInsertTwice(c) == pc[c] = "insert" /\ Register(c)

\* create_user, the INSERT: the UNIQUE constraint decides.
AuthInsert(c) ==
    /\ pc[c] = "insert"
    /\ \/ NameTaken(DefaultName) /\ Fail(c) /\ UNCHANGED interrupted
       \/ ~NameTaken(DefaultName) /\ Register(c)

\* set_user_fingerprint: no row is updated when the administrator removed it.
AuthBind(c) ==
    /\ pc[c] = "bind"
    /\ LET u == login[c].user IN
       IF users[u] = Absent
       THEN Fail(c) /\ UNCHANGED interrupted
       ELSE /\ users' = [users EXCEPT ![u].fp = login[c].fp]
            /\ pc' = [pc EXCEPT ![c] = "open_new"]
            /\ UNCHANGED <<sessions, sessionEnv, sid, tool, login, crashes, history>>

\* Seeded fault: Auth keeps the session the connection already has.
AuthOpenReusing(c) ==
    /\ pc[c] \in {"open_new", "open_known"}
    /\ \E s \in SessionIds :
         /\ s \notin issued \/ s = sid[c]
         /\ sessions' = [sessions EXCEPT ![s] =
                           [user |-> login[c].user, tool |-> NoTool, expired |-> FALSE]]
         /\ issued' = issued \cup {s}
         /\ signedWith' = [signedWith EXCEPT ![s] = login[c].fp]
         /\ sid' = [sid EXCEPT ![c] = s]
    /\ tool' = [tool EXCEPT ![c] = DefaultTool]
    /\ lastEnv' = [lastEnv EXCEPT ![c] = NoEnv]
    /\ IF pc[c] = "open_new"
       THEN /\ pc' = [pc EXCEPT ![c] = "ready"]
            /\ login' = [login EXCEPT ![c] = NoLogin]
       ELSE /\ pc' = [pc EXCEPT ![c] = "touch"]
            /\ UNCHANGED login
    /\ UNCHANGED <<users, sessionEnv, crashes, abandoned, selfMade, interrupted>>

\* create_session and the two assignments after it.  A session the connection
\* already had is forgotten, not removed.
AuthOpen(c) ==
    /\ pc[c] \in {"open_new", "open_known"}
    /\ \E s \in SessionIds \ issued :
         /\ sessions' = [sessions EXCEPT ![s] =
                           [user |-> login[c].user, tool |-> NoTool, expired |-> FALSE]]
         /\ issued' = issued \cup {s}
         /\ signedWith' = [signedWith EXCEPT ![s] = login[c].fp]
         /\ sid' = [sid EXCEPT ![c] = s]
    /\ tool' = [tool EXCEPT ![c] = DefaultTool]
    /\ lastEnv' = [lastEnv EXCEPT ![c] = NoEnv]
    /\ abandoned' = abandoned \cup ({sid[c]} \ {NoSession})
    /\ IF pc[c] = "open_new"
       THEN /\ pc' = [pc EXCEPT ![c] = "ready"]
            /\ login' = [login EXCEPT ![c] = NoLogin]
       ELSE /\ pc' = [pc EXCEPT ![c] = "touch"]
            /\ UNCHANGED login
    /\ UNCHANGED <<users, sessionEnv, crashes, selfMade, interrupted>>

\* update_last_login, for a client that was known: an error when its row has
\* been removed since the lookup.
AuthTouch(c) ==
    /\ pc[c] = "touch"
    /\ IF users[login[c].user] = Absent
       THEN Fail(c) /\ UNCHANGED interrupted
       ELSE Goto(c, "ready") /\ login' = [login EXCEPT ![c] = NoLogin]

\* Any other error of a query or of the token: `?` leaves the connection.
AuthError(c) ==
    /\ pc[c] \in AuthSteps \ {"name"}
    /\ Fail(c)
    /\ interrupted' = IF pc[c] = "bind" THEN interrupted \cup {login[c].user}
                                        ELSE interrupted

-----------------------------------------------------------------------------
(* The messages that change state in one step.                             *)

\* SetEnv needs a session id, not a live session.
SetEnv(c, e) ==
    /\ pc[c] = "ready"
    /\ sid[c] # NoSession
    /\ sessionEnv' = [sessionEnv EXCEPT ![sid[c]] = e]
    /\ lastEnv' = [lastEnv EXCEPT ![c] = e]
    /\ UNCHANGED <<users, sessions, pc, sid, tool, login, crashes, issued,
                   signedWith, abandoned, selfMade, interrupted>>

\* SelectTool of a tool with an adapter; of any other it only replies.
SelectTool(c, t) ==
    /\ pc[c] = "ready"
    /\ t \in Adapters
    /\ tool' = [tool EXCEPT ![c] = t]
    /\ sessions' = [s \in SessionIds |->
                      IF s = sid[c] /\ Present(s)
                      THEN [sessions[s] EXCEPT !.tool = t] ELSE sessions[s]]
    /\ UNCHANGED <<users, sessionEnv, pc, sid, login, crashes, history>>

\* Usage asks for the session; get_session removes one that has expired.  The
\* connection keeps the id, and the environment stays.
Usage(c) ==
    /\ pc[c] = "ready"
    /\ Present(sid[c])
    /\ sessions[sid[c]].expired
    /\ sessions' = [sessions EXCEPT ![sid[c]] = Gone]
    /\ UNCHANGED <<users, sessionEnv, pc, sid, tool, login, crashes, history>>

\* Disconnect ends the session; the connection may go on and Auth again.
Disconnect(c) ==
    /\ pc[c] = "ready"
    /\ sid[c] # NoSession
    /\ DropEntries(sid[c])
    /\ sid' = [sid EXCEPT ![c] = NoSession]
    /\ lastEnv' = [lastEnv EXCEPT ![c] = NoEnv]
    /\ UNCHANGED <<users, pc, tool, login, crashes, issued, signedWith,
                   abandoned, selfMade, interrupted>>

-----------------------------------------------------------------------------
(* What no connection does.                                                *)

\* The clock passes a session's expires_at.
Expire(s) ==
    /\ Present(s)
    /\ ~sessions[s].expired
    /\ sessions' = [sessions EXCEPT ![s].expired = TRUE]
    /\ UNCHANGED <<users, sessionEnv, pc, sid, tool, login, crashes, history>>

\* `polyglot-server user add`, another process on the same database.
AdminAdd(n) ==
    /\ ~NameTaken(n)
    /\ \E u \in UserIds : InsertRow(u, n)
    /\ UNCHANGED <<sessions, sessionEnv, pc, sid, tool, login, crashes,
                   signedWith, lastEnv, abandoned, selfMade, interrupted>>

\* `polyglot-server user remove`.
AdminRemove(u) ==
    /\ u \in Rows
    /\ users' = [users EXCEPT ![u] = Absent]
    /\ UNCHANGED <<sessions, sessionEnv, pc, sid, tool, login, crashes, history>>

\* The process dies, or shuts down without waiting for its tasks, and starts
\* again: the user table is all that survives.
Crash ==
    /\ crashes < MaxCrashes
    /\ crashes' = crashes + 1
    /\ sessions' = [s \in SessionIds |-> Gone]
    /\ sessionEnv' = [s \in SessionIds |-> NoEnv]
    /\ pc' = [c \in Conns |-> "down"]
    /\ sid' = [c \in Conns |-> NoSession]
    /\ tool' = [c \in Conns |-> NoTool]
    /\ login' = [c \in Conns |-> NoLogin]
    /\ lastEnv' = [c \in Conns |-> NoEnv]
    /\ abandoned' = {}
    /\ interrupted' = interrupted \cup
         {u \in UserIds : \E c \in Conns : pc[c] = "bind" /\ login[c].user = u}
    /\ UNCHANGED <<users, issued, signedWith, selfMade>>

Auth(c) ==
    \/ \E f \in Fingerprints : AuthLookup(c, f)
    \/ AuthMode(c)
    \/ AuthName(c)
    \/ AuthInsert(c)
    \/ AuthBind(c)
    \/ AuthOpen(c)
    \/ AuthTouch(c)
    \/ AuthError(c)

Handle(c) ==
    \/ Auth(c)
    \/ \E e \in EnvValues : SetEnv(c, e)
    \/ \E t \in Adapters : SelectTool(c, t)
    \/ Usage(c)
    \/ Disconnect(c)

Next ==
    \/ \E c \in Conns : Accept(c) \/ Handle(c) \/ CloseStream(c) \/ BreakStream(c)
    \/ \E s \in SessionIds : Expire(s)
    \/ \E n \in Names : AdminAdd(n)
    \/ \E u \in UserIds : AdminRemove(u)
    \/ Crash

Spec == Init /\ [][Next]_vars

-----------------------------------------------------------------------------
(* Every variable has its type. *)
TypeOK ==
    /\ users \in [UserIds -> UserRow \cup {Absent}]
    /\ sessions \in [SessionIds -> Session \cup {Gone}]
    /\ sessionEnv \in [SessionIds -> EnvValues \cup {NoEnv}]
    /\ pc \in [Conns -> {"down", "ready"} \cup AuthSteps]
    /\ sid \in [Conns -> SessionIds \cup {NoSession}]
    /\ tool \in [Conns -> ToolValues]
    /\ login \in [Conns -> [fp : Fingerprints \cup {NoFp}, user : UserIds \cup {NoUser}]]
    /\ crashes \in 0..MaxCrashes
    /\ issued \subseteq UserIds \cup SessionIds
    /\ signedWith \in [SessionIds -> Fingerprints \cup {NoFp}]
    /\ lastEnv \in [Conns -> EnvValues \cup {NoEnv}]
    /\ abandoned \subseteq SessionIds
    /\ selfMade \subseteq UserIds
    /\ interrupted \subseteq UserIds

(* A prompt runs with the environment its own connection set last since it
   opened its session, and with none before: the environment map is shared, and
   no other connection's SetEnv, sign-off, expiry or failure shows through it
   (the Prompt arm of handle_message). *)
EnvIsolation == \A c \in Conns : EnvOf(c) = lastEnv[c]

(* The tool a session records is the tool its connection prompts with: the two
   copies that SelectTool writes never disagree. *)
SelectionMirrored ==
    \A c \in Conns : Present(sid[c]) =>
        sessions[sid[c]].tool \in {NoTool, tool[c]}

(* Whatever is in the two maps belongs to an open connection, or was given up
   by one that signed in twice or ended with an error: the clean ways out
   (Disconnect, end of stream) leave nothing behind. *)
HeldOrAbandoned ==
    \A s \in SessionIds : sessions[s] # Gone \/ sessionEnv[s] # NoEnv =>
        s \in abandoned \/ \E c \in Conns : sid[c] = s

(* A live session belongs to the user who presented its certificate: as long
   as that user's row exists it carries the fingerprint the session was opened
   with, whatever registrations and removals ran in between. *)
OwnerHasCert ==
    \A s \in SessionIds : Present(s) =>
        LET u == sessions[s].user IN
        users[u] # Absent => users[u].fp = signedWith[s]

(* Of clients that register at the same time one becomes the default user: two
   rows never carry a certificate, although the count, the name check and the
   insert are separate queries. *)
OneCertificate ==
    \A u, v \in Rows : users[u].fp # NoFp /\ users[v].fp # NoFp => u = v

(* A certificate stands for one user, in the table and in the sessions. *)
CertificateIdentifies == OneCertificate /\ OwnerHasCert

(* A self-registered row without a certificate is one whose registration is
   under way or was cut off between its two writes. *)
HalfRegistered ==
    \A u \in Rows \cap selfMade :
        users[u].fp = NoFp =>
            \/ u \in interrupted
            \/ \E c \in Conns : pc[c] = "bind" /\ login[c].user = u

EndedByOwner(s) ==
    \/ crashes' # crashes
    \/ \E c \in Conns : sid[c] = s /\ (sid'[c] # s \/ sessions[s].expired)
OthersKeep ==
    \A s \in SessionIds : sessions[s] # Gone /\ sessions'[s] = Gone => EndedByOwner(s)

(* A session ends by its own connection or with the process: no step of
   another connection, of the administrator or of the clock removes it. *)
OwnerEnds == [][OthersKeep]_vars
=============================================================================
