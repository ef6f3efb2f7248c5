------------------------ MODULE ServerSessionsProofs ------------------------
(***************************************************************************)
(* Proofs about ServerSessions, for any number of connections, users,      *)
(* sessions, fingerprints and environments.                                *)
(***************************************************************************)
EXTENDS ServerSessions, TLAPS

(* A task that has ended holds nothing; one that is in the middle of Auth has
   the fingerprint it was sent. *)
LocalState ==
    /\ \A c \in Conns : pc[c] = "down" => sid[c] = NoSession
    /\ \A c \in Conns : pc[c] \in AuthSteps => login[c].fp \in Fingerprints

(* A uuid in use has been issued, and a session uuid has one holder. *)
Fresh ==
    /\ Rows \subseteq issued
    /\ selfMade \subseteq issued
    /\ \A s \in SessionIds : sessions[s] # Gone \/ sessionEnv[s] # NoEnv => s \in issued
    /\ \A c \in Conns : sid[c] # NoSession => sid[c] \in issued
    /\ \A c, d \in Conns : sid[c] = sid[d] /\ sid[c] # NoSession => c = d

(* The user a handler is about to bind is its own, named "default" and without
   a certificate; the one it opens a session for has the certificate sent. *)
Registration ==
    \A c \in Conns :
        /\ pc[c] = "bind" =>
              /\ login[c].user \in UserIds \cap issued
              /\ users[login[c].user] # Absent =>
                    users[login[c].user] = [name |-> DefaultName, fp |-> NoFp]
              /\ \A d \in Conns : pc[d] = "bind" /\ login[d].user = login[c].user => c = d
        /\ pc[c] \in {"open_new", "open_known", "touch"} =>
              /\ login[c].user \in UserIds \cap issued
              /\ users[login[c].user] # Absent => users[login[c].user].fp = login[c].fp

(* The user table: names are unique, and only "default" has a certificate. *)
Table ==
    /\ \A u, v \in Rows : users[u].name = users[v].name => u = v
    /\ \A u \in Rows : users[u].fp # NoFp => users[u].name = DefaultName

(* A session was opened with a certificate, for a user that had been issued. *)
Owned ==
    \A s \in SessionIds : Present(s) =>
        signedWith[s] \in Fingerprints /\ sessions[s].user \in issued

(* What a failing handler records of a registration it cuts off. *)
Accounted(c) ==
    /\ interrupted' \in {interrupted, interrupted \cup {login[c].user}}
    /\ pc[c] # "bind" => UNCHANGED interrupted
    /\ pc[c] = "bind" /\ users[login[c].user] # Absent =>
          login[c].user \in interrupted'

(* The inductive invariant: the stated properties and what they rest on. *)
IInv ==
    /\ TypeOK
    /\ LocalState
    /\ Fresh
    /\ Registration
    /\ Table
    /\ Owned
    /\ EnvIsolation
    /\ SelectionMirrored
    /\ HeldOrAbandoned
    /\ OwnerHasCert
    /\ HalfRegistered

(* A new connection holds nothing yet. *)
LEMMA AcceptStep ==
    ASSUME IInv, NEW c \in Conns, Accept(c)
    PROVE  IInv'
<1> USE SentinelAssumption, NamesAssumption DEF IInv, shared, history
<1>1. TypeOK'
  BY DEF Accept, TypeOK
<1>2. LocalState'
  BY DEF Accept, TypeOK, LocalState, AuthSteps, NoLogin
<1>3. Fresh'
  BY DEF Accept, Fresh, Rows
<1>4. Registration'
  BY DEF Accept, Registration
<1>5. Table'
  BY DEF Accept, Table, Rows
<1>6. Owned'
  BY DEF Accept, Owned, Present
<1>7. EnvIsolation'
  BY DEF Accept, EnvIsolation, EnvOf
<1>8. SelectionMirrored'
  BY DEF Accept, SelectionMirrored, Present
<1>9. HeldOrAbandoned'
  BY DEF Accept, HeldOrAbandoned
<1>10. OwnerHasCert'
  BY DEF Accept, OwnerHasCert, Present
<1>11. HalfRegistered'
  BY DEF Accept, HalfRegistered, Rows
<1> QED BY <1>1, <1>2, <1>3, <1>4, <1>5, <1>6, <1>7, <1>8, <1>9, <1>10, <1>11 DEF IInv

(* A handler that fails leaves both maps alone; what it held is recorded as
   abandoned, and a registration it cut off as interrupted. *)
LEMMA FailStep ==
    ASSUME IInv, NEW c \in Conns, Fail(c), Accounted(c)
    PROVE  IInv'
<1> USE SentinelAssumption, NamesAssumption DEF IInv, shared, history
<1>1. TypeOK'
  <2>1. interrupted' \subseteq UserIds
    BY DEF TypeOK, Registration, Accounted
  <2> QED BY <2>1 DEF TypeOK, Fail, EndTask, AuthSteps, NoLogin, ToolValues
<1>2. LocalState'
  BY DEF Fail, EndTask, Accounted, TypeOK, LocalState, AuthSteps, NoLogin
<1>3. Fresh'
  BY DEF Fail, EndTask, Accounted, Fresh, Rows
<1>4. Registration'
  BY DEF Fail, EndTask, Accounted, TypeOK, Registration
<1>5. Table'
  BY DEF Fail, EndTask, Accounted, Table, Rows
<1>6. Owned'
  BY DEF Fail, EndTask, Accounted, Owned, Present
<1>7. EnvIsolation'
  BY DEF Fail, EndTask, Accounted, TypeOK, EnvIsolation, EnvOf
<1>8. SelectionMirrored'
  BY DEF Fail, EndTask, Accounted, TypeOK, SelectionMirrored, Present
<1>9. HeldOrAbandoned'
  BY DEF Fail, EndTask, Accounted, HeldOrAbandoned
<1>10. OwnerHasCert'
  BY DEF Fail, EndTask, Accounted, OwnerHasCert, Present
<1>11. HalfRegistered'
  BY DEF Fail, EndTask, Accounted, HalfRegistered, Rows
<1> QED BY <1>1, <1>2, <1>3, <1>4, <1>5, <1>6, <1>7, <1>8, <1>9, <1>10, <1>11 DEF IInv

(* The cleanup at the end of handle_connection removes the session the task
   held, and no other (Fresh: it has one holder). *)
LEMMA CloseStreamStep ==
    ASSUME IInv, NEW c \in Conns, CloseStream(c)
    PROVE  IInv'
<1> USE SentinelAssumption, NamesAssumption DEF IInv, shared, history
<1>1. TypeOK'
  BY DEF CloseStream, EndTask, DropEntries, TypeOK, Session, ToolValues, AuthSteps,
     NoLogin
<1>2. LocalState'
  BY DEF CloseStream, EndTask, DropEntries, TypeOK, LocalState, AuthSteps, NoLogin
<1>3. Fresh'
  BY DEF CloseStream, EndTask, DropEntries, Fresh, Rows
<1>4. Registration'
  BY DEF CloseStream, EndTask, DropEntries, Registration
<1>5. Table'
  BY DEF CloseStream, EndTask, DropEntries, Table, Rows
<1>6. Owned'
  BY DEF CloseStream, EndTask, DropEntries, Owned, Present
<1>7. EnvIsolation'
  BY DEF CloseStream, EndTask, DropEntries, EnvIsolation, EnvOf, Fresh, LocalState,
     TypeOK
<1>8. SelectionMirrored'
  BY DEF CloseStream, EndTask, DropEntries, SelectionMirrored, Present
<1>9. HeldOrAbandoned'
  BY DEF CloseStream, EndTask, DropEntries, HeldOrAbandoned
<1>10. OwnerHasCert'
  BY DEF CloseStream, EndTask, DropEntries, OwnerHasCert, Present
<1>11. HalfRegistered'
  BY DEF CloseStream, EndTask, DropEntries, HalfRegistered, Rows
<1> QED BY <1>1, <1>2, <1>3, <1>4, <1>5, <1>6, <1>7, <1>8, <1>9, <1>10, <1>11 DEF IInv

(* get_user_by_fingerprint found a row with this certificate, or none. *)
LEMMA AuthLookupStep ==
    ASSUME IInv, NEW c \in Conns, NEW f \in Fingerprints, AuthLookup(c, f)
    PROVE  IInv'
<1> USE SentinelAssumption, NamesAssumption DEF IInv, shared, history
<1>1. TypeOK'
  <2>1. login' \in [Conns -> [fp : Fingerprints \cup {NoFp}, user : UserIds \cup {NoUser}]]
    BY DEF TypeOK, AuthLookup, Rows
  <2>2. pc' \in [Conns -> {"down", "ready"} \cup AuthSteps]
    BY <2>1 DEF TypeOK, AuthLookup, AuthSteps
  <2> QED BY <2>1, <2>2 DEF TypeOK, AuthLookup
<1>2. LocalState'
  BY DEF AuthLookup, TypeOK, LocalState
<1>3. Fresh'
  BY DEF AuthLookup, Fresh, Rows
<1>4. Registration'
  BY DEF AuthLookup, TypeOK, Registration, Fresh, Rows, LocalState, AuthSteps,
     UserRow, NoLogin
<1>5. Table'
  BY DEF AuthLookup, Table, Rows
<1>6. Owned'
  BY DEF AuthLookup, Owned, Present
<1>7. EnvIsolation'
  BY DEF AuthLookup, EnvIsolation, EnvOf
<1>8. SelectionMirrored'
  BY DEF AuthLookup, SelectionMirrored, Present
<1>9. HeldOrAbandoned'
  BY DEF AuthLookup, HeldOrAbandoned
<1>10. OwnerHasCert'
  BY DEF AuthLookup, OwnerHasCert, Present
<1>11. HalfRegistered'
  BY DEF AuthLookup, TypeOK, HalfRegistered, Rows
<1> QED BY <1>1, <1>2, <1>3, <1>4, <1>5, <1>6, <1>7, <1>8, <1>9, <1>10, <1>11 DEF IInv

(* is_single_user_mode changes only where the handler goes on. *)
LEMMA AuthModeStep ==
    ASSUME IInv, NEW c \in Conns, AuthMode(c)
    PROVE  IInv'
<1> USE SentinelAssumption, NamesAssumption DEF IInv, shared, history
<1>1. TypeOK'
  <2>1. login' \in [Conns -> [fp : Fingerprints \cup {NoFp}, user : UserIds \cup {NoUser}]]
    BY DEF TypeOK, AuthMode, Goto, NoLogin
  <2>2. \/ pc' = [pc EXCEPT ![c] = "name"]
        \/ pc' = [pc EXCEPT ![c] = "ready"]
    BY <2>1 DEF AuthMode, Goto
  <2>3. pc' \in [Conns -> {"down", "ready"} \cup AuthSteps]
    BY <2>2 DEF TypeOK, AuthSteps
  <2> QED BY <2>1, <2>2, <2>3 DEF TypeOK, AuthMode, Goto
<1>2. LocalState'
  BY DEF AuthMode, Goto, TypeOK, LocalState, AuthSteps, NoLogin
<1>3. Fresh'
  BY DEF AuthMode, Goto, Fresh, Rows
<1>4. Registration'
  <2>1. UNCHANGED <<users, issued>>
    BY DEF AuthMode, Goto
  <2>2. \/ pc' = [pc EXCEPT ![c] = "name"] /\ UNCHANGED login
        \/ pc' = [pc EXCEPT ![c] = "ready"] /\ login' = [login EXCEPT ![c] = NoLogin]
    BY <2>1 DEF AuthMode, Goto
  <2> QED BY SMTT(30), <2>1, <2>2 DEF TypeOK, Registration, NoLogin, AuthSteps
<1>5. Table'
  BY DEF AuthMode, Goto, Table, Rows
<1>6. Owned'
  BY DEF AuthMode, Goto, Owned, Present
<1>7. EnvIsolation'
  BY DEF AuthMode, Goto, EnvIsolation, EnvOf
<1>8. SelectionMirrored'
  BY DEF AuthMode, Goto, SelectionMirrored, Present
<1>9. HeldOrAbandoned'
  BY DEF AuthMode, Goto, HeldOrAbandoned
<1>10. OwnerHasCert'
  BY DEF AuthMode, Goto, OwnerHasCert, Present
<1>11. HalfRegistered'
  BY DEF AuthMode, Goto, TypeOK, HalfRegistered, Rows
<1> QED BY <1>1, <1>2, <1>3, <1>4, <1>5, <1>6, <1>7, <1>8, <1>9, <1>10, <1>11 DEF IInv

(* The name check of create_user changes only where the handler goes on. *)
LEMMA AuthNameStep ==
    ASSUME IInv, NEW c \in Conns, pc[c] = "name", Goto(c, "insert"), UNCHANGED login
    PROVE  IInv'
<1> USE SentinelAssumption, NamesAssumption DEF IInv, shared, history
<1>1. TypeOK'
  BY DEF Goto, TypeOK, Session, ToolValues, AuthSteps, NoLogin
<1>2. LocalState'
  BY DEF Goto, TypeOK, LocalState
<1>3. Fresh'
  BY DEF Goto, Fresh, Rows
<1>4. Registration'
  BY DEF Goto, Registration
<1>5. Table'
  BY DEF Goto, Table, Rows
<1>6. Owned'
  BY DEF Goto, Owned, Present
<1>7. EnvIsolation'
  BY DEF Goto, EnvIsolation, EnvOf
<1>8. SelectionMirrored'
  BY DEF Goto, SelectionMirrored, Present
<1>9. HeldOrAbandoned'
  BY DEF Goto, HeldOrAbandoned
<1>10. OwnerHasCert'
  BY DEF Goto, OwnerHasCert, Present
<1>11. HalfRegistered'
  BY DEF Goto, HalfRegistered, Rows
<1> QED BY <1>1, <1>2, <1>3, <1>4, <1>5, <1>6, <1>7, <1>8, <1>9, <1>10, <1>11 DEF IInv

(* The INSERT adds a fresh row under a name no row has (the UNIQUE constraint). *)
LEMMA RegisterStep ==
    ASSUME IInv, NEW c \in Conns, pc[c] = "insert", ~NameTaken(DefaultName), Register(c)
    PROVE  IInv'
<1> USE SentinelAssumption, NamesAssumption DEF IInv, shared, history
<1>1. TypeOK'
  BY DEF Register, InsertRow, NameTaken, TypeOK, UserRow, Session, ToolValues,
     AuthSteps, NoLogin
<1>2. LocalState'
  BY DEF Register, InsertRow, NameTaken, TypeOK, LocalState
<1>3. Fresh'
  BY DEF Register, InsertRow, NameTaken, Fresh, Rows
<1>4. Registration'
  BY DEF Register, InsertRow, NameTaken, TypeOK, Registration
<1>5. Table'
  BY DEF Register, InsertRow, NameTaken, Table, Rows
<1>6. Owned'
  BY DEF Register, InsertRow, NameTaken, Owned, Present
<1>7. EnvIsolation'
  BY DEF Register, InsertRow, NameTaken, EnvIsolation, EnvOf
<1>8. SelectionMirrored'
  BY DEF Register, InsertRow, NameTaken, SelectionMirrored, Present
<1>9. HeldOrAbandoned'
  BY DEF Register, InsertRow, NameTaken, HeldOrAbandoned
<1>10. OwnerHasCert'
  BY SMTT(30) DEF Register, InsertRow, NameTaken, TypeOK, OwnerHasCert, Present, Owned,
     Registration, Fresh, Session, LocalState, AuthSteps
<1>11. HalfRegistered'
  BY DEF Register, InsertRow, NameTaken, TypeOK, HalfRegistered, Rows
<1> QED BY <1>1, <1>2, <1>3, <1>4, <1>5, <1>6, <1>7, <1>8, <1>9, <1>10, <1>11 DEF IInv

(* set_user_fingerprint writes to a row of its own, still without certificate. *)
LEMMA AuthBindStep ==
    ASSUME IInv, NEW c \in Conns, AuthBind(c), users[login[c].user] # Absent
    PROVE  IInv'
<1> USE SentinelAssumption, NamesAssumption DEF IInv, shared, history
<1>1. TypeOK'
  <2>1. users' \in [UserIds -> UserRow \cup {Absent}]
    BY DEF TypeOK, AuthBind, UserRow, LocalState, AuthSteps, Registration
  <2>2. pc' \in [Conns -> {"down", "ready"} \cup AuthSteps]
    BY <2>1 DEF TypeOK, AuthBind, AuthSteps
  <2> QED BY <2>1, <2>2 DEF TypeOK, AuthBind
<1>2. LocalState'
  BY DEF AuthBind, TypeOK, LocalState
<1>3. Fresh'
  BY DEF AuthBind, TypeOK, Fresh, Rows
<1>4. Registration'
  <2>1. login[c].user \in UserIds /\ login[c].fp \in Fingerprints
    BY DEF TypeOK, AuthBind, LocalState, Registration, AuthSteps
  <2>2. \A u \in UserIds : users'[u] # Absent =>
           users[u] # Absent /\ (u # login[c].user => users'[u] = users[u])
    BY <2>1 DEF TypeOK, AuthBind
  <2>3. users[login[c].user] = [name |-> DefaultName, fp |-> NoFp]
    BY <2>2 DEF AuthBind, Registration
  <2>4. users' = [users EXCEPT ![login[c].user] = [name |-> DefaultName, fp |-> login[c].fp]]
    BY <2>3 DEF TypeOK, AuthBind
  <2>5. /\ pc' = [pc EXCEPT ![c] = "open_new"]
        /\ UNCHANGED <<login, issued>>
    BY <2>4 DEF AuthBind
  <2> QED BY <2>1, <2>2, <2>3, <2>4, <2>5 DEF TypeOK, Registration, LocalState,
     AuthSteps, AuthBind
<1>5. Table'
  <2>1. users' = [users EXCEPT ![login[c].user] = [name |-> DefaultName, fp |-> login[c].fp]]
    BY DEF TypeOK, AuthBind, Registration
  <2> QED BY <2>1 DEF TypeOK, AuthBind, Registration, Table, Rows, LocalState
<1>6. Owned'
  BY DEF AuthBind, Owned, Present
<1>7. EnvIsolation'
  BY DEF AuthBind, EnvIsolation, EnvOf
<1>8. SelectionMirrored'
  BY DEF AuthBind, SelectionMirrored, Present
<1>9. HeldOrAbandoned'
  BY DEF AuthBind, HeldOrAbandoned
<1>10. OwnerHasCert'
  BY SMTT(30) DEF AuthBind, TypeOK, OwnerHasCert, Present, Owned, Registration, Fresh,
     Session, LocalState, AuthSteps
<1>11. HalfRegistered'
  BY DEF AuthBind, TypeOK, HalfRegistered, Rows, Registration, Fresh, UserRow,
     LocalState, AuthSteps
<1> QED BY <1>1, <1>2, <1>3, <1>4, <1>5, <1>6, <1>7, <1>8, <1>9, <1>10, <1>11 DEF IInv

(* create_session hands out a fresh uuid, for the user the certificate is of. *)
LEMMA AuthOpenStep ==
    ASSUME IInv, NEW c \in Conns, AuthOpen(c)
    PROVE  IInv'
<1> USE SentinelAssumption, NamesAssumption DEF IInv, shared, history
<1>1. TypeOK'
  <2>1. login' \in [Conns -> [fp : Fingerprints \cup {NoFp}, user : UserIds \cup {NoUser}]]
    BY DEF TypeOK, AuthOpen, NoLogin
  <2>2. \/ pc' = [pc EXCEPT ![c] = "ready"]
        \/ pc' = [pc EXCEPT ![c] = "touch"]
    BY <2>1 DEF AuthOpen
  <2>3. pc' \in [Conns -> {"down", "ready"} \cup AuthSteps]
    BY <2>2 DEF TypeOK, AuthSteps
  <2>4. sessions' \in [SessionIds -> Session \cup {Gone}]
    BY <2>3 DEF TypeOK, AuthOpen, Session, Registration
  <2> QED BY <2>1, <2>2, <2>3, <2>4 DEF TypeOK, AuthOpen, ToolValues
<1>2. LocalState'
  BY DEF AuthOpen, TypeOK, LocalState, AuthSteps, NoLogin
<1>3. Fresh'
  BY DEF AuthOpen, Fresh, Rows
<1>4. Registration'
  <2>1. /\ issued \subseteq issued' /\ UNCHANGED users
    BY DEF AuthOpen
  <2>2. \/ pc' = [pc EXCEPT ![c] = "ready"] /\ login' = [login EXCEPT ![c] = NoLogin]
        \/ pc[c] = "open_known" /\ pc' = [pc EXCEPT ![c] = "touch"] /\ UNCHANGED login
    BY <2>1 DEF AuthOpen
  <2> QED BY <2>1, <2>2 DEF TypeOK, Registration, NoLogin, AuthSteps
<1>5. Table'
  BY DEF AuthOpen, Table, Rows
<1>6. Owned'
  BY DEF AuthOpen, TypeOK, Owned, Present, Fresh, Registration, LocalState,
     AuthSteps, Session
<1>7. EnvIsolation'
  BY DEF AuthOpen, EnvIsolation, EnvOf, Fresh, LocalState, TypeOK
<1>8. SelectionMirrored'
  BY DEF AuthOpen, TypeOK, SelectionMirrored, Present
<1>9. HeldOrAbandoned'
  BY DEF AuthOpen, TypeOK, HeldOrAbandoned
<1>10. OwnerHasCert'
  BY DEF AuthOpen, TypeOK, OwnerHasCert, Present, Owned, Registration, Fresh,
     Session, LocalState, AuthSteps
<1>11. HalfRegistered'
  BY DEF AuthOpen, TypeOK, HalfRegistered, Rows
<1> QED BY <1>1, <1>2, <1>3, <1>4, <1>5, <1>6, <1>7, <1>8, <1>9, <1>10, <1>11 DEF IInv

(* update_last_login changes nothing modelled. *)
LEMMA AuthTouchStep ==
    ASSUME IInv, NEW c \in Conns, AuthTouch(c), users[login[c].user] # Absent
    PROVE  IInv'
<1> USE SentinelAssumption, NamesAssumption DEF IInv, shared, history
<1>1. TypeOK'
  <2>1. login' \in [Conns -> [fp : Fingerprints \cup {NoFp}, user : UserIds \cup {NoUser}]]
    BY DEF TypeOK, AuthTouch, Goto, NoLogin
  <2>2. pc' \in [Conns -> {"down", "ready"} \cup AuthSteps]
    BY <2>1 DEF TypeOK, AuthTouch, Goto, AuthSteps
  <2> QED BY <2>1, <2>2 DEF TypeOK, AuthTouch, Goto
<1>2. LocalState'
  BY DEF AuthTouch, Goto, TypeOK, LocalState, AuthSteps, NoLogin
<1>3. Fresh'
  BY DEF AuthTouch, Goto, Fresh, Rows
<1>4. Registration'
  <2>1. /\ UNCHANGED <<users, issued>>
        /\ pc' = [pc EXCEPT ![c] = "ready"]
        /\ login' = [login EXCEPT ![c] = NoLogin]
    BY DEF AuthTouch, Goto
  <2> QED BY <2>1 DEF TypeOK, Registration, NoLogin, AuthSteps
<1>5. Table'
  BY DEF AuthTouch, Goto, Table, Rows
<1>6. Owned'
  BY DEF AuthTouch, Goto, Owned, Present
<1>7. EnvIsolation'
  BY DEF AuthTouch, Goto, EnvIsolation, EnvOf
<1>8. SelectionMirrored'
  BY DEF AuthTouch, Goto, SelectionMirrored, Present
<1>9. HeldOrAbandoned'
  BY DEF AuthTouch, Goto, HeldOrAbandoned
<1>10. OwnerHasCert'
  BY DEF AuthTouch, Goto, OwnerHasCert, Present
<1>11. HalfRegistered'
  BY DEF AuthTouch, Goto, TypeOK, HalfRegistered, Rows
<1> QED BY <1>1, <1>2, <1>3, <1>4, <1>5, <1>6, <1>7, <1>8, <1>9, <1>10, <1>11 DEF IInv

(* SetEnv writes under the connection's own session id. *)
LEMMA SetEnvStep ==
    ASSUME IInv, NEW c \in Conns, NEW e \in EnvValues, SetEnv(c, e)
    PROVE  IInv'
<1> USE SentinelAssumption, NamesAssumption DEF IInv, shared, history
<1>1. TypeOK'
  BY DEF SetEnv, TypeOK
<1>2. LocalState'
  BY DEF SetEnv, LocalState
<1>3. Fresh'
  BY DEF SetEnv, Fresh, Rows
<1>4. Registration'
  BY DEF SetEnv, Registration
<1>5. Table'
  BY DEF SetEnv, Table, Rows
<1>6. Owned'
  BY DEF SetEnv, Owned, Present
<1>7. EnvIsolation'
  BY DEF SetEnv, EnvIsolation, EnvOf, Fresh, LocalState, TypeOK
<1>8. SelectionMirrored'
  BY DEF SetEnv, SelectionMirrored, Present
<1>9. HeldOrAbandoned'
  BY DEF SetEnv, HeldOrAbandoned
<1>10. OwnerHasCert'
  BY DEF SetEnv, OwnerHasCert, Present
<1>11. HalfRegistered'
  BY DEF SetEnv, HalfRegistered, Rows
<1> QED BY <1>1, <1>2, <1>3, <1>4, <1>5, <1>6, <1>7, <1>8, <1>9, <1>10, <1>11 DEF IInv

(* SelectTool writes both copies of the selection. *)
LEMMA SelectToolStep ==
    ASSUME IInv, NEW c \in Conns, NEW t \in Adapters, SelectTool(c, t)
    PROVE  IInv'
<1> USE SentinelAssumption, NamesAssumption DEF IInv, shared, history
<1>1. TypeOK'
  <2>1. sessions' \in [SessionIds -> Session \cup {Gone}]
    BY DEF TypeOK, SelectTool, Session, Present
  <2> QED BY <2>1 DEF TypeOK, SelectTool, ToolValues
<1>2. LocalState'
  BY DEF SelectTool, LocalState
<1>3. Fresh'
  BY DEF SelectTool, Fresh, Rows
<1>4. Registration'
  BY DEF SelectTool, Registration
<1>5. Table'
  BY DEF SelectTool, Table, Rows
<1>6. Owned'
  BY DEF SelectTool, Owned, Present
<1>7. EnvIsolation'
  BY DEF SelectTool, EnvIsolation, EnvOf
<1>8. SelectionMirrored'
  BY DEF SelectTool, SelectionMirrored, Present, Fresh, LocalState, TypeOK
<1>9. HeldOrAbandoned'
  BY DEF SelectTool, HeldOrAbandoned
<1>10. OwnerHasCert'
  BY DEF SelectTool, OwnerHasCert, Present
<1>11. HalfRegistered'
  BY DEF SelectTool, HalfRegistered, Rows
<1> QED BY <1>1, <1>2, <1>3, <1>4, <1>5, <1>6, <1>7, <1>8, <1>9, <1>10, <1>11 DEF IInv

(* get_session removes an expired session; its environment stays held. *)
LEMMA UsageStep ==
    ASSUME IInv, NEW c \in Conns, Usage(c)
    PROVE  IInv'
<1> USE SentinelAssumption, NamesAssumption DEF IInv, shared, history
<1>1. TypeOK'
  BY DEF Usage, TypeOK
<1>2. LocalState'
  BY DEF Usage, LocalState
<1>3. Fresh'
  BY DEF Usage, Fresh, Rows
<1>4. Registration'
  BY DEF Usage, Registration
<1>5. Table'
  BY DEF Usage, Table, Rows
<1>6. Owned'
  BY DEF Usage, Owned, Present
<1>7. EnvIsolation'
  BY DEF Usage, EnvIsolation, EnvOf
<1>8. SelectionMirrored'
  BY DEF Usage, SelectionMirrored, Present
<1>9. HeldOrAbandoned'
  BY DEF Usage, HeldOrAbandoned
<1>10. OwnerHasCert'
  BY DEF Usage, OwnerHasCert, Present
<1>11. HalfRegistered'
  BY DEF Usage, HalfRegistered, Rows
<1> QED BY <1>1, <1>2, <1>3, <1>4, <1>5, <1>6, <1>7, <1>8, <1>9, <1>10, <1>11 DEF IInv

(* Disconnect removes the connection's own session and environment. *)
LEMMA DisconnectStep ==
    ASSUME IInv, NEW c \in Conns, Disconnect(c)
    PROVE  IInv'
<1> USE SentinelAssumption, NamesAssumption DEF IInv, shared, history
<1>1. TypeOK'
  BY DEF Disconnect, DropEntries, TypeOK
<1>2. LocalState'
  BY DEF Disconnect, DropEntries, LocalState
<1>3. Fresh'
  BY DEF Disconnect, DropEntries, Fresh, Rows
<1>4. Registration'
  BY DEF Disconnect, DropEntries, Registration
<1>5. Table'
  BY DEF Disconnect, DropEntries, Table, Rows
<1>6. Owned'
  BY DEF Disconnect, DropEntries, Owned, Present
<1>7. EnvIsolation'
  BY DEF Disconnect, DropEntries, EnvIsolation, EnvOf, Fresh, LocalState, TypeOK
<1>8. SelectionMirrored'
  BY DEF Disconnect, DropEntries, SelectionMirrored, Present
<1>9. HeldOrAbandoned'
  BY DEF Disconnect, DropEntries, HeldOrAbandoned
<1>10. OwnerHasCert'
  BY DEF Disconnect, DropEntries, OwnerHasCert, Present
<1>11. HalfRegistered'
  BY DEF Disconnect, DropEntries, HalfRegistered, Rows
<1> QED BY <1>1, <1>2, <1>3, <1>4, <1>5, <1>6, <1>7, <1>8, <1>9, <1>10, <1>11 DEF IInv

(* Expiry alone removes nothing. *)
LEMMA ExpireStep ==
    ASSUME IInv, NEW x \in SessionIds, Expire(x)
    PROVE  IInv'
<1> USE SentinelAssumption, NamesAssumption DEF IInv, shared, history
<1>1. TypeOK'
  <2>1. sessions[x] \in Session
    BY DEF TypeOK, Expire, Present
  <2>2. [sessions[x] EXCEPT !.expired = TRUE] \in Session
    BY <2>1 DEF Session
  <2>3. sessions' \in [SessionIds -> Session \cup {Gone}]
    BY <2>2 DEF TypeOK, Expire
  <2> QED BY <2>1, <2>2, <2>3 DEF TypeOK, Expire
<1>2. LocalState'
  BY DEF Expire, LocalState
<1>3. Fresh'
  <2>1. \A s \in SessionIds : sessions'[s] # Gone => sessions[s] # Gone
    BY DEF TypeOK, Expire, Present
  <2>2. UNCHANGED <<users, sessionEnv, sid, issued, selfMade>>
    BY <2>1 DEF Expire
  <2> QED BY <2>1, <2>2 DEF Fresh, Rows
<1>4. Registration'
  BY DEF Expire, Registration
<1>5. Table'
  BY DEF Expire, Table, Rows
<1>6. Owned'
  BY DEF Expire, Owned, Present
<1>7. EnvIsolation'
  BY DEF Expire, EnvIsolation, EnvOf
<1>8. SelectionMirrored'
  BY DEF Expire, SelectionMirrored, Present
<1>9. HeldOrAbandoned'
  BY DEF Expire, TypeOK, HeldOrAbandoned, Present, LocalState
<1>10. OwnerHasCert'
  BY DEF Expire, OwnerHasCert, Present
<1>11. HalfRegistered'
  BY DEF Expire, HalfRegistered, Rows
<1> QED BY <1>1, <1>2, <1>3, <1>4, <1>5, <1>6, <1>7, <1>8, <1>9, <1>10, <1>11 DEF IInv

(* user add inserts a fresh row under a free name, without certificate. *)
LEMMA AdminAddStep ==
    ASSUME IInv, NEW n \in Names, AdminAdd(n)
    PROVE  IInv'
<1> USE SentinelAssumption, NamesAssumption DEF IInv, shared, history
<1>1. TypeOK'
  BY DEF AdminAdd, InsertRow, NameTaken, TypeOK, UserRow, Session, ToolValues,
     AuthSteps, NoLogin
<1>2. LocalState'
  BY DEF AdminAdd, InsertRow, NameTaken, LocalState
<1>3. Fresh'
  BY DEF AdminAdd, InsertRow, NameTaken, Fresh, Rows
<1>4. Registration'
  BY DEF AdminAdd, InsertRow, NameTaken, Registration
<1>5. Table'
  BY DEF AdminAdd, InsertRow, NameTaken, Table, Rows
<1>6. Owned'
  BY DEF AdminAdd, InsertRow, NameTaken, Owned, Present
<1>7. EnvIsolation'
  BY DEF AdminAdd, InsertRow, NameTaken, EnvIsolation, EnvOf
<1>8. SelectionMirrored'
  BY DEF AdminAdd, InsertRow, NameTaken, SelectionMirrored, Present
<1>9. HeldOrAbandoned'
  BY DEF AdminAdd, InsertRow, NameTaken, HeldOrAbandoned
<1>10. OwnerHasCert'
  BY DEF AdminAdd, InsertRow, NameTaken, TypeOK, OwnerHasCert, Present, Owned,
     Registration, Fresh, Session, LocalState, AuthSteps
<1>11. HalfRegistered'
  BY DEF AdminAdd, InsertRow, NameTaken, HalfRegistered, Rows, Fresh, LocalState, TypeOK
<1> QED BY <1>1, <1>2, <1>3, <1>4, <1>5, <1>6, <1>7, <1>8, <1>9, <1>10, <1>11 DEF IInv

(* user remove takes a row away; no later step brings its uuid back. *)
LEMMA AdminRemoveStep ==
    ASSUME IInv, NEW w \in UserIds, AdminRemove(w)
    PROVE  IInv'
<1> USE SentinelAssumption, NamesAssumption DEF IInv, shared, history
<1>1. TypeOK'
  BY DEF AdminRemove, TypeOK
<1>2. LocalState'
  BY DEF AdminRemove, LocalState
<1>3. Fresh'
  BY DEF AdminRemove, Fresh, Rows
<1>4. Registration'
  BY DEF AdminRemove, Registration
<1>5. Table'
  BY DEF AdminRemove, Table, Rows
<1>6. Owned'
  BY DEF AdminRemove, Owned, Present
<1>7. EnvIsolation'
  BY DEF AdminRemove, EnvIsolation, EnvOf
<1>8. SelectionMirrored'
  BY DEF AdminRemove, SelectionMirrored, Present
<1>9. HeldOrAbandoned'
  BY DEF AdminRemove, HeldOrAbandoned
<1>10. OwnerHasCert'
  BY DEF AdminRemove, OwnerHasCert, Present
<1>11. HalfRegistered'
  BY DEF AdminRemove, HalfRegistered, Rows
<1> QED BY <1>1, <1>2, <1>3, <1>4, <1>5, <1>6, <1>7, <1>8, <1>9, <1>10, <1>11 DEF IInv

(* After a crash the maps are empty and no task runs. *)
LEMMA CrashStep ==
    ASSUME IInv, Crash
    PROVE  IInv'
<1> USE SentinelAssumption, NamesAssumption DEF IInv, shared, history
<1>1. TypeOK'
  <2>1. crashes' \in 0..MaxCrashes
    BY CrashAssumption DEF TypeOK, Crash
  <2> QED BY <2>1 DEF TypeOK, Crash, NoLogin, ToolValues
<1>2. LocalState'
  BY DEF Crash, TypeOK, LocalState, AuthSteps, NoLogin
<1>3. Fresh'
  BY DEF Crash, Fresh, Rows
<1>4. Registration'
  BY DEF Crash, Registration
<1>5. Table'
  BY DEF Crash, Table, Rows
<1>6. Owned'
  BY DEF Crash, Owned, Present
<1>7. EnvIsolation'
  BY DEF Crash, EnvIsolation, EnvOf
<1>8. SelectionMirrored'
  BY DEF Crash, SelectionMirrored, Present
<1>9. HeldOrAbandoned'
  BY DEF Crash, HeldOrAbandoned
<1>10. OwnerHasCert'
  BY DEF Crash, OwnerHasCert, Present
<1>11. HalfRegistered'
  BY DEF Crash, HalfRegistered, Rows
<1> QED BY <1>1, <1>2, <1>3, <1>4, <1>5, <1>6, <1>7, <1>8, <1>9, <1>10, <1>11 DEF IInv

(* Every step keeps the invariant. *)
LEMMA NextStep ==
    ASSUME IInv, [Next]_vars
    PROVE  IInv'
<1>1. ASSUME NEW c \in Conns, Auth(c) PROVE IInv'
  <2>1. ASSUME NEW f \in Fingerprints, AuthLookup(c, f) PROVE IInv'
    BY <2>1, AuthLookupStep
  <2>2. CASE AuthMode(c)
    BY <2>2, AuthModeStep
  <2>3. CASE AuthName(c)
    BY <2>3, AuthNameStep, FailStep DEF AuthName, Accounted
  <2>4. CASE AuthInsert(c)
    BY <2>4, RegisterStep, FailStep DEF AuthInsert, Accounted
  <2>5. CASE AuthBind(c)
    BY <2>5, AuthBindStep, FailStep DEF AuthBind, Accounted
  <2>6. CASE AuthOpen(c)
    BY <2>6, AuthOpenStep
  <2>7. CASE AuthTouch(c)
    BY <2>7, AuthTouchStep, FailStep DEF AuthTouch, Accounted
  <2>8. CASE AuthError(c)
    BY <2>8, FailStep DEF AuthError, Accounted
  <2> QED BY <1>1, <2>1, <2>2, <2>3, <2>4, <2>5, <2>6, <2>7, <2>8 DEF Auth
<1>2. ASSUME NEW c \in Conns, Handle(c) PROVE IInv'
  BY <1>1, <1>2, SetEnvStep, SelectToolStep, UsageStep, DisconnectStep DEF Handle
<1>3. ASSUME NEW c \in Conns, BreakStream(c) PROVE IInv'
  BY <1>3, FailStep DEF BreakStream, Accounted
<1>4. CASE Next
  BY <1>2, <1>3, <1>4, AcceptStep, CloseStreamStep, ExpireStep, AdminAddStep,
     AdminRemoveStep, CrashStep DEF Next
<1>5. CASE UNCHANGED vars
  BY <1>5 DEF IInv, vars, shared, history, TypeOK, LocalState, Fresh, Registration,
     Table, Owned, EnvIsolation, EnvOf, SelectionMirrored, HeldOrAbandoned,
     OwnerHasCert, HalfRegistered, Rows, Present
<1> QED BY <1>4, <1>5

(* The strengthened invariant holds in every reachable state. *)
THEOREM Invariance == Spec => []IInv
<1>1. Init => IInv
  BY SentinelAssumption, CrashAssumption
  DEF Init, IInv, TypeOK, LocalState, Fresh, Registration, Table, Owned, EnvIsolation,
      EnvOf, SelectionMirrored, HeldOrAbandoned, OwnerHasCert, HalfRegistered, Rows,
      Present, NoLogin, AuthSteps, ToolValues
<1>2. IInv /\ [Next]_vars => IInv'
  BY NextStep
<1> QED BY <1>1, <1>2, PTL DEF Spec

(* Each variable keeps its type. *)
THEOREM TypeCorrect == Spec => []TypeOK
<1>1. IInv => TypeOK
  BY DEF IInv
<1> QED BY <1>1, Invariance, PTL

(* A prompt never runs with an environment another connection set (Prompt and
   SetEnv arms of handle_message). *)
THEOREM PromptsIsolated == Spec => []EnvIsolation
<1>1. IInv => EnvIsolation
  BY DEF IInv
<1> QED BY <1>1, Invariance, PTL

(* The session's tool is its connection's tool, or none was selected yet. *)
THEOREM SelectionsAgree == Spec => []SelectionMirrored
<1>1. IInv => SelectionMirrored
  BY DEF IInv
<1> QED BY <1>1, Invariance, PTL

(* The clean exits of handle_connection and Disconnect leave nothing behind. *)
THEOREM NothingLeftBehind == Spec => []HeldOrAbandoned
<1>1. IInv => HeldOrAbandoned
  BY DEF IInv
<1> QED BY <1>1, Invariance, PTL

(* A session never changes hands, whatever runs between the queries of Auth. *)
THEOREM SessionsOwned == Spec => []OwnerHasCert
<1>1. IInv => OwnerHasCert
  BY DEF IInv
<1> QED BY <1>1, Invariance, PTL

(* Of any number of clients that register at once, one gets the user. *)
THEOREM OneOwner == Spec => []OneCertificate
<1>1. IInv => OneCertificate
  BY DEF IInv, Table, OneCertificate
<1> QED BY <1>1, Invariance, PTL

(* Both together: whoever acts in a session is who presented its certificate. *)
THEOREM SessionsAuthentic == Spec => []CertificateIdentifies
<1>1. IInv => CertificateIdentifies
  BY DEF IInv, Table, OneCertificate, CertificateIdentifies
<1> QED BY <1>1, Invariance, PTL

(* A registration is only ever half done while it runs or after it was cut off. *)
THEOREM RegistrationsAccounted == Spec => []HalfRegistered
<1>1. IInv => HalfRegistered
  BY DEF IInv
<1> QED BY <1>1, Invariance, PTL

(* A session that leaves the map does so by its own connection, by the expiry
   its own connection noticed, or with the process. *)
THEOREM OnlyOwnerEnds == Spec => OwnerEnds
<1>1. ASSUME IInv, Next PROVE OthersKeep
  <2> SUFFICES ASSUME NEW s \in SessionIds, sessions[s] # Gone, sessions'[s] = Gone
               PROVE  EndedByOwner(s)
    BY DEF OthersKeep
  <2> USE <1>1, SentinelAssumption DEF IInv, TypeOK, EndedByOwner, shared
  <2>1. ASSUME NEW c \in Conns, Auth(c) PROVE EndedByOwner(s)
    <3>1. CASE AuthOpen(c)
      <4>1. PICK t \in SessionIds : sessions' = [sessions EXCEPT ![t] =
                       [user |-> login[c].user, tool |-> NoTool, expired |-> FALSE]]
        BY <3>1 DEF AuthOpen
      <4>2. login[c].user \in UserIds
        BY <3>1 DEF AuthOpen, Registration
      <4> QED BY <4>1, <4>2
    <3>2. CASE UNCHANGED sessions
      BY <3>2
    <3>3. UNCHANGED sessions \/ AuthOpen(c)
      BY <2>1 DEF Auth, AuthLookup, AuthMode, AuthName, AuthInsert, Register, AuthBind,
                  AuthTouch, AuthError, Fail, Goto
    <3> QED BY <3>1, <3>2, <3>3
  <2>2. ASSUME NEW c \in Conns, CloseStream(c) PROVE EndedByOwner(s)
    BY <2>2 DEF CloseStream, EndTask, DropEntries
  <2>3. ASSUME NEW c \in Conns, Disconnect(c) PROVE EndedByOwner(s)
    BY <2>3 DEF Disconnect, DropEntries
  <2>4. ASSUME NEW c \in Conns, Usage(c) PROVE EndedByOwner(s)
    BY <2>4 DEF Usage, Present
  <2>5. ASSUME NEW c \in Conns, NEW t \in Adapters, SelectTool(c, t) PROVE EndedByOwner(s)
    <3>1. [sessions[s] EXCEPT !.tool = t] # Gone
      BY DEF Session, Present
    <3> QED BY <2>5, <3>1 DEF SelectTool
  <2>6. ASSUME NEW x \in SessionIds, Expire(x) PROVE EndedByOwner(s)
    <3>1. [sessions[s] EXCEPT !.expired = TRUE] # Gone
      BY DEF Session
    <3> QED BY <2>6, <3>1 DEF Expire
  <2>7. CASE Crash
    BY <2>7, CrashAssumption DEF Crash
  <2>8. ASSUME NEW c \in Conns, Accept(c) \/ BreakStream(c) \/ \E e \in EnvValues : SetEnv(c, e)
        PROVE EndedByOwner(s)
    BY <2>8 DEF Accept, BreakStream, Fail, SetEnv
  <2>9. ASSUME (\E n \in Names : AdminAdd(n)) \/ (\E u \in UserIds : AdminRemove(u))
        PROVE EndedByOwner(s)
    BY <2>9 DEF AdminAdd, AdminRemove
  <2> QED BY <2>1, <2>2, <2>3, <2>4, <2>5, <2>6, <2>7, <2>8, <2>9 DEF Next, Handle
<1>2. IInv /\ [Next]_vars => [OthersKeep]_vars
  BY <1>1
<1> QED BY <1>2, Invariance, PTL DEF Spec, OwnerEnds

=============================================================================
