-------------------------- MODULE HistoryStoreProofs --------------------------
(***************************************************************************)
(* Proofs about HistoryStore, for any number of processes, sessions,       *)
(* messages, crashes and failed operations: no message is lost but by the  *)
(* named ways, every entry has a file, pruning deletes nothing, and the    *)
(* index describes the files unless a named lapse came first.              *)
(***************************************************************************)
EXTENDS HistoryStore, FiniteSetTheorems, TLAPS

(* Sessions in memory, on disk and about to be opened were issued, and one *)
(* about to be opened as new is known to nobody else.                      *)
Ids ==
    /\ \A p \in Processes :
          IF current[p].id = NoSession THEN current[p].msgs = {} ELSE current[p].id \in issued
    /\ \A s \in Sessions :
          /\ files[s].state # "absent" => s \in issued
          /\ files[s].state # "whole" => files[s].msgs = {}
    /\ \A s \in listed : files[s].state # "absent"
    /\ \A p \in Processes :
          /\ then[p].what = "resume" => then[p].id \in listed
          /\ then[p].what = "new" =>
                /\ then[p].id \in issued
                /\ files[then[p].id].state = "absent"
                /\ \A q \in Processes :
                      /\ current[q].id # then[p].id
                      /\ q # p => then[q] # then[p]

(* Two processes hold a session only after one has resumed the other's. *)
Sole ==
    \A p, q \in Processes :
        p # q /\ current[p].id = current[q].id /\ current[p].id \in Sessions =>
            current[p].id \in hurt /\ "shared" \in lapses

(* What the holder of an undisturbed session has in memory includes what is *)
(* in its file, and is all of it once it was saved.                         *)
Memory ==
    \A p \in Processes :
        current[p].id \in Sessions \ hurt =>
            LET f == files[current[p].id] IN
            /\ f.msgs \subseteq current[p].msgs
            /\ pc[p] = "write" => f.state = "blank"
            /\ pc[p] \in {"load", "open", "put"} => f = Whole(current[p].msgs)
            /\ pc[p] \in {"prune", "back"} => f.msgs = current[p].msgs

(* Entries are of sessions with a file, and no more than update_index keeps. *)
Entered(e, f) ==
    /\ \A s \in Listed(e) : f[s].state # "absent"
    /\ Cardinality(Listed(e)) <= IndexLimit
Listing ==
    /\ index.state # "whole" => index.of = NoEntries
    /\ Entered(index.of, files)
    /\ \A p \in Processes :
          /\ Entered(loaded[p].of, files)
          /\ pc[p] \in {"write", "load", "open", "put"} =>
                files[current[p].id].state # "absent"

IInv == TypeOK /\ Ids /\ Sole /\ Memory /\ Listing /\ NothingLost

-----------------------------------------------------------------------------
(* Types, one value at a time.                                             *)

LEMMA Types ==
    ASSUME TypeOK
    PROVE  /\ \A q \in Processes :
                 /\ current[q].id \in Sessions \cup {NoSession}
                 /\ current[q].msgs \in SUBSET Messages
                 /\ current[q] = [id |-> current[q].id, msgs |-> current[q].msgs]
                 /\ loaded[q].of \in Entries /\ loaded[q].stale \in BOOLEAN
                 /\ then[q].id \in Sessions \cup {NoSession}
           /\ \A s \in Sessions : files[s].msgs \in SUBSET Messages
           /\ index.of \in Entries
BY DEF TypeOK

(* What a step makes out of date is still what was loaded. *)
LEMMA OutdateTypes ==
    ASSUME TypeOK, NEW p \in Processes
    PROVE  /\ Outdate(p) \in [Processes -> [of : Entries, stale : BOOLEAN]]
           /\ \A q \in Processes : Outdate(p)[q].of = loaded[q].of
<1>1. \A q \in Processes :
         Outdate(p)[q] = [of |-> loaded[q].of,
                          stale |-> loaded[q].stale \/ (q # p /\ pc[q] \in {"open", "put"})]
  BY DEF TypeOK, Outdate
<1>2. \A q \in Processes : loaded[q].of \in Entries
  BY DEF TypeOK
<1>3. ASSUME NEW q \in Processes PROVE Outdate(p)[q] \in [of : Entries, stale : BOOLEAN]
  <2> DEFINE b == loaded[q].stale \/ (q # p /\ pc[q] \in {"open", "put"})
  <2>1. b \in BOOLEAN
    BY Zenon
  <2> HIDE DEF b
  <2>2. [of |-> loaded[q].of, stale |-> b] \in [of : Entries, stale : BOOLEAN]
    BY <1>2, <2>1
  <2> QED BY <1>1, <2>2 DEF b
<1>4. Outdate(p) = [q \in Processes |-> Outdate(p)[q]]
  BY DEF Outdate
<1>5. Outdate(p) \in [Processes -> [of : Entries, stale : BOOLEAN]]
  BY <1>3, <1>4, Zenon
<1> QED BY <1>1, <1>5

LEMMA NoneListed == Listed(NoEntries) = {} /\ NoEntries \in Entries
BY DEF Listed, NoEntries, Entries

(* Steps that take no file away, and enter nothing new.                    *)
LEMMA KeepListing ==
    ASSUME Listing,
           \A s \in Sessions : files[s].state # "absent" => files'[s].state # "absent",
           \/ index' = index
           \/ index'.of = NoEntries
           \/ \E q \in Processes : index' = WholeIndex(loaded[q].of),
           \A q \in Processes : loaded'[q].of = loaded[q].of \/ loaded'[q].of = NoEntries,
           \A q \in Processes : pc'[q] \in {"write", "load", "open", "put"} =>
               files'[current'[q].id].state # "absent"
    PROVE  Listing'
<1>1. \A e : Entered(e, files) => Entered(e, files')
  BY DEF Entered, Listed
<1>2. Entered(NoEntries, files')
  BY NoneListed, FS_EmptySet, ConstantsAssumption DEF Entered
<1>3. /\ Entered(index.of, files') /\ (index.state # "whole" => index.of = NoEntries)
      /\ \A q \in Processes : Entered(loaded[q].of, files')
  BY <1>1 DEF Listing
<1>4. Entered(index'.of, files') /\ (index'.state # "whole" => index'.of = NoEntries)
  BY <1>2, <1>3 DEF WholeIndex
<1>5. \A q \in Processes : Entered(loaded'[q].of, files')
  BY <1>2, <1>3
<1> QED BY <1>4, <1>5 DEF Listing

(* Steps after which every message is where it was, or its session is hurt. *)
LEMMA KeepMessages ==
    ASSUME NothingLost, said' = said, hurt \subseteq hurt',
           \A s \in Sessions \ hurt' : files[s].msgs \subseteq files'[s].msgs
               \/ \E q \in Processes :
                     current'[q].id = s /\ files[s].msgs \subseteq current'[q].msgs,
           \A q \in Processes : current[q].id \in Sessions \ hurt' =>
               \/ current'[q].id = current[q].id /\ current[q].msgs \subseteq current'[q].msgs
               \/ current[q].msgs \subseteq files'[current[q].id].msgs,
           said \in Seq(Sessions)
    PROVE  NothingLost'
<1> SUFFICES ASSUME NEW m \in DOMAIN said, said[m] \notin hurt'
             PROVE  \/ m \in files'[said[m]].msgs
                    \/ \E q \in Processes : current'[q].id = said[m] /\ m \in current'[q].msgs
  BY DEF NothingLost
<1>1. said[m] \in Sessions \ hurt'
  OBVIOUS
<1>2. CASE m \in files[said[m]].msgs
  BY <1>1, <1>2
<1>3. CASE \E q \in Processes : current[q].id = said[m] /\ m \in current[q].msgs
  BY <1>1, <1>3
<1> QED BY <1>1, <1>2, <1>3 DEF NothingLost

-----------------------------------------------------------------------------
(* The invariant holds at the start and every action keeps it.             *)

LEMMA InitStep == Init => IInv
<1> SUFFICES ASSUME Init PROVE IInv
  OBVIOUS
<1>1. TypeOK
  BY ConstantsAssumption
     DEF Init, Closed, NoCall, Unloaded, NoEntries, WholeIndex, TypeOK, Entries, Saves
<1>2. Ids /\ Sole /\ Memory /\ NothingLost
  BY ConstantsAssumption DEF Init, Closed, NoCall, Ids, Sole, Memory, NothingLost
<1>3. Listing
  <2>1. Entered(NoEntries, files)
    BY NoneListed, FS_EmptySet, ConstantsAssumption DEF Entered
  <2>2. index.of = NoEntries /\ index.state = "whole"
    BY DEF Init, WholeIndex
  <2>3. \A q \in Processes : loaded[q].of = NoEntries /\ pc[q] = "off"
    BY DEF Init, Unloaded
  <2> QED BY <2>1, <2>2, <2>3 DEF Listing
<1> QED BY <1>1, <1>2, <1>3 DEF IInv

LEMMA StartStep ==
    ASSUME IInv, NEW p \in Processes, Start(p)
    PROVE  IInv'
<1>1. /\ UNCHANGED <<files, index, current, then, loaded, said, issued, listed, hurt, lapses,
                     mishaps>>
      /\ \A q \in Processes : pc'[q] = IF q = p THEN "idle" ELSE pc[q]
  BY DEF Start, GoTo, IInv, TypeOK
<1>2. TypeOK'
  BY DEF IInv, Start, GoTo, TypeOK, Saves
<1>3. Ids' /\ Sole' /\ Memory' /\ NothingLost'
  BY <1>1 DEF IInv, Ids, Sole, Memory, NothingLost
<1>4. Listing'
  BY <1>1, KeepListing DEF IInv, Listing
<1> QED BY <1>2, <1>3, <1>4 DEF IInv

LEMMA SayStep ==
    ASSUME IInv, NEW p \in Processes, Say(p)
    PROVE  IInv'
<1> DEFINE m == Len(said) + 1
<1>1. PICK s \in Sessions :
         /\ s = current[p].id \/ (current[p].id = NoSession /\ s \notin issued)
         /\ current' = [current EXCEPT ![p] = [id |-> s, msgs |-> current[p].msgs \cup {m}]]
         /\ said' = Append(said, s)
         /\ issued' = issued \cup {s}
         /\ pc[p] = "idle" /\ m \in Messages
         /\ UNCHANGED <<files, index, pc, then, loaded, listed, hurt, lapses, mishaps>>
  <2>1. Len(said) \in Nat /\ current[p].id \in Sessions \cup {NoSession}
    BY Types DEF IInv, TypeOK
  <2>2. PICK s \in IF current[p].id = NoSession THEN Sessions \ issued ELSE {current[p].id} :
          /\ current' = [current EXCEPT ![p] = [id |-> s, msgs |-> current[p].msgs \cup {m}]]
          /\ said' = Append(said, s)
          /\ issued' = issued \cup {s}
    BY Zenon DEF Say
  <2>3. m \in Messages
    BY <2>1, ConstantsAssumption DEF Messages, Say
  <2>4. s \in Sessions /\ (s = current[p].id \/ (current[p].id = NoSession /\ s \notin issued))
    BY <2>1, <2>2
  <2> QED BY <2>2, <2>3, <2>4 DEF Say
<1>2. \A q \in Processes :
         current'[q] = IF q = p THEN [id |-> s, msgs |-> current[p].msgs \cup {m}]
                                ELSE current[q]
  BY <1>1 DEF IInv, TypeOK
<1>3. said \in Seq(Sessions) /\ said' \in Seq(Sessions) /\ Len(said') = m
      /\ (\A k \in DOMAIN said : k \in DOMAIN said' /\ said'[k] = said[k]) /\ said'[m] = s
      /\ DOMAIN said' = DOMAIN said \cup {m}
  BY <1>1 DEF IInv, TypeOK
<1> HIDE DEF m
<1>4. TypeOK'
  <2>1. current' \in [Processes -> [id : Sessions \cup {NoSession}, msgs : SUBSET Messages]]
    BY <1>1 DEF IInv, TypeOK
  <2>2. Len(said') <= MaxMessages
    BY <1>1, <1>3 DEF Messages
  <2>3. \A q \in Processes : pc'[q] \in Saves =>
            current'[q].id # NoSession /\ current'[q].msgs # {}
    BY <1>1, <1>2 DEF IInv, TypeOK, Saves
  <2> QED BY <1>1, <1>3, <2>1, <2>2, <2>3 DEF IInv, TypeOK
<1>5. Ids'
  <2>1. NoSession \notin Sessions
    BY ConstantsAssumption
  <2>2. \A q \in Processes : then[q].what = "new" => then[q].id # s
    BY <1>1 DEF IInv, Ids
  <2> QED BY <1>1, <1>2, <2>1, <2>2 DEF IInv, Ids
<1>6. Sole'
  BY <1>1, <1>2 DEF IInv, Sole, Ids
<1>7. Memory'
  BY <1>1, <1>2 DEF IInv, Memory, Ids
<1>8. Listing'
  BY <1>1, <1>2, KeepListing DEF IInv, Listing
<1>9. NothingLost'
  BY <1>1, <1>2, <1>3, ConstantsAssumption DEF IInv, NothingLost
<1> QED BY <1>4, <1>5, <1>6, <1>7, <1>8, <1>9 DEF IInv

(* What precedes a save changes only where the process is. *)
LEMMA LeaveStep ==
    ASSUME IInv, NEW p \in Processes, NEW s \in Sessions \cup {NoSession},
           NEW what \in {"new", "resume", "quit", "drop"}, Leave(p, what, s),
           IF what = "new" THEN s \in Sessions \ issued /\ issued' = issued \cup {s}
                           ELSE issued' = issued,
           what = "resume" => s \in listed
    PROVE  IInv'
<1>1. /\ pc[p] = "idle"
      /\ UNCHANGED <<files, index, current, loaded, said, listed, hurt, lapses, mishaps>>
      /\ \A q \in Processes :
            then'[q] = IF q = p THEN [what |-> what, id |-> s] ELSE then[q]
      /\ \A q \in Processes : q # p => pc'[q] = pc[q]
      /\ pc'[p] \in {"create", "prune", "back"}
      /\ (pc'[p] = "create") <=> (current[p].msgs # {})
  BY DEF Leave, SaveStart, GoTo, IInv, TypeOK
<1>2. TypeOK'
  <2>1. then' \in [Processes -> [what : {"none", "new", "resume", "quit", "drop"},
                                 id : Sessions \cup {NoSession}]]
    BY DEF Leave, IInv, TypeOK
  <2>2. pc' \in [Processes -> {"off", "idle", "create", "write", "load", "open", "put",
                               "prune", "back"}]
    BY DEF Leave, SaveStart, GoTo, IInv, TypeOK
  <2>3. \A q \in Processes : pc'[q] \in Saves => current[q].id # NoSession /\ current[q].msgs # {}
    BY <1>1 DEF IInv, TypeOK, Saves, Ids
  <2>4. issued' \in SUBSET Sessions
    BY DEF IInv, TypeOK
  <2> QED BY <1>1, <2>1, <2>2, <2>3, <2>4 DEF IInv, TypeOK
<1>3. Ids'
  <2>1. issued \subseteq issued'
    OBVIOUS
  <2>2. what = "new" => /\ files[s].state = "absent"
                        /\ \A q \in Processes : current[q].id # s
                        /\ \A q \in Processes : then[q].what = "new" => then[q].id # s
    BY ConstantsAssumption DEF IInv, Ids
  <2>3. ASSUME NEW q \in Processes, then'[q].what = "new"
        PROVE  /\ then'[q].id \in issued'
               /\ files[then'[q].id].state = "absent"
               /\ \A r \in Processes :
                     /\ current[r].id # then'[q].id
                     /\ r # q => then'[r] # then'[q]
    <3>1. CASE q = p
      BY <1>1, <2>2, <2>3, <3>1
    <3>2. CASE q # p
      BY <1>1, <2>1, <2>2, <2>3, <3>2 DEF IInv, Ids
    <3> QED BY <3>1, <3>2
  <2>4. \A q \in Processes : then'[q].what = "resume" => then'[q].id \in listed
    BY <1>1 DEF IInv, Ids
  <2> QED BY <1>1, <2>1, <2>3, <2>4 DEF IInv, Ids
<1>4. Sole' /\ NothingLost'
  BY <1>1 DEF IInv, Sole, NothingLost
<1>5. Memory'
  <2>1. pc'[p] \in {"create", "prune", "back"} /\ (pc'[p] # "create" => current[p].msgs = {})
    BY <1>1
  <2>2. current[p].id \in Sessions \ hurt /\ current[p].msgs = {} =>
            files[current[p].id].msgs = current[p].msgs
    BY DEF IInv, Memory
  <2> QED BY <1>1, <2>1, <2>2 DEF IInv, Memory
<1>6. Listing'
  BY <1>1, KeepListing DEF IInv, Listing
<1> QED BY <1>2, <1>3, <1>4, <1>5, <1>6 DEF IInv

LEMMA CommandStep ==
    ASSUME IInv, NEW p \in Processes, NewChat(p) \/ Resume(p) \/ Quit(p)
    PROVE  IInv'
<1>1. CASE NewChat(p)
  BY <1>1, LeaveStep DEF NewChat
<1>2. CASE Resume(p)
  BY <1>2, LeaveStep DEF Resume, IInv, TypeOK
<1>3. CASE Quit(p)
  BY <1>3, LeaveStep DEF Quit
<1> QED BY <1>1, <1>2, <1>3

LEMMA CreateFileStep ==
    ASSUME IInv, NEW p \in Processes, CreateFile(p)
    PROVE  IInv'
<1> DEFINE s == current[p].id
<1> DEFINE f == IF AlsoWriting(p) THEN Torn ELSE Blank
<1>1. s \in Sessions /\ s \in issued /\ pc[p] = "create"
  BY Types DEF IInv, CreateFile, TypeOK, Saves, Ids
<1>2. /\ files' = [files EXCEPT ![s] = f]
      /\ UNCHANGED <<index, current, then, loaded, said, issued, listed, hurt, lapses, mishaps>>
      /\ pc' = [pc EXCEPT ![p] = "write"]
  BY DEF CreateFile, GoTo
<1>3. f \in {Torn, Blank} /\ (s \notin hurt => f = Blank)
  BY <1>1 DEF IInv, Sole, AlsoWriting
<1> HIDE DEF s, f
<1>4. /\ \A q \in Processes : pc'[q] = IF q = p THEN "write" ELSE pc[q]
      /\ \A t \in Sessions : files'[t] = IF t = s THEN f ELSE files[t]
      /\ f.state # "absent" /\ f.msgs = {} /\ (s \notin hurt => f.state = "blank")
  BY <1>2, <1>3 DEF IInv, TypeOK, Torn, Blank
<1>5. TypeOK'
  <2>1. files' \in [Sessions -> [state : {"absent", "blank", "torn", "whole"},
                                 msgs : SUBSET Messages]]
    <3>1. f \in [state : {"absent", "blank", "torn", "whole"}, msgs : SUBSET Messages]
      BY <1>3 DEF Torn, Blank
    <3> QED BY <1>2, <3>1 DEF IInv, TypeOK
  <2>2. /\ pc' \in [Processes -> {"off", "idle", "create", "write", "load", "open", "put",
                                  "prune", "back"}]
        /\ \A q \in Processes : pc'[q] \in Saves => pc[q] \in Saves
    BY <1>1, <1>2 DEF IInv, TypeOK, Saves
  <2> QED BY <1>2, <2>1, <2>2 DEF IInv, TypeOK
<1>6. Ids'
  <2>1. \A q \in Processes : then[q].what = "new" => then[q].id # s
    BY DEF IInv, Ids, s
  <2>2. \A q \in Processes : then[q].what = "new" => then[q].id \in Sessions
    BY Types, ConstantsAssumption DEF IInv, Ids, TypeOK
  <2>3. \A t \in listed : t \in Sessions
    BY DEF IInv, TypeOK
  <2> QED BY <1>1, <1>2, <1>4, <2>1, <2>2, <2>3 DEF IInv, Ids
<1>7. Sole'
  BY <1>2 DEF IInv, Sole
<1>8. Memory'
  <2>1. \A q \in Processes : q # p /\ current[q].id = s => s \in hurt
    BY <1>1 DEF IInv, Sole, s
  <2> QED BY <1>1, <1>2, <1>4, <2>1 DEF IInv, Memory, s
<1>9. Listing'
  <2>1. \A q \in Processes : pc'[q] \in {"write", "load", "open", "put"} =>
            files'[current'[q].id].state # "absent"
    BY <1>2, <1>4, Types, <1>1 DEF IInv, Listing, s, TypeOK, Saves
  <2> QED BY <1>2, <1>4, <2>1, KeepListing DEF IInv
<1>10. NothingLost'
  <2>1. s \notin hurt => files[s].msgs \subseteq current[p].msgs
    BY <1>1 DEF IInv, Memory, s
  <2> QED BY <1>2, <1>4, <2>1, KeepMessages DEF IInv, TypeOK, s
<1> QED BY <1>5, <1>6, <1>7, <1>8, <1>9, <1>10 DEF IInv

LEMMA WriteFileStep ==
    ASSUME IInv, NEW p \in Processes, WriteFile(p)
    PROVE  IInv'
<1> DEFINE s == current[p].id
<1>1. s \in Sessions /\ s \in issued /\ pc[p] = "write"
  BY Types DEF IInv, WriteFile, TypeOK, Saves, Ids
<1>2. PICK f \in {Whole(current[p].msgs), Torn} :
         /\ files' = [files EXCEPT ![s] = f]
         /\ files[s].state = "blank" => f = Whole(current[p].msgs)
  BY DEF WriteFile
<1>3. /\ UNCHANGED <<index, current, then, loaded, said, issued, listed, hurt, lapses, mishaps>>
      /\ pc' = [pc EXCEPT ![p] = "load"]
  BY DEF WriteFile, GoTo
<1>4. s \notin hurt => f = Whole(current[p].msgs)
  BY <1>1, <1>2 DEF IInv, Memory
<1> HIDE DEF s
<1>5. /\ \A q \in Processes : pc'[q] = IF q = p THEN "load" ELSE pc[q]
      /\ \A t \in Sessions : files'[t] = IF t = s THEN f ELSE files[t]
      /\ f.state # "absent" /\ (f.state # "whole" => f.msgs = {})
  BY <1>2, <1>3 DEF IInv, TypeOK, Torn, Whole
<1>6. TypeOK'
  <2>1. f \in [state : {"absent", "blank", "torn", "whole"}, msgs : SUBSET Messages]
    <3>1. current[p].msgs \in SUBSET Messages
      BY Types DEF IInv
    <3> QED BY <1>2, <3>1 DEF Torn, Whole
  <2>2. files' \in [Sessions -> [state : {"absent", "blank", "torn", "whole"},
                                 msgs : SUBSET Messages]]
    BY <1>2, <2>1 DEF IInv, TypeOK
  <2>3. /\ pc' \in [Processes -> {"off", "idle", "create", "write", "load", "open", "put",
                                  "prune", "back"}]
        /\ \A q \in Processes : pc'[q] \in Saves => pc[q] \in Saves
    BY <1>1, <1>3 DEF IInv, TypeOK, Saves
  <2> QED BY <1>3, <2>2, <2>3 DEF IInv, TypeOK
<1>7. Ids'
  <2>1. \A q \in Processes : then[q].what = "new" => then[q].id # s
    BY DEF IInv, Ids, s
  <2>2. \A q \in Processes : then[q].what = "new" => then[q].id \in Sessions
    BY Types, ConstantsAssumption DEF IInv, Ids, TypeOK
  <2>3. \A t \in listed : t \in Sessions
    BY DEF IInv, TypeOK
  <2> QED BY <1>1, <1>3, <1>5, <2>1, <2>2, <2>3 DEF IInv, Ids
<1>8. Sole'
  BY <1>3 DEF IInv, Sole
<1>9. Memory'
  <2>1. \A q \in Processes : q # p /\ current[q].id = s => s \in hurt
    BY <1>1 DEF IInv, Sole, s
  <2> QED BY <1>1, <1>3, <1>4, <1>5, <2>1 DEF IInv, Memory, s, Whole
<1>10. Listing'
  <2>1. \A q \in Processes : pc'[q] \in {"write", "load", "open", "put"} =>
            files'[current'[q].id].state # "absent"
    BY SMTT(30), <1>1, <1>3, <1>5, Types DEF IInv, Listing, s, TypeOK, Saves
  <2> QED BY <1>3, <1>5, <2>1, KeepListing DEF IInv
<1>11. NothingLost'
  <2>1. s \notin hurt => files[s].msgs \subseteq current[p].msgs /\ f.msgs = current[p].msgs
    BY <1>1, <1>4 DEF IInv, Memory, s, Whole
  <2> QED BY <1>3, <1>5, <2>1, KeepMessages DEF IInv, TypeOK, s
<1> QED BY <1>6, <1>7, <1>8, <1>9, <1>10, <1>11 DEF IInv

(* Where a process is affects the rest of the invariant only in Memory. *)
LEMMA SameSessions ==
    ASSUME IInv, UNCHANGED <<files, current, then, said, issued, hurt>>,
           lapses \subseteq lapses', listed \subseteq listed',
           \A s \in listed' : files[s].state # "absent",
           \A q \in Processes :
               \/ pc'[q] = pc[q]
               \/ pc[q] \in {"load", "open", "put"} /\
                     pc'[q] \in {"load", "open", "put", "prune", "back"}
               \/ pc[q] = "prune" /\ pc'[q] = "back"
    PROVE  Ids' /\ Sole' /\ Memory' /\ NothingLost'
<1>1. Ids' /\ Sole' /\ NothingLost'
  BY DEF IInv, Ids, Sole, NothingLost
<1>2. Memory'
  BY DEF IInv, Memory, Whole
<1> QED BY <1>1, <1>2

LEMMA OpenIndexStep ==
    ASSUME IInv, NEW p \in Processes, OpenIndex(p)
    PROVE  IInv'
<1>1. /\ UNCHANGED <<files, current, then, said, issued, listed, hurt, mishaps>>
      /\ pc[p] = "open" /\ pc' = [pc EXCEPT ![p] = "put"]
      /\ index' \in {TornIndex, BlankIndex}
      /\ loaded' = Outdate(p) /\ lapses' = lapses \cup Race(p)
  BY DEF OpenIndex, GoTo
<1>2. /\ \A q \in Processes : loaded'[q].of = loaded[q].of
      /\ \A q \in Processes : pc'[q] = IF q = p THEN "put" ELSE pc[q]
  BY <1>1 DEF IInv, TypeOK, Outdate
<1>3. TypeOK'
  <2>1. loaded' \in [Processes -> [of : Entries, stale : BOOLEAN]]
    BY <1>1, OutdateTypes DEF IInv
  <2>2. index' \in [state : {"blank", "torn", "whole"}, of : Entries]
    BY <1>1, NoneListed DEF TornIndex, BlankIndex
  <2>3. pc' \in [Processes -> {"off", "idle", "create", "write", "load", "open", "put",
                               "prune", "back"}]
        /\ \A q \in Processes : pc'[q] \in Saves => pc[q] \in Saves
    BY <1>1 DEF IInv, TypeOK, Saves
  <2>4. lapses' \in SUBSET {"blank", "race", "shared"}
    BY <1>1 DEF IInv, TypeOK, Race
  <2> QED BY <1>1, <2>1, <2>2, <2>3, <2>4 DEF IInv, TypeOK
<1>4. Ids' /\ Sole' /\ Memory' /\ NothingLost'
  BY <1>1, <1>2, SameSessions DEF IInv, Ids
<1>5. Listing'
  BY <1>1, <1>2, KeepListing DEF IInv, Listing, TornIndex, BlankIndex
<1> QED BY <1>3, <1>4, <1>5 DEF IInv

LEMMA PutIndexStep ==
    ASSUME IInv, NEW p \in Processes, PutIndex(p)
    PROVE  IInv'
<1>1. /\ UNCHANGED <<files, current, then, said, issued, hurt, mishaps>>
      /\ pc[p] = "put" /\ pc' = [pc EXCEPT ![p] = Saved(p)]
      /\ index' \in {TornIndex, WholeIndex(loaded[p].of)}
      /\ listed' = listed \cup Listed(index'.of)
      /\ loaded' = [Outdate(p) EXCEPT ![p] = Unloaded] /\ lapses' = lapses \cup Race(p)
  BY DEF PutIndex, GoTo
<1>2. Saved(p) \in {"prune", "back"}
  BY DEF Saved
<1>3. /\ \A q \in Processes : loaded'[q].of = IF q = p THEN NoEntries ELSE loaded[q].of
      /\ \A q \in Processes : pc'[q] = IF q = p THEN Saved(p) ELSE pc[q]
  BY <1>1 DEF IInv, TypeOK, Outdate, Unloaded
<1>4. \A s \in Listed(index'.of) : s \in Sessions /\ files[s].state # "absent"
  <2>1. index'.of = NoEntries \/ index'.of = loaded[p].of
    BY <1>1 DEF TornIndex, WholeIndex
  <2>2. Listed(NoEntries) = {}
    BY NoneListed
  <2>3. \A s \in Listed(loaded[p].of) : s \in Sessions /\ files[s].state # "absent"
    BY DEF IInv, Listing, Entered, Listed
  <2> QED BY <2>1, <2>2, <2>3
<1>5. TypeOK'
  <2>1. loaded' \in [Processes -> [of : Entries, stale : BOOLEAN]]
    <3>1. Outdate(p) \in [Processes -> [of : Entries, stale : BOOLEAN]]
      BY OutdateTypes DEF IInv
    <3>2. Unloaded \in [of : Entries, stale : BOOLEAN]
      BY NoneListed DEF Unloaded
    <3> QED BY <1>1, <3>1, <3>2
  <2>2. index' \in [state : {"blank", "torn", "whole"}, of : Entries]
    <3>1. NoEntries \in Entries /\ loaded[p].of \in Entries
      BY NoneListed, Types DEF IInv
    <3> QED BY <1>1, <3>1 DEF TornIndex, WholeIndex
  <2>3. pc' \in [Processes -> {"off", "idle", "create", "write", "load", "open", "put",
                               "prune", "back"}]
        /\ \A q \in Processes : pc'[q] \in Saves => pc[q] \in Saves
    BY <1>1, <1>2 DEF IInv, TypeOK, Saves
  <2>4. lapses' \in SUBSET {"blank", "race", "shared"} /\ listed' \in SUBSET Sessions
    BY <1>1, <1>4 DEF IInv, TypeOK, Race
  <2> QED BY <1>1, <2>1, <2>2, <2>3, <2>4 DEF IInv, TypeOK
<1>6. Ids' /\ Sole' /\ Memory' /\ NothingLost'
  BY <1>1, <1>2, <1>3, <1>4, SameSessions DEF IInv, Ids
<1>7. Listing'
  <2>1. \/ index'.of = NoEntries
        \/ \E q \in Processes : index' = WholeIndex(loaded[q].of)
    BY <1>1 DEF TornIndex
  <2>2. \A q \in Processes : pc'[q] \in {"write", "load", "open", "put"} =>
            files'[current'[q].id].state # "absent"
    BY <1>1, <1>2, <1>3 DEF IInv, Listing
  <2> QED BY <1>1, <1>3, <2>1, <2>2, KeepListing DEF IInv
<1> QED BY <1>5, <1>6, <1>7 DEF IInv

(* What update_index may write lists sessions that were listed and the one *)
(* it updates, IndexLimit of them at most.                                 *)
LEMMA WithEntryListed ==
    ASSUME NEW e \in Entries, NEW s \in Sessions, NEW ms \in SUBSET Messages,
           NEW g \in WithEntry(e, s, ms)
    PROVE  /\ g \in Entries
           /\ Listed(g) \subseteq Listed(e) \cup {s}
           /\ Cardinality(Listed(g)) <= IndexLimit
           /\ \A t \in Sessions : g[t] = {} \/ g[t] = (IF t = s THEN ms ELSE e[t])
<1> DEFINE f == [e EXCEPT ![s] = ms]
<1>1. f \in Entries /\ \A t \in Sessions : f[t] = IF t = s THEN ms ELSE e[t]
  BY DEF Entries
<1>2. PICK kept \in Keeps(f, IndexLimit) : g = Only(f, kept)
  BY DEF WithEntry
<1> HIDE DEF f
<1>3. /\ kept \subseteq Listed(f)
      /\ Cardinality(kept) =
            IF Cardinality(Listed(f)) > IndexLimit THEN IndexLimit ELSE Cardinality(Listed(f))
  BY <1>2 DEF Keeps
<1>4. g \in Entries /\ \A t \in Sessions : g[t] = IF t \in kept THEN f[t] ELSE {}
  BY <1>1, <1>2 DEF Only, Entries
<1>5. Listed(g) = kept /\ Listed(f) \subseteq Listed(e) \cup {s}
  BY <1>1, <1>3, <1>4 DEF Listed
<1>6. Cardinality(Listed(f)) \in Nat
  <2>1. IsFiniteSet(Listed(f))
    BY FS_Subset, ConstantsAssumption DEF Listed
  <2> QED BY <2>1, FS_CardinalityType
<1>7. Cardinality(kept) <= IndexLimit
  BY <1>3, <1>6, ConstantsAssumption
<1> QED BY <1>1, <1>3, <1>4, <1>5, <1>7

(* With no more entries than are kept, all of them are. *)
LEMMA KeepsAll ==
    ASSUME NEW e \in Entries, NEW n \in Nat, Cardinality(Listed(e)) <= n,
           NEW kept \in Keeps(e, n)
    PROVE  kept = Listed(e) /\ Only(e, kept) = e
<1>1. IsFiniteSet(Listed(e)) /\ Cardinality(Listed(e)) \in Nat
  <2>1. IsFiniteSet(Listed(e))
    BY FS_Subset, ConstantsAssumption DEF Listed
  <2> QED BY <2>1, FS_CardinalityType
<1>2. kept \subseteq Listed(e) /\ Cardinality(kept) = Cardinality(Listed(e))
  BY <1>1 DEF Keeps
<1>3. kept = Listed(e)
  BY <1>1, <1>2, FS_Subset
<1> QED BY <1>3 DEF Only, Listed, Entries

LEMMA LoadIndexStep ==
    ASSUME IInv, NEW p \in Processes, LoadIndex(p)
    PROVE  IInv'
<1> DEFINE s == current[p].id
<1>1. /\ UNCHANGED <<files, index, current, then, said, issued, listed, hurt, mishaps>>
      /\ pc[p] = "load" /\ pc' = [pc EXCEPT ![p] = "open"]
      /\ lapses \subseteq lapses' /\ lapses' \subseteq lapses \cup {"blank"}
  BY DEF LoadIndex, GoTo
<1>2. PICK e \in WithEntry(LoadedOrDefault, s, current[p].msgs) :
         loaded' = [loaded EXCEPT ![p] = [of |-> e, stale |-> FALSE]]
  BY DEF LoadIndex
<1>3. s \in Sessions /\ current[p].msgs \in SUBSET Messages
  BY <1>1, Types DEF IInv, TypeOK, Saves
<1>4. LoadedOrDefault \in Entries
      /\ (LoadedOrDefault = index.of \/ LoadedOrDefault = NoEntries)
  BY NoneListed, Types DEF IInv, LoadedOrDefault
<1>5. /\ e \in Entries /\ Cardinality(Listed(e)) <= IndexLimit
      /\ Listed(e) \subseteq Listed(LoadedOrDefault) \cup {s}
  BY <1>3, <1>4, WithEntryListed
<1>6. \A q \in Processes : /\ loaded'[q].of = IF q = p THEN e ELSE loaded[q].of
                           /\ pc'[q] = IF q = p THEN "open" ELSE pc[q]
  BY <1>1, <1>2 DEF IInv, TypeOK
<1>7. TypeOK'
  <2>1. loaded' \in [Processes -> [of : Entries, stale : BOOLEAN]]
    BY <1>2, <1>5 DEF IInv, TypeOK
  <2>2. pc' \in [Processes -> {"off", "idle", "create", "write", "load", "open", "put",
                               "prune", "back"}]
        /\ \A q \in Processes : pc'[q] \in Saves => pc[q] \in Saves
    BY <1>1 DEF IInv, TypeOK, Saves
  <2>3. lapses' \in SUBSET {"blank", "race", "shared"}
    BY <1>1 DEF IInv, TypeOK
  <2> QED BY <1>1, <2>1, <2>2, <2>3 DEF IInv, TypeOK
<1>8. Ids' /\ Sole' /\ Memory' /\ NothingLost'
  BY <1>1, <1>6, SameSessions DEF IInv, Ids
<1>9. Listing'
  <2>1. files[s].state # "absent"
    BY <1>1 DEF IInv, Listing
  <2>2. \A t \in Listed(e) : files[t].state # "absent"
    BY <1>4, <1>5, <2>1, NoneListed DEF IInv, Listing, Entered
  <2>3. Entered(e, files)
    BY <1>5, <2>2 DEF Entered
  <2> QED BY <1>1, <1>6, <2>3 DEF IInv, Listing
<1> QED BY <1>7, <1>8, <1>9 DEF IInv

(* Pruning finds nothing to prune. *)
LEMMA PruneNothing ==
    ASSUME IInv, NEW p \in Processes, Prune(p)
    PROVE  UNCHANGED <<files, index>>
<1>1. PICK kept \in Keeps(index.of, HistoryLimit) :
         /\ files' = Deleted(kept)
         /\ index' = [index EXCEPT !.of = Only(index.of, kept)]
  BY DEF Prune
<1>2. index.of \in Entries /\ index = [state |-> index.state, of |-> index.of]
  BY DEF IInv, TypeOK
<1>3. Cardinality(Listed(index.of)) <= HistoryLimit
  <2>1. IsFiniteSet(Listed(index.of))
    BY FS_Subset, ConstantsAssumption DEF Listed
  <2>2. Cardinality(Listed(index.of)) \in Nat
    BY <2>1, FS_CardinalityType
  <2> QED BY <2>2, ConstantsAssumption DEF IInv, Listing, Entered
<1>4. kept = Listed(index.of) /\ Only(index.of, kept) = index.of
  BY <1>2, <1>3, KeepsAll, ConstantsAssumption
<1>5. files' = [s \in Sessions |-> files[s]]
  BY <1>1, <1>4 DEF Deleted
<1>6. files' = files
  BY <1>5 DEF IInv, TypeOK
<1> QED BY <1>1, <1>2, <1>4, <1>6

LEMMA PruneStep ==
    ASSUME IInv, NEW p \in Processes, Prune(p)
    PROVE  IInv'
<1>1. UNCHANGED <<files, index>>
  BY PruneNothing
<1>2. /\ UNCHANGED <<current, then, loaded, said, issued, listed, hurt, lapses, mishaps>>
      /\ pc[p] = "prune" /\ pc' = [pc EXCEPT ![p] = "back"]
  BY DEF Prune, GoTo
<1>3. \A q \in Processes : pc'[q] = IF q = p THEN "back" ELSE pc[q]
  BY <1>2 DEF IInv, TypeOK
<1>4. TypeOK'
  <2>1. pc' \in [Processes -> {"off", "idle", "create", "write", "load", "open", "put",
                               "prune", "back"}]
        /\ \A q \in Processes : pc'[q] \in Saves => pc[q] \in Saves
    BY <1>2 DEF IInv, TypeOK, Saves
  <2> QED BY <1>1, <1>2, <2>1 DEF IInv, TypeOK
<1>5. Ids' /\ Sole' /\ Memory' /\ NothingLost'
  BY <1>1, <1>2, <1>3, SameSessions DEF IInv, Ids
<1>6. Listing'
  BY <1>1, <1>2, <1>3, KeepListing DEF IInv, Listing
<1> QED BY <1>4, <1>5, <1>6 DEF IInv

LEMMA BackToNewStep ==
    ASSUME IInv, NEW p \in Processes, BackToNew(p)
    PROVE  IInv'
<1> DEFINE s == then[p].id
<1>1. /\ UNCHANGED <<files, index, loaded, said, issued, listed, hurt, lapses, mishaps>>
      /\ pc[p] = "back" /\ pc' = [pc EXCEPT ![p] = "idle"]
      /\ then[p].what = "new" /\ then' = [then EXCEPT ![p] = NoCall]
      /\ current' = [current EXCEPT ![p] = [id |-> s, msgs |-> {}]]
  BY DEF BackToNew, Return, GoTo
<1>2. /\ s \in issued /\ s \in Sessions /\ files[s].state = "absent" /\ files[s].msgs = {}
      /\ \A q \in Processes : current[q].id # s
      /\ \A q \in Processes : q # p /\ then[q].what = "new" => then[q].id # s
  <2>1. s \in issued /\ issued \in SUBSET Sessions
    BY <1>1 DEF IInv, Ids, TypeOK
  <2>2. \A q \in Processes : then[q] = [what |-> then[q].what, id |-> then[q].id]
    BY DEF IInv, TypeOK
  <2>3. \A q \in Processes : q # p /\ then[q].what = "new" => then[q].id # s
    BY <1>1, <2>2 DEF IInv, Ids
  <2> QED BY <1>1, <2>1, <2>3 DEF IInv, Ids
<1> HIDE DEF s
<1>3. \A q \in Processes :
         /\ pc'[q] = IF q = p THEN "idle" ELSE pc[q]
         /\ then'[q] = IF q = p THEN NoCall ELSE then[q]
         /\ current'[q] = IF q = p THEN [id |-> s, msgs |-> {}] ELSE current[q]
  BY <1>1 DEF IInv, TypeOK
<1>4. TypeOK'
  <2>1. current' \in [Processes -> [id : Sessions \cup {NoSession}, msgs : SUBSET Messages]]
    BY <1>1, <1>2 DEF IInv, TypeOK
  <2>2. then' \in [Processes -> [what : {"none", "new", "resume", "quit", "drop"},
                                 id : Sessions \cup {NoSession}]]
    BY <1>1 DEF IInv, TypeOK, NoCall
  <2>3. pc' \in [Processes -> {"off", "idle", "create", "write", "load", "open", "put",
                               "prune", "back"}]
    BY <1>1 DEF IInv, TypeOK
  <2>4. \A q \in Processes : pc'[q] \in Saves => current'[q].id # NoSession /\ current'[q].msgs # {}
    BY <1>3 DEF IInv, TypeOK, Saves
  <2> QED BY <1>1, <2>1, <2>2, <2>3, <2>4 DEF IInv, TypeOK
<1>5. Ids'
  <2>1. s # NoSession /\ NoCall.what = "none"
    BY <1>2, ConstantsAssumption DEF NoCall
  <2> QED BY <1>1, <1>2, <1>3, <2>1 DEF IInv, Ids
<1>6. Sole'
  BY <1>1, <1>2, <1>3 DEF IInv, Sole
<1>7. Memory'
  BY <1>1, <1>2, <1>3 DEF IInv, Memory
<1>8. Listing'
  BY <1>1, <1>3, KeepListing DEF IInv, Listing
<1>9. NothingLost'
  <2>1. current[p].id \in Sessions \ hurt => current[p].msgs \subseteq files[current[p].id].msgs
    BY <1>1 DEF IInv, Memory
  <2> QED BY <1>1, <1>3, <2>1, KeepMessages DEF IInv, TypeOK
<1> QED BY <1>4, <1>5, <1>6, <1>7, <1>8, <1>9 DEF IInv

LEMMA BackToResumeStep ==
    ASSUME IInv, NEW p \in Processes, BackToResume(p)
    PROVE  IInv'
<1> DEFINE s == then[p].id
<1>1. /\ UNCHANGED <<files, index, loaded, said, issued, listed, mishaps>>
      /\ pc[p] = "back" /\ pc' = [pc EXCEPT ![p] = "idle"]
      /\ then[p].what = "resume" /\ then' = [then EXCEPT ![p] = NoCall]
  BY DEF BackToResume, Return, GoTo
<1>2. s \in Sessions /\ s \in issued /\ s # NoSession
  BY <1>1, ConstantsAssumption DEF IInv, Ids, TypeOK
<1>3. \A q \in Processes :
         /\ pc'[q] = IF q = p THEN "idle" ELSE pc[q]
         /\ then'[q] = IF q = p THEN NoCall ELSE then[q]
  BY <1>1 DEF IInv, TypeOK
<1>4. /\ then' \in [Processes -> [what : {"none", "new", "resume", "quit", "drop"},
                                 id : Sessions \cup {NoSession}]]
      /\ pc' \in [Processes -> {"off", "idle", "create", "write", "load", "open", "put",
                               "prune", "back"}]
  BY <1>1, ConstantsAssumption DEF IInv, TypeOK, NoCall
<1>5. CASE files[s].state # "whole"
  <2>1. UNCHANGED <<current, hurt, lapses>>
    BY <1>5 DEF BackToResume
  <2>2. TypeOK'
    BY <1>1, <1>3, <1>4, <2>1 DEF IInv, TypeOK, Saves
  <2>3. Ids' /\ Sole' /\ NothingLost'
    BY <1>1, <1>3, <2>1 DEF IInv, Ids, Sole, NothingLost, NoCall
  <2>4. Memory'
    BY <1>1, <1>3, <2>1 DEF IInv, Memory
  <2>5. Listing'
    BY <1>1, <1>3, <2>1, KeepListing DEF IInv, Listing
  <2> QED BY <2>2, <2>3, <2>4, <2>5 DEF IInv
<1>6. CASE files[s].state = "whole"
  <2>1. /\ current' = [current EXCEPT ![p] = [id |-> s, msgs |-> files[s].msgs]]
        /\ IF HeldByOther(p, s)
           THEN hurt' = hurt \cup {s} /\ lapses' = lapses \cup {"shared"}
           ELSE UNCHANGED <<hurt, lapses>>
    BY <1>6 DEF BackToResume
  <2> HIDE DEF s
  <2>2. \A q \in Processes :
           current'[q] = IF q = p THEN [id |-> s, msgs |-> files[s].msgs] ELSE current[q]
    BY <2>1 DEF IInv, TypeOK
  <2>3. TypeOK'
    <3>1. files[s].msgs \in SUBSET Messages
      BY <1>2, Types DEF IInv
    <3>2. current' \in [Processes -> [id : Sessions \cup {NoSession}, msgs : SUBSET Messages]]
      BY <1>2, <2>1, <3>1 DEF IInv, TypeOK
    <3>3. hurt' \in SUBSET Sessions /\ lapses' \in SUBSET {"blank", "race", "shared"}
      BY <1>2, <2>1 DEF IInv, TypeOK
    <3>4. \A q \in Processes :
             pc'[q] \in Saves => current'[q].id # NoSession /\ current'[q].msgs # {}
      BY <1>3, <2>2 DEF IInv, TypeOK, Saves
    <3> QED BY <1>1, <1>4, <3>2, <3>3, <3>4 DEF IInv, TypeOK
  <2>4. Ids'
    <3>1. \A q \in Processes : then[q].what = "new" => then[q].id # s
      BY <1>6 DEF IInv, Ids
    <3> QED BY <1>1, <1>2, <1>3, <2>2, <3>1 DEF IInv, Ids, NoCall
  <2>5. hurt \subseteq hurt' /\ lapses \subseteq lapses'
        /\ (s \notin hurt' \/ "shared" \notin lapses' =>
               \A q \in Processes \ {p} : current[q].id # s)
    BY <2>1 DEF HeldByOther
  <2>6. Sole'
    BY <2>2, <2>5 DEF IInv, Sole
  <2>7. Memory'
    BY <1>1, <1>3, <2>2, <2>5 DEF IInv, Memory
  <2>8. Listing'
    BY <1>1, <1>3, <2>2, KeepListing DEF IInv, Listing
  <2>9. NothingLost'
    <3>1. current[p].id \in Sessions \ hurt => current[p].msgs \subseteq files[current[p].id].msgs
      BY <1>1 DEF IInv, Memory
    <3> QED BY <1>1, <2>2, <2>5, <3>1, KeepMessages DEF IInv, TypeOK
  <2> QED BY <2>3, <2>4, <2>6, <2>7, <2>8, <2>9 DEF IInv
<1> QED BY <1>5, <1>6

LEMMA BackToQuitStep ==
    ASSUME IInv, NEW p \in Processes, BackToQuit(p)
    PROVE  IInv'
<1>1. /\ UNCHANGED <<files, index, current, loaded, said, issued, listed, hurt, lapses, mishaps>>
      /\ pc[p] = "back" /\ then[p].what = "quit"
      /\ then' = [then EXCEPT ![p].what = "drop"]
      /\ pc' = [pc EXCEPT ![p] = SaveStart(p, "drop")]
  BY DEF BackToQuit, GoTo
<1>2. /\ SaveStart(p, "drop") \in {"create", "prune", "back"}
      /\ SaveStart(p, "drop") = "create" => current[p].msgs # {}
  BY DEF SaveStart
<1>3. \A q \in Processes :
         /\ pc'[q] = IF q = p THEN SaveStart(p, "drop") ELSE pc[q]
         /\ then'[q] = IF q = p THEN [what |-> "drop", id |-> then[p].id] ELSE then[q]
  BY <1>1 DEF IInv, TypeOK
<1>4. TypeOK'
  <2>1. then' \in [Processes -> [what : {"none", "new", "resume", "quit", "drop"},
                                 id : Sessions \cup {NoSession}]]
    BY <1>1 DEF IInv, TypeOK
  <2>2. pc' \in [Processes -> {"off", "idle", "create", "write", "load", "open", "put",
                               "prune", "back"}]
    BY <1>1, <1>2 DEF IInv, TypeOK
  <2>3. \A q \in Processes : pc'[q] \in Saves => current[q].id # NoSession /\ current[q].msgs # {}
    BY <1>2, <1>3 DEF IInv, TypeOK, Saves, Ids
  <2> QED BY <1>1, <2>1, <2>2, <2>3 DEF IInv, TypeOK
<1>5. Ids'
  BY <1>1, <1>3 DEF IInv, Ids
<1>6. Sole' /\ NothingLost'
  BY <1>1 DEF IInv, Sole, NothingLost
<1>7. Memory'
  BY <1>1, <1>2, <1>3 DEF IInv, Memory
<1>8. Listing'
  BY <1>1, <1>2, <1>3, KeepListing DEF IInv, Listing
<1> QED BY <1>4, <1>5, <1>6, <1>7, <1>8 DEF IInv

(* A process that ends forgets its session: either it was saved, or it is hurt. *)
LEMMA EndStep ==
    ASSUME IInv, NEW p \in Processes,
           UNCHANGED <<files, index, said, issued, listed, lapses>>,
           hurt \subseteq hurt', hurt' \in SUBSET Sessions, mishaps' \in 0..MaxMishaps,
           current' = [current EXCEPT ![p] = Closed],
           pc' = [pc EXCEPT ![p] = "off"],
           then' = [then EXCEPT ![p] = NoCall],
           loaded' = loaded \/ loaded' = [loaded EXCEPT ![p] = Unloaded],
           current[p].id \in Sessions \ hurt' => pc[p] = "back"
    PROVE  IInv'
<1>1. \A q \in Processes :
         /\ pc'[q] = IF q = p THEN "off" ELSE pc[q]
         /\ then'[q] = IF q = p THEN NoCall ELSE then[q]
         /\ current'[q] = IF q = p THEN Closed ELSE current[q]
         /\ loaded'[q].of = loaded[q].of \/ loaded'[q].of = NoEntries
  BY DEF IInv, TypeOK, Unloaded
<1>2. TypeOK'
  <2>1. current' \in [Processes -> [id : Sessions \cup {NoSession}, msgs : SUBSET Messages]]
    BY DEF IInv, TypeOK, Closed
  <2>2. then' \in [Processes -> [what : {"none", "new", "resume", "quit", "drop"},
                                 id : Sessions \cup {NoSession}]]
    BY DEF IInv, TypeOK, NoCall
  <2>3. pc' \in [Processes -> {"off", "idle", "create", "write", "load", "open", "put",
                               "prune", "back"}]
    BY DEF IInv, TypeOK
  <2>4. loaded' \in [Processes -> [of : Entries, stale : BOOLEAN]]
    <3>1. Unloaded \in [of : Entries, stale : BOOLEAN]
      BY NoneListed DEF Unloaded
    <3> QED BY <3>1 DEF IInv, TypeOK
  <2>5. \A q \in Processes : pc'[q] \in Saves => current'[q].id # NoSession /\ current'[q].msgs # {}
    BY <1>1 DEF IInv, TypeOK, Saves
  <2> QED BY <2>1, <2>2, <2>3, <2>4, <2>5 DEF IInv, TypeOK
<1>3. Ids'
  <2>1. \A q \in Processes : then[q].what = "new" => then[q].id # NoSession
    BY ConstantsAssumption DEF IInv, Ids, TypeOK
  <2> QED BY <1>1, <2>1 DEF IInv, Ids, Closed, NoCall
<1>4. Sole'
  BY <1>1, ConstantsAssumption DEF IInv, Sole, Closed
<1>5. Memory'
  BY <1>1, ConstantsAssumption DEF IInv, Memory, Closed
<1>6. Listing'
  BY <1>1, KeepListing DEF IInv, Listing
<1>7. NothingLost'
  <2>1. current[p].id \in Sessions \ hurt' => current[p].msgs \subseteq files[current[p].id].msgs
    BY DEF IInv, Memory
  <2> QED BY <1>1, <2>1, KeepMessages DEF IInv, TypeOK
<1> QED BY <1>2, <1>3, <1>4, <1>5, <1>6, <1>7 DEF IInv

LEMMA BackToDropStep ==
    ASSUME IInv, NEW p \in Processes, BackToDrop(p)
    PROVE  IInv'
<1>1. hurt' \in SUBSET Sessions /\ mishaps' \in 0..MaxMishaps
  BY DEF BackToDrop, IInv, TypeOK
<1> QED BY <1>1, EndStep DEF BackToDrop, Return, GoTo

LEMMA MishapTypes ==
    ASSUME IInv, NEW p \in Processes, Mishap(p)
    PROVE  /\ hurt \subseteq hurt' /\ hurt' \in SUBSET Sessions
           /\ mishaps' \in 0..MaxMishaps
           /\ current[p].id \notin Sessions \ hurt'
<1>1. mishaps' \in 0..MaxMishaps
  BY ConstantsAssumption DEF Mishap, IInv, TypeOK
<1>2. hurt' = hurt \cup ({current[p].id} \cap Sessions)
  BY DEF Mishap
<1> QED BY <1>1, <1>2 DEF IInv, TypeOK

LEMMA CrashStep ==
    ASSUME IInv, NEW p \in Processes, Crash(p)
    PROVE  IInv'
BY EndStep, MishapTypes DEF Crash, Return, GoTo

(* After a failed operation the session is hurt, and the save goes on or not. *)
LEMMA FailStep ==
    ASSUME IInv, NEW p \in Processes, NEW l \in {"load", "prune", "back"}, Mishap(p),
           pc[p] \in Saves, pc' = [pc EXCEPT ![p] = l],
           l = "load" => pc[p] = "write",
           UNCHANGED <<current, then, said, issued, listed, lapses>>,
           UNCHANGED files
               \/ (pc[p] = "write" /\ files' = [files EXCEPT ![current[p].id] = Torn]),
           index' = index \/ index' = TornIndex,
           loaded' \in [Processes -> [of : Entries, stale : BOOLEAN]],
           \A q \in Processes : loaded'[q].of = loaded[q].of \/ loaded'[q].of = NoEntries
    PROVE  IInv'
<1> DEFINE s == current[p].id
<1>1. s \in Sessions /\ s \in issued /\ s \in hurt' /\ hurt \subseteq hurt'
  BY MishapTypes, Types DEF IInv, TypeOK, Saves, Ids
<1>2. /\ \A q \in Processes : pc'[q] = IF q = p THEN l ELSE pc[q]
      /\ \A t \in Sessions : t # s => files'[t] = files[t]
      /\ files'[s] = files[s] \/ (pc[p] = "write" /\ files'[s] = Torn)
  BY <1>1 DEF IInv, TypeOK
<1> HIDE DEF s
<1>3. TypeOK'
  <2>1. files' \in [Sessions -> [state : {"absent", "blank", "torn", "whole"},
                                 msgs : SUBSET Messages]]
    <3>1. Torn \in [state : {"absent", "blank", "torn", "whole"}, msgs : SUBSET Messages]
      BY DEF Torn
    <3>2. CASE UNCHANGED files
      BY <3>2 DEF IInv, TypeOK
    <3>3. CASE files' = [files EXCEPT ![current[p].id] = Torn]
      BY <3>1, <3>3 DEF IInv, TypeOK
    <3> QED BY <3>2, <3>3
  <2>2. /\ pc' \in [Processes -> {"off", "idle", "create", "write", "load", "open", "put",
                                  "prune", "back"}]
        /\ \A q \in Processes : pc'[q] \in Saves => pc[q] \in Saves
    BY DEF IInv, TypeOK, Saves
  <2>3. index' \in [state : {"blank", "torn", "whole"}, of : Entries]
    BY NoneListed DEF IInv, TypeOK, TornIndex
  <2> QED BY <2>1, <2>2, <2>3, MishapTypes DEF IInv, TypeOK
<1>4. Ids'
  <2>1. \A q \in Processes : then[q].what = "new" => then[q].id # s
    BY DEF IInv, Ids, s
  <2>2. \A q \in Processes : then[q].what = "new" => then[q].id \in Sessions
    BY Types, ConstantsAssumption DEF IInv, Ids, TypeOK
  <2>3. \A t \in listed : t \in Sessions
    BY DEF IInv, TypeOK
  <2>4. Torn.state = "torn" /\ Torn.msgs = {}
    BY DEF Torn
  <2> QED BY <1>1, <1>2, <2>1, <2>2, <2>3, <2>4 DEF IInv, Ids
<1>5. Sole'
  BY <1>1 DEF IInv, Sole
<1>6. Memory'
  BY <1>1, <1>2 DEF IInv, Memory, s
<1>7. Listing'
  <2>1. \A t \in Sessions : files[t].state # "absent" => files'[t].state # "absent"
    BY <1>2 DEF Torn
  <2>2. \A q \in Processes : pc'[q] \in {"write", "load", "open", "put"} =>
            files'[current'[q].id].state # "absent"
    <3>1. \A q \in Processes : pc'[q] \in {"write", "load", "open", "put"} =>
             pc[q] \in {"write", "load", "open", "put"} /\ current[q].id \in Sessions
      BY <1>2, Types DEF IInv, TypeOK, Saves
    <3> QED BY <2>1, <3>1 DEF IInv, Listing
  <2>3. index' = index \/ index'.of = NoEntries
    BY DEF TornIndex
  <2> QED BY <2>1, <2>2, <2>3, KeepListing DEF IInv
<1>8. NothingLost'
  BY <1>1, <1>2, KeepMessages DEF IInv, TypeOK
<1> QED BY <1>3, <1>4, <1>5, <1>6, <1>7, <1>8 DEF IInv

LEMMA LoadedAfter ==
    ASSUME TypeOK, NEW p \in Processes,
           loaded' \in {loaded, [loaded EXCEPT ![p] = Unloaded], [Outdate(p) EXCEPT ![p] = Unloaded]}
    PROVE  /\ loaded' \in [Processes -> [of : Entries, stale : BOOLEAN]]
           /\ \A q \in Processes : loaded'[q].of = loaded[q].of \/ loaded'[q].of = NoEntries
<1>1. Unloaded \in [of : Entries, stale : BOOLEAN] /\ Unloaded.of = NoEntries
  BY NoneListed DEF Unloaded
<1>2. /\ Outdate(p) \in [Processes -> [of : Entries, stale : BOOLEAN]]
      /\ \A q \in Processes : Outdate(p)[q].of = loaded[q].of
  BY OutdateTypes
<1>3. CASE loaded' = [Outdate(p) EXCEPT ![p] = Unloaded]
  BY <1>1, <1>2, <1>3
<1>4. CASE loaded' = loaded
  BY <1>4 DEF TypeOK
<1>5. CASE loaded' = [loaded EXCEPT ![p] = Unloaded]
  BY <1>1, <1>5 DEF TypeOK
<1> QED BY <1>3, <1>4, <1>5

LEMMA CreateFailsStep ==
    ASSUME IInv, NEW p \in Processes, CreateFails(p)
    PROVE  IInv'
<1>1. /\ loaded' \in [Processes -> [of : Entries, stale : BOOLEAN]]
      /\ \A q \in Processes : loaded'[q].of = loaded[q].of \/ loaded'[q].of = NoEntries
  BY LoadedAfter DEF CreateFails, IInv
<1> QED BY <1>1, FailStep DEF CreateFails, GoTo, Saves

LEMMA WriteFailsStep ==
    ASSUME IInv, NEW p \in Processes, WriteFails(p)
    PROVE  IInv'
<1>1. /\ loaded' \in [Processes -> [of : Entries, stale : BOOLEAN]]
      /\ \A q \in Processes : loaded'[q].of = loaded[q].of \/ loaded'[q].of = NoEntries
  BY LoadedAfter DEF WriteFails, IInv
<1>2. CASE pc[p] = "write"
  <2>1. PICK l \in {"back", "load"} : pc' = [pc EXCEPT ![p] = l]
    BY <1>2 DEF WriteFails, GoTo
  <2> QED BY <1>1, <1>2, <2>1, FailStep DEF WriteFails, Saves
<1>3. CASE pc[p] = "put"
  <2>1. PICK l \in {"back", "prune"} : pc' = [pc EXCEPT ![p] = l]
    BY <1>3 DEF WriteFails, GoTo, Saved
  <2> QED BY <1>1, <1>3, <2>1, FailStep DEF WriteFails, Saves
<1> QED BY <1>2, <1>3 DEF WriteFails

LEMMA NextStep == IInv /\ [Next]_vars => IInv'
<1> SUFFICES ASSUME IInv, [Next]_vars PROVE IInv'
  OBVIOUS
<1>1. CASE UNCHANGED vars
  BY <1>1 DEF vars, IInv, TypeOK, Ids, Sole, Memory, Listing, Entered, NothingLost
<1>2. ASSUME NEW p \in Processes, Start(p) \/ Say(p) PROVE IInv'
  BY <1>2, StartStep, SayStep
<1>3. ASSUME NEW p \in Processes, NewChat(p) \/ Resume(p) \/ Quit(p) PROVE IInv'
  BY <1>3, CommandStep
<1>4. ASSUME NEW p \in Processes, CreateFile(p) \/ WriteFile(p) PROVE IInv'
  BY <1>4, CreateFileStep, WriteFileStep
<1>5. ASSUME NEW p \in Processes, LoadIndex(p) \/ OpenIndex(p) \/ PutIndex(p) \/ Prune(p)
      PROVE  IInv'
  BY <1>5, LoadIndexStep, OpenIndexStep, PutIndexStep, PruneStep
<1>6. ASSUME NEW p \in Processes, Back(p) PROVE IInv'
  BY <1>6, BackToNewStep, BackToResumeStep, BackToQuitStep, BackToDropStep DEF Back
<1>7. ASSUME NEW p \in Processes, Crash(p) \/ CreateFails(p) \/ WriteFails(p) PROVE IInv'
  BY <1>7, CrashStep, CreateFailsStep, WriteFailsStep
<1> QED BY <1>1, <1>2, <1>3, <1>4, <1>5, <1>6, <1>7 DEF Next

(* The invariant holds in every reachable state. *)
THEOREM Invariance == Spec => []IInv
<1> QED BY InitStep, NextStep, PTL DEF Spec

(* Every variable keeps its type, and only a session with messages is saved: *)
(* HistoryManager::save_session.                                             *)
THEOREM TypeCorrect == Spec => []TypeOK
<1>1. IInv => TypeOK
  BY DEF IInv
<1> QED BY <1>1, Invariance, PTL

(* Leaving a session, by opening another or quitting, loses no message:       *)
(* HistoryManager::new_session, transfer_to_new_session, resume_session, drop. *)
THEOREM MessagesKept == Spec => []NothingLost
<1>1. IInv => NothingLost
  BY DEF IInv
<1> QED BY <1>1, Invariance, PTL

(* Every entry of the index is of a session that has a file: update_index and *)
(* prune_old_sessions.                                                        *)
THEOREM EntriesHaveFiles == Spec => []ListedHasFile
<1>1. IInv => ListedHasFile
  BY DEF IInv, Listing, Entered, ListedHasFile
<1> QED BY <1>1, Invariance, PTL

(* No step removes a session file: auto_prune has nothing to prune. *)
THEOREM NothingPruned == Spec => FilesStay
<1>1. ASSUME IInv, [Next]_vars, NEW s \in Sessions, files[s].state # "absent"
      PROVE  files'[s].state # "absent"
  <2>1. ASSUME NEW p \in Processes, CreateFile(p) PROVE files'[s].state # "absent"
    BY <1>1, <2>1 DEF CreateFile, Torn, Blank, IInv, TypeOK
  <2>2. ASSUME NEW p \in Processes, WriteFile(p) PROVE files'[s].state # "absent"
    BY <1>1, <2>2 DEF WriteFile, Torn, Whole, IInv, TypeOK
  <2>3. ASSUME NEW p \in Processes, Prune(p) PROVE files'[s].state # "absent"
    BY <1>1, <2>3, PruneNothing
  <2>4. ASSUME NEW p \in Processes, WriteFails(p) PROVE files'[s].state # "absent"
    BY <1>1, <2>4 DEF WriteFails, Torn, IInv, TypeOK
  <2>5. ASSUME NEW p \in Processes,
               \/ Start(p) \/ Say(p) \/ NewChat(p) \/ Resume(p) \/ Quit(p)
               \/ LoadIndex(p) \/ OpenIndex(p) \/ PutIndex(p)
               \/ Back(p) \/ Crash(p) \/ CreateFails(p)
        PROVE  UNCHANGED files
    BY <2>5 DEF Start, Say, NewChat, Resume, Quit, Leave, LoadIndex, OpenIndex, PutIndex,
                Back, BackToNew, BackToResume, BackToQuit, BackToDrop, Crash, CreateFails
  <2>6. CASE UNCHANGED vars
    BY <1>1, <2>6 DEF vars
  <2> QED BY <1>1, <2>1, <2>2, <2>3, <2>4, <2>5, <2>6 DEF Next
<1>2. IInv /\ [Next]_vars =>
        [\A s \in Sessions : files[s].state # "absent" => files'[s].state # "absent"]_vars
  BY <1>1
<1> QED BY <1>2, Invariance, PTL DEF Spec, FilesStay

-----------------------------------------------------------------------------
(* The index describes the files.                                          *)

(* Entries count no message that the file of their session, when it is whole, *)
(* or the memory of the session's holder lacks.                               *)
Behind(e, f, c) ==
    /\ \A s \in Sessions : f[s].state = "whole" => e[s] \subseteq f[s].msgs
    /\ \A q \in Processes : c[q].id \in Sessions => e[c[q].id] \subseteq c[q].msgs

(* While no session is shared, entries are behind, and a session whose save *)
(* has come to the index was written as it is in memory.                    *)
NeverAhead ==
    "shared" \notin lapses =>
        /\ Behind(index.of, files, current)
        /\ \A q \in Processes : Behind(loaded[q].of, files, current)
        /\ \A q \in Processes :
              pc[q] \in {"load", "open", "put"} /\ files[current[q].id].state = "whole" =>
                  files[current[q].id].msgs = current[q].msgs

(* Without a lapse one process at a time changes the index: while it does,  *)
(* the index is unreadable and what the others have loaded is out of date.  *)
OneWriter ==
    \A q \in Processes : pc[q] = "put" =>
        /\ ~loaded[q].stale
        /\ index.state # "whole"
        /\ \A r \in Processes \ {q} :
              pc[r] # "put" /\ (pc[r] = "open" => loaded[r].stale)

(* The entry of s counts what the file of s has, or gave way to newer ones. *)
EntryOK(e, s, f) ==
    \/ e[s] = f[s].msgs
    \/ /\ e[s] = {}
       /\ Cardinality(Listed(e)) = IndexLimit
       /\ \A t \in Listed(e) : ~Newer(f[s].msgs, e[t])
Describes(e, S, f) == \A s \in S : EntryOK(e, s, f)

(* Undisturbed sessions that no process in P is saving. *)
Quiet(P) == {s \in Sessions \ hurt : \A q \in P : ~Saving(q, s)}

(* The index describes the quiet sessions, and what a process is about to  *)
(* write those that are quiet but for its own.                             *)
Described ==
    /\ index.state = "whole" => Describes(index.of, Quiet(Processes), files)
    /\ \A q \in Processes :
          pc[q] \in {"open", "put"} /\ ~loaded[q].stale =>
              Describes(loaded[q].of, Quiet(Processes \ {q}), files)

LInv == NeverAhead /\ (lapses = {} => OneWriter /\ Described)

-----------------------------------------------------------------------------
(* Facts about entries.                                                    *)

LEMMA Quieter ==
    ASSUME NEW P \in SUBSET Processes, hurt \subseteq hurt',
           \A q \in P : \A s \in Sessions \ hurt' : Saving(q, s) => Saving(q, s)'
    PROVE  Quiet(P)' \subseteq Quiet(P)
BY DEF Quiet

LEMMA StillDescribes ==
    ASSUME NEW e, NEW S, NEW T, NEW f, NEW g, Describes(e, S, f),
           T \subseteq S, \A s \in T : g[s].msgs = f[s].msgs
    PROVE  Describes(e, T, g)
BY DEF Describes, EntryOK

LEMMA StillBehind ==
    ASSUME NEW e \in Entries, Entered(e, files), Behind(e, files, current),
           \A s \in Sessions :
               \/ files'[s] = files[s]
               \/ files'[s].state # "whole"
               \/ \E q \in Processes : current[q].id = s /\ files'[s].msgs = current[q].msgs,
           \A q \in Processes : current'[q].id \in Sessions =>
               \/ current'[q].id = current[q].id /\ current[q].msgs \subseteq current'[q].msgs
               \/ files[current'[q].id].state = "absent"
               \/ /\ files[current'[q].id].state = "whole"
                  /\ current'[q].msgs = files[current'[q].id].msgs
    PROVE  Behind(e, files', current')
<1>1. \A s \in Sessions : files[s].state = "absent" => e[s] = {}
  BY DEF Entered, Listed
<1>2. \A s \in Sessions : files'[s].state = "whole" => e[s] \subseteq files'[s].msgs
  BY DEF Behind
<1>3. ASSUME NEW q \in Processes, current'[q].id \in Sessions
      PROVE  e[current'[q].id] \subseteq current'[q].msgs
  BY <1>1, <1>3 DEF Behind
<1> QED BY <1>2, <1>3 DEF Behind

LEMMA NothingBehind == ASSUME NEW f, NEW c PROVE Behind(NoEntries, f, c)
BY DEF Behind, NoEntries

-----------------------------------------------------------------------------
(* Steps that do not change the index, but for making it unreadable.       *)

Ordinary(p) ==
    /\ index' = index \/ index' = TornIndex
    /\ hurt \subseteq hurt' /\ lapses \subseteq lapses'
    /\ pc'[p] \notin {"open", "put"}
    /\ \A q \in Processes \ {p} :
          /\ pc'[q] = pc[q] /\ current'[q] = current[q] /\ loaded'[q].of = loaded[q].of
          /\ loaded[q].stale => loaded'[q].stale
          /\ pc[p] # "put" => loaded'[q].stale = loaded[q].stale
    /\ loaded'[p].of = loaded[p].of \/ loaded'[p].of = NoEntries
    \* files
    /\ \A s \in Sessions :
          \/ files'[s] = files[s]
          \/ /\ s = current[p].id /\ pc[p] \in {"create", "write"}
             /\ files'[s].state # "whole" \/ files'[s].msgs = current[p].msgs
             /\ s \notin hurt' => current'[p].id = s /\ pc'[p] \in {"write", "load"}
    \* sessions in memory
    /\ current'[p].id \in Sessions =>
          \/ current'[p].id = current[p].id /\ current[p].msgs \subseteq current'[p].msgs
          \/ files[current'[p].id].state = "absent"
          \/ /\ files[current'[p].id].state = "whole"
             /\ current'[p].msgs = files[current'[p].id].msgs
    /\ pc'[p] = "load" =>
          /\ current'[p] = current[p]
          /\ files'[current[p].id].state = "whole" => files'[current[p].id].msgs = current[p].msgs
    /\ \A s \in Sessions \ hurt' : Saving(p, s) => Saving(p, s)'

LEMMA OrdinaryAhead ==
    ASSUME IInv, NeverAhead, NEW p \in Processes, Ordinary(p)
    PROVE  NeverAhead'
<1> SUFFICES ASSUME "shared" \notin lapses'
             PROVE  /\ Behind(index'.of, files', current')
                    /\ \A q \in Processes : Behind(loaded'[q].of, files', current')
                    /\ \A q \in Processes :
                          pc'[q] \in {"load", "open", "put"}
                              /\ files'[current'[q].id].state = "whole" =>
                                  files'[current'[q].id].msgs = current'[q].msgs
  BY DEF NeverAhead
<1>1. "shared" \notin lapses
  BY DEF Ordinary
<1>2. ASSUME NEW e \in Entries, Entered(e, files), Behind(e, files, current)
      PROVE  Behind(e, files', current')
  <2>1. \A s \in Sessions :
           \/ files'[s] = files[s]
           \/ files'[s].state # "whole"
           \/ \E q \in Processes : current[q].id = s /\ files'[s].msgs = current[q].msgs
    BY DEF Ordinary
  <2>2. \A q \in Processes : current'[q].id \in Sessions =>
           \/ current'[q].id = current[q].id /\ current[q].msgs \subseteq current'[q].msgs
           \/ files[current'[q].id].state = "absent"
           \/ /\ files[current'[q].id].state = "whole"
              /\ current'[q].msgs = files[current'[q].id].msgs
    BY DEF Ordinary
  <2> QED BY <1>2, <2>1, <2>2, StillBehind
<1>3. Behind(NoEntries, files', current')
  BY NothingBehind
<1>4. index'.of = index.of \/ index'.of = NoEntries
  BY DEF Ordinary, TornIndex
<1>5. Behind(index'.of, files', current')
  <2>1. index.of \in Entries /\ Entered(index.of, files) /\ Behind(index.of, files, current)
    BY <1>1, Types DEF IInv, Listing, NeverAhead
  <2>2. Behind(index.of, files', current')
    BY <1>2, <2>1
  <2> QED BY <1>3, <1>4, <2>2
<1>6. ASSUME NEW q \in Processes PROVE Behind(loaded'[q].of, files', current')
  <2>1. loaded[q].of \in Entries /\ Entered(loaded[q].of, files)
        /\ Behind(loaded[q].of, files, current)
    BY <1>1, Types DEF IInv, Listing, NeverAhead
  <2>2. Behind(loaded[q].of, files', current')
    BY <1>2, <2>1
  <2>3. loaded'[q].of = loaded[q].of \/ loaded'[q].of = NoEntries
    BY DEF Ordinary
  <2> QED BY <1>3, <2>2, <2>3
<1>7. ASSUME NEW q \in Processes, pc'[q] \in {"load", "open", "put"},
             files'[current'[q].id].state = "whole"
      PROVE  files'[current'[q].id].msgs = current'[q].msgs
  <2>1. CASE q = p
    BY <1>7, <2>1 DEF Ordinary
  <2>2. CASE q # p
    <3>1. pc[q] \in {"load", "open", "put"} /\ current'[q] = current[q]
      BY <1>7, <2>2 DEF Ordinary
    <3>2. current[q].id \in Sessions
      BY <3>1, Types DEF IInv, TypeOK, Saves
    <3>3. current[q].id # current[p].id
      BY <1>1, <2>2, <3>2 DEF IInv, Sole
    <3>4. files'[current[q].id] = files[current[q].id]
      BY <3>2, <3>3 DEF Ordinary
    <3> QED BY <1>1, <1>7, <3>1, <3>4 DEF NeverAhead
  <2> QED BY <2>1, <2>2
<1> QED BY <1>5, <1>6, <1>7

LEMMA OrdinaryOneWriter ==
    ASSUME OneWriter, NEW p \in Processes, Ordinary(p)
    PROVE  OneWriter'
<1> SUFFICES ASSUME NEW q \in Processes, pc'[q] = "put"
             PROVE  /\ ~loaded'[q].stale
                    /\ index'.state # "whole"
                    /\ \A r \in Processes \ {q} :
                          pc'[r] # "put" /\ (pc'[r] = "open" => loaded'[r].stale)
  BY DEF OneWriter
<1>1. q # p /\ pc[q] = "put"
  BY DEF Ordinary
<1>2. pc[p] # "put" /\ index'.state # "whole"
  BY <1>1 DEF OneWriter, Ordinary, TornIndex
<1>3. ~loaded'[q].stale
  BY <1>1, <1>2, Zenon DEF OneWriter, Ordinary
<1>4. \A r \in Processes \ {q} : pc'[r] # "put" /\ (pc'[r] = "open" => loaded'[r].stale)
  <2> TAKE r \in Processes \ {q}
  <2>1. CASE r = p
    BY <2>1 DEF Ordinary
  <2>2. CASE r # p
    BY <1>1, <2>2 DEF OneWriter, Ordinary
  <2> QED BY <2>1, <2>2
<1> QED BY <1>2, <1>3, <1>4

LEMMA OrdinaryDescribed ==
    ASSUME Described, NEW p \in Processes, Ordinary(p)
    PROVE  Described'
<1>1. ASSUME NEW P \in SUBSET Processes
      PROVE  Quiet(P)' \subseteq Quiet(P)
  <2>1. \A q \in P : \A s \in Sessions \ hurt' : Saving(q, s) => Saving(q, s)'
    BY DEF Ordinary, Saving
  <2> QED BY <2>1, Quieter DEF Ordinary
<1>2. ASSUME NEW P \in SUBSET Processes, p \in P, NEW s \in Quiet(P)'
      PROVE  files'[s].msgs = files[s].msgs
  BY <1>2 DEF Quiet, Ordinary, Saving
<1>3. index'.state = "whole" => Describes(index'.of, Quiet(Processes)', files')
  <2> SUFFICES ASSUME index'.state = "whole"
               PROVE  Describes(index'.of, Quiet(Processes)', files')
    OBVIOUS
  <2>1. index' = index
    BY DEF Ordinary, TornIndex
  <2>2. Describes(index.of, Quiet(Processes), files)
    BY <2>1 DEF Described
  <2>3. Describes(index.of, Quiet(Processes)', files')
    BY <1>1, <1>2, <2>2, StillDescribes
  <2> QED BY <2>1, <2>3
<1>4. ASSUME NEW q \in Processes, pc'[q] \in {"open", "put"}, ~loaded'[q].stale
      PROVE  Describes(loaded'[q].of, Quiet(Processes \ {q})', files')
  <2>1. q # p /\ pc[q] \in {"open", "put"} /\ ~loaded[q].stale /\ loaded'[q].of = loaded[q].of
    BY <1>4 DEF Ordinary
  <2>2. Describes(loaded[q].of, Quiet(Processes \ {q}), files)
    BY <2>1 DEF Described
  <2>3. Describes(loaded[q].of, Quiet(Processes \ {q})', files')
    <3>1. Processes \ {q} \in SUBSET Processes /\ p \in Processes \ {q}
      BY <2>1
    <3> QED BY <1>1, <1>2, <2>2, <3>1, StillDescribes
  <2> QED BY <2>1, <2>3
<1> QED BY <1>3, <1>4 DEF Described

LEMMA OrdinaryStep ==
    ASSUME IInv, LInv, NEW p \in Processes, Ordinary(p)
    PROVE  LInv'
<1>1. lapses' = {} => lapses = {}
  BY DEF Ordinary
<1> QED BY <1>1, OrdinaryAhead, OrdinaryOneWriter, OrdinaryDescribed DEF LInv

-----------------------------------------------------------------------------
(* Every step but the three that change the index is ordinary.             *)

LEMMA CommandOrdinary ==
    ASSUME IInv, NEW p \in Processes, Start(p) \/ Say(p) \/ NewChat(p) \/ Resume(p) \/ Quit(p)
    PROVE  Ordinary(p)
<1>1. CASE Start(p)
  BY <1>1 DEF IInv, TypeOK, Start, GoTo, Ordinary, Saving
<1>2. CASE Say(p)
  <2>1. PICK s \in IF current[p].id = NoSession THEN Sessions \ issued ELSE {current[p].id} :
          current' = [current EXCEPT ![p] =
              [id |-> s, msgs |-> current[p].msgs \cup {Len(said) + 1}]]
    BY <1>2, Zenon DEF Say
  <2>2. pc[p] = "idle" /\ UNCHANGED <<files, index, pc, loaded, hurt, lapses>>
    BY <1>2 DEF Say
  <2>3. /\ current'[p].id = s /\ current[p].msgs \subseteq current'[p].msgs
        /\ \A q \in Processes \ {p} : current'[q] = current[q]
    BY <2>1 DEF IInv, TypeOK
  <2>4. s = current[p].id \/ files[s].state = "absent"
    BY <2>1 DEF IInv, Ids
  <2> QED BY <2>2, <2>3, <2>4 DEF Ordinary, Saving
<1>3. ASSUME NEW what, NEW s, Leave(p, what, s)
      PROVE  Ordinary(p)
  <2>1. /\ pc[p] = "idle" /\ UNCHANGED <<files, index, current, loaded, hurt, lapses>>
        /\ pc'[p] \in {"create", "prune", "back"}
        /\ \A q \in Processes \ {p} : pc'[q] = pc[q]
    BY <1>3 DEF IInv, TypeOK, Leave, GoTo, SaveStart
  <2> QED BY <2>1 DEF Ordinary, Saving
<1> QED BY <1>1, <1>2, <1>3 DEF NewChat, Resume, Quit

LEMMA FileOrdinary ==
    ASSUME IInv, NEW p \in Processes, CreateFile(p) \/ WriteFile(p) \/ Prune(p)
    PROVE  Ordinary(p)
<1>1. CASE CreateFile(p)
  <2>1. /\ pc[p] = "create" /\ pc' = [pc EXCEPT ![p] = "write"]
        /\ UNCHANGED <<index, current, loaded, hurt, lapses>>
        /\ \E f \in {Torn, Blank} : files' = [files EXCEPT ![current[p].id] = f]
    BY <1>1 DEF CreateFile, GoTo
  <2>2. pc'[p] = "write" /\ \A q \in Processes \ {p} : pc'[q] = pc[q]
    BY <2>1 DEF IInv, TypeOK
  <2>3. \A s \in Sessions : files'[s] = files[s]
            \/ (s = current[p].id /\ files'[s].state # "whole")
    BY <2>1 DEF IInv, TypeOK, Torn, Blank
  <2> QED BY <2>1, <2>2, <2>3 DEF Ordinary, Saving
<1>2. CASE WriteFile(p)
  <2>1. /\ pc[p] = "write" /\ pc' = [pc EXCEPT ![p] = "load"]
        /\ UNCHANGED <<index, current, loaded, hurt, lapses>>
        /\ \E f \in {Whole(current[p].msgs), Torn} : files' = [files EXCEPT ![current[p].id] = f]
    BY <1>2 DEF WriteFile, GoTo
  <2>2. pc'[p] = "load" /\ \A q \in Processes \ {p} : pc'[q] = pc[q]
    BY <2>1 DEF IInv, TypeOK
  <2>3. \A s \in Sessions : files'[s] = files[s]
            \/ (s = current[p].id
                  /\ (files'[s].state # "whole" \/ files'[s].msgs = current[p].msgs))
    BY <2>1 DEF IInv, TypeOK, Torn, Whole
  <2>4. current[p].id \in Sessions
            /\ (files'[current[p].id].state = "whole"
                   => files'[current[p].id].msgs = current[p].msgs)
    <3>1. current[p].id \in Sessions
      BY <2>1, Types DEF IInv, TypeOK, Saves
    <3> QED BY <3>1, <2>1 DEF IInv, TypeOK, Torn, Whole
  <2> QED BY <2>1, <2>2, <2>3, <2>4 DEF Ordinary, Saving
<1>3. CASE Prune(p)
  <2>1. UNCHANGED <<files, index, current, loaded, hurt, lapses>>
    BY <1>3, PruneNothing DEF Prune
  <2>2. pc[p] = "prune" /\ pc'[p] = "back" /\ \A q \in Processes \ {p} : pc'[q] = pc[q]
    BY <1>3 DEF Prune, GoTo, IInv, TypeOK
  <2> QED BY <2>1, <2>2 DEF Ordinary, Saving
<1> QED BY <1>1, <1>2, <1>3

LEMMA BackOrdinary ==
    ASSUME IInv, NEW p \in Processes, Back(p)
    PROVE  Ordinary(p)
<1>1. /\ pc[p] = "back" /\ UNCHANGED <<files, index, loaded>>
      /\ pc'[p] \in {"idle", "off", "create", "prune", "back"}
      /\ \A q \in Processes \ {p} : pc'[q] = pc[q]
  BY DEF Back, BackToNew, BackToResume, BackToQuit, BackToDrop, Return, GoTo, SaveStart,
         IInv, TypeOK
<1>2. CASE BackToNew(p)
  <2>1. /\ UNCHANGED <<hurt, lapses>>
        /\ \A q \in Processes :
              current'[q] = IF q = p THEN [id |-> then[p].id, msgs |-> {}] ELSE current[q]
    BY <1>2 DEF BackToNew, IInv, TypeOK
  <2>2. files[then[p].id].state = "absent"
    BY <1>2 DEF BackToNew, IInv, Ids
  <2> QED BY <1>1, <2>1, <2>2 DEF Ordinary, Saving
<1>3. CASE BackToResume(p)
  <2>1. CASE files[then[p].id].state = "whole"
    <3>1. \A q \in Processes :
             current'[q] = IF q = p THEN [id |-> then[p].id, msgs |-> files[then[p].id].msgs]
                                    ELSE current[q]
      BY <1>3, <2>1 DEF BackToResume, IInv, TypeOK
    <3>2. hurt \subseteq hurt' /\ lapses \subseteq lapses'
      BY <1>3, <2>1 DEF BackToResume
    <3> QED BY <1>1, <2>1, <3>1, <3>2 DEF Ordinary, Saving
  <2>2. CASE files[then[p].id].state # "whole"
    <3>1. UNCHANGED <<current, hurt, lapses>>
      BY <1>3, <2>2 DEF BackToResume
    <3> QED BY <1>1, <3>1 DEF Ordinary, Saving
  <2> QED BY <2>1, <2>2
<1>4. CASE BackToQuit(p)
  <2>1. UNCHANGED <<current, hurt, lapses>>
    BY <1>4 DEF BackToQuit
  <2> QED BY <1>1, <2>1 DEF Ordinary, Saving
<1>5. CASE BackToDrop(p)
  <2>1. /\ UNCHANGED <<hurt, lapses>>
        /\ \A q \in Processes : current'[q] = IF q = p THEN Closed ELSE current[q]
    BY <1>5 DEF BackToDrop, IInv, TypeOK
  <2>2. Closed.id \notin Sessions
    BY ConstantsAssumption DEF Closed
  <2> QED BY <1>1, <2>1, <2>2 DEF Ordinary, Saving
<1> QED BY <1>2, <1>3, <1>4, <1>5 DEF Back

LEMMA MishapOrdinary ==
    ASSUME IInv, NEW p \in Processes, Crash(p) \/ CreateFails(p) \/ WriteFails(p)
    PROVE  Ordinary(p)
<1>1. /\ hurt \subseteq hurt' /\ current[p].id \notin Sessions \ hurt'
      /\ lapses' = lapses
  BY MishapTypes DEF Crash, CreateFails, WriteFails
<1>2. Unloaded.of = NoEntries
  BY DEF Unloaded
<1>3. CASE Crash(p)
  <2>1. /\ UNCHANGED <<files, index>> /\ pc'[p] = "off"
        /\ \A q \in Processes \ {p} : pc'[q] = pc[q] /\ loaded'[q] = loaded[q]
        /\ \A q \in Processes : current'[q] = IF q = p THEN Closed ELSE current[q]
        /\ loaded'[p] = Unloaded
    BY <1>3 DEF Crash, Return, GoTo, IInv, TypeOK
  <2>2. Closed.id \notin Sessions
    BY ConstantsAssumption DEF Closed
  <2> QED BY <1>1, <1>2, <2>1, <2>2 DEF Ordinary, Saving
<1>4. CASE CreateFails(p)
  <2>1. /\ UNCHANGED <<files, index, current>> /\ pc'[p] = "back"
        /\ \A q \in Processes \ {p} : pc'[q] = pc[q] /\ loaded'[q] = loaded[q]
        /\ loaded'[p] = Unloaded
    BY <1>4 DEF CreateFails, GoTo, IInv, TypeOK
  <2> QED BY <1>1, <1>2, <2>1 DEF Ordinary, Saving
<1>5. CASE WriteFails(p) /\ pc[p] = "write"
  <2>1. /\ UNCHANGED <<index, current, loaded>> /\ pc'[p] \in {"back", "load"}
        /\ \A q \in Processes \ {p} : pc'[q] = pc[q]
        /\ files' = [files EXCEPT ![current[p].id] = Torn]
    BY <1>5 DEF WriteFails, GoTo, IInv, TypeOK
  <2>2. /\ \A s \in Sessions : files'[s] = files[s]
              \/ (s = current[p].id /\ files'[s].state # "whole")
        /\ current[p].id \in Sessions /\ files'[current[p].id].state # "whole"
    <3>1. current[p].id \in Sessions
      BY <1>5, Types DEF IInv, TypeOK, Saves
    <3> QED BY <2>1, <3>1 DEF Torn, IInv, TypeOK
  <2> QED BY <1>1, <1>5, <2>1, <2>2 DEF Ordinary, Saving
<1>6. CASE WriteFails(p) /\ pc[p] = "put"
  <2>1. /\ UNCHANGED <<files, current>> /\ pc'[p] \in {"back", "prune"}
        /\ \A q \in Processes \ {p} : pc'[q] = pc[q]
        /\ index' = TornIndex
        /\ loaded' = [Outdate(p) EXCEPT ![p] = Unloaded]
    BY <1>6 DEF WriteFails, GoTo, Saved, IInv, TypeOK
  <2>2. \A q \in Processes \ {p} : loaded'[q].of = loaded[q].of
    BY <2>1, OutdateTypes DEF IInv
  <2>3. \A q \in Processes \ {p} : loaded[q].stale => loaded'[q].stale
    <3> TAKE q \in Processes \ {p}
    <3>1. loaded'[q] = [loaded[q] EXCEPT !.stale =
                            loaded[q].stale \/ (q # p /\ pc[q] \in {"open", "put"})]
      BY <2>1 DEF Outdate
    <3>2. loaded'[q].stale = (loaded[q].stale \/ (q # p /\ pc[q] \in {"open", "put"}))
      BY <3>1 DEF IInv, TypeOK
    <3> QED BY <3>2, Zenon
  <2>4. loaded'[p].of = NoEntries
    <3>1. loaded'[p] = Unloaded
      BY <2>1 DEF Outdate
    <3> QED BY <1>2, <3>1
  <2> QED BY <1>1, <1>6, <2>1, <2>2, <2>3, <2>4 DEF Ordinary, Saving
<1> QED BY <1>3, <1>4, <1>5, <1>6 DEF WriteFails

-----------------------------------------------------------------------------
(* The three steps that change the index.                                  *)

(* What a step of p makes of the others' staleness. *)
LEMMA Outdated ==
    ASSUME IInv, NEW p \in Processes, NEW q \in Processes
    PROVE  /\ pc[q] \in {"open", "put"} /\ q # p => Outdate(p)[q].stale
           /\ q = p => (Outdate(p)[q].stale <=> loaded[q].stale)
           /\ Outdate(p)[q].of = loaded[q].of
<1>1. Outdate(p)[q].of = loaded[q].of
  BY OutdateTypes DEF IInv
<1>2. Outdate(p)[q].stale = (loaded[q].stale \/ (q # p /\ pc[q] \in {"open", "put"}))
  BY DEF Outdate, IInv, TypeOK
<1>3. loaded[q].stale \in BOOLEAN
  BY DEF IInv, TypeOK
<1> QED BY <1>1, <1>2, <1>3, Zenon

LEMMA SameAhead ==
    ASSUME IInv, NeverAhead, UNCHANGED <<files, current>>, lapses \subseteq lapses',
           \A q \in Processes : pc'[q] \in {"load", "open", "put"} =>
               pc[q] \in {"load", "open", "put"},
           Behind(index'.of, files, current) \/ "shared" \in lapses,
           \A q \in Processes :
               Behind(loaded'[q].of, files, current) \/ "shared" \in lapses
    PROVE  NeverAhead'
BY DEF NeverAhead

LEMMA OpenIndexListing ==
    ASSUME IInv, LInv, NEW p \in Processes, OpenIndex(p)
    PROVE  LInv'
<1>1. /\ UNCHANGED <<files, current, hurt>>
      /\ pc[p] = "open" /\ index' \in {TornIndex, BlankIndex}
      /\ loaded' = Outdate(p) /\ lapses' = lapses \cup Race(p)
  BY DEF OpenIndex
<1>2. \A q \in Processes : pc'[q] = IF q = p THEN "put" ELSE pc[q]
  BY DEF OpenIndex, GoTo, IInv, TypeOK
<1>3. index'.of = NoEntries /\ index'.state # "whole"
  BY <1>1 DEF TornIndex, BlankIndex
<1>4. \A q \in Processes : loaded'[q].of = loaded[q].of
  BY <1>1, Outdated
<1>5. NeverAhead'
  <2>1. \A q \in Processes : pc'[q] \in {"load", "open", "put"} =>
           pc[q] \in {"load", "open", "put"}
    BY <1>1, <1>2
  <2>2. Behind(index'.of, files, current)
    BY <1>3, NothingBehind
  <2>3. \A q \in Processes : Behind(loaded'[q].of, files, current) \/ "shared" \in lapses
    BY <1>4 DEF LInv, NeverAhead
  <2> QED BY <1>1, <2>1, <2>2, <2>3, SameAhead DEF LInv
<1>6. ASSUME lapses' = {} PROVE OneWriter' /\ Described'
  <2>1. lapses = {} /\ ~loaded[p].stale
    BY <1>1, <1>6 DEF Race
  <2>2. OneWriter /\ Described
    BY <2>1 DEF LInv
  <2>3. \A q \in Processes : pc[q] # "put"
    BY <1>1, <2>1, <2>2 DEF OneWriter
  <2>4. \A q \in Processes \ {p} :
           pc'[q] # "put" /\ (pc'[q] \in {"open", "put"} => loaded'[q].stale)
    BY <1>1, <1>2, <2>3, Outdated
  <2>5. ~loaded'[p].stale
    BY <1>1, <2>1, Outdated, Zenon
  <2>6. OneWriter'
    BY <1>2, <1>3, <2>4, <2>5 DEF OneWriter
  <2>7. Described'
    <3>1. Describes(loaded[p].of, Quiet(Processes \ {p}), files)
      BY <1>1, <2>1, <2>2 DEF Described
    <3>2. Quiet(Processes \ {p})' = Quiet(Processes \ {p})
      BY <1>1, <1>2 DEF Quiet, Saving
    <3>3. Describes(loaded'[p].of, Quiet(Processes \ {p})', files')
      BY <1>1, <1>4, <3>1, <3>2
    <3> QED BY <1>3, <2>4, <3>3 DEF Described
  <2> QED BY <2>6, <2>7
<1> QED BY <1>5, <1>6 DEF LInv

LEMMA PutIndexListing ==
    ASSUME IInv, LInv, NEW p \in Processes, PutIndex(p)
    PROVE  LInv'
<1>1. /\ UNCHANGED <<files, current, hurt>>
      /\ pc[p] = "put" /\ index' \in {TornIndex, WholeIndex(loaded[p].of)}
      /\ loaded' = [Outdate(p) EXCEPT ![p] = Unloaded] /\ lapses' = lapses \cup Race(p)
  BY DEF PutIndex
<1>2. \A q \in Processes : pc'[q] = IF q = p THEN Saved(p) ELSE pc[q]
  BY DEF PutIndex, GoTo, IInv, TypeOK
<1>3. Saved(p) \in {"prune", "back"}
  BY DEF Saved
<1>4. \A q \in Processes : loaded'[q] = IF q = p THEN Unloaded ELSE Outdate(p)[q]
  BY <1>1 DEF Outdate
<1>5. \A q \in Processes : loaded'[q].of = IF q = p THEN NoEntries ELSE loaded[q].of
  BY <1>4, Outdated DEF Unloaded
<1>6. /\ index'.of = NoEntries \/ index'.of = loaded[p].of
      /\ index'.state = "whole" => index'.of = loaded[p].of
  BY <1>1 DEF TornIndex, WholeIndex
<1>7. NeverAhead'
  <2>1. \A q \in Processes : pc'[q] \in {"load", "open", "put"} =>
           pc[q] \in {"load", "open", "put"}
    BY <1>2, <1>3
  <2>2. \A q \in Processes : Behind(loaded[q].of, files, current) \/ "shared" \in lapses
    BY DEF LInv, NeverAhead
  <2>3. Behind(NoEntries, files, current)
    BY NothingBehind
  <2>4. Behind(index'.of, files, current) \/ "shared" \in lapses
    BY <1>6, <2>2, <2>3
  <2>5. \A q \in Processes : Behind(loaded'[q].of, files, current) \/ "shared" \in lapses
    BY <1>5, <2>2, <2>3
  <2> QED BY <1>1, <2>1, <2>4, <2>5, SameAhead DEF LInv
<1>8. ASSUME lapses' = {} PROVE OneWriter' /\ Described'
  <2>1. lapses = {} /\ ~loaded[p].stale
    BY <1>1, <1>8 DEF Race
  <2>2. OneWriter /\ Described
    BY <2>1 DEF LInv
  <2>3. \A q \in Processes \ {p} : pc[q] # "put"
    BY <1>1, <2>2 DEF OneWriter
  <2>4. \A q \in Processes :
           pc'[q] # "put" /\ (pc'[q] = "open" => loaded'[q].stale)
    BY <1>2, <1>3, <1>4, <2>3, Outdated
  <2>5. OneWriter'
    BY <2>4 DEF OneWriter
  <2>6. Described'
    <3>1. Describes(loaded[p].of, Quiet(Processes \ {p}), files)
      BY <1>1, <2>1, <2>2 DEF Described
    <3>2. Quiet(Processes)' \subseteq Quiet(Processes \ {p})
      BY <1>1, <1>2 DEF Quiet, Saving
    <3>3. index'.state = "whole" => Describes(index'.of, Quiet(Processes)', files')
      BY <1>1, <1>6, <3>1, <3>2, StillDescribes
    <3> QED BY <2>4, <3>3 DEF Described
  <2> QED BY <2>5, <2>6
<1> QED BY <1>7, <1>8 DEF LInv

LEMMA NotNewer ==
    ASSUME NEW a \in SUBSET Messages, NEW b \in SUBSET Messages, NEW c \in SUBSET Messages,
           ~Newer(a, b), ~Newer(b, c)
    PROVE  ~Newer(a, c)
<1>1. \A m \in Messages : m \in Nat
  BY ConstantsAssumption DEF Messages
<1> HIDE DEF Messages
<1>2. ASSUME NEW m \in a PROVE ~(\A k \in c : k < m)
  <2>1. PICK k \in b : ~(k < m)
    BY <1>2 DEF Newer
  <2>2. PICK l \in c : ~(l < k)
    BY <2>1 DEF Newer
  <2>3. m \in Nat /\ k \in Nat /\ l \in Nat
    BY <1>1, <1>2, <2>1, <2>2
  <2> QED BY <2>1, <2>2, <2>3
<1> QED BY <1>2 DEF Newer

(* update_index: what it writes describes every session that what it read did. *)
LEMMA WithEntryDescribes ==
    ASSUME NEW e \in Entries, NEW s \in Sessions, NEW ms \in SUBSET Messages, ms # {},
           NEW g \in WithEntry(e, s, ms), e[s] \subseteq ms,
           NEW t \in Sessions, NEW f, f[t].msgs \in SUBSET Messages,
           IF t = s THEN f[t].msgs = ms ELSE EntryOK(e, t, f)
    PROVE  EntryOK(g, t, f)
<1> DEFINE h == [e EXCEPT ![s] = ms]
<1>1. \A u \in Sessions : h[u] = IF u = s THEN ms ELSE e[u]
  BY DEF Entries
<1>2. PICK kept \in Keeps(h, IndexLimit) : g = Only(h, kept)
  BY DEF WithEntry
<1> HIDE DEF h
<1>3. /\ kept \subseteq Listed(h)
      /\ Cardinality(kept) =
            IF Cardinality(Listed(h)) > IndexLimit THEN IndexLimit ELSE Cardinality(Listed(h))
      /\ \A v \in kept, u \in Listed(h) \ kept : ~Newer(h[u], h[v])
  BY <1>2 DEF Keeps
<1>4. /\ \A u \in Sessions : g[u] = IF u \in kept THEN h[u] ELSE {}
      /\ Listed(g) = kept
  BY <1>2, <1>3 DEF Only, Listed
<1>5. Listed(h) = Listed(e) \cup {s} /\ s \in Sessions
  BY <1>1 DEF Listed
<1>6. /\ IsFiniteSet(Listed(h)) /\ IsFiniteSet(Listed(e))
      /\ Cardinality(Listed(h)) \in Nat /\ Cardinality(Listed(e)) \in Nat
      /\ Cardinality(Listed(e)) <= Cardinality(Listed(h))
      /\ s \notin Listed(e) => Cardinality(Listed(h)) = Cardinality(Listed(e)) + 1
  <2>1. IsFiniteSet(Listed(h)) /\ IsFiniteSet(Listed(e))
    BY FS_Subset, ConstantsAssumption DEF Listed
  <2>2. Listed(e) \subseteq Listed(h)
    BY <1>5
  <2>3. Cardinality(Listed(e)) <= Cardinality(Listed(h))
    BY <2>1, <2>2, FS_Subset
  <2>4. s \notin Listed(e) => Cardinality(Listed(h)) = Cardinality(Listed(e)) + 1
    BY <1>5, <2>1, FS_AddElement
  <2> QED BY <2>1, <2>3, <2>4, FS_CardinalityType
<1>7. ASSUME NEW u \in Listed(h) \ kept
      PROVE  Cardinality(kept) = IndexLimit /\ \A v \in kept : ~Newer(h[u], h[v])
  <2>1. kept # Listed(h)
    BY <1>7
  <2>2. Cardinality(kept) # Cardinality(Listed(h))
    BY <1>3, <1>6, <2>1, FS_Subset
  <2> QED BY <1>3, <1>7, <2>2
<1>8. CASE t \in kept /\ (t = s \/ e[t] = f[t].msgs)
  BY <1>1, <1>4, <1>8 DEF EntryOK
<1>9. CASE t \notin kept /\ (t = s \/ e[t] = f[t].msgs)
  <2>1. h[t] = f[t].msgs /\ g[t] = {}
    BY <1>1, <1>4, <1>9
  <2>2. CASE h[t] = {}
    BY <2>1, <2>2 DEF EntryOK
  <2>3. CASE h[t] # {}
    <3>1. t \in Listed(h) \ kept
      BY <1>9, <2>3 DEF Listed
    <3>2. Cardinality(kept) = IndexLimit /\ \A v \in kept : ~Newer(h[t], h[v])
      BY <1>7, <3>1
    <3>3. \A v \in kept : g[v] = h[v]
      BY <1>3, <1>4, <1>5 DEF Listed
    <3> QED BY <1>4, <2>1, <3>2, <3>3 DEF EntryOK
  <2> QED BY <2>2, <2>3
<1>10. CASE t # s /\ e[t] # f[t].msgs
  <2>1. /\ e[t] = {} /\ Cardinality(Listed(e)) = IndexLimit
        /\ \A v \in Listed(e) : ~Newer(f[t].msgs, e[v])
    BY <1>10 DEF EntryOK
  <2>2. g[t] = {}
    BY <1>1, <1>4, <1>10, <2>1
  <2>3. Cardinality(kept) = IndexLimit
    BY <1>3, <1>6, <2>1, ConstantsAssumption
  <2>4. ASSUME NEW v \in kept PROVE ~Newer(f[t].msgs, g[v])
    <3>1. v \in Sessions /\ g[v] = h[v] /\ v \in Listed(e) \cup {s}
      BY <1>3, <1>4, <1>5, <2>4 DEF Listed
    <3>2. CASE v # s
      BY <1>1, <2>1, <3>1, <3>2
    <3>3. CASE v = s /\ s \in Listed(e)
      <4>1. ~Newer(f[t].msgs, e[s]) /\ g[v] = ms
        BY <1>1, <2>1, <3>1, <3>3
      <4> QED BY <4>1 DEF Newer
    <3>4. CASE v = s /\ s \notin Listed(e)
      <4>1. kept # Listed(h)
        BY <1>6, <2>1, <2>3, <3>4, ConstantsAssumption
      <4>2. PICK u \in Listed(h) \ kept : TRUE
        BY <1>3, <4>1
      <4>3. u # s /\ u \in Listed(e) /\ u \in Sessions
        BY <1>5, <2>4, <3>4, <4>2 DEF Listed
      <4>4. h[u] = e[u] /\ h[s] = ms /\ e[u] \in SUBSET Messages
        BY <1>1, <4>3 DEF Entries
      <4>5. ~Newer(f[t].msgs, e[u])
        BY <2>1, <4>3
      <4>6. ~Newer(e[u], ms)
        BY <1>7, <2>4, <3>4, <4>2, <4>4
      <4> QED BY <1>1, <3>1, <3>4, <4>4, <4>5, <4>6, NotNewer
    <3> QED BY <3>1, <3>2, <3>3, <3>4
  <2> QED BY <1>4, <2>2, <2>3, <2>4 DEF EntryOK
<1> QED BY <1>8, <1>9, <1>10

LEMMA LoadIndexListing ==
    ASSUME IInv, LInv, NEW p \in Processes, LoadIndex(p)
    PROVE  LInv'
<1> DEFINE s == current[p].id
<1>1. /\ UNCHANGED <<files, index, current, hurt>> /\ pc[p] = "load"
      /\ lapses' = lapses \cup (IF index.state = "whole" THEN {} ELSE {"blank"})
  BY DEF LoadIndex
<1>2. PICK g \in WithEntry(LoadedOrDefault, s, current[p].msgs) :
         loaded' = [loaded EXCEPT ![p] = [of |-> g, stale |-> FALSE]]
  BY DEF LoadIndex
<1>3. \A q \in Processes :
         /\ pc'[q] = IF q = p THEN "open" ELSE pc[q]
         /\ loaded'[q] = IF q = p THEN [of |-> g, stale |-> FALSE] ELSE loaded[q]
  BY <1>2 DEF LoadIndex, GoTo, IInv, TypeOK
<1>4. s \in Sessions /\ current[p].msgs \in SUBSET Messages /\ current[p].msgs # {}
  BY <1>1, Types DEF IInv, TypeOK, Saves
<1>5. LoadedOrDefault \in Entries
  BY NoneListed, Types DEF IInv, LoadedOrDefault
<1>6. /\ g \in Entries
      /\ \A t \in Sessions :
            g[t] = {} \/ g[t] = (IF t = s THEN current[p].msgs ELSE LoadedOrDefault[t])
  BY <1>4, <1>5, WithEntryListed
<1>7. "shared" \notin lapses =>
         Behind(LoadedOrDefault, files, current) /\ Behind(g, files, current)
  <2> SUFFICES ASSUME "shared" \notin lapses
               PROVE  Behind(LoadedOrDefault, files, current) /\ Behind(g, files, current)
    OBVIOUS
  <2>1. Behind(LoadedOrDefault, files, current)
    BY NothingBehind DEF LInv, NeverAhead, LoadedOrDefault
  <2>2. files[s].state = "whole" => files[s].msgs = current[p].msgs
    BY <1>1 DEF LInv, NeverAhead
  <2>3. \A t \in Sessions : files[t].state = "whole" => g[t] \subseteq files[t].msgs
    BY <1>6, <2>1, <2>2 DEF Behind
  <2>4. ASSUME NEW q \in Processes, current[q].id \in Sessions
        PROVE  g[current[q].id] \subseteq current[q].msgs
    <3>1. current[q].id = s => q = p
      BY <2>4, Zenon DEF IInv, Sole
    <3>2. CASE q = p
      BY <1>4, <1>6, <3>2
    <3>3. CASE current[q].id # s
      BY <1>6, <2>1, <2>4, <3>3 DEF Behind
    <3> QED BY <3>1, <3>2, <3>3
  <2> QED BY <2>1, <2>3, <2>4 DEF Behind
<1>8. NeverAhead'
  <2>1. "shared" \in lapses' => "shared" \in lapses
    BY <1>1
  <2>2. \A q \in Processes : Behind(loaded'[q].of, files, current) \/ "shared" \in lapses
    BY <1>3, <1>7 DEF LInv, NeverAhead
  <2>3. Behind(index'.of, files, current) \/ "shared" \in lapses
    BY <1>1 DEF LInv, NeverAhead
  <2>4. \A q \in Processes : pc'[q] \in {"load", "open", "put"} =>
           pc[q] \in {"load", "open", "put"}
    BY <1>1, <1>3
  <2>5. lapses \subseteq lapses'
    BY <1>1
  <2> QED BY <1>1, <2>2, <2>3, <2>4, <2>5, SameAhead DEF LInv
<1>9. ASSUME lapses' = {} PROVE OneWriter' /\ Described'
  <2>1. lapses = {} /\ index.state = "whole" /\ LoadedOrDefault = index.of
    BY <1>1, <1>9 DEF LoadedOrDefault
  <2>2. OneWriter /\ Described
    BY <2>1 DEF LInv
  <2>3. \A q \in Processes : pc'[q] # "put"
    BY <1>3, <2>1, <2>2 DEF OneWriter
  <2>4. OneWriter'
    BY <2>3 DEF OneWriter
  <2>5. \A q \in Processes, t \in Sessions : Saving(q, t)' <=> Saving(q, t)
    BY <1>1, <1>3 DEF Saving
  <2>6. \A P \in SUBSET Processes : Quiet(P)' = Quiet(P)
    BY <1>1, <2>5 DEF Quiet
  <2>7. ASSUME NEW t \in Quiet(Processes \ {p}) PROVE EntryOK(g, t, files)
    <3>1. t \in Sessions \ hurt /\ files[t].msgs \in SUBSET Messages
      BY Types DEF Quiet, IInv
    <3>2. CASE t = s
      <4>1. files[s].msgs = current[p].msgs
        <5>1. files[s] = Whole(current[p].msgs)
          BY <1>1, <3>1, <3>2 DEF IInv, Memory
        <5> QED BY <5>1 DEF Whole
      <4>2. index.of[s] \subseteq current[p].msgs
        BY <1>4, <1>7, <2>1 DEF Behind
      <4> QED BY <1>4, <1>5, <2>1, <3>1, <3>2, <4>1, <4>2, WithEntryDescribes
    <3>3. CASE t # s
      <4>1. t \in Quiet(Processes)
        BY <2>7, <3>3 DEF Quiet, Saving
      <4>2. EntryOK(index.of, t, files)
        BY <2>1, <2>2, <4>1 DEF Described, Describes
      <4>3. index.of[s] \subseteq current[p].msgs
        BY <1>4, <1>7, <2>1 DEF Behind
      <4> QED BY <1>4, <1>5, <2>1, <3>1, <3>3, <4>2, <4>3, WithEntryDescribes
    <3> QED BY <3>2, <3>3
  <2>8. Described'
    <3>1. Describes(index'.of, Quiet(Processes)', files')
      BY <1>1, <2>1, <2>2, <2>6 DEF Described
    <3>2. ASSUME NEW q \in Processes, pc'[q] \in {"open", "put"}, ~loaded'[q].stale
          PROVE  Describes(loaded'[q].of, Quiet(Processes \ {q})', files')
      <4>1. Quiet(Processes \ {q})' = Quiet(Processes \ {q})
        BY <2>6
      <4>2. CASE q = p
        BY <1>1, <1>3, <2>7, <4>1, <4>2 DEF Describes
      <4>3. CASE q # p
        BY <1>1, <1>3, <2>2, <3>2, <4>1, <4>3 DEF Described
      <4> QED BY <4>2, <4>3
    <3> QED BY <3>1, <3>2 DEF Described
  <2> QED BY <2>4, <2>8
<1> QED BY <1>8, <1>9 DEF LInv

LEMMA ListingInit == Init => LInv
<1> SUFFICES ASSUME Init PROVE LInv
  OBVIOUS
<1>1. /\ index.of = NoEntries /\ \A q \in Processes : loaded[q].of = NoEntries /\ pc[q] = "off"
      /\ \A s \in Sessions : files[s].msgs = {}
  BY DEF Init, WholeIndex, Unloaded
<1>2. NeverAhead
  BY <1>1, NothingBehind DEF NeverAhead
<1>3. OneWriter
  BY <1>1 DEF OneWriter
<1>4. Described
  BY <1>1 DEF Described, Describes, EntryOK, NoEntries, Quiet
<1> QED BY <1>2, <1>3, <1>4 DEF LInv

LEMMA ListingStep == IInv /\ LInv /\ [Next]_vars => LInv'
<1> SUFFICES ASSUME IInv, LInv, [Next]_vars PROVE LInv'
  OBVIOUS
<1>1. CASE UNCHANGED vars
  BY <1>1 DEF vars, LInv, NeverAhead, OneWriter, Described, Quiet, Saving
<1>2. ASSUME NEW p \in Processes, Start(p) \/ Say(p) \/ NewChat(p) \/ Resume(p) \/ Quit(p)
      PROVE  LInv'
  BY <1>2, CommandOrdinary, OrdinaryStep
<1>3. ASSUME NEW p \in Processes, CreateFile(p) \/ WriteFile(p) \/ Prune(p) PROVE LInv'
  BY <1>3, FileOrdinary, OrdinaryStep
<1>4. ASSUME NEW p \in Processes, Back(p) PROVE LInv'
  BY <1>4, BackOrdinary, OrdinaryStep
<1>5. ASSUME NEW p \in Processes, Crash(p) \/ CreateFails(p) \/ WriteFails(p) PROVE LInv'
  BY <1>5, MishapOrdinary, OrdinaryStep
<1>6. ASSUME NEW p \in Processes, LoadIndex(p) \/ OpenIndex(p) \/ PutIndex(p) PROVE LInv'
  BY <1>6, LoadIndexListing, OpenIndexListing, PutIndexListing
<1> QED BY <1>1, <1>2, <1>3, <1>4, <1>5, <1>6 DEF Next

(* Without a lapse the index counts the messages of every session file that   *)
(* nobody is saving, or has dropped its entry for newer ones: update_index    *)
(* reads, changes and writes the index after the session file was written.    *)
THEOREM IndexDescribesFiles == Spec => []ListedAsSaved
<1>1. Spec => []LInv
  BY ListingInit, ListingStep, Invariance, PTL DEF Spec
<1>2. LInv => ListedAsSaved
  <2> SUFFICES ASSUME LInv, index.state = "whole", lapses = {}, NEW s \in Sessions \ hurt,
                      ~(\E q \in Processes : Saving(q, s))
               PROVE  EntryOK(index.of, s, files)
    BY DEF ListedAsSaved, EntryOK
  <2> QED BY DEF LInv, Described, Describes, Quiet
<1> QED BY <1>1, <1>2, PTL

=============================================================================
