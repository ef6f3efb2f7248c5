---------------------------- MODULE LocalChatProofs ----------------------------
(***************************************************************************)
(* Proofs about LocalChat, for any tools, chats, channel capacity, number  *)
(* of executions and lines, and any rotation strategy: an answer nothing   *)
(* crossed is saved whole where it was asked for, that of several models   *)
(* once and with the notices of their errors, no execution ends without a  *)
(* word, and the tool the loop is told to switch to is usable.             *)
(***************************************************************************)
EXTENDS LocalChat, FiniteSetTheorems, FunctionTheorems, WellFoundedInduction, TLAPS

-----------------------------------------------------------------------------
(* The inductive invariant.                                                *)

LinesIn(q, e) == {i \in DOMAIN q : q[i].e = e /\ q[i].kind = "line"}

(* Executions are begun in the order of their numbers, each once.          *)
Slots ==
    /\ \A e \in Execs : At(e, "free") => exec[e] = Idle /\ e \notin told \cup crossed
    /\ \A e \in Execs : ~At(e, "free") =>
          exec[e].round \in 1..rounds /\ exec[e].tool \in Tools /\ exec[e].home \in Sessions
    /\ \A e, f \in Execs : f < e /\ At(f, "free") => At(e, "free")

Mates(e, f) == ~At(e, "free") /\ ~At(f, "free") /\ exec[e].round = exec[f].round

(* The executions of one prompt are one, or all of several models, and are  *)
(* crossed together.                                                       *)
Together ==
    \A e, f \in Execs : Mates(e, f) =>
        /\ exec[e].multi = exec[f].multi
        /\ ~exec[e].multi => e = f
        /\ e \in crossed => f \in crossed

StageOK(r) ==
    /\ r.stderr # "reading" => r.pc = "run" /\ r.limited
    /\ r.limited => r.pc \in {"run", "ended"}
    /\ r.outcome \in {"done", "error"} => ~r.limited
    /\ r.pc \in {"free", "start", "spawn", "failed"} => r.wrote = 0
    /\ r.pc \in {"free", "start", "spawn", "run"} => r.outcome = "none"
    /\ r.outcome = "done" => r.pc = "ended"
    /\ r.outcome = "limit" => r.limited
    /\ r.outcome = "error" /\ r.multi => r.pc = "ended"
Stages == \A e \in Execs : StageOK(exec[e])

(* What a message says of the execution it is from.                        *)
Carried(m, r, several) ==
    /\ r.pc # "free" /\ r.multi = several
    /\ m.kind = "limit" => r.limited
    /\ m.kind = "done" => r.outcome = "done"
    /\ m.kind = "error" => r.outcome = "error"
LastWord(q) ==
    \A i, j \in DOMAIN q : i < j /\ q[i].e = q[j].e =>
        q[i].kind # "done" /\ (q[i].kind = "error" => q[j].kind # "line")
(* ...and of one of several models the end is the last.                    *)
Final(q) ==
    \A i, j \in DOMAIN q : i < j /\ q[i].e = q[j].e => q[i].kind \notin {"done", "error"}
Channels ==
    /\ \A i \in DOMAIN single : Carried(single[i], exec[single[i].e], FALSE)
    /\ \A i \in DOMAIN multi : Carried(multi[i], exec[multi[i].e], TRUE)
    /\ LastWord(single) /\ LastWord(multi) /\ Final(multi)

(* Whose end was taken has no more to say.                                 *)
Settled ==
    \A e \in told : ~exec[e].limited =>
        /\ exec[e].outcome \in {"done", "error"}
        /\ LinesIn(single, e) = {} /\ LinesIn(multi, e) = {}
        /\ exec[e].multi => \A i \in DOMAIN multi : multi[i].e # e

Spoken(q, e) == \E i \in DOMAIN q : q[i].e = e /\ q[i].kind # "line"
Loud ==
    \A e \in Execs : (At(e, "ended") \/ (exec[e].limited /\ exec[e].stderr # "picked")) =>
        e \in told \/ Spoken(single, e) \/ Spoken(multi, e)

(* While a round that nothing crossed goes on, nothing else does.          *)
Undisturbed ==
    \A e \in Running \ crossed :
        /\ exec[e].round = rounds /\ exec[e].home = open
        /\ \A f \in Execs : Active(f) => exec[f].round = rounds

\* text holds all that e wrote and the loop has taken
TextOf(e, text, q) ==
    /\ \A n \in DOMAIN text : text[n] = e
    /\ Len(text) + Cardinality(LinesIn(q, e)) = exec[e].wrote

Collected ==
    \A e \in Running \ crossed :
        (~exec[e].multi /\ ~exec[e].limited /\ exec[e].outcome # "error" /\ e \notin told) =>
            TextOf(e, response, single)

CollectedFor(e) ==
    /\ exec[e].tool \in Range(selected) /\ responses[exec[e].tool] # NoEntry
    /\ e \notin told => completed[exec[e].tool] = "pending"
    /\ ~exec[e].limited => IF e \in told THEN responses[exec[e].tool] = AsWritten(e)
                          ELSE TextOf(e, responses[exec[e].tool], multi)
CollectedEach ==
    \A e \in Running \ crossed :
        (exec[e].multi /\ ~NamedTwice(exec[e].round)) => CollectedFor(e)

\* an answer of several models: those of its round are through
WholeFor(m, s, e) ==
    (exec[e].round = m.round /\ ~exec[e].limited) =>
        /\ exec[e].pc = "ended" /\ exec[e].home = s /\ e \in told
        /\ m.parts[exec[e].tool] = AsWritten(e)
Saved ==
    \A s \in Sessions : \A i \in DOMAIN log[s] :
        log[s][i].who = "combined" =>
            /\ log[s][i].round \in 1..rounds
            /\ ~NamedTwice(log[s][i].round) => \A e \in Execs \ crossed : WholeFor(log[s][i], s, e)

\* two answers of several models in one chat are of different rounds
Same(m, n) == m.who = "combined" /\ n.who = "combined" /\ n.round = m.round
Once ==
    \A s \in Sessions : \A i, j \in DOMAIN log[s] :
        (i # j /\ Same(log[s][i], log[s][j]) /\ ~NamedTwice(log[s][i].round)) =>
            \A e \in Execs \ crossed : exec[e].round # log[s][i].round

Picked ==
    \A e \in Execs \ crossed :
        (~exec[e].multi /\ exec[e].stderr = "picked" /\ exec[e].pick # NoTool) =>
            exec[e].pick # exec[e].tool /\ Usable(exec[e].pick)

(* A chat with messages is one that was opened. *)
Resumable == \A s \in Sessions : log[s] # <<>> => s \in used

ChatInv ==
    /\ TypeOK /\ Resumable /\ Slots /\ Together /\ Stages /\ Channels /\ Settled /\ Loud
    /\ Undisturbed /\ Collected /\ CollectedEach /\ Saved /\ Once /\ AnswerAtHome
    /\ Picked /\ NextIsAvailable

-----------------------------------------------------------------------------
(* Channels and the lines in them.                                         *)

(* A nonempty set of naturals has a least element.                         *)
LEMMA LeastExists ==
    ASSUME NEW T, T \subseteq Nat, T # {}
    PROVE  \E m \in T : \A n \in T : m <= n
<1>1. PICK m \in T : \A n \in T : ~(<<n, m>> \in OpToRel(<, Nat))
  <2>1. \E m \in T : \A n \in T : ~(<<n, m>> \in OpToRel(<, Nat))
    BY NatLessThanWellFounded, WFMin
  <2> QED BY <2>1
<1>2. \A n \in T : ~(n < m)
  <2> TAKE n \in T
  <2>1. n \in Nat /\ m \in Nat
    OBVIOUS
  <2>2. <<n, m>> \in Nat \X Nat
    BY <2>1
  <2> QED BY <1>1, <2>1, <2>2 DEF OpToRel
<1>3. \A n \in T : m <= n
  BY <1>2
<1> QED BY <1>3

(* What a send does to a channel. *)
LEMMA Appended ==
    ASSUME NEW S, NEW q \in Seq(S), NEW m \in S
    PROVE  /\ Append(q, m) \in Seq(S)
           /\ Len(Append(q, m)) = Len(q) + 1
           /\ DOMAIN Append(q, m) = 1..(Len(q) + 1)
           /\ DOMAIN q = 1..Len(q) /\ Len(q) \in Nat
           /\ Append(q, m)[Len(q) + 1] = m
           /\ \A i \in 1..Len(q) : Append(q, m)[i] = q[i]
  OBVIOUS

(* What a receive does to a channel. *)
LEMMA Taken ==
    ASSUME NEW S, NEW q \in Seq(S), q # <<>>
    PROVE  /\ Tail(q) \in Seq(S) /\ Head(q) = q[1] /\ Head(q) \in S
           /\ 1 \in DOMAIN q /\ Len(q) \in Nat /\ Len(q) >= 1
           /\ DOMAIN q = 1..Len(q) /\ DOMAIN Tail(q) = 1..(Len(q) - 1)
           /\ Len(Tail(q)) = Len(q) - 1
           /\ \A i \in 1..(Len(q) - 1) : Tail(q)[i] = q[i + 1] /\ i + 1 \in DOMAIN q
  OBVIOUS

(* There are finitely many lines in a channel. *)
LEMMA LinesFinite ==
    ASSUME NEW S, NEW q \in Seq(S), NEW e
    PROVE  /\ IsFiniteSet(LinesIn(q, e)) /\ Cardinality(LinesIn(q, e)) \in Nat
           /\ LinesIn(q, e) = {} => Cardinality(LinesIn(q, e)) = 0
<1>1. LinesIn(q, e) \subseteq 1..Len(q)
  BY DEF LinesIn
<1>2. IsFiniteSet(1..Len(q))
  <2>1. 1 \in Int /\ Len(q) \in Int
    OBVIOUS
  <2> QED BY <2>1, FS_Interval
<1>3. IsFiniteSet(LinesIn(q, e))
  BY <1>1, <1>2, FS_Subset
<1> QED BY <1>3, FS_CardinalityType, FS_EmptySet

(* Sending a line adds one to those of its execution. *)
LEMMA LinesAppend ==
    ASSUME NEW S, NEW q \in Seq(S), NEW m \in S, NEW e
    PROVE  Cardinality(LinesIn(Append(q, m), e)) =
              Cardinality(LinesIn(q, e)) + (IF m.e = e /\ m.kind = "line" THEN 1 ELSE 0)
<1>1. LinesIn(Append(q, m), e) =
         IF m.e = e /\ m.kind = "line" THEN LinesIn(q, e) \cup {Len(q) + 1} ELSE LinesIn(q, e)
  <2> DEFINE t == Append(q, m)
  <2>1. /\ DOMAIN t = 1..(Len(q) + 1) /\ DOMAIN q = 1..Len(q) /\ Len(q) \in Nat
        /\ t[Len(q) + 1] = m /\ \A i \in 1..Len(q) : t[i] = q[i]
    BY Appended
  <2> HIDE DEF t
  <2>2. LinesIn(t, e) =
           IF m.e = e /\ m.kind = "line" THEN LinesIn(q, e) \cup {Len(q) + 1} ELSE LinesIn(q, e)
    BY <2>1 DEF LinesIn
  <2> QED BY <2>2 DEF t
<1>2. Len(q) + 1 \notin LinesIn(q, e)
  BY DEF LinesIn
<1>3. IsFiniteSet(LinesIn(q, e)) /\ Cardinality(LinesIn(q, e)) \in Nat
  BY LinesFinite
<1>4. Cardinality(LinesIn(q, e) \cup {Len(q) + 1}) = Cardinality(LinesIn(q, e)) + 1
  BY <1>2, <1>3, FS_AddElement
<1> QED BY <1>1, <1>3, <1>4

(* Receiving a line takes one away from those of its execution. *)
LEMMA LinesTail ==
    ASSUME NEW S, NEW q \in Seq(S), q # <<>>, NEW e
    PROVE  Cardinality(LinesIn(q, e)) =
              Cardinality(LinesIn(Tail(q), e))
              + (IF Head(q).e = e /\ Head(q).kind = "line" THEN 1 ELSE 0)
<1> DEFINE T == LinesIn(Tail(q), e)
           U == {i \in LinesIn(q, e) : i # 1}
           f == [i \in T |-> i + 1]
<1>0. /\ Head(q) = q[1] /\ 1 \in DOMAIN q /\ Len(q) \in Nat
      /\ DOMAIN q = 1..Len(q) /\ DOMAIN Tail(q) = 1..(Len(q) - 1) /\ Tail(q) \in Seq(S)
      /\ \A i \in 1..(Len(q) - 1) : Tail(q)[i] = q[i + 1] /\ i + 1 \in DOMAIN q
  BY Taken
<1>1. /\ \A i \in T : i \in 1..(Len(q) - 1) /\ i + 1 \in U
      /\ \A i \in U : i \in 2..Len(q) /\ i - 1 \in T /\ (i - 1) + 1 = i
  BY <1>0 DEF LinesIn
<1>2. IsFiniteSet(T) /\ Cardinality(T) \in Nat
  BY <1>0, LinesFinite
<1> HIDE DEF T, U
<1>3. f \in Bijection(T, U)
  <2>1. f \in [T -> U]
    BY <1>1
  <2>2. \A a, b \in T : f[a] = f[b] => a = b
    BY <1>1
  <2>3. ASSUME NEW u \in U PROVE \E a \in T : f[a] = u
    <3>1. u - 1 \in T /\ (u - 1) + 1 = u
      BY <1>1
    <3> QED BY <3>1
  <2> QED BY <2>1, <2>2, <2>3, Fun_IsBij
<1>4. IsFiniteSet(U) /\ Cardinality(U) = Cardinality(T)
  <2>1. ExistsBijection(T, U)
    BY <1>3, Zenon DEF ExistsBijection
  <2> QED BY <1>2, <2>1, FS_Bijection
<1>5. LinesIn(q, e) = IF Head(q).e = e /\ Head(q).kind = "line" THEN U \cup {1} ELSE U
  BY <1>0 DEF LinesIn, U
<1>6. 1 \notin U
  BY DEF U
<1>7. Cardinality(U \cup {1}) = Cardinality(U) + 1
  BY <1>4, <1>6, FS_AddElement
<1> QED BY <1>2, <1>4, <1>5, <1>7 DEF T

-----------------------------------------------------------------------------
(* Executions.                                                             *)

(* A change of one field of an execution leaves the others alone. *)
LEMMA SetPc ==
    ASSUME NEW r \in Execution,
           NEW x \in {"free", "start", "spawn", "failed", "run", "ended"}
    PROVE  LET s == [r EXCEPT !.pc = x] IN
           /\ s \in Execution /\ s.pc = x
           /\ s.tool = r.tool /\ s.home = r.home /\ s.round = r.round /\ s.multi = r.multi
           /\ s.wrote = r.wrote /\ s.stderr = r.stderr /\ s.pick = r.pick
           /\ s.limited = r.limited /\ s.outcome = r.outcome
  BY DEF Execution

(* The same of its outcome. *)
LEMMA SetOutcome ==
    ASSUME NEW r \in Execution, NEW x \in {"none", "done", "error", "limit"}
    PROVE  LET s == [r EXCEPT !.outcome = x] IN
           /\ s \in Execution /\ s.outcome = x
           /\ s.tool = r.tool /\ s.home = r.home /\ s.round = r.round /\ s.multi = r.multi
           /\ s.wrote = r.wrote /\ s.stderr = r.stderr /\ s.pick = r.pick
           /\ s.limited = r.limited /\ s.pc = r.pc
  BY DEF Execution

(* The same of the lines it wrote. *)
LEMMA SetWrote ==
    ASSUME NEW r \in Execution, NEW x \in 0..MaxLines
    PROVE  LET s == [r EXCEPT !.wrote = x] IN
           /\ s \in Execution /\ s.wrote = x
           /\ s.tool = r.tool /\ s.home = r.home /\ s.round = r.round /\ s.multi = r.multi
           /\ s.outcome = r.outcome /\ s.stderr = r.stderr /\ s.pick = r.pick
           /\ s.limited = r.limited /\ s.pc = r.pc
  BY DEF Execution

(* The same of its stderr task. *)
LEMMA SetStderr ==
    ASSUME NEW r \in Execution, NEW x \in {"reading", "picked", "announced"}
    PROVE  LET s == [r EXCEPT !.stderr = x] IN
           /\ s \in Execution /\ s.stderr = x
           /\ s.tool = r.tool /\ s.home = r.home /\ s.round = r.round /\ s.multi = r.multi
           /\ s.outcome = r.outcome /\ s.wrote = r.wrote /\ s.pick = r.pick
           /\ s.limited = r.limited /\ s.pc = r.pc
  BY DEF Execution

(* The same of the tool it picked. *)
LEMMA SetPick ==
    ASSUME NEW r \in Execution, NEW x \in Tools \cup {NoTool}
    PROVE  LET s == [r EXCEPT !.pick = x] IN
           /\ s \in Execution /\ s.pick = x
           /\ s.tool = r.tool /\ s.home = r.home /\ s.round = r.round /\ s.multi = r.multi
           /\ s.outcome = r.outcome /\ s.wrote = r.wrote /\ s.stderr = r.stderr
           /\ s.limited = r.limited /\ s.pc = r.pc
  BY DEF Execution

(* The same of whether it met a limit. *)
LEMMA SetLimited ==
    ASSUME NEW r \in Execution, NEW x \in BOOLEAN
    PROVE  LET s == [r EXCEPT !.limited = x] IN
           /\ s \in Execution /\ s.limited = x
           /\ s.tool = r.tool /\ s.home = r.home /\ s.round = r.round /\ s.multi = r.multi
           /\ s.outcome = r.outcome /\ s.wrote = r.wrote /\ s.stderr = r.stderr
           /\ s.pick = r.pick /\ s.pc = r.pc
  BY DEF Execution

-----------------------------------------------------------------------------
(* Steps of an execution.                                                  *)

Ending(r) == r.pc = "ended" \/ (r.limited /\ r.stderr # "picked")

(* What any step makes of the execution that takes it. *)
Onward(r, s) ==
    /\ r.pc \notin {"free", "ended"} /\ s.pc # "free"
    /\ s.tool = r.tool /\ s.home = r.home /\ s.round = r.round /\ s.multi = r.multi
    /\ r.limited => s.limited
    /\ r.outcome # "none" => s.outcome = r.outcome
    /\ s.outcome = "done" => r.pc = "run" /\ ~r.limited
    /\ StageOK(s)

Moves(e) ==
    /\ exec' \in [Execs -> Execution]
    /\ \A f \in Execs : f # e => exec'[f] = exec[f]
    /\ Onward(exec[e], exec'[e])
    /\ UNCHANGED <<app, history, ghosts>>

(* A step that sends nothing... *)
Quiet(e) ==
    /\ UNCHANGED <<single, multi>>
    /\ exec'[e].wrote = exec[e].wrote
    /\ Ending(exec'[e]) => Ending(exec[e])

(* ...and one that sends m. *)
Speaks(e, m) ==
    /\ m \in Output /\ m.e = e /\ Send(e, m)
    /\ Carried(m, exec'[e], exec[e].multi)
    /\ exec'[e].wrote = exec[e].wrote + (IF m.kind = "line" THEN 1 ELSE 0)
    /\ m.kind = "line" => exec[e].pc = "run" /\ (Ending(exec'[e]) => Ending(exec[e]))
    /\ m.kind = "limit" => exec[e].stderr = "picked" /\ m.next = exec[e].pick

(* What becomes of the usage and of the tool that was picked. *)
Chooses(e) ==
    \/ MarkLimited(e) /\ exec'[e].stderr = "reading"
    \/ /\ UNCHANGED usage
       /\ exec'[e].stderr = "picked" =>
             \/ exec[e].stderr = "picked" /\ exec'[e].pick = exec[e].pick
             \/ NextTool(exec[e].tool, exec'[e].pick)

Step(e) == Moves(e) /\ Chooses(e) /\ (Quiet(e) \/ \E m \in Output : Speaks(e, m))

(* Replacing an execution by a record of its kind. *)
LEMMA Replaced ==
    ASSUME TypeOK, NEW e \in Execs, NEW s \in Execution,
           exec' = [exec EXCEPT ![e] = s], Onward(exec[e], s),
           UNCHANGED <<app, history, ghosts>>
    PROVE  Moves(e) /\ exec'[e] = s
<1>1. exec \in [Execs -> Execution]
  BY DEF TypeOK
<1>2. /\ exec' \in [Execs -> Execution] /\ exec'[e] = s
      /\ \A f \in Execs : f # e => exec'[f] = exec[f]
  BY <1>1
<1> QED BY <1>2, Zenon DEF Moves

(* The lookup and the spawning. *)
LEMMA EarlySteps ==
    ASSUME TypeOK, Stages, NEW e \in Execs,
           Start(e) \/ Spawn(e)
    PROVE  Step(e)
<1>1. exec \in [Execs -> Execution] /\ exec[e] \in Execution /\ StageOK(exec[e])
  BY DEF TypeOK, Stages
<1>2. PICK x \in {"spawn", "failed", "run"} :
         /\ exec' = [exec EXCEPT ![e].pc = x]
         /\ x = "run" => exec[e].pc = "spawn"
  BY DEF Start, Spawn, At
<1> DEFINE s == [exec[e] EXCEPT !.pc = x]
<1>3. exec[e].pc \in {"start", "spawn"} /\ UNCHANGED <<app, history, ghosts, single, multi, usage>>
  BY DEF Start, Spawn, At
<1>4. /\ s \in Execution /\ s.pc = x
      /\ s.tool = exec[e].tool /\ s.home = exec[e].home /\ s.round = exec[e].round
      /\ s.multi = exec[e].multi /\ s.wrote = exec[e].wrote /\ s.stderr = exec[e].stderr
      /\ s.pick = exec[e].pick /\ s.limited = exec[e].limited /\ s.outcome = exec[e].outcome
  <2>1. x \in {"free", "start", "spawn", "failed", "run", "ended"}
    OBVIOUS
  <2> QED BY <1>1, <2>1 DEF Execution
<1>5. exec' = [exec EXCEPT ![e] = s]
  BY <1>2
<1> HIDE DEF s
<1>6. Onward(exec[e], s)
  BY <1>1, <1>2, <1>3, <1>4 DEF Onward, StageOK
<1>7. Moves(e) /\ exec'[e] = s
  BY <1>3, <1>4, <1>5, <1>6, Replaced
<1>8. Quiet(e)
  BY <1>1, <1>2, <1>3, <1>4, <1>7 DEF Quiet, Ending, StageOK
<1>9. Chooses(e)
  BY <1>1, <1>3, <1>4, <1>7 DEF Chooses
<1> QED BY <1>7, <1>8, <1>9 DEF Step

(* The error of a child that could not be spawned, and of a task that failed. *)
LEMMA ErrorSteps ==
    ASSUME TypeOK, Stages, NEW e \in Execs,
           SpawnFails(e) \/ Report(e) \/ ExitFailed(e)
    PROVE  Step(e)
<1>1. exec \in [Execs -> Execution] /\ exec[e] \in Execution /\ StageOK(exec[e])
  BY DEF TypeOK, Stages
<1>2. PICK x \in {"ended", "failed"} :
         /\ exec' = [exec EXCEPT ![e].pc = x, ![e].outcome = "error"]
         /\ x = "failed" => ~exec[e].multi /\ exec[e].pc = "spawn"
  BY DEF SpawnFails, Report, ExitFailed, Ended, At
<1> DEFINE r == [exec[e] EXCEPT !.pc = x]
           s == [r EXCEPT !.outcome = "error"]
           m == Out(e, "error", NoTool)
<1>3. /\ exec[e].pc \in {"spawn", "failed", "run"} /\ ~exec[e].limited
      /\ UNCHANGED <<app, history, ghosts, usage>> /\ Send(e, m)
  BY <1>1 DEF SpawnFails, Report, ExitFailed, At, StageOK
<1>4. /\ r \in Execution /\ r.pc = x
      /\ r.tool = exec[e].tool /\ r.home = exec[e].home /\ r.round = exec[e].round
      /\ r.multi = exec[e].multi /\ r.wrote = exec[e].wrote /\ r.stderr = exec[e].stderr
      /\ r.pick = exec[e].pick /\ r.limited = exec[e].limited /\ r.outcome = exec[e].outcome
  <2>1. x \in {"free", "start", "spawn", "failed", "run", "ended"}
    OBVIOUS
  <2> QED BY <1>1, <2>1 DEF Execution
<1>5. exec' = [exec EXCEPT ![e] = s]
  BY <1>1, <1>2
<1> HIDE DEF r
<1>6. /\ s \in Execution /\ s.pc = x /\ s.outcome = "error"
      /\ s.tool = exec[e].tool /\ s.home = exec[e].home /\ s.round = exec[e].round
      /\ s.multi = exec[e].multi /\ s.wrote = exec[e].wrote /\ s.stderr = exec[e].stderr
      /\ s.pick = exec[e].pick /\ s.limited = exec[e].limited
  BY <1>4, SetOutcome
<1> HIDE DEF s
<1>7. Onward(exec[e], s)
  BY <1>1, <1>2, <1>3, <1>6 DEF Onward, StageOK, Execution
<1>8. Moves(e) /\ exec'[e] = s
  BY <1>3, <1>5, <1>6, <1>7, Replaced
<1>9. m \in Output /\ m.e = e /\ m.kind = "error"
  BY DEF Out, Output
<1> HIDE DEF m
<1>10. exec[e].wrote \in Nat
  BY <1>1 DEF Execution
<1>11. Speaks(e, m)
  BY <1>2, <1>3, <1>6, <1>8, <1>9, <1>10 DEF Speaks, Carried
<1>12. Chooses(e)
  BY <1>3, <1>6, <1>8 DEF Chooses
<1> QED BY <1>8, <1>9, <1>11, <1>12 DEF Step

(* A line of the tool. *)
LEMMA WriteStep ==
    ASSUME TypeOK, Stages, NEW e \in Execs, Write(e)
    PROVE  Step(e)
<1>1. exec \in [Execs -> Execution] /\ exec[e] \in Execution /\ StageOK(exec[e])
  BY DEF TypeOK, Stages
<1> DEFINE x == exec[e].wrote + 1
           s == [exec[e] EXCEPT !.wrote = x]
           m == Out(e, "line", NoTool)
<1>2. /\ exec[e].pc = "run" /\ UNCHANGED <<app, history, ghosts, usage>> /\ Send(e, m)
      /\ exec' = [exec EXCEPT ![e].wrote = @ + 1]
  BY DEF Write, At
<1>3. x \in 0..MaxLines /\ exec[e].wrote \in Nat
  BY <1>1, ChatAssumption DEF Execution, Write
<1>4. exec' = [exec EXCEPT ![e] = s]
  BY <1>2
<1> HIDE DEF x
<1>5. /\ s \in Execution /\ s.pc = exec[e].pc /\ s.outcome = exec[e].outcome
      /\ s.tool = exec[e].tool /\ s.home = exec[e].home /\ s.round = exec[e].round
      /\ s.multi = exec[e].multi /\ s.wrote = x /\ s.stderr = exec[e].stderr
      /\ s.pick = exec[e].pick /\ s.limited = exec[e].limited
  BY <1>1, <1>3, SetWrote
<1> HIDE DEF s
<1>6. Onward(exec[e], s)
  BY <1>1, <1>2, <1>5 DEF Onward, StageOK
<1>7. Moves(e) /\ exec'[e] = s
  BY <1>2, <1>4, <1>5, <1>6, Replaced
<1>8. m \in Output /\ m.e = e /\ m.kind = "line"
  BY DEF Out, Output
<1> HIDE DEF m
<1>9. Speaks(e, m)
  BY <1>2, <1>5, <1>7, <1>8 DEF Speaks, Carried, Ending, x
<1>10. Chooses(e)
  BY <1>2, <1>5, <1>7 DEF Chooses
<1> QED BY <1>7, <1>8, <1>9, <1>10 DEF Step

(* The stderr task picks the tool it is going to announce. *)
LEMMA RateLimitStep ==
    ASSUME TypeOK, Stages, NEW e \in Execs, RateLimit(e)
    PROVE  Step(e)
<1>1. exec \in [Execs -> Execution] /\ exec[e] \in Execution /\ StageOK(exec[e])
  BY DEF TypeOK, Stages
<1>2. PICK n \in Tools \cup {NoTool} :
         /\ NextTool(exec[e].tool, n)
         /\ exec' = [exec EXCEPT ![e].stderr = "picked", ![e].limited = TRUE, ![e].pick = n]
  BY DEF RateLimit
<1> DEFINE q == [exec[e] EXCEPT !.stderr = "picked"]
           r == [q EXCEPT !.limited = TRUE]
           s == [r EXCEPT !.pick = n]
<1>3. exec[e].pc = "run" /\ UNCHANGED <<app, history, ghosts, usage, single, multi>>
  BY DEF RateLimit, At
<1>4. /\ q \in Execution /\ q.pc = exec[e].pc /\ q.outcome = exec[e].outcome
      /\ q.tool = exec[e].tool /\ q.home = exec[e].home /\ q.round = exec[e].round
      /\ q.multi = exec[e].multi /\ q.wrote = exec[e].wrote /\ q.stderr = "picked"
  BY <1>1, SetStderr
<1>5. exec' = [exec EXCEPT ![e] = s]
  BY <1>1, <1>2
<1> HIDE DEF q
<1>6. /\ r \in Execution /\ r.pc = exec[e].pc /\ r.outcome = exec[e].outcome
      /\ r.tool = exec[e].tool /\ r.home = exec[e].home /\ r.round = exec[e].round
      /\ r.multi = exec[e].multi /\ r.wrote = exec[e].wrote /\ r.stderr = "picked"
      /\ r.limited
  BY <1>4, SetLimited
<1> HIDE DEF r
<1>7. /\ s \in Execution /\ s.pc = exec[e].pc /\ s.outcome = exec[e].outcome
      /\ s.tool = exec[e].tool /\ s.home = exec[e].home /\ s.round = exec[e].round
      /\ s.multi = exec[e].multi /\ s.wrote = exec[e].wrote /\ s.stderr = "picked"
      /\ s.limited /\ s.pick = n
  BY <1>6, SetPick
<1> HIDE DEF s
<1>8. Onward(exec[e], s)
  BY <1>1, <1>3, <1>7 DEF Onward, StageOK
<1>9. Moves(e) /\ exec'[e] = s
  BY <1>3, <1>5, <1>7, <1>8, Replaced
<1>10. Quiet(e)
  BY <1>3, <1>7, <1>9 DEF Quiet, Ending
<1>11. Chooses(e)
  BY <1>2, <1>3, <1>7, <1>9 DEF Chooses
<1> QED BY <1>9, <1>10, <1>11 DEF Step

(* It announces it. *)
LEMMA AnnounceStep ==
    ASSUME TypeOK, Stages, NEW e \in Execs, Announce(e)
    PROVE  Step(e)
<1>1. exec \in [Execs -> Execution] /\ exec[e] \in Execution /\ StageOK(exec[e])
  BY DEF TypeOK, Stages
<1> DEFINE r == [exec[e] EXCEPT !.stderr = "announced"]
           s == [r EXCEPT !.pick = NoTool]
           m == Out(e, "limit", exec[e].pick)
<1>2. /\ exec[e].stderr = "picked" /\ exec[e].pc = "run" /\ exec[e].limited
      /\ UNCHANGED <<app, history, ghosts, usage>> /\ Send(e, m)
      /\ exec' = [exec EXCEPT ![e].stderr = "announced", ![e].pick = NoTool]
  BY <1>1 DEF Announce, StageOK
<1>3. /\ r \in Execution /\ r.pc = exec[e].pc /\ r.outcome = exec[e].outcome
      /\ r.tool = exec[e].tool /\ r.home = exec[e].home /\ r.round = exec[e].round
      /\ r.multi = exec[e].multi /\ r.wrote = exec[e].wrote /\ r.stderr = "announced"
      /\ r.limited = exec[e].limited
  BY <1>1, SetStderr
<1>4. exec' = [exec EXCEPT ![e] = s]
  BY <1>1, <1>2
<1> HIDE DEF r
<1>5. /\ s \in Execution /\ s.pc = exec[e].pc /\ s.outcome = exec[e].outcome
      /\ s.tool = exec[e].tool /\ s.home = exec[e].home /\ s.round = exec[e].round
      /\ s.multi = exec[e].multi /\ s.wrote = exec[e].wrote /\ s.stderr = "announced"
      /\ s.limited = exec[e].limited
  BY <1>3, SetPick
<1> HIDE DEF s
<1>6. Onward(exec[e], s)
  BY <1>1, <1>2, <1>5 DEF Onward, StageOK
<1>7. Moves(e) /\ exec'[e] = s
  BY <1>2, <1>4, <1>5, <1>6, Replaced
<1>8. m \in Output /\ m.e = e /\ m.kind = "limit" /\ m.next = exec[e].pick
  BY <1>1 DEF Out, Output, Execution
<1> HIDE DEF m
<1>9. exec[e].wrote \in Nat
  BY <1>1 DEF Execution
<1>10. exec'[e].limited /\ exec'[e].multi = exec[e].multi /\ exec'[e].pc = "run"
  BY <1>2, <1>5, <1>7
<1>11. Carried(m, exec'[e], exec[e].multi)
  BY <1>8, <1>10 DEF Carried
<1>12. Speaks(e, m)
  BY <1>2, <1>5, <1>7, <1>8, <1>9, <1>11 DEF Speaks
<1>13. Chooses(e)
  BY <1>2, <1>5, <1>7 DEF Chooses
<1> QED BY <1>7, <1>8, <1>12, <1>13 DEF Step

(* And then it marks its own. *)
LEMMA MarkStep ==
    ASSUME TypeOK, Stages, NEW e \in Execs, MarkLimited(e)
    PROVE  Step(e)
<1>1. exec \in [Execs -> Execution] /\ exec[e] \in Execution /\ StageOK(exec[e])
  BY DEF TypeOK, Stages
<1> DEFINE s == [exec[e] EXCEPT !.stderr = "reading"]
<1>2. /\ exec[e].stderr = "announced" /\ exec[e].pc = "run" /\ exec[e].limited
      /\ UNCHANGED <<app, history, ghosts, single, multi>>
      /\ exec' = [exec EXCEPT ![e].stderr = "reading"]
  BY <1>1 DEF MarkLimited, StageOK
<1>3. /\ s \in Execution /\ s.pc = exec[e].pc /\ s.outcome = exec[e].outcome
      /\ s.tool = exec[e].tool /\ s.home = exec[e].home /\ s.round = exec[e].round
      /\ s.multi = exec[e].multi /\ s.wrote = exec[e].wrote /\ s.stderr = "reading"
      /\ s.limited = exec[e].limited
  BY <1>1, SetStderr
<1>4. exec' = [exec EXCEPT ![e] = s]
  BY <1>2
<1> HIDE DEF s
<1>5. Onward(exec[e], s)
  BY <1>1, <1>2, <1>3 DEF Onward, StageOK
<1>6. Moves(e) /\ exec'[e] = s
  BY <1>2, <1>3, <1>4, <1>5, Replaced
<1>7. Quiet(e)
  BY <1>2, <1>3, <1>6 DEF Quiet, Ending
<1>8. Chooses(e)
  BY <1>3, <1>6 DEF Chooses
<1> QED BY <1>6, <1>7, <1>8 DEF Step

(* The child ends. *)
LEMMA ExitSteps ==
    ASSUME TypeOK, Stages, NEW e \in Execs, ExitLimited(e) \/ ExitOk(e)
    PROVE  Step(e)
<1>1. exec \in [Execs -> Execution] /\ exec[e] \in Execution /\ StageOK(exec[e])
  BY DEF TypeOK, Stages
<1>2. PICK x \in {"limit", "done"} :
         /\ exec' = [exec EXCEPT ![e].pc = "ended", ![e].outcome = x]
         /\ x = "limit" => /\ exec[e].limited /\ exec[e].stderr = "reading"
                           /\ UNCHANGED <<single, multi>>
         /\ x = "done" => ~exec[e].limited /\ Send(e, Out(e, "done", NoTool))
  BY DEF ExitLimited, ExitOk, Ended
<1> DEFINE r == [exec[e] EXCEPT !.pc = "ended"]
           s == [r EXCEPT !.outcome = x]
           m == Out(e, "done", NoTool)
<1>3. exec[e].pc = "run" /\ UNCHANGED <<app, history, ghosts, usage>>
  BY DEF ExitLimited, ExitOk, At
<1>4. /\ r \in Execution /\ r.pc = "ended"
      /\ r.tool = exec[e].tool /\ r.home = exec[e].home /\ r.round = exec[e].round
      /\ r.multi = exec[e].multi /\ r.wrote = exec[e].wrote /\ r.stderr = exec[e].stderr
      /\ r.pick = exec[e].pick /\ r.limited = exec[e].limited /\ r.outcome = exec[e].outcome
  BY <1>1, SetPc
<1>5. exec' = [exec EXCEPT ![e] = s]
  BY <1>1, <1>2
<1> HIDE DEF r
<1>6. /\ s \in Execution /\ s.pc = "ended" /\ s.outcome = x
      /\ s.tool = exec[e].tool /\ s.home = exec[e].home /\ s.round = exec[e].round
      /\ s.multi = exec[e].multi /\ s.wrote = exec[e].wrote /\ s.stderr = exec[e].stderr
      /\ s.pick = exec[e].pick /\ s.limited = exec[e].limited
  <2>1. x \in {"none", "done", "error", "limit"}
    OBVIOUS
  <2> QED BY <1>4, <2>1 DEF Execution
<1> HIDE DEF s
<1>7. exec[e].wrote \in Nat /\ exec[e].stderr \in {"reading", "picked", "announced"}
  BY <1>1 DEF Execution
<1>8. Onward(exec[e], s)
  BY <1>1, <1>2, <1>3, <1>6, <1>7 DEF Onward, StageOK
<1>9. Moves(e) /\ exec'[e] = s
  BY <1>3, <1>5, <1>6, <1>8, Replaced
<1>10. m \in Output /\ m.e = e /\ m.kind = "done"
  BY DEF Out, Output
<1>11. Quiet(e) \/ Speaks(e, m)
  <2>1. CASE x = "limit"
    BY <1>2, <1>6, <1>9, <2>1 DEF Quiet, Ending
  <2>2. CASE x = "done"
    <3>1. Send(e, m) /\ ~exec[e].limited
      BY <1>2, <2>2
    <3> HIDE DEF m
    <3> QED BY <3>1, <1>6, <1>7, <1>9, <1>10, <2>2 DEF Speaks, Carried
  <2> QED BY <2>1, <2>2
<1> HIDE DEF m
<1>12. Chooses(e)
  BY <1>3, <1>6, <1>9 DEF Chooses
<1> QED BY <1>9, <1>10, <1>11, <1>12 DEF Step

(* Every step of an execution is of this shape. *)
LEMMA StepOfExecute ==
    ASSUME TypeOK, Stages, NEW e \in Execs, Execute(e)
    PROVE  Step(e)
  BY EarlySteps, ErrorSteps, WriteStep, RateLimitStep, AnnounceStep, MarkStep, ExitSteps
     DEF Execute

-----------------------------------------------------------------------------
(* What a step of an execution preserves.                                  *)

(* The channels before and after differ by one message of the execution. *)
LEMMA Grown ==
    ASSUME TypeOK, NEW e \in Execs, Step(e)
    PROVE  /\ single \in Seq(Output) /\ multi \in Seq(Output)
           /\ single' \in Seq(Output) /\ multi' \in Seq(Output)
           /\ Len(single') <= Cap /\ Len(multi') <= Cap
           /\ \/ UNCHANGED <<single, multi>> /\ Quiet(e)
              \/ \E m \in Output :
                    /\ Speaks(e, m)
                    /\ \/ ~exec[e].multi /\ single' = Append(single, m) /\ multi' = multi
                       \/ exec[e].multi /\ single' = single /\ multi' = Append(multi, m)
<1>1. /\ single \in Seq(Output) /\ multi \in Seq(Output)
      /\ Len(single) <= Cap /\ Len(multi) <= Cap
      /\ Cap \in Nat /\ Len(single) \in Nat /\ Len(multi) \in Nat
  BY ChatAssumption DEF TypeOK
<1>2. CASE Quiet(e)
  BY <1>1, <1>2 DEF Quiet
<1>3. CASE \E m \in Output : Speaks(e, m)
  <2>1. PICK m \in Output : Speaks(e, m)
    BY <1>3
  <2>2. CASE exec[e].multi
    <3>1. Len(multi) < Cap /\ multi' = Append(multi, m) /\ single' = single
      BY <2>1, <2>2 DEF Speaks, Send
    <3>2. multi' \in Seq(Output) /\ Len(multi') = Len(multi) + 1
      BY <1>1, <3>1, Appended
    <3> QED BY <1>1, <2>1, <2>2, <3>1, <3>2
  <2>3. CASE ~exec[e].multi
    <3>1. Len(single) < Cap /\ single' = Append(single, m) /\ multi' = multi
      BY <2>1, <2>3 DEF Speaks, Send
    <3>2. single' \in Seq(Output) /\ Len(single') = Len(single) + 1
      BY <1>1, <3>1, Appended
    <3> QED BY <1>1, <2>1, <2>3, <3>1, <3>2
  <2> QED BY <2>2, <2>3
<1> QED BY <1>2, <1>3 DEF Step

(* One channel at a time: it is as it was or longer by m. *)
LEMMA GrownBy ==
    ASSUME TypeOK, NEW e \in Execs, Step(e)
    PROVE  /\ single' = single
              \/ \E m \in Output : Speaks(e, m) /\ ~exec[e].multi /\ single' = Append(single, m)
           /\ multi' = multi
              \/ \E m \in Output : Speaks(e, m) /\ exec[e].multi /\ multi' = Append(multi, m)
  BY Grown

(* What the messages in a channel say of their executions. *)
LEMMA Messages ==
    ASSUME TypeOK
    PROVE  /\ \A i \in DOMAIN single : single[i] \in Output /\ single[i].e \in Execs
           /\ \A i \in DOMAIN multi : multi[i] \in Output /\ multi[i].e \in Execs
<1>1. single \in Seq(Output) /\ multi \in Seq(Output)
  BY DEF TypeOK
<1>2. /\ \A i \in DOMAIN single : single[i] \in Output
      /\ \A i \in DOMAIN multi : multi[i] \in Output
  BY <1>1
<1> QED BY <1>2 DEF Output

(* The shape of the state. *)
LEMMA StepType ==
    ASSUME TypeOK, NEW e \in Execs, Step(e)
    PROVE  TypeOK'
<1>1. UNCHANGED <<app, history, ghosts>> /\ exec' \in [Execs -> Execution]
  BY DEF Step, Moves
<1>2. /\ single' \in Seq(Output) /\ Len(single') <= Cap
      /\ multi' \in Seq(Output) /\ Len(multi') <= Cap
  BY Grown
<1>3. available' \in [Tools -> BOOLEAN] /\ hits' \in [Tools -> Nat]
  <2>1. available \in [Tools -> BOOLEAN] /\ hits \in [Tools -> Nat]
    BY DEF TypeOK
  <2>2. CASE UNCHANGED usage
    BY <2>1, <2>2 DEF usage
  <2>3. CASE MarkLimited(e)
    <3>1. /\ available' = [available EXCEPT ![exec[e].tool] = FALSE]
          /\ hits' = [hits EXCEPT ![exec[e].tool] = @ + 1]
      BY <2>3 DEF MarkLimited
    <3>2. available' \in [Tools -> BOOLEAN]
      BY <2>1, <3>1
    <3>3. \A t \in Tools : hits'[t] \in Nat
      BY <2>1, <3>1
    <3>4. hits' \in [Tools -> Nat]
      BY <2>1, <3>1, <3>3
    <3> QED BY <3>2, <3>4
  <2> QED BY <2>2, <2>3 DEF Step, Chooses
<1> QED BY <1>1, <1>2, <1>3 DEF TypeOK, app, history, ghosts

(* The numbering of the executions and who was crossed with whom. *)
LEMMA StepSlots ==
    ASSUME TypeOK, Slots, Together, Stages, NEW e \in Execs, Step(e)
    PROVE  Slots' /\ Together' /\ Stages'
<1>1. /\ \A f \in Execs : f # e => exec'[f] = exec[f]
      /\ Onward(exec[e], exec'[e])
      /\ rounds' = rounds /\ crossed' = crossed /\ told' = told
  BY DEF Step, Moves, ghosts
<1>2. /\ \A f \in Execs : (exec'[f].pc = "free") = (exec[f].pc = "free")
      /\ \A f \in Execs : /\ exec'[f].tool = exec[f].tool /\ exec'[f].home = exec[f].home
                          /\ exec'[f].round = exec[f].round /\ exec'[f].multi = exec[f].multi
  BY <1>1 DEF Onward
<1>3. Slots'
  BY <1>1, <1>2 DEF Slots, At, Onward
<1>4. Together'
  BY <1>1, <1>2 DEF Together, Mates, At
<1>5. Stages'
  BY <1>1 DEF Stages, Onward
<1> QED BY <1>3, <1>4, <1>5

(* No execution becomes active but by being begun. *)
LEMMA StepRunning ==
    ASSUME TypeOK, NEW e \in Execs, Step(e)
    PROVE  /\ Active(e)
           /\ \A f \in Execs : Active(f)' => Active(f)
           /\ Running' \subseteq Running
           /\ \A r : NamedTwice(r)' = NamedTwice(r)
<1>1. /\ \A f \in Execs : f # e => exec'[f] = exec[f]
      /\ Onward(exec[e], exec'[e])
  BY DEF Step, Moves
<1>2. Active(e)
  BY <1>1 DEF Active, Onward
<1>3. ASSUME NEW f \in Execs, Active(f)', f # e
      PROVE  Active(f)
  <2>1. \A i \in DOMAIN single' : single'[i].e = f => i \in DOMAIN single /\ single[i].e = f
    <3>1. CASE single' = single
      BY <3>1
    <3>2. CASE \E m \in Output : Speaks(e, m) /\ ~exec[e].multi /\ single' = Append(single, m)
      <4>1. PICK m \in Output : m.e = e /\ single' = Append(single, m)
        BY <3>2 DEF Speaks
      <4>2. single \in Seq(Output)
        BY DEF TypeOK
      <4> QED BY <1>3, <4>1, <4>2, Appended
    <3> QED BY <3>1, <3>2, GrownBy
  <2>2. \A i \in DOMAIN multi' : multi'[i].e = f => i \in DOMAIN multi /\ multi[i].e = f
    <3>1. CASE multi' = multi
      BY <3>1
    <3>2. CASE \E m \in Output : Speaks(e, m) /\ exec[e].multi /\ multi' = Append(multi, m)
      <4>1. PICK m \in Output : m.e = e /\ multi' = Append(multi, m)
        BY <3>2 DEF Speaks
      <4>2. multi \in Seq(Output)
        BY DEF TypeOK
      <4> QED BY <1>3, <4>1, <4>2, Appended
    <3> QED BY <3>1, <3>2, GrownBy
  <2> QED BY <1>1, <1>3, <2>1, <2>2 DEF Active
<1>4. \A f \in Execs : Active(f)' => Active(f)
  BY <1>2, <1>3
<1>5. \A f \in Execs : exec'[f].round = exec[f].round /\ exec'[f].tool = exec[f].tool
  BY <1>1 DEF Onward
<1>6. Running' \subseteq Running
  BY <1>4, <1>5 DEF Running
<1>7. \A r : NamedTwice(r)' = NamedTwice(r)
  BY <1>5 DEF NamedTwice
<1> QED BY <1>2, <1>4, <1>6, <1>7

(* The channels stay consistent with what the executions did. *)
LEMMA StepChannels ==
    ASSUME TypeOK, Stages, Channels, NEW e \in Execs, Step(e)
    PROVE  Channels'
<1>1. /\ \A f \in Execs : f # e => exec'[f] = exec[f]
      /\ Onward(exec[e], exec'[e]) /\ StageOK(exec[e])
  BY DEF Step, Moves, Stages
<1>2. ASSUME NEW m \in Output, NEW b, Carried(m, exec[m.e], b)
      PROVE  Carried(m, exec'[m.e], b)
  <2>1. m.e \in Execs
    BY DEF Output
  <2> QED BY <1>1, <1>2, <2>1 DEF Carried, Onward
<1>3. ASSUME NEW q \in Seq(Output), NEW m \in Output, NEW b,
             \A i \in DOMAIN q : Carried(q[i], exec[q[i].e], b),
             LastWord(q), Speaks(e, m), exec[e].multi = b
      PROVE  /\ \A i \in DOMAIN Append(q, m) : Carried(Append(q, m)[i], exec'[Append(q, m)[i].e], b)
             /\ LastWord(Append(q, m))
             /\ b /\ Final(q) => Final(Append(q, m))
  <2> DEFINE t == Append(q, m)
  <2>1. /\ DOMAIN t = 1..(Len(q) + 1) /\ DOMAIN q = 1..Len(q) /\ Len(q) \in Nat
        /\ t[Len(q) + 1] = m /\ \A i \in 1..Len(q) : t[i] = q[i]
    BY Appended
  <2>2. \A i \in DOMAIN q : q[i] \in Output
    BY <1>3
  <2>3. m.e = e /\ Carried(m, exec'[e], b) /\ (m.kind = "line" => exec[e].pc = "run")
    BY <1>3 DEF Speaks
  <2> HIDE DEF t
  <2>4. ASSUME NEW i \in DOMAIN t PROVE Carried(t[i], exec'[t[i].e], b)
    <3>1. CASE i = Len(q) + 1
      BY <2>1, <2>3, <3>1
    <3>2. CASE i \in DOMAIN q
      BY <1>2, <1>3, <2>1, <2>2, <3>2
    <3> QED BY <2>1, <3>1, <3>2
  <2>5. \A i \in DOMAIN q : q[i].e = e =>
           /\ q[i].kind # "done"
           /\ q[i].kind = "error" => exec[e].pc # "run"
    BY <1>1, <1>3 DEF Carried, Onward, StageOK
  <2>6. LastWord(t)
    BY <1>3, <2>1, <2>3, <2>5 DEF LastWord
  <2>7. b => \A i \in DOMAIN q : q[i].e = e => q[i].kind \notin {"done", "error"}
    BY <1>1, <1>3 DEF Carried, Onward, StageOK
  <2>8. b /\ Final(q) => Final(t)
    BY <2>1, <2>3, <2>7 DEF Final
  <2> QED BY <2>4, <2>6, <2>8 DEF t
<1>4. single \in Seq(Output) /\ multi \in Seq(Output) /\ exec[e].multi \in BOOLEAN
  BY DEF TypeOK, Execution
<1>5. /\ \A i \in DOMAIN single : Carried(single[i], exec'[single[i].e], FALSE)
      /\ \A i \in DOMAIN multi : Carried(multi[i], exec'[multi[i].e], TRUE)
  BY <1>2, Messages DEF Channels
<1>6. (\A i \in DOMAIN single' : Carried(single'[i], exec'[single'[i].e], FALSE)) /\ LastWord(single')
  <2>1. CASE single' = single
    BY <1>5, <2>1 DEF Channels
  <2>2. CASE \E m \in Output : Speaks(e, m) /\ ~exec[e].multi /\ single' = Append(single, m)
    <3>1. PICK m \in Output : Speaks(e, m) /\ exec[e].multi = FALSE /\ single' = Append(single, m)
      BY <1>4, <2>2
    <3> QED BY <1>3, <1>4, <3>1 DEF Channels
  <2> QED BY <2>1, <2>2, GrownBy
<1>7. /\ \A i \in DOMAIN multi' : Carried(multi'[i], exec'[multi'[i].e], TRUE)
      /\ LastWord(multi') /\ Final(multi')
  <2>1. CASE multi' = multi
    BY <1>5, <2>1 DEF Channels
  <2>2. CASE \E m \in Output : Speaks(e, m) /\ exec[e].multi /\ multi' = Append(multi, m)
    <3>1. PICK m \in Output : Speaks(e, m) /\ exec[e].multi = TRUE /\ multi' = Append(multi, m)
      BY <1>4, <2>2
    <3> QED BY <1>3, <1>4, <3>1 DEF Channels
  <2> QED BY <2>1, <2>2, GrownBy
<1>8. /\ \A i \in DOMAIN single' : Carried(single[i], exec[single[i].e], FALSE)'
      /\ \A i \in DOMAIN multi' : Carried(multi[i], exec[multi[i].e], TRUE)'
      /\ LastWord(single)' /\ LastWord(multi)' /\ Final(multi)'
  BY <1>6, <1>7 DEF Carried, LastWord, Final
<1> QED BY <1>8 DEF Channels

(* An execution that writes nothing has as many lines under way as before... *)
LEMMA StepSameLines ==
    ASSUME TypeOK, NEW e \in Execs, Step(e), NEW f \in Execs, f # e \/ exec[e].pc # "run"
    PROVE  LinesIn(single', f) = LinesIn(single, f) /\ LinesIn(multi', f) = LinesIn(multi, f)
<1>1. ASSUME NEW q \in Seq(Output), NEW m \in Output, Speaks(e, m)
      PROVE  LinesIn(Append(q, m), f) = LinesIn(q, f)
  <2> DEFINE t == Append(q, m)
  <2>1. /\ DOMAIN t = 1..(Len(q) + 1) /\ DOMAIN q = 1..Len(q) /\ Len(q) \in Nat
        /\ t[Len(q) + 1] = m /\ \A i \in 1..Len(q) : t[i] = q[i]
    BY Appended
  <2>2. m.e # f \/ m.kind # "line"
    BY <1>1 DEF Speaks
  <2> HIDE DEF t
  <2>3. LinesIn(t, f) = LinesIn(q, f)
    BY <2>1, <2>2 DEF LinesIn
  <2> QED BY <2>3 DEF t
<1>2. single \in Seq(Output) /\ multi \in Seq(Output)
  BY DEF TypeOK
<1>3. LinesIn(single', f) = LinesIn(single, f)
  BY <1>1, <1>2, GrownBy
<1>4. LinesIn(multi', f) = LinesIn(multi, f)
  BY <1>1, <1>2, GrownBy
<1> QED BY <1>3, <1>4

(* ...and one that writes has as many more as it wrote. *)
LEMMA StepLines ==
    ASSUME TypeOK, NEW e \in Execs, Step(e), NEW f \in Execs
    PROVE  /\ ~exec[f].multi =>
                 Cardinality(LinesIn(single', f)) + exec[f].wrote
                 = Cardinality(LinesIn(single, f)) + exec'[f].wrote
           /\ exec[f].multi =>
                 Cardinality(LinesIn(multi', f)) + exec[f].wrote
                 = Cardinality(LinesIn(multi, f)) + exec'[f].wrote
<1>1. /\ \A g \in Execs : g # e => exec'[g] = exec[g]
      /\ exec[f].wrote \in Nat /\ exec'[f].wrote \in Nat
      /\ single \in Seq(Output) /\ multi \in Seq(Output)
  <2>1. exec \in [Execs -> Execution] /\ exec' \in [Execs -> Execution]
    BY DEF TypeOK, Step, Moves
  <2>2. exec[f] \in Execution /\ exec'[f] \in Execution
    BY <2>1
  <2>3. exec[f].wrote \in Nat /\ exec'[f].wrote \in Nat
    BY <2>2 DEF Execution
  <2>4. \A g \in Execs : g # e => exec'[g] = exec[g]
    BY DEF Step, Moves
  <2> QED BY <2>3, <2>4 DEF TypeOK
<1>2. Cardinality(LinesIn(single, f)) \in Nat /\ Cardinality(LinesIn(multi, f)) \in Nat
  BY <1>1, LinesFinite
<1>3. CASE f # e
  BY <1>1, <1>2, <1>3, StepSameLines
<1>4. CASE f = e
  <2>1. CASE UNCHANGED <<single, multi>> /\ Quiet(e)
    <3>1. exec'[e].wrote = exec[e].wrote
      BY <2>1 DEF Quiet
    <3> QED BY <1>1, <1>2, <1>4, <2>1, <3>1
  <2>2. CASE \E m \in Output :
                    /\ Speaks(e, m)
                    /\ \/ ~exec[e].multi /\ single' = Append(single, m) /\ multi' = multi
                       \/ exec[e].multi /\ single' = single /\ multi' = Append(multi, m)
    <3>1. PICK m \in Output :
                    /\ Speaks(e, m)
                    /\ \/ ~exec[e].multi /\ single' = Append(single, m) /\ multi' = multi
                       \/ exec[e].multi /\ single' = single /\ multi' = Append(multi, m)
      BY <2>2
    <3>2. m.e = e /\ exec'[e].wrote = exec[e].wrote + (IF m.kind = "line" THEN 1 ELSE 0)
      BY <3>1 DEF Speaks
    <3>3. /\ Cardinality(LinesIn(Append(single, m), e)) =
               Cardinality(LinesIn(single, e)) + (IF m.e = e /\ m.kind = "line" THEN 1 ELSE 0)
          /\ Cardinality(LinesIn(Append(multi, m), e)) =
               Cardinality(LinesIn(multi, e)) + (IF m.e = e /\ m.kind = "line" THEN 1 ELSE 0)
      BY <1>1, LinesAppend
    <3> DEFINE d == IF m.kind = "line" THEN 1 ELSE 0
               a == Cardinality(LinesIn(single, e))
               b == Cardinality(LinesIn(multi, e))
               w == exec[e].wrote
    <3>4. a \in Nat /\ b \in Nat /\ w \in Nat /\ d \in Nat
      BY <1>1, <1>2, <1>4
    <3>5. exec'[e].wrote = w + d
      BY <3>2
    <3>6. CASE ~exec[e].multi /\ single' = Append(single, m) /\ multi' = multi
      <4>1. Cardinality(LinesIn(single', e)) = a + d
        BY <3>2, <3>3, <3>6
      <4> HIDE DEF a, d, w
      <4>2. Cardinality(LinesIn(single', e)) + w = a + exec'[e].wrote
        BY <3>4, <3>5, <4>1
      <4> QED BY <1>4, <3>6, <4>2 DEF a, w
    <3>7. CASE exec[e].multi /\ single' = single /\ multi' = Append(multi, m)
      <4>1. Cardinality(LinesIn(multi', e)) = b + d
        BY <3>2, <3>3, <3>7
      <4> HIDE DEF b, d, w
      <4>2. Cardinality(LinesIn(multi', e)) + w = b + exec'[e].wrote
        BY <3>4, <3>5, <4>1
      <4> QED BY <1>4, <3>7, <4>2 DEF b, w
    <3> QED BY <3>1, <3>6, <3>7
  <2> QED BY <2>1, <2>2, Grown
<1> QED BY <1>3, <1>4

(* Whose end was taken stays quiet. *)
LEMMA StepSettled ==
    ASSUME TypeOK, Stages, Settled, NEW e \in Execs, Step(e)
    PROVE  Settled'
<1>1. /\ \A f \in Execs : f # e => exec'[f] = exec[f]
      /\ Onward(exec[e], exec'[e]) /\ StageOK(exec[e]) /\ told' = told
  BY DEF Step, Moves, Stages, ghosts
<1>2. ASSUME NEW f \in told, ~exec'[f].limited
      PROVE  /\ exec'[f].outcome \in {"done", "error"}
             /\ LinesIn(single', f) = {} /\ LinesIn(multi', f) = {}
             /\ exec'[f].multi => \A i \in DOMAIN multi' : multi'[i].e # f
  <2>1. f \in Execs
    BY DEF TypeOK
  <2>2. ~exec[f].limited
    BY <1>1, <1>2, <2>1 DEF Onward
  <2>3. /\ exec[f].outcome \in {"done", "error"}
        /\ LinesIn(single, f) = {} /\ LinesIn(multi, f) = {}
        /\ exec[f].multi => \A i \in DOMAIN multi : multi[i].e # f
    BY <2>2 DEF Settled
  <2>4. f # e \/ exec[e].pc # "run"
    BY <1>1, <2>3 DEF StageOK
  <2>5. exec'[f].outcome = exec[f].outcome
    BY <1>1, <2>1, <2>3 DEF Onward
  <2>6. ASSUME exec'[f].multi PROVE \A i \in DOMAIN multi' : multi'[i].e # f
    <3>1. exec[f].multi /\ StageOK(exec[f])
      BY <1>1, <2>1, <2>6 DEF Onward, Stages
    <3>2. exec[f].pc = "ended" /\ f # e
      BY <1>1, <2>3, <3>1 DEF StageOK, Onward
    <3>3. ASSUME NEW m \in Output, Speaks(e, m), multi' = Append(multi, m)
          PROVE  \A i \in DOMAIN multi' : multi'[i].e # f
      <4>1. multi \in Seq(Output) /\ m.e = e
        BY <3>3 DEF TypeOK, Speaks
      <4> QED BY <2>3, <3>1, <3>2, <3>3, <4>1, Appended
    <3> QED BY <2>3, <3>1, <3>3, GrownBy
  <2> QED BY <2>1, <2>3, <2>4, <2>5, <2>6, StepSameLines
<1>3. \A f \in told' : ~exec'[f].limited =>
          /\ exec'[f].outcome \in {"done", "error"}
          /\ LinesIn(single', f) = {} /\ LinesIn(multi', f) = {}
          /\ exec'[f].multi => \A i \in DOMAIN multi' : multi'[i].e # f
  BY <1>1, <1>2
<1> QED BY <1>3 DEF Settled, LinesIn

(* An end, an error or a limit is on its way or was taken. *)
LEMMA StepLoud ==
    ASSUME TypeOK, Loud, NEW e \in Execs, Step(e)
    PROVE  Loud'
<1>1. /\ \A f \in Execs : f # e => exec'[f] = exec[f]
      /\ told' = told
  BY DEF Step, Moves, ghosts
<1>2. ASSUME NEW q \in Seq(Output), NEW m \in Output, NEW f, Spoken(q, f)
      PROVE  Spoken(Append(q, m), f)
  BY <1>2, Appended DEF Spoken
<1>3. ASSUME NEW q \in Seq(Output), NEW m \in Output, m.kind # "line", m.e = e
      PROVE  Spoken(Append(q, m), e)
  <2>1. /\ Len(q) + 1 \in DOMAIN Append(q, m)
        /\ Append(q, m)[Len(q) + 1] = m
    BY Appended
  <2> QED BY <1>3, <2>1 DEF Spoken
<1>4. single \in Seq(Output) /\ multi \in Seq(Output)
  BY DEF TypeOK
<1>5. ASSUME NEW f PROVE /\ Spoken(single, f) => Spoken(single', f)
                         /\ Spoken(multi, f) => Spoken(multi', f)
  BY <1>2, <1>4, GrownBy
<1>6. ASSUME NEW f \in Execs, Ending(exec'[f])
      PROVE  f \in told \/ Spoken(single', f) \/ Spoken(multi', f)
  <2>1. CASE Ending(exec[f])
    <3>1. f \in told \/ Spoken(single, f) \/ Spoken(multi, f)
      BY <2>1 DEF Loud, Ending, At
    <3> QED BY <1>5, <3>1
  <2>2. CASE ~Ending(exec[f])
    <3>1. f = e
      BY <1>1, <1>6, <2>2
    <3>2. ~Quiet(e)
      BY <1>6, <2>2, <3>1 DEF Quiet
    <3>3. PICK m \in Output :
                    /\ Speaks(e, m)
                    /\ \/ ~exec[e].multi /\ single' = Append(single, m) /\ multi' = multi
                       \/ exec[e].multi /\ single' = single /\ multi' = Append(multi, m)
      BY <3>2, Grown
    <3>4. m.kind # "line" /\ m.e = e
      BY <1>6, <2>2, <3>1, <3>3 DEF Speaks
    <3> QED BY <1>3, <1>4, <3>1, <3>3, <3>4
  <2> QED BY <2>1, <2>2
<1>7. \A f \in Execs : Ending(exec'[f]) => f \in told' \/ Spoken(single', f) \/ Spoken(multi', f)
  BY <1>1, <1>6
<1> QED BY <1>7 DEF Loud, Ending, At, Spoken

-----------------------------------------------------------------------------
(* Rounds that nothing crosses.                                            *)

(* What is active, and what runs beside it, was begun. *)
LEMMA Begun ==
    ASSUME TypeOK, Slots, Channels
    PROVE  /\ \A e \in Execs : Active(e) => ~At(e, "free") /\ e \in Running
           /\ \A e \in Running : e \in Execs /\ ~At(e, "free")
<1>1. ASSUME NEW e \in Execs, Active(e) PROVE ~At(e, "free")
  <2>1. CASE exec[e].pc \notin {"free", "ended"}
    BY <2>1 DEF At
  <2>2. CASE \E i \in DOMAIN single : single[i].e = e
    BY <2>2 DEF Channels, Carried, At
  <2>3. CASE \E i \in DOMAIN multi : multi[i].e = e
    BY <2>3 DEF Channels, Carried, At
  <2> QED BY <1>1, <2>1, <2>2, <2>3 DEF Active
<1>2. ASSUME NEW e \in Running PROVE e \in Execs /\ ~At(e, "free")
  <2>1. e \in Execs
    BY DEF Running
  <2>2. PICK g \in Execs : Active(g) /\ exec[g].round = exec[e].round
    BY DEF Running
  <2>3. exec[e].round \in 1..rounds
    BY <1>1, <2>2 DEF Slots
  <2>4. At(e, "free") => exec[e].round = 0
    BY <2>1 DEF Slots, Idle
  <2>5. rounds \in Nat
    BY DEF TypeOK
  <2> QED BY <2>1, <2>3, <2>4, <2>5
<1> QED BY <1>1, <1>2 DEF Running

(* Whatever is active while such a round goes on belongs to it. *)
LEMMA Alone ==
    ASSUME TypeOK, Slots, Channels, Together, Undisturbed,
           NEW e \in Execs, Active(e), NEW f \in Running \ crossed
    PROVE  /\ f \in Execs /\ Mates(f, e) /\ e \in Running \ crossed
           /\ exec[f].multi = exec[e].multi
           /\ ~exec[f].multi => e = f
           /\ exec[e].home = open /\ exec[f].home = open
           /\ exec[e].round = rounds /\ exec[f].round = rounds
<1>1. f \in Execs /\ ~At(f, "free") /\ ~At(e, "free") /\ e \in Running
  BY Begun
<1>2. exec[f].round = rounds /\ exec[e].round = rounds
  BY DEF Undisturbed
<1>3. Mates(f, e) /\ Mates(e, f)
  BY <1>1, <1>2 DEF Mates
<1>4. exec[f].multi = exec[e].multi /\ (~exec[f].multi => e = f) /\ e \notin crossed
  BY <1>1, <1>3 DEF Together
<1>5. exec[e].home = open /\ exec[f].home = open
  BY <1>1, <1>4 DEF Undisturbed
<1> QED BY <1>1, <1>2, <1>3, <1>4, <1>5

(* A step of an execution disturbs nothing. *)
LEMMA StepUndisturbed ==
    ASSUME TypeOK, Undisturbed, NEW e \in Execs, Step(e)
    PROVE  Undisturbed'
<1>1. /\ \A f \in Execs : exec'[f].round = exec[f].round /\ exec'[f].home = exec[f].home
      /\ rounds' = rounds /\ crossed' = crossed /\ open' = open
  BY DEF Step, Moves, Onward, ghosts, history
<1>2. (\A f \in Execs : Active(f)' => Active(f)) /\ Running' \subseteq Running
  BY StepRunning
<1>3. Running \subseteq Execs
  BY DEF Running
<1> QED BY <1>1, <1>2, <1>3 DEF Undisturbed

(* What was collected of an answer and what is still under way of it. *)
LEMMA StepCollected ==
    ASSUME TypeOK, Stages, Settled, Collected, CollectedEach, NEW e \in Execs, Step(e)
    PROVE  Collected' /\ CollectedEach'
<1>1. /\ \A f \in Execs : f # e => exec'[f] = exec[f]
      /\ Onward(exec[e], exec'[e]) /\ exec' \in [Execs -> Execution]
      /\ UNCHANGED <<told, crossed, response, selected, responses, completed>>
  BY DEF Step, Moves, ghosts, app
<1>2. /\ Running' \subseteq Running /\ Running \subseteq Execs
      /\ \A r : NamedTwice(r)' = NamedTwice(r)
  BY StepRunning DEF Running
<1>3. /\ \A f \in Execs : /\ exec'[f].tool = exec[f].tool /\ exec'[f].round = exec[f].round
                          /\ exec'[f].multi = exec[f].multi
                          /\ exec[f].limited => exec'[f].limited
                          /\ exec[f].outcome = "error" => exec'[f].outcome = "error"
  BY <1>1 DEF Onward
<1>4. ASSUME NEW f \in Execs
      PROVE  /\ exec[f].wrote \in Nat /\ exec'[f].wrote \in Nat
             /\ Cardinality(LinesIn(single, f)) \in Nat /\ Cardinality(LinesIn(single', f)) \in Nat
             /\ Cardinality(LinesIn(multi, f)) \in Nat /\ Cardinality(LinesIn(multi', f)) \in Nat
  <2>1. exec[f] \in Execution /\ exec'[f] \in Execution
    BY <1>1 DEF TypeOK
  <2>2. /\ single \in Seq(Output) /\ single' \in Seq(Output)
        /\ multi \in Seq(Output) /\ multi' \in Seq(Output)
    BY Grown
  <2>3. exec[f].wrote \in Nat /\ exec'[f].wrote \in Nat
    BY <2>1 DEF Execution
  <2> QED BY <2>2, <2>3, LinesFinite
<1>5. ASSUME NEW f \in Execs, NEW S, NEW text \in Seq(S), ~exec[f].multi, TextOf(f, text, single)
      PROVE  /\ \A n \in DOMAIN text : text[n] = f
             /\ Len(text) + Cardinality(LinesIn(single', f)) = exec'[f].wrote
  <2>1. Len(text) + Cardinality(LinesIn(single, f)) = exec[f].wrote /\ Len(text) \in Nat
    BY <1>5 DEF TextOf
  <2>2. Cardinality(LinesIn(single', f)) + exec[f].wrote
        = Cardinality(LinesIn(single, f)) + exec'[f].wrote
    BY <1>5, StepLines
  <2>3. /\ exec[f].wrote \in Nat /\ exec'[f].wrote \in Nat
        /\ Cardinality(LinesIn(single, f)) \in Nat /\ Cardinality(LinesIn(single', f)) \in Nat
    BY <1>4
  <2> DEFINE a == Cardinality(LinesIn(single, f))
             b == Cardinality(LinesIn(single', f))
             w == exec[f].wrote
             x == exec'[f].wrote
             l == Len(text)
  <2> HIDE DEF a, b, w, x, l
  <2>4. l + a = w /\ b + w = a + x /\ a \in Nat /\ b \in Nat /\ w \in Nat /\ x \in Nat /\ l \in Nat
    BY <2>1, <2>2, <2>3 DEF a, b, w, x, l
  <2>5. l + b = x
    BY <2>4
  <2> QED BY <1>5, <2>5 DEF TextOf, b, x, l
<1>6. ASSUME NEW f \in Execs, NEW S, NEW text \in Seq(S), exec[f].multi, TextOf(f, text, multi)
      PROVE  /\ \A n \in DOMAIN text : text[n] = f
             /\ Len(text) + Cardinality(LinesIn(multi', f)) = exec'[f].wrote
  <2>1. Len(text) + Cardinality(LinesIn(multi, f)) = exec[f].wrote /\ Len(text) \in Nat
    BY <1>6 DEF TextOf
  <2>2. Cardinality(LinesIn(multi', f)) + exec[f].wrote
        = Cardinality(LinesIn(multi, f)) + exec'[f].wrote
    BY <1>6, StepLines
  <2>3. /\ exec[f].wrote \in Nat /\ exec'[f].wrote \in Nat
        /\ Cardinality(LinesIn(multi, f)) \in Nat /\ Cardinality(LinesIn(multi', f)) \in Nat
    BY <1>4
  <2> DEFINE a == Cardinality(LinesIn(multi, f))
             b == Cardinality(LinesIn(multi', f))
             w == exec[f].wrote
             x == exec'[f].wrote
             l == Len(text)
  <2> HIDE DEF a, b, w, x, l
  <2>4. l + a = w /\ b + w = a + x /\ a \in Nat /\ b \in Nat /\ w \in Nat /\ x \in Nat /\ l \in Nat
    BY <2>1, <2>2, <2>3 DEF a, b, w, x, l
  <2>5. l + b = x
    BY <2>4
  <2> QED BY <1>6, <2>5 DEF TextOf, b, x, l
<1>7. Collected'
  <2>1. ASSUME NEW f \in Running' \ crossed',
               ~exec'[f].multi, ~exec'[f].limited, exec'[f].outcome # "error", f \notin told'
        PROVE  TextOf(f, response, single)'
    <3>1. /\ f \in Running \ crossed /\ f \in Execs /\ f \notin told
          /\ ~exec[f].multi /\ ~exec[f].limited /\ exec[f].outcome # "error"
      BY <1>1, <1>2, <1>3, <2>1
    <3>2. TextOf(f, response, single)
      BY <3>1 DEF Collected
    <3>3. response \in Seq(Execs)
      BY DEF TypeOK
    <3>4. /\ \A n \in DOMAIN response : response[n] = f
          /\ Len(response) + Cardinality(LinesIn(single', f)) = exec'[f].wrote
      BY <1>5, <3>1, <3>2, <3>3
    <3>5. LinesIn(single, f)' = LinesIn(single', f)
      BY DEF LinesIn
    <3> QED BY <1>1, <3>4, <3>5 DEF TextOf
  <2> QED BY <2>1 DEF Collected
<1>8. CollectedEach'
  <2>1. ASSUME NEW f \in Running' \ crossed', exec'[f].multi, ~NamedTwice(exec[f].round)'
        PROVE  CollectedFor(f)'
    <3>1. f \in Running \ crossed /\ f \in Execs /\ exec[f].multi /\ ~NamedTwice(exec[f].round)
      <4>1. f \in Running \ crossed /\ f \in Execs /\ exec[f].multi
        BY <1>1, <1>2, <1>3, <2>1
      <4>2. ~NamedTwice(exec[f].round)
        BY <1>3, <2>1, <4>1 DEF NamedTwice
      <4> QED BY <4>1, <4>2
    <3>2. CollectedFor(f)
      BY <3>1 DEF CollectedEach
    <3>3. exec[f].tool \in Tools /\ responses[exec[f].tool] \in Seq(Lines)
      <4>1. selected \in Seq(Tools) /\ responses \in [Tools -> Seq(Lines) \cup {NoEntry}]
        BY DEF TypeOK
      <4>2. exec[f].tool \in Range(selected) /\ responses[exec[f].tool] # NoEntry
        BY <3>2 DEF CollectedFor
      <4> QED BY <4>1, <4>2 DEF Range
    <3>4. ASSUME ~exec'[f].limited, f \notin told
          PROVE  TextOf(f, responses[exec[f].tool], multi)'
      <4>1. TextOf(f, responses[exec[f].tool], multi)
        BY <1>3, <3>1, <3>2, <3>4 DEF CollectedFor
      <4>2. /\ \A n \in DOMAIN responses[exec[f].tool] : responses[exec[f].tool][n] = f
            /\ Len(responses[exec[f].tool]) + Cardinality(LinesIn(multi', f)) = exec'[f].wrote
        BY <1>6, <3>1, <3>3, <4>1
      <4>3. LinesIn(multi, f)' = LinesIn(multi', f)
        BY DEF LinesIn
      <4>4. responses'[exec'[f].tool] = responses[exec[f].tool]
        BY <1>1, <1>3, <3>1
      <4> QED BY <4>2, <4>3, <4>4 DEF TextOf
    <3>5. /\ exec'[f].tool \in Range(selected)' /\ responses'[exec'[f].tool] # NoEntry
          /\ f \notin told' => completed'[exec'[f].tool] = "pending"
      BY <1>1, <1>3, <3>1, <3>2 DEF CollectedFor, Range
    <3>6. ASSUME ~exec'[f].limited, f \in told
          PROVE  responses'[exec'[f].tool] = AsWritten(f)'
      <4>1. ~exec[f].limited
        BY <1>3, <3>1, <3>6
      <4>2. exec[f].outcome \in {"done", "error"} /\ StageOK(exec[f])
        BY <3>1, <3>6, <4>1 DEF Settled, Stages
      <4>3. exec[f].pc = "ended"
        BY <3>1, <4>2 DEF StageOK
      <4>4. exec'[f] = exec[f]
        BY <1>1, <3>1, <4>3 DEF Onward
      <4>5. responses[exec[f].tool] = AsWritten(f)
        BY <3>2, <3>6, <4>1 DEF CollectedFor
      <4> QED BY <1>1, <4>4, <4>5 DEF AsWritten
    <3> QED BY <1>1, <3>4, <3>5, <3>6 DEF CollectedFor
  <2> QED BY <2>1 DEF CollectedEach
<1> QED BY <1>7, <1>8

(* What was saved stays as it is. *)
LEMMA StepSaved ==
    ASSUME TypeOK, Stages, Settled, Saved, Once, AnswerAtHome, NEW e \in Execs, Step(e)
    PROVE  Saved' /\ Once' /\ AnswerAtHome'
<1>1. /\ \A f \in Execs : f # e => exec'[f] = exec[f]
      /\ Onward(exec[e], exec'[e]) /\ StageOK(exec[e])
      /\ UNCHANGED <<told, crossed, rounds, log>>
  BY DEF Step, Moves, ghosts, history, Stages
<1>2. \A r : NamedTwice(r)' = NamedTwice(r)
  BY StepRunning
<1>3. ASSUME NEW m, NEW s, NEW f \in Execs, WholeFor(m, s, f)
      PROVE  (exec'[f].round = m.round /\ ~exec'[f].limited) =>
                /\ exec'[f].pc = "ended" /\ exec'[f].home = s /\ f \in told'
                /\ m.parts[exec'[f].tool] = AsWritten(f)'
  <2>1. CASE f # e
    BY <1>1, <1>3, <2>1 DEF WholeFor, AsWritten
  <2>2. CASE f = e
    BY <1>1, <1>3, <2>2 DEF WholeFor, Onward
  <2> QED BY <2>1, <2>2
<1>4. Saved'
  <2>1. ASSUME NEW s \in Sessions, NEW i \in DOMAIN log[s], log[s][i].who = "combined"
        PROVE  /\ log[s][i].round \in 1..rounds
               /\ ~NamedTwice(log[s][i].round)' =>
                      \A f \in Execs \ crossed : WholeFor(log[s][i], s, f)'
    <3>1. log[s][i].round \in 1..rounds
      BY <2>1 DEF Saved
    <3>2. ~NamedTwice(log[s][i].round)' => ~NamedTwice(log[s][i].round)
      BY <1>1, <1>2 DEF NamedTwice
    <3>3. ASSUME NEW f \in Execs \ crossed, ~NamedTwice(log[s][i].round)
          PROVE  WholeFor(log[s][i], s, f)'
      <4>1. WholeFor(log[s][i], s, f)
        BY <2>1, <3>3 DEF Saved
      <4> DEFINE m == log[s][i]
      <4>2. m' = m
        BY <1>1
      <4>3. (exec'[f].round = m.round /\ ~exec'[f].limited) =>
                /\ exec'[f].pc = "ended" /\ exec'[f].home = s /\ f \in told'
                /\ m.parts[exec'[f].tool] = AsWritten(f)'
        BY <1>3, <4>1
      <4> QED BY <1>1, <4>2, <4>3, Zenon DEF WholeFor
    <3> QED BY <3>1, <3>2, <3>3
  <2> QED BY <1>1, <2>1 DEF Saved
<1>5. AnswerAtHome'
  <2>1. ASSUME NEW f \in told \ crossed,
               ~exec'[f].multi, exec'[f].outcome = "done", exec'[f].wrote > 0
        PROVE  f # e
    <3>1. SUFFICES ASSUME f = e PROVE FALSE
      OBVIOUS
    <3>2. exec[e].pc = "run" /\ ~exec[e].limited
      BY <1>1, <2>1, <3>1 DEF Onward
    <3>3. exec[e].outcome \in {"done", "error"}
      BY <3>1, <3>2 DEF Settled
    <3> QED BY <1>1, <3>2, <3>3 DEF StageOK
  <2>2. told \subseteq Execs
    BY DEF TypeOK
  <2> QED BY <1>1, <2>1, <2>2 DEF AnswerAtHome, Answers
<1>6. Once'
  <2>1. \A f \in Execs : exec'[f].round = exec[f].round /\ exec'[f].tool = exec[f].tool
    BY <1>1 DEF Onward
  <2>2. \A r : NamedTwice(r) => (\E g, h \in Execs :
            g # h /\ exec'[g].round = r /\ exec'[h].round = r /\ exec'[g].tool = exec'[h].tool)
    BY <2>1 DEF NamedTwice
  <2> QED BY <1>1, <2>1, <2>2 DEF Once, Same, NamedTwice
<1> QED BY <1>4, <1>5, <1>6

-----------------------------------------------------------------------------
(* The next tool.                                                          *)

(* A remainder below twice the divisor. *)
LEMMA Remainder ==
    ASSUME NEW l \in Nat \ {0}, NEW a \in Nat, a < 2 * l
    PROVE  a % l = IF a < l THEN a ELSE a - l
  OBVIOUS

(* get_next_tool never names the tool it replaces, nor one that is limited. *)
LEMMA NextToolUsable ==
    ASSUME NEW t \in Tools, NEW n \in Tools \cup {NoTool}, n # NoTool, NextTool(t, n)
    PROVE  n # t /\ Usable(n)
<1> DEFINE S == {u \in Tools : Usable(u) /\ (Strategy = "round_robin" \/ u # t)}
<1>1. PICK i \in DOMAIN Scanned(t) : Scanned(t)[i] = n /\ n \in S
  BY DEF NextTool, FirstOf
<1>2. CASE Strategy # "round_robin"
  BY <1>1, <1>2
<1>3. CASE Strategy = "round_robin"
  <2>1. /\ i \in 1..(Len(Priority) - 1)
        /\ n = Priority[((Place(t) + i - 1) % Len(Priority)) + 1]
    BY <1>1, <1>3 DEF Scanned
  <2>2. /\ DOMAIN Priority = 1..Len(Priority) /\ Len(Priority) \in Nat
        /\ \A a, b \in DOMAIN Priority : Priority[a] = Priority[b] => a = b
    BY ChatAssumption DEF IsInjective
  <2> DEFINE p == Place(t)
             l == Len(Priority)
             x == p + i - 1
             k == (x % l) + 1
  <2>3. p \in 1..l
    BY <2>1, <2>2 DEF Place
  <2> HIDE DEF p, l
  <2>4. x \in Nat /\ l \in Nat \ {0} /\ x < 2 * l
    BY <2>1, <2>2, <2>3 DEF l
  <2>5. x % l = IF x < l THEN x ELSE x - l
    BY <2>4, Remainder
  <2>6. k \in 1..l /\ k # p
    BY <2>1, <2>2, <2>3, <2>4, <2>5 DEF l
  <2>7. n = Priority[k]
    BY <2>1 DEF p, l
  <2>8. n # t
    <3>1. SUFFICES ASSUME n = t PROVE FALSE
      OBVIOUS
    <3> HIDE DEF k
    <3>2. k \in DOMAIN Priority /\ Priority[k] = t
      BY <2>2, <2>6, <2>7, <3>1 DEF l
    <3>3. Priority[p] = t /\ p \in DOMAIN Priority
      BY <2>2, <2>3, <3>2 DEF p, l, Place
    <3> QED BY <2>2, <2>6, <3>2, <3>3
  <2> QED BY <1>1, <2>8
<1> QED BY <1>2, <1>3

(* The tool that is announced is usable unless another execution runs beside. *)
LEMMA StepPicked ==
    ASSUME TypeOK, Slots, Channels, Together, Stages, Undisturbed, Picked, NextIsAvailable,
           NEW e \in Execs, Step(e)
    PROVE  Picked' /\ NextIsAvailable'
<1>1. /\ \A f \in Execs : f # e => exec'[f] = exec[f]
      /\ Onward(exec[e], exec'[e]) /\ exec' \in [Execs -> Execution]
      /\ crossed' = crossed /\ Chooses(e)
  BY DEF Step, Moves, ghosts
<1>2. Active(e)
  BY StepRunning
<1>3. ASSUME NEW u, Usable(u), UNCHANGED usage \/ u # exec[e].tool
      PROVE  u \in Configured /\ available'[u]
  <2>1. CASE UNCHANGED usage
    BY <1>3, <2>1 DEF Usable, usage
  <2>2. CASE MarkLimited(e) /\ u # exec[e].tool
    <3>1. available' = [available EXCEPT ![exec[e].tool] = FALSE]
      BY <2>2 DEF MarkLimited
    <3>2. u \in Tools /\ available \in [Tools -> BOOLEAN]
      BY <1>3, ChatAssumption DEF TypeOK, Usable
    <3> QED BY <1>3, <2>2, <3>1, <3>2 DEF Usable
  <2> QED BY <1>1, <1>3, <2>1, <2>2 DEF Chooses
<1>4. ASSUME NEW f \in Execs \ crossed, Active(f), ~exec[f].multi
      PROVE  f = e
  <2>1. f \in Running \ crossed
    BY <1>4, Begun
  <2> QED BY <1>2, <1>4, <2>1, Alone
<1>5. ASSUME NEW f \in Execs \ crossed, ~exec'[f].multi,
             exec'[f].stderr = "picked", exec'[f].pick # NoTool
      PROVE  exec'[f].pick # exec'[f].tool /\ exec'[f].pick \in Configured /\ available'[exec'[f].pick]
  <2>1. exec'[f].tool = exec[f].tool /\ exec'[f].multi = exec[f].multi
    BY <1>1 DEF Onward
  <2>2. CASE exec[f].stderr = "picked" /\ exec'[f].pick = exec[f].pick
    <3>1. exec[f].pick # exec[f].tool /\ Usable(exec[f].pick)
      BY <1>5, <2>1, <2>2 DEF Picked
    <3>2. exec[f].pc = "run"
      BY <2>2 DEF Stages, StageOK
    <3>3. f = e
      BY <1>4, <1>5, <2>1, <3>2 DEF Active
    <3> QED BY <1>3, <2>1, <2>2, <3>1, <3>3
  <2>3. CASE f # e
    BY <1>1, <1>5, <2>2, <2>3
  <2>4. CASE f = e /\ UNCHANGED usage /\ NextTool(exec[e].tool, exec'[e].pick)
    <3>1. exec[e].tool \in Tools
      <4>1. ~At(e, "free")
        BY <1>1 DEF Onward, At
      <4> QED BY <4>1 DEF Slots
    <3>2. exec'[e].pick \in Tools \cup {NoTool}
      <4>1. exec'[e] \in Execution
        BY <1>1
      <4> QED BY <4>1 DEF Execution
    <3>3. exec'[e].pick # exec[e].tool /\ Usable(exec'[e].pick)
      BY <1>5, <2>4, <3>1, <3>2, NextToolUsable
    <3> QED BY <1>3, <2>1, <2>4, <3>3
  <2> QED BY <1>1, <1>5, <2>2, <2>3, <2>4 DEF Chooses
<1>6. ASSUME NEW m \in Output, m.kind = "limit", m.next # NoTool, m.e \notin crossed,
             \/ \E i \in DOMAIN single : single[i] = m
             \/ Speaks(e, m) /\ ~exec[e].multi
      PROVE  m.next # exec'[m.e].tool /\ m.next \in Configured /\ available'[m.next]
  <2>1. m.e \in Execs
    BY DEF Output
  <2>2. exec'[m.e].tool = exec[m.e].tool
    BY <1>1, <2>1 DEF Onward
  <2>3. CASE \E i \in DOMAIN single : single[i] = m
    <3>1. m.next # exec[m.e].tool /\ Usable(m.next)
      BY <1>6, <2>3 DEF NextIsAvailable
    <3>2. Active(m.e) /\ ~exec[m.e].multi
      BY <2>3 DEF Active, Channels, Carried
    <3>3. m.e = e
      BY <1>4, <1>6, <2>1, <3>2
    <3> QED BY <1>3, <2>2, <3>1, <3>3
  <2>4. CASE Speaks(e, m) /\ ~exec[e].multi
    <3>1. m.e = e /\ exec[e].stderr = "picked" /\ m.next = exec[e].pick
      BY <1>6, <2>4 DEF Speaks
    <3>2. m.next # exec[e].tool /\ Usable(m.next)
      BY <1>6, <2>4, <3>1 DEF Picked
    <3> QED BY <1>3, <2>2, <3>1, <3>2
  <2> QED BY <1>6, <2>3, <2>4
<1>7. ASSUME NEW i \in DOMAIN single'
      PROVE  /\ single'[i] \in Output
             /\ \/ \E j \in DOMAIN single : single[j] = single'[i]
                \/ Speaks(e, single'[i]) /\ ~exec[e].multi
  <2>1. CASE single' = single
    BY <2>1, Messages
  <2>2. CASE \E m \in Output : Speaks(e, m) /\ ~exec[e].multi /\ single' = Append(single, m)
    <3>1. PICK m \in Output : Speaks(e, m) /\ ~exec[e].multi /\ single' = Append(single, m)
      BY <2>2
    <3>2. single \in Seq(Output)
      BY DEF TypeOK
    <3>3. /\ DOMAIN single' = 1..(Len(single) + 1) /\ DOMAIN single = 1..Len(single)
          /\ single'[Len(single) + 1] = m /\ Len(single) \in Nat
          /\ \A j \in 1..Len(single) : single'[j] = single[j]
      BY <3>1, <3>2, Appended
    <3>4. CASE i = Len(single) + 1
      BY <3>1, <3>3, <3>4
    <3>5. CASE i \in DOMAIN single
      BY <3>3, <3>5, Messages
    <3> QED BY <3>3, <3>4, <3>5
  <2> QED BY <2>1, <2>2, GrownBy
<1>8. \A i \in DOMAIN single' :
         (single'[i].kind = "limit" /\ single'[i].next # NoTool /\ single'[i].e \notin crossed) =>
             /\ single'[i].next # exec'[single'[i].e].tool
             /\ single'[i].next \in Configured /\ available'[single'[i].next]
  BY <1>6, <1>7
<1>9. Picked'
  BY <1>1, <1>5 DEF Picked, Usable
<1>10. NextIsAvailable'
  BY <1>1, <1>8 DEF NextIsAvailable, Usable
<1> QED BY <1>9, <1>10

(* A step of an execution keeps the invariant. *)
LEMMA StepInv ==
    ASSUME ChatInv, NEW e \in Execs, Step(e)
    PROVE  ChatInv'
<1> USE DEF ChatInv
<1>1. TypeOK' /\ Slots' /\ Together' /\ Stages' /\ Channels'
  BY StepType, StepSlots, StepChannels
<1>2. Settled' /\ Loud' /\ Undisturbed' /\ Collected' /\ CollectedEach'
  BY StepSettled, StepLoud, StepUndisturbed, StepCollected
<1>3. Saved' /\ Once' /\ AnswerAtHome' /\ Picked' /\ NextIsAvailable'
  BY StepSaved, StepPicked
<1>4. Resumable'
  BY DEF Step, Moves, history, Resumable
<1> QED BY <1>1, <1>2, <1>3, <1>4

-----------------------------------------------------------------------------
(* What is saved.                                                          *)

Extends ==
    \A s \in Sessions : \A i \in DOMAIN log[s] : i \in DOMAIN log'[s] /\ log'[s][i] = log[s][i]
Adds(m) ==
    \A s \in Sessions : \A i \in DOMAIN log'[s] :
        \/ i \in DOMAIN log[s] /\ log'[s][i] = log[s][i]
        \/ s = open /\ log'[s][i] = m /\ i = Len(log[open]) + 1

(* Remembering a message adds it to the open session and changes no other. *)
LEMMA Remembered ==
    ASSUME TypeOK, NEW m \in Message, Remember(m)
    PROVE  /\ log' \in [Sessions -> Seq(Message)] /\ Extends /\ Adds(m)
           /\ open \in Sessions
           /\ \E i \in DOMAIN log'[open] : log'[open][i] = m
<1>1. log \in [Sessions -> Seq(Message)] /\ open \in Sessions
  BY DEF TypeOK
<1>2. /\ DOMAIN log' = Sessions /\ log'[open] = Append(log[open], m)
      /\ \A s \in Sessions : s # open => log'[s] = log[s]
  BY <1>1 DEF Remember
<1>3. log[open] \in Seq(Message)
  BY <1>1
<1>4. /\ log'[open] \in Seq(Message)
      /\ DOMAIN log'[open] = 1..(Len(log[open]) + 1)
      /\ DOMAIN log[open] = 1..Len(log[open]) /\ Len(log[open]) \in Nat
      /\ log'[open][Len(log[open]) + 1] = m
      /\ \A i \in 1..Len(log[open]) : log'[open][i] = log[open][i]
  BY <1>2, <1>3, Appended
<1>5. log' \in [Sessions -> Seq(Message)]
  <2>1. \A s \in Sessions : log'[s] \in Seq(Message)
    BY <1>1, <1>2, <1>4
  <2>2. log' = [s \in Sessions |-> log'[s]]
    BY <1>1 DEF Remember
  <2> QED BY <2>1, <2>2
<1>6. Extends
  BY <1>2, <1>4 DEF Extends
<1>7. Adds(m)
  BY <1>2, <1>4 DEF Adds
<1>8. Len(log[open]) + 1 \in DOMAIN log'[open]
  BY <1>4
<1> QED BY <1>1, <1>4, <1>5, <1>6, <1>7, <1>8

(* Only the open chat gains messages. *)
LEMMA ResumableKept ==
    ASSUME TypeOK, Resumable, used \subseteq used', log' \in [Sessions -> Seq(Message)],
           NEW m, Adds(m)
    PROVE  Resumable'
<1>1. ASSUME NEW s \in Sessions, log'[s] # <<>> PROVE s \in used'
  <2>1. log'[s] \in Seq(Message)
    OBVIOUS
  <2>2. PICK i : i \in DOMAIN log'[s]
    BY <1>1, <2>1, Taken
  <2>3. CASE i \in DOMAIN log[s]
    <3>1. log[s] # <<>>
      BY <2>3
    <3> QED BY <3>1 DEF Resumable
  <2>4. CASE s = open
    BY <2>4 DEF TypeOK
  <2> QED BY <2>2, <2>3, <2>4 DEF Adds
<1> QED BY <1>1 DEF Resumable

(* A combined answer once saved stays whole, and the one that is added is. *)
LEMMA SavedKept ==
    ASSUME TypeOK, Saved, rounds' \in Nat, rounds <= rounds', crossed \subseteq crossed',
           told \subseteq told',
           \A f \in Execs : \/ exec'[f] = exec[f]
                            \/ exec'[f].round \notin 1..rounds /\ exec[f].round \notin 1..rounds,
           NEW m, Adds(m), NEW o, o = open,
           m.who = "combined" =>
               /\ m.round \in 1..rounds'
               /\ ~NamedTwice(m.round)' => \A f \in Execs \ crossed' : WholeFor(m, o, f)'
    PROVE  Saved'
<1>1. rounds \in Nat
  BY DEF TypeOK
<1>2. ASSUME NEW r \in 1..rounds, NamedTwice(r) PROVE NamedTwice(r)'
  <2>1. PICK e \in Execs, f \in Execs : /\ e # f /\ exec[e].round = r /\ exec[f].round = r
                                        /\ exec[e].tool = exec[f].tool
    BY <1>2 DEF NamedTwice
  <2>2. exec'[e] = exec[e] /\ exec'[f] = exec[f]
    BY <2>1
  <2> QED BY <2>1, <2>2 DEF NamedTwice
<1>3. ASSUME NEW s \in Sessions, NEW i \in DOMAIN log'[s], log'[s][i].who = "combined"
      PROVE  /\ log'[s][i].round \in 1..rounds'
             /\ ~NamedTwice(log[s][i].round)' =>
                    \A f \in Execs \ crossed' : WholeFor(log[s][i], s, f)'
  <2>1. CASE i \in DOMAIN log[s] /\ log'[s][i] = log[s][i]
    <3>1. PICK c : c = log[s][i]
      OBVIOUS
    <3>2. /\ c.who = "combined" /\ c.round \in 1..rounds
          /\ ~NamedTwice(c.round) => \A f \in Execs \ crossed : WholeFor(c, s, f)
      BY <1>3, <2>1, <3>1 DEF Saved
    <3>3. ASSUME NEW f \in Execs \ crossed', WholeFor(c, s, f)
          PROVE  WholeFor(c, s, f)'
      <4>1. exec'[f].round = c.round => exec'[f] = exec[f]
        BY <3>2
      <4> QED BY <3>3, <4>1 DEF WholeFor, AsWritten
    <3>4. c.round \in 1..rounds'
      BY <1>1, <3>2
    <3>5. ~NamedTwice(c.round)' => \A f \in Execs \ crossed' : WholeFor(c, s, f)'
      BY <1>2, <3>2, <3>3
    <3>6. log'[s][i] = c
      BY <2>1, <3>1
    <3> QED BY <3>4, <3>5, <3>6 DEF NamedTwice, WholeFor, AsWritten
  <2>2. CASE s = open /\ log'[s][i] = m
    <3>1. /\ m.round \in 1..rounds'
          /\ ~NamedTwice(m.round)' => \A f \in Execs \ crossed' : WholeFor(m, o, f)'
      BY <1>3, <2>2
    <3> QED BY <2>2, <3>1 DEF NamedTwice, WholeFor, AsWritten
  <2> QED BY <1>3, <2>1, <2>2 DEF Adds
<1> QED BY <1>3 DEF Saved

(* Nor is a round saved twice when the one that is added is of another, or of *)
(* one that was crossed.                                                   *)
LEMMA OnceKept ==
    ASSUME TypeOK, Saved, Once, crossed \subseteq crossed',
           \A f \in Execs : \/ exec'[f] = exec[f]
                            \/ exec'[f].round \notin 1..rounds /\ exec[f].round \notin 1..rounds,
           NEW m, Adds(m),
           \A i \in DOMAIN log[open] :
               (Same(log[open][i], m) /\ ~NamedTwice(m.round)') =>
                   \A f \in Execs \ crossed' : exec'[f].round # m.round
    PROVE  Once'
<1>1. ASSUME NEW r \in 1..rounds, NamedTwice(r) PROVE NamedTwice(r)'
  <2>1. PICK e \in Execs, f \in Execs : /\ e # f /\ exec[e].round = r /\ exec[f].round = r
                                        /\ exec[e].tool = exec[f].tool
    BY <1>1 DEF NamedTwice
  <2>2. exec'[e] = exec[e] /\ exec'[f] = exec[f]
    BY <2>1
  <2> QED BY <2>1, <2>2 DEF NamedTwice
<1>2. ASSUME NEW s \in Sessions, NEW i \in DOMAIN log'[s], NEW j \in DOMAIN log'[s], i # j,
             Same(log'[s][i], log'[s][j]), NEW r, r = log'[s][i].round, ~NamedTwice(r)',
             NEW f \in Execs \ crossed', exec'[f].round = r
      PROVE  FALSE
  <2>1. r = log'[s][j].round /\ log'[s][i].who = "combined" /\ log'[s][j].who = "combined"
    BY <1>2 DEF Same
  <2>2. CASE /\ i \in DOMAIN log[s] /\ log'[s][i] = log[s][i]
             /\ j \in DOMAIN log[s] /\ log'[s][j] = log[s][j]
    <3>1. r \in 1..rounds
      BY <1>2, <2>1, <2>2 DEF Saved
    <3>2. ~NamedTwice(r) /\ exec[f].round = r
      BY <1>1, <1>2, <3>1
    <3> QED BY <1>2, <2>2, <3>2 DEF Once
  <2>3. CASE s = open /\ log'[s][i] = m /\ j \in DOMAIN log[s] /\ log'[s][j] = log[s][j]
    <3>1. Same(log[open][j], m) /\ r = m.round
      BY <1>2, <2>1, <2>3 DEF Same
    <3> QED BY <1>2, <2>3, <3>1
  <2>4. CASE s = open /\ log'[s][j] = m /\ i \in DOMAIN log[s] /\ log'[s][i] = log[s][i]
    <3>1. Same(log[open][i], m) /\ r = m.round
      BY <1>2, <2>1, <2>4 DEF Same
    <3> QED BY <1>2, <2>4, <3>1
  <2> QED BY <1>2, <2>2, <2>3, <2>4 DEF Adds
<1>3. ASSUME NEW s \in Sessions, NEW i \in DOMAIN log'[s], NEW j \in DOMAIN log'[s], i # j,
             Same(log'[s][i], log'[s][j]), ~NamedTwice(log[s][i].round)',
             NEW f \in Execs \ crossed', exec'[f].round = log'[s][i].round
      PROVE  FALSE
  <2>1. PICK r : r = log'[s][i].round
    OBVIOUS
  <2>2. ~NamedTwice(r)'
    BY <1>3, <2>1 DEF NamedTwice
  <2> QED BY <1>2, <1>3, <2>1, <2>2
<1> QED BY <1>3 DEF Once, Same

(* An answer once saved stays. *)
LEMMA AnswersKept ==
    ASSUME TypeOK, AnswerAtHome, Slots, Extends, crossed \subseteq crossed',
           NEW e \in told \ crossed', exec'[e] = exec[e],
           ~exec[e].multi, exec[e].outcome = "done", exec[e].wrote > 0
    PROVE  \E i \in DOMAIN log'[exec[e].home] :
              /\ log'[exec[e].home][i].who = "answer"
              /\ log'[exec[e].home][i].round = exec[e].round
              /\ log'[exec[e].home][i].lines = [n \in 1..exec[e].wrote |-> e]
<1>1. e \in Execs /\ e \in told \ crossed
  BY DEF TypeOK
<1>2. exec[e].home \in Sessions
  BY <1>1 DEF Slots
<1>3. PICK i \in Answers(exec[e].home, exec[e].round) :
          log[exec[e].home][i].lines = [n \in 1..exec[e].wrote |-> e]
  BY <1>1 DEF AnswerAtHome
<1>4. /\ i \in DOMAIN log[exec[e].home] /\ log[exec[e].home][i].who = "answer"
      /\ log[exec[e].home][i].round = exec[e].round
  BY <1>3 DEF Answers
<1>5. i \in DOMAIN log'[exec[e].home] /\ log'[exec[e].home][i] = log[exec[e].home][i]
  BY <1>2, <1>4 DEF Extends
<1> QED BY <1>3, <1>4, <1>5

(* All of a text, when nothing of it is under way. *)
LEMMA TextWhole ==
    ASSUME NEW f, NEW S, NEW text \in Seq(S), NEW q, TextOf(f, text, q),
           Cardinality(LinesIn(q, f)) = 0
    PROVE  text = [n \in 1..exec[f].wrote |-> f] /\ Len(text) = exec[f].wrote
<1>1. Len(text) = exec[f].wrote /\ \A n \in DOMAIN text : text[n] = f
  BY DEF TextOf
<1>2. text = [n \in 1..Len(text) |-> text[n]] /\ DOMAIN text = 1..Len(text)
  OBVIOUS
<1> QED BY <1>1, <1>2

-----------------------------------------------------------------------------
(* The loop takes an output.                                               *)

Hears(m) ==
    /\ m \in Output
    /\ told' = IF m.kind = "line" THEN told ELSE told \cup {m.e}
    /\ \/ single # <<>> /\ m = Head(single) /\ single' = Tail(single) /\ multi' = multi
       \/ multi # <<>> /\ m = Head(multi) /\ multi' = Tail(multi) /\ single' = single
    /\ UNCHANGED <<ui, enabled, selected, open, used, exec, usage, rounds, crossed>>

(* Nothing is in a channel after that was not in it before. *)
LEMMA Drained ==
    ASSUME TypeOK, NEW m, Hears(m)
    PROVE  /\ single' \in Seq(Output) /\ Len(single') <= Cap
           /\ multi' \in Seq(Output) /\ Len(multi') <= Cap
           /\ \A i \in DOMAIN single' : \E j \in DOMAIN single :
                 single[j] = single'[i] /\ \A k \in DOMAIN single' : i < k =>
                     \E l \in DOMAIN single : j < l /\ single[l] = single'[k]
           /\ \A i \in DOMAIN multi' : \E j \in DOMAIN multi :
                 multi[j] = multi'[i] /\ \A k \in DOMAIN multi' : i < k =>
                     \E l \in DOMAIN multi : j < l /\ multi[l] = multi'[k]
           /\ \A f : LinesIn(single, f) = {} => LinesIn(single', f) = {}
           /\ \A f : LinesIn(multi, f) = {} => LinesIn(multi', f) = {}
<1>1. /\ single \in Seq(Output) /\ Len(single) <= Cap /\ Cap \in Nat
      /\ multi \in Seq(Output) /\ Len(multi) <= Cap
  BY ChatAssumption DEF TypeOK
<1>2. ASSUME NEW q \in Seq(Output), Len(q) <= Cap, NEW q1, q1 = q \/ (q # <<>> /\ q1 = Tail(q))
      PROVE  /\ q1 \in Seq(Output) /\ Len(q1) <= Cap
             /\ \A i \in DOMAIN q1 : \E j \in DOMAIN q :
                   q[j] = q1[i] /\ \A k \in DOMAIN q1 : i < k =>
                       \E l \in DOMAIN q : j < l /\ q[l] = q1[k]
  <2>1. CASE q1 = q
    BY <1>2, <2>1
  <2>2. CASE q # <<>> /\ q1 = Tail(q)
    <3>1. /\ Tail(q) \in Seq(Output) /\ Len(q) \in Nat
          /\ DOMAIN q = 1..Len(q) /\ DOMAIN Tail(q) = 1..(Len(q) - 1)
          /\ Len(Tail(q)) = Len(q) - 1
          /\ \A i \in 1..(Len(q) - 1) : Tail(q)[i] = q[i + 1] /\ i + 1 \in DOMAIN q
      BY <2>2, Taken
    <3>2. q1 \in Seq(Output) /\ Len(q1) = Len(q) - 1 /\ Len(q) <= Cap /\ Cap \in Nat
      BY <1>1, <1>2, <2>2, <3>1
    <3>4. Len(q1) <= Cap
      BY <3>1, <3>2
    <3>3. ASSUME NEW i \in DOMAIN q1
          PROVE  /\ i + 1 \in DOMAIN q /\ q[i + 1] = q1[i]
                 /\ \A k \in DOMAIN q1 : i < k =>
                        k + 1 \in DOMAIN q /\ i + 1 < k + 1 /\ q[k + 1] = q1[k]
      BY <2>2, <3>1
    <3> QED BY <3>2, <3>3, <3>4
  <2> QED BY <1>2, <2>1, <2>2
<1>3. /\ single' = single \/ (single # <<>> /\ single' = Tail(single))
      /\ multi' = multi \/ (multi # <<>> /\ multi' = Tail(multi))
  BY DEF Hears
<1>4. /\ single' \in Seq(Output) /\ Len(single') <= Cap
      /\ \A i \in DOMAIN single' : \E j \in DOMAIN single :
            single[j] = single'[i] /\ \A k \in DOMAIN single' : i < k =>
                \E l \in DOMAIN single : j < l /\ single[l] = single'[k]
  BY <1>1, <1>2, <1>3
<1>5. /\ multi' \in Seq(Output) /\ Len(multi') <= Cap
      /\ \A i \in DOMAIN multi' : \E j \in DOMAIN multi :
            multi[j] = multi'[i] /\ \A k \in DOMAIN multi' : i < k =>
                \E l \in DOMAIN multi : j < l /\ multi[l] = multi'[k]
  BY <1>1, <1>2, <1>3
<1>6. /\ \A f : LinesIn(single, f) = {} => LinesIn(single', f) = {}
      /\ \A f : LinesIn(multi, f) = {} => LinesIn(multi', f) = {}
  BY <1>4, <1>5 DEF LinesIn
<1> QED BY <1>4, <1>5, <1>6

(* What the message that is taken says, and what does not come after it. *)
LEMMA Heard ==
    ASSUME TypeOK, Slots, Channels, NEW m, Hears(m)
    PROVE  /\ m.e \in Execs /\ Active(m.e) /\ ~At(m.e, "free") /\ m.e \in Running
           /\ Carried(m, exec[m.e], exec[m.e].multi)
           /\ m.kind \in {"line", "done", "error", "limit"}
           /\ \/ ~exec[m.e].multi /\ single # <<>> /\ m = Head(single)
                 /\ single' = Tail(single) /\ multi' = multi
              \/ exec[m.e].multi /\ multi # <<>> /\ m = Head(multi)
                 /\ multi' = Tail(multi) /\ single' = single
           /\ m.kind \in {"done", "error"} =>
                 LinesIn(single', m.e) = {} /\ LinesIn(multi', m.e) = {}
           /\ m.kind \in {"done", "error"} /\ exec[m.e].multi =>
                 \A i \in DOMAIN multi' : multi'[i].e # m.e
<1>1. m.e \in Execs /\ m.kind \in {"line", "done", "error", "limit"}
  BY DEF Hears, Output
<1>2. single \in Seq(Output) /\ multi \in Seq(Output)
  BY DEF TypeOK
<1>3. ASSUME NEW q \in Seq(Output), q # <<>>, m = Head(q), LastWord(q), m.kind \in {"done", "error"}
      PROVE  LinesIn(Tail(q), m.e) = {}
  <2>1. /\ Head(q) = q[1] /\ 1 \in DOMAIN q /\ Len(q) \in Nat
        /\ DOMAIN Tail(q) = 1..(Len(q) - 1)
        /\ \A i \in 1..(Len(q) - 1) : Tail(q)[i] = q[i + 1] /\ i + 1 \in DOMAIN q
    BY <1>3, Taken
  <2>2. ASSUME NEW i \in DOMAIN Tail(q), Tail(q)[i].e = m.e, Tail(q)[i].kind = "line"
        PROVE  FALSE
    <3>1. i + 1 \in DOMAIN q /\ 1 < i + 1 /\ q[i + 1].e = q[1].e /\ q[i + 1].kind = "line"
      BY <1>3, <2>1, <2>2
    <3> QED BY <1>3, <2>1, <3>1 DEF LastWord
  <2> QED BY <2>2 DEF LinesIn
<1>4. CASE single # <<>> /\ m = Head(single) /\ single' = Tail(single) /\ multi' = multi
  <2>1. 1 \in DOMAIN single /\ single[1] = m
    BY <1>2, <1>4, Taken
  <2>2. Carried(m, exec[m.e], FALSE) /\ LastWord(single)
    BY <2>1 DEF Channels
  <2>3. Active(m.e)
    BY <2>1 DEF Active
  <2>4. exec[m.e].multi = FALSE
    BY <2>2 DEF Carried
  <2>5. LinesIn(multi, m.e) = {}
    BY <2>4 DEF LinesIn, Channels, Carried
  <2>6. m.kind \in {"done", "error"} => LinesIn(single', m.e) = {} /\ LinesIn(multi', m.e) = {}
    BY <1>2, <1>3, <1>4, <2>2, <2>5
  <2> QED BY <1>1, <1>4, <2>2, <2>3, <2>4, <2>6, Begun
<1>5. CASE multi # <<>> /\ m = Head(multi) /\ multi' = Tail(multi) /\ single' = single
  <2>1. 1 \in DOMAIN multi /\ multi[1] = m
    BY <1>2, <1>5, Taken
  <2>2. Carried(m, exec[m.e], TRUE) /\ LastWord(multi)
    BY <2>1 DEF Channels
  <2>3. Active(m.e)
    BY <2>1 DEF Active
  <2>4. exec[m.e].multi = TRUE
    BY <2>2 DEF Carried
  <2>5. LinesIn(single, m.e) = {}
    BY <2>4 DEF LinesIn, Channels, Carried
  <2>6. m.kind \in {"done", "error"} => LinesIn(single', m.e) = {} /\ LinesIn(multi', m.e) = {}
    BY <1>2, <1>3, <1>5, <2>2, <2>5
  <2>7. m.kind \in {"done", "error"} => \A i \in DOMAIN multi' : multi'[i].e # m.e
    <3>1. /\ Len(multi) \in Nat /\ DOMAIN multi = 1..Len(multi)
          /\ DOMAIN multi' = 1..(Len(multi) - 1)
          /\ \A i \in 1..(Len(multi) - 1) : multi'[i] = multi[i + 1] /\ i + 1 \in DOMAIN multi
      BY <1>2, <1>5, Taken
    <3>2. \A i \in DOMAIN multi' : i + 1 \in DOMAIN multi /\ 1 < i + 1 /\ multi'[i] = multi[i + 1]
      BY <3>1
    <3>3. Final(multi)
      BY DEF Channels
    <3> QED BY <2>1, <3>2, <3>3 DEF Final
  <2> QED BY <1>1, <1>5, <2>2, <2>3, <2>4, <2>6, <2>7, Begun
<1> QED BY <1>4, <1>5 DEF Hears

(* No execution becomes active when an output is taken. *)
LEMMA HearRunning ==
    ASSUME TypeOK, NEW m, Hears(m)
    PROVE  /\ \A f \in Execs : Active(f)' => Active(f)
           /\ Running' \subseteq Running
           /\ \A r : NamedTwice(r)' = NamedTwice(r)
<1>1. exec' = exec
  BY DEF Hears
<1>2. /\ \A i \in DOMAIN single' : \E j \in DOMAIN single : single[j] = single'[i]
      /\ \A i \in DOMAIN multi' : \E j \in DOMAIN multi : multi[j] = multi'[i]
  BY Drained
<1>3. ASSUME NEW f \in Execs, Active(f)' PROVE Active(f)
  BY <1>1, <1>2, <1>3 DEF Active
<1>4. Running' \subseteq Running
  BY <1>1, <1>3 DEF Running
<1> QED BY <1>1, <1>3, <1>4 DEF NamedTwice

(* The parts of the invariant that do not concern what is taken. *)
LEMMA HearFrame ==
    ASSUME ChatInv, NEW m, Hears(m)
    PROVE  /\ Together' /\ Stages' /\ Channels' /\ Undisturbed'
           /\ Picked' /\ NextIsAvailable'
<1> USE DEF ChatInv
<1>1. UNCHANGED <<open, exec, available, rounds, crossed>>
  BY DEF Hears, usage
<1>2. /\ \A i \in DOMAIN single' : \E j \in DOMAIN single :
            single[j] = single'[i] /\ \A k \in DOMAIN single' : i < k =>
                \E l \in DOMAIN single : j < l /\ single[l] = single'[k]
      /\ \A i \in DOMAIN multi' : \E j \in DOMAIN multi :
            multi[j] = multi'[i] /\ \A k \in DOMAIN multi' : i < k =>
                \E l \in DOMAIN multi : j < l /\ multi[l] = multi'[k]
  BY Drained
<1>3. (\A f \in Execs : Active(f)' => Active(f)) /\ Running' \subseteq Running
  BY HearRunning
<1>4. Together' /\ Stages'
  BY <1>1 DEF Together, Mates, At, Stages
<1>5. Undisturbed'
  BY <1>1, <1>3 DEF Undisturbed
<1>6. Picked'
  BY <1>1 DEF Picked, Usable
<1>7. NextIsAvailable'
  BY <1>1, <1>2 DEF NextIsAvailable, Usable
<1>8. LastWord(single)' /\ LastWord(multi)' /\ Final(multi)'
  <2>1. LastWord(single) /\ LastWord(multi) /\ Final(multi)
    BY DEF Channels
  <2>2. LastWord(single)' /\ LastWord(multi)'
    BY <1>2, <2>1 DEF LastWord
  <2>3. Final(multi)'
    BY <1>2, <2>1 DEF Final
  <2> QED BY <2>2, <2>3
<1>9. /\ \A i \in DOMAIN single' : Carried(single[i], exec[single[i].e], FALSE)'
      /\ \A i \in DOMAIN multi' : Carried(multi[i], exec[multi[i].e], TRUE)'
  BY <1>1, <1>2 DEF Carried, Channels
<1>10. Channels'
  BY <1>8, <1>9 DEF Channels
<1> QED BY <1>4, <1>5, <1>6, <1>7, <1>10

(* The parts that concern who was heard. *)
LEMMA HearTold ==
    ASSUME ChatInv, NEW m, Hears(m)
    PROVE  Slots' /\ Settled' /\ Loud'
<1> USE DEF ChatInv
<1>1. /\ UNCHANGED <<exec, rounds, crossed>>
      /\ told' = IF m.kind = "line" THEN told ELSE told \cup {m.e}
  BY DEF Hears
<1>2. /\ m.e \in Execs /\ ~At(m.e, "free")
      /\ Carried(m, exec[m.e], exec[m.e].multi)
      /\ m.kind \in {"line", "done", "error", "limit"}
      /\ m.kind \in {"done", "error"} =>
            LinesIn(single', m.e) = {} /\ LinesIn(multi', m.e) = {}
      /\ m.kind \in {"done", "error"} /\ exec[m.e].multi =>
            \A i \in DOMAIN multi' : multi'[i].e # m.e
  BY Heard
<1>3. Slots'
  BY <1>1, <1>2 DEF Slots, At
<1>4. Settled'
  <2>1. ASSUME NEW f \in told', ~exec[f].limited
        PROVE  /\ exec[f].outcome \in {"done", "error"}
               /\ LinesIn(single', f) = {} /\ LinesIn(multi', f) = {}
               /\ exec[f].multi => \A i \in DOMAIN multi' : multi'[i].e # f
    <3>1. CASE f \in told
      <4>1. /\ exec[f].outcome \in {"done", "error"}
            /\ LinesIn(single, f) = {} /\ LinesIn(multi, f) = {}
            /\ exec[f].multi => \A i \in DOMAIN multi : multi[i].e # f
        BY <2>1, <3>1 DEF Settled
      <4>2. \A i \in DOMAIN multi' : \E k \in DOMAIN multi : multi[k] = multi'[i]
        BY Drained
      <4> QED BY <4>1, <4>2, Drained
    <3>2. CASE f = m.e /\ m.kind # "line"
      BY <1>2, <2>1, <3>2 DEF Carried
    <3> QED BY <1>1, <2>1, <3>1, <3>2
  <2> QED BY <1>1, <2>1 DEF Settled, LinesIn
<1>5. Loud'
  <2>1. ASSUME NEW q \in Seq(Output), NEW q1, NEW f, Spoken(q, f),
               q1 = q \/ (q # <<>> /\ m = Head(q) /\ q1 = Tail(q))
        PROVE  f \in told' \/ Spoken(q1, f)
    <3>1. CASE q1 = q
      BY <2>1, <3>1
    <3>2. CASE q # <<>> /\ m = Head(q) /\ q1 = Tail(q)
      <4>1. PICK i \in DOMAIN q : q[i].e = f /\ q[i].kind # "line"
        BY <2>1 DEF Spoken
      <4>2. /\ Head(q) = q[1] /\ Len(q) \in Nat /\ DOMAIN q = 1..Len(q)
            /\ DOMAIN Tail(q) = 1..(Len(q) - 1)
            /\ \A j \in 1..(Len(q) - 1) : Tail(q)[j] = q[j + 1]
        BY <3>2, Taken
      <4>3. CASE i = 1
        BY <1>1, <3>2, <4>1, <4>2, <4>3
      <4>4. CASE i # 1
        <5>1. i - 1 \in DOMAIN Tail(q) /\ Tail(q)[i - 1] = q[i]
          BY <4>1, <4>2, <4>4
        <5> QED BY <3>2, <4>1, <5>1 DEF Spoken
      <4> QED BY <4>3, <4>4
    <3> QED BY <2>1, <3>1, <3>2
  <2>2. /\ single' = single \/ (single # <<>> /\ m = Head(single) /\ single' = Tail(single))
        /\ multi' = multi \/ (multi # <<>> /\ m = Head(multi) /\ multi' = Tail(multi))
        /\ single \in Seq(Output) /\ multi \in Seq(Output)
    BY DEF Hears, TypeOK
  <2>3. ASSUME NEW f
        PROVE  /\ Spoken(single, f) => f \in told' \/ Spoken(single', f)
               /\ Spoken(multi, f) => f \in told' \/ Spoken(multi', f)
    BY <2>1, <2>2
  <2>4. told \subseteq told'
    BY <1>1
  <2>5. \A f \in Execs :
           (exec'[f].pc = "ended" \/ (exec'[f].limited /\ exec'[f].stderr # "picked"))
               => f \in told' \/ Spoken(single', f) \/ Spoken(multi', f)
    BY <1>1, <2>3, <2>4 DEF Loud, At
  <2> QED BY <2>5 DEF Loud, At, Spoken
<1> QED BY <1>3, <1>4, <1>5

(* A text is not the mark of a missing one. *)
LEMMA TextIsEntry ==
    \A text \in Seq(Lines) : text # NoEntry
<1> TAKE text \in Seq(Lines)
<1>1. Len(text) \in Nat /\ DOMAIN text = 1..Len(text) /\ \A n \in DOMAIN text : text[n] \in Lines
  OBVIOUS
<1>2. \A n \in DOMAIN text : text[n] \in Nat
  BY <1>1, ChatAssumption DEF Execs, Lines, Notice
<1>3. text \in [1..Len(text) -> Nat]
  BY <1>1, <1>2
<1>4. text \in Seq(Nat)
  BY <1>1, <1>3
<1> QED BY <1>4, ChatAssumption

(* A line that is taken goes from the channel to the text. *)
LEMMA TextTaken ==
    ASSUME NEW f \in Execs, NEW text \in Seq(Lines), NEW q \in Seq(Output), q # <<>>,
           TextOf(f, text, q)
    PROVE  IF Head(q).e = f /\ Head(q).kind = "line"
           THEN TextOf(f, Append(text, f), Tail(q))
           ELSE TextOf(f, text, Tail(q))
<1> DEFINE a == Cardinality(LinesIn(q, f))
           b == Cardinality(LinesIn(Tail(q), f))
           w == exec[f].wrote
           l == Len(text)
<1>1. a \in Nat /\ b \in Nat /\ l \in Nat
  <2>1. Tail(q) \in Seq(Output)
    BY Taken
  <2>2. a \in Nat
    BY LinesFinite
  <2>3. b \in Nat
    BY <2>1, LinesFinite
  <2>4. l \in Nat
    OBVIOUS
  <2> QED BY <2>2, <2>3, <2>4
<1>2. a = b + (IF Head(q).e = f /\ Head(q).kind = "line" THEN 1 ELSE 0)
  BY LinesTail
<1>3. l + a = w /\ \A n \in DOMAIN text : text[n] = f
  BY DEF TextOf
<1>4. /\ Len(Append(text, f)) = l + 1
      /\ \A n \in DOMAIN Append(text, f) : Append(text, f)[n] = f
  BY <1>3 DEF Lines
<1> HIDE DEF a, b, w, l
<1>5. CASE Head(q).e = f /\ Head(q).kind = "line"
  <2>1. (l + 1) + b = w
    BY <1>1, <1>2, <1>3, <1>5
  <2>2. TextOf(f, Append(text, f), Tail(q))
    BY <1>4, <2>1 DEF TextOf, b, w
  <2> QED BY <1>5, <2>2
<1>6. CASE ~(Head(q).e = f /\ Head(q).kind = "line")
  <2>1. l + b = w
    BY <1>1, <1>2, <1>3, <1>6
  <2>2. TextOf(f, text, Tail(q))
    BY <1>3, <2>1 DEF TextOf, b, w, l
  <2> QED BY <1>6, <2>2
<1> QED BY <1>5, <1>6

(* What is collected when an output of a single prompt is taken. *)
LEMMA HearCollectedSingle ==
    ASSUME ChatInv, NEW m, Hears(m), ~exec[m.e].multi,
           UNCHANGED <<responses, completed>>,
           m.kind = "line" => response' = Append(response, m.e)
    PROVE  Collected' /\ CollectedEach'
<1> USE DEF ChatInv
<1>1. UNCHANGED <<selected, exec, crossed>>
  BY DEF Hears
<1>2. told' = IF m.kind = "line" THEN told ELSE told \cup {m.e}
  BY DEF Hears
<1>3. /\ m.e \in Execs /\ Active(m.e)
      /\ single # <<>> /\ m = Head(single) /\ single' = Tail(single) /\ multi' = multi
  BY Heard
<1>4. Running' \subseteq Running /\ \A r : NamedTwice(r)' = NamedTwice(r)
  BY HearRunning
<1>5. Collected'
  <2>1. ASSUME NEW f \in Running' \ crossed',
               ~exec[f].multi, ~exec[f].limited, exec[f].outcome # "error", f \notin told'
        PROVE  TextOf(f, response', single')
    <3>1. f \in Running \ crossed /\ f = m.e
      BY <1>1, <1>3, <1>4, <2>1, Alone
    <3>2. m.kind = "line" /\ f \notin told
      BY <1>2, <2>1, <3>1
    <3>3. TextOf(f, response, single)
      BY <2>1, <3>1, <3>2 DEF Collected
    <3>4. response \in Seq(Lines) /\ single \in Seq(Output)
      BY DEF TypeOK, Lines
    <3> QED BY <1>3, <3>1, <3>2, <3>3, <3>4, TextTaken
  <2> QED BY <1>1, <2>1 DEF Collected, TextOf, LinesIn
<1>6. CollectedEach'
  <2>1. ASSUME NEW f \in Running' \ crossed', exec[f].multi, ~NamedTwice(exec[f].round)
        PROVE  CollectedFor(f)
    BY <1>1, <1>4, <2>1 DEF CollectedEach
  <2>2. told \subseteq told' /\ \A f \in Execs : exec[f].multi => (f \in told <=> f \in told')
    BY <1>2
  <2>3. ASSUME NEW f \in Running' \ crossed', exec[f].multi, CollectedFor(f)
        PROVE  CollectedFor(f)'
    <3>1. f \in Execs
      BY DEF Running
    <3> QED BY <1>1, <1>3, <2>2, <2>3, <3>1 DEF CollectedFor, TextOf, AsWritten, LinesIn, Range
  <2>4. ASSUME NEW f \in Running' \ crossed', exec'[f].multi, ~NamedTwice(exec[f].round)'
        PROVE  CollectedFor(f)'
    <3>1. exec[f].multi /\ ~NamedTwice(exec[f].round)
      BY <1>1, <2>4 DEF NamedTwice
    <3> QED BY <2>1, <2>3, <3>1
  <2> QED BY <2>4 DEF CollectedEach
<1> QED BY <1>5, <1>6

(* What a model wrote, and its error, is what stands under it in the end. *)
LEMMA Written ==
    ASSUME NEW f, NEW w \in Nat, w = exec[f].wrote, NEW text \in Seq(Lines),
           exec[f].outcome \in {"done", "error"},
           Len(text) = w, \A n \in DOMAIN text : text[n] = f
    PROVE  AsWritten(f) = IF exec[f].outcome = "done" THEN text ELSE Append(text, Notice)
<1>0. text = [n \in 1..w |-> text[n]]
  OBVIOUS
<1>1. DOMAIN text = 1..w /\ \A n \in 1..w : text[n] = f /\ n <= w
  OBVIOUS
<1>2. CASE exec[f].outcome = "done"
  <2>1. AsWritten(f) = [n \in 1..(w + 0) |-> IF n <= w THEN f ELSE Notice]
    BY <1>2 DEF AsWritten
  <2>2. w + 0 = w /\ \A n \in 1..w : (IF n <= w THEN f ELSE Notice) = text[n]
    BY <1>1
  <2>3. AsWritten(f) = [n \in 1..w |-> text[n]]
    BY <2>1, <2>2, Zenon
  <2> QED BY <1>0, <1>2, <2>3
<1>3. CASE exec[f].outcome = "error"
  <2>1. AsWritten(f) = [n \in 1..(w + 1) |-> IF n <= w THEN f ELSE Notice]
    BY <1>3 DEF AsWritten
  <2>2. Notice \in Lines
    BY DEF Lines
  <2> DEFINE more == Append(text, Notice)
  <2>3. /\ more \in Seq(Lines) /\ DOMAIN more = 1..(w + 1) /\ more[w + 1] = Notice
        /\ \A i \in 1..w : more[i] = text[i]
    BY <2>2, Appended
  <2>4. more = [n \in 1..(w + 1) |-> more[n]]
    <3> HIDE DEF more
    <3> QED BY <2>3
  <2> HIDE DEF more
  <2>5. \A n \in 1..(w + 1) : (IF n <= w THEN f ELSE Notice) = more[n]
    <3> TAKE n \in 1..(w + 1)
    <3>1. CASE n \in 1..w
      BY <1>1, <2>3, <3>1
    <3>2. CASE n = w + 1
      BY <2>3, <3>2
    <3> QED BY <3>1, <3>2
  <2>6. AsWritten(f) = more
    BY <2>1, <2>4, <2>5, Zenon
  <2> QED BY <1>3, <2>6 DEF more
<1> QED BY <1>2, <1>3

(* What is collected when an output of several models is taken. *)
LEMMA HearCollectedMulti ==
    ASSUME ChatInv, NEW m, Hears(m), exec[m.e].multi, response' = response,
           IF m.kind = "line"
           THEN /\ completed' = completed
                /\ responses[exec[m.e].tool] # NoEntry =>
                      responses' = [responses EXCEPT ![exec[m.e].tool] = Append(@, m.e)]
           ELSE /\ completed' = [completed EXCEPT ![exec[m.e].tool] = "done"]
                /\ IF m.kind = "done" THEN responses' = responses
                   ELSE responses[exec[m.e].tool] # NoEntry =>
                      responses' = [responses EXCEPT ![exec[m.e].tool] = Append(@, Notice)]
    PROVE  Collected' /\ CollectedEach'
<1> USE DEF ChatInv
<1>1. UNCHANGED <<selected, exec, crossed>>
  BY DEF Hears
<1>2. told' = IF m.kind = "line" THEN told ELSE told \cup {m.e}
  BY DEF Hears
<1>3. /\ m.e \in Execs /\ Active(m.e)
      /\ multi # <<>> /\ m = Head(multi) /\ multi' = Tail(multi) /\ single' = single
  BY Heard
<1>4. Running' \subseteq Running /\ \A r : NamedTwice(r)' = NamedTwice(r)
  BY HearRunning
<1>5. Collected'
  <2>1. ASSUME NEW f \in Running' \ crossed',
               ~exec[f].multi, ~exec[f].limited, exec[f].outcome # "error", f \notin told'
        PROVE  TextOf(f, response, single)
    BY <1>1, <1>2, <1>4, <2>1 DEF Collected
  <2> QED BY <1>1, <1>3, <2>1 DEF Collected, TextOf, LinesIn
<1>6. CollectedEach'
  <2>1. ASSUME NEW f \in Running' \ crossed', exec[f].multi, ~NamedTwice(exec[f].round)
        PROVE  /\ exec[f].tool \in Range(selected) /\ responses'[exec[f].tool] # NoEntry
               /\ f \notin told' => completed'[exec[f].tool] = "pending"
               /\ ~exec[f].limited => IF f \in told' THEN responses'[exec[f].tool] = AsWritten(f)
                                     ELSE TextOf(f, responses'[exec[f].tool], multi')
    <3>1. f \in Running \ crossed /\ f \in Execs
      BY <1>1, <1>4, <2>1 DEF Running
    <3>2. /\ m.e \in Running \ crossed /\ exec[m.e].round = exec[f].round
      BY <1>3, <3>1, Alone
    <3>3. CollectedFor(f) /\ CollectedFor(m.e)
      BY <2>1, <3>1, <3>2 DEF CollectedEach
    <3>4. f # m.e => exec[f].tool # exec[m.e].tool
      <4>1. ASSUME f # m.e, exec[f].tool = exec[m.e].tool PROVE NamedTwice(exec[f].round)
        <5>1. PICK g \in Execs : /\ f # g /\ exec[g].round = exec[f].round
                                 /\ exec[f].tool = exec[g].tool
          BY <1>3, <3>2, <4>1
        <5> QED BY <3>1, <5>1, Zenon DEF NamedTwice
      <4> QED BY <2>1, <4>1
    <3>5. /\ responses \in [Tools -> Seq(Lines) \cup {NoEntry}]
          /\ completed \in [Tools -> {"absent", "pending", "done"}]
          /\ selected \in Seq(Tools) /\ multi \in Seq(Output)
      BY DEF TypeOK
    <3>6. /\ exec[f].tool \in Tools /\ responses[exec[f].tool] \in Seq(Lines)
          /\ exec[m.e].tool \in Tools /\ responses[exec[m.e].tool] \in Seq(Lines)
          /\ responses[exec[m.e].tool] # NoEntry
      BY <3>3, <3>5 DEF CollectedFor, Range
    <3>7. \A text \in Seq(Lines) : text # NoEntry
      BY TextIsEntry
    <3> DEFINE text == responses[exec[f].tool]
    <3>8. /\ m.e = f /\ m.kind = "line" => responses'[exec[f].tool] = Append(text, f)
          /\ m.e = f /\ m.kind = "done" => responses'[exec[f].tool] = text
          /\ m.e = f /\ m.kind \in {"error", "limit"} =>
                responses'[exec[f].tool] = Append(text, Notice)
          /\ m.e # f => responses'[exec[f].tool] = text
      <4>1. ASSUME m.e = f, m.kind = "line" PROVE responses'[exec[f].tool] = Append(text, f)
        BY <3>5, <3>6, <4>1
      <4>2. ASSUME m.e = f, m.kind \in {"error", "limit"}
            PROVE  responses'[exec[f].tool] = Append(text, Notice)
        BY <3>5, <3>6, <4>2
      <4>3. ASSUME m.e # f PROVE responses'[exec[f].tool] = text
        BY <3>4, <3>5, <3>6, <4>3
      <4>4. ASSUME m.e = f, m.kind = "done" PROVE responses'[exec[f].tool] = text
        BY <4>4
      <4> QED BY <4>1, <4>2, <4>3, <4>4
    <3>9. responses'[exec[f].tool] # NoEntry
      <4>1. /\ Append(text, f) \in Seq(Lines) /\ Append(text, Notice) \in Seq(Lines)
            /\ text \in Seq(Lines)
        BY <3>1, <3>6 DEF Lines
      <4>2. m.kind \in {"line", "done", "error", "limit"}
        BY Heard
      <4> HIDE DEF text
      <4>3. responses'[exec[f].tool] \in {Append(text, f), Append(text, Notice), text}
        BY <3>8, <4>2
      <4> QED BY <3>7, <4>1, <4>3
    <3>10. f \notin told' => completed'[exec[f].tool] = "pending"
      <4>1. f # m.e => completed'[exec[f].tool] = completed[exec[f].tool]
        BY <3>4, <3>5, <3>6
      <4>2. f = m.e /\ m.kind = "line" => completed' = completed
        OBVIOUS
      <4> QED BY <1>2, <3>3, <4>1, <4>2 DEF CollectedFor
    <3>11. ASSUME ~exec[f].limited
           PROVE  IF f \in told' THEN responses'[exec[f].tool] = AsWritten(f)
                  ELSE TextOf(f, responses'[exec[f].tool], multi')
      <4>1. IF f \in told THEN text = AsWritten(f) ELSE TextOf(f, text, multi)
        BY <3>3, <3>11 DEF CollectedFor
      <4>2. f \in told => f # m.e
        <5>1. f \in told => \A i \in DOMAIN multi : multi[i].e # f
          BY <2>1, <3>11 DEF Settled
        <5>2. 1 \in DOMAIN multi /\ multi[1] = m
          BY <1>3, <3>5, Taken
        <5> QED BY <5>1, <5>2
      <4> HIDE DEF text
      <4>3. CASE f \in told
        BY <1>2, <3>8, <4>1, <4>2, <4>3
      <4>4. f \notin told => IF m.e = f /\ m.kind = "line" THEN TextOf(f, Append(text, f), multi')
                                                        ELSE TextOf(f, text, multi')
        <5>1. text \in Seq(Lines)
          BY <3>6 DEF text
        <5> QED BY <1>3, <3>1, <3>5, <4>1, <5>1, TextTaken
      <4>5. CASE f \notin told /\ (f # m.e \/ m.kind = "line")
        BY <1>2, <3>8, <4>4, <4>5
      <4>6. CASE f \notin told /\ f = m.e /\ m.kind \in {"done", "error"}
        <5>1. LinesIn(multi', f) = {} /\ multi' \in Seq(Output)
          BY <1>3, <3>5, <4>6, Heard, Taken
        <5>2. Cardinality(LinesIn(multi', f)) = 0
          BY <5>1, LinesFinite
        <5>3. text \in Seq(Lines) /\ TextOf(f, text, multi')
          BY <3>6, <4>4, <4>6 DEF text
        <5>4. (\A n \in DOMAIN text : text[n] = f) /\ Len(text) = exec[f].wrote /\ Len(text) \in Nat
          BY <5>2, <5>3 DEF TextOf
        <5>5. exec[f].outcome = m.kind /\ f \in told'
          <6>1. Carried(m, exec[m.e], exec[m.e].multi)
            BY Heard
          <6>2. exec[m.e].outcome = m.kind
            BY <4>6, <6>1 DEF Carried
          <6>3. exec[f].outcome = m.kind
            BY <4>6, <6>2
          <6>4. m.kind # "line"
            BY <4>6
          <6>5. f \in told'
            BY <1>2, <4>6, <6>4
          <6> QED BY <6>3, <6>5
        <5>6. responses'[exec[f].tool] = IF m.kind = "done" THEN text ELSE Append(text, Notice)
          BY <3>8, <4>6
        <5>7. responses'[exec[f].tool] = AsWritten(f)
          <6>1. PICK w \in Nat : w = exec[f].wrote
            BY <5>4
          <6>2. exec[f].outcome \in {"done", "error"}
            BY <4>6, <5>5
          <6>3. AsWritten(f) = IF exec[f].outcome = "done" THEN text ELSE Append(text, Notice)
            BY <5>3, <5>4, <6>1, <6>2, Written
          <6> QED BY <5>5, <5>6, <6>3
        <5> QED BY <5>5, <5>7
      <4>7. ~(f = m.e /\ m.kind = "limit")
        BY <1>3, <3>11, Heard DEF Carried
      <4> QED BY <1>3, <4>3, <4>5, <4>6, <4>7, Heard
    <3> QED BY <3>3, <3>9, <3>10, <3>11 DEF CollectedFor
  <2>2. ASSUME NEW f \in Running' \ crossed', exec'[f].multi, ~NamedTwice(exec[f].round)'
        PROVE  CollectedFor(f)'
    <3>1. exec[f].multi /\ ~NamedTwice(exec[f].round)
      BY <1>1, <2>2 DEF NamedTwice
    <3>2. /\ exec[f].tool \in Range(selected) /\ responses'[exec[f].tool] # NoEntry
          /\ f \notin told' => completed'[exec[f].tool] = "pending"
          /\ ~exec[f].limited => IF f \in told' THEN responses'[exec[f].tool] = AsWritten(f)
                                ELSE TextOf(f, responses'[exec[f].tool], multi')
      BY <2>1, <3>1
    <3> QED BY <1>1, <3>2 DEF CollectedFor, TextOf, AsWritten, LinesIn, Range
  <2> QED BY <2>2 DEF CollectedEach
<1> QED BY <1>5, <1>6

(* Nothing saved changes when nothing is added. *)
LEMMA SavedSame ==
    ASSUME TypeOK, Saved, Once, rounds' \in Nat, rounds <= rounds', crossed \subseteq crossed',
           told \subseteq told',
           \A f \in Execs : \/ exec'[f] = exec[f]
                            \/ exec'[f].round \notin 1..rounds /\ exec[f].round \notin 1..rounds,
           log' = log
    PROVE  Saved' /\ Once'
<1>1. PICK m : m = Said("user", 0, <<>>)
  OBVIOUS
<1>2. m.who = "user"
  BY <1>1 DEF Said
<1>3. Adds(m)
  BY DEF Adds
<1>4. PICK o : o = open
  OBVIOUS
<1>5. Saved'
  BY <1>2, <1>3, <1>4, SavedKept
<1>6. Once'
  BY <1>2, <1>3, OnceKept DEF Same
<1> QED BY <1>5, <1>6

(* A message of one speaker is a message, and no combined one. *)
LEMMA SaidMessage ==
    ASSUME NEW w \in {"user", "answer"}, NEW r \in Nat, NEW text \in Seq(Execs)
    PROVE  /\ Said(w, r, text) \in Message
           /\ Said(w, r, text).who = w /\ Said(w, r, text).round = r
           /\ Said(w, r, text).lines = text
  BY DEF Said, Message

(* Hearing leaves the shape of what it does not write. *)
LEMMA HearType ==
    ASSUME TypeOK, Slots, Channels, NEW m, Hears(m),
           current' \in Tools \cup {NoTool}, response' \in Seq(Execs),
           responses' \in [Tools -> Seq(Lines) \cup {NoEntry}],
           completed' \in [Tools -> {"absent", "pending", "done"}],
           \A t \in Tools : completed'[t] = "pending" => responses'[t] # NoEntry,
           log' \in [Sessions -> Seq(Message)]
    PROVE  TypeOK'
<1>1. /\ UNCHANGED <<ui, enabled, selected, open, used, exec, available, hits, rounds, crossed>>
      /\ told' = IF m.kind = "line" THEN told ELSE told \cup {m.e}
  BY DEF Hears, usage
<1>2. m.e \in Execs
  BY Heard
<1>3. told' \subseteq Execs
  BY <1>1, <1>2 DEF TypeOK
<1>4. /\ single' \in Seq(Output) /\ Len(single') <= Cap
      /\ multi' \in Seq(Output) /\ Len(multi') <= Cap
  BY Drained
<1> QED BY <1>1, <1>3, <1>4 DEF TypeOK

(* An answer that is saved as it ends is whole. *)
LEMMA HearAnswer ==
    ASSUME ChatInv, NEW m, Hears(m), Extends,
           m.kind = "done" /\ ~exec[m.e].multi /\ response # <<>> =>
               \E i \in DOMAIN log'[open] :
                   /\ log'[open][i].who = "answer"
                   /\ log'[open][i].round = exec[m.e].round
                   /\ log'[open][i].lines = response
    PROVE  AnswerAtHome'
<1> USE DEF ChatInv
<1>1. /\ UNCHANGED <<exec, crossed>>
      /\ told' = IF m.kind = "line" THEN told ELSE told \cup {m.e}
  BY DEF Hears
<1>2. /\ m.e \in Execs /\ Active(m.e) /\ m.e \in Running
      /\ Carried(m, exec[m.e], exec[m.e].multi)
      /\ m.kind \in {"line", "done", "error", "limit"}
      /\ \/ ~exec[m.e].multi /\ single # <<>> /\ m = Head(single)
            /\ single' = Tail(single) /\ multi' = multi
         \/ exec[m.e].multi /\ multi # <<>> /\ m = Head(multi)
            /\ multi' = Tail(multi) /\ single' = single
      /\ m.kind \in {"done", "error"} =>
            LinesIn(single', m.e) = {} /\ LinesIn(multi', m.e) = {}
  BY Heard
<1>3. ASSUME NEW e \in told' \ crossed, ~exec[e].multi, exec[e].outcome = "done", exec[e].wrote > 0
      PROVE  \E i \in DOMAIN log'[exec[e].home] :
                /\ log'[exec[e].home][i].who = "answer"
                /\ log'[exec[e].home][i].round = exec[e].round
                /\ log'[exec[e].home][i].lines = [n \in 1..exec[e].wrote |-> e]
  <2>1. CASE e \in told
    BY <1>1, <1>3, <2>1, AnswersKept
  <2>2. CASE e \notin told
    <3>1. e = m.e /\ m.kind # "line" /\ e \in Running \ crossed
      BY <1>1, <1>2, <1>3, <2>2
    <3>2. exec[e].home = open
      BY <1>2, <3>1, Alone
    <3>3. StageOK(exec[e]) /\ exec[e] \in Execution
      BY <1>2, <3>1 DEF Stages, TypeOK
    <3>4. m.kind = "done" /\ ~exec[e].limited
      BY <1>2, <1>3, <3>1, <3>3 DEF Carried, StageOK
    <3>5. single # <<>> /\ m = Head(single) /\ single' = Tail(single) /\ LinesIn(single', e) = {}
      BY <1>2, <1>3, <3>1, <3>4
    <3>6. single \in Seq(Output) /\ Tail(single) \in Seq(Output) /\ response \in Seq(Execs)
      BY <3>5 DEF TypeOK
    <3>7. Cardinality(LinesIn(single, e)) = 0
      <4>1. Cardinality(LinesIn(Tail(single), e)) = 0
        BY <3>5, <3>6, LinesFinite
      <4>2. Cardinality(LinesIn(single, e)) = Cardinality(LinesIn(Tail(single), e)) + 0
        BY <3>4, <3>5, <3>6, LinesTail
      <4> QED BY <4>1, <4>2
    <3>8. TextOf(e, response, single)
      BY <1>3, <2>2, <3>1, <3>4 DEF Collected
    <3>9. response = [n \in 1..exec[e].wrote |-> e] /\ Len(response) = exec[e].wrote
      BY <3>6, <3>7, <3>8, TextWhole
    <3>10. response # <<>>
      <4>1. Len(response) # 0
        BY <1>3, <3>3, <3>9 DEF Execution
      <4> QED BY <4>1
    <3>11. PICK i \in DOMAIN log'[open] :
                   /\ log'[open][i].who = "answer"
                   /\ log'[open][i].round = exec[m.e].round
                   /\ log'[open][i].lines = response
      BY <1>3, <3>1, <3>4, <3>10
    <3> QED BY <3>1, <3>2, <3>9, <3>11
  <2> QED BY <2>1, <2>2
<1> QED BY <1>1, <1>3 DEF AnswerAtHome, Answers

(* An output of a single prompt is taken. *)
LEMMA TakeSingleInv ==
    ASSUME ChatInv, TakeSingle
    PROVE  ChatInv'
<1> USE DEF ChatInv
<1>1. /\ single # <<>> /\ single' = Tail(single)
      /\ UNCHANGED <<ui, enabled, selected, responses, completed, open, used,
                     exec, multi, usage, rounds, crossed>>
  BY DEF TakeSingle, TakeLine, TakeDone, TakeError, TakeLimit, Take
<1>2. PICK m : m = Head(single)
  OBVIOUS
<1>3. m \in Output /\ m.e \in Execs /\ m.next \in Tools \cup {NoTool}
  <2>1. m \in Output
    BY <1>1, <1>2, Taken DEF TypeOK
  <2> QED BY <2>1 DEF Output
<1>4. /\ \/ m.kind = "line" /\ TakeLine
         \/ m.kind = "done" /\ TakeDone
         \/ m.kind = "error" /\ TakeError
         \/ m.kind = "limit" /\ TakeLimit
      /\ told' = IF m.kind = "line" THEN told ELSE told \cup {m.e}
  BY <1>2 DEF TakeSingle, TakeLine, TakeDone, TakeError, TakeLimit, Take, Tell
<1>5. Hears(m)
  BY <1>1, <1>2, <1>3, <1>4 DEF Hears
<1>6. ~exec[m.e].multi
  <2>1. 1 \in DOMAIN single /\ single[1] = m
    BY <1>1, <1>2, Taken DEF TypeOK
  <2> QED BY <2>1 DEF Channels, Carried
<1>7. /\ current \in Tools \cup {NoTool} /\ response \in Seq(Execs)
      /\ log \in [Sessions -> Seq(Message)] /\ rounds \in Nat
  BY DEF TypeOK
<1>8. PICK said : said = Said("answer", exec[m.e].round, response)
  OBVIOUS
<1>9. said \in Message /\ said.who = "answer" /\ said.round = exec[m.e].round /\ said.lines = response
  <2>1. exec[m.e].round \in Nat
    <3>1. exec[m.e] \in Execution
      BY <1>3 DEF TypeOK
    <3> QED BY <3>1 DEF Execution
  <2> QED BY <1>7, <1>8, <2>1, SaidMessage
<1>10. /\ current' \in Tools \cup {NoTool} /\ response' \in Seq(Execs)
       /\ m.kind = "line" => response' = Append(response, m.e)
       /\ log' = log \/ (m.kind = "done" /\ Remember(said))
       /\ m.kind = "done" /\ response # <<>> => Remember(said)
  <2>1. CASE m.kind = "line" /\ TakeLine
    BY <1>2, <1>3, <1>7, <2>1 DEF TakeLine
  <2>2. CASE m.kind = "done" /\ TakeDone
    BY <1>2, <1>7, <1>8, <2>2 DEF TakeDone
  <2>3. CASE m.kind = "error" /\ TakeError
    BY <1>7, <2>3 DEF TakeError
  <2>4. CASE m.kind = "limit" /\ TakeLimit
    BY <1>2, <1>3, <1>7, <2>4 DEF TakeLimit
  <2> QED BY <1>4, <2>1, <2>2, <2>3, <2>4
<1>11. log' \in [Sessions -> Seq(Message)] /\ Extends /\ Adds(said)
  <2>1. CASE log' = log
    BY <1>7, <2>1 DEF Extends, Adds
  <2>2. CASE Remember(said)
    BY <1>9, <2>2, Remembered
  <2> QED BY <1>10, <2>1, <2>2
<1>12. TypeOK'
  BY <1>1, <1>5, <1>10, <1>11, HearType DEF TypeOK
<1>13. Saved' /\ Once'
  <2>1. PICK o : o = open
    OBVIOUS
  <2>2. Saved'
    BY <1>1, <1>4, <1>7, <1>9, <1>11, <2>1, SavedKept
  <2> QED BY <1>1, <1>9, <1>11, <2>2, OnceKept DEF Same
<1>14. AnswerAtHome'
  <2>1. ASSUME m.kind = "done" /\ response # <<>>
        PROVE  \E i \in DOMAIN log'[open] :
                   /\ log'[open][i].who = "answer"
                   /\ log'[open][i].round = exec[m.e].round
                   /\ log'[open][i].lines = response
    <3>1. Remember(said)
      BY <1>10, <2>1
    <3>2. \E i \in DOMAIN log'[open] : log'[open][i] = said
      BY <1>9, <3>1, Remembered
    <3> QED BY <1>9, <3>2
  <2> QED BY <1>5, <1>11, <2>1, HearAnswer
<1>15. Collected' /\ CollectedEach'
  BY <1>1, <1>5, <1>6, <1>10, HearCollectedSingle
<1>16. Together' /\ Stages' /\ Channels' /\ Undisturbed' /\ Picked' /\ NextIsAvailable'
  BY <1>5, HearFrame
<1>17. Slots' /\ Settled' /\ Loud'
  BY <1>5, HearTold
<1>18. Resumable'
  BY <1>1, <1>11, ResumableKept
<1> QED BY <1>18, <1>12, <1>13, <1>14, <1>15, <1>16, <1>17

(* The combined answer of a round that nothing crossed, when its last model *)
(* is through.                                                             *)
LEMMA CombinedWhole ==
    ASSUME ChatInv, NEW m, Hears(m), exec[m.e].multi, m.kind = "done",
           AllDone([completed EXCEPT ![exec[m.e].tool] = "done"]),
           ~NamedTwice(exec[m.e].round),
           NEW f \in Execs \ crossed, exec[f].round = exec[m.e].round, ~exec[f].limited
    PROVE  /\ exec[f].pc = "ended" /\ exec[f].home = open /\ f \in told'
           /\ Combined[exec[f].tool] = AsWritten(f)
<1> USE DEF ChatInv
<1>1. /\ m.e \in Execs /\ Active(m.e) /\ m.e \in Running /\ ~At(m.e, "free")
      /\ Carried(m, exec[m.e], exec[m.e].multi)
      /\ multi # <<>> /\ m = Head(multi) /\ multi' = Tail(multi) /\ single' = single
      /\ LinesIn(single', m.e) = {} /\ LinesIn(multi', m.e) = {}
  BY Heard
<1>2. f \in Running \ crossed
  BY <1>1 DEF Running
<1>3. exec[f].home = open /\ exec[f].multi
  BY <1>1, <1>2, Alone
<1>4. CollectedFor(f) /\ StageOK(exec[f]) /\ exec[f] \in Execution
  BY <1>2, <1>3 DEF CollectedEach, Stages, TypeOK
<1>5. /\ responses \in [Tools -> Seq(Lines) \cup {NoEntry}]
      /\ completed \in [Tools -> {"absent", "pending", "done"}]
      /\ selected \in Seq(Tools) /\ multi \in Seq(Output)
  BY DEF TypeOK
<1>6. /\ exec[f].tool \in Tools /\ exec[f].tool \in Range(selected)
      /\ responses[exec[f].tool] \in Seq(Lines) /\ responses[exec[f].tool] # NoEntry
  BY <1>4, <1>5 DEF CollectedFor, Range
<1>7. IF f \in told THEN responses[exec[f].tool] = AsWritten(f)
       ELSE TextOf(f, responses[exec[f].tool], multi)
  BY <1>4 DEF CollectedFor
<1>8. exec[f].tool \in Listed
  BY <1>6 DEF Listed
<1>9. Combined[exec[f].tool] = responses[exec[f].tool]
  BY <1>6, <1>8 DEF Combined
<1>10. f \in told => responses[exec[f].tool] = AsWritten(f)
  BY <1>7, Zenon
<1>11. f \notin told => TextOf(f, responses[exec[f].tool], multi)
  BY <1>7, Zenon
<1>12. CASE f = m.e
  <2>1. exec[f].outcome = "done" /\ f \in told' /\ exec[f].pc = "ended"
    BY <1>1, <1>4, <1>12 DEF Carried, Hears, StageOK
  <2>2. Cardinality(LinesIn(multi, f)) = 0
    <3>1. Tail(multi) \in Seq(Output) /\ LinesIn(Tail(multi), f) = {}
      BY <1>1, <1>5, <1>12
    <3>2. Cardinality(LinesIn(Tail(multi), f)) = 0
      BY <3>1, LinesFinite
    <3>3. Cardinality(LinesIn(multi, f)) = Cardinality(LinesIn(Tail(multi), f)) + 0
      BY <1>1, <1>5, LinesTail
    <3> QED BY <3>2, <3>3
  <2>3. f \notin told
    <3>1. 1 \in DOMAIN multi /\ multi[1] = m
      BY <1>1, <1>5, Taken
    <3> QED BY <1>3, <1>12, <3>1 DEF Settled
  <2>4. PICK text : text = responses[exec[f].tool]
    OBVIOUS
  <2>5. text \in Seq(Lines) /\ TextOf(f, text, multi)
    BY <1>6, <1>11, <2>3, <2>4
  <2>6. (\A n \in DOMAIN text : text[n] = f) /\ Len(text) = exec[f].wrote /\ Len(text) \in Nat
    BY <2>2, <2>5 DEF TextOf
  <2>7. text = AsWritten(f)
    BY <2>1, <2>5, <2>6, Written
  <2> QED BY <1>3, <1>9, <2>1, <2>4, <2>7
<1>13. CASE f # m.e
  <2>1. exec[f].tool # exec[m.e].tool
    <3>1. ASSUME exec[f].tool = exec[m.e].tool PROVE NamedTwice(exec[m.e].round)
      <4>1. PICK g \in Execs : g # f /\ exec[g].round = exec[m.e].round /\ exec[f].tool = exec[g].tool
        BY <1>1, <1>13, <3>1
      <4> QED BY <4>1, Zenon DEF NamedTwice
    <3> QED BY <3>1
  <2>2. completed[exec[f].tool] # "pending"
    BY <1>5, <1>6, <2>1 DEF AllDone
  <2>3. f \in told /\ f \in told'
    BY <1>4, <2>2 DEF CollectedFor, Hears
  <2>4. exec[f].outcome \in {"done", "error"}
    BY <2>3 DEF Settled
  <2>5. exec[f].pc = "ended"
    BY <1>3, <1>4, <2>4 DEF StageOK
  <2>6. responses[exec[f].tool] = AsWritten(f)
    BY <1>10, <2>3
  <2> QED BY <1>3, <1>9, <2>3, <2>5, <2>6
<1> QED BY <1>12, <1>13

(* An output of several models is taken. *)
LEMMA TakeMultiInv ==
    ASSUME ChatInv, TakeMulti
    PROVE  ChatInv'
<1> USE DEF ChatInv
<1>1. /\ multi # <<>> /\ multi' = Tail(multi)
      /\ UNCHANGED <<ui, current, response, enabled, selected, open, used,
                     exec, single, usage, rounds, crossed>>
  BY DEF TakeMulti, TakeTaggedLine, TakeTaggedDone, TakeTaggedEnd, TakeTagged
<1>2. PICK m : m = Head(multi)
  OBVIOUS
<1>3. m \in Output /\ m.e \in Execs
  <2>1. m \in Output
    BY <1>1, <1>2, Taken DEF TypeOK
  <2> QED BY <2>1 DEF Output
<1> DEFINE t == exec[m.e].tool
           c == [completed EXCEPT ![t] = "done"]
<1>4. /\ \/ m.kind = "line" /\ TakeTaggedLine
         \/ m.kind = "done" /\ TakeTaggedDone
         \/ m.kind \in {"error", "limit"} /\ TakeTaggedEnd
      /\ told' = IF m.kind = "line" THEN told ELSE told \cup {m.e}
  BY <1>2 DEF TakeMulti, TakeTaggedLine, TakeTaggedDone, TakeTaggedEnd, TakeTagged, Tell
<1>5. Hears(m)
  BY <1>1, <1>2, <1>3, <1>4 DEF Hears
<1>6. exec[m.e].multi /\ exec[m.e].round \in 1..rounds /\ t \in Tools
  <2>1. 1 \in DOMAIN multi /\ multi[1] = m
    BY <1>1, <1>2, Taken DEF TypeOK
  <2>2. exec[m.e].multi /\ ~At(m.e, "free")
    BY <2>1 DEF Channels, Carried, At
  <2> QED BY <1>3, <2>2 DEF Slots
<1>7. /\ response \in Seq(Execs) /\ responses \in [Tools -> Seq(Lines) \cup {NoEntry}]
      /\ completed \in [Tools -> {"absent", "pending", "done"}]
      /\ log \in [Sessions -> Seq(Message)] /\ rounds \in Nat
      /\ \A u \in Tools : completed[u] = "pending" => responses[u] # NoEntry
      /\ current \in Tools \cup {NoTool}
  BY DEF TypeOK
<1>8. PICK said : said = [who |-> "combined", round |-> exec[m.e].round, parts |-> Combined]
  OBVIOUS
<1>9. said \in Message /\ said.who = "combined" /\ said.round = exec[m.e].round /\ said.parts = Combined
  <2>1. Combined \in [Tools -> Seq(Lines) \cup {NoEntry}]
    BY <1>7 DEF Combined
  <2>2. exec[m.e].round \in Nat
    BY <1>6, <1>7
  <2> HIDE DEF t, c
  <2> QED BY <1>8, <2>1, <2>2 DEF Message
<1> HIDE DEF t, c
<1>10. /\ IF m.kind = "line"
          THEN /\ completed' = completed
               /\ responses[t] = NoEntry => responses' = responses
               /\ responses[t] # NoEntry =>
                     responses' = [responses EXCEPT ![t] = Append(@, m.e)]
          ELSE /\ completed' = c
               /\ IF m.kind = "done" \/ responses[t] = NoEntry THEN responses' = responses
                  ELSE responses' = [responses EXCEPT ![t] = Append(@, Notice)]
       /\ log' = log \/ (m.kind = "done" /\ AllDone(c) /\ Remember(said))
  <2>1. CASE m.kind = "line" /\ TakeTaggedLine
    BY <1>2, <2>1, Zenon DEF TakeTaggedLine, ToolOf, t
  <2>2. CASE m.kind = "done" /\ TakeTaggedDone
    BY <1>2, <1>8, <2>2, Zenon DEF TakeTaggedDone, ToolOf, t, c
  <2>3. CASE m.kind \in {"error", "limit"} /\ TakeTaggedEnd
    BY <1>2, <2>3, Zenon DEF TakeTaggedEnd, ToolOf, t, c
  <2> QED BY <1>4, <2>1, <2>2, <2>3
<1>11. log' \in [Sessions -> Seq(Message)] /\ Extends
       /\ (log' = log \/ (m.kind = "done" /\ AllDone(c) /\ Adds(said)))
  <2>1. CASE log' = log
    BY <1>7, <2>1 DEF Extends
  <2>2. CASE m.kind = "done" /\ AllDone(c) /\ Remember(said)
    BY <1>9, <2>2, Remembered
  <2> QED BY <1>10, <2>1, <2>2
<1>12. /\ responses' \in [Tools -> Seq(Lines) \cup {NoEntry}]
       /\ completed' \in [Tools -> {"absent", "pending", "done"}]
       /\ \A u \in Tools : completed'[u] = "pending" => responses'[u] # NoEntry
  <2>1. CASE m.kind = "line" /\ responses[t] # NoEntry
    <3>1. completed' = completed /\ responses' = [responses EXCEPT ![t] = Append(@, m.e)]
      BY <1>10, <2>1
    <3>2. Append(responses[t], m.e) \in Seq(Lines)
      BY <1>3, <1>6, <1>7, <2>1 DEF Lines
    <3>3. Append(responses[t], m.e) # NoEntry
      BY <3>2, TextIsEntry
    <3> QED BY <1>6, <1>7, <3>1, <3>2, <3>3
  <2>2. CASE m.kind = "line" /\ responses[t] = NoEntry
    BY <1>7, <1>10, <2>2
  <2>3. CASE m.kind # "line"
    <3>1. completed' = [completed EXCEPT ![t] = "done"]
      BY <1>10, <2>3 DEF c
    <3>2. ASSUME responses[t] # NoEntry
          PROVE  Append(responses[t], Notice) \in Seq(Lines) /\ Append(responses[t], Notice) # NoEntry
      <4>1. Append(responses[t], Notice) \in Seq(Lines)
        BY <1>6, <1>7, <3>2 DEF Lines
      <4> QED BY <4>1, TextIsEntry
    <3>3. \/ responses' = responses
          \/ responses[t] # NoEntry /\ responses' = [responses EXCEPT ![t] = Append(@, Notice)]
      BY <1>10, <2>3
    <3> QED BY <1>6, <1>7, <3>1, <3>2, <3>3
  <2> QED BY <2>1, <2>2, <2>3
<1>13. TypeOK'
  BY <1>1, <1>5, <1>7, <1>11, <1>12, HearType
<1>14. Saved' /\ Once'
  <2>1. CASE log' = log
    BY <1>1, <1>4, <1>7, <2>1, SavedSame
  <2>2. CASE m.kind = "done" /\ AllDone(c) /\ Adds(said)
    <3>1. PICK o : o = open
      OBVIOUS
    <3>2. ASSUME ~NamedTwice(said.round)', NEW f \in Execs \ crossed'
          PROVE  WholeFor(said, o, f)'
      <4>1. ~NamedTwice(exec[m.e].round)
        BY <1>1, <1>9, <3>2 DEF NamedTwice
      <4>2. ASSUME exec[f].round = exec[m.e].round, ~exec[f].limited
            PROVE  /\ exec[f].pc = "ended" /\ exec[f].home = open /\ f \in told'
                   /\ Combined[exec[f].tool] = AsWritten(f)
        <5>1. AllDone([completed EXCEPT ![exec[m.e].tool] = "done"]) /\ m.kind = "done"
          BY <2>2 DEF c, t
        <5>2. f \in Execs \ crossed
          BY <1>1, <3>2
        <5> QED BY <1>5, <1>6, <4>1, <4>2, <5>1, <5>2, CombinedWhole
      <4> QED BY <1>1, <1>9, <3>1, <4>2 DEF WholeFor, AsWritten
    <3>3. said.round \in 1..rounds'
      BY <1>1, <1>6, <1>9
    <3>4. Saved'
      BY <1>1, <1>4, <1>7, <2>2, <3>1, <3>2, <3>3, SavedKept
    <3>5. ASSUME NEW i \in DOMAIN log[open], Same(log[open][i], said), ~NamedTwice(said.round)',
                 NEW f \in Execs \ crossed', exec'[f].round = said.round
          PROVE  FALSE
      <4>1. /\ m.e \in Execs /\ Carried(m, exec[m.e], exec[m.e].multi) /\ ~At(m.e, "free")
        BY <1>5, Heard
      <4>2. ~exec[m.e].limited
        BY <2>2, <4>1 DEF Carried, Stages, StageOK
      <4>3. exec[f].round = exec[m.e].round /\ f \in Execs \ crossed
        BY <1>1, <1>9, <3>5
      <4>4. ~At(f, "free")
        BY <1>6, <4>3 DEF Slots, Idle
      <4>5. m.e \notin crossed
        BY <4>1, <4>3, <4>4 DEF Together, Mates
      <4>6. log[open][i].who = "combined" /\ log[open][i].round = exec[m.e].round
        BY <1>9, <3>5 DEF Same
      <4>7. ~NamedTwice(log[open][i].round)
        BY <1>1, <1>9, <3>5, <4>6 DEF NamedTwice
      <4>8. open \in Sessions
        BY DEF TypeOK
      <4>9. WholeFor(log[open][i], open, m.e)
        BY <4>1, <4>5, <4>6, <4>7, <4>8 DEF Saved
      <4>10. m.e \in told
        BY <4>2, <4>6, <4>9 DEF WholeFor
      <4>11. 1 \in DOMAIN multi /\ multi[1] = m
        BY <1>1, <1>2, Taken DEF TypeOK
      <4> QED BY <1>6, <4>2, <4>10, <4>11 DEF Settled
    <3>6. Once'
      BY <1>1, <2>2, <3>5, OnceKept
    <3> QED BY <3>4, <3>6
  <2> QED BY <1>11, <2>1, <2>2
<1>15. AnswerAtHome'
  BY <1>5, <1>6, <1>11, HearAnswer
<1>16. Collected' /\ CollectedEach'
  BY <1>1, <1>5, <1>6, <1>10, HearCollectedMulti DEF c, t
<1>17. Together' /\ Stages' /\ Channels' /\ Undisturbed' /\ Picked' /\ NextIsAvailable'
  BY <1>5, HearFrame
<1>18. Slots' /\ Settled' /\ Loud'
  BY <1>5, HearTold
<1>19. Resumable'
  <2>1. CASE log' = log
    BY <1>1, <2>1 DEF Resumable
  <2>2. CASE Adds(said)
    BY <1>1, <1>11, <2>2, ResumableKept
  <2> QED BY <1>11, <2>1, <2>2
<1> QED BY <1>19, <1>13, <1>14, <1>15, <1>16, <1>17, <1>18

-----------------------------------------------------------------------------
(* Keys.                                                                   *)

(* The executions begun so far are the first ones. *)
LEMMA FirstOnes ==
    ASSUME TypeOK, Slots
    PROVE  /\ Spawned \in Nat
           /\ \A e \in Execs : ~At(e, "free") <=> e <= Spawned
<1> DEFINE F == {e \in Execs : ~At(e, "free")}
           T == {n \in 1..(MaxExecs + 1) : n \notin F}
<1>1. MaxExecs \in Nat /\ Execs = 1..MaxExecs
  BY ChatAssumption DEF Execs
<1>2. T \subseteq Nat /\ MaxExecs + 1 \in T
  BY <1>1
<1>3. PICK n \in T : \A k \in T : n <= k
  <2> HIDE DEF T
  <2>1. T # {} /\ T \subseteq Nat
    BY <1>2
  <2> QED BY <2>1, LeastExists
<1>4. n \in 1..(MaxExecs + 1) /\ n \notin F /\ \A k \in 1..(MaxExecs + 1) : k < n => k \in F
  BY <1>1, <1>3
<1>5. \A e \in Execs : e \in F <=> e < n
  BY <1>1, <1>4 DEF Slots
<1>6. F = 1..(n - 1)
  <2>1. F \subseteq Execs
    OBVIOUS
  <2> HIDE DEF F
  <2>2. ASSUME NEW e \in F PROVE e \in 1..(n - 1)
    <3>1. e \in 1..MaxExecs /\ e < n /\ n \in Nat
      BY <1>1, <1>4, <1>5, <2>1
    <3> QED BY <3>1
  <2>3. ASSUME NEW e \in 1..(n - 1) PROVE e \in F
    <3>1. e \in 1..MaxExecs /\ e < n
      BY <1>1, <1>4
    <3> QED BY <1>1, <1>5, <3>1
  <2> QED BY <2>2, <2>3
<1>7. Cardinality(1..(n - 1)) = n - 1
  <2>1. 1 \in Int /\ n - 1 \in Int /\ n >= 1
    BY <1>4
  <2>2. Cardinality(1..(n - 1)) = IF 1 > n - 1 THEN 0 ELSE (n - 1) - 1 + 1
    BY <2>1, FS_Interval
  <2> QED BY <2>1, <2>2
<1>8. Spawned = n - 1
  BY <1>6, <1>7, Zenon DEF Spawned
<1>9. \A e \in Execs : e < n <=> e <= n - 1
  BY <1>1, <1>4
<1> QED BY <1>1, <1>4, <1>5, <1>8, <1>9

\* A task that was just spawned, of the prompt that is being sent.
Task0(r, several) ==
    /\ r \in Execution
    /\ r.pc = "start" /\ r.tool \in Tools /\ r.home = open /\ r.round = rounds + 1
    /\ r.multi = several /\ r.wrote = 0 /\ r.stderr = "reading" /\ r.pick = NoTool
    /\ ~r.limited /\ r.outcome = "none"

(* What a task begins with. *)
LEMMA TaskBegins ==
    ASSUME TypeOK, NEW t \in Tools, NEW b \in BOOLEAN
    PROVE  Task0(Task(t, b), b) /\ Task(t, b).tool = t
<1>1. open \in Sessions /\ rounds + 1 \in Nat /\ MaxLines \in Nat
  BY ChatAssumption DEF TypeOK
<1>2. Idle \in Execution
  BY <1>1 DEF Idle, Execution
<1> DEFINE r == Task(t, b)
<1>3. /\ DOMAIN r = DOMAIN Idle
      /\ r.pc = "start" /\ r.tool = t /\ r.home = open /\ r.round = rounds + 1 /\ r.multi = b
      /\ r.wrote = 0 /\ r.stderr = "reading" /\ r.pick = NoTool
      /\ r.limited = FALSE /\ r.outcome = "none"
  BY DEF Task, Idle
<1>4. r \in Execution
  BY <1>1, <1>2 DEF Task, Execution
<1> QED BY <1>3, <1>4 DEF Task0

(* The tasks of a prompt begin. *)
Begins(new, several) ==
    /\ new \subseteq Execs /\ \E k \in Nat : new = (Spawned + 1)..(Spawned + k)
    /\ exec' \in [Execs -> Execution]
    /\ \A f \in Execs : IF f \in new THEN Task0(exec'[f], several) ELSE exec'[f] = exec[f]
    /\ ~several => \A f, g \in new : f = g
    /\ ~several => response' = <<>>
    /\ several => \A f \in new :
          /\ exec'[f].tool \in Range(selected')
          /\ responses'[exec'[f].tool] = <<>> /\ completed'[exec'[f].tool] = "pending"
    /\ Crossing(new)
    /\ Remember(Said("user", rounds + 1, <<>>))
    /\ UNCHANGED <<ui, current, enabled, selected, open, used, single, multi, usage>>

(* Nothing was known of the new executions before. *)
LEMMA NewOnes ==
    ASSUME ChatInv, NEW new, NEW several, Begins(new, several)
    PROVE  /\ new \subseteq Execs
           /\ \A f \in new :
                 /\ At(f, "free") /\ exec[f].round = 0 /\ f \notin told /\ f \notin crossed
                 /\ f \notin Running
                 /\ \A i \in DOMAIN single : single[i].e # f
                 /\ \A i \in DOMAIN multi : multi[i].e # f
           /\ \A f \in Execs : ~At(f, "free") => f \notin new
           /\ \A e \in Execs, f \in new : e < f => ~At(e, "free") \/ e \in new
<1> USE DEF ChatInv
<1>1. PICK k \in Nat : new = (Spawned + 1)..(Spawned + k) /\ new \subseteq Execs
  BY DEF Begins
<1>2. Spawned \in Nat /\ \A e \in Execs : ~At(e, "free") <=> e <= Spawned
  BY FirstOnes
<1>3. Execs \subseteq Nat \ {0}
  BY DEF Execs
<1>4. \A f \in new : At(f, "free")
  BY <1>1, <1>2, <1>3
<1>5. \A f \in new : exec[f].round = 0 /\ f \notin told /\ f \notin crossed /\ f \notin Running
  <2>1. ASSUME NEW f \in new
        PROVE  exec[f] = Idle /\ f \notin told /\ f \notin crossed /\ f \notin Running
    <3>1. f \in Execs /\ At(f, "free")
      BY <1>1, <1>4
    <3>2. f \notin Running
      BY <3>1, Begun
    <3> QED BY <3>1, <3>2 DEF Slots
  <2>2. Idle.round = 0
    BY DEF Idle
  <2> QED BY <2>1, <2>2
<1>6. ASSUME NEW f \in new
      PROVE  /\ \A i \in DOMAIN single : single[i].e # f
             /\ \A i \in DOMAIN multi : multi[i].e # f
  BY <1>4 DEF Channels, Carried, At
<1>7. \A e \in Execs, f \in new : e < f => ~At(e, "free") \/ e \in new
  <2>1. ASSUME NEW e \in Execs, NEW f \in new, e < f, At(e, "free") PROVE e \in new
    <3>1. e \in Nat /\ f \in Nat /\ f <= Spawned + k /\ ~(e <= Spawned)
      BY <1>1, <1>2, <1>3, <2>1
    <3> QED BY <1>1, <1>2, <2>1, <3>1
  <2> QED BY <2>1
<1> QED BY <1>1, <1>4, <1>5, <1>6, <1>7

(* Who runs after a prompt was sent: what ran before, crossed now, or, when *)
(* nothing did, the new executions alone.                                  *)
LEMMA BeginRunning ==
    ASSUME ChatInv, NEW new, NEW several, Begins(new, several)
    PROVE  /\ Running' \ crossed' \subseteq new
           /\ Running' \ crossed' # {} => \A f \in Execs : Active(f)' => f \in new
<1> USE DEF ChatInv
<1>1. /\ \A f \in Execs : IF f \in new THEN Task0(exec'[f], several) ELSE exec'[f] = exec[f]
      /\ single' = single /\ multi' = multi
      /\ crossed' = IF Running = {} THEN crossed ELSE crossed \cup Running \cup new
      /\ rounds \in Nat
  BY DEF Begins, Crossing, TypeOK
<1>2. new \subseteq Execs /\ \A f \in new : exec[f].round = 0 /\ At(f, "free")
  BY NewOnes
<1>3. \A f \in Execs : exec[f].round \in 0..rounds
  <2>1. \A f \in Execs : At(f, "free") => exec[f].round = 0
    BY DEF Slots, Idle
  <2> QED BY <1>1, <2>1 DEF Slots
<1>4. \A f \in new : exec'[f].round = rounds + 1
  BY <1>1, <1>2 DEF Task0
<1>5. \A f \in Execs : f \notin new => (Active(f)' => Active(f)) /\ exec'[f].round = exec[f].round
  BY <1>1 DEF Active
<1>6. ASSUME NEW e \in Running', NEW g \in Execs, Active(g)', exec'[g].round = exec'[e].round
      PROVE  /\ e \in Execs
             /\ g \in new => e \in new
             /\ g \notin new => e \in Running /\ g \in Running
  <2>1. e \in Execs
    BY DEF Running
  <2>2. ASSUME g \in new PROVE e \in new
    BY <1>1, <1>3, <1>4, <1>5, <1>6, <2>1, <2>2
  <2>3. ASSUME g \notin new PROVE e \in Running /\ g \in Running
    <3>1. Active(g) /\ exec'[g].round = exec[g].round /\ exec[g].round \in 0..rounds
      BY <1>3, <1>5, <1>6, <2>3
    <3>2. exec'[e].round \in 0..rounds
      BY <1>6, <3>1
    <3>3. e \notin new
      <4>1. rounds + 1 \notin 0..rounds
        BY <1>1
      <4> QED BY <1>4, <3>2, <4>1
    <3> QED BY <1>5, <1>6, <2>1, <3>1, <3>3 DEF Running
  <2> QED BY <2>1, <2>2, <2>3
<1>7. ASSUME NEW e \in Running' \ crossed'
      PROVE  e \in new /\ \A f \in Execs : Active(f)' => f \in new
  <2>1. PICK g \in Execs : Active(g)' /\ exec'[g].round = exec'[e].round
    BY DEF Running
  <2>2. Running = {}
    BY <1>1, <1>2, <1>6, <1>7, <2>1
  <2>3. \A f \in Execs : Active(f)' => f \in new
    <3>1. ASSUME NEW f \in Execs, Active(f)', f \notin new PROVE FALSE
      <4>1. Active(f)
        BY <1>5, <3>1
      <4> QED BY <2>2, <4>1 DEF Running
    <3> QED BY <3>1
  <2> QED BY <1>6, <2>1, <2>2, <2>3
<1> QED BY <1>7

(* The invariant after a prompt was sent. *)
LEMMA BeginInv ==
    ASSUME ChatInv, NEW new, NEW several \in BOOLEAN, Begins(new, several),
           response' \in Seq(Execs),
           responses' \in [Tools -> Seq(Lines) \cup {NoEntry}],
           completed' \in [Tools -> {"absent", "pending", "done"}],
           \A t \in Tools : completed'[t] = "pending" => responses'[t] # NoEntry
    PROVE  ChatInv'
<1> USE DEF ChatInv
<1>1. /\ \A f \in Execs : IF f \in new THEN Task0(exec'[f], several) ELSE exec'[f] = exec[f]
      /\ exec' \in [Execs -> Execution]
      /\ UNCHANGED <<ui, current, enabled, selected, open, used, single, multi, available, hits>>
      /\ crossed' = IF Running = {} THEN crossed ELSE crossed \cup Running \cup new
      /\ rounds' = rounds + 1 /\ rounds \in Nat /\ told' = told
  BY DEF Begins, Crossing, TypeOK, usage
<1>2. /\ new \subseteq Execs
      /\ \A f \in new :
            /\ At(f, "free") /\ exec[f].round = 0 /\ f \notin told /\ f \notin crossed
            /\ f \notin Running
            /\ \A i \in DOMAIN single : single[i].e # f
            /\ \A i \in DOMAIN multi : multi[i].e # f
      /\ \A f \in Execs : ~At(f, "free") => f \notin new
      /\ \A e \in Execs, f \in new : e < f => ~At(e, "free") \/ e \in new
  BY NewOnes
<1>3. PICK said : said = Said("user", rounds + 1, <<>>)
  OBVIOUS
<1>4. said \in Message /\ said.who = "user" /\ Remember(said)
  <2>1. rounds + 1 \in Nat /\ <<>> \in Seq(Execs)
    BY <1>1
  <2>2. said \in Message /\ said.who = "user"
    BY <1>3, <2>1 DEF Said, Message
  <2>3. Remember(said)
    BY <1>3, Zenon DEF Begins
  <2> QED BY <2>2, <2>3
<1>5. log' \in [Sessions -> Seq(Message)] /\ Extends /\ Adds(said)
  BY <1>4, Remembered
<1>6. crossed \subseteq crossed' /\ crossed' \subseteq Execs
  BY <1>1, <1>2 DEF TypeOK, Running
<1>7. TypeOK'
  <2>1. rounds' \in Nat
    BY <1>1
  <2> QED BY <1>1, <1>5, <1>6, <2>1 DEF TypeOK
<1>8. Slots'
  <2>1. ASSUME NEW e \in Execs, exec'[e].pc = "free"
        PROVE  exec'[e] = Idle /\ e \notin told' \cup crossed'
    <3>1. e \notin new /\ exec'[e] = exec[e]
      BY <1>1, <2>1 DEF Task0
    <3>2. exec[e] = Idle /\ e \notin told \cup crossed /\ e \notin Running
      BY <2>1, <3>1, Begun DEF Slots, At
    <3> QED BY <1>1, <3>1, <3>2
  <2>2. ASSUME NEW e \in Execs, exec'[e].pc # "free"
        PROVE  exec'[e].round \in 1..rounds' /\ exec'[e].tool \in Tools /\ exec'[e].home \in Sessions
    <3>1. CASE e \in new
      BY <1>1, <3>1 DEF Task0, TypeOK
    <3>2. CASE e \notin new
      BY <1>1, <2>2, <3>2 DEF Slots, At
    <3> QED BY <3>1, <3>2
  <2>3. ASSUME NEW e \in Execs, NEW f \in Execs, f < e, exec'[f].pc = "free"
        PROVE  exec'[e].pc = "free"
    <3>1. f \notin new /\ exec[f].pc = "free"
      BY <1>1, <2>3 DEF Task0
    <3>2. e \notin new
      BY <1>2, <2>3, <3>1 DEF At
    <3> QED BY <1>1, <2>3, <3>1, <3>2 DEF Slots, At
  <2> QED BY <2>1, <2>2, <2>3 DEF Slots, At
<1>9. Together'
  <2>1. ASSUME NEW e \in Execs, NEW f \in Execs,
               exec'[e].pc # "free", exec'[f].pc # "free", exec'[e].round = exec'[f].round
        PROVE  /\ exec'[e].multi = exec'[f].multi
               /\ ~exec'[e].multi => e = f
               /\ e \in crossed' => f \in crossed'
    <3>1. CASE e \in new /\ f \in new
      <4>1. exec'[e].multi = several /\ exec'[f].multi = several
        BY <1>1, <3>1 DEF Task0
      <4>2. ~several => e = f
        BY <3>1 DEF Begins
      <4> QED BY <1>1, <1>2, <3>1, <4>1, <4>2
    <3>2. CASE e \notin new /\ f \notin new
      <4>1. Mates(e, f)
        BY <1>1, <2>1, <3>2 DEF Mates, At
      <4>2. e \in Running => f \in Running
        BY <4>1 DEF Running, Mates
      <4> QED BY <1>1, <3>2, <4>1, <4>2 DEF Together
    <3>3. CASE (e \in new /\ f \notin new) \/ (e \notin new /\ f \in new)
      <4>1. \A g \in Execs : g \in new => exec'[g].round = rounds + 1
        BY <1>1 DEF Task0
      <4>2. \A g \in Execs : g \notin new /\ exec'[g].pc # "free" => exec'[g].round \in 1..rounds
        BY <1>1 DEF Slots, At
      <4> QED BY <1>1, <2>1, <3>3, <4>1, <4>2
    <3> QED BY <3>1, <3>2, <3>3
  <2> QED BY <2>1 DEF Together, Mates, At
<1>10. Stages'
  BY <1>1 DEF Stages, StageOK, Task0
<1>11. Channels'
  <2>1. /\ \A i \in DOMAIN single : exec'[single[i].e] = exec[single[i].e]
        /\ \A i \in DOMAIN multi : exec'[multi[i].e] = exec[multi[i].e]
    BY <1>1, <1>2, Messages
  <2> QED BY <1>1, <2>1 DEF Channels, Carried, LastWord, Final
<1>12. told \subseteq Execs /\ \A f \in told : f \notin new /\ exec'[f] = exec[f]
  <2>1. told \subseteq Execs
    BY DEF TypeOK
  <2> QED BY <1>1, <1>2, <2>1
<1>13. Settled'
  BY <1>1, <1>12 DEF Settled, LinesIn
<1>14. Loud'
  <2>1. \A f \in new : ~(exec'[f].pc = "ended") /\ ~exec'[f].limited
    BY <1>1, <1>2 DEF Task0
  <2> QED BY <1>1, <2>1 DEF Loud, At, Spoken
<1>15. /\ Running' \ crossed' \subseteq new
       /\ Running' \ crossed' # {} => \A f \in Execs : Active(f)' => f \in new
  BY BeginRunning
<1>16. Undisturbed'
  <2>1. \A f \in new : exec'[f].round = rounds' /\ exec'[f].home = open'
    BY <1>1, <1>2 DEF Task0
  <2> QED BY <1>2, <1>15, <2>1 DEF Undisturbed
<1>17. ASSUME NEW f \in new
       PROVE  /\ Cardinality(LinesIn(single', f)) = 0 /\ Cardinality(LinesIn(multi', f)) = 0
              /\ exec'[f].wrote = 0 /\ exec'[f].multi = several
  <2>1. LinesIn(single', f) = {} /\ LinesIn(multi', f) = {}
    BY <1>1, <1>2 DEF LinesIn
  <2>2. exec'[f].wrote = 0 /\ exec'[f].multi = several
    BY <1>1, <1>2 DEF Task0
  <2> QED BY <2>1, <2>2, FS_EmptySet
<1>18. ASSUME NEW f \in new, NEW text, NEW q, text = <<>>, Cardinality(LinesIn(q, f)) = 0
       PROVE  (\A n \in DOMAIN text : text[n] = f) /\ Len(text) + Cardinality(LinesIn(q, f)) = 0
  BY <1>18
<1>19. Collected'
  <2>1. ASSUME NEW f \in Running' \ crossed', ~exec'[f].multi
        PROVE  /\ \A n \in DOMAIN response' : response'[n] = f
               /\ Len(response') + Cardinality(LinesIn(single', f)) = exec'[f].wrote
    <3>1. f \in new /\ ~several
      BY <1>15, <1>17, <2>1
    <3>2. response' = <<>>
      BY <3>1 DEF Begins
    <3> QED BY <1>17, <1>18, <3>1, <3>2
  <2> QED BY <2>1 DEF Collected, TextOf, LinesIn
<1>20. CollectedEach'
  <2>1. ASSUME NEW f \in Running' \ crossed', exec'[f].multi
        PROVE  /\ exec'[f].tool \in Range(selected') /\ responses'[exec'[f].tool] # NoEntry
               /\ completed'[exec'[f].tool] = "pending"
               /\ \A n \in DOMAIN responses'[exec'[f].tool] : responses'[exec'[f].tool][n] = f
               /\ Len(responses'[exec'[f].tool]) + Cardinality(LinesIn(multi', f)) = exec'[f].wrote
    <3>1. f \in new /\ several
      BY <1>15, <1>17, <2>1
    <3>2. /\ exec'[f].tool \in Range(selected')
          /\ responses'[exec'[f].tool] = <<>> /\ completed'[exec'[f].tool] = "pending"
      BY <3>1 DEF Begins
    <3>3. <<>> # NoEntry
      <4>1. <<>> \in Seq(Lines)
        OBVIOUS
      <4> QED BY <4>1, TextIsEntry
    <3>4. PICK text : text = responses'[exec'[f].tool]
      OBVIOUS
    <3>5. text = <<>> /\ Cardinality(LinesIn(multi', f)) = 0 /\ exec'[f].wrote = 0
      BY <1>17, <3>1, <3>2, <3>4
    <3>6. (\A n \in DOMAIN text : text[n] = f) /\ Len(text) + Cardinality(LinesIn(multi', f)) = 0
      BY <1>18, <3>1, <3>5
    <3> QED BY <3>2, <3>3, <3>4, <3>5, <3>6
  <2>2. \A f \in Running' \ crossed' : f \notin told'
    BY <1>1, <1>2, <1>15
  <2> QED BY <2>1, <2>2 DEF CollectedEach, CollectedFor, TextOf, LinesIn, Range
<1>21. Saved' /\ Once'
  <2>1. \A f \in Execs : \/ exec'[f] = exec[f]
                         \/ exec'[f].round \notin 1..rounds /\ exec[f].round \notin 1..rounds
    BY <1>1, <1>2 DEF Task0
  <2>2. rounds' \in Nat /\ rounds <= rounds'
    BY <1>1
  <2>3. PICK o : o = open
    OBVIOUS
  <2>4. Saved'
    BY <1>1, <1>4, <1>5, <1>6, <2>1, <2>2, <2>3, SavedKept
  <2> QED BY <1>4, <1>5, <1>6, <2>1, <2>4, OnceKept DEF Same
<1>22. AnswerAtHome'
  <2>1. ASSUME NEW e \in told \ crossed', ~exec[e].multi, exec[e].outcome = "done", exec[e].wrote > 0
        PROVE  \E i \in DOMAIN log'[exec[e].home] :
                  /\ log'[exec[e].home][i].who = "answer"
                  /\ log'[exec[e].home][i].round = exec[e].round
                  /\ log'[exec[e].home][i].lines = [n \in 1..exec[e].wrote |-> e]
    BY <1>5, <1>6, <1>12, <2>1, AnswersKept
  <2>2. ASSUME NEW e \in told' \ crossed',
               ~exec'[e].multi, exec'[e].outcome = "done", exec'[e].wrote > 0
        PROVE  \E i \in DOMAIN log'[exec'[e].home] :
                  /\ log'[exec'[e].home][i].who = "answer"
                  /\ log'[exec'[e].home][i].round = exec'[e].round
                  /\ log'[exec'[e].home][i].lines = [n \in 1..exec'[e].wrote |-> e]
    <3>1. e \in told \ crossed' /\ exec'[e] = exec[e]
      BY <1>1, <1>12, <2>2
    <3> QED BY <2>1, <2>2, <3>1
  <2> QED BY <2>2 DEF AnswerAtHome, Answers
<1>23. Picked'
  <2>1. \A f \in new : exec'[f].stderr = "reading"
    BY <1>1, <1>2 DEF Task0
  <2> QED BY <1>1, <1>6, <2>1 DEF Picked, Usable
<1>24. NextIsAvailable'
  <2>1. \A i \in DOMAIN single : exec'[single[i].e] = exec[single[i].e]
    BY <1>1, <1>2, Messages
  <2> QED BY <1>1, <1>6, <2>1 DEF NextIsAvailable, Usable
<1>25. TypeOK' /\ Slots' /\ Together' /\ Stages' /\ Channels' /\ Settled' /\ Loud'
  BY <1>7, <1>8, <1>9, <1>10, <1>11, <1>13, <1>14
<1>26. Resumable'
  BY <1>1, <1>5, ResumableKept
<1> QED BY <1>16, <1>19, <1>20, <1>21, <1>22, <1>23, <1>24, <1>25, <1>26

(* Enter with a single model. *)
LEMMA SendPromptInv ==
    ASSUME ChatInv, NEW e \in Execs, SendPrompt(e)
    PROVE  ChatInv'
<1> USE DEF ChatInv
<1>1. PICK t \in Tools : t = IF current = NoTool THEN DefaultTool ELSE current
  BY ChatAssumption DEF TypeOK
<1>2. /\ e = Spawned + 1 /\ Remember(Said("user", rounds + 1, <<>>))
      /\ response' = <<>> /\ exec' = [exec EXCEPT ![e] = Task(t, FALSE)] /\ Crossing({e})
      /\ UNCHANGED <<ui, current, enabled, selected, responses, completed,
                     open, used, single, multi, usage>>
  BY <1>1, Zenon DEF SendPrompt
<1>3. Task0(Task(t, FALSE), FALSE)
  BY TaskBegins
<1>4. Task(t, FALSE) \in Execution /\ exec \in [Execs -> Execution]
  BY <1>3 DEF Task0, TypeOK
<1>5. exec' \in [Execs -> Execution] /\ exec'[e] = Task(t, FALSE)
      /\ \A f \in Execs : f # e => exec'[f] = exec[f]
  BY <1>2, <1>4
<1>6. {e} = (Spawned + 1)..(Spawned + 1)
  <2>1. Spawned \in Nat
    BY FirstOnes
  <2> QED BY <1>2, <2>1
<1>7. Begins({e}, FALSE)
  <2>1. \E k \in Nat : {e} = (Spawned + 1)..(Spawned + k)
    BY <1>6
  <2>2. \A f \in Execs : IF f \in {e} THEN Task0(exec'[f], FALSE) ELSE exec'[f] = exec[f]
    BY <1>3, <1>5
  <2> QED BY <1>2, <1>5, <2>1, <2>2, Zenon DEF Begins
<1>8. /\ response' \in Seq(Execs)
      /\ responses' \in [Tools -> Seq(Lines) \cup {NoEntry}]
      /\ completed' \in [Tools -> {"absent", "pending", "done"}]
      /\ \A u \in Tools : completed'[u] = "pending" => responses'[u] # NoEntry
  BY <1>2 DEF TypeOK
<1> QED BY <1>7, <1>8, BeginInv

(* Clearing the state of several models. *)
LEMMA ClearedType ==
    ASSUME NEW sel, Cleared(sel)
    PROVE  /\ responses' \in [Tools -> Seq(Lines) \cup {NoEntry}]
           /\ completed' \in [Tools -> {"absent", "pending", "done"}]
           /\ \A t \in Tools : completed'[t] = "pending" => responses'[t] # NoEntry
           /\ \A t \in Tools : t \in sel => responses'[t] = <<>> /\ completed'[t] = "pending"
<1>1. <<>> \in Seq(Lines) /\ <<>> # NoEntry
  <2>1. <<>> \in Seq(Lines)
    OBVIOUS
  <2> QED BY <2>1, TextIsEntry
<1> QED BY <1>1 DEF Cleared

(* Enter with several models. *)
LEMMA SendMultiInv ==
    ASSUME ChatInv, SendMulti
    PROVE  ChatInv'
<1> USE DEF ChatInv
<1>1. selected \in Seq(Tools) /\ Spawned \in Nat
  BY FirstOnes DEF TypeOK
<1>2. PICK new : new = (Spawned + 1)..(Spawned + Len(selected))
  OBVIOUS
<1>3. /\ new \subseteq Execs /\ Remember(Said("user", rounds + 1, <<>>))
      /\ Cleared(Range(selected)) /\ Crossing(new)
      /\ exec' = [e \in Execs |-> IF e \in new THEN Task(selected[e - Spawned], TRUE) ELSE exec[e]]
      /\ UNCHANGED <<ui, current, response, enabled, selected, open, used, single, multi, usage>>
  BY <1>2, Zenon DEF SendMulti
<1>4. ASSUME NEW f \in new
      PROVE  selected[f - Spawned] \in Tools /\ selected[f - Spawned] \in Range(selected)
  <2>1. f - Spawned \in 1..Len(selected)
    BY <1>1, <1>2
  <2> QED BY <1>1, <2>1 DEF Range
<1>5. ASSUME NEW f \in new
      PROVE  /\ Task0(exec'[f], TRUE) /\ exec'[f] \in Execution
             /\ exec'[f].tool = selected[f - Spawned]
  <2>1. PICK t \in Tools : t = selected[f - Spawned]
    BY <1>4
  <2>2. Task0(Task(t, TRUE), TRUE) /\ Task(t, TRUE).tool = t
    BY TaskBegins
  <2>3. exec'[f] = Task(t, TRUE)
    BY <1>3, <2>1
  <2> QED BY <2>1, <2>2, <2>3 DEF Task0
<1>6. exec' \in [Execs -> Execution] /\ \A f \in Execs : f \notin new => exec'[f] = exec[f]
  <2>1. exec \in [Execs -> Execution]
    BY DEF TypeOK
  <2>2. \A f \in Execs : f \notin new => exec'[f] = exec[f]
    BY <1>3
  <2>3. \A f \in Execs : exec'[f] \in Execution
    BY <1>5, <2>1, <2>2
  <2>4. exec' = [f \in Execs |-> exec'[f]]
    BY <1>3
  <2> QED BY <2>2, <2>3, <2>4
<1>7. /\ responses' \in [Tools -> Seq(Lines) \cup {NoEntry}]
      /\ completed' \in [Tools -> {"absent", "pending", "done"}]
      /\ \A t \in Tools : completed'[t] = "pending" => responses'[t] # NoEntry
      /\ \A t \in Tools : t \in Range(selected) => responses'[t] = <<>> /\ completed'[t] = "pending"
  BY <1>3, ClearedType
<1>8. \A f \in new : /\ exec'[f].tool \in Range(selected')
                     /\ responses'[exec'[f].tool] = <<>> /\ completed'[exec'[f].tool] = "pending"
  BY <1>3, <1>4, <1>5, <1>7
<1>9. Begins(new, TRUE)
  <2>1. \E k \in Nat : new = (Spawned + 1)..(Spawned + k)
    <3>1. Len(selected) \in Nat
      BY <1>1
    <3> QED BY <1>2, <3>1
  <2>2. \A f \in Execs : IF f \in new THEN Task0(exec'[f], TRUE) ELSE exec'[f] = exec[f]
    BY <1>5, <1>6
  <2> QED BY <1>3, <1>6, <1>8, <2>1, <2>2, Zenon DEF Begins
<1>10. response' \in Seq(Execs)
  BY <1>3 DEF TypeOK
<1> QED BY <1>7, <1>9, <1>10, BeginInv

(* Another chat or another selection crosses what runs, and that is all. *)
LEMMA LeaveInv ==
    ASSUME ChatInv, TypeOK', UNCHANGED <<log, tools, rounds, told>>, used \subseteq used',
           crossed' = crossed \cup Running
    PROVE  ChatInv'
<1> USE DEF ChatInv
<1>1. UNCHANGED <<log, exec, single, multi, available, rounds, told>>
  BY DEF tools, usage
<1>2. Running' = Running
  BY <1>1 DEF Running, Active
<1>3. Running' \ crossed' = {} /\ crossed \subseteq crossed'
  BY <1>2
<1>4. Slots'
  <2>1. \A e \in Execs : At(e, "free") => e \notin Running
    BY Begun
  <2> QED BY <1>1, <2>1 DEF Slots, At
<1>5. Together'
  <2>1. \A e, f \in Execs : Mates(e, f) /\ e \in Running => f \in Running
    BY DEF Mates, Running
  <2> QED BY <1>1, <2>1 DEF Together, Mates, At
<1>6. Stages' /\ Channels' /\ Settled' /\ Loud'
  BY <1>1 DEF Stages, Channels, Carried, LastWord, Final, Settled, LinesIn, Loud, At, Spoken
<1>7. Undisturbed' /\ Collected' /\ CollectedEach'
  BY <1>3 DEF Undisturbed, Collected, CollectedEach
<1>8. Saved' /\ Once'
  <2>1. rounds' \in Nat /\ rounds <= rounds' /\ \A f \in Execs : exec'[f] = exec[f]
    BY <1>1 DEF TypeOK
  <2> QED BY <1>1, <1>3, <2>1, SavedSame
<1>9. AnswerAtHome'
  BY <1>1, <1>3 DEF AnswerAtHome, Answers
<1>10. Picked' /\ NextIsAvailable'
  BY <1>1, <1>3 DEF Picked, NextIsAvailable, Usable
<1>11. Resumable'
  BY <1>1 DEF Resumable
<1> QED BY <1>4, <1>5, <1>6, <1>7, <1>8, <1>9, <1>10, <1>11

(* All but the shape of the state is about what these variables hold. *)
LEMMA Unmoved ==
    ASSUME ChatInv,
           UNCHANGED <<response, selected, responses, completed, open, log,
                       exec, single, multi, available, rounds, crossed, told>>
    PROVE  /\ Slots' /\ Together' /\ Stages' /\ Channels' /\ Settled' /\ Loud'
           /\ Undisturbed' /\ Collected' /\ CollectedEach'
           /\ Saved' /\ Once' /\ AnswerAtHome' /\ Picked' /\ NextIsAvailable'
<1> USE DEF ChatInv
<1>1. Slots' /\ Together' /\ Stages' /\ Channels'
  BY DEF Slots, At, Together, Mates, Stages, Channels, Carried, LastWord, Final
<1>2. Settled' /\ Loud'
  BY DEF Settled, LinesIn, Loud, Spoken, At
<1>3. Running' = Running /\ \A f : Active(f)' = Active(f)
  BY DEF Running, Active
<1>4. Undisturbed'
  BY <1>3 DEF Undisturbed
<1>5. Collected'
  BY <1>3 DEF Collected, TextOf, LinesIn
<1>6. CollectedEach'
  <2>1. \A f \in Execs : CollectedFor(f)' = CollectedFor(f)
    BY DEF CollectedFor, TextOf, AsWritten, LinesIn, Range
  <2>2. \A f \in Execs : NamedTwice(exec[f].round)' = NamedTwice(exec[f].round)
    BY DEF NamedTwice
  <2>3. Running \subseteq Execs
    BY DEF Running
  <2> QED BY <1>3, <2>1, <2>2, <2>3 DEF CollectedEach
<1>7. Saved' /\ Once'
  <2>1. rounds' \in Nat /\ rounds <= rounds'
    BY DEF TypeOK
  <2> QED BY <2>1, SavedSame
<1>8. AnswerAtHome'
  BY DEF AnswerAtHome, Answers
<1>9. Picked' /\ NextIsAvailable'
  BY DEF Picked, NextIsAvailable, Usable
<1> QED BY <1>1, <1>2, <1>4, <1>5, <1>6, <1>7, <1>8, <1>9

(* The other keys. *)
LEMMA OtherKeys ==
    ASSUME ChatInv,
           \/ \E t \in Tools : SwitchTool(t)
           \/ \E s \in Sessions : NewChat(s) \/ ResumeSession(s)
           \/ \E n \in 2..MaxNames : \E sel \in [1..n -> Tools] : EnableMulti(sel)
           \/ DisableMulti
    PROVE  ChatInv'
<1> USE DEF ChatInv
<1>1. ASSUME NEW t \in Tools, SwitchTool(t) PROVE ChatInv'
  <2>1. /\ current' \in Tools
        /\ UNCHANGED <<ui, response, enabled, selected, responses, completed, open, used, log,
                       exec, single, multi, available, hits, rounds, crossed, told>>
    BY <1>1, ChatAssumption DEF SwitchTool, tools, usage, ghosts
  <2>2. TypeOK'
    BY <2>1 DEF TypeOK
  <2>6. Resumable'
    BY <2>1 DEF Resumable
  <2>3. Slots' /\ Together' /\ Stages' /\ Channels' /\ Settled' /\ Loud'
    BY <2>1, Unmoved
  <2>4. /\ Undisturbed' /\ Collected' /\ CollectedEach'
        /\ Saved' /\ Once' /\ AnswerAtHome' /\ Picked' /\ NextIsAvailable'
    BY <2>1, Unmoved
  <2> QED BY <2>2, <2>3, <2>4, <2>6
<1>2. ASSUME NEW s \in Sessions, NewChat(s) \/ ResumeSession(s) PROVE ChatInv'
  <2>1. /\ crossed' = crossed \cup Running /\ UNCHANGED <<log, tools, rounds, told>>
        /\ UNCHANGED <<ui, response, enabled, selected, responses, completed>>
    BY <1>2 DEF NewChat, ResumeSession, Leave
  <2>2. open' \in used' /\ used \subseteq used' /\ used' \subseteq Sessions
    BY <1>2 DEF NewChat, ResumeSession, TypeOK, Resumable
  <2>3. current' \in Tools \cup {NoTool}
    BY <1>2, ChatAssumption DEF NewChat, ResumeSession, TypeOK
  <2>4. crossed' \subseteq Execs
    BY <2>1 DEF TypeOK, Running
  <2>5. TypeOK'
    BY <2>1, <2>2, <2>3, <2>4 DEF TypeOK, tools, usage
  <2> QED BY <2>1, <2>2, <2>5, LeaveInv
<1>3. ASSUME NEW n \in 2..MaxNames, NEW sel \in [1..n -> Tools], EnableMulti(sel) PROVE ChatInv'
  <2>1. /\ crossed' = crossed \cup Running
        /\ UNCHANGED <<ui, current, response, open, used, log, tools, rounds, told>>
        /\ enabled' = TRUE /\ selected' = sel /\ Cleared(Range(sel))
    BY <1>3 DEF EnableMulti, Leave, history
  <2>2. sel \in Seq(Tools)
    <3>1. n \in Nat
      OBVIOUS
    <3> QED BY <3>1
  <2>3. crossed' \subseteq Execs
    BY <2>1 DEF TypeOK, Running
  <2>4. /\ responses' \in [Tools -> Seq(Lines) \cup {NoEntry}]
        /\ completed' \in [Tools -> {"absent", "pending", "done"}]
        /\ \A t \in Tools : completed'[t] = "pending" => responses'[t] # NoEntry
    BY <2>1, ClearedType
  <2>5. TypeOK'
    BY <2>1, <2>2, <2>3, <2>4 DEF TypeOK, tools, usage
  <2> QED BY <2>1, <2>5, LeaveInv
<1>4. ASSUME DisableMulti PROVE ChatInv'
  <2>1. /\ crossed' = crossed \cup Running
        /\ UNCHANGED <<ui, current, response, open, used, log, tools, rounds, told>>
        /\ enabled' = FALSE /\ selected' = <<>> /\ Cleared({})
    BY <1>4 DEF DisableMulti, Leave, history
  <2>2. crossed' \subseteq Execs
    BY <2>1 DEF TypeOK, Running
  <2>3. /\ responses' \in [Tools -> Seq(Lines) \cup {NoEntry}]
        /\ completed' \in [Tools -> {"absent", "pending", "done"}]
        /\ \A t \in Tools : completed'[t] = "pending" => responses'[t] # NoEntry
    BY <2>1, ClearedType
  <2>4. TypeOK'
    <3>1. <<>> \in Seq(Tools)
      OBVIOUS
    <3>2. selected' \in Seq(Tools)
      BY <2>1, <3>1
    <3>3. enabled' \in BOOLEAN
      BY <2>1
    <3> QED BY <2>1, <2>2, <2>3, <3>2, <3>3 DEF TypeOK, tools, usage
  <2> QED BY <2>1, <2>4, LeaveInv
<1> QED BY <1>1, <1>2, <1>3, <1>4

-----------------------------------------------------------------------------
(* The theorems.                                                           *)

(* Nothing runs at the start. *)
LEMMA ChatInitial ==
    Init => ChatInv
<1> SUFFICES ASSUME Init PROVE ChatInv
  OBVIOUS
<1>1. /\ exec = [e \in Execs |-> Idle] /\ single = <<>> /\ multi = <<>> /\ response = <<>>
      /\ rounds = 0 /\ crossed = {} /\ told = {} /\ log = [s \in Sessions |-> <<>>]
  BY DEF Init
<1>2. \A e \in Execs : exec[e] = Idle
  BY <1>1
<1>3. Idle \in Execution
  BY ChatAssumption DEF Idle, Execution
<1>4. TypeOK
  <2>1. exec \in [Execs -> Execution]
    BY <1>1, <1>3
  <2>2. log \in [Sessions -> Seq(Message)]
    BY <1>1
  <2>3. /\ single \in Seq(Output) /\ Len(single) <= Cap
        /\ multi \in Seq(Output) /\ Len(multi) <= Cap
    <3>1. <<>> \in Seq(Output) /\ Len(<<>>) = 0
      OBVIOUS
    <3>2. Cap \in Nat
      BY ChatAssumption
    <3> QED BY <1>1, <3>1, <3>2
  <2>4. /\ responses \in [Tools -> Seq(Lines) \cup {NoEntry}]
        /\ completed \in [Tools -> {"absent", "pending", "done"}]
        /\ \A t \in Tools : completed[t] # "pending"
        /\ available \in [Tools -> BOOLEAN] /\ hits \in [Tools -> Nat]
    BY DEF Init
  <2>5. /\ ui \in Interfaces /\ current \in Tools \cup {NoTool} /\ response \in Seq(Execs)
        /\ enabled \in BOOLEAN /\ selected \in Seq(Tools) /\ open \in used /\ used \subseteq Sessions
    <3>1. <<>> \in Seq(Execs) /\ <<>> \in Seq(Tools)
      OBVIOUS
    <3>2. selected = <<>> /\ enabled = FALSE /\ ui \in Interfaces /\ current \in Tools \cup {NoTool}
      BY Zenon DEF Init
    <3>3. open \in used /\ used \subseteq Sessions
      BY ChatAssumption DEF Init
    <3> QED BY <1>1, <3>1, <3>2, <3>3
  <2> QED BY <1>1, <2>1, <2>2, <2>3, <2>4, <2>5 DEF TypeOK
<1>5. Slots /\ Together
  BY <1>1, <1>2 DEF Slots, Together, Mates, At, Idle
<1>6. Stages /\ Channels /\ Settled /\ Loud
  BY <1>1, <1>2 DEF Stages, StageOK, Idle, Channels, LastWord, Final, Settled, Loud, At
<1>7. Running = {}
  BY <1>1, <1>2 DEF Running, Active, Idle
<1>8. Undisturbed /\ Collected /\ CollectedEach
  BY <1>7 DEF Undisturbed, Collected, CollectedEach
<1>9. Saved /\ Once /\ AnswerAtHome /\ Picked /\ NextIsAvailable
  BY <1>1, <1>2 DEF Saved, Once, AnswerAtHome, Picked, NextIsAvailable, Idle
<1>10. Resumable
  BY <1>1 DEF Resumable
<1> QED BY <1>4, <1>5, <1>6, <1>8, <1>9, <1>10 DEF ChatInv

(* Every step keeps the invariant. *)
LEMMA ChatStep ==
    ChatInv /\ [Next]_vars => ChatInv'
<1> SUFFICES ASSUME ChatInv, [Next]_vars PROVE ChatInv'
  OBVIOUS
<1>1. CASE Key
  <2>1. CASE \E e \in Execs : SendPrompt(e)
    BY <2>1, SendPromptInv
  <2>2. CASE SendMulti
    BY <2>2, SendMultiInv
  <2>3. CASE \/ \E t \in Tools : SwitchTool(t)
             \/ \E s \in Sessions : NewChat(s) \/ ResumeSession(s)
             \/ \E n \in 2..MaxNames : \E sel \in [1..n -> Tools] : EnableMulti(sel)
             \/ DisableMulti
    BY <2>3, OtherKeys
  <2> QED BY <1>1, <2>1, <2>2, <2>3 DEF Key, TuiKey, PlainLine
<1>2. CASE TakeSingle
  BY <1>2, TakeSingleInv
<1>3. CASE TakeMulti
  BY <1>3, TakeMultiInv
<1>4. CASE \E e \in Execs : Execute(e)
  <2>1. PICK e \in Execs : Execute(e)
    BY <1>4
  <2> QED BY <2>1, StepOfExecute, StepInv DEF ChatInv
<1>5. CASE UNCHANGED vars
  <2>1. UNCHANGED <<ui, current, response, enabled, selected, responses, completed, open, used,
                    log, exec, single, multi, available, hits, rounds, crossed, told>>
    BY <1>5 DEF vars, app, history, tools, usage, ghosts
  <2>2. TypeOK'
    BY <2>1 DEF ChatInv, TypeOK
  <2>6. Resumable'
    BY <2>1 DEF ChatInv, Resumable
  <2>3. Slots' /\ Together' /\ Stages' /\ Channels' /\ Settled' /\ Loud'
    BY <2>1, Unmoved
  <2>4. /\ Undisturbed' /\ Collected' /\ CollectedEach'
        /\ Saved' /\ Once' /\ AnswerAtHome' /\ Picked' /\ NextIsAvailable'
    BY <2>1, Unmoved
  <2> QED BY <2>2, <2>3, <2>4, <2>6 DEF ChatInv
<1> QED BY <1>1, <1>2, <1>3, <1>4, <1>5 DEF Next

(* The invariant holds in every reachable state. *)
THEOREM ChatInvariant ==
    Spec => []ChatInv
<1>1. Init => ChatInv
  BY ChatInitial
<1>2. ChatInv /\ [Next]_vars => ChatInv'
  BY ChatStep
<1> QED BY <1>1, <1>2, PTL DEF Spec

(* The loop's state keeps its shape, its channels within their capacity. *)
THEOREM ChatTypeCorrect ==
    Spec => []TypeOK
<1>1. ChatInv => TypeOK
  BY DEF ChatInv
<1> QED BY <1>1, ChatInvariant, PTL

(* An answer nothing crossed is saved whole where its prompt is. *)
THEOREM AnswersSaved ==
    Spec => []AnswerAtHome
<1>1. ChatInv => AnswerAtHome
  BY DEF ChatInv
<1> QED BY <1>1, ChatInvariant, PTL

(* The tool the loop is told to switch to is usable unless a prompt crossed. *)
THEOREM NextUsable ==
    Spec => []NextIsAvailable
<1>1. ChatInv => NextIsAvailable
  BY DEF ChatInv
<1> QED BY <1>1, ChatInvariant, PTL

(* A combined answer holds, whole, what each of its models wrote and the notice *)
(* of an error it met, and no round is saved twice, for any number of models.  *)
THEOREM CombinedSaved ==
    Spec => []CombinedIsWhole
<1>1. ChatInv => CombinedIsWhole
  BY DEF ChatInv, Saved, Once, Same, WholeFor, CombinedIsWhole
<1> QED BY <1>1, ChatInvariant, PTL

(* No execution ends without a word to the user. *)
THEOREM EndsAreTold ==
    Spec => []NeverSilent
<1>1. ChatInv => NeverSilent
  BY DEF ChatInv, Loud, Spoken, Active, NeverSilent
<1> QED BY <1>1, ChatInvariant, PTL

=============================================================================
