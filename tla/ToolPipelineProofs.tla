------------------------- MODULE ToolPipelineProofs -------------------------
(***************************************************************************)
(* Proofs about ToolPipeline, for any number of prompts, tools and lines   *)
(* and any channel capacity.                                               *)
(*                                                                         *)
(* The first part shows IInv, which is about types, notices and tools.  In *)
(* the second, what was delivered, the two channels and what the monitor   *)
(* holds are read as one sequence, Whole(p): a reading task appends to it, *)
(* the monitor and the relay replace one of its items by an alike one, and *)
(* so its order (OrderInv) and what is counted of it (UsageInv) are kept.  *)
(***************************************************************************)
EXTENDS ToolPipeline, FiniteSetTheorems, TLAPS

(* Until its execute task has found an adapter, nothing happens to a prompt. *)
Blank ==
    \A p \in Prompts : phase[p] \in {"idle", "queued"} =>
        /\ child[p] = "none"
        /\ stdout[p] = <<>> /\ stderr[p] = <<>>
        /\ inner[p] = <<>> /\ hand[p] = NoOutput /\ outer[p] = <<>>
        /\ delivered[p] = <<>>

(* What runs, or has left anything in the inner channel, runs an adapter. *)
HasAdapter ==
    \A p \in Prompts :
        child[p] # "none" \/ inner[p] # <<>> \/ stdout[p] # <<>> \/ stderr[p] # <<>> =>
            asked[p] \in Adapters

(* A rate limit past the monitor was recorded, as its notice was. *)
Marked ==
    \A p \in Prompts :
        /\ hand[p] # NoOutput /\ hand[p].kind = "limit" =>
              asked[p] \in Adapters /\ ~available[asked[p]]
        /\ \A i \in DOMAIN outer[p] : outer[p][i].kind = "limit" =>
              asked[p] \in Adapters /\ ~available[asked[p]]
        /\ \A i \in DOMAIN delivered[p] :
              delivered[p][i].kind \in {"switch", "exhausted"} =>
              asked[p] \in Adapters /\ ~available[asked[p]]

(* A notice names another tool than the one it sends the user away from. *)
Elsewhere ==
    Strategy # "round_robin" =>
        \A p \in Prompts : \A i \in DOMAIN delivered[p] :
            delivered[p][i].kind = "switch" => delivered[p][i].to # asked[p]

IInv == TypeOK /\ Blank /\ HasAdapter /\ Marked /\ Elsewhere /\ NoMutualSwitch

(* Appending to one channel of a family keeps their type, lengthens that one
   by one and leaves the others. *)
LEMMA Enqueue ==
    ASSUME NEW S, NEW f \in [Prompts -> Seq(S)], NEW p \in Prompts, NEW x \in S,
           NEW g, g = [f EXCEPT ![p] = Append(@, x)]
    PROVE  /\ g \in [Prompts -> Seq(S)]
           /\ Len(g[p]) = Len(f[p]) + 1
           /\ \A i \in DOMAIN g[p] :
                 g[p][i] = x \/ (i \in DOMAIN f[p] /\ g[p][i] = f[p][i])
           /\ \A q \in Prompts : q # p => g[q] = f[q]
<1>1. g[p] = Append(f[p], x) /\ \A q \in Prompts : q # p => g[q] = f[q]
  OBVIOUS
<1>2. Append(f[p], x) \in Seq(S) /\ Len(Append(f[p], x)) = Len(f[p]) + 1
  OBVIOUS
<1>3. \A i \in 1..(Len(f[p]) + 1) :
         Append(f[p], x)[i] = IF i <= Len(f[p]) THEN f[p][i] ELSE x
  OBVIOUS
<1>4. /\ DOMAIN f[p] = 1..Len(f[p]) /\ Len(f[p]) \in Nat
      /\ DOMAIN g[p] = 1..(Len(f[p]) + 1)
  BY <1>1, <1>2
<1>5. g \in [Prompts -> Seq(S)]
  BY <1>2
<1>6. ASSUME NEW i \in DOMAIN g[p]
      PROVE  g[p][i] = x \/ (i \in DOMAIN f[p] /\ g[p][i] = f[p][i])
  <2>1. g[p][i] = IF i <= Len(f[p]) THEN f[p][i] ELSE x
    BY <1>1, <1>3, <1>4
  <2> QED BY <1>4, <2>1
<1>7. Len(g[p]) = Len(f[p]) + 1
  BY <1>1, <1>2
<1> QED BY <1>1, <1>5, <1>6, <1>7

(* Taking the head of one channel keeps their type, shortens that one and
   leaves the others. *)
LEMMA Dequeue ==
    ASSUME NEW S, NEW f \in [Prompts -> Seq(S)], NEW p \in Prompts, f[p] # <<>>,
           NEW g, g = [f EXCEPT ![p] = Tail(@)]
    PROVE  /\ g \in [Prompts -> Seq(S)]
           /\ Head(f[p]) \in S
           /\ Len(g[p]) = Len(f[p]) - 1
           /\ \A i \in DOMAIN g[p] : i + 1 \in DOMAIN f[p] /\ g[p][i] = f[p][i + 1]
           /\ \A q \in Prompts : q # p => g[q] = f[q]
<1>1. g[p] = Tail(f[p]) /\ \A q \in Prompts : q # p => g[q] = f[q]
  OBVIOUS
<1>2. Tail(f[p]) \in Seq(S) /\ Head(f[p]) \in S /\ Len(Tail(f[p])) = Len(f[p]) - 1
  OBVIOUS
<1>3. \A i \in 1..(Len(f[p]) - 1) : Tail(f[p])[i] = f[p][i + 1]
  OBVIOUS
<1>4. DOMAIN f[p] = 1..Len(f[p]) /\ DOMAIN g[p] = 1..(Len(f[p]) - 1)
  BY <1>1, <1>2
<1> QED BY <1>1, <1>2, <1>3, <1>4

(* What the relay sends for one output: a notice only for a rate limit, and
   except under round robin a switch only to another, available adapter. *)
LEMMA RelayDelivers ==
    ASSUME IInv, NEW p \in Prompts, Relay(p)
    PROVE  \E m \in Message :
              /\ delivered' = [delivered EXCEPT ![p] = Append(@, m)]
              /\ delivered' \in [Prompts -> Seq(Message)]
              /\ \A q \in Prompts : q # p => delivered'[q] = delivered[q]
              /\ \A i \in DOMAIN delivered'[p] :
                    \/ delivered'[p][i] = m
                    \/ i \in DOMAIN delivered[p] /\ delivered'[p][i] = delivered[p][i]
              /\ m.kind \in {"switch", "exhausted"} => Head(outer[p]).kind = "limit"
              /\ Strategy # "round_robin" /\ m.kind = "switch" =>
                    m.to \in Adapters /\ available[m.to] /\ m.to # asked[p]
<1> USE ToolsAssumption DEF IInv
<1>1. Head(outer[p]) \in Output
  BY Dequeue DEF Relay, TypeOK
<1>4. ASSUME NEW m \in Message, delivered' = [delivered EXCEPT ![p] = Append(@, m)]
      PROVE  /\ delivered' \in [Prompts -> Seq(Message)]
             /\ \A q \in Prompts : q # p => delivered'[q] = delivered[q]
             /\ \A i \in DOMAIN delivered'[p] :
                   \/ delivered'[p][i] = m
                   \/ i \in DOMAIN delivered[p] /\ delivered'[p][i] = delivered[p][i]
  <2>1. delivered \in [Prompts -> Seq(Message)]
    BY DEF TypeOK
  <2> QED BY <1>4, <2>1, Enqueue
<1>2. CASE Head(outer[p]).kind # "limit"
  <2> DEFINE m == [kind |-> Head(outer[p]).kind, line |-> Head(outer[p]).line,
                 to |-> NoTool]
  <2>1. m \in Message /\ m.kind \notin {"switch", "exhausted"}
    BY <1>1, <1>2 DEF Output, Message
  <2>2. delivered' = [delivered EXCEPT ![p] = Append(@, m)]
    BY <1>2 DEF Relay, Deliver
  <2> HIDE DEF m
  <2> QED BY <1>4, <2>1, <2>2
<1>3. CASE Head(outer[p]).kind = "limit"
  <2>1. PICK probed \in SUBSET Adapters, n \in Tools \cup {NoTool} :
             /\ NextTool(asked[p], probed, n)
             /\ Deliver(p, IF n = NoTool THEN "exhausted" ELSE "switch", 0, n)
    BY <1>3 DEF Relay
  <2> DEFINE m == [kind |-> IF n = NoTool THEN "exhausted" ELSE "switch",
                 line |-> 0, to |-> n]
  <2>2. m \in Message
    BY BoundsAssumption DEF Message
  <2>3. delivered' = [delivered EXCEPT ![p] = Append(@, m)]
    BY <2>1 DEF Deliver
  <2>4. ASSUME Strategy # "round_robin", n # NoTool
        PROVE  n \in Adapters /\ available[n] /\ n # asked[p]
    BY <2>1, <2>4 DEF NextTool, FirstOf
  <2>5. /\ m.kind \in {"switch", "exhausted"} => Head(outer[p]).kind = "limit"
        /\ Strategy # "round_robin" /\ m.kind = "switch" =>
              m.to \in Adapters /\ available[m.to] /\ m.to # asked[p]
    BY <1>3, <2>4
  <2> HIDE DEF m
  <2> QED BY <1>4, <2>2, <2>3, <2>5
<1> QED BY <1>2, <1>3

(* A prompt that is submitted is still blank: nothing was sent for it. *)
LEMMA SubmitStep ==
    ASSUME IInv, NEW p \in Prompts, NEW t \in Tools, Submit(p, t)
    PROVE  IInv'
<1> USE ToolsAssumption, BoundsAssumption, OutputAssumption
       DEF IInv, pipes, readers, usage
<1>1. TypeOK'
  BY DEF Submit, TypeOK
<1>2. Blank'
  BY DEF Submit, Blank, TypeOK
<1>3. HasAdapter'
  BY DEF Submit, HasAdapter, TypeOK, Blank
<1>4. Marked'
  <2>1. /\ delivered[p] = <<>> /\ outer[p] = <<>> /\ hand[p] = NoOutput
        /\ UNCHANGED <<delivered, outer, hand, available>>
    BY DEF Submit, Blank
  <2>2. \A q \in Prompts : q # p => asked'[q] = asked[q]
    BY <2>1 DEF Submit, TypeOK
  <2> QED BY <2>1, <2>2 DEF Marked
<1>5. Elsewhere'
  BY SMTT(30) DEF Submit, Elsewhere, TypeOK, Blank
<1>6. NoMutualSwitch'
  <2>1. delivered[p] = <<>> /\ UNCHANGED delivered
    BY DEF Submit, Blank
  <2>2. \A q \in Prompts : q # p => asked'[q] = asked[q]
    BY <2>1 DEF Submit, TypeOK
  <2> QED BY <2>1, <2>2 DEF NoMutualSwitch, Kinds
<1> QED BY <1>1, <1>2, <1>3, <1>4, <1>5, <1>6 DEF IInv

(* A tool without an adapter ends its prompt and touches nothing else. *)
LEMMA RefuseStep ==
    ASSUME IInv, NEW p \in Prompts, Refuse(p)
    PROVE  IInv'
<1> USE ToolsAssumption, BoundsAssumption, OutputAssumption
       DEF IInv, pipes, readers, usage
<1>1. TypeOK'
  BY DEF Refuse, TypeOK
<1>2. Blank'
  BY DEF Refuse, Blank, TypeOK
<1>3. HasAdapter'
  BY DEF Refuse, HasAdapter
<1>4. Marked'
  BY DEF Refuse, Marked
<1>5. Elsewhere'
  BY DEF Refuse, Elsewhere
<1>6. NoMutualSwitch'
  BY DEF Refuse, NoMutualSwitch, Kinds
<1> QED BY <1>1, <1>2, <1>3, <1>4, <1>5, <1>6 DEF IInv

(* Spawning counts the request and starts the child, or ends the prompt. *)
LEMMA LaunchStep ==
    ASSUME IInv, NEW p \in Prompts, Launch(p)
    PROVE  IInv'
<1> USE ToolsAssumption, BoundsAssumption, OutputAssumption
       DEF IInv, pipes, readers, usage
<1>1. TypeOK'
  <2>1. requests' \in [Adapters -> Nat]
    BY SMTT(30) DEF Launch, TypeOK
  <2>2. child' \in [Prompts -> {"none", "running", "ok", "failed"}]
    BY <2>1 DEF Launch, TypeOK
  <2> QED BY <2>1, <2>2 DEF Launch, TypeOK
<1>2. Blank'
  BY DEF Launch, Blank, TypeOK
<1>3. HasAdapter'
  BY DEF Launch, HasAdapter, TypeOK
<1>4. Marked'
  BY DEF Launch, Marked
<1>5. Elsewhere'
  BY DEF Launch, Elsewhere
<1>6. NoMutualSwitch'
  BY DEF Launch, NoMutualSwitch, Kinds
<1> QED BY <1>1, <1>2, <1>3, <1>4, <1>5, <1>6 DEF IInv

(* The adapter's last output fits the inner channel. *)
LEMMA FinishStep ==
    ASSUME IInv, NEW p \in Prompts, Finish(p)
    PROVE  IInv'
<1> USE ToolsAssumption, BoundsAssumption, OutputAssumption
       DEF IInv, pipes, readers, usage
<1>1. TypeOK'
  <2>1. LastOutput(p) \in Output
    BY DEF LastOutput, Event, Output
  <2>2. /\ inner' \in [Prompts -> Seq(Output)]
        /\ \A q \in Prompts : Len(inner'[q]) <= Cap
    BY <2>1, Enqueue DEF Finish, Room, TypeOK
  <2> QED BY <2>1, <2>2 DEF Finish, TypeOK
<1>2. Blank'
  BY DEF Finish, Blank, TypeOK
<1>3. HasAdapter'
  BY DEF Finish, Exited, HasAdapter, TypeOK
<1>4. Marked'
  BY DEF Finish, Marked
<1>5. Elsewhere'
  BY DEF Finish, Elsewhere
<1>6. NoMutualSwitch'
  BY DEF Finish, NoMutualSwitch, Kinds
<1> QED BY <1>1, <1>2, <1>3, <1>4, <1>5, <1>6 DEF IInv

(* A line on the child's stdout stays in its pipe. *)
LEMMA WriteOutStep ==
    ASSUME IInv, NEW p \in Prompts, WriteOut(p)
    PROVE  IInv'
<1> USE ToolsAssumption, BoundsAssumption, OutputAssumption
       DEF IInv, pipes, readers, usage
<1>1. TypeOK'
  <2>1. wrote' \in [Prompts -> 0..MaxOut] /\ wrote'[p] \in 1..MaxOut
    BY DEF WriteOut, TypeOK
  <2>2. stdout' \in [Prompts -> Seq(1..MaxOut)]
    BY <2>1, Enqueue DEF WriteOut, TypeOK
  <2> QED BY <2>1, <2>2 DEF WriteOut, TypeOK
<1>2. Blank'
  BY DEF WriteOut, Blank, TypeOK
<1>3. HasAdapter'
  BY DEF WriteOut, HasAdapter, TypeOK
<1>4. Marked'
  BY DEF WriteOut, Marked
<1>5. Elsewhere'
  BY DEF WriteOut, Elsewhere
<1>6. NoMutualSwitch'
  BY DEF WriteOut, NoMutualSwitch, Kinds
<1> QED BY <1>1, <1>2, <1>3, <1>4, <1>5, <1>6 DEF IInv

(* A line on the child's stderr stays in its pipe. *)
LEMMA WriteErrStep ==
    ASSUME IInv, NEW p \in Prompts, NEW kind \in {"note", "limit"}, WriteErr(p, kind)
    PROVE  IInv'
<1> USE ToolsAssumption, BoundsAssumption, OutputAssumption
       DEF IInv, pipes, readers, usage
<1>1. TypeOK'
  <2>1. noted' \in [Prompts -> 0..MaxErr]
    BY DEF WriteErr, TypeOK
  <2>2. stderr' \in [Prompts -> Seq({"note", "limit"})]
    BY <2>1, Enqueue DEF WriteErr, TypeOK
  <2> QED BY <2>1, <2>2 DEF WriteErr, TypeOK
<1>2. Blank'
  BY DEF WriteErr, Blank, TypeOK
<1>3. HasAdapter'
  BY DEF WriteErr, HasAdapter, TypeOK
<1>4. Marked'
  BY DEF WriteErr, Marked
<1>5. Elsewhere'
  BY DEF WriteErr, Elsewhere
<1>6. NoMutualSwitch'
  BY DEF WriteErr, NoMutualSwitch, Kinds
<1> QED BY <1>1, <1>2, <1>3, <1>4, <1>5, <1>6 DEF IInv

(* The end of the child moves nothing. *)
LEMMA ExitStep ==
    ASSUME IInv, NEW p \in Prompts, NEW status \in {"ok", "failed"}, Exit(p, status)
    PROVE  IInv'
<1> USE ToolsAssumption, BoundsAssumption, OutputAssumption
       DEF IInv, pipes, readers, usage
<1>1. TypeOK'
  BY DEF Exit, TypeOK
<1>2. Blank'
  BY DEF Exit, Blank, TypeOK
<1>3. HasAdapter'
  BY DEF Exit, HasAdapter, TypeOK
<1>4. Marked'
  BY DEF Exit, Marked
<1>5. Elsewhere'
  BY DEF Exit, Elsewhere
<1>6. NoMutualSwitch'
  BY DEF Exit, NoMutualSwitch, Kinds
<1> QED BY <1>1, <1>2, <1>3, <1>4, <1>5, <1>6 DEF IInv

(* A line moves from the stdout pipe to the inner channel. *)
LEMMA ReadOutStep ==
    ASSUME IInv, NEW p \in Prompts, ReadOut(p)
    PROVE  IInv'
<1> USE ToolsAssumption, BoundsAssumption, OutputAssumption
       DEF IInv, pipes, readers, usage
<1>1. TypeOK'
  <2>1. stdout' \in [Prompts -> Seq(1..MaxOut)] /\ Head(stdout[p]) \in 1..MaxOut
    BY Dequeue DEF ReadOut, TypeOK
  <2>2. Line(Head(stdout[p])) \in Output
    BY <2>1 DEF Line, Output
  <2>3. /\ inner' \in [Prompts -> Seq(Output)]
        /\ \A q \in Prompts : Len(inner'[q]) <= Cap
    BY SMTT(30), <2>1, <2>2, Enqueue DEF ReadOut, Room, TypeOK
  <2> QED BY <2>1, <2>2, <2>3 DEF ReadOut, TypeOK
<1>2. Blank'
  BY DEF ReadOut, Blank, TypeOK
<1>3. HasAdapter'
  <2>1. asked[p] \in Adapters
    BY DEF ReadOut, HasAdapter
  <2> QED BY <2>1 DEF ReadOut, HasAdapter, TypeOK
<1>4. Marked'
  BY DEF ReadOut, Marked
<1>5. Elsewhere'
  BY DEF ReadOut, Elsewhere
<1>6. NoMutualSwitch'
  BY DEF ReadOut, NoMutualSwitch, Kinds
<1> QED BY <1>1, <1>2, <1>3, <1>4, <1>5, <1>6 DEF IInv

(* A line moves from the stderr pipe to the inner channel, as a note or a
   rate limit. *)
LEMMA ReadErrStep ==
    ASSUME IInv, NEW p \in Prompts, ReadErr(p)
    PROVE  IInv'
<1> USE ToolsAssumption, BoundsAssumption, OutputAssumption
       DEF IInv, pipes, readers, usage
<1>1. TypeOK'
  <2>1. stderr' \in [Prompts -> Seq({"note", "limit"})]
    BY Dequeue DEF ReadErr, TypeOK
  <2>2. Event("limit") \in Output /\ Event("note") \in Output
    BY <2>1 DEF Event, Output
  <2>3. limited' \in [Prompts -> BOOLEAN]
    BY <2>1, <2>2 DEF ReadErr, TypeOK
  <2>4. PICK o \in Output : inner' = [inner EXCEPT ![p] = Append(@, o)]
    BY <2>1, <2>2, <2>3 DEF ReadErr
  <2>5. /\ inner' \in [Prompts -> Seq(Output)]
        /\ \A q \in Prompts : Len(inner'[q]) <= Cap
    BY <2>1, <2>2, <2>3, <2>4, Enqueue DEF ReadErr, Room, TypeOK
  <2> QED BY <2>1, <2>2, <2>3, <2>4, <2>5 DEF ReadErr, TypeOK
<1>2. Blank'
  BY DEF ReadErr, Blank, TypeOK
<1>3. HasAdapter'
  <2>1. asked[p] \in Adapters
    BY DEF ReadErr, HasAdapter
  <2> QED BY <2>1 DEF ReadErr, HasAdapter, TypeOK
<1>4. Marked'
  BY DEF ReadErr, Marked
<1>5. Elsewhere'
  BY DEF ReadErr, Elsewhere
<1>6. NoMutualSwitch'
  BY DEF ReadErr, NoMutualSwitch, Kinds
<1> QED BY <1>1, <1>2, <1>3, <1>4, <1>5, <1>6 DEF IInv

(* The end of the stdout task moves nothing. *)
LEMMA EndOutStep ==
    ASSUME IInv, NEW p \in Prompts, EndOut(p)
    PROVE  IInv'
<1> USE ToolsAssumption, BoundsAssumption, OutputAssumption
       DEF IInv, pipes, readers, usage
<1>1. TypeOK'
  BY DEF EndOut, TypeOK
<1>2. Blank'
  BY DEF EndOut, Blank, TypeOK
<1>3. HasAdapter'
  BY DEF EndOut, HasAdapter, TypeOK
<1>4. Marked'
  BY DEF EndOut, Marked
<1>5. Elsewhere'
  BY DEF EndOut, Elsewhere
<1>6. NoMutualSwitch'
  BY DEF EndOut, NoMutualSwitch, Kinds
<1> QED BY <1>1, <1>2, <1>3, <1>4, <1>5, <1>6 DEF IInv

(* The end of the stderr task moves nothing. *)
LEMMA EndErrStep ==
    ASSUME IInv, NEW p \in Prompts, EndErr(p)
    PROVE  IInv'
<1> USE ToolsAssumption, BoundsAssumption, OutputAssumption
       DEF IInv, pipes, readers, usage
<1>1. TypeOK'
  BY DEF EndErr, TypeOK
<1>2. Blank'
  BY DEF EndErr, Blank, TypeOK
<1>3. HasAdapter'
  BY DEF EndErr, HasAdapter, TypeOK
<1>4. Marked'
  BY DEF EndErr, Marked
<1>5. Elsewhere'
  BY DEF EndErr, Elsewhere
<1>6. NoMutualSwitch'
  BY DEF EndErr, NoMutualSwitch, Kinds
<1> QED BY <1>1, <1>2, <1>3, <1>4, <1>5, <1>6 DEF IInv

(* The monitor marks the adapter as it takes the rate limit: the step that
   establishes Marked. *)
LEMMA MonitorTakeStep ==
    ASSUME IInv, NEW p \in Prompts, MonitorTake(p)
    PROVE  IInv'
<1> USE ToolsAssumption, BoundsAssumption, OutputAssumption
       DEF IInv, pipes, readers, usage
<1>1. TypeOK'
  <2>1. /\ inner' \in [Prompts -> Seq(Output)] /\ Head(inner[p]) \in Output
        /\ \A q \in Prompts : Len(inner'[q]) <= Cap
    <3>1. /\ inner \in [Prompts -> Seq(Output)]
          /\ \A q \in Prompts : Len(inner[q]) \in Nat /\ Len(inner[q]) <= Cap
      BY DEF TypeOK
    <3>2. inner[p] # <<>> /\ inner' = [inner EXCEPT ![p] = Tail(@)]
      BY DEF MonitorTake
    <3>3. /\ inner' \in [Prompts -> Seq(Output)] /\ Head(inner[p]) \in Output
          /\ Len(inner'[p]) = Len(inner[p]) - 1
          /\ \A q \in Prompts : q # p => inner'[q] = inner[q]
      BY <3>1, <3>2, Dequeue
    <3>4. Len(inner'[p]) <= Cap
      <4> HIDE DEF IInv
      <4> QED BY <3>1, <3>3
    <3>5. ASSUME NEW q \in Prompts, q # p PROVE Len(inner'[q]) <= Cap
      BY <3>1, <3>3, <3>5
    <3> QED BY <3>3, <3>4, <3>5
  <2>2. hand' \in [Prompts -> Output \cup {NoOutput}]
    BY <2>1 DEF MonitorTake, TypeOK
  <2>3. available' \in [Adapters -> BOOLEAN]
    BY <2>1, <2>2 DEF MonitorTake, TypeOK
  <2>4. hits' \in [Adapters -> Nat]
    <3>1. hits \in [Adapters -> Nat]
      BY DEF TypeOK
    <3>2. CASE Head(inner[p]).kind = "limit"
      <4>1. hits' = [hits EXCEPT ![asked[p]] = @ + 1]
        BY <3>2 DEF MonitorTake
      <4>2. asked[p] \in Adapters /\ hits[asked[p]] \in Nat
        BY <3>1 DEF MonitorTake, HasAdapter
      <4> QED BY <3>1, <4>1, <4>2
    <3>3. CASE Head(inner[p]).kind # "limit"
      BY <3>1, <3>3 DEF MonitorTake
    <3> QED BY <3>2, <3>3
  <2>5. errors' \in [Adapters -> Nat]
    <3>1. errors \in [Adapters -> Nat]
      BY DEF TypeOK
    <3>2. CASE Head(inner[p]).kind = "error"
      <4>1. errors' = [errors EXCEPT ![asked[p]] = @ + 1]
        BY <3>2 DEF MonitorTake
      <4>2. asked[p] \in Adapters /\ errors[asked[p]] \in Nat
        BY <3>1 DEF MonitorTake, HasAdapter
      <4> QED BY <3>1, <4>1, <4>2
    <3>3. CASE Head(inner[p]).kind # "error"
      BY <3>1, <3>3 DEF MonitorTake
    <3> QED BY <3>2, <3>3
  <2> QED BY <2>1, <2>2, <2>3, <2>4, <2>5 DEF MonitorTake, TypeOK
<1>2. Blank'
  <2>1. phase[p] \notin {"idle", "queued"}
    BY DEF MonitorTake, Blank
  <2> QED BY <2>1 DEF MonitorTake, Blank, TypeOK
<1>3. HasAdapter'
  <2>1. asked[p] \in Adapters
    BY DEF MonitorTake, HasAdapter
  <2> QED BY <2>1 DEF MonitorTake, HasAdapter, TypeOK
<1>4. Marked'
  <2>1. asked[p] \in Adapters
    BY DEF MonitorTake, HasAdapter
  <2>2. hand' = [hand EXCEPT ![p] = Head(inner[p])]
    BY <2>1 DEF MonitorTake
  <2>3. \A t \in Adapters : ~available[t] => ~available'[t]
    BY <2>1, <2>2 DEF MonitorTake, TypeOK
  <2>4. Head(inner[p]).kind = "limit" => ~available'[asked[p]]
    BY <2>1, <2>2, <2>3 DEF MonitorTake, TypeOK
  <2>5. UNCHANGED <<asked, outer, delivered>>
    BY <2>1, <2>2, <2>3, <2>4 DEF MonitorTake
  <2> QED BY <2>1, <2>2, <2>3, <2>4, <2>5 DEF Marked, TypeOK
<1>5. Elsewhere'
  BY DEF MonitorTake, Elsewhere
<1>6. NoMutualSwitch'
  BY DEF MonitorTake, NoMutualSwitch, Kinds
<1> QED BY <1>1, <1>2, <1>3, <1>4, <1>5, <1>6 DEF IInv

(* What the monitor held enters the outer channel, already marked. *)
LEMMA MonitorForwardStep ==
    ASSUME IInv, NEW p \in Prompts, MonitorForward(p)
    PROVE  IInv'
<1> USE ToolsAssumption, BoundsAssumption, OutputAssumption
       DEF IInv, pipes, readers, usage
<1>1. TypeOK'
  <2>1. hand[p] \in Output
    BY DEF MonitorForward, TypeOK
  <2>2. /\ outer' \in [Prompts -> Seq(Output)]
        /\ \A q \in Prompts : Len(outer'[q]) <= Cap
    BY <2>1, Enqueue DEF MonitorForward, Room, TypeOK
  <2> QED BY <2>1, <2>2 DEF MonitorForward, TypeOK
<1>2. Blank'
  BY DEF MonitorForward, Blank, TypeOK
<1>3. HasAdapter'
  BY DEF MonitorForward, HasAdapter, TypeOK
<1>4. Marked'
  <2>1. hand[p] \in Output
    BY DEF MonitorForward, TypeOK
  <2>2. /\ outer \in [Prompts -> Seq(Output)]
        /\ outer' = [outer EXCEPT ![p] = Append(@, hand[p])]
    BY <2>1 DEF MonitorForward, TypeOK
  <2>3. \A i \in DOMAIN outer'[p] :
           \/ outer'[p][i] = hand[p]
           \/ i \in DOMAIN outer[p] /\ outer'[p][i] = outer[p][i]
    BY <2>1, <2>2, Enqueue
  <2>4. \A q \in Prompts : q # p => outer'[q] = outer[q] /\ hand'[q] = hand[q]
    BY <2>1, <2>2, <2>3 DEF MonitorForward, TypeOK
  <2>5. hand'[p] = NoOutput /\ UNCHANGED <<asked, delivered, available>>
    BY <2>1, <2>2, <2>3, <2>4 DEF MonitorForward, TypeOK
  <2>6. hand[p].kind = "limit" => asked[p] \in Adapters /\ ~available[asked[p]]
    BY <2>1, <2>2, <2>3, <2>4, <2>5 DEF MonitorForward, Marked
  <2> QED BY <2>1, <2>2, <2>3, <2>4, <2>5, <2>6 DEF Marked
<1>5. Elsewhere'
  BY DEF MonitorForward, Elsewhere
<1>6. NoMutualSwitch'
  BY DEF MonitorForward, NoMutualSwitch, Kinds
<1> QED BY <1>1, <1>2, <1>3, <1>4, <1>5, <1>6 DEF IInv

(* The relay's message is about a marked adapter and names an unmarked one,
   so that no two notices are each other's reverse. *)
LEMMA RelayStep ==
    ASSUME IInv, NEW p \in Prompts, Relay(p)
    PROVE  IInv'
<1> USE ToolsAssumption, BoundsAssumption, OutputAssumption
       DEF IInv, pipes, readers, usage
<1>1. TypeOK'
  <2>1. outer' \in [Prompts -> Seq(Output)] /\ \A q \in Prompts : Len(outer'[q]) <= Cap
    BY Dequeue DEF Relay, TypeOK
  <2>2. PICK m \in Message : delivered' = [delivered EXCEPT ![p] = Append(@, m)]
    BY <2>1, RelayDelivers
  <2>3. delivered' \in [Prompts -> Seq(Message)]
    BY <2>1, <2>2, RelayDelivers
  <2> QED BY <2>1, <2>2, <2>3 DEF Relay, TypeOK
<1>2. Blank'
  <2>1. phase[p] \notin {"idle", "queued"}
    BY DEF Relay, Blank
  <2>2. PICK m \in Message : delivered' = [delivered EXCEPT ![p] = Append(@, m)]
    BY <2>1, RelayDelivers
  <2>3. \A q \in Prompts : q # p => delivered'[q] = delivered[q] /\ outer'[q] = outer[q]
    BY <2>1, <2>2 DEF Relay, TypeOK
  <2> QED BY <2>1, <2>2, <2>3 DEF Relay, Blank
<1>3. HasAdapter'
  BY DEF Relay, HasAdapter, TypeOK
<1>4. Marked'
  <2>1. PICK m \in Message :
           /\ m.kind \in {"switch", "exhausted"} => Head(outer[p]).kind = "limit"
           /\ \A i \in DOMAIN delivered'[p] :
                 \/ delivered'[p][i] = m
                 \/ i \in DOMAIN delivered[p] /\ delivered'[p][i] = delivered[p][i]
           /\ \A q \in Prompts : q # p => delivered'[q] = delivered[q]
    BY RelayDelivers
  <2>2. \A i \in DOMAIN outer'[p] :
           i + 1 \in DOMAIN outer[p] /\ outer'[p][i] = outer[p][i + 1]
    BY <2>1, Dequeue DEF Relay, TypeOK
  <2>3. 1 \in DOMAIN outer[p] /\ Head(outer[p]) = outer[p][1]
    BY <2>1, <2>2 DEF Relay, TypeOK
  <2>4. \A q \in Prompts : q # p => outer'[q] = outer[q]
    BY <2>1, <2>2, <2>3 DEF Relay, TypeOK
  <2>5. UNCHANGED <<asked, hand, available>>
    BY <2>1, <2>2, <2>3, <2>4 DEF Relay
  <2> QED BY <2>1, <2>2, <2>3, <2>4, <2>5 DEF Marked
<1>5. Elsewhere'
  <2>1. PICK m \in Message :
           /\ Strategy # "round_robin" /\ m.kind = "switch" => m.to # asked[p]
           /\ \A i \in DOMAIN delivered'[p] :
                 \/ delivered'[p][i] = m
                 \/ i \in DOMAIN delivered[p] /\ delivered'[p][i] = delivered[p][i]
           /\ \A q \in Prompts : q # p => delivered'[q] = delivered[q]
    BY RelayDelivers
  <2>2. UNCHANGED asked
    BY <2>1 DEF Relay
  <2> QED BY <2>1, <2>2 DEF Elsewhere
<1>6. NoMutualSwitch'
  <2>1. PICK m \in Message :
           /\ Strategy # "round_robin" /\ m.kind = "switch" =>
                 m.to \in Adapters /\ available[m.to] /\ m.to # asked[p]
           /\ \A i \in DOMAIN delivered'[p] :
                 \/ delivered'[p][i] = m
                 \/ i \in DOMAIN delivered[p] /\ delivered'[p][i] = delivered[p][i]
           /\ \A q \in Prompts : q # p => delivered'[q] = delivered[q]
    BY RelayDelivers
  <2>2. UNCHANGED <<asked, available>>
    BY <2>1 DEF Relay
  <2> QED BY <2>1, <2>2 DEF NoMutualSwitch, Kinds, Marked, Elsewhere
<1> QED BY <1>1, <1>2, <1>3, <1>4, <1>5, <1>6 DEF IInv

(* A relay that goes on, or stays, at the channel of its connection moves
   nothing else. *)
LEMMA WaitStep ==
    ASSUME IInv, NEW p \in Prompts, HandOn(p) \/ Wedge(p)
    PROVE  IInv'
<1>1. /\ UNCHANGED <<asked, phase, pipes, readers, inner, hand, outer, delivered, usage>>
      /\ relay' \in [Prompts -> {"free", "waiting", "stuck"}]
  BY DEF HandOn, Wedge, IInv, TypeOK
<1>2. TypeOK'
  BY <1>1 DEF IInv, pipes, readers, usage, TypeOK
<1>3. Blank' /\ HasAdapter' /\ Marked'
  BY <1>1 DEF IInv, pipes, usage, Blank, HasAdapter, Marked
<1>4. Elsewhere' /\ NoMutualSwitch'
  BY <1>1 DEF IInv, usage, Elsewhere, NoMutualSwitch, Kinds
<1> QED BY <1>2, <1>3, <1>4 DEF IInv

(* Every step keeps the invariant. *)
LEMMA NextStep ==
    ASSUME IInv, [Next]_vars
    PROVE  IInv'
<1>1. ASSUME NEW p \in Prompts, Child(p) PROVE IInv'
  BY <1>1, WriteOutStep, WriteErrStep, ExitStep DEF Child
<1>2. ASSUME NEW p \in Prompts, Tasks(p) PROVE IInv'
  BY <1>2, RefuseStep, LaunchStep, FinishStep, ReadOutStep, ReadErrStep, EndOutStep,
     EndErrStep, MonitorTakeStep, MonitorForwardStep, RelayStep, WaitStep DEF Tasks
<1>3. CASE Next
  BY <1>1, <1>2, <1>3, SubmitStep, WaitStep DEF Next
<1>4. CASE UNCHANGED vars
  BY <1>4 DEF IInv, vars, pipes, readers, usage, TypeOK, Blank, HasAdapter, Marked,
              Elsewhere, NoMutualSwitch, Kinds
<1> QED BY <1>3, <1>4

(* The strengthened invariant holds in every reachable state. *)
THEOREM Invariance == Spec => []IInv
<1>1. Init => IInv
  BY ToolsAssumption, BoundsAssumption
  DEF Init, IInv, TypeOK, Blank, HasAdapter, Marked, Elsewhere, NoMutualSwitch, Kinds
<1>2. IInv /\ [Next]_vars => IInv'
  BY NextStep
<1> QED BY <1>1, <1>2, PTL DEF Spec

(* Each variable keeps its type and no channel outgrows its capacity. *)
THEOREM TypeCorrect == Spec => []TypeOK
<1>1. IInv => TypeOK
  BY DEF IInv
<1> QED BY <1>1, Invariance, PTL

(* The monitor's mark precedes the notice the client sees, whatever the prompts
   running at the same time do. *)
THEOREM NoticeAfterMark == Spec => []MarkedBeforeNotice
<1>1. IInv => MarkedBeforeNotice
  BY DEF IInv, Marked, MarkedBeforeNotice, Kinds
<1> QED BY <1>1, Invariance, PTL

(* Under on_limit and priority no two users are told to swap tools. *)
THEOREM NoSwap == Spec => []NoMutualSwitch
<1>1. IInv => NoMutualSwitch
  BY DEF IInv
<1> QED BY <1>1, Invariance, PTL

(* An adapter that was rate limited stays so until the server restarts. *)
THEOREM NeverRecovers == Spec => UsageMonotone
<1> USE DEF pipes, readers, usage
<1>1. ASSUME IInv, NEW p \in Prompts, MonitorTake(p) PROVE FiguresGrow
  <2>1. /\ available' \in {available, [available EXCEPT ![asked[p]] = FALSE]}
        /\ hits' \in {hits, [hits EXCEPT ![asked[p]] = @ + 1]}
        /\ errors' \in {errors, [errors EXCEPT ![asked[p]] = @ + 1]}
        /\ requests' = requests
    BY <1>1 DEF MonitorTake
  <2>2. /\ available \in [Adapters -> BOOLEAN]
        /\ hits \in [Adapters -> Nat] /\ errors \in [Adapters -> Nat]
        /\ requests \in [Adapters -> Nat]
    BY <1>1 DEF IInv, TypeOK
  <2>3. SUFFICES ASSUME NEW t \in Adapters
                 PROVE  /\ available'[t] => available[t]
                        /\ hits'[t] >= hits[t] /\ errors'[t] >= errors[t]
                        /\ requests'[t] >= requests[t]
    BY DEF FiguresGrow
  <2>4. available'[t] => available[t]
    BY <2>1, <2>2
  <2>5. hits'[t] >= hits[t]
    BY <2>1, <2>2
  <2>6. errors'[t] >= errors[t]
    BY <2>1, <2>2
  <2>7. requests'[t] >= requests[t]
    BY <2>1, <2>2
  <2> QED BY <2>4, <2>5, <2>6, <2>7
<1>2. ASSUME IInv, NEW p \in Prompts, Launch(p) PROVE FiguresGrow
  BY <1>2 DEF Launch, FiguresGrow, IInv, TypeOK
<1>3. ASSUME IInv, UNCHANGED usage PROVE FiguresGrow
  BY <1>3 DEF FiguresGrow, IInv, TypeOK
<1>4. ASSUME Next
      PROVE  UNCHANGED usage \/ \E p \in Prompts : MonitorTake(p) \/ Launch(p)
  BY <1>4 DEF Next, Child, Tasks, Submit, Refuse, Finish, WriteOut, WriteErr, Exit,
              ReadOut, ReadErr, EndOut, EndErr, MonitorForward, Relay, HandOn, Wedge
<1>5. IInv /\ [Next]_vars => [FiguresGrow]_vars
  BY <1>1, <1>2, <1>3, <1>4
<1> QED BY <1>5, Invariance, PTL DEF Spec, UsageMonotone

-----------------------------------------------------------------------------
(* The way of an output from the child's pipe to the client, as one sequence *)
(* of what was delivered, of the two channels and of what the monitor holds. *)

Item == Message \cup Output
Way == Seq(Item)
Final == {"done", "error"}
Limits == {"limit", "switch", "exhausted"}
Whole(p) == Taken(p) \o inner[p]

\* The lines on the way are those read, in order and without a gap.
InOrder(w, n) ==
    /\ \A i, j \in DOMAIN w : i < j /\ w[i].kind = "out" /\ w[j].kind = "out" => w[i].line < w[j].line
    /\ \A i \in DOMAIN w : w[i].kind = "out" => w[i].line \in 1..n
    /\ \A k \in 1..n : \E i \in DOMAIN w : w[i].kind = "out" /\ w[i].line = k

\* No line follows an end.
EndLast(w) == \A i, j \in DOMAIN w : w[i].kind \in Final /\ w[j].kind = "out" => j < i

Orderly(w, pipe, n, eof) ==
    /\ Len(pipe) <= n
    /\ \A i \in DOMAIN pipe : pipe[i] = (n - Len(pipe)) + i
    /\ InOrder(w, n - Len(pipe))
    /\ EndLast(w)
    /\ (\E i \in DOMAIN w : w[i].kind \in Final) => eof

OrderInv == \A p \in Prompts : Orderly(Whole(p), stdout[p], wrote[p], outEof[p])

\* The reports of all prompts, as a function of what the monitors have taken.
TakenOf == [p \in Prompts |-> Taken(p)]
Reported(tk, ak, t, K) ==
    UNION {{p} \X {i \in DOMAIN tk[p] : tk[p][i].kind \in K} : p \in {q \in Prompts : ak[q] = t}}
Tally(tk, ak, f, K) ==
    \A t \in Adapters : /\ IsFiniteSet(Reported(tk, ak, t, K))
                        /\ f[t] = Cardinality(Reported(tk, ak, t, K))
UsageInv ==
    /\ Tally(TakenOf, asked, hits, Limits)
    /\ Tally(TakenOf, asked, errors, {"error"})

\* An output and the message the relay makes of it.
SameItem(x, y) ==
    /\ (x.kind = "out") = (y.kind = "out")
    /\ x.kind = "out" => x.line = y.line
    /\ (x.kind \in Final) = (y.kind \in Final)
    /\ (x.kind \in Limits) = (y.kind \in Limits)
    /\ (x.kind = "error") = (y.kind = "error")
Alike(s, t) == Len(s) = Len(t) /\ \A i \in 1..Len(s) : SameItem(s[i], t[i])

-----------------------------------------------------------------------------
(* Sequences.                                                              *)

LEMMA WiderSeq == ASSUME NEW S, NEW T, S \subseteq T, NEW s \in Seq(S) PROVE s \in Seq(T)
OBVIOUS

LEMMA SameSeq ==
    ASSUME NEW S, NEW p \in Seq(S), NEW q \in Seq(S), Len(p) = Len(q),
           \A i \in 1..Len(q) : p[i] = q[i]
    PROVE  p = q
OBVIOUS

LEMMA JoinedSeq ==
    ASSUME NEW S, NEW a \in Seq(S), NEW b \in Seq(S)
    PROVE  /\ a \o b \in Seq(S) /\ Len(a \o b) = Len(a) + Len(b)
           /\ DOMAIN (a \o b) = 1..(Len(a) + Len(b))
           /\ \A i \in 1..(Len(a) + Len(b)) : (a \o b)[i] = IF i <= Len(a) THEN a[i] ELSE b[i - Len(a)]
OBVIOUS

\* s is a, of length A, and behind it b, of length B.
Join(s, a, b, A, B) ==
    /\ s \in Way /\ Len(s) = A + B /\ DOMAIN s = 1..(A + B)
    /\ \A i \in 1..(A + B) : s[i] = IF i <= A THEN a[i] ELSE b[i - A]

LEMMA JoinedAs ==
    ASSUME NEW a, NEW b, NEW A, NEW B, a \in Way, b \in Way, Len(a) = A, Len(b) = B
    PROVE  Join(a \o b, a, b, A, B)
BY JoinedSeq DEF Way, Join

\* What the monitor takes.
LEMMA TakenFirst ==
    ASSUME NEW c \in Way, NEW w \in Way, w # <<>>
    PROVE  (c \o <<Head(w)>>) \o Tail(w) = (c \o <<>>) \o w
<1> DEFINE h == <<Head(w)>>
           t == Tail(w)
           p == (c \o h) \o t
           q == c \o w
           C == Len(c)
           W == Len(w)
<1>1. /\ C \in Nat /\ W \in Nat /\ W >= 1 /\ h \in Way /\ Len(h) = 1 /\ h[1] = w[1]
      /\ t \in Way /\ Len(t) = W - 1 /\ \A i \in 1..(W - 1) : t[i] = w[i + 1]
  BY DEF Way
<1>2. (c \o <<>>) \o w = q
  BY DEF Way
<1> HIDE DEF h, t
<1>3. Join(c \o h, c, h, C, 1)
  BY <1>1, JoinedAs
<1>4. Join(p, c \o h, t, C + 1, W - 1)
  <2>1. c \o h \in Way /\ Len(c \o h) = C + 1 /\ t \in Way /\ Len(t) = W - 1
    BY <1>1, <1>3 DEF Join
  <2> QED BY <2>1, JoinedAs
<1>5. Join(q, c, w, C, W)
  BY JoinedAs
<1> HIDE DEF p, q, C, W
<1>6. p \in Way /\ q \in Way /\ Len(p) = Len(q) /\ Len(q) = C + W
  BY <1>1, <1>4, <1>5 DEF Join
<1>7. ASSUME NEW i \in 1..Len(q) PROVE p[i] = q[i]
  <2>0. i \in Nat /\ i >= 1 /\ i <= C + W
    BY <1>1, <1>6
  <2>1. CASE i <= C
    <3>1. i \in 1..(C + 1) /\ i <= C + 1 /\ i \in 1..((C + 1) + (W - 1)) /\ i \in 1..(C + W)
      BY <1>1, <2>0, <2>1
    <3> QED BY <1>3, <1>4, <1>5, <2>1, <3>1 DEF Join
  <2>2. CASE i = C + 1
    <3>1. i - C = 1 /\ i \in 1..((C + 1) + (W - 1)) /\ i \in 1..(C + W) /\ i <= C + 1 /\ ~(i <= C)
          /\ i \in 1..(C + 1)
      BY <1>1, <2>2
    <3>2. p[i] = h[1]
      BY <1>3, <1>4, <3>1 DEF Join
    <3>3. q[i] = w[1]
      BY <1>5, <3>1 DEF Join
    <3> QED BY <1>1, <3>2, <3>3
  <2>3. CASE i > C + 1
    <3>1. i - (C + 1) \in 1..(W - 1) /\ ~(i <= C + 1) /\ ~(i <= C) /\ (i - (C + 1)) + 1 = i - C
          /\ i \in 1..((C + 1) + (W - 1)) /\ i \in 1..(C + W)
      BY <1>1, <2>0, <2>3
    <3>2. p[i] = t[i - (C + 1)]
      BY <1>4, <3>1 DEF Join
    <3>3. q[i] = w[i - C]
      BY <1>5, <3>1 DEF Join
    <3> QED BY <1>1, <3>1, <3>2, <3>3
  <2> QED BY <1>1, <2>0, <2>1, <2>2, <2>3
<1>8. p = q
  BY <1>6, <1>7, SameSeq DEF Way
<1> QED BY <1>2, <1>8 DEF p, q, h, t

LEMMA AlikeItself == ASSUME NEW s PROVE Alike(s, s)
BY DEF Alike, SameItem

\* What follows is the same.
LEMMA AlikeJoined ==
    ASSUME NEW s \in Way, NEW t \in Way, Alike(s, t), NEW u \in Way
    PROVE  Alike(s \o u, t \o u)
<1> DEFINE p == s \o u
           q == t \o u
           L == Len(s)
           U == Len(u)
<1>1. L \in Nat /\ U \in Nat /\ Len(t) = L /\ \A i \in 1..L : SameItem(s[i], t[i])
  BY DEF Way, Alike
<1>2. Join(p, s, u, L, U)
  BY JoinedAs
<1>3. Join(q, t, u, L, U)
  BY <1>1, JoinedAs
<1> HIDE DEF p, q, L, U
<1>4. ASSUME NEW i \in 1..(L + U) PROVE SameItem(p[i], q[i])
  <2>1. CASE i <= L
    BY <1>1, <1>2, <1>3, <2>1 DEF Join
  <2>2. CASE ~(i <= L)
    <3>1. p[i] = q[i]
      BY <1>2, <1>3, <2>2 DEF Join
    <3> QED BY <3>1 DEF SameItem
  <2> QED BY <2>1, <2>2
<1>5. Alike(p, q)
  BY <1>2, <1>3, <1>4 DEF Join, Alike
<1> QED BY <1>5 DEF p, q

\* What the relay takes from the outer channel and delivers.
LEMMA AlikeRelayed ==
    ASSUME NEW d \in Way, NEW o \in Way, o # <<>>, NEW m \in Item, SameItem(m, Head(o))
    PROVE  Alike(Append(d, m) \o Tail(o), d \o o)
<1> DEFINE t == Tail(o)
           a == Append(d, m)
           p == a \o t
           q == d \o o
           D == Len(d)
           O == Len(o)
<1>1. /\ D \in Nat /\ O \in Nat /\ O >= 1 /\ a \in Way /\ Len(a) = D + 1 /\ a[D + 1] = m
      /\ \A i \in 1..D : a[i] = d[i]
  BY DEF Way
<1>2. t \in Way /\ Len(t) = O - 1 /\ Head(o) = o[1] /\ \A i \in 1..(O - 1) : t[i] = o[i + 1]
  BY DEF Way
<1> HIDE DEF a, t
<1>3. Join(p, a, t, D + 1, O - 1)
  BY <1>1, <1>2, JoinedAs
<1>4. Join(q, d, o, D, O)
  BY JoinedAs
<1> HIDE DEF p, q, D, O
<1>5. Len(p) = Len(q) /\ Len(p) = D + O
  BY <1>1, <1>3, <1>4 DEF Join
<1>6. ASSUME NEW i \in 1..Len(p) PROVE SameItem(p[i], q[i])
  <2>0. i \in Nat /\ i >= 1 /\ i <= D + O
    BY <1>1, <1>5
  <2>1. CASE i <= D
    <3>1. i \in 1..D /\ i <= D + 1 /\ i \in 1..((D + 1) + (O - 1)) /\ i \in 1..(D + O)
      BY <1>1, <2>0, <2>1
    <3>2. p[i] = d[i] /\ q[i] = d[i]
      BY <1>1, <1>3, <1>4, <2>1, <3>1 DEF Join
    <3> QED BY <3>2 DEF SameItem
  <2>2. CASE i = D + 1
    <3>1. i <= D + 1 /\ ~(i <= D) /\ i - D = 1 /\ i \in 1..((D + 1) + (O - 1)) /\ i \in 1..(D + O)
      BY <1>1, <2>0, <2>2
    <3>2. p[i] = a[i]
      BY <1>3, <3>1 DEF Join
    <3>3. q[i] = o[1]
      BY <1>4, <3>1 DEF Join
    <3> QED BY <1>1, <1>2, <2>2, <3>2, <3>3
  <2>3. CASE i > D + 1
    <3>1. ~(i <= D + 1) /\ ~(i <= D) /\ i - (D + 1) \in 1..(O - 1) /\ (i - (D + 1)) + 1 = i - D
          /\ i \in 1..((D + 1) + (O - 1)) /\ i \in 1..(D + O)
      BY <1>1, <2>0, <2>3
    <3>2. p[i] = t[i - (D + 1)]
      BY <1>3, <3>1 DEF Join
    <3>3. q[i] = o[i - D]
      BY <1>4, <3>1 DEF Join
    <3>4. p[i] = q[i]
      BY <1>2, <3>1, <3>2, <3>3
    <3> QED BY <3>4 DEF SameItem
  <2> QED BY <1>1, <2>0, <2>1, <2>2, <2>3
<1>7. Alike(p, q)
  BY <1>5, <1>6 DEF Alike
<1> QED BY <1>7 DEF p, q, a, t

-----------------------------------------------------------------------------
(* What keeps a way orderly.                                               *)

\* The child writes a line.
LEMMA OrderlyWrite ==
    ASSUME NEW w, NEW pipe \in Seq(Nat), NEW n \in Nat, NEW eof, Orderly(w, pipe, n, eof)
    PROVE  Orderly(w, Append(pipe, n + 1), n + 1, eof)
<1> DEFINE a == Append(pipe, n + 1)
<1>1. /\ Len(pipe) \in Nat /\ Len(a) = Len(pipe) + 1 /\ DOMAIN a = 1..(Len(pipe) + 1)
      /\ DOMAIN pipe = 1..Len(pipe)
      /\ \A i \in 1..Len(pipe) : a[i] = pipe[i]
      /\ a[Len(pipe) + 1] = n + 1
  OBVIOUS
<1>2. Len(pipe) <= n /\ \A i \in DOMAIN pipe : pipe[i] = (n - Len(pipe)) + i
  BY DEF Orderly
<1> HIDE DEF a
<1>3. (n + 1) - Len(a) = n - Len(pipe) /\ Len(a) <= n + 1
  BY <1>1, <1>2
<1>4. ASSUME NEW i \in DOMAIN a PROVE a[i] = ((n + 1) - Len(a)) + i
  <2>1. CASE i <= Len(pipe)
    BY <1>1, <1>2, <1>3, <2>1
  <2>2. CASE ~(i <= Len(pipe))
    <3>1. i = Len(pipe) + 1
      BY <1>1, <2>2
    <3> QED BY <1>1, <1>3, <3>1
  <2> QED BY <2>1, <2>2
<1>5. Orderly(w, a, n + 1, eof)
  BY <1>3, <1>4 DEF Orderly
<1> QED BY <1>5 DEF a

\* The reading task passes on the first line of the pipe.
LEMMA OrderlyRead ==
    ASSUME NEW w \in Way, NEW pipe \in Seq(Nat), pipe # <<>>, NEW n \in Nat,
           Orderly(w, pipe, n, FALSE),
           NEW o \in Item, o.kind = "out", o.line = Head(pipe)
    PROVE  Orderly(Append(w, o), Tail(pipe), n, FALSE)
<1> DEFINE t == Tail(pipe)
           a == Append(w, o)
           k == n - Len(pipe)
           L == Len(w)
<1>1. /\ Len(pipe) \in Nat /\ Len(pipe) >= 1 /\ Head(pipe) = pipe[1] /\ 1 \in DOMAIN pipe
      /\ Len(t) = Len(pipe) - 1 /\ DOMAIN t = 1..(Len(pipe) - 1) /\ DOMAIN pipe = 1..Len(pipe)
      /\ \A i \in 1..(Len(pipe) - 1) : t[i] = pipe[i + 1]
  OBVIOUS
<1>2. /\ L \in Nat /\ DOMAIN w = 1..L /\ DOMAIN a = 1..(L + 1)
      /\ a[L + 1] = o /\ \A i \in 1..L : a[i] = w[i]
  BY DEF Way
<1>3. /\ Len(pipe) <= n /\ \A i \in DOMAIN pipe : pipe[i] = k + i
      /\ InOrder(w, k) /\ \A i \in DOMAIN w : w[i].kind \notin Final
  BY DEF Orderly
<1> HIDE DEF t, a
<1>4. k \in Nat /\ n - Len(t) = k + 1 /\ Len(t) <= n /\ o.line = k + 1
  BY <1>1, <1>3
<1> HIDE DEF k
<1>5. ASSUME NEW i \in DOMAIN t PROVE t[i] = (n - Len(t)) + i
  <2>1. t[i] = pipe[i + 1] /\ i + 1 \in DOMAIN pipe /\ i \in Nat
    BY <1>1
  <2>2. pipe[i + 1] = k + (i + 1)
    BY <1>3, <2>1
  <2> QED BY <1>4, <2>1, <2>2
<1> HIDE DEF L
<1>6. \A i \in DOMAIN a : (i \in DOMAIN w /\ a[i] = w[i]) \/ (i = L + 1 /\ a[i] = o)
  <2>1. \A i \in DOMAIN a : i \in DOMAIN w \/ i = L + 1
    BY <1>2
  <2>2. \A i \in DOMAIN w : a[i] = w[i]
    BY <1>2
  <2>3. a[L + 1] = o
    BY <1>2
  <2> QED BY <2>1, <2>2, <2>3
<1>7. InOrder(a, k + 1)
  <2>1. \A i \in DOMAIN w : w[i].kind = "out" => w[i].line \in 1..k
    BY <1>3 DEF InOrder
  <2>2. \A i, j \in DOMAIN a : i < j /\ a[i].kind = "out" /\ a[j].kind = "out" => a[i].line < a[j].line
    <3> SUFFICES ASSUME NEW i \in DOMAIN a, NEW j \in DOMAIN a, i < j, a[i].kind = "out", a[j].kind = "out"
                 PROVE  a[i].line < a[j].line
      OBVIOUS
    <3>1. i \in DOMAIN w /\ a[i] = w[i]
      BY <1>2, <1>6
    <3>2. CASE j \in DOMAIN w /\ a[j] = w[j]
      BY <1>3, <3>1, <3>2 DEF InOrder
    <3>3. CASE a[j] = o
      <4>1. w[i].line \in 1..k
        BY <2>1, <3>1
      <4> QED BY <1>4, <3>1, <3>3, <4>1
    <3> QED BY <1>6, <3>2, <3>3
  <2>3. \A i \in DOMAIN a : a[i].kind = "out" => a[i].line \in 1..(k + 1)
    <3> SUFFICES ASSUME NEW i \in DOMAIN a, a[i].kind = "out" PROVE a[i].line \in 1..(k + 1)
      OBVIOUS
    <3>1. CASE i \in DOMAIN w /\ a[i] = w[i]
      <4>1. a[i].line \in 1..k
        BY <2>1, <3>1
      <4> QED BY <1>4, <4>1
    <3>2. CASE a[i] = o
      BY <1>4, <3>2
    <3> QED BY <1>6, <3>1, <3>2
  <2>4. \A l \in 1..(k + 1) : \E i \in DOMAIN a : a[i].kind = "out" /\ a[i].line = l
    <3> SUFFICES ASSUME NEW l \in 1..(k + 1) PROVE \E i \in DOMAIN a : a[i].kind = "out" /\ a[i].line = l
      OBVIOUS
    <3>1. CASE l = k + 1
      <4>1. L + 1 \in DOMAIN a
        BY <1>2
      <4> QED BY <1>2, <1>4, <3>1, <4>1
    <3>2. CASE l # k + 1
      <4>1. l \in 1..k
        BY <1>4, <3>2
      <4>2. PICK i \in DOMAIN w : w[i].kind = "out" /\ w[i].line = l
        BY <1>3, <4>1 DEF InOrder
      <4>3. i \in DOMAIN a /\ a[i] = w[i]
        BY <1>2
      <4> QED BY <4>2, <4>3
    <3> QED BY <3>1, <3>2
  <2> QED BY <2>2, <2>3, <2>4 DEF InOrder
<1>8. \A i \in DOMAIN a : a[i].kind \notin Final
  BY <1>3, <1>6 DEF Final
<1>9. EndLast(a)
  BY <1>8 DEF EndLast
<1>10. Orderly(a, t, n, FALSE)
  BY <1>4, <1>5, <1>7, <1>8, <1>9 DEF Orderly
<1> QED BY <1>10 DEF a, t

\* Something else follows, an end only behind all lines.
LEMMA OrderlyOther ==
    ASSUME NEW w \in Way, NEW pipe \in Seq(Nat), NEW n \in Nat, NEW eof \in BOOLEAN,
           Orderly(w, pipe, n, eof),
           NEW o \in Item, o.kind # "out", o.kind \in Final => eof
    PROVE  Orderly(Append(w, o), pipe, n, eof)
<1> DEFINE a == Append(w, o)
           L == Len(w)
           k == n - Len(pipe)
<1>1. /\ L \in Nat /\ DOMAIN w = 1..L /\ DOMAIN a = 1..(L + 1)
      /\ a[L + 1] = o /\ \A i \in 1..L : a[i] = w[i]
  BY DEF Way
<1>2. /\ Len(pipe) <= n /\ \A i \in DOMAIN pipe : pipe[i] = k + i
      /\ InOrder(w, k) /\ EndLast(w)
      /\ (\E i \in DOMAIN w : w[i].kind \in Final) => eof
  BY DEF Orderly
<1> HIDE DEF a, k, L
<1>3. \A i \in DOMAIN a : (i \in DOMAIN w /\ a[i] = w[i]) \/ (i = L + 1 /\ a[i] = o)
  <2>1. \A i \in DOMAIN a : i \in DOMAIN w \/ i = L + 1
    BY <1>1
  <2>2. \A i \in DOMAIN w : a[i] = w[i]
    BY <1>1
  <2>3. a[L + 1] = o
    BY <1>1
  <2> QED BY <2>1, <2>2, <2>3
<1>4. \A i \in DOMAIN a : a[i].kind = "out" => i \in DOMAIN w /\ a[i] = w[i]
  BY <1>3
<1>5. \A i \in DOMAIN w : i \in DOMAIN a /\ a[i] = w[i] /\ i < L + 1
  BY <1>1
<1>6. InOrder(a, k)
  <2>1. \A i, j \in DOMAIN a : i < j /\ a[i].kind = "out" /\ a[j].kind = "out" => a[i].line < a[j].line
    BY <1>2, <1>4 DEF InOrder
  <2>2. \A i \in DOMAIN a : a[i].kind = "out" => a[i].line \in 1..k
    BY <1>2, <1>4 DEF InOrder
  <2>3. \A l \in 1..k : \E i \in DOMAIN a : a[i].kind = "out" /\ a[i].line = l
    <3> SUFFICES ASSUME NEW l \in 1..k PROVE \E i \in DOMAIN a : a[i].kind = "out" /\ a[i].line = l
      OBVIOUS
    <3>1. PICK i \in DOMAIN w : w[i].kind = "out" /\ w[i].line = l
      BY <1>2 DEF InOrder
    <3> QED BY <1>5, <3>1
  <2> QED BY <2>1, <2>2, <2>3 DEF InOrder
<1>7. EndLast(a)
  BY <1>2, <1>3, <1>4, <1>5 DEF EndLast
<1>8. (\E i \in DOMAIN a : a[i].kind \in Final) => eof
  BY <1>2, <1>3
<1>9. Orderly(a, pipe, n, eof)
  BY <1>2, <1>6, <1>7, <1>8 DEF Orderly, k
<1> QED BY <1>9 DEF a

\* The same lines and ends at the same places.
LEMMA OrderlyAlike ==
    ASSUME NEW w \in Way, NEW v \in Way, NEW pipe, NEW n, NEW eof, Orderly(w, pipe, n, eof), Alike(v, w)
    PROVE  Orderly(v, pipe, n, eof)
<1> DEFINE k == n - Len(pipe)
<1>1. DOMAIN v = DOMAIN w /\ \A i \in DOMAIN w : SameItem(v[i], w[i])
  BY DEF Alike, Way
<1>2. /\ InOrder(w, k) /\ EndLast(w)
      /\ (\E i \in DOMAIN w : w[i].kind \in Final) => eof
  BY DEF Orderly
<1>3. \A i \in DOMAIN w : /\ v[i].kind = "out" <=> w[i].kind = "out"
                          /\ w[i].kind = "out" => v[i].line = w[i].line
                          /\ v[i].kind \in Final <=> w[i].kind \in Final
  BY <1>1 DEF SameItem
<1> HIDE DEF k
<1>4. InOrder(v, k)
  BY <1>1, <1>2, <1>3 DEF InOrder
<1>5. EndLast(v)
  BY <1>1, <1>2, <1>3 DEF EndLast
<1> QED BY <1>1, <1>2, <1>3, <1>4, <1>5 DEF Orderly, k

-----------------------------------------------------------------------------
(* The way in the states of the pipeline.                                  *)

LEMMA WayTypes ==
    ASSUME TypeOK, NEW p \in Prompts
    PROVE  /\ delivered[p] \in Way /\ outer[p] \in Way /\ Held(p) \in Way /\ inner[p] \in Way
           /\ delivered[p] \o outer[p] \in Way
           /\ Taken(p) = (delivered[p] \o outer[p]) \o Held(p) /\ Taken(p) \in Way
           /\ Whole(p) = Taken(p) \o inner[p] /\ Whole(p) \in Way
           /\ stdout[p] \in Seq(Nat) /\ wrote[p] \in Nat /\ outEof[p] \in BOOLEAN
<1>1. delivered[p] \in Seq(Message) /\ outer[p] \in Seq(Output) /\ inner[p] \in Seq(Output)
      /\ hand[p] \in Output \cup {NoOutput} /\ stdout[p] \in Seq(1..MaxOut)
      /\ wrote[p] \in Nat /\ outEof[p] \in BOOLEAN
  BY BoundsAssumption DEF TypeOK
<1>2. Message \subseteq Item /\ Output \subseteq Item /\ 1..MaxOut \subseteq Nat
  BY BoundsAssumption DEF Item
<1>3. delivered[p] \in Way /\ outer[p] \in Way /\ inner[p] \in Way /\ stdout[p] \in Seq(Nat)
  BY <1>1, <1>2, WiderSeq DEF Way
<1>4. Held(p) \in Way
  BY <1>1, <1>2 DEF Held, Way
<1>5. delivered[p] \o outer[p] \in Way
  BY <1>3 DEF Way
<1>6. Taken(p) = (delivered[p] \o outer[p]) \o Held(p)
  BY DEF Taken
<1>7. Taken(p) \in Way
  BY <1>4, <1>5, <1>6 DEF Way
<1>8. Taken(p) \o inner[p] \in Way
  BY <1>3, <1>7 DEF Way
<1> QED BY <1>1, <1>3, <1>4, <1>5, <1>6, <1>7, <1>8 DEF Whole

LEMMA Still ==
    ASSUME NEW p, delivered'[p] = delivered[p], outer'[p] = outer[p], hand'[p] = hand[p]
    PROVE  Taken(p)' = Taken(p)
BY DEF Taken, Held

\* The relay delivers one message for the output it takes.
LEMMA RelayedAlike ==
    ASSUME IInv, NEW p \in Prompts, Relay(p)
    PROVE  /\ Alike(Taken(p)', Taken(p)) /\ Taken(p)' \in Way
           /\ \A q \in Prompts : q # p => Taken(q)' = Taken(q)
<1> DEFINE d == delivered[p]
           o == outer[p]
           x == Head(o)
<1>1. TypeOK
  BY DEF IInv
<1>2. d \in Way /\ o \in Way /\ Held(p) \in Way /\ Taken(p) = (d \o o) \o Held(p) /\ d \o o \in Way
  BY <1>1, WayTypes
<1>3. o # <<>> /\ outer' = [outer EXCEPT ![p] = Tail(o)] /\ UNCHANGED hand
  BY DEF Relay
<1>4. x \in Output
  BY <1>1, <1>3, Dequeue DEF TypeOK
<1>5. \E m \in Message : SameItem(m, x) /\ delivered' = [delivered EXCEPT ![p] = Append(d, m)]
  <2>1. CASE x.kind # "limit"
    <3> DEFINE m == [kind |-> x.kind, line |-> x.line, to |-> NoTool]
    <3>1. m \in Message
      BY <1>4, <2>1 DEF Output, Message
    <3>2. delivered' = [delivered EXCEPT ![p] = Append(d, m)]
      BY <2>1 DEF Relay, Deliver
    <3>3. SameItem(m, x)
      BY DEF SameItem
    <3> QED BY <3>1, <3>2, <3>3
  <2>2. CASE x.kind = "limit"
    <3>1. PICK probed \in SUBSET Adapters, n \in Tools \cup {NoTool} :
               Deliver(p, IF n = NoTool THEN "exhausted" ELSE "switch", 0, n)
      BY <2>2 DEF Relay
    <3> DEFINE m == [kind |-> IF n = NoTool THEN "exhausted" ELSE "switch", line |-> 0, to |-> n]
    <3>2. m \in Message
      BY BoundsAssumption DEF Message
    <3>3. delivered' = [delivered EXCEPT ![p] = Append(d, m)]
      BY <3>1 DEF Deliver
    <3>4. SameItem(m, x)
      BY <2>2 DEF SameItem, Final, Limits
    <3> QED BY <3>2, <3>3, <3>4
  <2> QED BY <2>1, <2>2
<1>6. PICK m \in Message : SameItem(m, x) /\ delivered' = [delivered EXCEPT ![p] = Append(d, m)]
  BY <1>5
<1>7. m \in Item
  BY DEF Item
<1>8. delivered'[p] = Append(d, m) /\ outer'[p] = Tail(o) /\ hand'[p] = hand[p]
  BY <1>1, <1>3, <1>6 DEF TypeOK
<1>9. Taken(p)' = (Append(d, m) \o Tail(o)) \o Held(p)
  BY <1>8 DEF Taken, Held
<1>10. \A q \in Prompts : q # p => delivered'[q] = delivered[q] /\ outer'[q] = outer[q] /\ hand'[q] = hand[q]
  BY <1>1, <1>3, <1>6 DEF TypeOK
<1>11. \A q \in Prompts : q # p => Taken(q)' = Taken(q)
  BY <1>10 DEF Taken, Held
<1> HIDE DEF d, o, x
<1>12. Append(d, m) \o Tail(o) \in Way
  <2>1. Append(d, m) \in Way /\ Tail(o) \in Way
    BY <1>2, <1>3, <1>7 DEF Way
  <2> QED BY <2>1 DEF Way
<1>13. Alike(Append(d, m) \o Tail(o), d \o o)
  BY <1>2, <1>3, <1>6, <1>7, AlikeRelayed DEF x
<1>14. Alike((Append(d, m) \o Tail(o)) \o Held(p), (d \o o) \o Held(p))
  BY <1>2, <1>12, <1>13, AlikeJoined
<1>15. (Append(d, m) \o Tail(o)) \o Held(p) \in Way
  BY <1>2, <1>12 DEF Way
<1> QED BY <1>2, <1>9, <1>11, <1>14, <1>15

\* The monitor takes the first output of the inner channel.
LEMMA TakenNext ==
    ASSUME IInv, NEW p \in Prompts, MonitorTake(p)
    PROVE  /\ Taken(p)' = Append(Taken(p), Head(inner[p])) /\ Head(inner[p]) \in Output
           /\ Whole(p)' = Whole(p)
           /\ \A q \in Prompts : q # p => Taken(q)' = Taken(q) /\ inner'[q] = inner[q]
<1> DEFINE d == delivered[p]
           o == outer[p]
           n == inner[p]
<1>1. TypeOK
  BY DEF IInv
<1>2. d \o o \in Way /\ n \in Way /\ Taken(p) = (d \o o) \o Held(p) /\ Whole(p) = Taken(p) \o n
      /\ Taken(p) \in Way
  BY <1>1, WayTypes
<1>3. /\ hand[p] = NoOutput /\ n # <<>> /\ hand' = [hand EXCEPT ![p] = Head(n)]
      /\ inner' = [inner EXCEPT ![p] = Tail(n)] /\ UNCHANGED <<outer, delivered>>
  BY DEF MonitorTake
<1>4. Head(n) \in Output /\ Head(n) # NoOutput
  <2>1. Head(n) \in Output
    BY <1>1, <1>3, Dequeue DEF TypeOK
  <2> QED BY <2>1, OutputAssumption
<1>5. hand'[p] = Head(n) /\ inner'[p] = Tail(n) /\ Held(p) = <<>>
  BY <1>1, <1>3 DEF TypeOK, Held
<1>6. Taken(p)' = (d \o o) \o <<Head(n)>>
  BY <1>3, <1>4, <1>5 DEF Taken, Held
<1>7. Whole(p)' = ((d \o o) \o <<Head(n)>>) \o Tail(n)
  BY <1>5, <1>6 DEF Whole
<1>8. \A q \in Prompts : q # p => hand'[q] = hand[q] /\ inner'[q] = inner[q]
  BY <1>1, <1>3 DEF TypeOK
<1>9. ASSUME NEW q \in Prompts, q # p PROVE Taken(q)' = Taken(q)
  <2>1. delivered'[q] = delivered[q] /\ outer'[q] = outer[q] /\ hand'[q] = hand[q]
    BY <1>3, <1>8, <1>9
  <2> QED BY <2>1, Still
<1>10. Head(n) \in Item
  BY <1>4 DEF Item
<1> HIDE DEF n
<1> DEFINE c == d \o o
<1>11. Taken(p) = c \o <<>>
  BY <1>2, <1>5
<1> HIDE DEF c
<1>12. Whole(p)' = Whole(p)
  BY <1>2, <1>3, <1>7, <1>11, TakenFirst DEF c
<1>13. Taken(p)' = Append(Taken(p), Head(n))
  <2>1. c \in Way
    BY <1>2 DEF c
  <2>2. c \o <<>> = c /\ c \o <<Head(n)>> = Append(c, Head(n))
    BY <1>10, <2>1 DEF Way
  <2>3. Taken(p)' = c \o <<Head(n)>>
    BY <1>6 DEF c
  <2> QED BY <1>11, <2>2, <2>3
<1> QED BY <1>4, <1>8, <1>9, <1>12, <1>13 DEF n

\* What it held goes to the relay.
LEMMA TakenForwarded ==
    ASSUME IInv, NEW p \in Prompts, MonitorForward(p)
    PROVE  \A q \in Prompts : Taken(q)' = Taken(q)
<1> DEFINE d == delivered[p]
           o == outer[p]
           h == hand[p]
<1>1. TypeOK
  BY DEF IInv
<1>2. d \in Way /\ o \in Way /\ Taken(p) = (d \o o) \o Held(p)
  BY <1>1, WayTypes
<1>3. h # NoOutput /\ outer' = [outer EXCEPT ![p] = Append(o, h)]
      /\ hand' = [hand EXCEPT ![p] = NoOutput] /\ UNCHANGED delivered
  BY DEF MonitorForward
<1>4. outer'[p] = Append(o, h) /\ hand'[p] = NoOutput /\ Held(p) = <<h>> /\ h \in Item
  BY <1>1, <1>3 DEF TypeOK, Held, Item
<1>5. Taken(p)' = (d \o Append(o, h)) \o <<>>
  BY <1>3, <1>4 DEF Taken, Held
<1>6. \A q \in Prompts : q # p => outer'[q] = outer[q] /\ hand'[q] = hand[q]
  BY <1>1, <1>3 DEF TypeOK
<1>7. ASSUME NEW q \in Prompts, q # p PROVE Taken(q)' = Taken(q)
  <2>1. delivered'[q] = delivered[q] /\ outer'[q] = outer[q] /\ hand'[q] = hand[q]
    BY <1>3, <1>6, <1>7
  <2> QED BY <2>1, Still
<1> HIDE DEF d, o, h
<1>8. (d \o Append(o, h)) \o <<>> = (d \o o) \o <<h>>
  <2>1. d \o Append(o, h) \in Way /\ d \o Append(o, h) = Append(d \o o, h) /\ d \o o \in Way
    BY <1>2, <1>4 DEF Way
  <2>2. (d \o o) \o <<h>> = Append(d \o o, h)
    BY <1>4, <2>1 DEF Way
  <2>3. \A s \in Way : s \o <<>> = s
    BY DEF Way
  <2> QED BY <2>1, <2>2, <2>3
<1> QED BY <1>2, <1>4, <1>5, <1>7, <1>8

-----------------------------------------------------------------------------
(* Output, step by step.                                                   *)

\* A step of one prompt leaves the ways of the others.
LEMMA OneMoves ==
    ASSUME OrderInv, NEW p \in Prompts,
           \A q \in Prompts : q # p => /\ Taken(q)' = Taken(q) /\ inner'[q] = inner[q]
                                       /\ stdout'[q] = stdout[q] /\ wrote'[q] = wrote[q]
                                       /\ outEof'[q] = outEof[q],
           Orderly(Whole(p)', stdout'[p], wrote'[p], outEof'[p])
    PROVE  OrderInv'
<1>1. ASSUME NEW q \in Prompts PROVE Orderly(Whole(q)', stdout'[q], wrote'[q], outEof'[q])
  <2>1. CASE q = p
    BY <2>1
  <2>2. CASE q # p
    <3>1. Whole(q)' = Whole(q)
      BY <2>2 DEF Whole
    <3>2. Orderly(Whole(q), stdout[q], wrote[q], outEof[q])
      BY DEF OrderInv
    <3> QED BY <2>2, <3>1, <3>2
  <2> QED BY <2>1, <2>2
<1> QED BY <1>1 DEF OrderInv

\* An output of the readers or of the adapter goes to the end of the way.
LEMMA WholeNext ==
    ASSUME TypeOK, NEW p \in Prompts, NEW o \in Output,
           inner' = [inner EXCEPT ![p] = Append(@, o)], UNCHANGED <<delivered, outer, hand>>
    PROVE  /\ Whole(p)' = Append(Whole(p), o) /\ o \in Item
           /\ \A q \in Prompts : Taken(q)' = Taken(q) /\ (q # p => inner'[q] = inner[q])
<1>1. inner'[p] = Append(inner[p], o) /\ \A q \in Prompts : q # p => inner'[q] = inner[q]
  BY DEF TypeOK
<1>2. ASSUME NEW q \in Prompts PROVE Taken(q)' = Taken(q)
  BY Still
<1>3. Taken(p) \in Way /\ inner[p] \in Way /\ Whole(p) = Taken(p) \o inner[p]
  BY WayTypes
<1>4. Whole(p)' = Taken(p) \o Append(inner[p], o)
  BY <1>1, <1>2 DEF Whole
<1>5. o \in Item
  BY DEF Item
<1>6. Taken(p) \o Append(inner[p], o) = Append(Taken(p) \o inner[p], o)
  BY <1>3, <1>5 DEF Way
<1> QED BY <1>1, <1>2, <1>3, <1>4, <1>5, <1>6

LEMMA OrderStep ==
    ASSUME IInv, OrderInv, [Next]_vars
    PROVE  OrderInv'
<1> TypeOK
  BY DEF IInv
\* Steps that move nothing.
<1>1. ASSUME UNCHANGED <<delivered, outer, hand, inner, stdout, wrote>>,
             \A q \in Prompts : outEof[q] => outEof'[q]
      PROVE  OrderInv'
  <2>1. ASSUME NEW q \in Prompts PROVE Orderly(Whole(q)', stdout'[q], wrote'[q], outEof'[q])
    <3>1. Taken(q)' = Taken(q)
      BY <1>1, Still
    <3>2. Whole(q)' = Whole(q)
      BY <1>1, <3>1 DEF Whole
    <3>3. Orderly(Whole(q), stdout[q], wrote[q], outEof[q])
      BY DEF OrderInv
    <3>4. Orderly(Whole(q), stdout[q], wrote[q], outEof'[q])
      BY <1>1, <3>3 DEF Orderly
    <3> QED BY <1>1, <3>2, <3>4
  <2> QED BY <2>1 DEF OrderInv
<1>2. CASE UNCHANGED vars
  BY <1>1, <1>2 DEF vars, pipes, readers
<1>3. ASSUME NEW p \in Prompts, NEW t \in Tools, Submit(p, t) PROVE OrderInv'
  BY <1>1, <1>3 DEF Submit, pipes, readers
<1>4. ASSUME NEW p \in Prompts, Refuse(p) \/ Launch(p) PROVE OrderInv'
  BY <1>1, <1>4 DEF Refuse, Launch, pipes, readers
<1>5. ASSUME NEW p \in Prompts, Finish(p) PROVE OrderInv'
  <2>1. LastOutput(p) \in Output /\ LastOutput(p).kind # "out"
    BY BoundsAssumption DEF LastOutput, Event, Output
  <2>2. /\ outEof[p] /\ inner' = [inner EXCEPT ![p] = Append(@, LastOutput(p))]
        /\ UNCHANGED <<delivered, outer, hand, stdout, wrote, outEof>>
    BY <1>5 DEF Finish, pipes, readers
  <2> DEFINE o == LastOutput(p)
  <2> HIDE DEF o
  <2>3. /\ Whole(p)' = Append(Whole(p), o) /\ o \in Item
        /\ \A q \in Prompts : Taken(q)' = Taken(q) /\ (q # p => inner'[q] = inner[q])
    BY <2>1, <2>2, WholeNext DEF o
  <2>4. Orderly(Whole(p), stdout[p], wrote[p], outEof[p])
    BY DEF OrderInv
  <2>5. Whole(p) \in Way /\ stdout[p] \in Seq(Nat) /\ wrote[p] \in Nat /\ outEof[p] \in BOOLEAN
    BY WayTypes
  <2>6. Orderly(Append(Whole(p), o), stdout[p], wrote[p], outEof[p])
    BY <2>1, <2>2, <2>3, <2>4, <2>5, OrderlyOther DEF o
  <2>7. Orderly(Whole(p)', stdout'[p], wrote'[p], outEof'[p])
    BY <2>2, <2>3, <2>6
  <2> QED BY <2>2, <2>3, <2>7, OneMoves
<1>6. ASSUME NEW p \in Prompts, WriteOut(p) PROVE OrderInv'
  <2>1. /\ wrote' = [wrote EXCEPT ![p] = @ + 1] /\ stdout' = [stdout EXCEPT ![p] = Append(@, wrote'[p])]
        /\ UNCHANGED <<delivered, outer, hand, inner, outEof>>
    BY <1>6 DEF WriteOut, readers
  <2>2. ASSUME NEW q \in Prompts PROVE Taken(q)' = Taken(q) /\ Whole(q)' = Whole(q)
    <3>1. Taken(q)' = Taken(q)
      BY <2>1, Still
    <3> QED BY <2>1, <3>1 DEF Whole
  <2>3. /\ wrote'[p] = wrote[p] + 1 /\ stdout'[p] = Append(stdout[p], wrote[p] + 1)
        /\ \A q \in Prompts : q # p => stdout'[q] = stdout[q] /\ wrote'[q] = wrote[q]
    BY <2>1 DEF TypeOK
  <2>4. Orderly(Whole(p), stdout[p], wrote[p], outEof[p])
    BY DEF OrderInv
  <2>5. stdout[p] \in Seq(Nat) /\ wrote[p] \in Nat
    BY WayTypes
  <2>6. Orderly(Whole(p), Append(stdout[p], wrote[p] + 1), wrote[p] + 1, outEof[p])
    BY <2>4, <2>5, OrderlyWrite
  <2>7. Orderly(Whole(p)', stdout'[p], wrote'[p], outEof'[p])
    BY <2>1, <2>2, <2>3, <2>6
  <2> QED BY <2>1, <2>2, <2>3, <2>7, OneMoves
<1>7. ASSUME NEW p \in Prompts, NEW k \in {"note", "limit"}, WriteErr(p, k) PROVE OrderInv'
  BY <1>1, <1>7 DEF WriteErr, readers
<1>8. ASSUME NEW p \in Prompts, NEW s \in {"ok", "failed"}, Exit(p, s) PROVE OrderInv'
  BY <1>1, <1>8 DEF Exit, readers
<1>9. ASSUME NEW p \in Prompts, ReadOut(p) PROVE OrderInv'
  <2> DEFINE o == Line(Head(stdout[p]))
  <2>1. /\ stdout[p] # <<>> /\ ~outEof[p] /\ stdout' = [stdout EXCEPT ![p] = Tail(@)]
        /\ inner' = [inner EXCEPT ![p] = Append(@, o)]
        /\ UNCHANGED <<delivered, outer, hand, wrote, outEof>>
    BY <1>9 DEF ReadOut, readers
  <2>2. o \in Output /\ o.kind = "out" /\ o.line = Head(stdout[p])
    <3>1. Head(stdout[p]) \in 1..MaxOut
      BY <2>1, Dequeue DEF TypeOK
    <3> QED BY <3>1, BoundsAssumption DEF Line, Output
  <2>3. stdout'[p] = Tail(stdout[p]) /\ \A q \in Prompts : q # p => stdout'[q] = stdout[q]
    BY <2>1 DEF TypeOK
  <2> HIDE DEF o
  <2>4. /\ Whole(p)' = Append(Whole(p), o) /\ o \in Item
        /\ \A q \in Prompts : Taken(q)' = Taken(q) /\ (q # p => inner'[q] = inner[q])
    BY <2>1, <2>2, WholeNext
  <2>5. Whole(p) \in Way /\ stdout[p] \in Seq(Nat) /\ wrote[p] \in Nat /\ outEof[p] = FALSE
    BY <2>1, WayTypes
  <2>6. Orderly(Whole(p), stdout[p], wrote[p], FALSE)
    BY <2>5 DEF OrderInv
  <2>7. Orderly(Append(Whole(p), o), Tail(stdout[p]), wrote[p], FALSE)
    BY <2>1, <2>2, <2>4, <2>5, <2>6, OrderlyRead
  <2>8. Orderly(Whole(p)', stdout'[p], wrote'[p], outEof'[p])
    BY <2>1, <2>3, <2>4, <2>5, <2>7
  <2> QED BY <2>1, <2>3, <2>4, <2>8, OneMoves
<1>10. ASSUME NEW p \in Prompts, ReadErr(p) PROVE OrderInv'
  <2>1. PICK o : /\ o \in {Event("limit"), Event("note")}
                 /\ inner' = [inner EXCEPT ![p] = Append(@, o)]
                 /\ UNCHANGED <<delivered, outer, hand, stdout, wrote, outEof>>
    BY <1>10 DEF ReadErr
  <2>2. o \in Output /\ o.kind # "out" /\ o.kind \notin Final
    BY <2>1, BoundsAssumption DEF Event, Output, Final
  <2>3. /\ Whole(p)' = Append(Whole(p), o) /\ o \in Item
        /\ \A q \in Prompts : Taken(q)' = Taken(q) /\ (q # p => inner'[q] = inner[q])
    BY <2>1, <2>2, WholeNext
  <2>4. Orderly(Whole(p), stdout[p], wrote[p], outEof[p])
    BY DEF OrderInv
  <2>5. Whole(p) \in Way /\ stdout[p] \in Seq(Nat) /\ wrote[p] \in Nat /\ outEof[p] \in BOOLEAN
    BY WayTypes
  <2>6. Orderly(Append(Whole(p), o), stdout[p], wrote[p], outEof[p])
    BY <2>2, <2>3, <2>4, <2>5, OrderlyOther
  <2>7. Orderly(Whole(p)', stdout'[p], wrote'[p], outEof'[p])
    BY <2>1, <2>3, <2>6
  <2> QED BY <2>1, <2>3, <2>7, OneMoves
<1>11. ASSUME NEW p \in Prompts, EndOut(p) PROVE OrderInv'
  <2>1. UNCHANGED <<delivered, outer, hand, inner, stdout, wrote>> /\ outEof' = [outEof EXCEPT ![p] = TRUE]
    BY <1>11 DEF EndOut, pipes
  <2>2. \A q \in Prompts : outEof[q] => outEof'[q]
    BY <2>1 DEF TypeOK
  <2> QED BY <1>1, <2>1, <2>2
<1>12. ASSUME NEW p \in Prompts, EndErr(p) PROVE OrderInv'
  BY <1>1, <1>12 DEF EndErr, pipes
<1>13. ASSUME NEW p \in Prompts, MonitorTake(p) PROVE OrderInv'
  <2>1. /\ Whole(p)' = Whole(p)
        /\ \A q \in Prompts : q # p => Taken(q)' = Taken(q) /\ inner'[q] = inner[q]
    BY <1>13, TakenNext
  <2>2. UNCHANGED <<stdout, wrote, outEof>>
    BY <1>13 DEF MonitorTake, pipes, readers
  <2>3. Orderly(Whole(p), stdout[p], wrote[p], outEof[p])
    BY DEF OrderInv
  <2>4. Orderly(Whole(p)', stdout'[p], wrote'[p], outEof'[p])
    BY <2>1, <2>2, <2>3
  <2> QED BY <2>1, <2>2, <2>4, OneMoves
<1>14. ASSUME NEW p \in Prompts, MonitorForward(p) PROVE OrderInv'
  <2>1. \A q \in Prompts : Taken(q)' = Taken(q)
    BY <1>14, TakenForwarded
  <2>2. UNCHANGED <<inner, stdout, wrote, outEof>>
    BY <1>14 DEF MonitorForward, pipes, readers
  <2>3. Whole(p)' = Whole(p)
    BY <2>1, <2>2 DEF Whole
  <2>4. Orderly(Whole(p), stdout[p], wrote[p], outEof[p])
    BY DEF OrderInv
  <2>5. Orderly(Whole(p)', stdout'[p], wrote'[p], outEof'[p])
    BY <2>2, <2>3, <2>4
  <2> QED BY <2>1, <2>2, <2>5, OneMoves
<1>15. ASSUME NEW p \in Prompts, Relay(p) PROVE OrderInv'
  <2>1. /\ Alike(Taken(p)', Taken(p)) /\ Taken(p)' \in Way
        /\ \A q \in Prompts : q # p => Taken(q)' = Taken(q)
    BY <1>15, RelayedAlike
  <2>2. UNCHANGED <<inner, stdout, wrote, outEof>>
    BY <1>15 DEF Relay, pipes, readers
  <2>3. inner[p] \in Way /\ Taken(p) \in Way /\ Whole(p) = Taken(p) \o inner[p] /\ Whole(p) \in Way
    BY WayTypes
  <2>4. Whole(p)' = Taken(p)' \o inner[p]
    BY <2>2 DEF Whole
  <2>5. Whole(p)' \in Way /\ Alike(Whole(p)', Whole(p))
    <3>1. Taken(p)' \o inner[p] \in Way
      BY <2>1, <2>3 DEF Way
    <3>2. Alike(Taken(p)' \o inner[p], Taken(p) \o inner[p])
      BY <2>1, <2>3, AlikeJoined
    <3> QED BY <2>3, <2>4, <3>1, <3>2
  <2>6. Orderly(Whole(p), stdout[p], wrote[p], outEof[p])
    BY DEF OrderInv
  <2>7. Orderly(Whole(p)', stdout[p], wrote[p], outEof[p])
    BY <2>3, <2>5, <2>6, OrderlyAlike
  <2>8. Orderly(Whole(p)', stdout'[p], wrote'[p], outEof'[p])
    BY <2>2, <2>7
  <2> QED BY <2>1, <2>2, <2>8, OneMoves
<1>16. ASSUME NEW p \in Prompts, HandOn(p) \/ Wedge(p) PROVE OrderInv'
  BY <1>1, <1>16 DEF HandOn, Wedge, pipes, readers
<1> QED
  BY <1>2, <1>3, <1>4, <1>5, <1>6, <1>7, <1>8, <1>9, <1>10, <1>11, <1>12, <1>13, <1>14, <1>15,
     <1>16
  DEF Next, Child, Tasks

(* What a tool wrote reaches the client in order and without a gap, and all of *)
(* it that could be read before the end does, whatever the capacity of the     *)
(* channels, the number of prompts and of lines.                               *)
THEOREM OutputArrives == Spec => []OutputComplete
<1>1. Init => OrderInv
  <2> SUFFICES ASSUME Init, NEW p \in Prompts PROVE Orderly(Whole(p), stdout[p], wrote[p], outEof[p])
    BY DEF OrderInv
  <2>1. Whole(p) = <<>> /\ stdout[p] = <<>> /\ wrote[p] = 0
    BY DEF Init, Whole, Taken, Held
  <2> DEFINE e == <<>>
  <2>2. DOMAIN e = {} /\ Len(e) = 0
    OBVIOUS
  <2> HIDE DEF e
  <2>3. Orderly(e, e, 0, outEof[p])
    BY <2>2 DEF Orderly, InOrder, EndLast
  <2> QED BY <2>1, <2>3 DEF e
<1>2. IInv /\ OrderInv /\ [Next]_vars => OrderInv'
  BY OrderStep
<1>3. IInv /\ OrderInv => OutputComplete
  <2> SUFFICES ASSUME TypeOK, OrderInv, NEW p \in Prompts
               PROVE  LET d == delivered[p]
                          out == Kinds(p, {"out"})
                          lines == {d[i].line : i \in out} IN
                      /\ \A i, j \in out : i < j => d[i].line < d[j].line
                      /\ \A n \in lines : 1..n \subseteq lines
                      /\ Kinds(p, {"done", "error"}) # {} => lines = 1..(wrote[p] - Len(stdout[p]))
    BY DEF OutputComplete, IInv
  <2> DEFINE d == delivered[p]
             w == Whole(p)
             out == Kinds(p, {"out"})
             lines == {d[i].line : i \in out}
             n == wrote[p] - Len(stdout[p])
  <2>1. Orderly(w, stdout[p], wrote[p], outEof[p])
    BY DEF OrderInv
  <2>2. InOrder(w, n) /\ EndLast(w)
    BY <2>1 DEF Orderly
  <2>3. DOMAIN d = 1..Len(d) /\ Len(d) \in Nat /\ \A i \in DOMAIN w : i \in Nat /\ i >= 1
    BY WayTypes DEF Way
  <2>4. \A i \in DOMAIN d : i \in DOMAIN w /\ w[i] = d[i]
    <3> DEFINE o == outer[p]
               h == Held(p)
               m == inner[p]
    <3>1. d \in Way /\ o \in Way /\ h \in Way /\ m \in Way /\ d \o o \in Way
          /\ w = Taken(p) \o m /\ Taken(p) = (d \o o) \o h /\ Taken(p) \in Way
      BY WayTypes
    <3> HIDE DEF d, o, h, m, w
    <3>2. \A i \in 1..Len(d) : i \in 1..Len(d \o o) /\ (d \o o)[i] = d[i]
      BY <3>1, JoinedSeq DEF Way
    <3>3. \A i \in 1..Len(d \o o) : i \in 1..Len(Taken(p)) /\ Taken(p)[i] = (d \o o)[i]
      BY <3>1, JoinedSeq DEF Way
    <3>4. \A i \in 1..Len(Taken(p)) : i \in DOMAIN w /\ w[i] = Taken(p)[i]
      BY <3>1, JoinedSeq DEF Way
    <3>5. DOMAIN d = 1..Len(d)
      BY <3>1 DEF Way
    <3> QED BY <3>2, <3>3, <3>4, <3>5
  <2>5. \A i : i \in out <=> i \in DOMAIN d /\ d[i].kind = "out"
    BY DEF Kinds
  <2>6. \A i \in Kinds(p, {"done", "error"}) : i \in DOMAIN d /\ d[i].kind \in Final
    BY DEF Kinds, Final
  <2>0. n \in Int
    <3>1. stdout[p] \in Seq(Nat) /\ wrote[p] \in Nat
      BY WayTypes
    <3>2. Len(stdout[p]) \in Nat
      BY <3>1
    <3> QED BY <3>1, <3>2
  <2> HIDE DEF d, w, out, n
  <2>7. \A i, j \in out : i < j => d[i].line < d[j].line
    BY <2>2, <2>4, <2>5 DEF InOrder
  \* A line on the way before one place of what was delivered was delivered.
  <2>8. ASSUME NEW i \in DOMAIN d, NEW j \in DOMAIN w, j <= i PROVE j \in DOMAIN d /\ w[j] = d[j]
    BY <2>3, <2>4, <2>8
  <2>9. ASSUME NEW l \in lines, NEW k \in 1..l PROVE k \in lines
    <3>1. PICK i \in out : d[i].line = l
      OBVIOUS
    <3>2. i \in DOMAIN d /\ i \in DOMAIN w /\ w[i] = d[i] /\ w[i].kind = "out" /\ w[i].line = l /\ l \in 1..n
      BY <2>2, <2>4, <2>5, <3>1 DEF InOrder
    <3>3. PICK j \in DOMAIN w : w[j].kind = "out" /\ w[j].line = k
      <4>1. k \in 1..n
        BY <2>0, <2>9, <3>2
      <4> QED BY <2>2, <4>1 DEF InOrder
    <3>4. j <= i
      <4>1. CASE i < j
        <5>1. l < k
          BY <2>2, <3>2, <3>3, <4>1 DEF InOrder
        <5> QED BY <2>9, <3>2, <5>1
      <4>2. CASE ~(i < j)
        BY <2>3, <3>2, <4>2
      <4> QED BY <4>1, <4>2
    <3>5. j \in out /\ d[j].line = k
      BY <2>5, <2>8, <3>2, <3>3, <3>4
    <3> QED BY <3>5
  <2>10. ASSUME NEW e \in Kinds(p, {"done", "error"}) PROVE lines = 1..n
    <3>1. e \in DOMAIN d /\ e \in DOMAIN w /\ w[e].kind \in Final
      BY <2>4, <2>6
    <3>2. ASSUME NEW k \in 1..n PROVE k \in lines
      <4>1. PICK j \in DOMAIN w : w[j].kind = "out" /\ w[j].line = k
        BY <2>2 DEF InOrder
      <4>2. j <= e
        <5>1. j < e
          BY <2>2, <3>1, <4>1 DEF EndLast
        <5> QED BY <2>3, <3>1, <4>1, <5>1
      <4>3. j \in out /\ d[j].line = k
        BY <2>5, <2>8, <3>1, <4>1, <4>2
      <4> QED BY <4>3
    <3>3. ASSUME NEW k \in lines PROVE k \in 1..n
      <4>1. PICK i \in out : d[i].line = k
        OBVIOUS
      <4> QED BY <2>2, <2>4, <2>5, <4>1 DEF InOrder
    <3> QED BY <3>2, <3>3
  <2>11. \A k \in lines : 1..k \subseteq lines
    BY <2>9
  <2>12. Kinds(p, {"done", "error"}) # {} => lines = 1..n
    BY <2>10
  <2> HIDE DEF lines
  <2> QED BY <2>7, <2>11, <2>12 DEF d, out, n, lines
<1> QED BY <1>1, <1>2, <1>3, Invariance, PTL DEF Spec

-----------------------------------------------------------------------------
(* Usage, step by step.                                                    *)

\* What is reported for a tool, place by place.
LEMMA ReportedPlace ==
    ASSUME NEW tk, NEW ak, NEW t, NEW K, NEW x
    PROVE  x \in Reported(tk, ak, t, K) <=>
             \E p \in Prompts : /\ ak[p] = t
                                /\ \E i \in DOMAIN tk[p] : tk[p][i].kind \in K /\ x = <<p, i>>
<1>1. ASSUME x \in Reported(tk, ak, t, K)
      PROVE  \E p \in Prompts : /\ ak[p] = t
                                /\ \E i \in DOMAIN tk[p] : tk[p][i].kind \in K /\ x = <<p, i>>
  <2>1. PICK p \in Prompts : ak[p] = t /\ x \in {p} \X {i \in DOMAIN tk[p] : tk[p][i].kind \in K}
    BY <1>1 DEF Reported
  <2> QED BY <2>1
<1>2. ASSUME NEW p \in Prompts, ak[p] = t, NEW i \in DOMAIN tk[p], tk[p][i].kind \in K, x = <<p, i>>
      PROVE  x \in Reported(tk, ak, t, K)
  <2>1. x \in {p} \X {j \in DOMAIN tk[p] : tk[p][j].kind \in K}
    BY <1>2
  <2> QED BY <1>2, <2>1 DEF Reported
<1> QED BY <1>1, <1>2

\* The same reports by other means.
LEMMA ReportedSame ==
    ASSUME NEW tk, NEW ak, NEW tl, NEW al, NEW t, NEW K,
           \A p \in Prompts : \A i : (ak[p] = t /\ i \in DOMAIN tk[p] /\ tk[p][i].kind \in K) <=>
                                     (al[p] = t /\ i \in DOMAIN tl[p] /\ tl[p][i].kind \in K)
    PROVE  Reported(tk, ak, t, K) = Reported(tl, al, t, K)
<1>1. ASSUME NEW x PROVE x \in Reported(tk, ak, t, K) <=> x \in Reported(tl, al, t, K)
  <2>1. x \in Reported(tk, ak, t, K) <=>
          \E p \in Prompts : \E i : ak[p] = t /\ i \in DOMAIN tk[p] /\ tk[p][i].kind \in K /\ x = <<p, i>>
    BY ReportedPlace
  <2>2. x \in Reported(tl, al, t, K) <=>
          \E p \in Prompts : \E i : al[p] = t /\ i \in DOMAIN tl[p] /\ tl[p][i].kind \in K /\ x = <<p, i>>
    BY ReportedPlace
  <2> QED BY <2>1, <2>2
<1> QED BY <1>1

LEMMA TallySame ==
    ASSUME NEW tk, NEW ak, NEW tl, NEW al, NEW K, NEW f, Tally(tk, ak, f, K),
           \A t \in Adapters : \A p \in Prompts : \A i :
               (ak[p] = t /\ i \in DOMAIN tk[p] /\ tk[p][i].kind \in K) <=>
               (al[p] = t /\ i \in DOMAIN tl[p] /\ tl[p][i].kind \in K)
    PROVE  Tally(tl, al, f, K)
<1>1. \A t \in Adapters : Reported(tk, ak, t, K) = Reported(tl, al, t, K)
  BY ReportedSame
<1> QED BY <1>1 DEF Tally

\* An output more, counted when it is a report.
LEMMA TallyNext ==
    ASSUME NEW tk, NEW ak, NEW tl, NEW K, NEW f \in [Adapters -> Nat], NEW g, Tally(tk, ak, f, K),
           NEW p \in Prompts, ak[p] \in Adapters, NEW x, tk[p] \in Way, x \in Item,
           tl[p] = Append(tk[p], x), \A q \in Prompts : q # p => tl[q] = tk[q],
           g = IF x.kind \in K THEN [f EXCEPT ![ak[p]] = @ + 1] ELSE f
    PROVE  Tally(tl, ak, g, K)
<1> DEFINE n == Len(tk[p]) + 1
           e == <<p, n>>
<1>1. /\ DOMAIN tk[p] = 1..Len(tk[p]) /\ DOMAIN tl[p] = 1..n /\ Len(tk[p]) \in Nat
      /\ tl[p][n] = x /\ \A i \in DOMAIN tk[p] : tl[p][i] = tk[p][i]
  BY DEF Way
<1>2. n \notin DOMAIN tk[p] /\ n \in DOMAIN tl[p] /\ \A i \in DOMAIN tl[p] : i \in DOMAIN tk[p] \/ i = n
  BY <1>1
<1> HIDE DEF n
<1>3. SUFFICES ASSUME NEW t \in Adapters
               PROVE  /\ IsFiniteSet(Reported(tl, ak, t, K))
                      /\ g[t] = Cardinality(Reported(tl, ak, t, K))
  BY DEF Tally
<1> DEFINE R == Reported(tk, ak, t, K)
           S == Reported(tl, ak, t, K)
<1>4. IsFiniteSet(R) /\ f[t] = Cardinality(R)
  BY DEF Tally
<1>5. CASE ~(ak[p] = t /\ x.kind \in K)
  <2>1. \A q \in Prompts : \A i : (ak[q] = t /\ i \in DOMAIN tk[q] /\ tk[q][i].kind \in K) <=>
                                  (ak[q] = t /\ i \in DOMAIN tl[q] /\ tl[q][i].kind \in K)
    BY <1>1, <1>2, <1>5
  <2>2. R = S
    BY <2>1, ReportedSame
  <2>3. g[t] = f[t]
    BY <1>5
  <2> QED BY <1>4, <2>2, <2>3
<1>6. CASE ak[p] = t /\ x.kind \in K
  <2>1. e \notin R
    <3>1. SUFFICES ASSUME e \in R PROVE FALSE
      OBVIOUS
    <3>2. PICK q \in Prompts : \E i \in DOMAIN tk[q] : e = <<q, i>>
      BY <3>1, ReportedPlace
    <3> QED BY <1>2, <3>2
  <2>2. ASSUME NEW y PROVE y \in S <=> y \in R \cup {e}
    <3>1. y \in R <=> \E q \in Prompts : \E i : ak[q] = t /\ i \in DOMAIN tk[q] /\ tk[q][i].kind \in K /\ y = <<q, i>>
      BY ReportedPlace
    <3>2. y \in S <=> \E q \in Prompts : \E i : ak[q] = t /\ i \in DOMAIN tl[q] /\ tl[q][i].kind \in K /\ y = <<q, i>>
      BY ReportedPlace
    <3> HIDE DEF R, S
    <3>3. ASSUME y \in S PROVE y \in R \cup {e}
      <4>1. PICK q \in Prompts : \E i : ak[q] = t /\ i \in DOMAIN tl[q] /\ tl[q][i].kind \in K /\ y = <<q, i>>
        BY <3>2, <3>3
      <4>2. PICK i : ak[q] = t /\ i \in DOMAIN tl[q] /\ tl[q][i].kind \in K /\ y = <<q, i>>
        BY <4>1
      <4>3. CASE q # p
        <5>1. tl[q] = tk[q]
          BY <4>3
        <5> QED BY <3>1, <4>2, <5>1
      <4>4. CASE q = p /\ i \in DOMAIN tk[p]
        <5>1. tl[p][i] = tk[p][i]
          BY <1>1, <4>4
        <5> QED BY <3>1, <4>2, <4>4, <5>1
      <4>5. CASE q = p /\ i = n
        BY <4>2, <4>5
      <4> QED BY <1>2, <4>2, <4>3, <4>4, <4>5
    <3>4. ASSUME y \in R PROVE y \in S
      <4>1. PICK q \in Prompts : \E i : ak[q] = t /\ i \in DOMAIN tk[q] /\ tk[q][i].kind \in K /\ y = <<q, i>>
        BY <3>1, <3>4
      <4>2. PICK i : ak[q] = t /\ i \in DOMAIN tk[q] /\ tk[q][i].kind \in K /\ y = <<q, i>>
        BY <4>1
      <4>3. i \in DOMAIN tl[q] /\ tl[q][i] = tk[q][i]
        BY <1>1, <4>2
      <4> QED BY <3>2, <4>2, <4>3
    <3>5. e \in S
      <4>1. Reported(tl, ak, t, K) = S
        BY DEF S
      <4>2. \E q \in Prompts : ak[q] = t /\ \E i \in DOMAIN tl[q] : tl[q][i].kind \in K /\ e = <<q, i>>
        BY <1>1, <1>2, <1>6
      <4>3. e \in Reported(tl, ak, t, K)
        BY <4>2, ReportedPlace
      <4> QED BY <4>1, <4>3
    <3> QED BY <3>3, <3>4, <3>5
  <2>3. S = R \cup {e}
    BY <2>2
  <2>4. IsFiniteSet(S) /\ Cardinality(S) = Cardinality(R) + 1
    <3> HIDE DEF R, S, e
    <3> QED BY <1>4, <2>1, <2>3, FS_AddElement
  <2>5. g[t] = f[t] + 1
    BY <1>6
  <2> QED BY <1>4, <2>4, <2>5
<1> QED BY <1>5, <1>6

\* The reports of a state are those of what its monitors have taken.
LEMMA ReportsReported ==
    ASSUME NEW t, NEW K
    PROVE  Reports(t, K) = Reported(TakenOf, asked, t, K)
<1>1. \A p \in Prompts : TakenOf[p] = Taken(p)
  BY DEF TakenOf
<1>2. ASSUME NEW p \in Prompts
      PROVE  {i \in DOMAIN Taken(p) : Taken(p)[i].kind \in K} = {i \in DOMAIN TakenOf[p] : TakenOf[p][i].kind \in K}
  BY <1>1
<1> QED BY <1>2 DEF Reports, Reported

LEMMA UsageStep ==
    ASSUME IInv, UsageInv, [Next]_vars
    PROVE  UsageInv'
<1> TypeOK
  BY DEF IInv
<1>0. \A p \in Prompts : TakenOf[p] = Taken(p)
  BY DEF TakenOf
\* Steps that take no output and count none.
<1>1. ASSUME UNCHANGED <<delivered, outer, hand, asked, hits, errors>> PROVE UsageInv'
  <2>1. ASSUME NEW p \in Prompts PROVE Taken(p)' = Taken(p)
    BY <1>1, Still
  <2>2. TakenOf' = TakenOf
    BY <2>1 DEF TakenOf
  <2> QED BY <1>1, <2>2 DEF UsageInv
<1>2. CASE UNCHANGED vars
  BY <1>1, <1>2 DEF vars, usage
<1>3. ASSUME NEW p \in Prompts, NEW s \in Tools, Submit(p, s) PROVE UsageInv'
  <2>1. /\ UNCHANGED <<delivered, outer, hand, hits, errors>> /\ phase[p] = "idle"
        /\ asked' = [asked EXCEPT ![p] = s]
    BY <1>3 DEF Submit, usage
  <2>2. ASSUME NEW q \in Prompts PROVE Taken(q)' = Taken(q)
    BY <2>1, Still
  <2>3. TakenOf' = TakenOf
    BY <2>2 DEF TakenOf
  <2>4. TakenOf[p] = <<>>
    <3>1. delivered[p] = <<>> /\ outer[p] = <<>> /\ hand[p] = NoOutput
      BY <2>1 DEF IInv, Blank
    <3>2. Held(p) = <<>>
      BY <3>1 DEF Held
    <3>3. Taken(p) = <<>> \o <<>> \o <<>>
      BY <3>1, <3>2 DEF Taken
    <3>4. <<>> \o <<>> \o <<>> = <<>>
      OBVIOUS
    <3> QED BY <1>0, <3>3, <3>4
  <2>5. DOMAIN TakenOf[p] = {}
    BY <2>4
  <2>6. \A q \in Prompts : q # p => asked'[q] = asked[q]
    BY <2>1 DEF TypeOK
  <2>7. \A t \in Adapters : \A q \in Prompts : \A i : \A K :
           (asked[q] = t /\ i \in DOMAIN TakenOf[q] /\ TakenOf[q][i].kind \in K) <=>
           (asked'[q] = t /\ i \in DOMAIN TakenOf[q] /\ TakenOf[q][i].kind \in K)
    BY <2>5, <2>6
  <2>8. Tally(TakenOf, asked', hits, Limits) /\ Tally(TakenOf, asked', errors, {"error"})
    BY <2>7, TallySame DEF UsageInv
  <2> QED BY <2>1, <2>3, <2>8 DEF UsageInv
<1>4. ASSUME NEW p \in Prompts, Refuse(p) \/ Launch(p) \/ Finish(p) PROVE UsageInv'
  BY <1>1, <1>4 DEF Refuse, Launch, Finish, usage
<1>5. ASSUME NEW p \in Prompts, Child(p) PROVE UsageInv'
  BY <1>1, <1>5 DEF Child, WriteOut, WriteErr, Exit, usage
<1>6. ASSUME NEW p \in Prompts, ReadOut(p) \/ ReadErr(p) \/ EndOut(p) \/ EndErr(p) PROVE UsageInv'
  BY <1>1, <1>6 DEF ReadOut, ReadErr, EndOut, EndErr, usage
<1>7. ASSUME NEW p \in Prompts, MonitorTake(p) PROVE UsageInv'
  <2> DEFINE x == Head(inner[p])
  <2>1. /\ Taken(p)' = Append(Taken(p), x) /\ x \in Output
        /\ \A q \in Prompts : q # p => Taken(q)' = Taken(q)
    BY <1>7, TakenNext
  <2>2. /\ hits' = (IF x.kind = "limit" THEN [hits EXCEPT ![asked[p]] = @ + 1] ELSE hits)
        /\ errors' = (IF x.kind = "error" THEN [errors EXCEPT ![asked[p]] = @ + 1] ELSE errors)
        /\ asked' = asked /\ inner[p] # <<>>
    BY <1>7 DEF MonitorTake
  <2>3. asked[p] \in Adapters
    BY <2>2 DEF IInv, HasAdapter
  <2>4. hits \in [Adapters -> Nat] /\ errors \in [Adapters -> Nat]
    BY DEF TypeOK
  <2>5. x \in Item /\ (x.kind \in Limits <=> x.kind = "limit") /\ (x.kind \in {"error"} <=> x.kind = "error")
    BY <2>1 DEF Output, Item, Limits
  <2> HIDE DEF x
  <2>6. TakenOf'[p] = Append(TakenOf[p], x) /\ TakenOf[p] \in Way
    <3>1. TakenOf'[p] = Taken(p)'
      BY DEF TakenOf
    <3>2. TakenOf[p] = Taken(p) /\ Taken(p) \in Way
      BY <1>0, WayTypes
    <3> QED BY <2>1, <3>1, <3>2
  <2>7. \A q \in Prompts : q # p => TakenOf'[q] = TakenOf[q]
    <3>1. ASSUME NEW q \in Prompts, q # p PROVE TakenOf'[q] = TakenOf[q]
      <4>1. TakenOf'[q] = Taken(q)'
        BY DEF TakenOf
      <4> QED BY <1>0, <2>1, <3>1, <4>1
    <3> QED BY <3>1
  <2>8. hits' = (IF x.kind \in Limits THEN [hits EXCEPT ![asked[p]] = @ + 1] ELSE hits)
    BY <2>2, <2>5
  <2>9. errors' = (IF x.kind \in {"error"} THEN [errors EXCEPT ![asked[p]] = @ + 1] ELSE errors)
    BY <2>2, <2>5
  <2>10. Tally(TakenOf, asked, hits, Limits) /\ Tally(TakenOf, asked, errors, {"error"})
    BY DEF UsageInv
  <2>11. Tally(TakenOf', asked, hits', Limits)
    BY <2>3, <2>4, <2>5, <2>6, <2>7, <2>8, <2>10, TallyNext
  <2>12. Tally(TakenOf', asked, errors', {"error"})
    BY <2>3, <2>4, <2>5, <2>6, <2>7, <2>9, <2>10, TallyNext
  <2> QED BY <2>2, <2>11, <2>12 DEF UsageInv
<1>8. ASSUME NEW p \in Prompts, MonitorForward(p) PROVE UsageInv'
  <2>1. \A q \in Prompts : Taken(q)' = Taken(q)
    BY <1>8, TakenForwarded
  <2>2. TakenOf' = TakenOf
    BY <2>1 DEF TakenOf
  <2>3. UNCHANGED <<asked, hits, errors>>
    BY <1>8 DEF MonitorForward, usage
  <2> QED BY <2>2, <2>3 DEF UsageInv
<1>9. ASSUME NEW p \in Prompts, Relay(p) PROVE UsageInv'
  <2>1. /\ Alike(Taken(p)', Taken(p)) /\ Taken(p)' \in Way
        /\ \A q \in Prompts : q # p => Taken(q)' = Taken(q)
    BY <1>9, RelayedAlike
  <2>2. UNCHANGED <<asked, hits, errors>>
    BY <1>9 DEF Relay, usage
  <2>3. \A q \in Prompts : q # p => TakenOf'[q] = TakenOf[q]
    <3>1. ASSUME NEW q \in Prompts, q # p PROVE TakenOf'[q] = TakenOf[q]
      <4>1. TakenOf'[q] = Taken(q)'
        BY DEF TakenOf
      <4> QED BY <1>0, <2>1, <3>1, <4>1
    <3> QED BY <3>1
  <2>4. TakenOf'[p] = Taken(p)' /\ TakenOf[p] = Taken(p) /\ Taken(p) \in Way
    <3>1. TakenOf'[p] = Taken(p)'
      BY DEF TakenOf
    <3> QED BY <1>0, <3>1, WayTypes
  <2>5. /\ DOMAIN TakenOf'[p] = DOMAIN TakenOf[p]
        /\ \A i \in DOMAIN TakenOf[p] : SameItem(TakenOf'[p][i], TakenOf[p][i])
    <3>1. TakenOf'[p] \in Way /\ TakenOf[p] \in Way /\ Alike(TakenOf'[p], TakenOf[p])
      BY <2>1, <2>4
    <3> QED BY <3>1 DEF Alike, Way
  <2>6. \A i \in DOMAIN TakenOf[p] :
           /\ TakenOf'[p][i].kind \in Limits <=> TakenOf[p][i].kind \in Limits
           /\ TakenOf'[p][i].kind \in {"error"} <=> TakenOf[p][i].kind \in {"error"}
    BY <2>5 DEF SameItem
  <2>7. \A t \in Adapters : \A q \in Prompts : \A i :
           (asked[q] = t /\ i \in DOMAIN TakenOf[q] /\ TakenOf[q][i].kind \in Limits) <=>
           (asked[q] = t /\ i \in DOMAIN TakenOf'[q] /\ TakenOf'[q][i].kind \in Limits)
    BY <2>3, <2>5, <2>6
  <2>8. \A t \in Adapters : \A q \in Prompts : \A i :
           (asked[q] = t /\ i \in DOMAIN TakenOf[q] /\ TakenOf[q][i].kind \in {"error"}) <=>
           (asked[q] = t /\ i \in DOMAIN TakenOf'[q] /\ TakenOf'[q][i].kind \in {"error"})
    BY <2>3, <2>5, <2>6
  <2>9. Tally(TakenOf', asked, hits, Limits) /\ Tally(TakenOf', asked, errors, {"error"})
    BY <2>7, <2>8, TallySame DEF UsageInv
  <2> QED BY <2>2, <2>9 DEF UsageInv
<1>10. ASSUME NEW p \in Prompts, HandOn(p) \/ Wedge(p) PROVE UsageInv'
  BY <1>1, <1>10 DEF HandOn, Wedge, usage
<1> QED
  BY <1>2, <1>3, <1>4, <1>5, <1>6, <1>7, <1>8, <1>9, <1>10 DEF Next, Tasks

(* The figures of a tool are what its users were told, or are about to be, for *)
(* any number of prompts on any number of tools.                               *)
THEOREM FiguresAreReports == Spec => []UsageAccounted
<1>1. Init => UsageInv
  <2> SUFFICES ASSUME Init PROVE UsageInv
    OBVIOUS
  <2>1. \A p \in Prompts : TakenOf[p] = <<>>
    BY DEF Init, TakenOf, Taken, Held
  <2>2. ASSUME NEW t, NEW K PROVE Reported(TakenOf, asked, t, K) = {}
    <3>1. \A p \in Prompts : DOMAIN TakenOf[p] = {}
      BY <2>1
    <3>2. \A x : x \notin Reported(TakenOf, asked, t, K)
      BY <3>1, ReportedPlace
    <3> QED BY <3>2
  <2> QED BY <2>2, FS_EmptySet DEF Init, UsageInv, Tally
<1>2. IInv /\ UsageInv /\ [Next]_vars => UsageInv'
  BY UsageStep
<1>3. UsageInv => UsageAccounted
  <2>1. {"limit", "switch", "exhausted"} = Limits
    BY DEF Limits
  <2> QED BY <2>1, ReportsReported DEF UsageInv, Tally, UsageAccounted
<1> QED BY <1>1, <1>2, <1>3, Invariance, PTL DEF Spec
=============================================================================
