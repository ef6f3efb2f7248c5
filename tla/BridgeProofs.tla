---------------------------- MODULE BridgeProofs ----------------------------
(***************************************************************************)
(* Proofs about Bridge, for any number of connections, addresses, tools    *)
(* and dashboards, any limits and any clock.  Every action is first shown  *)
(* to be one of a few kinds of step of one connection (Moving); the        *)
(* invariants are then about the kinds.  The books of the metrics are kept *)
(* apart, with kinds of their own (Booking).                               *)
(***************************************************************************)
EXTENDS Bridge, FiniteSetTheorems, TLAPS

Flying(r) ==
    r.pc \in {"choose", "fallback", "spawn", "run", "audit", "failure", "total", "tool",
              "success", "usage"}
Carrying(r) == r.pc \in {"spawn", "run", "audit", "failure", "total", "tool", "success"}

LinkShape == [sent : Nat, pos : Nat, start : Nat, relayed : Nat, cut : BOOLEAN]
Task ==
    [pc : Places, tool : Tools \cup {NoTool}, sel : Tools \cup {NoTool},
     ok : BOOLEAN, seen : [Tools -> Nat], link : LinkShape]

Shape ==
    /\ mode \in Modes /\ now \in Nat
    /\ quota \in [Ips -> QuotaRecord \cup {NoQuota}]
    /\ health \in [Tools -> HealthRecord]
    /\ total \in Nat
    /\ counted \in [Tools -> Nat] /\ rows \in [Tools -> Nat]
    /\ conn \in [Conns -> Task]
    /\ page \in [Dashboards -> [pc : {"idle", "totals"}, seen : [Tools -> Nat]]]

\* A prompt that runs a tool has chosen one.
Settled == \A c \in Conns : Flying(conn[c]) => conn[c].sel \in Tools

\* A prompt past its quota check has a quota to be recorded in.
Funded == \A c \in Conns : Flying(conn[c]) => quota[IpOf[c]] # NoQuota

\* A link's reads keep to what was sent; until one is cut it is frame by frame.
Framed ==
    \A c \in Conns : LET l == conn[c].link IN
        /\ 2 * l.relayed <= l.start /\ l.start <= l.pos /\ l.pos <= l.sent
        /\ l.sent <= 2 * MaxFrames
        /\ ~l.cut => l.start = 2 * l.relayed /\ l.pos - l.start \in 0..1

\* The gauge counts the connections there are.
Gauge == active = Cardinality({c \in Conns : conn[c].pc # "closed"})

-----------------------------------------------------------------------------
(* The records of Features.                                                *)

LEMMA FailureKept ==
    ASSUME NEW h \in HealthRecord
    PROVE  RecordedFailure(h) \in HealthRecord
<1> DEFINE run == AtMost(h.failures + 1, FailureThreshold)
           up == h.healthy /\ run < FailureThreshold
<1>1. up \in BOOLEAN /\ run \in 0..FailureThreshold /\ 0 \in 0..RecoveryThreshold
  BY FeaturesAssumption DEF AtMost, HealthRecord
<1>2. RecordedFailure(h) = [h EXCEPT !.healthy = up, !.failures = run, !.successes = 0]
  BY DEF RecordedFailure
<1> HIDE DEF run, up
<1>3. [h EXCEPT !.healthy = up, !.failures = run, !.successes = 0] \in HealthRecord
  BY <1>1 DEF HealthRecord
<1> QED BY <1>2, <1>3

LEMMA HealthKept ==
    ASSUME NEW h \in HealthRecord, NEW ms \in Latencies
    PROVE  RecordedSuccess(h, ms) \in HealthRecord
<1> USE FeaturesAssumption, BridgeAssumption
<1>1. AtMost(h.successes + 1, RecoveryThreshold) \in 0..RecoveryThreshold
  BY DEF AtMost, HealthRecord
<1>2. ms \in 0..NoLatency
  OBVIOUS
<1> QED BY <1>1, <1>2 DEF RecordedSuccess, HealthRecord

\* A check never adds to a figure, and what it admits is under the limits.
LEMMA QuotaKept ==
    ASSUME NEW q \in QuotaRecord, NEW t \in Nat
    PROVE  /\ CheckAndReset(q, t) \in QuotaRecord
           /\ CheckAndReset(q, t).day <= q.day /\ CheckAndReset(q, t).month <= q.month
           /\ RecordUsage(q, t) \in QuotaRecord
           /\ RecordUsage(q, t).day <= q.day + 1 /\ RecordUsage(q, t).month <= q.month + 1
<1> USE FeaturesAssumption
<1>1. /\ CheckAndReset(q, t) \in QuotaRecord
      /\ CheckAndReset(q, t).day <= q.day /\ CheckAndReset(q, t).month <= q.month
  BY DEF CheckAndReset, QuotaRecord
<1>2. /\ RecordUsage(q, t) \in QuotaRecord
      /\ RecordUsage(q, t).day = CheckAndReset(q, t).day + 1
      /\ RecordUsage(q, t).month = CheckAndReset(q, t).month + 1
  <2> DEFINE r == CheckAndReset(q, t)
  <2>1. r \in QuotaRecord
    BY <1>1
  <2>2. RecordUsage(q, t) = [r EXCEPT !.day = @ + 1, !.month = @ + 1]
    BY DEF RecordUsage
  <2> DEFINE d == r.day + 1
             m == r.month + 1
  <2> HIDE DEF r
  <2>3. d \in Nat /\ m \in Nat
    BY <2>1 DEF QuotaRecord
  <2>4. RecordUsage(q, t) = [r EXCEPT !.day = d, !.month = m]
    BY <2>2
  <2> HIDE DEF d, m
  <2>5. /\ RecordUsage(q, t) \in QuotaRecord
        /\ RecordUsage(q, t).day = d /\ RecordUsage(q, t).month = m
    BY <2>1, <2>3, <2>4 DEF QuotaRecord
  <2> QED BY <2>5 DEF r, d, m
<1>3. q.day \in Nat /\ q.month \in Nat
      /\ CheckAndReset(q, t).day \in Nat /\ CheckAndReset(q, t).month \in Nat
  BY <1>1 DEF QuotaRecord
<1> QED BY <1>1, <1>2, <1>3

LEMMA QuotaOfKept ==
    ASSUME Shape, NEW i \in Ips
    PROVE  /\ QuotaOf(i) \in QuotaRecord
           /\ \/ QuotaOf(i).day = 0 /\ QuotaOf(i).month = 0
              \/ /\ quota[i] # NoQuota
                 /\ QuotaOf(i).day <= quota[i].day /\ QuotaOf(i).month <= quota[i].month
<1>1. CASE quota[i] = NoQuota
  BY <1>1, FeaturesAssumption DEF QuotaOf, NewQuota, QuotaRecord, Shape
<1>2. CASE quota[i] # NoQuota
  <2>1. quota[i] \in QuotaRecord /\ now \in Nat
    BY <1>2 DEF Shape
  <2> QED BY <1>2, <2>1, QuotaKept DEF QuotaOf
<1> QED BY <1>1, <1>2

-----------------------------------------------------------------------------
(* The kinds of steps.                                                     *)

Tables == <<quota, health, active>>

\* The task goes on, with the tool it carries and the link as they were.
Walks(c, r) ==
    /\ UNCHANGED Tables
    /\ conn[c].pc # "closed" /\ r.pc # "closed"
    /\ r.link = conn[c].link
    /\ Flying(r) => Flying(conn[c]) /\ r.sel = conn[c].sel
    /\ Carrying(r) => Carrying(conn[c])

Settles(c, r) ==
    /\ UNCHANGED Tables
    /\ conn[c].pc \in {"choose", "fallback"} /\ r.pc = "spawn"
    /\ r.link = conn[c].link
    /\ r.sel \in Tools
    /\ AutoFailover /\ Healthy(health) # {} => health[r.sel].healthy

Opens(c, r) ==
    /\ conn[c].pc = "closed" /\ r.pc = "opening" /\ r.link = conn[c].link
    /\ active' = active + 1 /\ UNCHANGED <<quota, health>>

Closes(c, r) ==
    /\ conn[c].pc = "closing" /\ r.pc = "closed" /\ r.link = NewLink
    /\ active' = active - 1 /\ UNCHANGED <<quota, health>>

Checks(c, r) ==
    /\ conn[c].pc = "quota" /\ r.link = conn[c].link
    /\ quota' = [quota EXCEPT ![IpOf[c]] = QuotaOf(IpOf[c])]
    /\ \/ r.pc = "idle"
       \/ r.pc = "choose" /\ r.sel \in Tools /\ QuotaAllows(QuotaOf(IpOf[c]))
    /\ UNCHANGED <<health, active>>

Records(c, r) ==
    /\ conn[c].pc = "usage" /\ r.pc = "idle" /\ r.link = conn[c].link
    /\ quota' = [quota EXCEPT ![IpOf[c]] = RecordUsage(quota[IpOf[c]], now)]
    /\ UNCHANGED <<health, active>>

Reports(c, r) ==
    /\ Carrying(conn[c]) /\ r.pc \in {"usage", "closing"} /\ r.link = conn[c].link
    /\ r.sel = conn[c].sel
    /\ \E h \in HealthRecord : health' = [health EXCEPT ![conn[c].sel] = h]
    /\ UNCHANGED <<quota, active>>

\* What happens to a link: more arrives, a frame is read or out of step, a read is dropped.
Linked(l, m) ==
    \/ l.sent < 2 * MaxFrames /\ m = [l EXCEPT !.sent = @ + 1]
    \/ l.pos < l.sent /\ l.pos = l.start /\ m = [l EXCEPT !.pos = @ + 1]
    \/ /\ l.pos < l.sent /\ l.pos = l.start + 1
       /\ m = [l EXCEPT !.pos = @ + 1, !.start = l.pos + 1, !.relayed = @ + 1]
    \/ /\ l.pos < l.sent /\ ~InStep(l)
       /\ m \in {[l EXCEPT !.pos = @ + 1], [l EXCEPT !.pos = @ + 1, !.start = l.pos + 1]}
    \/ m = [l EXCEPT !.start = l.pos, !.cut = @ \/ l.pos # l.start]

Relays(c, r) ==
    /\ UNCHANGED Tables
    /\ conn[c].pc = "relay" /\ r.pc = "relay"
    /\ Linked(conn[c].link, r.link)

Kind(c, r) ==
    \/ Walks(c, r) \/ Settles(c, r) \/ Opens(c, r) \/ Closes(c, r)
    \/ Checks(c, r) \/ Records(c, r) \/ Reports(c, r) \/ Relays(c, r)

Stays ==
    /\ conn' = conn /\ UNCHANGED <<health, active>>
    /\ quota' = quota \/ \E i \in Ips : quota' = [quota EXCEPT ![i] = QuotaOf(i)]

Becomes(c, r) == r \in Task /\ conn' = [conn EXCEPT ![c] = r] /\ Kind(c, r)

\* A task whose place alone changes.
LEMMA Going ==
    ASSUME Shape, NEW c \in Conns, NEW w \in Places, Go(c, w)
    PROVE  LET r == [conn[c] EXCEPT !.pc = w]
           IN  /\ r \in Task /\ conn' = [conn EXCEPT ![c] = r]
               /\ r.pc = w /\ r.link = conn[c].link /\ r.sel = conn[c].sel
<1>1. conn[c] \in Task
  BY DEF Shape
<1> DEFINE k == conn[c]
<1>2. conn' = [conn EXCEPT ![c] = [k EXCEPT !.pc = w]]
  BY DEF Go
<1> HIDE DEF k
<1>3. LET r == [k EXCEPT !.pc = w]
      IN  r \in Task /\ r.pc = w /\ r.link = k.link /\ r.sel = k.sel
  BY <1>1 DEF Task, k
<1> QED BY <1>2, <1>3 DEF k

\* Records that differ from a task in some fields.
LEMMA Selected ==
    ASSUME NEW k \in Task, NEW t \in Tools
    PROVE  LET r == [k EXCEPT !.tool = t]
           IN  r \in Task /\ r.pc = k.pc /\ r.link = k.link
  BY DEF Task

LEMMA Chosen ==
    ASSUME NEW k \in Task, NEW t \in Tools
    PROVE  LET r == [k EXCEPT !.pc = "spawn", !.sel = t, !.tool = t]
           IN  r \in Task /\ r.pc = "spawn" /\ r.sel = t /\ r.link = k.link
  BY DEF Task, Places

LEMMA Lost ==
    ASSUME NEW k \in Task
    PROVE  LET r == [k EXCEPT !.pc = "audit", !.ok = FALSE]
           IN  r \in Task /\ r.pc = "audit" /\ r.sel = k.sel /\ r.link = k.link
  BY DEF Task, Places

LEMMA LinkedShape ==
    ASSUME NEW l \in LinkShape, NEW m, Linked(l, m)
    PROVE  m \in LinkShape
<1>1. /\ l.pos + 1 \in Nat /\ l.sent + 1 \in Nat /\ l.relayed + 1 \in Nat
      /\ (l.cut \/ l.pos # l.start) \in BOOLEAN
  BY DEF LinkShape
<1> DEFINE p == l.pos + 1
           s == l.sent + 1
           n == l.relayed + 1
           b == l.cut \/ l.pos # l.start
<1>2. \/ m = [l EXCEPT !.sent = s] \/ m = [l EXCEPT !.pos = p]
      \/ m = [l EXCEPT !.pos = p, !.start = p, !.relayed = n]
      \/ m = [l EXCEPT !.pos = p, !.start = p]
      \/ m = [l EXCEPT !.start = l.pos, !.cut = b]
  BY DEF Linked
<1>3. p \in Nat /\ s \in Nat /\ n \in Nat /\ b \in BOOLEAN
  BY <1>1
<1> HIDE DEF p, s, n, b
<1> QED BY <1>2, <1>3 DEF LinkShape

LEMMA Moving ==
    ASSUME Shape, Settled, Moves, UNCHANGED mode
    PROVE  Stays \/ \E c \in Conns, r \in Task : Becomes(c, r)
<1> USE DEF Shape
<1>1. ASSUME NEW c \in Conns, Limited(c) \/ Answer(c) \/ Greet(c) \/ Control(c) PROVE Stays
  BY <1>1 DEF Limited, Answer, Greet, Control, Admit, Stays
<1>2. ASSUME NEW c \in Conns, QuotaStatus(c) PROVE Stays
  BY <1>2, BridgeAssumption DEF QuotaStatus, Admit, Stays
<1>3. ASSUME (\E d \in Dashboards : ReadPage(d) \/ SendPage(d)) \/ Cleanup \/ Tick PROVE Stays
  BY <1>3 DEF ReadPage, SendPage, Cleanup, Tick, shared, Stays
\* A task walks from one place to another.
<1>4. ASSUME NEW c \in Conns, NEW w \in Places \ {"closed"}, Go(c, w), UNCHANGED Tables,
             conn[c].pc # "closed",
             w \in {"choose", "fallback", "spawn", "run", "audit", "failure", "total", "tool",
                    "success", "usage"} => Flying(conn[c]),
             w \in {"spawn", "run", "audit", "failure", "total", "tool", "success"} =>
                 Carrying(conn[c])
      PROVE  \E r \in Task : Becomes(c, r)
  <2> DEFINE r == [conn[c] EXCEPT !.pc = w]
  <2>1. /\ r \in Task /\ conn' = [conn EXCEPT ![c] = r]
        /\ r.pc = w /\ r.link = conn[c].link /\ r.sel = conn[c].sel
    BY <1>4, Going
  <2> HIDE DEF r
  <2>2. Walks(c, r)
    BY <1>4, <2>1 DEF Walks, Flying, Carrying
  <2> QED BY <2>1, <2>2 DEF Becomes, Kind
<1>5. ASSUME NEW c \in Conns,
             Open(c) \/ Leave(c) \/ HangUp(c) \/ RelayEnds(c)
      PROVE  \E r \in Task : Becomes(c, r)
  <2>1. PICK w \in {"idle", "relay", "closing"} : Go(c, w) /\ UNCHANGED Tables /\ conn[c].pc # "closed"
    BY <1>5 DEF Open, Leave, HangUp, RelayEnds, Admit, At, shared, Tables
  <2> QED BY <2>1, <1>4 DEF Places
<1>6. ASSUME NEW c \in Conns,
             Spawn(c) \/ Exit(c) \/ Audit(c) \/ CountRequest(c) \/ CountTool(c)
      PROVE  \E r \in Task : Becomes(c, r)
  <2>1. PICK w \in {"run", "audit", "failure", "total", "tool", "success"} :
            Go(c, w) /\ UNCHANGED Tables /\ Carrying(conn[c])
    BY <1>6 DEF Spawn, Exit, Audit, CountRequest, CountTool, At, shared, Tables, Carrying
  <2>2. conn[c].pc # "closed" /\ Flying(conn[c])
    BY <2>1 DEF Carrying, Flying
  <2> QED BY <2>1, <2>2, <1>4 DEF Places
\* A task whose record changes otherwise.
<1>7. ASSUME NEW c \in Conns, NEW r \in Task, conn' = [conn EXCEPT ![c] = r], Kind(c, r)
      PROVE  \E q \in Task : Becomes(c, q)
  BY <1>7 DEF Becomes
<1>8. ASSUME NEW c \in Conns, NEW t \in Tools, SelectTool(c, t)
      PROVE  \E r \in Task : Becomes(c, r)
  <2> DEFINE r == [conn[c] EXCEPT !.tool = t]
  <2>1. r \in Task /\ r.pc = conn[c].pc /\ r.link = conn[c].link /\ conn[c].pc = "idle"
    <3>1. conn[c] \in Task /\ conn[c].pc = "idle"
      BY <1>8 DEF SelectTool, Admit, At
    <3> QED BY <3>1, Selected
  <2>2. conn' = [conn EXCEPT ![c] = r] /\ UNCHANGED Tables
    BY <1>8 DEF SelectTool, Admit, Tables
  <2> HIDE DEF r
  <2>3. Walks(c, r)
    BY <2>1, <2>2 DEF Walks, Flying, Carrying
  <2> QED BY <1>7, <2>1, <2>2, <2>3 DEF Kind
<1>9. ASSUME NEW c \in Conns, NEW t \in Tools \cup {NoTool}, Prompt(c, t)
      PROVE  \E r \in Task : Becomes(c, r)
  <2> DEFINE r == [conn[c] EXCEPT !.pc = "quota", !.sel = t]
  <2>1. r \in Task /\ r.pc = "quota" /\ r.link = conn[c].link /\ conn[c].pc = "idle"
    <3>1. conn[c] \in Task /\ conn[c].pc = "idle" /\ "quota" \in Places
      BY <1>9 DEF Prompt, Admit, At, Places
    <3> QED BY <3>1 DEF Task
  <2>2. conn' = [conn EXCEPT ![c] = r] /\ UNCHANGED Tables
    BY <1>9 DEF Prompt, Admit, Tables
  <2> HIDE DEF r
  <2>3. Walks(c, r)
    BY <2>1, <2>2 DEF Walks, Flying, Carrying
  <2> QED BY <1>7, <2>1, <2>2, <2>3 DEF Kind
<1>10. ASSUME NEW c \in Conns, GetMetrics(c) \/ SendMetrics(c)
       PROVE  \E r \in Task : Becomes(c, r)
  <2>1. PICK w \in {"idle", "totals"}, s \in [Tools -> Nat] :
            conn' = [conn EXCEPT ![c].pc = w, ![c].seen = s]
    <3>1. NoSeen \in [Tools -> Nat]
      BY DEF NoSeen
    <3> QED BY <1>10, <3>1 DEF GetMetrics, SendMetrics
  <2>2. conn[c].pc \in {"idle", "totals"} /\ UNCHANGED Tables
    BY <1>10 DEF GetMetrics, SendMetrics, Admit, At, shared, Tables
  <2> DEFINE r == [conn[c] EXCEPT !.pc = w, !.seen = s]
  <2>3. r \in Task /\ r.pc = w /\ r.link = conn[c].link
    <3>1. conn[c] \in Task /\ w \in Places
      BY DEF Places
    <3> HIDE DEF Shape
    <3> QED BY <3>1 DEF Task
  <2>4. conn' = [conn EXCEPT ![c] = r]
    BY <2>1
  <2> HIDE DEF r
  <2>5. Walks(c, r)
    BY <2>2, <2>3 DEF Walks, Flying, Carrying
  <2> QED BY <1>7, <2>3, <2>4, <2>5 DEF Kind
<1>11. ASSUME NEW c \in Conns, NEW t \in Tools, Settle(c, t), UNCHANGED Tables,
              conn[c].pc \in {"choose", "fallback"},
              AutoFailover /\ Healthy(health) # {} => health[t].healthy
       PROVE  \E r \in Task : Becomes(c, r)
  <2> DEFINE r == [conn[c] EXCEPT !.pc = "spawn", !.sel = t, !.tool = t]
  <2>1. r \in Task /\ r.pc = "spawn" /\ r.link = conn[c].link /\ r.sel = t
    <3>1. conn[c] \in Task /\ t \in Tools \cup {NoTool} /\ "spawn" \in Places
      BY DEF Places
    <3> QED BY <3>1, Chosen
  <2>2. conn' = [conn EXCEPT ![c] = r]
    BY <1>11 DEF Settle
  <2> HIDE DEF r
  <2>3. Settles(c, r)
    BY <1>11, <2>1 DEF Settles
  <2> QED BY <1>7, <2>1, <2>2, <2>3 DEF Kind
<1>12. ASSUME NEW c \in Conns, Choose(c) \/ Fallback(c)
       PROVE  \E r \in Task : Becomes(c, r)
  <2>1. UNCHANGED Tables /\ conn[c].pc \in {"choose", "fallback"} /\ conn[c].sel \in Tools
    BY <1>12 DEF Choose, Fallback, At, shared, Tables, Settled, Flying
  <2>2. CASE Choose(c)
    <3>1. CASE AutoFailover => health[conn[c].sel].healthy
      <4>1. Settle(c, conn[c].sel)
        BY <2>2, <3>1 DEF Choose
      <4> QED BY <1>11, <2>1, <3>1, <4>1
    <3>2. CASE ~(AutoFailover => health[conn[c].sel].healthy)
      <4>1. Go(c, "fallback")
        BY <2>2, <3>2 DEF Choose
      <4>2. Flying(conn[c]) /\ conn[c].pc # "closed"
        BY <2>1 DEF Flying
      <4> QED BY <1>4, <2>1, <4>1, <4>2 DEF Places
    <3> QED BY <3>1, <3>2
  <2>3. CASE Fallback(c)
    <3>1. PICK t \in Fallbacks(health, conn[c].sel) : Settle(c, t)
      BY <2>3 DEF Fallback
    <3>2. t \in Tools /\ (Healthy(health) # {} => health[t].healthy)
      BY <2>1, <3>1 DEF Fallbacks, Fastest, Healthy
    <3> QED BY <1>11, <2>1, <3>1, <3>2
  <2> QED BY <1>12, <2>2, <2>3
<1>13. ASSUME NEW c \in Conns, SocketLost(c)
       PROVE  \E r \in Task : Becomes(c, r)
  <2> DEFINE r == [conn[c] EXCEPT !.pc = "audit", !.ok = FALSE]
  <2>1. r \in Task /\ r.pc = "audit" /\ r.link = conn[c].link /\ r.sel = conn[c].sel
    <3>1. conn[c] \in Task /\ NoTool \in Tools \cup {NoTool} /\ "audit" \in Places
      BY DEF Places
    <3> QED BY <3>1, Lost
  <2>2. conn' = [conn EXCEPT ![c] = r] /\ UNCHANGED Tables /\ Carrying(conn[c])
    BY <1>13 DEF SocketLost, shared, Tables, Carrying
  <2> HIDE DEF r
  <2>3. Walks(c, r)
    BY <2>1, <2>2 DEF Walks, Flying, Carrying
  <2> QED BY <1>7, <2>1, <2>2, <2>3 DEF Kind
\* The quota.
<1>14. ASSUME NEW c \in Conns, CheckQuota(c)
       PROVE  \E r \in Task : Becomes(c, r)
  <2>1. /\ conn[c].pc = "quota" /\ UNCHANGED <<health, active>>
        /\ quota' = [quota EXCEPT ![IpOf[c]] = QuotaOf(IpOf[c])]
    BY <1>14 DEF CheckQuota, At
  <2>2. PICK w \in {"idle", "choose"}, t \in Tools \cup {NoTool} :
            /\ conn' = [conn EXCEPT ![c].pc = w, ![c].sel = t]
            /\ w = "choose" => t \in Tools /\ QuotaAllows(QuotaOf(IpOf[c]))
    <3>1. CASE QuotaAllows(QuotaOf(IpOf[c]))
      <4>1. Requested(c) \in Tools
        BY BridgeAssumption DEF Requested, Task
      <4>2. conn' = [conn EXCEPT ![c].pc = "choose", ![c].sel = Requested(c)]
        BY <1>14, <3>1 DEF CheckQuota
      <4> QED BY <3>1, <4>1, <4>2
    <3>2. CASE ~QuotaAllows(QuotaOf(IpOf[c]))
      <4>1. conn' = [conn EXCEPT ![c].pc = "idle", ![c].sel = NoTool]
        BY <1>14, <3>2 DEF CheckQuota
      <4> QED BY <4>1
    <3> QED BY <3>1, <3>2
  <2> DEFINE r == [conn[c] EXCEPT !.pc = w, !.sel = t]
  <2>3. r \in Task /\ r.pc = w /\ r.sel = t /\ r.link = conn[c].link
    <3>1. conn[c] \in Task /\ w \in Places
      BY DEF Places
    <3> QED BY <3>1 DEF Task
  <2>4. conn' = [conn EXCEPT ![c] = r]
    BY <2>2
  <2> HIDE DEF r
  <2>5. Checks(c, r)
    BY <2>1, <2>2, <2>3 DEF Checks
  <2> QED BY <1>7, <2>3, <2>4, <2>5 DEF Kind
<1>15. ASSUME NEW c \in Conns, Usage(c)
       PROVE  \E r \in Task : Becomes(c, r)
  <2> DEFINE r == [conn[c] EXCEPT !.pc = "idle", !.sel = NoTool]
  <2>1. r \in Task /\ r.pc = "idle" /\ r.link = conn[c].link
    <3>1. conn[c] \in Task /\ NoTool \in Tools \cup {NoTool} /\ "idle" \in Places
      BY DEF Places
    <3> QED BY <3>1 DEF Task
  <2>2. /\ conn' = [conn EXCEPT ![c] = r] /\ conn[c].pc = "usage"
        /\ quota' = [quota EXCEPT ![IpOf[c]] = RecordUsage(quota[IpOf[c]], now)]
        /\ UNCHANGED <<health, active>>
    BY <1>15 DEF Usage, At
  <2> HIDE DEF r
  <2>3. Records(c, r)
    BY <2>1, <2>2 DEF Records
  <2> QED BY <1>7, <2>1, <2>2, <2>3 DEF Kind
\* The health of tools.
<1>16. ASSUME NEW c \in Conns, RecordSuccess(c) \/ RecordFailure(c)
       PROVE  \E r \in Task : Becomes(c, r)
  <2>1. PICK w \in {"usage", "closing"} :
            Go(c, w) /\ Carrying(conn[c]) /\ UNCHANGED <<quota, active>>
    BY <1>16 DEF RecordSuccess, RecordFailure, At, Carrying
  <2>2. conn[c].sel \in Tools /\ health[conn[c].sel] \in HealthRecord
    BY <2>1 DEF Settled, Flying, Carrying
  <2>3. \E h \in HealthRecord : health' = [health EXCEPT ![conn[c].sel] = h]
    <3>1. CASE RecordSuccess(c)
      <4>1. PICK ms \in Latencies :
                health' = [health EXCEPT ![conn[c].sel] = RecordedSuccess(health[conn[c].sel], ms)]
        BY <3>1 DEF RecordSuccess
      <4> QED BY <2>2, <4>1, HealthKept
    <3>2. CASE RecordFailure(c)
      <4>1. health' = [health EXCEPT ![conn[c].sel] = RecordedFailure(health[conn[c].sel])]
        BY <3>2 DEF RecordFailure
      <4> QED BY <2>2, <4>1, FailureKept
    <3> QED BY <1>16, <3>1, <3>2
  <2> DEFINE r == [conn[c] EXCEPT !.pc = w]
  <2>4. /\ r \in Task /\ conn' = [conn EXCEPT ![c] = r]
        /\ r.pc = w /\ r.link = conn[c].link /\ r.sel = conn[c].sel
    <3>1. w \in Places
      BY DEF Places
    <3> QED BY <2>1, <3>1, Going
  <2> HIDE DEF r
  <2>5. Reports(c, r)
    BY <2>1, <2>3, <2>4 DEF Reports
  <2> QED BY <1>7, <2>4, <2>5 DEF Kind
\* Connections come and go.
<1>17. ASSUME NEW c \in Conns, Accept(c)
       PROVE  Stays \/ \E r \in Task : Becomes(c, r)
  <2>1. conn[c].pc = "closed" /\ UNCHANGED <<quota, health>>
    BY <1>17 DEF Accept, At
  <2>2. CASE active' = active + 1 /\ Go(c, "opening")
    <3> DEFINE r == [conn[c] EXCEPT !.pc = "opening"]
    <3>1. /\ r \in Task /\ conn' = [conn EXCEPT ![c] = r]
          /\ r.pc = "opening" /\ r.link = conn[c].link
      <4>1. "opening" \in Places
        BY DEF Places
      <4> HIDE DEF Shape
      <4> QED BY <2>2, <4>1, Going
    <3> HIDE DEF r
    <3>2. Opens(c, r)
      BY <2>1, <2>2, <3>1 DEF Opens
    <3> QED BY <1>7, <3>1, <3>2 DEF Kind
  <2>3. CASE UNCHANGED <<active, conn>>
    BY <2>1, <2>3 DEF Stays
  <2> QED BY <1>17, <2>2, <2>3 DEF Accept
<1>18. ASSUME NEW c \in Conns, Close(c)
       PROVE  \E r \in Task : Becomes(c, r)
  <2>1. Closed \in Task /\ Closed.pc = "closed" /\ Closed.link = NewLink
    BY DEF Closed, Task, Places, NoSeen, NewLink, LinkShape
  <2>2. Closes(c, Closed) /\ conn' = [conn EXCEPT ![c] = Closed]
    BY <1>18, <2>1 DEF Close, Closes, At
  <2> QED BY <1>7, <2>1, <2>2 DEF Kind
\* The link.
<1>19. ASSUME NEW c \in Conns,
              \/ ServerSends(c) \/ RecvLength(c) \/ RecvMessage(c) \/ Misread(c) \/ Forward(c)
       PROVE  \E r \in Task : Becomes(c, r)
  <2> DEFINE l == conn[c].link
  <2>1. l \in LinkShape /\ conn[c] \in Task
    BY DEF Task
  <2>2. conn[c].pc = "relay" /\ UNCHANGED Tables
    BY <1>19 DEF ServerSends, RecvLength, RecvMessage, Misread, Forward, Readable, At, Links,
                 shared, Tables
  <2>3. \E m : Links(c, m) /\ Linked(l, m)
    BY <1>19 DEF ServerSends, RecvLength, RecvMessage, Misread, Forward, Readable, Linked
  <2>4. PICK m : Links(c, m) /\ Linked(l, m)
    BY <2>3
  <2> HIDE DEF l
  <2>5. m \in LinkShape
    BY <2>1, <2>4, LinkedShape
  <2> DEFINE r == [conn[c] EXCEPT !.link = m]
  <2>6. r \in Task /\ r.pc = conn[c].pc /\ r.link = m
    BY <2>1, <2>5 DEF Task
  <2>7. conn' = [conn EXCEPT ![c] = r]
    BY <2>4 DEF Links
  <2> HIDE DEF r
  <2>8. Relays(c, r)
    BY <2>2, <2>4, <2>6 DEF Relays, l
  <2> QED BY <1>7, <2>6, <2>7, <2>8 DEF Kind
<1>20. ASSUME NEW c \in Conns, Execute(c)
       PROVE  \E r \in Task : Becomes(c, r)
  BY <1>6, <1>12, <1>13, <1>14, <1>15, <1>16, <1>20 DEF Execute
<1>21. ASSUME NEW c \in Conns, RelayStep(c)
       PROVE  \E r \in Task : Becomes(c, r)
  BY <1>5, <1>19, <1>21 DEF RelayStep
<1> HIDE DEF Shape
<1> QED BY <1>1, <1>2, <1>3, <1>5, <1>8, <1>9, <1>10, <1>17, <1>18, <1>20, <1>21 DEF Moves

-----------------------------------------------------------------------------
(* What the kinds keep.                                                    *)

LEMMA Others ==
    ASSUME NEW c \in Conns, NEW r \in Task, Shape, Becomes(c, r)
    PROVE  /\ conn' \in [Conns -> Task] /\ conn'[c] = r
           /\ \A d \in Conns : d # c => conn'[d] = conn[d]
  BY DEF Shape, Becomes

\* What the end of a prompt finds to be recorded in.
LEMMA UsageRecorded ==
    ASSUME Shape, Funded, NEW c \in Conns, NEW r, Records(c, r)
    PROVE  /\ IpOf[c] \in Ips /\ quota[IpOf[c]] \in QuotaRecord
           /\ RecordUsage(quota[IpOf[c]], now) \in QuotaRecord
           /\ RecordUsage(quota[IpOf[c]], now).day <= quota[IpOf[c]].day + 1
           /\ RecordUsage(quota[IpOf[c]], now).month <= quota[IpOf[c]].month + 1
<1>1. IpOf[c] \in Ips /\ quota[IpOf[c]] \in QuotaRecord /\ now \in Nat
  BY BridgeAssumption DEF Records, Funded, Flying, Shape
<1> QED BY <1>1, QuotaKept

LEMMA TablesKept ==
    ASSUME Shape, Settled, Funded, Moves, UNCHANGED mode
    PROVE  /\ quota' \in [Ips -> QuotaRecord \cup {NoQuota}]
           /\ health' \in [Tools -> HealthRecord]
           /\ conn' \in [Conns -> Task]
<1>1. CASE Stays
  BY <1>1, QuotaOfKept DEF Stays, Shape
<1>2. ASSUME NEW c \in Conns, NEW r \in Task, Becomes(c, r)
      PROVE  /\ quota' \in [Ips -> QuotaRecord \cup {NoQuota}]
             /\ health' \in [Tools -> HealthRecord]
  <2>0. IpOf[c] \in Ips
    BY BridgeAssumption
  <2>1. CASE UNCHANGED <<quota, health>>
    BY <2>1 DEF Shape
  <2>2. CASE Checks(c, r)
    <3>1. QuotaOf(IpOf[c]) \in QuotaRecord
      BY <2>0, QuotaOfKept
    <3>2. quota' = [quota EXCEPT ![IpOf[c]] = QuotaOf(IpOf[c])] /\ UNCHANGED health
      BY <2>2 DEF Checks
    <3> QED BY <2>0, <3>1, <3>2 DEF Shape
  <2>3. CASE Records(c, r)
    <3>1. RecordUsage(quota[IpOf[c]], now) \in QuotaRecord
      BY <2>3, UsageRecorded
    <3>2. quota' = [quota EXCEPT ![IpOf[c]] = RecordUsage(quota[IpOf[c]], now)] /\ UNCHANGED health
      BY <2>3 DEF Records
    <3> QED BY <2>0, <3>1, <3>2 DEF Shape
  <2>4. CASE Reports(c, r)
    <3>1. PICK h \in HealthRecord : health' = [health EXCEPT ![conn[c].sel] = h]
      BY <2>4 DEF Reports
    <3>2. UNCHANGED quota
      BY <2>4 DEF Reports
    <3> QED BY <3>1, <3>2 DEF Shape
  <2> QED BY <1>2, <2>1, <2>2, <2>3, <2>4
          DEF Becomes, Kind, Walks, Settles, Opens, Closes, Relays, Tables
<1> QED BY <1>1, <1>2, Moving, Others DEF Stays, Shape

LEMMA ShapeKept ==
    ASSUME Shape, Settled, Funded, Moves, UNCHANGED mode PROVE Shape'
<1>1. /\ now' \in Nat /\ total' \in Nat
      /\ counted' \in [Tools -> Nat] /\ rows' \in [Tools -> Nat]
      /\ page' \in [Dashboards -> [pc : {"idle", "totals"}, seen : [Tools -> Nat]]]
  <2> USE DEF Shape
  <2>1. CASE UNCHANGED <<now, total, counted, rows, page>>
    BY <2>1
  <2>2. CASE Tick
    BY <2>2 DEF Tick, shared
  <2>3. ASSUME NEW d \in Dashboards, ReadPage(d) \/ SendPage(d)
        PROVE  /\ now' \in Nat /\ total' \in Nat
               /\ counted' \in [Tools -> Nat] /\ rows' \in [Tools -> Nat]
               /\ page' \in [Dashboards -> [pc : {"idle", "totals"}, seen : [Tools -> Nat]]]
    BY <2>3 DEF ReadPage, SendPage, shared, NoSeen
  <2>4. ASSUME NEW c \in Conns, Audit(c) \/ CountRequest(c) \/ CountTool(c)
        PROVE  /\ now' \in Nat /\ total' \in Nat
               /\ counted' \in [Tools -> Nat] /\ rows' \in [Tools -> Nat]
               /\ page' \in [Dashboards -> [pc : {"idle", "totals"}, seen : [Tools -> Nat]]]
    BY <2>4 DEF Audit, CountRequest, CountTool
  <2> HIDE DEF Shape
  <2>5. ASSUME NEW c \in Conns, Execute(c), ~(Audit(c) \/ CountRequest(c) \/ CountTool(c))
        PROVE  UNCHANGED <<now, total, counted, rows, page>>
    BY <2>5 DEF Execute, CheckQuota, Choose, Fallback, Spawn, Exit, SocketLost, RecordFailure,
                RecordSuccess, Usage, shared
  <2>6. ASSUME NEW c \in Conns, RelayStep(c)
        PROVE  UNCHANGED <<now, total, counted, rows, page>>
    BY <2>6 DEF RelayStep, ServerSends, RecvLength, RecvMessage, Misread, Forward, RelayEnds,
                Links, shared
  <2>7. ASSUME NEW c \in Conns,
               \/ Accept(c) \/ Open(c) \/ Close(c) \/ Limited(c) \/ Answer(c) \/ Greet(c)
               \/ Control(c) \/ Leave(c) \/ HangUp(c) \/ \E t \in Tools : SelectTool(c, t)
               \/ \E t \in Tools \cup {NoTool} : Prompt(c, t)
               \/ QuotaStatus(c) \/ GetMetrics(c) \/ SendMetrics(c)
        PROVE  UNCHANGED <<now, total, counted, rows, page>>
    BY <2>7 DEF Accept, Open, Close, Limited, Answer, Greet, Control, Leave, HangUp, SelectTool,
                Prompt, QuotaStatus, GetMetrics, SendMetrics, Admit, shared
  <2>8. CASE Cleanup
    BY <2>1, <2>8 DEF Cleanup
  <2> QED BY <2>1, <2>2, <2>3, <2>4, <2>5, <2>6, <2>7, <2>8 DEF Moves
<1> QED BY <1>1, TablesKept DEF Shape

LEMMA ChoiceKept ==
    ASSUME Shape, Settled, Funded, Moves, UNCHANGED mode PROVE Settled' /\ Funded'
<1>1. CASE Stays
  <2>1. Settled'
    BY <1>1 DEF Stays, Settled
  <2>2. \A i \in Ips : quota[i] # NoQuota => quota'[i] # NoQuota
    BY <1>1, QuotaOfKept, BridgeAssumption DEF Stays, Shape
  <2>3. Funded'
    BY <1>1, <2>2, BridgeAssumption DEF Stays, Funded
  <2> QED BY <2>1, <2>3
<1>2. ASSUME NEW c \in Conns, NEW r \in Task, Becomes(c, r) PROVE Settled' /\ Funded'
  <2>1. Flying(r) => r.sel \in Tools
    BY <1>2, Others DEF Becomes, Kind, Walks, Settles, Opens, Closes, Checks, Records, Reports,
        Relays, Settled, Flying, Carrying
  <2>2. Settled'
    BY <1>2, <2>1, Others DEF Settled
  <2>3. \A i \in Ips : quota[i] # NoQuota => quota'[i] # NoQuota
    <3>1. CASE Checks(c, r)
      BY <3>1, QuotaOfKept, BridgeAssumption DEF Checks, Shape
    <3>2. CASE Records(c, r)
      BY <3>2, UsageRecorded, BridgeAssumption DEF Records, Shape
    <3>3. CASE UNCHANGED quota
      BY <3>3
    <3> QED BY <1>2, <3>1, <3>2, <3>3
            DEF Becomes, Kind, Walks, Settles, Opens, Closes, Reports, Relays, Tables
  <2>4. Flying(r) => quota'[IpOf[c]] # NoQuota
    <3>1. CASE Checks(c, r)
      BY <3>1, QuotaOfKept, BridgeAssumption DEF Checks, Shape
    <3>2. CASE Flying(r) => Flying(conn[c])
      BY <2>3, <3>2, BridgeAssumption DEF Funded
    <3> QED BY <1>2, <3>1, <3>2 DEF Becomes, Kind, Walks, Settles, Opens, Closes, Records,
                Reports, Relays, Flying, Carrying
  <2> QED BY <1>2, <2>2, <2>3, <2>4, Others, BridgeAssumption DEF Funded
<1> QED BY <1>1, <1>2, Moving

-----------------------------------------------------------------------------
(* The link.                                                               *)

Sound(l) ==
    /\ 2 * l.relayed <= l.start /\ l.start <= l.pos /\ l.pos <= l.sent
    /\ l.sent <= 2 * MaxFrames
    /\ ~l.cut => l.start = 2 * l.relayed /\ l.pos - l.start \in 0..1

LEMMA SoundKept ==
    ASSUME NEW l \in LinkShape, NEW m, Sound(l), Linked(l, m) PROVE Sound(m)
<1> USE BridgeAssumption DEF LinkShape, Sound
<1>1. CASE l.sent < 2 * MaxFrames /\ m = [l EXCEPT !.sent = @ + 1]
  BY <1>1
<1>2. CASE l.pos < l.sent /\ l.pos = l.start /\ m = [l EXCEPT !.pos = @ + 1]
  BY <1>2
<1>3. CASE /\ l.pos < l.sent /\ l.pos = l.start + 1
           /\ m = [l EXCEPT !.pos = @ + 1, !.start = l.pos + 1, !.relayed = @ + 1]
  BY <1>3
<1>4. CASE /\ l.pos < l.sent /\ ~InStep(l)
           /\ m \in {[l EXCEPT !.pos = @ + 1], [l EXCEPT !.pos = @ + 1, !.start = l.pos + 1]}
  <2>1. l.cut
    <3>1. ASSUME NEW n \in Nat PROVE (2 * n) % 2 = 0
      OBVIOUS
    <3> QED BY <1>4, <3>1 DEF InStep
  <2> DEFINE p == l.pos + 1
  <2>2. p \in Nat /\ p <= l.sent /\ l.start <= p /\ l.pos <= p
    BY <1>4
  <2>3. m = [l EXCEPT !.pos = p] \/ m = [l EXCEPT !.pos = p, !.start = p]
    BY <1>4
  <2> HIDE DEF p
  <2>4. CASE m = [l EXCEPT !.pos = p]
    BY <2>1, <2>2, <2>4
  <2>5. CASE m = [l EXCEPT !.pos = p, !.start = p]
    <3>1. m.start = p /\ m.pos = p /\ m.sent = l.sent /\ m.relayed = l.relayed /\ m.cut
      BY <2>1, <2>5
    <3> QED BY <2>2, <3>1
  <2> QED BY <2>3, <2>4, <2>5
<1>5. CASE m = [l EXCEPT !.start = l.pos, !.cut = @ \/ l.pos # l.start]
  <2> DEFINE b == l.cut \/ l.pos # l.start
  <2>1. b \in BOOLEAN /\ (~b => ~l.cut /\ l.pos = l.start)
    OBVIOUS
  <2>2. m = [l EXCEPT !.start = l.pos, !.cut = b]
    BY <1>5
  <2> HIDE DEF b
  <2> QED BY <2>1, <2>2
<1> HIDE DEF LinkShape, Sound
<1> QED BY <1>1, <1>2, <1>3, <1>4, <1>5 DEF Linked

LEMMA FramedKept ==
    ASSUME Shape, Settled, Framed, Moves, UNCHANGED mode PROVE Framed'
<1>1. Framed <=> \A c \in Conns : Sound(conn[c].link)
  BY DEF Framed, Sound
<1>2. Framed' <=> \A c \in Conns : Sound(conn'[c].link)
  BY DEF Framed, Sound
<1>3. CASE Stays
  BY <1>1, <1>2, <1>3 DEF Stays
<1>4. ASSUME NEW c \in Conns, NEW r \in Task, Becomes(c, r) PROVE Framed'
  <2>1. Sound(NewLink)
    BY BridgeAssumption DEF Sound, NewLink
  <2>2. conn[c].link \in LinkShape /\ Sound(conn[c].link)
    BY <1>1 DEF Shape, Task
  <2>3. r.link = conn[c].link \/ r.link = NewLink \/ Linked(conn[c].link, r.link)
    BY <1>4 DEF Becomes, Kind, Walks, Settles, Opens, Closes, Checks, Records, Reports, Relays
  <2>4. Sound(r.link)
    BY <2>1, <2>2, <2>3, SoundKept
  <2> QED BY <1>1, <1>2, <1>4, <2>4, Others
<1> QED BY <1>3, <1>4, Moving

-----------------------------------------------------------------------------
(* Counting connections.                                                   *)

LEMMA Fleet ==
    ASSUME NEW i \in Ips
    PROVE  /\ IsFiniteSet(ConnsOf(i)) /\ Cardinality(ConnsOf(i)) \in Nat
           /\ \A S \in SUBSET ConnsOf(i) :
                 IsFiniteSet(S) /\ Cardinality(S) \in Nat /\ Cardinality(S) <= Cardinality(ConnsOf(i))
<1>1. ConnsOf(i) \in SUBSET Conns /\ IsFiniteSet(Conns)
  BY BridgeAssumption DEF ConnsOf
<1>2. IsFiniteSet(ConnsOf(i))
  BY <1>1, FS_Subset
<1> QED BY <1>2, FS_Subset, FS_CardinalityType

LEMMA GaugeKept ==
    ASSUME Shape, Settled, Gauge, Moves, UNCHANGED mode PROVE Gauge'
<1> DEFINE S == {c \in Conns : conn[c].pc # "closed"}
           T == {c \in Conns : conn'[c].pc # "closed"}
<1>1. IsFiniteSet(S)
  <2>1. S \in SUBSET Conns /\ IsFiniteSet(Conns)
    BY BridgeAssumption
  <2> QED BY <2>1, FS_Subset
<1>2. Cardinality(S) \in Nat /\ active = Cardinality(S)
  BY <1>1, FS_CardinalityType DEF Gauge
<1>3. CASE Stays
  BY <1>3 DEF Stays, Gauge
<1>4. ASSUME NEW c \in Conns, NEW r \in Task, Becomes(c, r) PROVE Gauge'
  <2>1. Kind(c, r)
    BY <1>4 DEF Becomes
  <2>2. CASE Opens(c, r)
    <3>1. T = S \cup {c} /\ c \notin S /\ active' = active + 1
      BY <1>4, <2>2, Others DEF Opens
    <3>2. Cardinality(T) = Cardinality(S) + 1
      BY <1>1, <3>1, FS_AddElement
    <3> QED BY <1>2, <3>1, <3>2 DEF Gauge
  <2>3. CASE Closes(c, r)
    <3>1. T = S \ {c} /\ c \in S /\ active' = active - 1
      BY <1>4, <2>3, Others DEF Closes
    <3>2. Cardinality(T) = Cardinality(S) - 1
      BY <1>1, <3>1, FS_RemoveElement
    <3> QED BY <1>2, <3>1, <3>2 DEF Gauge
  <2>4. CASE ~(Opens(c, r) \/ Closes(c, r))
    <3>1. active' = active /\ conn[c].pc # "closed" /\ r.pc # "closed"
      BY <2>1, <2>4 DEF Kind, Walks, Settles, Checks, Records, Reports, Relays, Tables, Carrying
    <3>2. T = S
      BY <1>4, <3>1, Others
    <3> QED BY <1>2, <3>1, <3>2 DEF Gauge
  <2> QED BY <2>2, <2>3, <2>4
<1> QED BY <1>3, <1>4, Moving

LEMMA OvershootKept ==
    ASSUME Shape, Settled, Funded, QuotaOvershoot, Moves, UNCHANGED mode
    PROVE  QuotaOvershoot'
<1> DEFINE n(i) == Cardinality(InFlight(i))
           m(i) == Cardinality({c \in Conns : IpOf[c] = i /\ Flying(conn'[c])})
           k(i) == Cardinality(ConnsOf(i))
\* A quota not raised has room for no more prompts in flight, one raised by one for one less.
<1>0. ASSUME NEW i \in Ips PROVE n(i) \in Nat /\ m(i) \in Nat /\ k(i) \in Nat /\ m(i) <= k(i)
  <2>1. /\ InFlight(i) \in SUBSET ConnsOf(i)
        /\ {c \in Conns : IpOf[c] = i /\ Flying(conn'[c])} \in SUBSET ConnsOf(i)
    BY DEF InFlight, ConnsOf
  <2> QED BY <2>1, Fleet
<1>1. QuotaOvershoot' <=> \A i \in Ips : quota'[i] # NoQuota =>
          quota'[i].day + m(i) < DailyLimit + k(i) /\ quota'[i].month + m(i) < MonthlyLimit + k(i)
  BY DEF QuotaOvershoot, InFlight, ConnsOf, Flying
<1>2. ASSUME NEW i \in Ips, quota[i] # NoQuota
      PROVE  quota[i].day + n(i) < DailyLimit + k(i) /\ quota[i].month + n(i) < MonthlyLimit + k(i)
  BY <1>2 DEF QuotaOvershoot
<1> DEFINE Fits(i, q) ==
        q.day + m(i) < DailyLimit + k(i) /\ q.month + m(i) < MonthlyLimit + k(i)
<1>3. ASSUME NEW i \in Ips, NEW q \in QuotaRecord, m(i) <= n(i),
             \/ q.day = 0 /\ q.month = 0
             \/ /\ quota[i] # NoQuota
                /\ q.day <= quota[i].day /\ q.month <= quota[i].month
      PROVE  Fits(i, q)
  <2>1. q.day \in Nat /\ q.month \in Nat /\ DailyLimit \in Nat \ {0} /\ MonthlyLimit \in Nat \ {0}
    BY FeaturesAssumption DEF QuotaRecord
  <2>2. n(i) \in Nat /\ m(i) \in Nat /\ k(i) \in Nat /\ m(i) <= k(i)
    BY <1>0
  <2>3. CASE q.day = 0 /\ q.month = 0
    <3> HIDE DEF n, m, k
    <3> QED BY <2>1, <2>2, <2>3
  <2>4. CASE quota[i] # NoQuota /\ q.day <= quota[i].day /\ q.month <= quota[i].month
    <3>1. quota[i].day \in Nat /\ quota[i].month \in Nat
      BY <2>4 DEF Shape, QuotaRecord
    <3>2. quota[i].day + n(i) < DailyLimit + k(i) /\ quota[i].month + n(i) < MonthlyLimit + k(i)
      BY <1>2, <2>4
    <3> HIDE DEF n, m, k
    <3> QED BY <1>3, <2>1, <2>2, <2>4, <3>1, <3>2
  <2> QED BY <1>3, <2>3, <2>4
<1>4. CASE Stays
  <2>1. ASSUME NEW i \in Ips PROVE m(i) <= n(i)
    <3>1. m(i) = n(i)
      BY <1>4 DEF Stays, InFlight, Flying
    <3> QED BY <1>0, <3>1
  <2>2. ASSUME NEW i \in Ips, quota'[i] # NoQuota PROVE Fits(i, quota'[i])
    <3> HIDE DEF n, m, k, Fits
    <3>1. CASE quota'[i] = quota[i]
      <4>1. quota[i] \in QuotaRecord
        BY <2>2, <3>1 DEF Shape
      <4>2. quota[i].day \in Nat /\ quota[i].month \in Nat
        BY <4>1 DEF QuotaRecord
      <4> QED BY <1>3, <2>1, <2>2, <3>1, <4>1, <4>2
    <3>2. CASE quota'[i] = QuotaOf(i)
      BY <1>3, <2>1, <3>2, QuotaOfKept
    <3> QED BY <1>4, <3>1, <3>2 DEF Stays, Shape
  <2> QED BY <1>1, <2>2
<1>5. ASSUME NEW c \in Conns, NEW r \in Task, Becomes(c, r), NEW i \in Ips, quota'[i] # NoQuota
      PROVE  Fits(i, quota'[i])
  <2> DEFINE S == InFlight(i)
             T == {d \in Conns : IpOf[d] = i /\ Flying(conn'[d])}
  <2>1. S \in SUBSET ConnsOf(i) /\ T \in SUBSET ConnsOf(i)
    BY DEF InFlight, ConnsOf
  <2>2. IsFiniteSet(S) /\ IsFiniteSet(T) /\ Cardinality(S) \in Nat /\ Cardinality(T) \in Nat
    BY <2>1, Fleet
  <2>3. (\A d \in Conns : IpOf[d] = i /\ Flying(conn'[d]) => Flying(conn[d])) => m(i) <= n(i)
    <3>1. ASSUME \A d \in Conns : IpOf[d] = i /\ Flying(conn'[d]) => Flying(conn[d])
          PROVE  m(i) <= n(i)
      <4>1. T \in SUBSET S
        BY <3>1 DEF InFlight, Flying
      <4> QED BY <2>2, <4>1, FS_Subset
    <3> QED BY <3>1
  <2>4. CASE quota'[i] = quota[i] /\ (IpOf[c] = i /\ Flying(r) => Flying(conn[c]))
    <3>1. m(i) <= n(i)
      BY <1>5, <2>3, <2>4, Others
    <3>2. quota[i] \in QuotaRecord
      BY <1>5, <2>4 DEF Shape
    <3>3. quota[i].day \in Nat /\ quota[i].month \in Nat
      BY <3>2 DEF QuotaRecord
    <3> HIDE DEF n, m, k, Fits
    <3> QED BY <1>3, <1>5, <2>4, <3>1, <3>2, <3>3
  <2>5. CASE Checks(c, r) /\ IpOf[c] = i
    <3>1. quota'[i] = QuotaOf(i) /\ QuotaOf(i) \in QuotaRecord
      BY <2>5, QuotaOfKept DEF Checks, Shape
    <3>2. CASE r.pc = "idle"
      <4>1. m(i) <= n(i)
        BY <1>5, <2>3, <3>2, Others DEF Flying
      <4> HIDE DEF n, m, k, Fits
      <4> QED BY <1>3, <3>1, <4>1, QuotaOfKept
    <3>3. CASE QuotaAllows(QuotaOf(i))
      <4>1. /\ QuotaOf(i).day < DailyLimit /\ QuotaOf(i).month < MonthlyLimit
            /\ QuotaOf(i).day \in Nat /\ QuotaOf(i).month \in Nat
            /\ DailyLimit \in Nat /\ MonthlyLimit \in Nat
        BY <3>1, <3>3, FeaturesAssumption DEF QuotaAllows, QuotaRecord
      <4>2. m(i) \in Nat /\ k(i) \in Nat /\ m(i) <= k(i)
        BY <1>0
      <4> HIDE DEF m, k
      <4> QED BY <3>1, <4>1, <4>2
    <3> QED BY <2>5, <3>2, <3>3 DEF Checks
  <2>6. CASE Records(c, r) /\ IpOf[c] = i
    <3>1. T = S \ {c} /\ c \in S
      BY <1>5, <2>6, Others DEF Records, InFlight, Flying
    <3>2. m(i) = n(i) - 1
      BY <2>2, <3>1, FS_RemoveElement
    <3>3. /\ quota'[i] \in QuotaRecord /\ quota[i] \in QuotaRecord
          /\ quota'[i].day <= quota[i].day + 1 /\ quota'[i].month <= quota[i].month + 1
      BY <2>6, UsageRecorded DEF Records, Shape
    <3>4. quota[i].day + n(i) < DailyLimit + k(i) /\ quota[i].month + n(i) < MonthlyLimit + k(i)
      BY <1>2, <3>3, BridgeAssumption
    <3>5. /\ quota'[i].day \in Nat /\ quota'[i].month \in Nat
          /\ quota[i].day \in Nat /\ quota[i].month \in Nat
          /\ DailyLimit \in Nat /\ MonthlyLimit \in Nat
      BY <3>3, FeaturesAssumption DEF QuotaRecord
    <3>6. n(i) \in Nat /\ m(i) \in Nat /\ k(i) \in Nat
      BY <1>0
    <3> HIDE DEF n, m, k
    <3> QED BY <3>2, <3>3, <3>4, <3>5, <3>6
  <2>7. CASE (Checks(c, r) \/ Records(c, r)) /\ IpOf[c] # i
    <3>1. quota'[i] = quota[i]
      BY <2>7 DEF Checks, Records, Shape
    <3> QED BY <2>4, <2>7, <3>1
  <2>8. CASE ~(Checks(c, r) \/ Records(c, r))
    <3>1. UNCHANGED quota /\ (Flying(r) => Flying(conn[c]))
      BY <1>5, <2>8 DEF Becomes, Kind, Walks, Settles, Opens, Closes, Reports, Relays, Tables,
         Flying, Carrying
    <3> QED BY <2>4, <3>1
  <2> QED BY <2>5, <2>6, <2>7, <2>8
<1> QED BY <1>1, <1>4, <1>5, Moving

-----------------------------------------------------------------------------
(* The buckets.                                                            *)

Buckets ==
    /\ arrivals \in [Ips -> Bucket(MaxConnections) \cup {NoBucket}]
    /\ messages \in [Ips -> Bucket(MaxRequests) \cup {NoBucket}]
    /\ \A i \in Ips : /\ arrivals[i] # NoBucket => arrivals[i].last <= now
                      /\ messages[i] # NoBucket => messages[i].last <= now

LEMMA BucketKept ==
    ASSUME NEW max \in Nat, NEW t \in Nat
    PROVE  /\ NewBucket(max, t) \in Bucket(max) /\ NewBucket(max, t).last = t
           /\ \A b \in Bucket(max) : b.last <= t =>
                 TryConsume(b, t) \in Bucket(max) /\ TryConsume(b, t).last = t
<1>0. Window \in Nat /\ max * Window \in Nat
  BY FeaturesAssumption
<1>1. NewBucket(max, t) \in Bucket(max) /\ NewBucket(max, t).last = t
  BY <1>0 DEF NewBucket, Bucket
<1>2. ASSUME NEW b \in Bucket(max), b.last <= t
      PROVE  TryConsume(b, t) \in Bucket(max) /\ TryConsume(b, t).last = t
  <2>1. b.tokens \in Nat /\ b.max = max /\ t - b.last \in Nat
    BY <1>0, <1>2 DEF Bucket
  <2>2. (t - b.last) * b.max \in Nat
    BY <2>1
  <2>3. Refilled(b, t) \in 0..max * Window
    BY <1>0, <2>1, <2>2 DEF Refilled, AtMost
  <2> DEFINE n == Refilled(b, t) - (IF HasToken(b, t) THEN Window ELSE 0)
  <2>4. n \in 0..max * Window
    BY <1>0, <2>3 DEF HasToken
  <2>5. TryConsume(b, t) = [b EXCEPT !.last = t, !.tokens = n]
    BY DEF TryConsume
  <2> HIDE DEF n
  <2> QED BY <2>4, <2>5 DEF Bucket
<1> QED BY <1>1, <1>2

LEMMA BucketsKept ==
    ASSUME Shape, Buckets, Moves, UNCHANGED mode PROVE Buckets'
<1> USE DEF Buckets
<1>0. now \in Nat /\ MaxConnections \in Nat /\ MaxRequests \in Nat
  BY BridgeAssumption DEF Shape
<1>1. CASE UNCHANGED <<arrivals, messages, now>>
  BY <1>1
<1>2. CASE Tick
  BY <1>0, <1>2 DEF Tick, shared, Bucket
<1>3. CASE Cleanup
  BY <1>3 DEF Cleanup, Kept
<1>4. ASSUME NEW c \in Conns, Accept(c) PROVE Buckets'
  <2> DEFINE i == IpOf[c]
             b == TryConsume(ArrivalBucket(i), now)
  <2>1. i \in Ips
    BY BridgeAssumption
  <2>2. ArrivalBucket(i) \in Bucket(MaxConnections) /\ ArrivalBucket(i).last <= now
    BY <1>0, <2>1, BucketKept DEF ArrivalBucket
  <2>3. b \in Bucket(MaxConnections) /\ b.last = now
    BY <1>0, <2>2, BucketKept
  <2>4. arrivals' = [arrivals EXCEPT ![i] = b] /\ UNCHANGED <<messages, now>>
    BY <1>4 DEF Accept
  <2> HIDE DEF i, b
  <2> QED BY <1>0, <2>1, <2>3, <2>4
<1>5. ASSUME NEW c \in Conns, Limited(c) \/ Admit(c) PROVE Buckets'
  <2> DEFINE i == IpOf[c]
             b == TryConsume(MessageBucket(i), now)
  <2>1. i \in Ips
    BY BridgeAssumption
  <2>2. MessageBucket(i) \in Bucket(MaxRequests) /\ MessageBucket(i).last <= now
    BY <1>0, <2>1, BucketKept DEF MessageBucket
  <2>3. b \in Bucket(MaxRequests) /\ b.last = now
    BY <1>0, <2>2, BucketKept
  <2>4. messages' = [messages EXCEPT ![i] = b] /\ UNCHANGED <<arrivals, now>>
    BY <1>5 DEF Limited, Admit
  <2> HIDE DEF i, b
  <2> QED BY <1>0, <2>1, <2>3, <2>4
<1>6. ASSUME NEW c \in Conns,
             \/ Answer(c) \/ Greet(c) \/ Control(c) \/ Leave(c) \/ \E t \in Tools : SelectTool(c, t)
             \/ \E t \in Tools \cup {NoTool} : Prompt(c, t)
             \/ QuotaStatus(c) \/ GetMetrics(c)
      PROVE  Admit(c)
  BY <1>6 DEF Answer, Greet, Control, Leave, SelectTool, Prompt, QuotaStatus, GetMetrics
<1>7. ASSUME NEW c \in Conns,
             Open(c) \/ Close(c) \/ HangUp(c) \/ Execute(c) \/ SendMetrics(c) \/ RelayStep(c)
      PROVE  UNCHANGED <<arrivals, messages, now>>
  BY <1>7 DEF Open, Close, HangUp, SendMetrics, RelayStep, ServerSends, RecvLength, RecvMessage,
              Misread, Forward, RelayEnds, Links, Execute, CheckQuota, Choose, Fallback, Spawn,
              Exit, SocketLost, Audit, CountRequest, CountTool, RecordFailure, RecordSuccess,
              Usage, shared
<1>8. ASSUME NEW d \in Dashboards, ReadPage(d) \/ SendPage(d)
      PROVE  UNCHANGED <<arrivals, messages, now>>
  BY <1>8 DEF ReadPage, SendPage, shared
<1> HIDE DEF Buckets
<1> QED BY <1>1, <1>2, <1>3, <1>4, <1>5, <1>6, <1>7, <1>8 DEF Moves

-----------------------------------------------------------------------------
(* The theorems.                                                           *)

IInv == Shape /\ Settled /\ Funded /\ Framed /\ Gauge /\ Buckets /\ QuotaOvershoot

LEMMA Initially == Init => IInv
<1> SUFFICES ASSUME Init PROVE IInv
  OBVIOUS
<1>1. Closed \in Task /\ ~Flying(Closed)
  BY DEF Closed, Task, Places, NoSeen, NewLink, LinkShape, Flying
<1>2. \A c \in Conns : conn[c] = Closed
  BY DEF Init
<1>3. Shape
  BY <1>1, FeaturesAssumption DEF Init, Shape, NewHealth, HealthRecord, NoSeen
<1>4. Settled /\ Funded
  BY <1>1, <1>2 DEF Settled, Funded
<1>5. Framed
  BY <1>2, BridgeAssumption DEF Framed, Closed, NewLink
<1>6. Gauge
  <2>1. {c \in Conns : conn[c].pc # "closed"} = {}
    BY <1>2 DEF Closed
  <2> QED BY <2>1, FS_EmptySet DEF Gauge, Init
<1>7. Buckets /\ QuotaOvershoot
  BY DEF Init, Buckets, QuotaOvershoot
<1> QED BY <1>3, <1>4, <1>5, <1>6, <1>7 DEF IInv

LEMMA Inductive == IInv /\ [Next]_vars => IInv'
<1> SUFFICES ASSUME IInv, [Next]_vars PROVE IInv'
  OBVIOUS
<1>1. CASE Next
  BY <1>1, ShapeKept, ChoiceKept, FramedKept, GaugeKept, BucketsKept, OvershootKept DEF IInv, Next
<1>2. CASE UNCHANGED vars
  BY <1>2 DEF vars, shared, IInv, Shape, Settled, Funded, Framed, Gauge, Buckets, QuotaOvershoot,
              InFlight
<1> QED BY <1>1, <1>2

LEMMA Invariance == Spec => []IInv
BY Initially, Inductive, PTL DEF Spec

(* Every record keeps its shape, buckets hold no more than they may, the   *)
(* gauge of active connections counts no more than there are, and a link's *)
(* reads no more than was sent.                                            *)
THEOREM TypeCorrect == Spec => []TypeOK
<1>1. IInv => TypeOK
  <2> SUFFICES ASSUME IInv PROVE TypeOK
    OBVIOUS
  <2> USE DEF IInv
  <2>1. active \in 0..Cardinality(Conns)
    <3>1. {c \in Conns : conn[c].pc # "closed"} \in SUBSET Conns /\ IsFiniteSet(Conns)
      BY BridgeAssumption
    <3> QED BY <3>1, FS_Subset, FS_CardinalityType DEF Gauge
  <2>2. ASSUME NEW c \in Conns
        PROVE  conn[c] \in [pc : Places, tool : Tools \cup {NoTool}, sel : Tools \cup {NoTool},
                            ok : BOOLEAN, seen : [Tools -> Nat], link : Link]
    <3>1. conn[c] \in Task /\ conn[c].link \in LinkShape
      BY DEF Shape, Task
    <3>2. /\ conn[c].link.sent \in 0..2 * MaxFrames /\ conn[c].link.pos \in 0..2 * MaxFrames
          /\ conn[c].link.start \in 0..2 * MaxFrames /\ conn[c].link.relayed \in 0..MaxFrames
      BY <3>1, BridgeAssumption DEF LinkShape, Framed
    <3>3. conn[c].link \in Link
      BY <3>1, <3>2 DEF LinkShape, Link
    <3> QED BY <3>1, <3>3 DEF Task
  <2>3. conn \in [Conns -> [pc : Places, tool : Tools \cup {NoTool}, sel : Tools \cup {NoTool},
                            ok : BOOLEAN, seen : [Tools -> Nat], link : Link]]
    BY <2>2 DEF Shape
  <2> QED BY <2>1, <2>3 DEF Shape, Buckets, TypeOK
<1> QED BY <1>1, Invariance, PTL

(* However many connections of an address pass the check of its quota      *)
(* before any of them is recorded, the quota is exceeded by no more than   *)
(* the address's other connections.                                        *)
THEOREM QuotaBounded == Spec => []QuotaOvershoot
<1>1. IInv => QuotaOvershoot
  BY DEF IInv
<1> QED BY <1>1, Invariance, PTL

(* In server mode every message is relayed once and frame by frame, unless *)
(* the other side of the select! came between the two reads of a frame.    *)
THEOREM FramesRelayed == Spec => []RelayedWhole
<1>1. IInv => RelayedWhole
  BY DEF IInv, Framed, RelayedWhole
<1> QED BY <1>1, Invariance, PTL

(* A tool found unhealthy gets no prompt, and stays unhealthy, once the    *)
(* last prompt that runs it has reported, while another tool is healthy.   *)
THEOREM NoWayBack == Spec => ExcludedStaysOut
<1> DEFINE Out(t) == ~health[t].healthy /\ ~Carried(t)
<1>1. ASSUME IInv, [Next]_vars, NEW t \in Tools, AutoFailover, Out(t), Healthy(health) # {}
      PROVE  Out(t)'
  <2> USE DEF IInv
  <2>1. Carried(t) <=> \E c \in Conns : conn[c].sel = t /\ Carrying(conn[c])
    BY DEF Carried, Carrying
  <2>2. Carried(t)' <=> \E c \in Conns : conn'[c].sel = t /\ Carrying(conn'[c])
    BY DEF Carried, Carrying
  <2>3. CASE Stays \/ UNCHANGED vars
    BY <1>1, <2>1, <2>2, <2>3 DEF Stays, vars, shared
  <2>4. ASSUME NEW c \in Conns, NEW r \in Task, Becomes(c, r) PROVE Out(t)'
    <3>1. ~(r.sel = t /\ Carrying(r))
      BY <1>1, <2>1, <2>4
         DEF Becomes, Kind, Walks, Settles, Opens, Closes, Checks, Records, Reports, Relays,
             Flying, Carrying
    <3>2. ~Carried(t)'
      BY <1>1, <2>1, <2>2, <2>4, <3>1, Others
    <3>3. health'[t] = health[t]
      BY <1>1, <2>1, <2>4
         DEF Becomes, Kind, Walks, Settles, Opens, Closes, Checks, Records, Reports, Relays,
             Tables, Shape
    <3> QED BY <1>1, <3>2, <3>3
  <2> QED BY <1>1, <2>3, <2>4, Moving DEF Next
<1>2. IInv /\ [Next]_vars
      => [\A t \in Tools :
            (AutoFailover /\ ~health[t].healthy /\ ~Carried(t) /\ Healthy(health) # {})
            => (~health[t].healthy /\ ~Carried(t))']_vars
  BY <1>1
<1> QED BY <1>2, Invariance, PTL DEF Spec, ExcludedStaysOut
-----------------------------------------------------------------------------
(* The metrics: the total is ahead of the table by the requests whose task *)
(* is between the two.                                                     *)

Between == {c \in Conns : conn[c].pc = "tool"}
Below(f, g) == \A t \in Tools : f[t] <= g[t]

Books ==
    /\ IsFiniteSet(Counts(counted)) /\ IsFiniteSet(Between)
    /\ total = Cardinality(Counts(counted)) + Cardinality(Between)

\* What was read of the table is no more than it holds.
Read ==
    /\ \A c \in Conns : Below(conn[c].seen, counted)
    /\ \A d \in Dashboards : Below(page[d].seen, counted)

LEMMA Counting ==
    ASSUME NEW f, NEW x
    PROVE  x \in Counts(f) <=> \E t \in Tools : \E n \in 1..f[t] : x = <<t, n>>
<1>1. ASSUME x \in Counts(f) PROVE \E t \in Tools : \E n \in 1..f[t] : x = <<t, n>>
  <2>1. PICK t \in Tools : x \in {t} \X (1..f[t])
    BY <1>1 DEF Counts
  <2> QED BY <2>1
<1>2. ASSUME NEW t \in Tools, NEW n \in 1..f[t], x = <<t, n>> PROVE x \in Counts(f)
  <2>1. x \in {t} \X (1..f[t])
    BY <1>2
  <2> QED BY <2>1 DEF Counts
<1> QED BY <1>1, <1>2

\* A table below another stands for no more requests.
LEMMA CountsBelow ==
    ASSUME NEW f \in [Tools -> Nat], NEW g \in [Tools -> Nat], Below(f, g)
    PROVE  Counts(f) \subseteq Counts(g)
<1> SUFFICES ASSUME NEW x \in Counts(f) PROVE x \in Counts(g)
  OBVIOUS
<1>0. PICK t \in Tools : \E n \in 1..f[t] : x = <<t, n>>
  BY Counting
<1>1. PICK n \in 1..f[t] : x = <<t, n>>
  BY <1>0
<1>2. n \in 1..g[t]
  BY <1>1 DEF Below
<1> QED BY <1>1, <1>2, Counting

\* Counting a request of a tool adds one that the table did not stand for.
LEMMA CountsNext ==
    ASSUME NEW f \in [Tools -> Nat], NEW t \in Tools, NEW g, g = [f EXCEPT ![t] = @ + 1]
    PROVE  /\ g \in [Tools -> Nat] /\ Below(f, g)
           /\ <<t, f[t] + 1>> \notin Counts(f) /\ Counts(g) = Counts(f) \cup {<<t, f[t] + 1>>}
<1>1. g \in [Tools -> Nat] /\ Below(f, g)
  BY DEF Below
<1>2. <<t, f[t] + 1>> \notin Counts(f)
  <2> SUFFICES ASSUME <<t, f[t] + 1>> \in Counts(f) PROVE FALSE
    OBVIOUS
  <2>0. PICK s \in Tools : \E n \in 1..f[s] : <<t, f[t] + 1>> = <<s, n>>
    BY Counting
  <2>1. PICK n \in 1..f[s] : <<t, f[t] + 1>> = <<s, n>>
    BY <2>0
  <2>2. s = t /\ n = f[t] + 1
    BY <2>1
  <2> QED BY <2>2
<1>3. ASSUME NEW x \in Counts(g), x \notin Counts(f) PROVE x = <<t, f[t] + 1>>
  <2>0. PICK s \in Tools : \E n \in 1..g[s] : x = <<s, n>>
    <3>1. \A h : x \in Counts(h) => \E u \in Tools : \E n \in 1..h[u] : x = <<u, n>>
      BY Counting
    <3> QED BY <1>3, <3>1
  <2>1. PICK n \in 1..g[s] : x = <<s, n>>
    BY <2>0
  <2>2. n \notin 1..f[s]
    <3>1. n \in 1..f[s] => x \in Counts(f)
      BY <2>1, Counting
    <3> QED BY <1>3, <3>1
  <2>3. s = t /\ n = f[t] + 1
    BY <2>2
  <2> QED BY <2>1, <2>3
<1>4. <<t, f[t] + 1>> \in Counts(g)
  <2>1. f[t] + 1 \in 1..g[t]
    OBVIOUS
  <2> QED BY <2>1, Counting
<1>5. Counts(f) \subseteq Counts(g)
  BY <1>1, CountsBelow
<1> QED BY <1>1, <1>2, <1>3, <1>4, <1>5

\* What a step does to the books of a task that becomes r.
Enters(c, r) ==
    \/ /\ UNCHANGED <<total, counted>> /\ (r.pc = "tool" <=> conn[c].pc = "tool")
    \/ /\ total' = total + 1 /\ UNCHANGED counted
       /\ conn[c].pc # "tool" /\ r.pc = "tool"
    \/ /\ counted' = [counted EXCEPT ![conn[c].sel] = @ + 1] /\ UNCHANGED total
       /\ conn[c].sel \in Tools
       /\ conn[c].pc = "tool" /\ r.pc # "tool"

Booked(c, r) ==
    /\ conn' = [conn EXCEPT ![c] = r]
    /\ r.seen \in {conn[c].seen, NoSeen, counted}
    /\ UNCHANGED page
    /\ Enters(c, r)

Looks(d) ==
    /\ UNCHANGED <<total, counted, conn>>
    /\ \E w \in {"idle", "totals"}, s \in {NoSeen, counted} :
          page' = [page EXCEPT ![d] = [pc |-> w, seen |-> s]]

Rests == UNCHANGED <<total, counted, conn, page>>

\* A task whose place alone changes, and none of the books.
LEMMA Passing ==
    ASSUME Shape, NEW c \in Conns, NEW w \in Places, Go(c, w), UNCHANGED <<total, counted, page>>,
           w # "tool", conn[c].pc # "tool"
    PROVE  \E r : Booked(c, r)
<1> DEFINE r == [conn[c] EXCEPT !.pc = w]
<1>1. conn[c] \in Task
  BY DEF Shape
<1>2. r.pc = w /\ r.seen = conn[c].seen /\ conn' = [conn EXCEPT ![c] = r]
  BY <1>1 DEF Task, Go
<1> HIDE DEF r
<1>3. Booked(c, r)
  BY <1>2 DEF Booked, Enters
<1> QED BY <1>3

LEMMA Booking ==
    ASSUME Shape, Settled, Moves, UNCHANGED mode
    PROVE  Rests \/ (\E d \in Dashboards : Looks(d)) \/ \E c \in Conns : \E r : Booked(c, r)
<1>0. \A c \in Conns : conn[c] \in Task
  BY DEF Shape
<1>1. ASSUME NEW c \in Conns, Limited(c) \/ Answer(c) \/ Greet(c) \/ Control(c) PROVE Rests
  BY <1>1 DEF Limited, Answer, Greet, Control, Admit, Rests
<1>2. ASSUME (\E c \in Conns : QuotaStatus(c)) \/ Cleanup \/ Tick PROVE Rests
  BY <1>2 DEF QuotaStatus, Admit, Cleanup, Tick, shared, Rests
<1>3. ASSUME NEW d \in Dashboards, ReadPage(d) \/ SendPage(d) PROVE Looks(d)
  BY <1>3 DEF ReadPage, SendPage, shared, Looks
<1>4. ASSUME NEW c \in Conns,
             \/ Open(c) \/ Leave(c) \/ HangUp(c) \/ RelayEnds(c) \/ Spawn(c) \/ Exit(c)
             \/ Audit(c) \/ RecordFailure(c) \/ RecordSuccess(c)
      PROVE  \E r : Booked(c, r)
  <2>1. PICK w \in {"idle", "relay", "closing", "run", "audit", "failure", "total", "usage"} :
            Go(c, w) /\ UNCHANGED <<total, counted, page>> /\ conn[c].pc # "tool"
    BY <1>4 DEF Open, Leave, HangUp, RelayEnds, Spawn, Exit, Audit, RecordFailure, RecordSuccess,
                Admit, At, shared
  <2> QED BY <2>1, Passing DEF Places
\* A task some fields of which change, and none of the books.
<1>5. ASSUME NEW c \in Conns, NEW r, conn' = [conn EXCEPT ![c] = r],
             UNCHANGED <<total, counted, page>>,
             r.seen \in {conn[c].seen, NoSeen, counted}, r.pc # "tool", conn[c].pc # "tool"
      PROVE  \E q : Booked(c, q)
  BY <1>5 DEF Booked, Enters
<1>6. ASSUME NEW c \in Conns, NEW t \in Tools, SelectTool(c, t) PROVE \E r : Booked(c, r)
  <2> DEFINE k == conn[c]
             r == [k EXCEPT !.tool = t]
  <2>1. conn' = [conn EXCEPT ![c] = r] /\ UNCHANGED <<total, counted, page>> /\ k.pc = "idle"
    BY <1>6 DEF SelectTool, Admit, At
  <2>2. r.seen = k.seen /\ r.pc = k.pc
    BY <1>0 DEF Task
  <2> HIDE DEF r
  <2> QED BY <1>5, <2>1, <2>2
<1>7. ASSUME NEW c \in Conns, NEW t \in Tools \cup {NoTool}, Prompt(c, t)
      PROVE  \E r : Booked(c, r)
  <2> DEFINE k == conn[c]
             r == [k EXCEPT !.pc = "quota", !.sel = t]
  <2>1. conn' = [conn EXCEPT ![c] = r] /\ UNCHANGED <<total, counted, page>> /\ k.pc = "idle"
    BY <1>7 DEF Prompt, Admit, At
  <2>2. r.seen = k.seen /\ r.pc = "quota"
    BY <1>0 DEF Task
  <2> HIDE DEF r
  <2> QED BY <1>5, <2>1, <2>2
<1>8. ASSUME NEW c \in Conns, CheckQuota(c) PROVE \E r : Booked(c, r)
  <2> DEFINE k == conn[c]
             u == Requested(c)
  <2>1. PICK w \in {"choose", "idle"} : \E s \in {u, NoTool} :
            conn' = [conn EXCEPT ![c] = [k EXCEPT !.pc = w, !.sel = s]]
    BY <1>8 DEF CheckQuota
  <2>2. PICK s \in {u, NoTool} : conn' = [conn EXCEPT ![c] = [k EXCEPT !.pc = w, !.sel = s]]
    BY <2>1
  <2>3. k.pc = "quota" /\ UNCHANGED <<total, counted, page>>
    BY <1>8 DEF CheckQuota, At
  <2> DEFINE r == [k EXCEPT !.pc = w, !.sel = s]
  <2>4. r.seen = k.seen /\ r.pc = w
    BY <1>0 DEF Task
  <2> HIDE DEF r
  <2> QED BY <1>5, <2>1, <2>2, <2>3, <2>4 DEF r
<1>9. ASSUME NEW c \in Conns, Choose(c) \/ Fallback(c) PROVE \E r : Booked(c, r)
  <2>1. UNCHANGED <<total, counted, page>> /\ conn[c].pc \in {"choose", "fallback"}
    BY <1>9 DEF Choose, Fallback, At, shared
  <2>2. CASE Go(c, "fallback")
    BY <2>1, <2>2, Passing DEF Places
  <2>3. ASSUME NEW t, Settle(c, t) PROVE \E r : Booked(c, r)
    <3> DEFINE k == conn[c]
               r == [k EXCEPT !.pc = "spawn", !.sel = t, !.tool = t]
    <3>1. conn' = [conn EXCEPT ![c] = r]
      BY <2>3 DEF Settle
    <3>2. r.seen = k.seen /\ r.pc = "spawn"
      BY <1>0 DEF Task
    <3> HIDE DEF r
    <3> QED BY <1>5, <2>1, <3>1, <3>2
  <2> QED BY <1>9, <2>2, <2>3 DEF Choose, Fallback
<1>10. ASSUME NEW c \in Conns, SocketLost(c) PROVE \E r : Booked(c, r)
  <2> DEFINE k == conn[c]
             r == [k EXCEPT !.pc = "audit", !.ok = FALSE]
  <2>1. conn' = [conn EXCEPT ![c] = r] /\ UNCHANGED <<total, counted, page>> /\ k.pc # "tool"
    BY <1>10 DEF SocketLost, shared
  <2>2. r.seen = k.seen /\ r.pc = "audit"
    BY <1>0 DEF Task
  <2> HIDE DEF r
  <2> QED BY <1>5, <2>1, <2>2
<1>11. ASSUME NEW c \in Conns, Usage(c) PROVE \E r : Booked(c, r)
  <2> DEFINE k == conn[c]
             r == [k EXCEPT !.pc = "idle", !.sel = NoTool]
  <2>1. conn' = [conn EXCEPT ![c] = r] /\ UNCHANGED <<total, counted, page>> /\ k.pc # "tool"
    BY <1>11 DEF Usage, At
  <2>2. r.seen = k.seen /\ r.pc = "idle"
    BY <1>0 DEF Task
  <2> HIDE DEF r
  <2> QED BY <1>5, <2>1, <2>2
<1>12. ASSUME NEW c \in Conns, Accept(c) PROVE Rests \/ \E r : Booked(c, r)
  <2>1. UNCHANGED <<total, counted, page>> /\ conn[c].pc = "closed"
    BY <1>12 DEF Accept, At
  <2>2. CASE Go(c, "opening")
    BY <2>1, <2>2, Passing DEF Places
  <2>3. CASE UNCHANGED conn
    BY <2>1, <2>3 DEF Rests
  <2> QED BY <1>12, <2>2, <2>3 DEF Accept
<1>13. ASSUME NEW c \in Conns, Close(c) PROVE \E r : Booked(c, r)
  <2>1. conn' = [conn EXCEPT ![c] = Closed] /\ UNCHANGED <<total, counted, page>>
        /\ conn[c].pc = "closing"
    BY <1>13 DEF Close, At
  <2>2. Closed.seen = NoSeen /\ Closed.pc = "closed"
    BY DEF Closed
  <2> QED BY <1>5, <2>1, <2>2
<1>14. ASSUME NEW c \in Conns, GetMetrics(c) \/ SendMetrics(c) PROVE \E r : Booked(c, r)
  <2> DEFINE k == conn[c]
  <2>1. PICK w \in {"totals", "idle"} : \E s \in {counted, NoSeen} :
            conn' = [conn EXCEPT ![c] = [k EXCEPT !.pc = w, !.seen = s]]
    BY <1>14 DEF GetMetrics, SendMetrics
  <2>2. PICK s \in {counted, NoSeen} : conn' = [conn EXCEPT ![c] = [k EXCEPT !.pc = w, !.seen = s]]
    BY <2>1
  <2>3. k.pc # "tool" /\ UNCHANGED <<total, counted, page>>
    BY <1>14 DEF GetMetrics, SendMetrics, Admit, At, shared
  <2> DEFINE r == [k EXCEPT !.pc = w, !.seen = s]
  <2>4. r.seen = s /\ r.pc = w
    BY <1>0 DEF Task
  <2> HIDE DEF r
  <2> QED BY <1>5, <2>2, <2>3, <2>4 DEF r
<1>15. ASSUME NEW c \in Conns,
              ServerSends(c) \/ RecvLength(c) \/ RecvMessage(c) \/ Misread(c) \/ Forward(c)
       PROVE  \E r : Booked(c, r)
  <2> DEFINE k == conn[c]
  <2>1. PICK l : Links(c, l) /\ k.pc = "relay"
    BY <1>15 DEF ServerSends, RecvLength, RecvMessage, Misread, Forward, Readable, At
  <2> DEFINE r == [k EXCEPT !.link = l]
  <2>2. conn' = [conn EXCEPT ![c] = r] /\ UNCHANGED <<total, counted, page>>
    BY <2>1 DEF Links, shared
  <2>3. r.seen = k.seen /\ r.pc = k.pc
    BY <1>0 DEF Task
  <2> HIDE DEF r
  <2> QED BY <1>5, <2>1, <2>2, <2>3
<1>16. ASSUME NEW c \in Conns, CountRequest(c) \/ CountTool(c) PROVE \E r : Booked(c, r)
  <2> DEFINE k == conn[c]
  <2>1. PICK w \in {"tool", "success"} :
           /\ conn' = [conn EXCEPT ![c] = [k EXCEPT !.pc = w]] /\ UNCHANGED page
           /\ \/ w = "tool" /\ k.pc = "total" /\ total' = total + 1 /\ UNCHANGED counted
              \/ /\ w = "success" /\ k.pc = "tool" /\ UNCHANGED total
                 /\ counted' = [counted EXCEPT ![k.sel] = @ + 1]
    BY <1>16 DEF CountRequest, CountTool, Go, At
  <2> DEFINE r == [k EXCEPT !.pc = w]
  <2>2. r.seen = k.seen /\ r.pc = w
    BY <1>0 DEF Task
  <2>3. k.pc = "tool" => k.sel \in Tools
    BY DEF Settled, Flying
  <2>4. conn' = [conn EXCEPT ![c] = r]
    BY <2>1
  <2> HIDE DEF r
  <2>5. Enters(c, r)
    BY <2>1, <2>2, <2>3 DEF Enters
  <2> QED BY <2>1, <2>2, <2>4, <2>5 DEF Booked
<1> QED BY <1>1, <1>2, <1>3, <1>4, <1>6, <1>7, <1>8, <1>9, <1>10, <1>11, <1>12, <1>13, <1>14,
           <1>15, <1>16 DEF Moves, Execute, RelayStep

LEMMA BooksKept ==
    ASSUME Shape, Settled, Books, Read, Moves, UNCHANGED mode
    PROVE  Books' /\ Read'
<1>0. /\ counted \in [Tools -> Nat] /\ total \in Nat
      /\ Cardinality(Counts(counted)) \in Nat /\ Cardinality(Between) \in Nat
  BY FS_CardinalityType DEF Shape, Books
<1>1. Below(counted, counted) /\ Below(NoSeen, counted)
  BY <1>0 DEF Below, NoSeen
<1>2. CASE Rests
  BY <1>2 DEF Rests, Books, Read, Between
<1>3. ASSUME NEW d \in Dashboards, Looks(d) PROVE Books' /\ Read'
  <2>1. Books' /\ UNCHANGED <<conn, counted>>
    BY <1>3 DEF Looks, Books, Between
  <2>2. ASSUME NEW e \in Dashboards PROVE page'[e].seen \in {page[e].seen, NoSeen, counted}
    BY <1>3 DEF Looks, Shape
  <2> QED BY <1>1, <2>1, <2>2 DEF Read
<1>4. ASSUME NEW c \in Conns, NEW r, Booked(c, r) PROVE Books' /\ Read'
  <2>1. /\ conn'[c] = r /\ \A e \in Conns : e # c => conn'[e] = conn[e]
        /\ page' = page
    BY <1>4 DEF Booked, Shape
  <2>2. counted' \in [Tools -> Nat] /\ Below(counted, counted')
    <3>1. CASE counted' = counted
      BY <1>0, <1>1, <3>1
    <3>2. CASE conn[c].sel \in Tools /\ counted' = [counted EXCEPT ![conn[c].sel] = @ + 1]
      BY <1>0, <3>2, CountsNext
    <3> QED BY <1>4, <3>1, <3>2 DEF Booked, Enters
  <2>3. Read'
    <3>1. ASSUME NEW e \in Conns PROVE Below(conn'[e].seen, counted')
      <4>1. Below(conn'[e].seen, counted)
        BY <1>1, <1>4, <2>1 DEF Booked, Read
      <4>2. conn'[e].seen \in [Tools -> Nat]
        <5>1. conn[e].seen \in [Tools -> Nat] /\ NoSeen \in [Tools -> Nat]
          BY DEF Shape, Task, NoSeen
        <5> QED BY <1>0, <1>4, <2>1, <5>1 DEF Booked
      <4> HIDE DEF Shape
      <4> QED BY <1>0, <2>2, <4>1, <4>2 DEF Below
    <3>2. ASSUME NEW d \in Dashboards PROVE Below(page'[d].seen, counted')
      <4>1. page[d].seen \in [Tools -> Nat] /\ Below(page[d].seen, counted)
        BY DEF Shape, Read
      <4> QED BY <1>0, <2>1, <2>2, <4>1 DEF Below
    <3> QED BY <3>1, <3>2 DEF Read
  <2>4. CASE UNCHANGED <<total, counted>> /\ (r.pc = "tool" <=> conn[c].pc = "tool")
    <3>1. Between' = Between
      BY <2>1, <2>4 DEF Between
    <3> QED BY <2>3, <2>4, <3>1 DEF Books
  <2>5. CASE total' = total + 1 /\ counted' = counted /\ conn[c].pc # "tool" /\ r.pc = "tool"
    <3>1. Between' = Between \cup {c} /\ c \notin Between
      BY <2>1, <2>5 DEF Between
    <3>2. IsFiniteSet(Between') /\ Cardinality(Between') = Cardinality(Between) + 1
      BY <3>1, FS_AddElement DEF Books
    <3> QED BY <1>0, <2>3, <2>5, <3>2 DEF Books
  <2>6. CASE /\ counted' = [counted EXCEPT ![conn[c].sel] = @ + 1] /\ total' = total
             /\ conn[c].sel \in Tools /\ conn[c].pc = "tool" /\ r.pc # "tool"
    <3> DEFINE x == <<conn[c].sel, counted[conn[c].sel] + 1>>
    <3>1. Between' = Between \ {c} /\ c \in Between
      BY <2>1, <2>6 DEF Between
    <3>2. IsFiniteSet(Between') /\ Cardinality(Between') = Cardinality(Between) - 1
      BY <3>1, FS_RemoveElement DEF Books
    <3>3. x \notin Counts(counted) /\ Counts(counted') = Counts(counted) \cup {x}
      BY <1>0, <2>6, CountsNext
    <3> HIDE DEF x
    <3>4. /\ IsFiniteSet(Counts(counted'))
          /\ Cardinality(Counts(counted')) = Cardinality(Counts(counted)) + 1
      BY <3>3, FS_AddElement DEF Books
    <3>5. Counts(counted)' = Counts(counted')
      BY DEF Counts
    <3> QED BY <1>0, <2>3, <2>6, <3>2, <3>4, <3>5 DEF Books
  <2> QED BY <1>4, <2>4, <2>5, <2>6 DEF Booked, Enters
<1> QED BY <1>2, <1>3, <1>4, Booking

(* Whatever is recorded while the metrics are read, the total a client or  *)
(* the dashboard shows is never below the sum of the tools' counts shown,  *)
(* for any number of tools, connections and pages.                         *)
THEOREM TotalCovers == Spec => []TotalCoversTools
<1> DEFINE BInv == Books /\ Read
<1>1. Init => BInv
  <2> SUFFICES ASSUME Init PROVE BInv
    OBVIOUS
  <2>1. Counts(counted) = {}
    <3>1. \A x : x \notin Counts(counted)
      BY Counting DEF Init
    <3> QED BY <3>1
  <2>2. Between = {}
    BY DEF Init, Closed, Between
  <2>3. Books
    BY <2>1, <2>2, FS_EmptySet DEF Init, Books
  <2>4. Read
    BY DEF Init, Read, Below, Closed, NoSeen
  <2> QED BY <2>3, <2>4
<1>2. IInv /\ BInv /\ [Next]_vars => BInv'
  <2>1. CASE UNCHANGED vars
    BY <2>1 DEF vars, shared, Books, Read, Between
  <2>2. IInv /\ BInv /\ Next => BInv'
    BY BooksKept DEF IInv, Next
  <2> QED BY <2>1, <2>2 DEF vars, shared, Books, Read, Between
<1>3. IInv /\ BInv => TotalCoversTools
  <2> SUFFICES ASSUME IInv, BInv PROVE TotalCoversTools
    OBVIOUS
  <2>1. counted \in [Tools -> Nat]
    BY DEF IInv, Shape
  <2>2. ASSUME NEW f \in [Tools -> Nat], Below(f, counted) PROVE Cardinality(Counts(f)) <= total
    <3>1. Counts(f) \subseteq Counts(counted)
      BY <2>1, <2>2, CountsBelow
    <3>2. Cardinality(Counts(f)) <= Cardinality(Counts(counted)) /\ Cardinality(Counts(f)) \in Nat
      BY <3>1, FS_Subset, FS_CardinalityType DEF Books
    <3>3. Cardinality(Counts(counted)) \in Nat /\ Cardinality(Between) \in Nat
      BY FS_CardinalityType DEF Books
    <3> QED BY <3>2, <3>3 DEF Books
  <2>3. /\ \A c \in Conns : conn[c].seen \in [Tools -> Nat]
        /\ \A d \in Dashboards : page[d].seen \in [Tools -> Nat]
    BY DEF IInv, Shape, Task
  <2> QED BY <2>2, <2>3 DEF Read, TotalCoversTools
<1> QED BY <1>1, <1>2, <1>3, Invariance, PTL DEF Spec
=============================================================================
