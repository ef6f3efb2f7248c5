------------------------------- MODULE Bridge -------------------------------
(***************************************************************************)
(* The WebSocket bridge (crates/bridge/src/main.rs): one task a            *)
(* connection, all of them sharing BridgeState, and the dashboard          *)
(* (dashboard.rs) that reads it.  In local mode every prompt runs          *)
(* polyglot-local once; in server mode a connection is relayed to a QUIC   *)
(* stream of its own, frame by frame.                                      *)
(*                                                                         *)
(* A call on BridgeState takes a lock or an atomic of its own, so between  *)
(* two calls of a handler the other tasks run: each call is a step.  What  *)
(* a message says, the codec and the output of the child are abstracted;   *)
(* a request that only answers leaves the state as it was.  The bridge     *)
(* never inserts into its response cache or its token table, so a lookup   *)
(* in either finds nothing and is left out.                                *)
(***************************************************************************)
EXTENDS Features, FiniteSets

CONSTANTS
    Modes,          \* what config.mode may be, of "local" and "server"
    MaxFrames,      \* bound on the frames a server sends on a stream
    Conns,          \* places for connections: a place is used again once closed
    Ips, IpOf,      \* the address a place connects from: also the quota's user
    Dashboards,     \* HTTP requests to the dashboard
    MaxRequests,    \* config.rate_limit, per Window
    MaxConnections, \* config.max_connections_per_ip, per Window
    AutoFailover,   \* config.auto_failover
    DefaultTool,    \* Tool::Claude
    Latencies,      \* what a request may take
    MaxTime,        \* bound on the clock
    NoTool, NoBucket, NoQuota

QuotaRecord == [day : Nat, month : Nat, dayReset : Nat, monthReset : Nat]

ASSUME BridgeAssumption ==
    /\ IsFiniteSet(Conns) /\ IsFiniteSet(Tools)
    /\ Modes \subseteq {"local", "server"} /\ MaxFrames \in Nat
    /\ IpOf \in [Conns -> Ips]
    /\ {MaxRequests, MaxConnections} \subseteq Nat \ {0}
    /\ AutoFailover \in BOOLEAN
    /\ DefaultTool \in Tools /\ NoTool \notin Tools
    /\ Latencies \subseteq 0..NoLatency
    /\ MaxTime \in Nat
    /\ NoQuota \notin QuotaRecord

VARIABLES
    mode,     \* config.mode
    now,      \* the clock
    arrivals, \* RateLimiter buckets "conn:<ip>"
    messages, \* RateLimiter buckets "<ip>"
    quota,    \* QuotaTracker
    health,   \* HealthChecker
    total,    \* MetricsCollector::total_requests
    counted,  \* MetricsCollector::tool_metrics, requests of a tool
    active,   \* MetricsCollector::active_connections
    rows,     \* audit_log rows without an error, per tool
    conn,     \* the task of a connection
    page      \* the dashboard's requests

shared == <<arrivals, messages, quota, health, total, counted, active, rows>>
vars == <<mode, now, shared, conn, page>>

\* The buckets, quotas and pages never used.
NoSeen == [t \in Tools |-> 0]

\* A stream: units the server sent, those read_exact took, where the present
\* recv_message began; for the property only, the messages relayed and whether a
\* read was abandoned inside a frame.
NewLink == [sent |-> 0, pos |-> 0, start |-> 0, relayed |-> 0, cut |-> FALSE]
Closed ==
    [pc |-> "closed", tool |-> NoTool, sel |-> NoTool, ok |-> TRUE, seen |-> NoSeen,
     link |-> NewLink]

Init ==
    /\ mode \in Modes
    /\ now = 0
    /\ arrivals = [i \in Ips |-> NoBucket]
    /\ messages = [i \in Ips |-> NoBucket]
    /\ quota = [i \in Ips |-> NoQuota]
    /\ health = [t \in Tools |-> NewHealth]
    /\ total = 0
    /\ counted = [t \in Tools |-> 0]
    /\ active = 0
    /\ rows = [t \in Tools |-> 0]
    /\ conn = [c \in Conns |-> Closed]
    /\ page = [d \in Dashboards |-> [pc |-> "idle", seen |-> NoSeen]]

At(c, where) == conn[c].pc = where
Go(c, where) == conn' = [conn EXCEPT ![c].pc = where]

-----------------------------------------------------------------------------
(* The rate limiter.                                                       *)

ArrivalBucket(i) ==
    IF arrivals[i] = NoBucket THEN NewBucket(MaxConnections, now) ELSE arrivals[i]
MessageBucket(i) ==
    IF messages[i] = NoBucket THEN NewBucket(MaxRequests, now) ELSE messages[i]

Kept(buckets) ==
    [i \in Ips |-> IF buckets[i] # NoBucket /\ Expired(buckets[i], now) THEN NoBucket ELSE buckets[i]]

\* RateLimiter::cleanup, from a task of its own.
Cleanup ==
    /\ messages' = Kept(messages)
    /\ arrivals' = Kept(arrivals)
    /\ UNCHANGED <<now, quota, health, total, counted, active, rows, conn, page>>

-----------------------------------------------------------------------------
(* Connections come and go.                                                *)

\* The accept loop: an address without a token is dropped, else a task is
\* spawned for the connection.
Accept(c) ==
    LET b == ArrivalBucket(IpOf[c])
    IN  /\ At(c, "closed")
        /\ arrivals' = [arrivals EXCEPT ![IpOf[c]] = TryConsume(b, now)]
        /\ IF HasToken(b, now)
           THEN active' = active + 1 /\ Go(c, "opening")
           ELSE UNCHANGED <<active, conn>>
        /\ UNCHANGED <<now, messages, quota, health, total, counted, rows, page>>

\* handle_socket: the TLS and WebSocket handshakes, then an empty local state, or
\* QuicBridge::connect.
Open(c) ==
    /\ At(c, "opening")
    /\ \/ Go(c, IF mode = "local" THEN "idle" ELSE "relay")
       \/ Go(c, "closing")
    /\ UNCHANGED <<now, shared, page>>

\* Seeded fault: the gauge only goes up.
CloseUncounted(c) ==
    /\ At(c, "closing")
    /\ conn' = [conn EXCEPT ![c] = Closed]
    /\ UNCHANGED <<now, shared, page>>

\* handle_socket has returned: the task closes the books.
Close(c) ==
    /\ At(c, "closing")
    /\ active' = active - 1
    /\ conn' = [conn EXCEPT ![c] = Closed]
    /\ UNCHANGED <<now, arrivals, messages, quota, health, total, counted, rows, page>>

-----------------------------------------------------------------------------
(* The message loop.  Every message, whatever it is, costs a token first.  *)

Limited(c) ==
    LET b == MessageBucket(IpOf[c])
    IN  /\ At(c, "idle")
        /\ ~HasToken(b, now)
        /\ messages' = [messages EXCEPT ![IpOf[c]] = TryConsume(b, now)]
        /\ UNCHANGED <<now, arrivals, quota, health, total, counted, active, rows, conn, page>>

Admit(c) ==
    LET b == MessageBucket(IpOf[c])
    IN  /\ At(c, "idle")
        /\ HasToken(b, now)
        /\ messages' = [messages EXCEPT ![IpOf[c]] = TryConsume(b, now)]
        /\ UNCHANGED <<now, arrivals, health, total, counted, active, rows, page>>

\* Requests that only answer: tools, usage, ping, version, health, token refresh
\* (never a known token), export, anything else, a prompt that is too long.
Answer(c) == Admit(c) /\ UNCHANGED <<quota, conn>>

\* The opening exchange: handshake, auth, the environment of later prompts.
Greet(c) == Admit(c) /\ UNCHANGED <<quota, conn>>

\* handle_bridge_control: status, drive sync, QR code.  The loop waits for it.
Control(c) == Admit(c) /\ UNCHANGED <<quota, conn>>

SelectTool(c, t) == Admit(c) /\ conn' = [conn EXCEPT ![c].tool = t] /\ UNCHANGED quota

\* A close frame, Disconnect, a message that does not parse, an answer that
\* cannot be sent.
Leave(c) == Admit(c) /\ Go(c, "closing") /\ UNCHANGED quota

\* The stream ends or fails before there is a message.
HangUp(c) ==
    /\ At(c, "idle")
    /\ Go(c, "closing")
    /\ UNCHANGED <<now, shared, page>>

\* A prompt of admissible length: it names a tool or relies on the current one.
Prompt(c, t) ==
    /\ Admit(c)
    /\ conn' = [conn EXCEPT ![c].pc = "quota", ![c].sel = t]
    /\ UNCHANGED quota

-----------------------------------------------------------------------------
(* A prompt, call by call.                                                 *)

\* The requested tool: the prompt's, the connection's, or the default.
Requested(c) ==
    IF conn[c].sel # NoTool THEN conn[c].sel
    ELSE IF conn[c].tool # NoTool THEN conn[c].tool ELSE DefaultTool

QuotaOf(i) == IF quota[i] = NoQuota THEN NewQuota(now) ELSE CheckAndReset(quota[i], now)

\* QuotaCheck: get_status makes or resets the record it reports.
QuotaStatus(c) ==
    /\ Admit(c)
    /\ quota' = [quota EXCEPT ![IpOf[c]] = QuotaOf(IpOf[c])]
    /\ UNCHANGED conn

\* Seeded fault: the limit itself is still admitted.
CheckQuotaOffByOne(c) ==
    LET q == QuotaOf(IpOf[c])
    IN  /\ At(c, "quota")
        /\ quota' = [quota EXCEPT ![IpOf[c]] = q]
        /\ IF q.day <= DailyLimit /\ q.month <= MonthlyLimit
           THEN conn' = [conn EXCEPT ![c].pc = "choose", ![c].sel = Requested(c)]
           ELSE conn' = [conn EXCEPT ![c].pc = "idle", ![c].sel = NoTool]
        /\ UNCHANGED <<now, arrivals, messages, health, total, counted, active, rows, page>>

\* QuotaTracker::check; a prompt over its quota is answered with an error.
CheckQuota(c) ==
    LET q == QuotaOf(IpOf[c])
    IN  /\ At(c, "quota")
        /\ quota' = [quota EXCEPT ![IpOf[c]] = q]
        /\ IF QuotaAllows(q)
           THEN conn' = [conn EXCEPT ![c].pc = "choose", ![c].sel = Requested(c)]
           ELSE conn' = [conn EXCEPT ![c].pc = "idle", ![c].sel = NoTool]
        /\ UNCHANGED <<now, arrivals, messages, health, total, counted, active, rows, page>>

Settle(c, t) == conn' = [conn EXCEPT ![c].pc = "spawn", ![c].sel = t, ![c].tool = t]

\* get_tool_with_failover, first lock: is the requested tool healthy?
Choose(c) ==
    /\ At(c, "choose")
    /\ IF AutoFailover => health[conn[c].sel].healthy
       THEN Settle(c, conn[c].sel)
       ELSE Go(c, "fallback")
    /\ UNCHANGED <<now, shared, page>>

\* Seeded fault: the requested tool is given one more chance.
FallbackToRequested(c) ==
    /\ At(c, "fallback")
    /\ Settle(c, conn[c].sel)
    /\ UNCHANGED <<now, shared, page>>

\* Second lock: the fastest tool that is healthy now.
Fallback(c) ==
    /\ At(c, "fallback")
    /\ \E t \in Fallbacks(health, conn[c].sel) : Settle(c, t)
    /\ UNCHANGED <<now, shared, page>>

\* handle_prompt_local: a program that cannot be started is reported to the
\* client, and the call succeeds.
Spawn(c) ==
    /\ At(c, "spawn")
    /\ \/ Go(c, "run")
       \/ Go(c, "audit")
    /\ UNCHANGED <<now, shared, page>>

\* Both pipes are drained and the child has ended, with any status: a failure
\* is reported to the client, and the call succeeds.
Exit(c) ==
    /\ At(c, "run")
    /\ Go(c, "audit")
    /\ UNCHANGED <<now, shared, page>>

\* A line, an error or the end of the answer cannot be sent: the call fails.
SocketLost(c) ==
    /\ conn[c].pc \in {"spawn", "run"}
    /\ conn' = [conn EXCEPT ![c].pc = "audit", ![c].ok = FALSE]
    /\ UNCHANGED <<now, shared, page>>

\* log_audit: without a database, or when the insert fails, there is no row.
Audit(c) ==
    /\ At(c, "audit")
    /\ \/ rows' = [rows EXCEPT ![conn[c].sel] = @ + (IF conn[c].ok THEN 1 ELSE 0)]
       \/ UNCHANGED rows
    /\ Go(c, IF conn[c].ok THEN "total" ELSE "failure")
    /\ UNCHANGED <<now, arrivals, messages, quota, health, total, counted, active, page>>

\* The failed call counts against the tool and ends the connection.
RecordFailure(c) ==
    /\ At(c, "failure")
    /\ health' = [health EXCEPT ![conn[c].sel] = RecordedFailure(@)]
    /\ Go(c, "closing")
    /\ UNCHANGED <<now, arrivals, messages, quota, total, counted, active, rows, page>>

\* Whoever reads the metrics holds the lock of the tools' table.
Reading == (\E c \in Conns : At(c, "totals")) \/ \E d \in Dashboards : page[d].pc = "totals"

\* Seeded fault: the table is written first.
CountRequestLate(c) ==
    /\ At(c, "total")
    /\ ~Reading
    /\ counted' = [counted EXCEPT ![conn[c].sel] = @ + 1]
    /\ Go(c, "tool")
    /\ UNCHANGED <<now, arrivals, messages, quota, health, total, active, rows, page>>

\* MetricsCollector::record_request, the atomic...
CountRequest(c) ==
    /\ At(c, "total")
    /\ total' = total + 1
    /\ Go(c, "tool")
    /\ UNCHANGED <<now, arrivals, messages, quota, health, counted, active, rows, page>>

\* ...and the table behind its lock.
CountTool(c) ==
    /\ At(c, "tool")
    /\ ~Reading
    /\ counted' = [counted EXCEPT ![conn[c].sel] = @ + 1]
    /\ Go(c, "success")
    /\ UNCHANGED <<now, arrivals, messages, quota, health, total, active, rows, page>>

RecordSuccess(c) ==
    /\ At(c, "success")
    /\ \E ms \in Latencies :
          health' = [health EXCEPT ![conn[c].sel] = RecordedSuccess(@, ms)]
    /\ Go(c, "usage")
    /\ UNCHANGED <<now, arrivals, messages, quota, total, counted, active, rows, page>>

\* QuotaTracker::record_usage, and the prompt is over.
Usage(c) ==
    /\ At(c, "usage")
    /\ quota' = [quota EXCEPT ![IpOf[c]] = RecordUsage(@, now)]
    /\ conn' = [conn EXCEPT ![c].pc = "idle", ![c].sel = NoTool]
    /\ UNCHANGED <<now, arrivals, messages, health, total, counted, active, rows, page>>

-----------------------------------------------------------------------------
(* get_metrics: the table is read under its lock, then the atomics; the    *)
(* lock is held until both are read.                                       *)

GetMetrics(c) ==
    /\ Admit(c)
    /\ conn' = [conn EXCEPT ![c].pc = "totals", ![c].seen = counted]
    /\ UNCHANGED quota

SendMetrics(c) ==
    /\ At(c, "totals")
    /\ conn' = [conn EXCEPT ![c].pc = "idle", ![c].seen = NoSeen]
    /\ UNCHANGED <<now, shared, page>>

\* /api/metrics and /api/status; the other pages read one value or none.
ReadPage(d) ==
    /\ page[d].pc = "idle"
    /\ page' = [page EXCEPT ![d] = [pc |-> "totals", seen |-> counted]]
    /\ UNCHANGED <<now, shared, conn>>

SendPage(d) ==
    /\ page[d].pc = "totals"
    /\ page' = [page EXCEPT ![d] = [pc |-> "idle", seen |-> NoSeen]]
    /\ UNCHANGED <<now, shared, conn>>

-----------------------------------------------------------------------------
(* Server mode.  A frame is two units, its length and its message.  The    *)
(* loop selects between the next message of the WebSocket and              *)
(* recv_message, which is dropped, with what it read, if the other wins.   *)

\* The link of a relaying connection becomes l.
Links(c, l) == conn' = [conn EXCEPT ![c].link = l] /\ UNCHANGED <<now, shared, page>>

ServerSends(c) ==
    LET l == conn[c].link
    IN  /\ At(c, "relay") /\ l.sent < 2 * MaxFrames
        /\ Links(c, [l EXCEPT !.sent = @ + 1])

Readable(c) == At(c, "relay") /\ conn[c].link.pos < conn[c].link.sent
InStep(l) == l.start % 2 = 0

\* read_exact has the length and goes on with the message.
RecvLength(c) ==
    LET l == conn[c].link
    IN  /\ Readable(c) /\ InStep(l) /\ l.pos = l.start
        /\ Links(c, [l EXCEPT !.pos = @ + 1])

\* Seeded fault: a read takes all that has come, and what is over is dropped.
RecvMessageBuffered(c) ==
    LET l == conn[c].link
    IN  /\ Readable(c) /\ InStep(l) /\ l.pos = l.start + 1
        /\ Links(c, [l EXCEPT !.pos = l.sent, !.start = l.sent, !.relayed = @ + 1])

\* The message is complete, and is sent to the WebSocket.
RecvMessage(c) ==
    LET l == conn[c].link
    IN  /\ Readable(c) /\ InStep(l) /\ l.pos = l.start + 1
        /\ Links(c, [l EXCEPT !.pos = @ + 1, !.start = l.pos + 1, !.relayed = @ + 1])

\* Out of step, part of a message is read as a length: what follows is waited for,
\* or decodes to something the server never sent; else RelayEnds.
Misread(c) ==
    LET l == conn[c].link
    IN  /\ Readable(c) /\ ~InStep(l)
        /\ \/ Links(c, [l EXCEPT !.pos = @ + 1])
           \/ Links(c, [l EXCEPT !.pos = @ + 1, !.start = l.pos + 1])

\* A message of the WebSocket wins, one for the bridge itself or one that is sent on.
Forward(c) ==
    LET l == conn[c].link
    IN  /\ At(c, "relay")
        /\ Links(c, [l EXCEPT !.start = l.pos, !.cut = @ \/ l.pos # l.start])

\* Either side ends, sends what does not parse, or cannot be written to.
RelayEnds(c) ==
    /\ At(c, "relay")
    /\ Go(c, "closing")
    /\ UNCHANGED <<now, shared, page>>

RelayStep(c) ==
    \/ ServerSends(c) \/ RecvLength(c) \/ RecvMessage(c) \/ Misread(c)
    \/ Forward(c) \/ RelayEnds(c)

-----------------------------------------------------------------------------
Tick ==
    /\ now < MaxTime
    /\ now' = now + 1
    /\ UNCHANGED <<shared, conn, page>>

Execute(c) ==
    \/ CheckQuota(c) \/ Choose(c) \/ Fallback(c) \/ Spawn(c) \/ Exit(c) \/ SocketLost(c)
    \/ Audit(c) \/ RecordFailure(c) \/ CountRequest(c) \/ CountTool(c)
    \/ RecordSuccess(c) \/ Usage(c)

Moves ==
    \/ \E c \in Conns :
          \/ Accept(c) \/ Open(c) \/ Close(c)
          \/ Limited(c) \/ Answer(c) \/ Greet(c) \/ Control(c) \/ Leave(c) \/ HangUp(c)
          \/ \E t \in Tools : SelectTool(c, t)
          \/ \E t \in Tools \cup {NoTool} : Prompt(c, t)
          \/ QuotaStatus(c) \/ Execute(c)
          \/ GetMetrics(c) \/ SendMetrics(c)
          \/ RelayStep(c)
    \/ \E d \in Dashboards : ReadPage(d) \/ SendPage(d)
    \/ Cleanup
    \/ Tick

Next == Moves /\ UNCHANGED mode

Spec == Init /\ [][Next]_vars

-----------------------------------------------------------------------------
Bucket(max) ==
    [tokens : 0..max * Window, max : {max}, last : Nat]
HealthRecord ==
    [healthy : BOOLEAN, failures : 0..FailureThreshold, successes : 0..RecoveryThreshold,
     latency : 0..NoLatency]
Link ==
    LET units == 0..2 * MaxFrames
    IN  [sent : units, pos : units, start : units, relayed : 0..MaxFrames, cut : BOOLEAN]
Places ==
    {"closed", "opening", "idle", "closing", "quota", "choose", "fallback", "spawn", "run",
     "audit", "failure", "total", "tool", "success", "usage", "totals", "relay"}

(* Every shared record keeps its shape; a tool is settled for every prompt *)
(* past its quota check.                                                   *)
TypeOK ==
    /\ mode \in Modes /\ now \in Nat
    /\ arrivals \in [Ips -> Bucket(MaxConnections) \cup {NoBucket}]
    /\ messages \in [Ips -> Bucket(MaxRequests) \cup {NoBucket}]
    /\ quota \in [Ips -> QuotaRecord \cup {NoQuota}]
    /\ health \in [Tools -> HealthRecord]
    /\ total \in Nat /\ active \in 0..Cardinality(Conns)
    /\ counted \in [Tools -> Nat] /\ rows \in [Tools -> Nat]
    /\ conn \in [Conns -> [pc : Places, tool : Tools \cup {NoTool}, sel : Tools \cup {NoTool},
                           ok : BOOLEAN, seen : [Tools -> Nat], link : Link]]
    /\ page \in [Dashboards -> [pc : {"idle", "totals"}, seen : [Tools -> Nat]]]

\* The prompts of an address that passed the quota check and are not recorded.
InFlight(i) ==
    {c \in Conns : IpOf[c] = i /\ conn[c].pc \in
        {"choose", "fallback", "spawn", "run", "audit", "failure", "total", "tool",
         "success", "usage"}}
ConnsOf(i) == {c \in Conns : IpOf[c] = i}

(* check and record_usage are two calls, so prompts of one address that run *)
(* at the same time all pass the check at the limit.  The overshoot is      *)
(* bounded: counting the prompts in flight, a quota is exceeded by at most  *)
(* the address's other connections.                                         *)
QuotaOvershoot ==
    \A i \in Ips : quota[i] # NoQuota =>
        /\ quota[i].day + Cardinality(InFlight(i)) < DailyLimit + Cardinality(ConnsOf(i))
        /\ quota[i].month + Cardinality(InFlight(i)) < MonthlyLimit + Cardinality(ConnsOf(i))

\* Connections that settled on a tool and did not yet report how it went.
Carried(t) ==
    \E c \in Conns : conn[c].sel = t /\ conn[c].pc \in
        {"spawn", "run", "audit", "failure", "total", "tool", "success"}

(* Only a prompt can show that a tool recovered, and failover sends none to *)
(* an unhealthy tool: once the last prompt that carries it has reported, it *)
(* stays unhealthy and unused for as long as any other tool is healthy.     *)
ExcludedStaysOut ==
    [][\A t \in Tools :
         (AutoFailover /\ ~health[t].healthy /\ ~Carried(t) /\ Healthy(health) # {})
         => (~health[t].healthy /\ ~Carried(t))']_vars

\* The requests a table of the tools' counts stands for.
Counts(table) == UNION {{t} \X (1..table[t]) : t \in Tools}

(* Whoever asks for the metrics, and whatever is recorded while they are    *)
(* read: the total shown is never below the sum of the tools' counts shown. *)
TotalCoversTools ==
    /\ \A c \in Conns : At(c, "totals") => Cardinality(Counts(conn[c].seen)) <= total
    /\ \A d \in Dashboards : page[d].pc = "totals" => Cardinality(Counts(page[d].seen)) <= total

(* Every message the server sent is relayed once, and the stream is read    *)
(* frame by frame, whatever the WebSocket's client sends in between -- but  *)
(* for one case: recv_message is not safe to drop, so a message that comes  *)
(* while a frame is partly read puts the rest of the stream out of step.    *)
RelayedWhole ==
    \A c \in Conns : LET l == conn[c].link IN
        At(c, "relay") /\ ~l.cut => l.start = 2 * l.relayed /\ l.pos - l.start \in 0..1
=============================================================================
