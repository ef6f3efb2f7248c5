------------------------------ MODULE Records ------------------------------
(***************************************************************************)
(* What the programs write down: the tables of crates/common/src/          *)
(* storage.rs, the server's usage tables (crates/server/src/usage/stats.rs),*)
(* its invite codes (auth/invite.rs) and the file in which the command     *)
(* generate-invite leaves them (main.rs).                                  *)
(*                                                                         *)
(* No operation touches two of these, so a behaviour exercises one of      *)
(* them, `table`, chosen at the start: the others would only multiply the  *)
(* states.  Each statement of SQLite is atomic and every call of storage.rs *)
(* holds the connection's lock to its end, so one call is one step there;  *)
(* the other three have calls of several steps.  Most of these calls are   *)
(* an interface the programs do not use yet: any task may make any.        *)
(***************************************************************************)
EXTENDS Integers, Sequences, FiniteSets

CONSTANTS
    Ids,         \* keys of a table of storage.rs
    Tools,       \* tools; also stands for the responses of the cache
    Clients,     \* tasks of the server, or processes of its command line
    Codes,       \* what generate_code draws from, never the same twice
    Day, Month,  \* ticks of a day, and of the 30 days of a monthly quota
    MaxTime,     \* bound on the clock
    MaxRows,     \* bound on the rows of tool_usage
    MaxEntries,  \* bound on the rows of audit_log
    MaxCount,    \* bound on hit_count, failure_count and a day's requests
    MaxLimits,   \* bound on rate_limit_hits
    MaxFailures, \* disable_failing_webhooks' argument
    MaxUses,     \* largest max_uses of an invite
    Limit,       \* rows of a page of the audit log
    None, Torn   \* NULL or nothing; a file that cannot be parsed

ASSUME RecordsAssumption ==
    /\ {Day, Month, Limit, MaxFailures} \subseteq Nat \ {0}
    /\ {MaxTime, MaxRows, MaxEntries, MaxCount, MaxLimits,
        MaxUses} \subseteq Nat
    /\ None # Torn /\ \A S \in SUBSET Codes : S \notin {None, Torn}
    /\ None \notin [value : Tools \cup {None}, until : Nat, made : Nat,
                   active : BOOLEAN, count : Nat]
    /\ None \notin [tool : Tools, at : Nat]

VARIABLES
    table,    \* what this behaviour is about
    now,      \* the clock
    rows,     \* the table of storage.rs: a row of each key, or None
    owed,     \* for the properties only: what the last save of a key promised
    quota,    \* quotas: when each figure is reset and, for the properties, its oldest request
    audit,    \* audit_log, by id: the timestamps
    reader,   \* someone who reads the audit log page by page
    usage,    \* tool_usage: the rows, at any places of their own
    daily,    \* daily_stats
    missing,  \* for the properties only: rows of tool_usage daily_stats lacks, less those deleted
    invites,  \* InviteManager::invites
    redeemed, \* for the properties only: what each code was printed for and used
    file,     \* pending_invites.json: its codes, None, or Torn
    printed,  \* for the properties only: codes on somebody's screen
    excused,  \* for the properties only: those that a race or a kill may have cost
    task      \* where each client is in a call of several steps

store == <<rows, owed, quota>>
log   == <<audit, reader>>
stats == <<usage, daily, missing>>
codes == <<invites, redeemed>>
pending == <<file, printed, excused>>
recordsVars == <<table, now, store, log, stats, codes, pending, task>>

Stored == {"sessions", "api_keys", "cache", "webhooks"}
Forever == MaxTime + 1
Moments == 0..Forever
DayOf(t) == t \div Day
Days == 0..DayOf(MaxTime)
Places == 1..MaxRows

\* The key of a row of daily_stats, and that of the one a row of tool_usage is counted in.
Sheets == Days \X Tools
Sheet(row) == <<DayOf(row.at), row.tool>>
Least(a, b) == IF a < b THEN a ELSE b

Idle == [pc |-> "idle"]
NoDebt == [until |-> 0, value |-> None, failed |-> 0]

RecordsInit ==
    /\ table \in Stored \cup {"quotas", "audit_log", "usage", "invites", "pending"}
    /\ now = 0
    /\ rows = [i \in Ids |-> None] /\ owed = [i \in Ids |-> NoDebt]
    /\ quota = [i \in Ids |-> None]
    /\ audit = <<>> /\ reader = Idle
    /\ usage = [n \in Places |-> None]
    /\ daily = [x \in Sheets |-> [requests |-> 0, limits |-> 0]]
    /\ missing = [x \in Sheets |-> 0]
    /\ invites = [c \in Codes |-> None]
    /\ redeemed = [c \in Codes |-> [max |-> 0, uses |-> 0]]
    /\ file = None /\ printed = {} /\ excused = {}
    /\ task = [k \in Clients |-> Idle]

Tick ==
    /\ now < MaxTime
    /\ now' = now + 1
    /\ UNCHANGED <<table, store, log, stats, codes, pending, task>>

-----------------------------------------------------------------------------
(* storage.rs: sessions, api_keys, cache and webhooks.  A row's fields:    *)
(* value, the tool or the response; until, expires_at; made, created_at;   *)
(* active, is_active; count, hit_count or failure_count.                   *)

Row(value, until, active) ==
    [value |-> value, until |-> until, made |-> now, active |-> active, count |-> 0]
Put(i, row, debt) == rows' = [rows EXCEPT ![i] = row] /\ owed' = [owed EXCEPT ![i] = debt]
Debt(until, value) == [until |-> until, value |-> value, failed |-> 0]

\* On conflict the tool is new and the expiry stays: what is kept is kept until the earlier.
SaveSession(i) ==
    \E tool \in Tools, until \in Moments :
        IF rows[i] = None
        THEN Put(i, Row(tool, until, TRUE), Debt(until, tool))
        ELSE Put(i, [rows[i] EXCEPT !.value = tool], Debt(Least(until, rows[i].until), tool))

DeleteSession(i) == rows[i] # None /\ Put(i, None, NoDebt)

\* cleanup_expired_sessions, cleanup_expired_cache: an expiry of NULL never passes.
Expired(i) == rows[i] # None /\ rows[i].until <= now
CleanupExpired ==
    /\ rows' = [i \in Ids |-> IF Expired(i) THEN None ELSE rows[i]]
    /\ UNCHANGED owed

\* On conflict only the key itself and is_active are new.
SaveApiKey(i) ==
    \E tool \in Tools, active \in BOOLEAN :
        LET kept == rows[i] # None
        IN  Put(i, IF kept THEN [rows[i] EXCEPT !.active = active] ELSE Row(tool, Forever, active),
                   IF active /\ (kept => rows[i].value = tool) THEN Debt(Forever, tool) ELSE NoDebt)

DeactivateApiKey(i) ==
    rows[i] # None /\ Put(i, [rows[i] EXCEPT !.active = FALSE], NoDebt)

\* The keys get_api_key may answer: the active ones of the tool made last.
ApiKeys(tool) ==
    LET ofTool == {i \in Ids : rows[i] # None /\ rows[i].value = tool /\ rows[i].active}
    IN  {i \in ofTool : \A j \in ofTool : rows[j].made <= rows[i].made}

\* Seeded fault: on conflict the expiry stays, as a session's does.
SaveCachedResponseKept(i) ==
    \E response \in Tools, until \in Moments :
        Put(i, IF rows[i] = None THEN Row(response, until, TRUE)
               ELSE [rows[i] EXCEPT !.value = response, !.count = 0],
            Debt(until, response))

\* On conflict response, expiry and hits are new, and created_at stays.
SaveCachedResponse(i) ==
    \E response \in Tools, until \in Moments :
        Put(i, IF rows[i] = None THEN Row(response, until, TRUE)
               ELSE [rows[i] EXCEPT !.value = response, !.until = until, !.count = 0],
            Debt(until, response))

Cached(i) == IF rows[i] = None \/ Expired(i) THEN None ELSE rows[i]

\* A lookup that finds something counts the hit.
GetCachedResponse(i) ==
    /\ Cached(i) # None /\ rows[i].count < MaxCount
    /\ rows' = [rows EXCEPT ![i].count = @ + 1]
    /\ UNCHANGED owed

\* On conflict the failures stay.
SaveWebhook(i) ==
    \E active \in BOOLEAN :
        Put(i, IF rows[i] = None THEN Row(None, Forever, active)
               ELSE [rows[i] EXCEPT !.active = active],
            [until |-> IF active THEN Forever ELSE 0, value |-> None, failed |-> owed[i].failed])

ActiveWebhooks == {i \in Ids : rows[i] # None /\ rows[i].active}

UpdateWebhookStatus(i) ==
    /\ rows[i] # None
    /\ \/ /\ rows' = [rows EXCEPT ![i].count = 0]
          /\ owed' = [owed EXCEPT ![i].failed = 0]
       \/ /\ rows[i].count < MaxCount
          /\ rows' = [rows EXCEPT ![i].count = @ + 1]
          /\ owed' = [owed EXCEPT ![i].failed = @ + 1]

DisableFailingWebhooks ==
    /\ rows' = [i \in Ids |-> IF rows[i] # None /\ rows[i].count >= MaxFailures
                              THEN [rows[i] EXCEPT !.active = FALSE] ELSE rows[i]]
    /\ owed' = [i \in Ids |-> IF owed[i].failed >= MaxFailures
                              THEN [owed[i] EXCEPT !.until = 0] ELSE owed[i]]

Sessions ==
    /\ table = "sessions"
    /\ CleanupExpired \/ \E i \in Ids : SaveSession(i) \/ DeleteSession(i)
ApiKeyTable ==
    /\ table = "api_keys"
    /\ \E i \in Ids : SaveApiKey(i) \/ DeactivateApiKey(i)
Cache ==
    /\ table = "cache"
    /\ CleanupExpired \/ \E i \in Ids : SaveCachedResponse(i) \/ GetCachedResponse(i)
Webhooks ==
    /\ table = "webhooks"
    /\ DisableFailingWebhooks \/ \E i \in Ids : SaveWebhook(i) \/ UpdateWebhookStatus(i)

Store ==
    /\ Sessions \/ ApiKeyTable \/ Cache \/ Webhooks
    /\ UNCHANGED <<table, now, quota, log, stats, codes, pending, task>>

-----------------------------------------------------------------------------
(* storage.rs: quotas.  Requests and tokens are added and zeroed alike; of *)
(* what a figure adds up only the oldest request is kept.                  *)

Period == [daily |-> Day, monthly |-> Month]
Figure(f, oldest) == [reset |-> now + Period[f], oldest |-> oldest]

\* Seeded fault: on conflict the resets move on too, as on insertion.
IncrementQuotaSliding(i) ==
    quota' = [quota EXCEPT ![i] =
        [f \in DOMAIN Period |->
            Figure(f, IF quota[i] = None THEN now ELSE Least(quota[i][f].oldest, now))]]

NewQuota == [f \in DOMAIN Period |-> Figure(f, now)]
Added(q) == [f \in DOMAIN Period |-> [q[f] EXCEPT !.oldest = Least(@, now)]]

\* On conflict it only adds, also to a figure whose reset is due.
IncrementQuota(i) ==
    quota' = [quota EXCEPT ![i] = IF @ = None THEN NewQuota ELSE Added(@)]

\* reset_daily_quotas and reset_monthly_quotas
ResetQuotas(f) ==
    quota' = [i \in Ids |-> IF quota[i] # None /\ quota[i][f].reset <= now
                            THEN [quota[i] EXCEPT ![f] = Figure(f, Forever)] ELSE quota[i]]

\* get_quota, and later save_quota of what it answered.
GetQuota(k, i) ==
    /\ task[k] = Idle /\ quota[i] # None
    /\ task' = [task EXCEPT ![k] = [pc |-> "got", id |-> i, quota |-> quota[i]]]

SaveQuota(k) ==
    /\ task[k].pc = "got"
    /\ quota' = [quota EXCEPT ![task[k].id] = task[k].quota]
    /\ task' = [task EXCEPT ![k] = Idle]

Quotas ==
    /\ table = "quotas"
    /\ \/ \E i \in Ids : IncrementQuota(i) /\ UNCHANGED task
       \/ \E f \in DOMAIN Period : ResetQuotas(f) /\ UNCHANGED task
       \/ \E k \in Clients, i \in Ids : GetQuota(k, i) /\ UNCHANGED quota
       \/ \E k \in Clients : SaveQuota(k)
    /\ UNCHANGED <<table, now, rows, owed, log, stats, codes, pending>>

-----------------------------------------------------------------------------
(* storage.rs: the audit log.  An entry has the time at which it was made, *)
(* which is before its insertion.                                          *)

MakeEntry(k) ==
    /\ task[k] = Idle
    /\ task' = [task EXCEPT ![k] = [pc |-> "entry", at |-> now]]
    /\ UNCHANGED log

LogAudit(k) ==
    /\ task[k].pc = "entry" /\ Len(audit) < MaxEntries
    /\ audit' = Append(audit, task[k].at)
    /\ task' = [task EXCEPT ![k] = Idle]
    /\ UNCHANGED reader

\* The entries ORDER BY timestamp DESC puts before i; by the index, of those of
\* one time the last inserted comes first.
Newer(i) ==
    {j \in DOMAIN audit : audit[j] > audit[i] \/ (audit[j] = audit[i] /\ j > i)}

\* Seeded fault: the first row is number one.
PageFromOne(offset) ==
    {i \in DOMAIN audit : Cardinality(Newer(i)) \in (offset + 1)..(offset + Limit - 1)}

\* get_audit_logs(Limit, offset), the ids of its rows
Page(offset) ==
    {i \in DOMAIN audit : Cardinality(Newer(i)) \in offset..(offset + Limit - 1)}

\* A reader takes page after page, until one is not full.
StartReading ==
    /\ reader.pc # "reading"
    /\ reader' = [pc |-> "reading", offset |-> 0, seen |-> {}, due |-> DOMAIN audit]
    /\ UNCHANGED <<audit, task>>

GetAuditLogs ==
    /\ reader.pc = "reading"
    /\ reader' = [reader EXCEPT !.seen = @ \cup Page(reader.offset),
                                !.offset = @ + Limit,
                                !.pc = IF reader.offset + Limit > Len(audit) THEN "read" ELSE "reading"]
    /\ UNCHANGED <<audit, task>>

AuditLog ==
    /\ table = "audit_log"
    /\ StartReading \/ GetAuditLogs \/ \E k \in Clients : MakeEntry(k) \/ LogAudit(k)
    /\ UNCHANGED <<table, now, store, stats, codes, pending>>

-----------------------------------------------------------------------------
(* stats.rs: tool_usage and daily_stats, two inserts of one record_usage   *)
(* under the tracker's lock but in no transaction.                         *)

\* The time is taken before the lock.
Stamp(k) ==
    /\ task[k] = Idle
    /\ \E t \in Tools : task' = [task EXCEPT ![k] = [pc |-> "stamped", tool |-> t, at |-> now]]
    /\ UNCHANGED stats

Unlocked == \A k \in Clients : task[k].pc # "inserted"

InsertUsage(k) ==
    /\ task[k].pc = "stamped" /\ Unlocked
    /\ daily[Sheet(task[k])].requests < MaxCount
    /\ \E n \in Places :
           /\ usage[n] = None
           /\ usage' = [usage EXCEPT ![n] = [tool |-> task[k].tool, at |-> task[k].at]]
    /\ missing' = [missing EXCEPT ![Sheet(task[k])] = @ + 1]
    /\ task' = [task EXCEPT ![k].pc = "inserted"]
    /\ UNCHANGED daily

\* Tokens and errors are added up like the requests.
Counted(x) == daily' = [daily EXCEPT ![x].requests = @ + 1]

\* Seeded fault: the date is that of the second insert.
InsertDailyToday(k) ==
    /\ task[k].pc = "inserted"
    /\ Counted(<<DayOf(now), task[k].tool>>)
    /\ missing' = [missing EXCEPT ![Sheet(task[k])] = @ - 1]
    /\ task' = [task EXCEPT ![k] = Idle]
    /\ UNCHANGED usage

InsertDaily(k) ==
    /\ task[k].pc = "inserted"
    /\ Counted(Sheet(task[k]))
    /\ missing' = [missing EXCEPT ![Sheet(task[k])] = @ - 1]
    /\ task' = [task EXCEPT ![k] = Idle]
    /\ UNCHANGED usage

\* Either insert fails: `?` returns, and the first one's row stays.
InsertFails(k) ==
    /\ task[k].pc \in {"stamped", "inserted"}
    /\ task' = [task EXCEPT ![k] = Idle]
    /\ UNCHANGED stats

RecordRateLimit(t) ==
    /\ Unlocked
    /\ \A x \in Sheets : daily[x].limits < MaxLimits
    /\ daily' = [daily EXCEPT ![<<DayOf(now), t>>].limits = @ + 1]
    /\ UNCHANGED <<usage, missing, task>>

\* The rows of tool_usage get_tool_stats counts, those of a day.
RowsOf(x) == {n \in Places : usage[n] # None /\ Sheet(usage[n]) = x}

\* Only tool_usage is cleaned up.
CleanupOldRecords(days) ==
    LET old(n) == usage[n] # None /\ usage[n].at < now - days * Day
        lost(x) == {n \in RowsOf(x) : old(n)}
    IN  /\ Unlocked
        /\ usage' = [n \in Places |-> IF old(n) THEN None ELSE usage[n]]
        /\ missing' = [x \in Sheets |-> missing[x] - Cardinality(lost(x))]
        /\ UNCHANGED <<daily, task>>

Usage ==
    /\ table = "usage"
    /\ \/ \E k \in Clients : Stamp(k) \/ InsertUsage(k) \/ InsertDaily(k) \/ InsertFails(k)
       \/ \E t \in Tools : RecordRateLimit(t)
       \/ \E days \in 0..1 : CleanupOldRecords(days)
    /\ UNCHANGED <<table, now, store, log, codes, pending>>

-----------------------------------------------------------------------------
(* invite.rs: the invites the server keeps in memory.                      *)

Fresh(c) == redeemed[c].max = 0 /\ invites[c] = None

GenerateInvite(c) ==
    /\ Fresh(c)
    /\ \E max \in 1..MaxUses, until \in Moments :
           /\ invites' = [invites EXCEPT ![c] = [max |-> max, uses |-> 0, until |-> until]]
           /\ redeemed' = [redeemed EXCEPT ![c].max = max]
    /\ UNCHANGED task

Valid(c) == invites[c] # None /\ invites[c].until > now /\ invites[c].uses < invites[c].max

Redeem(c) ==
    /\ invites' = [invites EXCEPT ![c].uses = @ + 1]
    /\ redeemed' = [redeemed EXCEPT ![c].uses = @ + 1]

\* Seeded fault: the invite is validated under one lock and counted under the next.
UseInviteUnlocked(k, c) ==
    \/ /\ task[k] = Idle /\ Valid(c)
       /\ task' = [task EXCEPT ![k] = [pc |-> "valid", code |-> c]]
       /\ UNCHANGED codes
    \/ /\ task[k] = [pc |-> "valid", code |-> c] /\ invites[c] # None
       /\ Redeem(c)
       /\ task' = [task EXCEPT ![k] = [pc |-> "used up", code |-> c]]

\* The lock is let go of before an invite used up is removed.
UseInvite(k, c) ==
    /\ task[k] = Idle /\ Valid(c)
    /\ Redeem(c)
    /\ task' = [task EXCEPT ![k] =
           IF invites[c].uses + 1 >= invites[c].max THEN [pc |-> "used up", code |-> c] ELSE Idle]

RemoveUsedUp(k) ==
    /\ task[k].pc = "used up"
    /\ invites' = [invites EXCEPT ![task[k].code] = None]
    /\ task' = [task EXCEPT ![k] = Idle]
    /\ UNCHANGED redeemed

RevokeInvite(c) ==
    /\ invites[c] # None
    /\ invites' = [invites EXCEPT ![c] = None]
    /\ UNCHANGED <<redeemed, task>>

CleanupInvites ==
    /\ invites' = [c \in Codes |-> IF invites[c] # None /\ invites[c].until <= now
                                   THEN None ELSE invites[c]]
    /\ UNCHANGED <<redeemed, task>>

Invites ==
    /\ table = "invites"
    /\ \/ CleanupInvites
       \/ \E c \in Codes : GenerateInvite(c) \/ RevokeInvite(c) \/ \E k \in Clients : UseInvite(k, c)
       \/ \E k \in Clients : RemoveUsedUp(k)
    /\ UNCHANGED <<table, now, store, log, stats, pending>>

-----------------------------------------------------------------------------
(* main.rs: generate-invite, a process each.  It prints the code, reads    *)
(* the file, and writes it back with its own code.                         *)

PrintInvite(k, c) ==
    /\ task[k] = Idle /\ c \notin printed
    /\ printed' = printed \cup {c}
    /\ task' = [task EXCEPT ![k] = [pc |-> "printed", code |-> c, codes |-> {}]]
    /\ UNCHANGED <<file, excused>>

\* Codes of processes between their read and the end of their write.
Underway == {task[k].code : k \in {j \in Clients : task[j].pc \in {"read", "writing"}}}

\* A file that cannot be parsed counts as one without codes.
ReadPending(k) ==
    /\ task[k].pc = "printed"
    /\ task' = [task EXCEPT ![k].pc = "read",
                            ![k].codes = (IF file \in {None, Torn} THEN {} ELSE file) \cup {task[k].code}]
    /\ excused' = excused \cup (IF file = Torn THEN printed
                                ELSE IF Underway = {} THEN {} ELSE Underway \cup {task[k].code})
    /\ UNCHANGED <<file, printed>>

\* fs::write: the file is emptied, then filled.
OpenPending(k) ==
    /\ task[k].pc = "read"
    /\ file' = Torn
    /\ task' = [task EXCEPT ![k].pc = "writing"]
    /\ UNCHANGED <<printed, excused>>

\* Seeded fault: the new code alone is written.
WritePendingOwn(k) ==
    /\ task[k].pc = "writing"
    /\ file' = {task[k].code}
    /\ task' = [task EXCEPT ![k] = Idle]
    /\ UNCHANGED <<printed, excused>>

\* Two writes at once may leave the end of one after the other.
WritePending(k) ==
    /\ task[k].pc = "writing"
    /\ file' \in {task[k].codes} \cup
                 (IF \E j \in Clients \ {k} : task[j].pc = "writing" THEN {Torn} ELSE {})
    /\ task' = [task EXCEPT ![k] = Idle]
    /\ UNCHANGED <<printed, excused>>

\* One killed in the middle, or whose fs::write fails before it opens the file or
\* once it has emptied it: its own code, or all of them, never get there.
Kill(k) ==
    /\ task[k] # Idle
    /\ excused' = excused \cup {task[k].code}
                          \cup (IF task[k].pc = "writing" THEN printed ELSE {})
    /\ task' = [task EXCEPT ![k] = Idle]
    /\ UNCHANGED <<file, printed>>

Pending ==
    /\ table = "pending"
    /\ \E k \in Clients :
           \/ \E c \in Codes : PrintInvite(k, c)
           \/ ReadPending(k) \/ OpenPending(k) \/ WritePending(k) \/ Kill(k)
    /\ UNCHANGED <<table, now, store, log, stats, codes>>

-----------------------------------------------------------------------------
\* The server or the bridge ends, at any point: the tables stay, the invites do not.
Crash ==
    /\ table # "pending"
    /\ task' = [k \in Clients |-> Idle]
    /\ invites' = [c \in Codes |-> None]
    /\ reader' = Idle
    /\ UNCHANGED <<table, now, store, audit, stats, redeemed, pending>>

RecordsNext == Tick \/ Store \/ Quotas \/ AuditLog \/ Usage \/ Invites \/ Pending \/ Crash
RecordsSpec == RecordsInit /\ [][RecordsNext]_recordsVars

-----------------------------------------------------------------------------
(* Types: rows, codes and what a client holds are what the calls make.     *)
RecordsTypeOK ==
    /\ now \in 0..MaxTime
    /\ \A i \in Ids : rows[i] # None =>
           rows[i].until \in Moments /\ rows[i].count \in 0..MaxCount /\ rows[i].active \in BOOLEAN
    /\ \A i \in DOMAIN audit : audit[i] \in 0..now
    /\ \A x \in Sheets : daily[x] \in [requests : 0..MaxCount, limits : 0..MaxLimits]
    /\ \A c \in Codes : invites[c] # None => invites[c].uses \in 0..invites[c].max
    /\ file \in {None, Torn} \cup SUBSET Codes
    /\ excused \subseteq printed /\ printed \subseteq Codes

(* What was saved is found: a session and a cached response until they     *)
(* expire, the response being the one saved last, a key's tool has a key   *)
(* while one saved active has not been deactivated, and an active webhook  *)
(* stays active until it has failed often enough in a row -- whatever was  *)
(* saved again, cleaned up or counted meanwhile.                           *)
SavedIsFound ==
    \A i \in Ids : now < owed[i].until =>
        CASE table = "sessions" -> rows[i] # None
          [] table = "api_keys" -> ApiKeys(owed[i].value) # {}
          [] table = "cache"    -> Cached(i) # None /\ Cached(i).value = owed[i].value
          [] table = "webhooks" -> i \in ActiveWebhooks

(* A user is not held to requests of an earlier period: as long as its    *)
(* reset is not due a figure has no request older than its period, though  *)
(* increments pay no heed to the reset, and rows read earlier are written  *)
(* back.  A figure whose reset is due may, until the reset is done.        *)
QuotaFresh ==
    \A i \in Ids : quota[i] # None =>
        \A f \in DOMAIN Period :
            now < quota[i][f].reset => quota[i][f].oldest > now - Period[f]

(* Who reads the audit log page by page to its end has seen every entry    *)
(* that was there at the start, though entries with older and newer times  *)
(* come in between the pages and move the rest along.                      *)
PagesCover == reader.pc = "read" => reader.due \subseteq reader.seen

(* The two books of the tracker agree, day by day and tool by tool, also   *)
(* when a day ends between the two inserts: daily_stats has the rows of    *)
(* tool_usage and those cleaned up since, but those whose second insert    *)
(* failed, was killed or is under way.                                     *)
DailyAgrees ==
    \A x \in Sheets : daily[x].requests + missing[x] = Cardinality(RowsOf(x))

(* However many tasks use a code at once, and although one used up is      *)
(* removed only after the lock was let go of, it is good for max_uses uses *)
(* and no more.                                                            *)
RedeemedWithinLimit == \A c \in Codes : redeemed[c].uses <= redeemed[c].max

(* A code on somebody's screen is in the file, or being written to it: it  *)
(* is lost only to another process at work at the same time, to a kill, or *)
(* to a file one of these left unreadable.                                 *)
PrintedIsPending ==
    \A c \in printed \ excused :
        \/ file \notin {None, Torn} /\ c \in file
        \/ \E k \in Clients : task[k] # Idle /\ (c = task[k].code \/ c \in task[k].codes)
=============================================================================
