------------------------------ MODULE Features ------------------------------
(***************************************************************************)
(* The bookkeeping of crates/common/src/features.rs that the bridge calls: *)
(* token buckets, usage quotas and tool health.  Each of them is a record  *)
(* behind one lock, so a call is one step; the operators say what the call *)
(* answers and what record it leaves.  A moment is a natural number of     *)
(* ticks.  Tokens are counted in units of 1/Window, so that the refill of  *)
(* max/Window tokens a tick is an integer (the code uses f64).             *)
(***************************************************************************)
EXTENDS Integers, FiniteSets

CONSTANTS
    Tools,              \* Tool::all()
    Window,             \* ticks in which an empty bucket fills up
    CleanupAge,         \* age at which cleanup drops a bucket
    DailyLimit,         \* QuotaConfig::daily_limit
    MonthlyLimit,       \* QuotaConfig::monthly_limit
    Day, Month,         \* ticks of a quota period
    FailureThreshold,   \* failures in a row that make a tool unhealthy
    RecoveryThreshold,  \* successes in a row that make it healthy again
    NoLatency           \* no request measured yet: sorts behind every latency

ASSUME FeaturesAssumption ==
    /\ {Window, CleanupAge, DailyLimit, MonthlyLimit, Day, Month} \subseteq Nat \ {0}
    /\ {FailureThreshold, RecoveryThreshold} \subseteq Nat \ {0}
    /\ CleanupAge >= Window
    /\ NoLatency \in Nat

AtMost(a, b) == IF a <= b THEN a ELSE b

-----------------------------------------------------------------------------
(* Token buckets: [tokens, max, last]. *)

NewBucket(max, now) == [tokens |-> max * Window, max |-> max, last |-> now]

\* What the bucket holds at a moment: the refill is computed on use.
Refilled(b, now) ==
    AtMost(b.tokens + (now - b.last) * b.max, b.max * Window)

HasToken(b, now) == Refilled(b, now) >= Window

TryConsume(b, now) ==
    [b EXCEPT !.last   = now,
              !.tokens = Refilled(b, now) - (IF HasToken(b, now) THEN Window ELSE 0)]

Expired(b, now) == b.last <= now - CleanupAge

-----------------------------------------------------------------------------
(* Usage quotas: [day, month, dayReset, monthReset]. *)

NewQuota(now) ==
    [day |-> 0, month |-> 0, dayReset |-> now + Day, monthReset |-> now + Month]

CheckAndReset(q, now) ==
    [day        |-> IF now >= q.dayReset THEN 0 ELSE q.day,
     dayReset   |-> IF now >= q.dayReset THEN now + Day ELSE q.dayReset,
     month      |-> IF now >= q.monthReset THEN 0 ELSE q.month,
     monthReset |-> IF now >= q.monthReset THEN now + Month ELSE q.monthReset]

QuotaAllows(q) == q.day < DailyLimit /\ q.month < MonthlyLimit

RecordUsage(q, now) ==
    LET r == CheckAndReset(q, now)
    IN  [r EXCEPT !.day = @ + 1, !.month = @ + 1]

-----------------------------------------------------------------------------
(* Tool health: [healthy, failures, successes, latency].  A run of failures *)
(* or successes is only compared with its threshold, so it stops there.     *)

NewHealth == [healthy |-> TRUE, failures |-> 0, successes |-> 0, latency |-> NoLatency]

RecordedSuccess(h, ms) ==
    LET run == AtMost(h.successes + 1, RecoveryThreshold)
    IN  [healthy   |-> h.healthy \/ run = RecoveryThreshold,
         failures  |-> 0,
         successes |-> run,
         latency   |-> ms]

RecordedFailure(h) ==
    LET run == AtMost(h.failures + 1, FailureThreshold)
    IN  [h EXCEPT !.healthy   = @ /\ run < FailureThreshold,
                  !.failures  = run,
                  !.successes = 0]

Healthy(health) == {t \in Tools : health[t].healthy}

\* The front of the list sorted by latency; equal latencies come in the
\* order of a hash map, that is in any order.
Fastest(health) ==
    {t \in Healthy(health) :
        \A u \in Healthy(health) : health[t].latency <= health[u].latency}

\* get_tool_with_fallback once the requested tool was found unhealthy.
Fallbacks(health, requested) ==
    IF Healthy(health) = {} THEN {requested} ELSE Fastest(health)

=============================================================================
