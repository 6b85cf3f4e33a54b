----------------------------- MODULE RateLimiter -----------------------------
(***************************************************************************)
(* Fixed-window rate limits, services/rate_limit_service.py, as consumed   *)
(* by get_request_context (core/dependencies.py: a tenant bucket and a     *)
(* tenant-user bucket) and by RateLimitMiddleware (an auth-ip bucket).     *)
(*                                                                         *)
(* The Lua script runs atomically in Redis for all the buckets of a call,  *)
(* so a check is one step, taken by any caller on any process.  A key that *)
(* does not exist has count 0 and ttl 0.  One tick is the resolution of    *)
(* Redis' clock; SecondTicks of them make the second that Retry-After is   *)
(* rounded up to.                                                          *)
(***************************************************************************)
EXTENDS Integers, FiniteSets

CONSTANTS
    Buckets,
    Callers,        \* who sends requests
    Scopes,         \* [Callers -> SUBSET Buckets]: the buckets of a caller's requests
    Limit,          \* [Buckets -> Nat]: 0 switches a scope off
    Window,         \* window_seconds * 1000, in ticks
    SecondTicks,    \* ticks in a second
    MaxCount        \* where the counters saturate: above every limit

ASSUME LimiterAssumption ==
    /\ Scopes \in [Callers -> SUBSET Buckets]
    /\ Limit \in [Buckets -> Nat]
    /\ Window \in Nat \ {0} /\ SecondTicks \in Nat \ {0}
    /\ MaxCount \in Nat \ {0} /\ \A b \in Buckets : Limit[b] < MaxCount

VARIABLES
    count,      \* [Buckets -> Nat]: the INCR counters
    ttl,        \* [Buckets -> 0..Window]: PTTL of the keys
    wait,       \* history: ticks before a denied caller may come back
    closed,     \* history: the buckets that denied a caller, until they reset
    admitted    \* history: requests admitted per bucket and ticks ago

vars == <<count, ttl, wait, closed, admitted>>

Active(c) == {b \in Scopes[c] : Limit[b] > 0}

\* Nothing tells counts above every limit apart.
Incr(n) == IF n < MaxCount THEN n + 1 ELSE n

-----------------------------------------------------------------------------
\* Variant for fault injection: every request renews the expiry.
EvalRenewing(c) ==
    /\ count' = [b \in Buckets |-> IF b \in Active(c) THEN Incr(count[b]) ELSE count[b]]
    /\ ttl' = [b \in Buckets |-> IF b \in Active(c) THEN Window ELSE ttl[b]]

\* INCR every key; PEXPIRE those that it created.
Eval(c) ==
    /\ count' = [b \in Buckets |-> IF b \in Active(c) THEN Incr(count[b]) ELSE count[b]]
    /\ ttl' = [b \in Buckets |-> IF b \in Active(c) /\ count[b] = 0 THEN Window ELSE ttl[b]]

\* Variant for fault injection: the comparison lets one more through.
OverByMore(c) == {b \in Active(c) : count'[b] > Limit[b] + 1}

Over(c) == {b \in Active(c) : count'[b] > Limit[b]}

\* Variant for fault injection: the shortest of the remaining times is sent.
LeastRemaining(c, ms) == \E b \in Over(c) : ms = ttl'[b] /\ \A a \in Over(c) : ttl'[a] >= ms

\* retry_ms: the longest remaining time of the buckets that are over.
Remaining(c, ms) == \E b \in Over(c) : ms = ttl'[b] /\ \A a \in Over(c) : ttl'[a] <= ms

\* max(1, math.ceil(retry_ms / 1000))
RetryAfter(ms, seconds) ==
    /\ seconds \in 1..(Window + 1)
    /\ seconds * SecondTicks >= ms
    /\ seconds = 1 \/ (seconds - 1) * SecondTicks < ms

\* The request goes on to its handler.
Allow(c) ==
    /\ Eval(c)
    /\ Over(c) = {}
    /\ admitted' = [b \in Buckets |->
                       IF b \in Active(c) THEN [admitted[b] EXCEPT ![0] = @ + 1]
                                          ELSE admitted[b]]
    /\ wait' = [wait EXCEPT ![c] = 0]
    /\ closed' = [closed EXCEPT ![c] = {}]

\* 429 with Retry-After.
Deny(c) ==
    /\ Eval(c)
    /\ \E ms \in 0..Window, seconds \in 1..(Window + 1) :
        /\ Remaining(c, ms)
        /\ RetryAfter(ms, seconds)
        /\ wait' = [wait EXCEPT ![c] = seconds * SecondTicks]
    /\ closed' = [closed EXCEPT ![c] = Over(c)]
    /\ UNCHANGED admitted

\* 503: Redis never saw the script, or ran it and the answer was lost.
BackendError(c) ==
    /\ Eval(c) \/ UNCHANGED <<count, ttl>>
    /\ UNCHANGED <<wait, closed, admitted>>

\* Keys live only in Redis' memory.
RedisRestart ==
    /\ count' = [b \in Buckets |-> 0]
    /\ ttl' = [b \in Buckets |-> 0]
    /\ closed' = [c \in Callers |-> {}]
    /\ admitted' = [b \in Buckets |-> [i \in 0..(Window - 1) |-> 0]]
    /\ UNCHANGED wait

Minus1(n) == IF n = 0 THEN 0 ELSE n - 1

\* Time passes; keys whose time is up expire.
Tick ==
    /\ ttl' = [b \in Buckets |-> Minus1(ttl[b])]
    /\ count' = [b \in Buckets |-> IF ttl'[b] = 0 THEN 0 ELSE count[b]]
    /\ wait' = [c \in Callers |-> Minus1(wait[c])]
    /\ closed' = [c \in Callers |-> {b \in closed[c] : ttl'[b] > 0}]
    /\ admitted' = [b \in Buckets |->
                       [i \in 0..(Window - 1) |-> IF i = 0 THEN 0 ELSE admitted[b][i - 1]]]

-----------------------------------------------------------------------------
Init ==
    /\ count = [b \in Buckets |-> 0]
    /\ ttl = [b \in Buckets |-> 0]
    /\ wait = [c \in Callers |-> 0]
    /\ closed = [c \in Callers |-> {}]
    /\ admitted = [b \in Buckets |-> [i \in 0..(Window - 1) |-> 0]]

Next ==
    \/ \E c \in Callers : Allow(c) \/ Deny(c) \/ BackendError(c)
    \/ RedisRestart
    \/ Tick

Spec == Init /\ [][Next]_vars

\* Redis' clock runs.
FairSpec == Spec /\ WF_vars(Tick)

-----------------------------------------------------------------------------
TypeOK ==
    /\ count \in [Buckets -> Nat]
    /\ ttl \in [Buckets -> 0..Window]
    /\ wait \in [Callers -> Nat]
    /\ closed \in [Callers -> SUBSET Buckets]
    /\ admitted \in [Buckets -> [0..(Window - 1) -> Nat]]

\* The requests of a history, told apart by their age and a number.
Held(f) == UNION {{age} \X (1..f[age]) : age \in 0..(Window - 1)}

(***************************************************************************)
(* What a fixed window can promise: over any stretch of time as long as    *)
(* the window a bucket admits at most twice its limit, however windows,    *)
(* callers, denials and lost answers follow each other.                    *)
(***************************************************************************)
AtMostTwiceTheLimit ==
    \A b \in Buckets : Limit[b] > 0 => Cardinality(Held(admitted[b])) <= 2 * Limit[b]

(***************************************************************************)
(* Retry-After tells the truth: a denied caller who waits as long as it    *)
(* was told finds every bucket that denied it reset, although others, and  *)
(* its own denied requests, keep counting in them meanwhile.               *)
(***************************************************************************)
RetryAfterSuffices == \A c \in Callers : wait[c] = 0 => closed[c] = {}

(***************************************************************************)
(* A bucket over its limit opens again, even under constant hammering.     *)
(***************************************************************************)
BucketsReopen == \A b \in Buckets : (count[b] > Limit[b]) ~> (count[b] <= Limit[b])
=============================================================================
