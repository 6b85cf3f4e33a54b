-------------------------- MODULE RateLimiterProofs --------------------------
(***************************************************************************)
(* Type correctness of RateLimiter, the truth of Retry-After and the bound *)
(* of a fixed window, for any callers, buckets, limits, window and clock   *)
(* resolution.                                                             *)
(***************************************************************************)
EXTENDS RateLimiter, FiniteSetTheorems, TLAPS

USE LimiterAssumption

\* A key exists exactly as long as it counts something.
KeysExpire == \A b \in Buckets : count[b] = 0 <=> ttl[b] = 0

\* A bucket that denied a caller resets before the caller may come back.
ResetInTime == \A c \in Callers : \A b \in closed[c] : ttl[b] > 0 /\ ttl[b] <= wait[c]

IInv == TypeOK /\ KeysExpire /\ ResetInTime

\* INCR never leaves a counter at zero.
LEMMA IncrCounts ==
    ASSUME NEW n \in Nat
    PROVE  Incr(n) \in Nat /\ Incr(n) > 0
BY DEF Incr

\* The script keeps the keys well formed and touches no running expiry.
LEMMA EvalKeeps ==
    ASSUME IInv, NEW c \in Callers, Eval(c)
    PROVE  /\ count' \in [Buckets -> Nat]
           /\ ttl' \in [Buckets -> 0..Window]
           /\ KeysExpire'
           /\ \A b \in Buckets : ttl[b] > 0 => ttl'[b] = ttl[b]
           /\ \A b \in Active(c) : ttl'[b] > 0
<1>1. count' \in [Buckets -> Nat] /\ ttl' \in [Buckets -> 0..Window]
  <2>1. \A b \in Buckets : Incr(count[b]) \in Nat
    BY IncrCounts DEF IInv, TypeOK
  <2>2. QED
    BY <2>1 DEF IInv, TypeOK, Eval
<1>2. ASSUME NEW b \in Buckets
      PROVE  /\ count'[b] = 0 <=> ttl'[b] = 0
             /\ ttl[b] > 0 => ttl'[b] = ttl[b]
             /\ b \in Active(c) => ttl'[b] > 0
  <2>1. count[b] \in Nat /\ ttl[b] \in 0..Window /\ (count[b] = 0 <=> ttl[b] = 0)
    BY DEF IInv, TypeOK, KeysExpire
  <2>2. CASE b \in Active(c)
    <3>1. count'[b] = Incr(count[b]) /\ ttl'[b] = IF count[b] = 0 THEN Window ELSE ttl[b]
      BY <2>2 DEF Eval
    <3>2. QED
      BY <2>1, <3>1, IncrCounts
  <2>3. CASE b \notin Active(c)
    <3>1. count'[b] = count[b] /\ ttl'[b] = ttl[b]
      BY <2>3 DEF Eval
    <3>2. QED
      BY <2>1, <2>3, <3>1
  <2>4. QED
    BY <2>2, <2>3
<1>3. Active(c) \subseteq Buckets
  BY DEF Active
<1>4. QED
  BY <1>1, <1>2, <1>3 DEF KeysExpire

LEMMA InvInitial == Init => IInv
BY DEF Init, IInv, TypeOK, KeysExpire, ResetInTime

LEMMA InvInductive ==
    ASSUME IInv, [Next]_vars
    PROVE  IInv'
<1>1. TypeOK /\ KeysExpire /\ ResetInTime
  BY DEF IInv
<1>2. ASSUME NEW c \in Callers, Allow(c)
      PROVE  IInv'
  <2>1. /\ count' \in [Buckets -> Nat] /\ ttl' \in [Buckets -> 0..Window] /\ KeysExpire'
        /\ \A b \in Buckets : ttl[b] > 0 => ttl'[b] = ttl[b]
    BY <1>2, EvalKeeps DEF Allow
  <2>2. wait' \in [Callers -> Nat] /\ closed' \in [Callers -> SUBSET Buckets]
    BY <1>1, <1>2 DEF Allow, TypeOK
  <2>3. admitted' \in [Buckets -> [0..(Window - 1) -> Nat]]
    <3>1. ASSUME NEW b \in Buckets
          PROVE  [admitted[b] EXCEPT ![0] = @ + 1] \in [0..(Window - 1) -> Nat]
      BY <1>1 DEF TypeOK
    <3>2. QED
      BY <1>1, <1>2, <3>1 DEF Allow, TypeOK
  <2>4. ASSUME NEW d \in Callers, NEW b \in closed'[d]
        PROVE  ttl'[b] > 0 /\ ttl'[b] <= wait'[d]
    <3>1. d # c /\ b \in closed[d] /\ wait'[d] = wait[d]
      BY <1>1, <1>2, <2>4 DEF Allow, TypeOK
    <3>2. b \in Buckets /\ ttl[b] > 0 /\ ttl[b] <= wait[d]
      BY <1>1, <3>1 DEF TypeOK, ResetInTime
    <3>3. QED
      BY <2>1, <3>1, <3>2
  <2>5. QED
    BY <2>1, <2>2, <2>3, <2>4 DEF IInv, TypeOK, ResetInTime
<1>3. ASSUME NEW c \in Callers, Deny(c)
      PROVE  IInv'
  <2>1. /\ count' \in [Buckets -> Nat] /\ ttl' \in [Buckets -> 0..Window] /\ KeysExpire'
        /\ \A b \in Buckets : ttl[b] > 0 => ttl'[b] = ttl[b]
        /\ \A b \in Active(c) : ttl'[b] > 0
    BY <1>3, EvalKeeps DEF Deny
  <2>2. PICK ms \in 0..Window, seconds \in 1..(Window + 1) :
           /\ Remaining(c, ms)
           /\ RetryAfter(ms, seconds)
           /\ wait' = [wait EXCEPT ![c] = seconds * SecondTicks]
    BY <1>3 DEF Deny
  <2> DEFINE due == seconds * SecondTicks
  <2>3. due \in Nat /\ due >= ms
    BY <2>2 DEF RetryAfter
  <2> HIDE DEF due
  <2>4. wait' = [wait EXCEPT ![c] = due]
    BY <2>2 DEF due
  <2>5. Over(c) \in SUBSET Buckets /\ Over(c) \subseteq Active(c)
    BY DEF Over, Active
  <2>6. closed' = [closed EXCEPT ![c] = Over(c)] /\ UNCHANGED admitted
    BY <1>3 DEF Deny
  <2>7. wait' \in [Callers -> Nat] /\ closed' \in [Callers -> SUBSET Buckets]
    BY <1>1, <2>3, <2>4, <2>5, <2>6 DEF TypeOK
  <2>8. ASSUME NEW d \in Callers, NEW b \in closed'[d]
        PROVE  ttl'[b] > 0 /\ ttl'[b] <= wait'[d]
    <3>1. CASE d = c
      <4>1. b \in Over(c) /\ wait'[d] = due
        BY <1>1, <2>4, <2>6, <3>1, <2>8 DEF TypeOK
      <4>2. ttl'[b] <= ms /\ ttl'[b] > 0
        BY <2>1, <2>2, <2>5, <4>1 DEF Remaining
      <4>3. b \in Buckets /\ ttl'[b] \in 0..Window
        BY <2>1, <2>5, <4>1
      <4>4. QED
        BY <2>3, <4>1, <4>2, <4>3
    <3>2. CASE d # c
      <4>1. b \in closed[d] /\ wait'[d] = wait[d]
        BY <1>1, <2>4, <2>6, <3>2, <2>8 DEF TypeOK
      <4>2. b \in Buckets /\ ttl[b] > 0 /\ ttl[b] <= wait[d]
        BY <1>1, <4>1 DEF TypeOK, ResetInTime
      <4>3. QED
        BY <2>1, <4>1, <4>2
    <3>3. QED
      BY <3>1, <3>2
  <2>9. QED
    BY <1>1, <2>1, <2>6, <2>7, <2>8 DEF IInv, TypeOK, ResetInTime
<1>4. ASSUME NEW c \in Callers, BackendError(c)
      PROVE  IInv'
  <2>1. UNCHANGED <<wait, closed, admitted>>
    BY <1>4 DEF BackendError
  <2>2. CASE Eval(c)
    <3>1. /\ count' \in [Buckets -> Nat] /\ ttl' \in [Buckets -> 0..Window] /\ KeysExpire'
          /\ \A b \in Buckets : ttl[b] > 0 => ttl'[b] = ttl[b]
      BY <2>2, EvalKeeps
    <3>2. ResetInTime'
      BY <1>1, <2>1, <3>1 DEF ResetInTime, TypeOK
    <3>3. QED
      BY <1>1, <2>1, <3>1, <3>2 DEF IInv, TypeOK
  <2>3. CASE UNCHANGED <<count, ttl>>
    BY <1>1, <2>1, <2>3 DEF IInv, TypeOK, KeysExpire, ResetInTime
  <2>4. QED
    BY <1>4, <2>2, <2>3 DEF BackendError
<1>5. CASE RedisRestart
  BY <1>1, <1>5 DEF RedisRestart, IInv, TypeOK, KeysExpire, ResetInTime
<1>6. CASE Tick
  <2>1. \A n \in Nat : Minus1(n) \in Nat /\ Minus1(n) <= n
    BY DEF Minus1
  <2>2. ttl' \in [Buckets -> 0..Window]
    BY <1>1, <1>6 DEF Tick, TypeOK, Minus1
  <2>3. count' \in [Buckets -> Nat] /\ wait' \in [Callers -> Nat]
    BY <1>1, <1>6, <2>1 DEF Tick, TypeOK
  <2>4. closed' \in [Callers -> SUBSET Buckets]
    <3>1. \A c \in Callers : {b \in closed[c] : ttl'[b] > 0} \in SUBSET Buckets
      BY <1>1 DEF TypeOK
    <3>2. QED
      BY <1>6, <3>1 DEF Tick
  <2>5. admitted' \in [Buckets -> [0..(Window - 1) -> Nat]]
    <3>1. ASSUME NEW b \in Buckets
          PROVE  [i \in 0..(Window - 1) |-> IF i = 0 THEN 0 ELSE admitted[b][i - 1]]
                     \in [0..(Window - 1) -> Nat]
      BY <1>1 DEF TypeOK
    <3>2. QED
      BY <1>6, <3>1 DEF Tick
  <2>6. KeysExpire'
    <3>1. ASSUME NEW b \in Buckets
          PROVE  count'[b] = 0 <=> ttl'[b] = 0
      <4>1. ttl'[b] = Minus1(ttl[b]) /\ count'[b] = IF ttl'[b] = 0 THEN 0 ELSE count[b]
        BY <1>6 DEF Tick
      <4>2. ttl[b] \in Nat /\ (count[b] = 0 <=> ttl[b] = 0)
        BY <1>1 DEF TypeOK, KeysExpire
      <4>3. QED
        BY <4>1, <4>2 DEF Minus1
    <3>2. QED
      BY <3>1 DEF KeysExpire
  <2>7. ResetInTime'
    <3>1. ASSUME NEW c \in Callers, NEW b \in closed'[c]
          PROVE  ttl'[b] > 0 /\ ttl'[b] <= wait'[c]
      <4>1. b \in closed[c] /\ ttl'[b] > 0 /\ wait'[c] = Minus1(wait[c])
        BY <1>6, <3>1 DEF Tick
      <4>2. b \in Buckets /\ ttl[b] \in Nat /\ wait[c] \in Nat /\ ttl[b] <= wait[c]
        BY <1>1, <4>1 DEF TypeOK, ResetInTime
      <4>3. ttl'[b] = Minus1(ttl[b])
        BY <1>6, <4>2 DEF Tick
      <4>4. QED
        BY <4>1, <4>2, <4>3 DEF Minus1
    <3>2. QED
      BY <3>1 DEF ResetInTime
  <2>8. QED
    BY <2>2, <2>3, <2>4, <2>5, <2>6, <2>7 DEF IInv, TypeOK
<1>7. CASE UNCHANGED vars
  BY <1>1, <1>7 DEF vars, IInv, TypeOK, KeysExpire, ResetInTime
<1>8. QED
  BY <1>2, <1>3, <1>4, <1>5, <1>6, <1>7 DEF Next

\* Whatever others send meanwhile, a caller that waits for its Retry-After
\* finds reset every bucket that denied it (rate_limit_service.py:38-57, 87-90).
THEOREM RetryAfterIsTrue == Spec => []RetryAfterSuffices
<1>1. IInv => RetryAfterSuffices
  BY DEF IInv, TypeOK, ResetInTime, RetryAfterSuffices
<1>2. IInv /\ [Next]_vars => IInv'
  BY InvInductive
<1>3. QED
  BY <1>1, <1>2, InvInitial, PTL DEF Spec

-----------------------------------------------------------------------------
(***************************************************************************)
(* Twice the limit.  The key of a bucket is Window - ttl ticks old: the    *)
(* younger requests were counted by it, the older ones by keys before it,  *)
(* and of those only the last one reaches into the stretch of a window.    *)
(***************************************************************************)
Ages == 0..(Window - 1)
Fresh(f, age) == {p \in Held(f) : p[1] <= age}
Stale(f, age) == {p \in Held(f) : p[1] > age}
KeyAge(b) == Window - ttl[b]

CountedBy(S, n) == IsFiniteSet(S) /\ Cardinality(S) <= n

SpreadOf(f, n, left, limit) ==
    /\ left > 0 => /\ CountedBy(Fresh(f, Window - left), n)
                   /\ CountedBy(Fresh(f, Window - left), limit)
                   /\ CountedBy(Stale(f, Window - left), limit)
    /\ left = 0 => CountedBy(Held(f), limit) /\ f[0] = 0

Spread == \A b \in Buckets : SpreadOf(admitted[b], count[b], ttl[b], Limit[b])

LEMMA HeldPairs ==
    ASSUME NEW f
    PROVE  \A p : p \in Held(f) <=> \E age \in Ages : \E i \in 1..f[age] : p = <<age, i>>
BY DEF Held, Ages

LEMMA FewerThan ==
    ASSUME NEW S, NEW n \in Int, CountedBy(S, n), NEW T, NEW m \in Injection(T, S)
    PROVE  CountedBy(T, n)
<1>1. IsFiniteSet(T) /\ Cardinality(T) <= Cardinality(S)
  BY FS_Injection DEF CountedBy
<1>2. Cardinality(T) \in Nat /\ Cardinality(S) \in Nat
  BY <1>1, FS_CardinalityType DEF CountedBy
<1> QED
  BY <1>1, <1>2 DEF CountedBy

\* One request more, of age 0.
LEMMA HeldMore ==
    ASSUME NEW f \in [Ages -> Nat], NEW g, NEW age \in Ages,
           g[0] = f[0] + 1, \A a \in Ages : a # 0 => g[a] = f[a]
    PROVE  /\ Fresh(g, age) = Fresh(f, age) \cup {<<0, f[0] + 1>>}
           /\ <<0, f[0] + 1>> \notin Fresh(f, age)
           /\ Stale(g, age) = Stale(f, age)
<1>0. \A p : p \in Held(g) <=> \E a \in Ages : \E i \in 1..g[a] : p = <<a, i>>
  BY HeldPairs
<1>1. 0 \in Ages /\ f[0] \in Nat
  BY LimiterAssumption DEF Ages
<1>2. g[0] = f[0] + 1 /\ \A a \in Ages : a # 0 => g[a] = f[a]
  OBVIOUS
<1>3. 1..(f[0] + 1) = 1..f[0] \cup {f[0] + 1} /\ f[0] + 1 \notin 1..f[0]
  BY <1>1
<1>4. \A p : p \in Held(g) <=> p \in Held(f) \/ p = <<0, f[0] + 1>>
  <2> TAKE p
  <2>1. p \in Held(g) => p \in Held(f) \/ p = <<0, f[0] + 1>>
    <3> SUFFICES ASSUME p \in Held(g) PROVE p \in Held(f) \/ p = <<0, f[0] + 1>>
      OBVIOUS
    <3>1. PICK a \in Ages : \E i \in 1..g[a] : p = <<a, i>>
      BY <1>0
    <3>2. CASE a = 0
      BY <1>2, <1>3, <3>1, <3>2, HeldPairs
    <3>3. CASE a # 0
      BY <1>2, <3>1, <3>3, HeldPairs
    <3> QED
      BY <3>2, <3>3
  <2>2. p \in Held(f) => p \in Held(g)
    <3> SUFFICES ASSUME p \in Held(f) PROVE p \in Held(g)
      OBVIOUS
    <3>1. PICK a \in Ages : \E i \in 1..f[a] : p = <<a, i>>
      BY HeldPairs
    <3>2. 1..f[a] \subseteq 1..g[a]
      BY <1>2, <1>3
    <3> QED
      BY <3>1, <3>2, HeldPairs
  <2>3. p = <<0, f[0] + 1>> => p \in Held(g)
    BY <1>1, <1>2, <1>3, HeldPairs
  <2> QED
    BY <2>1, <2>2, <2>3
<1>5. <<0, f[0] + 1>> \notin Held(f)
  <2> SUFFICES ASSUME <<0, f[0] + 1>> \in Held(f) PROVE FALSE
    OBVIOUS
  <2>1. PICK a \in Ages : \E i \in 1..f[a] : <<0, f[0] + 1>> = <<a, i>>
    BY HeldPairs
  <2> QED
    BY <1>3, <2>1
<1>6. <<0, f[0] + 1>>[1] = 0 /\ 0 <= age /\ ~(0 > age)
  BY DEF Ages
<1> QED
  BY <1>4, <1>5, <1>6 DEF Fresh, Stale

\* A tick later, all are older by one and the oldest are gone.
LEMMA HeldLater ==
    ASSUME NEW f \in [Ages -> Nat], NEW g,
           g = [i \in Ages |-> IF i = 0 THEN 0 ELSE f[i - 1]]
    PROVE  /\ g[0] = 0
           /\ \A p \in Held(g) : /\ <<p[1] - 1, p[2]>> \in Held(f)
                                 /\ p = <<p[1], p[2]>> /\ p[1] \in Ages /\ p[1] > 0
<1>1. g[0] = 0
  BY LimiterAssumption DEF Ages
<1>2. ASSUME NEW p \in Held(g)
      PROVE  /\ <<p[1] - 1, p[2]>> \in Held(f)
             /\ p = <<p[1], p[2]>> /\ p[1] \in Ages /\ p[1] > 0
  <2>1. PICK a \in Ages : \E i \in 1..g[a] : p = <<a, i>>
    BY HeldPairs
  <2>2. PICK i \in 1..g[a] : p = <<a, i>>
    BY <2>1
  <2>3. a # 0
    BY <1>1, <2>2
  <2>4. a > 0 /\ a - 1 \in Ages /\ g[a] = f[a - 1]
    BY <2>3 DEF Ages
  <2>5. <<a - 1, i>> \in Held(f)
    BY <2>2, <2>4, HeldPairs
  <2> QED
    BY <2>2, <2>4, <2>5
<1> QED
  BY <1>1, <1>2

LEMMA OlderByOne ==
    ASSUME NEW f \in [Ages -> Nat], NEW g,
           g = [i \in Ages |-> IF i = 0 THEN 0 ELSE f[i - 1]],
           NEW S, NEW n \in Int, CountedBy(S, n), NEW T \in SUBSET Held(g),
           \A p \in T : <<p[1] - 1, p[2]>> \in Held(f) => <<p[1] - 1, p[2]>> \in S
    PROVE  CountedBy(T, n)
<1> DEFINE m == [p \in T |-> <<p[1] - 1, p[2]>>]
<1>1. \A p \in T : <<p[1] - 1, p[2]>> \in S
  BY HeldLater
<1>2. ASSUME NEW p \in T, NEW q \in T, m[p] = m[q] PROVE p = q
  <2>1. /\ p = <<p[1], p[2]>> /\ p[1] \in Ages
        /\ q = <<q[1], q[2]>> /\ q[1] \in Ages
    BY HeldLater
  <2>2. p[1] - 1 = q[1] - 1 /\ p[2] = q[2]
    BY <1>2
  <2>3. p[1] = q[1]
    BY <2>1, <2>2 DEF Ages
  <2> QED
    BY <2>1, <2>2, <2>3
<1>3. m \in Injection(T, S)
  BY <1>1, <1>2 DEF Injection, IsInjective
<1> QED
  BY <1>3, FewerThan

LEMMA FreshOrStale ==
    ASSUME NEW f, NEW age \in Ages
    PROVE  /\ Held(f) = Fresh(f, age) \cup Stale(f, age)
           /\ Fresh(f, age) \cap Stale(f, age) = {}
           /\ f[0] = 0 => Fresh(f, 0) = {} /\ Stale(f, 0) = Held(f)
           /\ Fresh(f, Window - 1) = Held(f)
<1>1. ASSUME NEW p \in Held(f)
      PROVE  p[1] \in Ages /\ (f[0] = 0 => p[1] # 0)
  <2>1. PICK a \in Ages : \E i \in 1..f[a] : p = <<a, i>>
    BY HeldPairs
  <2>2. p[1] = a
    BY <2>1
  <2>3. ASSUME a = 0, f[0] = 0 PROVE FALSE
    BY <2>1, <2>3
  <2> QED
    BY <2>2, <2>3
<1>2. \A a \in Ages : /\ a <= Window - 1 /\ (a <= age \/ a > age) /\ ~(a <= age /\ a > age)
                      /\ a # 0 => ~(a <= 0) /\ a > 0
  BY DEF Ages
<1> QED
  BY <1>1, <1>2 DEF Fresh, Stale

LEMMA CountedUpTo ==
    ASSUME NEW S, NEW n \in Int, CountedBy(S, n), NEW k \in Int, n <= k
    PROVE  CountedBy(S, k)
<1>1. Cardinality(S) \in Nat
  BY FS_CardinalityType DEF CountedBy
<1> QED
  BY <1>1 DEF CountedBy

LEMMA NothingCounted == ASSUME NEW n \in Nat PROVE CountedBy({}, n)
BY FS_EmptySet DEF CountedBy

LEMMA OneMoreCounted ==
    ASSUME NEW S, NEW n \in Int, CountedBy(S, n), NEW x, x \notin S
    PROVE  CountedBy(S \cup {x}, n + 1)
<1>1. IsFiniteSet(S) /\ Cardinality(S) \in Nat /\ Cardinality(S) <= n
  BY FS_CardinalityType DEF CountedBy
<1>2. IsFiniteSet(S \cup {x}) /\ Cardinality(S \cup {x}) = Cardinality(S) + 1
  BY <1>1, FS_AddElement
<1> QED
  BY <1>1, <1>2 DEF CountedBy

LEMMA IncrIsOneMore ==
    ASSUME NEW n \in Nat
    PROVE  /\ Incr(n) \in Nat /\ Incr(n) >= n /\ Incr(n) >= 1
           /\ Incr(n) < MaxCount => Incr(n) = n + 1
           /\ Incr(0) = 1
BY LimiterAssumption DEF Incr

LEMMA SpreadInitially == Init => Spread
<1> SUFFICES ASSUME Init, NEW b \in Buckets
             PROVE  SpreadOf(admitted[b], count[b], ttl[b], Limit[b])
  BY DEF Spread
<1> DEFINE f == [i \in Ages |-> 0]
<1>1. admitted[b] = f /\ ttl[b] = 0 /\ Limit[b] \in Nat
  BY DEF Init, Ages
<1>2. 0 \in Ages /\ f[0] = 0
  BY DEF Ages
<1>3. \A age \in Ages : f[age] = 0
  OBVIOUS
<1> HIDE DEF f
<1>4. Held(f) = {}
  <2>1. ASSUME NEW p \in Held(f) PROVE FALSE
    <3>1. PICK a \in Ages : \E i \in 1..f[a] : p = <<a, i>>
      BY <2>1, HeldPairs
    <3> QED
      BY <1>3, <3>1
  <2> QED
    BY <2>1
<1> QED
  BY <1>1, <1>2, <1>4, NothingCounted DEF SpreadOf

\* The script runs for a bucket, and the request may be admitted.
LEMMA EvalSpreads ==
    ASSUME NEW f \in [Ages -> Nat], NEW g, NEW n \in Nat, NEW left \in 0..Window, NEW limit \in Nat,
           SpreadOf(f, n, left, limit), n = 0 <=> left = 0, limit < MaxCount,
           \/ g = f
           \/ /\ Incr(n) <= limit
              /\ g[0] = f[0] + 1 /\ \A a \in Ages : a # 0 => g[a] = f[a]
    PROVE  SpreadOf(g, Incr(n), IF n = 0 THEN Window ELSE left, limit)
<1>1. /\ Incr(n) \in Nat /\ Incr(n) >= n /\ Incr(n) >= 1
      /\ Incr(n) <= limit => Incr(n) = n + 1
      /\ n = 0 => Incr(n) = 1
  BY IncrIsOneMore, LimiterAssumption
<1>2. CASE n = 0
  <2>1. CountedBy(Held(f), limit) /\ f[0] = 0
    BY <1>2 DEF SpreadOf
  <2>2. 0 \in Ages /\ Window - Window = 0 /\ Window > 0
    BY LimiterAssumption DEF Ages
  <2>3. Fresh(f, 0) = {} /\ Stale(f, 0) = Held(f)
    BY <2>1, <2>2, FreshOrStale
  <2>4. CASE g = f
    <3>1. CountedBy(Fresh(g, 0), 1) /\ CountedBy(Fresh(g, 0), limit) /\ CountedBy(Stale(g, 0), limit)
      BY <2>1, <2>3, <2>4, NothingCounted
    <3> QED
      BY <1>1, <1>2, <2>2, <3>1 DEF SpreadOf
  <2>5. CASE Incr(n) <= limit /\ g[0] = f[0] + 1 /\ \A a \in Ages : a # 0 => g[a] = f[a]
    <3>1. /\ Fresh(g, 0) = {<<0, f[0] + 1>>} /\ Stale(g, 0) = Held(f)
      <4>1. /\ Fresh(g, 0) = Fresh(f, 0) \cup {<<0, f[0] + 1>>}
            /\ Stale(g, 0) = Stale(f, 0)
        <5>1. PICK age \in Ages : age = 0
          BY <2>2
        <5>2. /\ Fresh(g, age) = Fresh(f, age) \cup {<<0, f[0] + 1>>}
              /\ Stale(g, age) = Stale(f, age)
          BY <2>5, HeldMore
        <5> QED
          BY <5>1, <5>2
      <4> QED
        BY <2>3, <4>1
    <3>2. CountedBy(Fresh(g, 0), 1)
      <4> DEFINE first == <<0, f[0] + 1>>
      <4> HIDE DEF first
      <4>1. IsFiniteSet({first}) /\ Cardinality({first}) = 1
        BY FS_Singleton
      <4>2. CountedBy({first}, 1)
        BY <4>1 DEF CountedBy
      <4> QED
        BY <3>1, <4>2 DEF first
    <3>3. 1 <= limit /\ 1 \in Int /\ limit \in Int
      BY <1>1, <1>2, <2>5
    <3>4. CountedBy(Fresh(g, 0), limit)
      BY <3>2, <3>3, CountedUpTo
    <3>5. CountedBy(Stale(g, 0), limit)
      BY <2>1, <3>1
    <3> QED
      BY <1>1, <1>2, <2>2, <3>2, <3>4, <3>5 DEF SpreadOf
  <2> QED
    BY <2>4, <2>5
<1>3. CASE n # 0
  <2> DEFINE age == Window - left
  <2>1. left > 0 /\ age \in Ages
    BY <1>3, LimiterAssumption DEF Ages
  <2>2. CountedBy(Fresh(f, age), n) /\ CountedBy(Fresh(f, age), limit) /\ CountedBy(Stale(f, age), limit)
    BY <2>1 DEF SpreadOf
  <2>3. /\ CountedBy(Fresh(g, age), Incr(n)) /\ CountedBy(Fresh(g, age), limit)
        /\ CountedBy(Stale(g, age), limit)
    <3> HIDE DEF age
    <3>1. CASE g = f
      BY <1>1, <2>2, <3>1, CountedUpTo
    <3>2. CASE Incr(n) <= limit /\ g[0] = f[0] + 1 /\ \A a \in Ages : a # 0 => g[a] = f[a]
      <4>1. /\ Fresh(g, age) = Fresh(f, age) \cup {<<0, f[0] + 1>>}
            /\ <<0, f[0] + 1>> \notin Fresh(f, age) /\ Stale(g, age) = Stale(f, age)
        BY <2>1, <3>2, HeldMore
      <4>2. CountedBy(Fresh(g, age), n + 1)
        BY <2>2, <4>1, OneMoreCounted
      <4>3. n + 1 = Incr(n) /\ n + 1 <= limit /\ n + 1 \in Int /\ limit \in Int
        BY <1>1, <3>2
      <4>4. CountedBy(Fresh(g, age), limit)
        BY <4>2, <4>3, CountedUpTo
      <4> QED
        BY <2>2, <4>1, <4>2, <4>3, <4>4
    <3> QED
      BY <3>1, <3>2
  <2> QED
    BY <1>3, <2>1, <2>3 DEF SpreadOf
<1> QED
  BY <1>2, <1>3

\* A tick passes for a bucket.
LEMMA TickSpreads ==
    ASSUME NEW f \in [Ages -> Nat], NEW g,
           g = [i \in Ages |-> IF i = 0 THEN 0 ELSE f[i - 1]],
           NEW n \in Nat, NEW left \in 0..Window, NEW limit \in Nat, SpreadOf(f, n, left, limit)
    PROVE  SpreadOf(g, IF Minus1(left) = 0 THEN 0 ELSE n, Minus1(left), limit)
<1>1. g[0] = 0
  BY HeldLater
<1>2. \A p \in Held(g) : <<p[1] - 1, p[2]>> \in Held(f) /\ p[1] \in Ages
  BY HeldLater
<1>3. CASE left = 0
  <2>1. CountedBy(Held(f), limit)
    BY <1>3 DEF SpreadOf
  <2>2. CountedBy(Held(g), limit)
    BY <2>1, OlderByOne
  <2> QED
    BY <1>1, <1>3, <2>2 DEF SpreadOf, Minus1
<1>4. CASE left = 1
  <2>1. CountedBy(Fresh(f, Window - 1), limit) /\ Window - 1 \in Ages
    BY <1>4, LimiterAssumption DEF SpreadOf, Ages
  <2>2. CountedBy(Held(f), limit)
    BY <2>1, FreshOrStale
  <2>3. CountedBy(Held(g), limit)
    BY <2>2, OlderByOne
  <2> QED
    BY <1>1, <1>4, <2>3 DEF SpreadOf, Minus1
<1>5. CASE left > 1
  <2> DEFINE age == Window - left
  <2>1. age \in Ages /\ age \in Int /\ Window - (left - 1) = age + 1
    BY <1>5, LimiterAssumption DEF Ages
  <2>2. CountedBy(Fresh(f, age), n) /\ CountedBy(Fresh(f, age), limit) /\ CountedBy(Stale(f, age), limit)
    BY <1>5 DEF SpreadOf
  <2> HIDE DEF age
  <2>3. \A p \in Held(g) :
            /\ <<p[1] - 1, p[2]>>[1] = p[1] - 1
            /\ p[1] <= age + 1 <=> p[1] - 1 <= age
            /\ p[1] > age + 1 <=> p[1] - 1 > age
    <3> TAKE p \in Held(g)
    <3> DEFINE a == p[1]
    <3>1. a \in Int
      <4>1. a \in Ages
        BY <1>2
      <4> HIDE DEF a
      <4> QED
        BY <4>1, LimiterAssumption DEF Ages
    <3> HIDE DEF a
    <3>2. (a <= age + 1 <=> a - 1 <= age) /\ (a > age + 1 <=> a - 1 > age)
      BY <2>1, <3>1
    <3> QED
      BY <3>2 DEF a
  <2>4. \A p \in Fresh(g, age + 1) : <<p[1] - 1, p[2]>> \in Held(f) => <<p[1] - 1, p[2]>> \in Fresh(f, age)
    BY <2>3 DEF Fresh
  <2>5. \A p \in Stale(g, age + 1) : <<p[1] - 1, p[2]>> \in Held(f) => <<p[1] - 1, p[2]>> \in Stale(f, age)
    BY <2>3 DEF Stale
  <2>6. Fresh(g, age + 1) \in SUBSET Held(g) /\ Stale(g, age + 1) \in SUBSET Held(g)
    BY DEF Fresh, Stale
  <2>7. n \in Int /\ limit \in Int
    OBVIOUS
  <2>8. /\ CountedBy(Fresh(g, age + 1), n) /\ CountedBy(Fresh(g, age + 1), limit)
        /\ CountedBy(Stale(g, age + 1), limit)
    BY <2>2, <2>4, <2>5, <2>6, <2>7, OlderByOne
  <2>9. Minus1(left) = left - 1 /\ left - 1 > 0
    BY <1>5 DEF Minus1
  <2> QED
    BY <2>1, <2>8, <2>9 DEF SpreadOf
<1> QED
  BY <1>3, <1>4, <1>5

\* What the script does to a bucket, whether or not the request is admitted.
LEMMA EvalOfBucket ==
    ASSUME IInv, NEW c \in Callers, Eval(c), NEW b \in Buckets
    PROVE  /\ b \in Active(c) =>
                  /\ count'[b] = Incr(count[b])
                  /\ ttl'[b] = IF count[b] = 0 THEN Window ELSE ttl[b]
           /\ b \notin Active(c) => count'[b] = count[b] /\ ttl'[b] = ttl[b]
BY DEF Eval

LEMMA TypesOfBucket ==
    ASSUME IInv, NEW b \in Buckets
    PROVE  /\ admitted[b] \in [Ages -> Nat] /\ count[b] \in Nat /\ ttl[b] \in 0..Window
           /\ count[b] = 0 <=> ttl[b] = 0
           /\ Limit[b] \in Nat /\ Limit[b] < MaxCount /\ 0 \in Ages
BY LimiterAssumption DEF IInv, TypeOK, KeysExpire, Ages

LEMMA SpreadKept ==
    ASSUME IInv, Spread, [Next]_vars
    PROVE  Spread'
<1> SUFFICES ASSUME NEW b \in Buckets
             PROVE  SpreadOf(admitted'[b], count'[b], ttl'[b], Limit[b])
  BY DEF Spread
<1> DEFINE f == admitted[b]
<1>1. SpreadOf(f, count[b], ttl[b], Limit[b])
  BY DEF Spread
<1>2. ASSUME NEW c \in Callers, Allow(c)
      PROVE  SpreadOf(admitted'[b], count'[b], ttl'[b], Limit[b])
  <2>1. Eval(c)
    BY <1>2 DEF Allow
  <2>2. CASE b \in Active(c)
    <3>1. admitted'[b] = [f EXCEPT ![0] = @ + 1]
      BY <1>2, <2>2 DEF Allow
    <3>2. admitted'[b][0] = f[0] + 1 /\ \A a \in Ages : a # 0 => admitted'[b][a] = f[a]
      BY <3>1, TypesOfBucket
    <3>3. /\ count'[b] = Incr(count[b])
          /\ ttl'[b] = IF count[b] = 0 THEN Window ELSE ttl[b]
      BY <2>1, <2>2, EvalOfBucket
    <3>4. Incr(count[b]) <= Limit[b]
      <4>1. ~(count'[b] > Limit[b])
        BY <1>2, <2>2 DEF Allow, Over
      <4>2. count'[b] \in Nat
        BY <3>3, TypesOfBucket, IncrIsOneMore
      <4> QED
        BY <3>3, <4>1, <4>2, TypesOfBucket
    <3> DEFINE g == admitted'[b]
               n == count[b]
               left == ttl[b]
               limit == Limit[b]
    <3>5. /\ f \in [Ages -> Nat] /\ n \in Nat /\ left \in 0..Window /\ limit \in Nat
          /\ n = 0 <=> left = 0
          /\ limit < MaxCount /\ SpreadOf(f, n, left, limit)
      BY <1>1, TypesOfBucket
    <3>6. Incr(n) <= limit /\ g[0] = f[0] + 1 /\ \A a \in Ages : a # 0 => g[a] = f[a]
      BY <3>2, <3>4
    <3> HIDE DEF f, g, n, left, limit
    <3>7. SpreadOf(g, Incr(n), IF n = 0 THEN Window ELSE left, limit)
      BY <3>5, <3>6, EvalSpreads
    <3> QED
      BY <3>3, <3>7 DEF g, n, left, limit
  <2>3. CASE b \notin Active(c)
    <3>1. admitted'[b] = f
      BY <1>2, <2>3 DEF Allow
    <3> QED
      BY <1>1, <2>1, <2>3, <3>1, EvalOfBucket
  <2> QED
    BY <2>2, <2>3
<1>3. ASSUME NEW c \in Callers, Eval(c), UNCHANGED admitted
      PROVE  SpreadOf(admitted'[b], count'[b], ttl'[b], Limit[b])
  <2>1. admitted'[b] = f
    BY <1>3
  <2>2. CASE b \in Active(c)
    <3>1. /\ count'[b] = Incr(count[b])
          /\ ttl'[b] = IF count[b] = 0 THEN Window ELSE ttl[b]
      BY <1>3, <2>2, EvalOfBucket
    <3> QED
      BY <1>1, <2>1, <3>1, TypesOfBucket, EvalSpreads
  <2>3. CASE b \notin Active(c)
    BY <1>1, <1>3, <2>1, <2>3, EvalOfBucket
  <2> QED
    BY <2>2, <2>3
<1>4. CASE RedisRestart
  <2> DEFINE g == [i \in Ages |-> 0]
  <2>1. admitted'[b] = g /\ ttl'[b] = 0 /\ Limit[b] \in Nat
    BY <1>4, TypesOfBucket DEF RedisRestart, Ages
  <2>2. g[0] = 0 /\ \A age \in Ages : g[age] = 0
    BY TypesOfBucket
  <2> HIDE DEF g
  <2>3. Held(g) = {}
    <3>1. ASSUME NEW p \in Held(g) PROVE FALSE
      <4>1. PICK a \in Ages : \E i \in 1..g[a] : p = <<a, i>>
        BY <3>1, HeldPairs
      <4> QED
        BY <2>2, <4>1
    <3> QED
      BY <3>1
  <2> QED
    BY <2>1, <2>2, <2>3, NothingCounted DEF SpreadOf
<1>5. CASE Tick
  <2>1. /\ ttl'[b] = Minus1(ttl[b])
        /\ count'[b] = IF ttl'[b] = 0 THEN 0 ELSE count[b]
        /\ admitted'[b] = [i \in Ages |-> IF i = 0 THEN 0 ELSE f[i - 1]]
    BY <1>5 DEF Tick, Ages
  <2> DEFINE g == admitted'[b]
             n == count[b]
             left == ttl[b]
             limit == Limit[b]
  <2>2. /\ f \in [Ages -> Nat] /\ n \in Nat /\ left \in 0..Window /\ limit \in Nat
        /\ SpreadOf(f, n, left, limit)
        /\ g = [i \in Ages |-> IF i = 0 THEN 0 ELSE f[i - 1]]
    BY <1>1, <2>1, TypesOfBucket
  <2> HIDE DEF f, g, n, left, limit
  <2>3. SpreadOf(g, IF Minus1(left) = 0 THEN 0 ELSE n, Minus1(left), limit)
    BY <2>2, TickSpreads
  <2> QED
    BY <2>1, <2>3 DEF g, n, left, limit
<1>6. CASE UNCHANGED vars
  BY <1>1, <1>6 DEF vars
<1>7. ASSUME NEW c \in Callers, UNCHANGED <<count, ttl, admitted>>
      PROVE  SpreadOf(admitted'[b], count'[b], ttl'[b], Limit[b])
  BY <1>1, <1>7
<1>8. ASSUME NEW c \in Callers, Allow(c) \/ Deny(c) \/ BackendError(c)
      PROVE  SpreadOf(admitted'[b], count'[b], ttl'[b], Limit[b])
  <2>1. CASE Deny(c)
    BY <1>3, <2>1 DEF Deny
  <2>2. CASE BackendError(c)
    BY <1>3, <1>7, <2>2 DEF BackendError
  <2> QED
    BY <1>2, <1>8, <2>1, <2>2
<1> QED
  BY <1>4, <1>5, <1>6, <1>8 DEF Next

(***************************************************************************)
(* A fixed window admits at most twice its limit in any stretch of time as *)
(* long as the window (_FIXED_WINDOW_LUA), whatever the buckets, callers,  *)
(* lost answers and restarts of Redis.                                     *)
(***************************************************************************)
THEOREM TwiceTheLimitAtMost == Spec => []AtMostTwiceTheLimit
<1>1. ASSUME IInv, Spread, NEW b \in Buckets
      PROVE  Cardinality(Held(admitted[b])) <= 2 * Limit[b]
  <2> DEFINE f == admitted[b]
             age == Window - ttl[b]
  <2>1. SpreadOf(f, count[b], ttl[b], Limit[b]) /\ Limit[b] \in Nat /\ ttl[b] \in 0..Window
    BY <1>1, TypesOfBucket DEF Spread
  <2>2. CASE ttl[b] = 0
    <3>1. CountedBy(Held(f), Limit[b])
      BY <2>1, <2>2 DEF SpreadOf
    <3>2. Cardinality(Held(f)) \in Nat
      BY <3>1, FS_CardinalityType DEF CountedBy
    <3> QED
      BY <2>1, <3>1, <3>2 DEF CountedBy
  <2>3. CASE ttl[b] > 0
    <3>1. CountedBy(Fresh(f, age), Limit[b]) /\ CountedBy(Stale(f, age), Limit[b]) /\ age \in Ages
      BY <2>1, <2>3, LimiterAssumption DEF SpreadOf, Ages
    <3> HIDE DEF age, f
    <3>2. Held(f) = Fresh(f, age) \cup Stale(f, age) /\ Fresh(f, age) \cap Stale(f, age) = {}
      BY <3>1, FreshOrStale
    <3>3. /\ IsFiniteSet(Fresh(f, age)) /\ IsFiniteSet(Stale(f, age))
          /\ Cardinality(Fresh(f, age)) \in Nat /\ Cardinality(Stale(f, age)) \in Nat
      BY <3>1, FS_CardinalityType DEF CountedBy
    <3>4. Cardinality(Held(f)) = Cardinality(Fresh(f, age)) + Cardinality(Stale(f, age))
      <4>1. Cardinality(Fresh(f, age) \cup Stale(f, age)) =
                Cardinality(Fresh(f, age)) + Cardinality(Stale(f, age))
                    - Cardinality(Fresh(f, age) \cap Stale(f, age))
        BY <3>3, FS_Union
      <4>2. Cardinality(Fresh(f, age) \cap Stale(f, age)) = 0
        BY <3>2, FS_EmptySet
      <4> QED
        BY <3>2, <3>3, <4>1, <4>2
    <3>5. Cardinality(Held(f)) <= 2 * Limit[b]
      BY <2>1, <3>1, <3>3, <3>4 DEF CountedBy
    <3> QED
      BY <3>5 DEF f
  <2> QED
    BY <2>1, <2>2, <2>3
<1>2. IInv /\ Spread => AtMostTwiceTheLimit
  BY <1>1 DEF AtMostTwiceTheLimit
<1>3. IInv /\ Spread /\ [Next]_vars => IInv' /\ Spread'
  BY InvInductive, SpreadKept
<1> QED
  BY <1>2, <1>3, InvInitial, SpreadInitially, PTL DEF Spec
=============================================================================
