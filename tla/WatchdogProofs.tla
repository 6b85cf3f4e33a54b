--------------------------- MODULE WatchdogProofs ---------------------------
(***************************************************************************)
(* The watchdog keeps its promise for any tenants, failures, admins, bound *)
(* on retries and cooldown: what the audit log says is true, every failure *)
(* has at most one outcome, the cooldown decides exactly, and the numbers  *)
(* of the dashboard are right.                                             *)
(***************************************************************************)
EXTENDS Watchdog, FiniteSetTheorems, TLAPS

USE WatchdogAssumption

AllFailed(s) == \A i \in 1..Len(s) : ~s[i]

\* What an investigation in flight knows of its run.
JobOK(j) ==
    /\ failed[j.run] = j.tenant
    /\ audit[j.run] = <<>>
    /\ Len(tries[j.run]) = j.attempts
    /\ j.notified = mailed[j.run] \ unseen[j.run]
    /\ j.left \cap (mailed[j.run] \cup unseen[j.run]) = {}
    /\ j.pc \in {"start", "skip"} => j.attempts = 0
    /\ j.pc # "notify" => mailed[j.run] = {} /\ unseen[j.run] = {}
    /\ j.pc = "retry" => j.attempts < MaxRetries /\ AllFailed(tries[j.run])
    /\ j.pc = "fixed" => OnlyLast(tries[j.run])
    /\ j.pc \in {"compose", "members", "notify"} =>
           j.attempts = MaxRetries /\ AllFailed(tries[j.run])

JobsOK ==
    /\ \A i, j \in jobs : i.run = j.run => i = j
    /\ \A j \in jobs : JobOK(j)

Untouched(r) == audit[r] = <<>> /\ tries[r] = <<>> /\ mailed[r] = {} /\ unseen[r] = {}

\* What is left behind by an investigation that ended.
Closed(r) ==
    \/ audit[r] = <<>> /\ excuse[r]
    \/ /\ Len(audit[r]) = 1
       /\ EventIsTrue(r, audit[r][1])

RunsOK ==
    \A r \in Runs :
        /\ failed[r] = None => Untouched(r)
        /\ failed[r] # None /\ ~Pending(r) => Closed(r) /\ Len(tries[r]) <= MaxRetries

\* The history of starts is what the table of the last starts says.
StartsOK == \A t \in Tenants : starts[t] = IF InCooldown(t) THEN {since[t]} ELSE {}

IInv == TypeOK /\ JobsOK /\ RunsOK /\ StartsOK

-----------------------------------------------------------------------------
(***************************************************************************)
(* Steps of one investigation leave the other runs alone.                  *)
(***************************************************************************)
Elsewhere(r) ==
    \A q \in Runs \ {r} :
        /\ audit'[q] = audit[q] /\ tries'[q] = tries[q] /\ mailed'[q] = mailed[q]
        /\ unseen'[q] = unseen[q] /\ excuse'[q] = excuse[q]

LEMMA JobMoves ==
    ASSUME TypeOK, JobsOK, RunsOK, NEW j \in jobs, NEW n, n.run = j.run, Become(j, n),
           failed' = failed, Elsewhere(j.run), JobOK(n)'
    PROVE  JobsOK' /\ RunsOK'
<1>1. jobs' = (jobs \ {j}) \cup {n} /\ \A i \in jobs \ {j} : i.run # j.run /\ i.run \in Runs
  BY DEF Become, JobsOK, TypeOK, Job
<1>2. \A i \in jobs \ {j} : JobOK(i)'
  <2>1. ASSUME NEW i \in jobs \ {j}
        PROVE  JobOK(i)'
    <3>1. JobOK(i) /\ i.run \in Runs \ {j.run}
      BY <1>1, <2>1 DEF JobsOK
    <3>2. /\ audit'[i.run] = audit[i.run] /\ tries'[i.run] = tries[i.run]
          /\ mailed'[i.run] = mailed[i.run] /\ unseen'[i.run] = unseen[i.run]
      BY <3>1 DEF Elsewhere
    <3>3. QED
      BY <3>1, <3>2 DEF JobOK
  <2>2. QED
    BY <2>1
<1>3. JobsOK'
  BY <1>1, <1>2 DEF JobsOK
<1>4. ASSUME NEW r \in Runs
      PROVE  /\ failed'[r] = None => Untouched(r)'
             /\ failed'[r] # None /\ ~Pending(r)' => Closed(r)' /\ Len(tries'[r]) <= MaxRetries
  <2>1. CASE r = j.run
    <3>1. Pending(r)' /\ failed[r] # None
      BY <1>1, <2>1 DEF Pending, JobsOK, JobOK, TypeOK, Job
    <3>2. QED
      BY <3>1
  <2>2. CASE r # j.run
    <3>1. Pending(r)' <=> Pending(r)
      BY <1>1, <2>2 DEF Pending
    <3>2. QED
      BY <2>2, <3>1 DEF RunsOK, Elsewhere, Untouched, Closed, EventIsTrue
  <2>3. QED
    BY <2>1, <2>2
<1>5. QED
  BY <1>3, <1>4 DEF RunsOK

LEMMA JobEnds ==
    ASSUME TypeOK, JobsOK, RunsOK, NEW j \in jobs, Finish(j),
           failed' = failed, tries' = tries, mailed' = mailed, unseen' = unseen, Elsewhere(j.run), Closed(j.run)'
    PROVE  JobsOK' /\ RunsOK'
<1>1. jobs' = jobs \ {j} /\ \A i \in jobs \ {j} : i.run # j.run /\ i.run \in Runs
  BY DEF Finish, JobsOK, TypeOK, Job
<1>2. JobsOK'
  <2>1. ASSUME NEW i \in jobs \ {j}
        PROVE  JobOK(i)'
    <3>1. JobOK(i) /\ i.run \in Runs \ {j.run}
      BY <1>1, <2>1 DEF JobsOK
    <3>2. /\ audit'[i.run] = audit[i.run] /\ tries'[i.run] = tries[i.run]
          /\ mailed'[i.run] = mailed[i.run] /\ unseen'[i.run] = unseen[i.run]
      BY <3>1 DEF Elsewhere
    <3>3. QED
      BY <3>1, <3>2 DEF JobOK
  <2>2. QED
    BY <1>1, <2>1 DEF JobsOK
<1>3. ASSUME NEW r \in Runs
      PROVE  /\ failed'[r] = None => Untouched(r)'
             /\ failed'[r] # None /\ ~Pending(r)' => Closed(r)' /\ Len(tries'[r]) <= MaxRetries
  <2>1. CASE r = j.run
    <3>1. failed[r] # None /\ Len(tries[r]) <= MaxRetries
      BY <2>1 DEF JobsOK, JobOK, TypeOK, Job
    <3>2. QED
      BY <2>1, <3>1
  <2>2. CASE r # j.run
    <3>1. Pending(r)' <=> Pending(r)
      BY <1>1, <2>2 DEF Pending
    <3>2. QED
      BY <2>2, <3>1 DEF RunsOK, Elsewhere, Untouched, Closed, EventIsTrue
  <2>3. QED
    BY <2>1, <2>2
<1>4. QED
  BY <1>2, <1>3 DEF RunsOK

-----------------------------------------------------------------------------
LEMMA Initially == Init => IInv
BY DEF Init, IInv, TypeOK, JobsOK, RunsOK, StartsOK, InCooldown, Untouched

LEMMA TypesOfJob ==
    ASSUME TypeOK, NEW j \in jobs
    PROVE  /\ j \in Job
           /\ j.run \in Runs /\ j.tenant \in Tenants /\ j.attempts \in 0..MaxRetries
           /\ j.left \subseteq Admins /\ j.notified \subseteq Admins
           /\ tries[j.run] \in Seq(BOOLEAN) /\ audit[j.run] \in Seq(Event)
           /\ mailed[j.run] \subseteq Admins /\ unseen[j.run] \subseteq Admins
BY DEF TypeOK, Job

\* A job that only moves on keeps everything else.
LEMMA MovesOn ==
    ASSUME TypeOK, NEW j \in jobs,
           NEW p \in {"start", "skip", "retry", "fixed", "compose", "members", "notify"},
           NEW n, n = [j EXCEPT !.pc = p]
    PROVE  /\ n \in Job /\ n.run = j.run /\ n.tenant = j.tenant /\ n.pc = p
           /\ n.attempts = j.attempts /\ n.notified = j.notified
<1>1. j \in Job
  BY TypesOfJob
<1>2. QED
  BY <1>1 DEF Job

LEMMA NextKeeps == IInv /\ [Next]_vars => IInv'
<1> SUFFICES ASSUME IInv, [Next]_vars
             PROVE  IInv'
  OBVIOUS
<1> USE DEF IInv
<1>1. ASSUME NEW r \in Runs, NEW t \in Tenants, QueryFails(r, t)
      PROVE  IInv'
  <2> DEFINE n == [run |-> r, tenant |-> t, attempts |-> 0, left |-> {},
                   notified |-> {}, pc |-> "start"]
  <2>1. n \in Job /\ n.run = r /\ jobs' = jobs \cup {n} /\ failed[r] = None
    BY <1>1 DEF QueryFails, Job
  <2>2. \A j \in jobs : j.run # r
    BY <2>1, TypesOfJob DEF JobsOK, JobOK, TypeOK
  <2>3. TypeOK'
    BY <1>1, <2>1 DEF QueryFails, TypeOK
  <2>4. Untouched(r)
    BY <2>1 DEF RunsOK
  <2>5. JobOK(n)'
    BY <1>1, <2>4 DEF QueryFails, JobOK, Untouched, TypeOK
  <2>6. \A j \in jobs : JobOK(j)'
    BY <1>1, <2>2, TypesOfJob DEF QueryFails, JobsOK, JobOK, TypeOK
  <2>7. JobsOK'
    BY <2>1, <2>2, <2>5, <2>6 DEF JobsOK
  <2>8. ASSUME NEW q \in Runs
        PROVE  /\ failed'[q] = None => Untouched(q)'
               /\ failed'[q] # None /\ ~Pending(q)' => Closed(q)' /\ Len(tries'[q]) <= MaxRetries
    <3>1. CASE q = r
      BY <1>1, <2>1, <3>1 DEF QueryFails, Pending, TypeOK
    <3>2. CASE q # r
      BY <1>1, <2>1, <3>2 DEF QueryFails, Pending, TypeOK, RunsOK, Untouched, Closed, EventIsTrue
    <3>3. QED
      BY <3>1, <3>2
  <2>9. StartsOK'
    BY <1>1 DEF QueryFails, StartsOK, InCooldown
  <2>10. QED
    BY <2>3, <2>7, <2>8, <2>9 DEF RunsOK
<1>2. ASSUME NEW j \in jobs, Skip(j)
      PROVE  IInv'
  <2> DEFINE n == [j EXCEPT !.pc = "skip"]
  <2>1. n \in Job /\ n.run = j.run /\ Become(j, n)
    BY <1>2, MovesOn DEF Skip
  <2>2. TypeOK'
    BY <1>2, <2>1 DEF Skip, history, Become, TypeOK
  <2>3. JobOK(n)'
    BY <1>2, <2>1 DEF Skip, history, JobsOK, JobOK, TypeOK, Job
  <2>4. Elsewhere(j.run) /\ failed' = failed
    BY <1>2 DEF Skip, history, Elsewhere
  <2>5. StartsOK'
    BY <1>2 DEF Skip, history, StartsOK, InCooldown
  <2>6. QED
    BY <2>1, <2>2, <2>3, <2>4, <2>5, JobMoves
<1>3. ASSUME NEW j \in jobs, Start(j)
      PROVE  IInv'
  <2> DEFINE n == [j EXCEPT !.pc = "retry"]
  <2>1. n \in Job /\ n.run = j.run /\ Become(j, n)
    BY <1>3, MovesOn DEF Start
  <2>2. TypeOK'
    <3>1. starts' \in [Tenants -> SUBSET (0..(Cooldown - 1))]
      BY <1>3, TypesOfJob DEF Start, TypeOK
    <3>2. since' \in [Tenants -> 0..Cooldown]
      BY <1>3, TypesOfJob DEF Start, TypeOK
    <3>3. QED
      BY <1>3, <2>1, <3>1, <3>2 DEF Start, Become, TypeOK
  <2>3. JobOK(n)'
    BY <1>3, <2>1, TypesOfJob DEF Start, JobsOK, JobOK, AllFailed, TypeOK, Job
  <2>4. Elsewhere(j.run) /\ failed' = failed
    BY <1>3 DEF Start, Elsewhere
  <2>5. ASSUME NEW t \in Tenants
        PROVE  starts'[t] = IF since'[t] < Cooldown THEN {since'[t]} ELSE {}
    <3>1. starts[t] = IF since[t] < Cooldown THEN {since[t]} ELSE {}
      BY DEF StartsOK, InCooldown
    <3>2. CASE t = j.tenant
      <4>1. starts[t] = {} /\ starts'[t] = {0} /\ since'[t] = 0
        BY <1>3, <3>1, <3>2 DEF Start, InCooldown, TypeOK
      <4>2. QED
        BY <4>1
    <3>3. CASE t # j.tenant
      BY <1>3, <3>1, <3>3 DEF Start, TypeOK
    <3>4. QED
      BY <3>2, <3>3
  <2>6. QED
    BY <2>1, <2>2, <2>3, <2>4, <2>5, JobMoves DEF StartsOK, InCooldown
<1>4. ASSUME NEW j \in jobs, Retry(j)
      PROVE  IInv'
  <2>1. PICK ok \in BOOLEAN :
           /\ tries' = [tries EXCEPT ![j.run] = Append(@, ok)]
           /\ Become(j, [j EXCEPT !.attempts = @ + 1, !.pc = AfterRetry(j, ok)])
    BY <1>4 DEF Retry
  <2>2. /\ j.pc = "retry" /\ JobOK(j) /\ j.attempts < MaxRetries
        /\ AllFailed(tries[j.run]) /\ Len(tries[j.run]) = j.attempts
    BY <1>4 DEF Retry, JobsOK, JobOK
  <2>3. PICK p \in {"fixed", "retry", "compose"} : p = AfterRetry(j, ok)
    BY DEF AfterRetry
  <2> DEFINE n == [j EXCEPT !.attempts = @ + 1, !.pc = p]
  <2>4. /\ n \in Job /\ n.run = j.run /\ n.tenant = j.tenant /\ n.notified = j.notified
        /\ n.attempts = j.attempts + 1 /\ n.pc = AfterRetry(j, ok) /\ Become(j, n)
    <3>1. Become(j, n)
      BY <2>1, <2>3
    <3>2. p \in {"start", "skip", "retry", "fixed", "compose", "members", "notify"}
      BY <2>3
    <3>3. j.attempts < MaxRetries
      BY <2>2
    <3>4. /\ n \in Job /\ n.run = j.run /\ n.tenant = j.tenant /\ n.notified = j.notified
          /\ n.attempts = j.attempts + 1 /\ n.pc = p
      <4>1. j \in Job /\ j.attempts \in 0..MaxRetries
        BY TypesOfJob DEF IInv, Job
      <4>2. j.attempts + 1 \in 0..MaxRetries
        BY <4>1, <3>3
      <4>3. QED
        BY <4>1, <4>2, <3>2 DEF Job
    <3>5. QED
      BY <2>3, <3>1, <3>4
  <2>5. /\ tries'[j.run] = Append(tries[j.run], ok)
        /\ tries' \in [Runs -> Seq(BOOLEAN)]
    BY <2>1, TypesOfJob DEF TypeOK
  <2>6. TypeOK'
    BY <1>4, <2>4, <2>5 DEF Retry, Become, TypeOK
  <2>7. Len(tries'[j.run]) = n.attempts
    BY <2>2, <2>4, <2>5, TypesOfJob
  <2>8. ok => OnlyLast(tries'[j.run])
    <3> DEFINE s == tries[j.run]
    <3>0. s \in Seq(BOOLEAN)
      BY TypesOfJob
    <3> HIDE DEF s
    <3>1. Len(s) \in Nat /\ Append(s, ok) # <<>> /\ Len(Append(s, ok)) = Len(s) + 1
      BY <3>0
    <3>2. /\ \A i \in 1..Len(s) : Append(s, ok)[i] = s[i]
          /\ Append(s, ok)[Len(s) + 1] = ok
      BY <3>0, <3>1
    <3>3. \A i \in 1..(Len(s) + 1) : i # Len(s) + 1 => i \in 1..Len(s)
      BY <3>1
    <3>4. \A i \in 1..Len(s) : i # Len(s) + 1
      BY <3>1
    <3>5. \A i \in 1..Len(s) : ~s[i]
      BY <2>2 DEF AllFailed, s
    <3>6. ok => \A i \in 1..(Len(s) + 1) : Append(s, ok)[i] <=> i = Len(s) + 1
      BY <3>2, <3>3, <3>4, <3>5, Zenon
    <3>7. QED
      BY <2>5, <3>1, <3>6, Zenon DEF OnlyLast, s
  <2>9. ~ok => AllFailed(tries'[j.run])
    BY <2>2, <2>5, TypesOfJob DEF AllFailed
  <2>10. /\ n.pc = "retry" => ~ok /\ n.attempts < MaxRetries
         /\ n.pc = "fixed" => ok
         /\ n.pc = "compose" => ~ok /\ n.attempts = MaxRetries
    BY <2>2, <2>4, TypesOfJob DEF AfterRetry
  <2>11. JobOK(n)'
    BY <1>4, <2>2, <2>3, <2>4, <2>7, <2>8, <2>9, <2>10 DEF Retry, JobOK, OnlyLast, AllFailed
  <2>12. Elsewhere(j.run) /\ failed' = failed
    BY <1>4, <2>1 DEF Retry, Elsewhere, TypeOK
  <2>13. StartsOK'
    BY <1>4 DEF Retry, StartsOK, InCooldown
  <2>14. QED
    BY <2>4, <2>6, <2>11, <2>12, <2>13, JobMoves
<1>5. ASSUME NEW j \in jobs, Compose(j)
      PROVE  IInv'
  <2> DEFINE n == [j EXCEPT !.pc = "members"]
  <2>1. n \in Job /\ n.run = j.run /\ Become(j, n)
    BY <1>5, MovesOn DEF Compose
  <2>2. TypeOK'
    BY <1>5, <2>1 DEF Compose, history, Become, TypeOK
  <2>3. JobOK(n)'
    BY <1>5, <2>1 DEF Compose, history, JobsOK, JobOK, TypeOK, Job
  <2>4. Elsewhere(j.run) /\ failed' = failed
    BY <1>5 DEF Compose, history, Elsewhere
  <2>5. StartsOK'
    BY <1>5 DEF Compose, history, StartsOK, InCooldown
  <2>6. QED
    BY <2>1, <2>2, <2>3, <2>4, <2>5, JobMoves
<1>6. ASSUME NEW j \in jobs, ListAdmins(j)
      PROVE  IInv'
  <2>1. PICK to \in SUBSET Admins : Become(j, [j EXCEPT !.pc = "notify", !.left = to])
    BY <1>6 DEF ListAdmins
  <2> DEFINE n == [j EXCEPT !.pc = "notify", !.left = to]
  <2>2. n \in Job /\ n.run = j.run /\ Become(j, n) /\ j.pc = "members"
    <3>1. Become(j, n) /\ j.pc = "members"
      BY <1>6, <2>1 DEF ListAdmins
    <3>2. n \in Job /\ n.run = j.run
      BY TypesOfJob DEF Job
    <3>3. QED
      BY <3>1, <3>2
  <2>3. TypeOK'
    BY <1>6, <2>2 DEF ListAdmins, history, Become, TypeOK
  <2>4. JobOK(n)'
    BY <1>6, <2>2 DEF ListAdmins, history, JobsOK, JobOK, TypeOK, Job
  <2>5. Elsewhere(j.run) /\ failed' = failed
    BY <1>6 DEF ListAdmins, history, Elsewhere
  <2>6. StartsOK'
    BY <1>6 DEF ListAdmins, history, StartsOK, InCooldown
  <2>7. QED
    BY <2>2, <2>3, <2>4, <2>5, <2>6, JobMoves
<1>7. ASSUME NEW j \in jobs, Notify(j)
      PROVE  IInv'
  <2>0. PICK a \in j.left : \E took \in SUBSET {a} : \E answered \in SUBSET took :
           /\ mailed' = [mailed EXCEPT ![j.run] = @ \cup took]
           /\ unseen' = [unseen EXCEPT ![j.run] = @ \cup (took \ answered)]
           /\ Become(j, [j EXCEPT !.left = @ \ {a}, !.notified = @ \cup answered])
    BY <1>7, Zenon DEF Notify
  <2>11. PICK took \in SUBSET {a} : \E answered \in SUBSET took :
           /\ mailed' = [mailed EXCEPT ![j.run] = @ \cup took]
           /\ unseen' = [unseen EXCEPT ![j.run] = @ \cup (took \ answered)]
           /\ Become(j, [j EXCEPT !.left = @ \ {a}, !.notified = @ \cup answered])
    BY <2>0, Zenon
  <2>1. PICK answered \in SUBSET took :
           /\ mailed' = [mailed EXCEPT ![j.run] = @ \cup took]
           /\ unseen' = [unseen EXCEPT ![j.run] = @ \cup (took \ answered)]
           /\ Become(j, [j EXCEPT !.left = @ \ {a}, !.notified = @ \cup answered])
    BY <2>11, Zenon
  <2>2. /\ a \in Admins /\ took \subseteq Admins /\ answered \subseteq Admins
        /\ j.pc = "notify" /\ JobOK(j)
    BY <1>7, <2>1, TypesOfJob DEF Notify, JobsOK
  <2>3. /\ mailed' \in [Runs -> SUBSET Admins] /\ unseen' \in [Runs -> SUBSET Admins]
        /\ mailed'[j.run] = mailed[j.run] \cup took
        /\ unseen'[j.run] = unseen[j.run] \cup (took \ answered)
        /\ \A q \in Runs \ {j.run} : mailed'[q] = mailed[q] /\ unseen'[q] = unseen[q]
    BY <2>1, <2>2, TypesOfJob DEF TypeOK
  <2>4. Elsewhere(j.run) /\ failed' = failed /\ audit' = audit /\ tries' = tries
    BY <1>7, <2>3 DEF Notify, Elsewhere
  <2>5. StartsOK'
    BY <1>7 DEF Notify, StartsOK, InCooldown
  <2> DEFINE n == [j EXCEPT !.left = @ \ {a}, !.notified = @ \cup answered]
  <2>6. /\ n \in Job /\ n.run = j.run /\ Become(j, n)
        /\ n.notified = j.notified \cup answered /\ n.left = j.left \ {a} /\ n.pc = "notify"
        /\ n.tenant = j.tenant /\ n.attempts = j.attempts
    BY <2>1, <2>2, TypesOfJob DEF Job
  <2>7. TypeOK'
    BY <1>7, <2>3, <2>6 DEF Notify, Become, TypeOK
  <2>8. n.notified = mailed'[j.run] \ unseen'[j.run]
    <3>1. /\ j.notified = mailed[j.run] \ unseen[j.run]
          /\ a \notin mailed[j.run] /\ a \notin unseen[j.run]
      BY <2>1, <2>2 DEF JobOK
    <3>2. QED
      BY <2>1, <2>3, <2>6, <3>1
  <2>9. JobOK(n)'
    <3>1. n.left \cap (mailed'[j.run] \cup unseen'[j.run]) = {}
      BY <2>1, <2>2, <2>3, <2>6 DEF JobOK
    <3>2. QED
      BY <2>2, <2>4, <2>6, <2>8, <3>1 DEF JobOK
  <2>10. QED
    BY <2>4, <2>5, <2>6, <2>7, <2>9, JobMoves
<1>8. ASSUME NEW j \in jobs, Raise(j) \/ LogEventFails(j)
      PROVE  IInv'
  <2>1. Finish(j) /\ Excuse(j)
    BY <1>8 DEF Raise, LogEventFails
  <2>2. UNCHANGED <<since, audit, failed, tries, mailed, unseen, starts>>
    BY <1>8 DEF Raise, LogEventFails
  <2>3. TypeOK'
    BY <2>1, <2>2 DEF Finish, Excuse, TypeOK
  <2>4. Elsewhere(j.run)
    BY <2>1, <2>2 DEF Elsewhere, Excuse, TypeOK
  <2>5. Closed(j.run)'
    BY <2>1, <2>2, TypesOfJob DEF Excuse, Closed, JobsOK, JobOK, TypeOK
  <2>6. StartsOK'
    BY <2>2 DEF StartsOK, InCooldown
  <2>7. QED
    BY <2>1, <2>2, <2>3, <2>4, <2>5, <2>6, JobEnds
<1>9. ASSUME NEW j \in jobs, LogEvent(j)
      PROVE  IInv'
  <2> DEFINE e == [action |-> Outcome(j), notified |-> j.notified]
  <2>1. /\ Ready(j) /\ Finish(j) /\ UNCHANGED <<since, history>>
        /\ audit' = [audit EXCEPT ![j.run] = Append(@, e)]
    BY <1>9 DEF LogEvent, Log
  <2>2. Outcome(j) \in {"fixed", "escalated", "skipped"}
    BY DEF Outcome
  <2>3. e \in Event /\ e.action = Outcome(j) /\ e.notified = j.notified
    BY <2>2, TypesOfJob DEF Event
  <2>4. TypeOK'
    BY <2>1, <2>3, TypesOfJob DEF history, Finish, TypeOK
  <2>5. Elsewhere(j.run)
    BY <2>1 DEF Elsewhere, history, TypeOK
  <2>6. JobOK(j) /\ audit[j.run] = <<>> /\ e.notified = mailed[j.run] \ unseen[j.run]
    BY <2>3 DEF JobsOK, JobOK
  <2>7. Len(audit'[j.run]) = 1 /\ audit'[j.run][1] = e
    BY <2>1, <2>3, <2>6, TypesOfJob DEF TypeOK
  <2>8. /\ j.pc = "skip" => tries[j.run] = <<>>
        /\ j.pc = "notify" => tries[j.run] = [i \in 1..MaxRetries |-> FALSE]
    <3>1. ASSUME j.pc = "skip"
          PROVE  tries[j.run] = <<>>
      BY <2>6, <3>1, TypesOfJob DEF JobOK
    <3>2. ASSUME j.pc = "notify"
          PROVE  tries[j.run] = [i \in 1..MaxRetries |-> FALSE]
      <4>1. Len(tries[j.run]) = MaxRetries /\ \A i \in 1..MaxRetries : ~tries[j.run][i]
        BY <2>6, <3>2 DEF JobOK, AllFailed
      <4>2. \A i \in 1..MaxRetries : tries[j.run][i] \in BOOLEAN
        BY <4>1, TypesOfJob
      <4>3. \A i \in 1..MaxRetries : tries[j.run][i] = FALSE
        BY <4>1, <4>2, Zenon
      <4>4. tries[j.run] = [i \in 1..Len(tries[j.run]) |-> tries[j.run][i]]
        BY TypesOfJob
      <4>5. QED
        BY <4>1, <4>3, <4>4, Zenon
    <3>3. QED
      BY <3>1, <3>2
  <2>9. EventIsTrue(j.run, e)'
    BY <2>1, <2>3, <2>6, <2>8 DEF Ready, Outcome, EventIsTrue, JobOK, OnlyLast, history
  <2>10. Closed(j.run)'
    BY <2>1, <2>6, <2>7, <2>9 DEF Closed, history
  <2>11. StartsOK'
    BY <2>1 DEF StartsOK, InCooldown, history
  <2>12. QED
    BY <2>1, <2>4, <2>5, <2>10, <2>11, JobEnds DEF history
<1>10. CASE Restart
  <2>1. TypeOK'
    BY <1>10 DEF Restart, TypeOK
  <2>2. JobsOK'
    BY <1>10 DEF Restart, JobsOK
  <2>3. StartsOK'
    BY <1>10 DEF Restart, StartsOK, InCooldown
  <2>4. ASSUME NEW r \in Runs
        PROVE  /\ failed'[r] = None => Untouched(r)'
               /\ failed'[r] # None /\ ~Pending(r)' => Closed(r)' /\ Len(tries'[r]) <= MaxRetries
    <3>1. CASE Pending(r)
      <4>1. PICK j \in jobs : j.run = r
        BY <3>1 DEF Pending
      <4>2. audit[r] = <<>> /\ failed[r] = j.tenant /\ Len(tries[r]) = j.attempts
        BY <4>1 DEF JobsOK, JobOK
      <4>3. failed[r] # None /\ Len(tries[r]) <= MaxRetries
        BY <4>2, TypesOfJob
      <4>4. excuse'[r]
        BY <1>10, <4>1 DEF Restart
      <4>5. QED
        BY <1>10, <4>2, <4>3, <4>4 DEF Restart, Closed
    <3>2. CASE ~Pending(r)
      <4>1. excuse'[r] <=> excuse[r]
        BY <1>10, <3>2 DEF Restart, Pending
      <4>2. QED
        BY <1>10, <3>2, <4>1 DEF Restart, RunsOK, Untouched, Closed, EventIsTrue
    <3>3. QED
      BY <3>1, <3>2
  <2>5. QED
    BY <2>1, <2>2, <2>3, <2>4 DEF RunsOK
<1>11. CASE Tick
  <2>1. TypeOK'
    BY <1>11 DEF Tick, TypeOK
  <2>2. JobsOK'
    BY <1>11 DEF Tick, JobsOK, JobOK
  <2>3. RunsOK'
    BY <1>11 DEF Tick, RunsOK, Untouched, Closed, EventIsTrue, Pending
  <2>4. ASSUME NEW t \in Tenants
        PROVE  starts'[t] = IF since'[t] < Cooldown THEN {since'[t]} ELSE {}
    <3>1. since[t] \in 0..Cooldown /\ starts[t] = IF since[t] < Cooldown THEN {since[t]} ELSE {}
      BY DEF StartsOK, InCooldown, TypeOK
    <3>2. /\ since'[t] = IF since[t] < Cooldown THEN since[t] + 1 ELSE Cooldown
          /\ starts'[t] = {a + 1 : a \in starts[t]} \cap 0..(Cooldown - 1)
      BY <1>11 DEF Tick
    <3>3. CASE since[t] < Cooldown
      <4>1. starts'[t] = {since[t] + 1} \cap 0..(Cooldown - 1)
        BY <3>1, <3>2, <3>3
      <4>2. QED
        BY <3>1, <3>2, <3>3, <4>1
    <3>4. CASE ~(since[t] < Cooldown)
      <4>1. starts'[t] = {}
        BY <3>1, <3>2, <3>4
      <4>2. QED
        BY <3>1, <3>2, <3>4, <4>1
    <3>5. QED
      BY <3>3, <3>4
  <2>5. QED
    BY <2>1, <2>2, <2>3, <2>4 DEF StartsOK, InCooldown
<1>12. CASE UNCHANGED vars
  BY <1>12 DEF vars, TypeOK, JobsOK, JobOK, RunsOK, StartsOK, InCooldown, Untouched, Closed,
               EventIsTrue, Pending
<1>13. QED
  BY <1>1, <1>2, <1>3, <1>4, <1>5, <1>6, <1>7, <1>8, <1>9, <1>10, <1>11, <1>12 DEF Next, JobStep

LEMMA Invariance == Spec => []IInv
<1>1. QED
  BY Initially, NextKeeps, PTL DEF Spec

-----------------------------------------------------------------------------
(***************************************************************************)
(* Every reachable state has its type: attempts stay within                *)
(* MAX_AUTO_RETRIES whatever fails, and nobody but an admin is mailed.     *)
(***************************************************************************)
THEOREM TypeCorrect == Spec => []TypeOK
<1>1. IInv => TypeOK
  BY DEF IInv
<1>2. QED
  BY <1>1, Invariance, PTL

(***************************************************************************)
(* What the audit log says of an investigation is what happened, and the   *)
(* admins it counts as notified are those that were mailed, but for those  *)
(* whose mail SES took while its answer was lost.                          *)
(***************************************************************************)
THEOREM AuditIsTrue == Spec => []EventsAreTrue
<1>1. ASSUME IInv, NEW r \in Runs
      PROVE  /\ \A i \in 1..Len(audit[r]) : EventIsTrue(r, audit[r][i])
             /\ Len(tries[r]) <= MaxRetries
             /\ failed[r] # None /\ ~Pending(r) /\ audit[r] = <<>> => excuse[r]
  <2>1. CASE Pending(r)
    <3>1. PICK j \in jobs : j.run = r
      BY <2>1 DEF Pending
    <3>2. audit[r] = <<>> /\ Len(tries[r]) = j.attempts
      BY <1>1, <3>1 DEF IInv, JobsOK, JobOK
    <3>3. j.attempts <= MaxRetries
      BY <1>1, TypesOfJob DEF IInv
    <3>4. QED
      BY <2>1, <3>2, <3>3
  <2>2. CASE failed[r] = None
    <3>1. audit[r] = <<>> /\ tries[r] = <<>>
      BY <1>1, <2>2 DEF IInv, RunsOK, Untouched
    <3>2. QED
      BY <2>2, <3>1
  <2>3. CASE failed[r] # None /\ ~Pending(r)
    <3>1. Closed(r) /\ Len(tries[r]) <= MaxRetries
      BY <1>1, <2>3 DEF IInv, RunsOK
    <3>2. CASE audit[r] = <<>> /\ excuse[r]
      BY <3>1, <3>2
    <3>3. CASE Len(audit[r]) = 1 /\ EventIsTrue(r, audit[r][1])
      <4>1. audit[r] # <<>> /\ \A i \in 1..Len(audit[r]) : i = 1
        BY <3>3
      <4>2. QED
        BY <3>1, <3>3, <4>1
    <3>4. QED
      BY <3>1, <3>2, <3>3 DEF Closed
  <2>4. QED
    BY <2>1, <2>2, <2>3
<1>2. IInv => EventsAreTrue
  BY <1>1 DEF EventsAreTrue
<1>3. QED
  BY <1>2, Invariance, PTL

\* Steps of a job that has already been decided on.
LEMMA LaterSteps ==
    ASSUME TypeOK, NEW i \in jobs, JobStep(i)
    PROVE  \/ Skip(i) \/ Start(i)
           \/ i.pc # "start" /\ \E m : m.run = i.run /\ jobs' \subseteq (jobs \ {i}) \cup {m}
<1>1. CASE Skip(i) \/ Start(i)
  BY <1>1
<1>2. CASE Retry(i)
  <2>1. PICK ok \in BOOLEAN : Become(i, [i EXCEPT !.attempts = @ + 1, !.pc = AfterRetry(i, ok)])
    BY <1>2 DEF Retry
  <2>2. [i EXCEPT !.attempts = @ + 1, !.pc = AfterRetry(i, ok)].run = i.run
    BY TypesOfJob DEF Job
  <2>3. i.pc # "start" /\ jobs' \subseteq (jobs \ {i})
            \cup {[i EXCEPT !.attempts = @ + 1, !.pc = AfterRetry(i, ok)]}
    BY <1>2, <2>1 DEF Retry, Become
  <2>4. QED
    BY <2>2, <2>3
<1>3. CASE Compose(i)
  <2>1. [i EXCEPT !.pc = "members"].run = i.run
    BY TypesOfJob DEF Job
  <2>2. QED
    BY <1>3, <2>1 DEF Compose, Become
<1>4. CASE ListAdmins(i)
  <2>1. PICK to \in SUBSET Admins : Become(i, [i EXCEPT !.pc = "notify", !.left = to])
    BY <1>4 DEF ListAdmins
  <2>2. [i EXCEPT !.pc = "notify", !.left = to].run = i.run
    BY TypesOfJob DEF Job
  <2>3. QED
    BY <1>4, <2>1, <2>2 DEF ListAdmins, Become
<1>5. CASE Notify(i)
  <2>1. PICK a, answered :
           Become(i, [i EXCEPT !.left = @ \ {a}, !.notified = @ \cup answered])
    BY <1>5, Zenon DEF Notify
  <2>2. [i EXCEPT !.left = @ \ {a}, !.notified = @ \cup answered].run = i.run
    BY TypesOfJob DEF Job
  <2>3. i.pc # "start"
    BY <1>5 DEF Notify
  <2>4. QED
    BY <2>1, <2>2, <2>3 DEF Become
<1>6. CASE Raise(i) \/ LogEvent(i) \/ LogEventFails(i)
  <2>1. jobs' \subseteq (jobs \ {i}) \cup {i} /\ i.pc # "start"
    BY <1>6 DEF Raise, LogEvent, LogEventFails, Finish, Ready
  <2>2. QED
    BY <2>1
<1>7. QED
  BY <1>1, <1>2, <1>3, <1>4, <1>5, <1>6 DEF JobStep

\* Only the two branches of the check decide.
LEMMA WhoDecides ==
    ASSUME IInv, Next, NEW r, NEW pc \in {"retry", "skip"}, Decided(r, pc)
    PROVE  \E j \in jobs : j.run = r /\ (InCooldown(j.tenant) <=> pc = "skip")
<1>1. PICK j \in jobs, n \in jobs' : j.run = r /\ n.run = r /\ j.pc = "start" /\ n.pc = pc
  BY DEF Decided
<1>2. n \notin jobs
  BY <1>1 DEF IInv, JobsOK
<1>3. ASSUME NEW q \in Runs, NEW t \in Tenants, QueryFails(q, t)
      PROVE  FALSE
  BY <1>1, <1>2, <1>3 DEF QueryFails
<1>4. ASSUME NEW i \in jobs, JobStep(i)
      PROVE  i = j /\ (pc = "retry" => Start(i)) /\ (pc = "skip" => Skip(i))
  <2>1. CASE Skip(i)
    <3>1. jobs' = (jobs \ {i}) \cup {[i EXCEPT !.pc = "skip"]}
      BY <2>1 DEF Skip, Become
    <3>2. n = [i EXCEPT !.pc = "skip"]
      BY <1>2, <3>1
    <3>3. n.run = i.run /\ n.pc = "skip"
      BY <3>2, MovesOn DEF IInv
    <3>4. QED
      BY <1>1, <2>1, <3>3 DEF IInv, JobsOK
  <2>2. CASE Start(i)
    <3>1. jobs' = (jobs \ {i}) \cup {[i EXCEPT !.pc = "retry"]}
      BY <2>2 DEF Start, Become
    <3>2. n = [i EXCEPT !.pc = "retry"]
      BY <1>2, <3>1
    <3>3. n.run = i.run /\ n.pc = "retry"
      BY <3>2, MovesOn DEF IInv
    <3>4. QED
      BY <1>1, <2>2, <3>3 DEF IInv, JobsOK
  <2>3. ASSUME i.pc # "start", NEW m, m.run = i.run, jobs' \subseteq (jobs \ {i}) \cup {m}
        PROVE  FALSE
    <3>1. n = m
      BY <1>2, <2>3
    <3>2. i = j
      BY <1>1, <2>3, <3>1 DEF IInv, JobsOK
    <3>3. QED
      BY <1>1, <2>3, <3>2
  <2>4. QED
    BY <1>4, <2>1, <2>2, <2>3, LaterSteps DEF IInv
<1>5. ASSUME Restart
      PROVE  FALSE
  BY <1>1, <1>5 DEF Restart
<1>6. ASSUME Tick
      PROVE  FALSE
  BY <1>2, <1>6 DEF Tick
<1>7. PICK i \in jobs : JobStep(i)
  BY <1>3, <1>5, <1>6 DEF Next
<1>8. InCooldown(j.tenant) <=> pc = "skip"
  <2>1. i = j /\ (pc = "retry" => Start(j)) /\ (pc = "skip" => Skip(j))
    BY <1>4, <1>7
  <2>2. CASE pc = "retry"
    BY <2>1, <2>2 DEF Start
  <2>3. CASE pc = "skip"
    BY <2>1, <2>3 DEF Skip
  <2>4. QED
    BY <2>2, <2>3
<1>9. QED
  BY <1>1, <1>8

(***************************************************************************)
(* A failure is looked into exactly when no investigation of its tenant    *)
(* started within the cooldown in this process, else it is skipped.        *)
(***************************************************************************)
THEOREM CooldownDecides == Spec => CooldownIsExact
<1> DEFINE Exactly == \A r \in Runs :
               /\ Decided(r, "retry") => starts[failed[r]] = {}
               /\ Decided(r, "skip") => starts[failed[r]] # {}
<1>1. ASSUME IInv, Next
      PROVE  Exactly
  <2>1. \A j \in jobs : /\ j.tenant \in Tenants /\ failed[j.run] = j.tenant
                        /\ starts[j.tenant] = IF InCooldown(j.tenant) THEN {since[j.tenant]} ELSE {}
    BY <1>1, TypesOfJob DEF IInv, JobsOK, JobOK, StartsOK
  <2>2. ASSUME NEW r \in Runs, Decided(r, "retry")
        PROVE  starts[failed[r]] = {}
    <3>1. PICK j \in jobs : j.run = r /\ (InCooldown(j.tenant) <=> "retry" = "skip")
      <4>1. "retry" \in {"retry", "skip"}
        OBVIOUS
      <4>2. QED
        BY <4>1, <1>1, <2>2, WhoDecides
    <3>2. QED
      BY <2>1, <3>1
  <2>3. ASSUME NEW r \in Runs, Decided(r, "skip")
        PROVE  starts[failed[r]] # {}
    <3>1. PICK j \in jobs : j.run = r /\ (InCooldown(j.tenant) <=> "skip" = "skip")
      <4>1. "skip" \in {"retry", "skip"}
        OBVIOUS
      <4>2. QED
        BY <4>1, <1>1, <2>3, WhoDecides
    <3>2. QED
      BY <2>1, <3>1
  <2>4. QED
    BY <2>2, <2>3
<1>2. IInv /\ [Next]_vars => [Exactly]_vars
  BY <1>1
<1>3. QED
  BY <1>2, Invariance, PTL DEF Spec, CooldownIsExact

-----------------------------------------------------------------------------
(***************************************************************************)
(* The refinement.  A step of an investigation is a stutter of Outcomes    *)
(* while it goes on, and settles its run when it ends; a restart loses     *)
(* all that are open.                                                      *)
(***************************************************************************)
\* A step of a job replaces the job or ends it, with at most one event.
LEMMA GoesOnOrEnds ==
    ASSUME IInv, NEW j \in jobs, JobStep(j)
    PROVE  \/ \E n : n.run = j.run /\ Become(j, n) /\ audit' = audit /\ failed' = failed
           \/ Finish(j) /\ failed' = failed /\ audit' = audit
           \/ /\ Finish(j) /\ failed' = failed
              /\ Log(j, Outcome(j), j.notified)
<1>1. CASE Skip(j)
  <2>1. [j EXCEPT !.pc = "skip"].run = j.run
    BY MovesOn DEF IInv
  <2>2. QED
    BY <1>1, <2>1 DEF Skip, history
<1>2. CASE Start(j)
  <2>1. [j EXCEPT !.pc = "retry"].run = j.run
    BY MovesOn DEF IInv
  <2>2. QED
    BY <1>2, <2>1 DEF Start
<1>3. CASE Retry(j)
  <2>1. PICK ok \in BOOLEAN : Become(j, [j EXCEPT !.attempts = @ + 1, !.pc = AfterRetry(j, ok)])
    BY <1>3 DEF Retry
  <2>2. [j EXCEPT !.attempts = @ + 1, !.pc = AfterRetry(j, ok)].run = j.run
    BY TypesOfJob DEF IInv, Job
  <2>3. QED
    BY <1>3, <2>1, <2>2 DEF Retry
<1>4. CASE Compose(j)
  <2>1. [j EXCEPT !.pc = "members"].run = j.run
    BY MovesOn DEF IInv
  <2>2. QED
    BY <1>4, <2>1 DEF Compose, history
<1>5. CASE ListAdmins(j)
  <2>1. PICK to \in SUBSET Admins : Become(j, [j EXCEPT !.pc = "notify", !.left = to])
    BY <1>5 DEF ListAdmins
  <2>2. [j EXCEPT !.pc = "notify", !.left = to].run = j.run
    BY TypesOfJob DEF IInv, Job
  <2>3. QED
    BY <1>5, <2>1, <2>2 DEF ListAdmins, history
<1>6. CASE Notify(j)
  <2>1. PICK a, answered :
           Become(j, [j EXCEPT !.left = @ \ {a}, !.notified = @ \cup answered])
    BY <1>6, Zenon DEF Notify
  <2>2. [j EXCEPT !.left = @ \ {a}, !.notified = @ \cup answered].run = j.run
    BY TypesOfJob DEF IInv, Job
  <2>3. QED
    BY <1>6, <2>1, <2>2 DEF Notify
<1>7. CASE Raise(j) \/ LogEvent(j) \/ LogEventFails(j)
  BY <1>7 DEF Raise, LogEvent, LogEventFails, history
<1>8. QED
  BY <1>1, <1>2, <1>3, <1>4, <1>5, <1>6, <1>7 DEF JobStep

LEMMA VerdictOfJob ==
    ASSUME IInv, NEW j \in jobs
    PROVE  Verdict(j.run) = "open" /\ j.run \in Runs
<1>1. failed[j.run] # None /\ Pending(j.run) /\ audit[j.run] = <<>> /\ j.run \in Runs
  BY TypesOfJob DEF IInv, JobsOK, JobOK, Pending
<1>2. QED
  BY <1>1 DEF Verdict

LEMMA VerdictKept ==
    ASSUME NEW q, failed'[q] = failed[q], audit'[q] = audit[q], Pending(q)' <=> Pending(q)
    PROVE  Verdict(q)' = Verdict(q)
BY DEF Verdict

\* Only the investigation of a run, or its report, changes what is said of it.
LEMMA OneVerdict ==
    ASSUME NEW r \in Runs, \A q \in Runs \ {r} : Verdict(q)' = Verdict(q)
    PROVE  Verdicts' = [Verdicts EXCEPT ![r] = Verdict(r)']
BY DEF Verdicts

LEMMA StepIsPromised ==
    ASSUME IInv, Next
    PROVE  Promise!Next \/ UNCHANGED Verdicts
<1>1. ASSUME NEW r \in Runs, NEW t \in Tenants, QueryFails(r, t)
      PROVE  Promise!Report(r)
  <2> DEFINE new == [run |-> r, tenant |-> t, attempts |-> 0, left |-> {},
                     notified |-> {}, pc |-> "start"]
  <2>1. jobs' = jobs \cup {new} /\ new.run = r /\ audit' = audit /\ failed[r] = None
    BY <1>1 DEF QueryFails
  <2>2. audit[r] = <<>> /\ failed'[r] = t /\ t # None
    BY <1>1 DEF QueryFails, IInv, RunsOK, Untouched, TypeOK
  <2>3. Verdict(r) = "none" /\ Verdict(r)' = "open"
    <3>1. Pending(r)'
      BY <2>1 DEF Pending
    <3>2. QED
      BY <2>1, <2>2, <3>1 DEF Verdict
  <2>4. ASSUME NEW q \in Runs \ {r}
        PROVE  Verdict(q)' = Verdict(q)
    <3>1. Pending(q)' <=> Pending(q)
      BY <2>1 DEF Pending
    <3>2. failed'[q] = failed[q] /\ audit'[q] = audit[q]
      BY <1>1 DEF QueryFails, IInv, TypeOK
    <3>3. QED
      BY <3>1, <3>2, VerdictKept
  <2>5. Verdicts[r] = "none"
    BY <2>3 DEF Verdicts
  <2>6. QED
    BY <2>3, <2>4, <2>5, OneVerdict DEF Promise!Report
<1>2. ASSUME NEW j \in jobs, NEW n, n.run = j.run, Become(j, n), audit' = audit, failed' = failed
      PROVE  UNCHANGED Verdicts
  <2>1. ASSUME NEW q \in Runs
        PROVE  Verdict(q)' = Verdict(q)
    <3>1. Pending(q)' <=> Pending(q)
      BY <1>2 DEF Pending, Become
    <3>2. QED
      BY <1>2, <3>1, VerdictKept
  <2>2. QED
    BY <2>1 DEF Verdicts
<1>3. ASSUME NEW j \in jobs, Finish(j), failed' = failed,
             audit' = audit \/ Log(j, Outcome(j), j.notified)
      PROVE  Promise!Settle(j.run)
  <2>1. /\ j.run \in Runs /\ Verdict(j.run) = "open"
        /\ failed[j.run] # None /\ audit[j.run] = <<>>
    BY VerdictOfJob, TypesOfJob DEF IInv, JobsOK, JobOK
  <2>2. ~Pending(j.run)'
    BY <1>3 DEF Finish, Pending, IInv, JobsOK
  <2>3. Verdict(j.run)' \in {"fixed", "escalated", "skipped", "lost"}
    <3>1. CASE audit' = audit
      BY <1>3, <2>1, <2>2, <3>1 DEF Verdict
    <3>2. CASE Log(j, Outcome(j), j.notified)
      <4>1. audit'[j.run] = Append(<<>>, [action |-> Outcome(j), notified |-> j.notified])
        BY <2>1, <3>2 DEF Log, IInv, TypeOK
      <4>2. /\ audit'[j.run] # <<>> /\ Len(audit'[j.run]) = 1
            /\ audit'[j.run][1].action = Outcome(j)
        BY <4>1
      <4>3. Verdict(j.run)' = Outcome(j)
        BY <1>3, <2>1, <2>2, <4>2 DEF Verdict
      <4>4. QED
        BY <4>3 DEF Outcome
    <3>3. QED
      BY <1>3, <3>1, <3>2
  <2>4. ASSUME NEW q \in Runs \ {j.run}
        PROVE  Verdict(q)' = Verdict(q)
    <3>1. Pending(q)' <=> Pending(q)
      BY <1>3 DEF Finish, Pending
    <3>2. audit'[q] = audit[q] /\ failed'[q] = failed[q]
      BY <1>3 DEF Log, IInv, TypeOK
    <3>3. QED
      BY <3>1, <3>2, VerdictKept
  <2>5. Verdicts[j.run] = "open" /\ Verdicts' = [Verdicts EXCEPT ![j.run] = Verdict(j.run)']
    BY <2>1, <2>4, OneVerdict DEF Verdicts
  <2>6. QED
    BY <2>3, <2>5 DEF Promise!Settle, Promise!Settled
<1>4. ASSUME Restart
      PROVE  Promise!LoseAll
  <2>1. ASSUME NEW q \in Runs
        PROVE  Verdict(q)' = IF Verdict(q) = "open" THEN "lost" ELSE Verdict(q)
    <3>1. ~Pending(q)' /\ audit' = audit /\ failed' = failed
      BY <1>4 DEF Restart, Pending
    <3>2. CASE Pending(q)
      <4>1. Verdict(q) = "open" /\ failed[q] # None /\ audit[q] = <<>>
        BY <3>2, VerdictOfJob DEF Pending, IInv, JobsOK, JobOK, TypeOK, Job
      <4>2. QED
        BY <3>1, <4>1 DEF Verdict
    <3>3. CASE ~Pending(q)
      <4>1. Verdict(q)' = Verdict(q)
        BY <3>1, <3>3, VerdictKept
      <4>2. Verdict(q) # "open"
        <5>1. CASE failed[q] = None \/ audit[q] = <<>>
          BY <3>3, <5>1 DEF Verdict
        <5>2. CASE failed[q] # None /\ audit[q] # <<>>
          <6>1. audit[q] \in Seq(Event) /\ Len(audit[q]) = 1
            BY <3>3, <5>2 DEF IInv, RunsOK, Closed, TypeOK
          <6>2. audit[q][1] \in Event
            BY <6>1
          <6>3. Verdict(q) = audit[q][1].action
            BY <3>3, <5>2, <6>1 DEF Verdict
          <6>4. QED
            BY <6>2, <6>3 DEF Event
        <5>3. QED
          BY <5>1, <5>2
      <4>3. QED
        BY <4>1, <4>2
    <3>4. QED
      BY <3>2, <3>3
  <2>2. QED
    BY <2>1 DEF Promise!LoseAll, Verdicts
<1>5. ASSUME Tick
      PROVE  UNCHANGED Verdicts
  <2>1. ASSUME NEW q \in Runs
        PROVE  Verdict(q)' = Verdict(q)
    BY <1>5, VerdictKept DEF Tick, Pending
  <2>2. QED
    BY <2>1 DEF Verdicts
<1>6. ASSUME NEW j \in jobs, JobStep(j)
      PROVE  Promise!Settle(j.run) \/ UNCHANGED Verdicts
  BY <1>2, <1>3, <1>6, GoesOnOrEnds
<1>7. QED
  BY <1>1, <1>4, <1>5, <1>6, VerdictOfJob DEF Next, Promise!Next

(***************************************************************************)
(* A failed query has at most one outcome in the audit log, and keeps it:  *)
(* what the log shows of each run is a behaviour of Outcomes (its safety   *)
(* part; that every run is settled is left to TLC).                        *)
(***************************************************************************)
THEOREM OneOutcome == Spec => Promise!Safety
<1>1. Init => Promise!Init
  BY DEF Init, Verdicts, Verdict, Promise!Init
<1>2. IInv /\ [Next]_vars => [Promise!Next]_Verdicts
  <2>1. ASSUME UNCHANGED vars
        PROVE  UNCHANGED Verdicts
    BY <2>1 DEF vars, Verdicts, Verdict, Pending
  <2>2. QED
    BY <2>1, StepIsPromised
<1>3. QED
  BY <1>1, <1>2, Invariance, PTL DEF Spec, Promise!Safety

-----------------------------------------------------------------------------
(***************************************************************************)
(* The numbers of the dashboard.                                           *)
(***************************************************************************)

\* An event and an excuse exclude each other.
RunCounts(r) == failed[r] = None \/ Pending(r) \/ audit[r] # <<>> => ~excuse[r]

\* Only finitely many queries have failed so far.
Counts ==
    /\ IsFiniteSet({r \in Runs : failed[r] # None})
    /\ \A r \in Runs : RunCounts(r)

LEMMA CountsInitially == Init => Counts
<1> SUFFICES ASSUME Init PROVE Counts
  OBVIOUS
<1>1. {r \in Runs : failed[r] # None} = {}
  BY DEF Init
<1>2. \A r \in Runs : RunCounts(r)
  BY DEF Init, RunCounts, Pending
<1> QED
  BY <1>1, <1>2, FS_EmptySet DEF Counts

\* What a step of an investigation changes is its own, and it is excused only
\* if it ends without an event.
Own(j) ==
    /\ failed' = failed
    /\ \A i \in jobs' : i.run = j.run \/ i \in jobs \ {j}
    /\ \A q \in Runs \ {j.run} :
           audit'[q] = audit[q] /\ (excuse'[q] <=> excuse[q])
    /\ \/ excuse'[j.run] <=> excuse[j.run]
       \/ audit'[j.run] = <<>> /\ jobs' = jobs \ {j}

LEMMA StepsAreOwn ==
    ASSUME IInv, NEW j \in jobs, JobStep(j)
    PROVE  Own(j)
<1>1. /\ j.run \in Runs /\ audit[j.run] = <<>> /\ audit \in [Runs -> Seq(Event)]
      /\ excuse \in [Runs -> BOOLEAN]
  BY TypesOfJob DEF IInv, TypeOK, JobsOK, JobOK
<1>2. \A i \in jobs' : i.run = j.run \/ i \in jobs \ {j}
  <2>1. CASE Skip(j) \/ Start(j)
    BY <2>1, TypesOfJob, MovesOn DEF Skip, Start, Become, IInv
  <2>2. ASSUME NEW m, m.run = j.run, jobs' \subseteq (jobs \ {j}) \cup {m}
        PROVE  \A i \in jobs' : i.run = j.run \/ i \in jobs \ {j}
    BY <2>2
  <2> QED
    BY <2>1, <2>2, LaterSteps DEF IInv
<1>3. CASE \/ Skip(j) \/ Start(j) \/ Retry(j) \/ Compose(j) \/ ListAdmins(j)
  BY <1>1, <1>2, <1>3 DEF Own, Skip, Start, Retry, Compose, ListAdmins, history
<1>4. CASE Notify(j)
  BY <1>1, <1>2, <1>4 DEF Own, Notify
<1>5. CASE Raise(j) \/ LogEventFails(j)
  <2>1. \A q \in Runs \ {j.run} : excuse'[q] = excuse[q]
    BY <1>1, <1>5 DEF Raise, LogEventFails, Excuse
  <2>2. failed' = failed /\ audit' = audit /\ jobs' = jobs \ {j}
    BY <1>5 DEF Raise, LogEventFails, Finish
  <2> QED
    BY <1>1, <1>2, <2>1, <2>2 DEF Own
<1>6. CASE LogEvent(j)
  <2>1. /\ \A q \in Runs \ {j.run} : audit'[q] = audit[q]
        /\ failed' = failed /\ excuse' = excuse
    BY <1>1, <1>6 DEF LogEvent, Log, history
  <2> QED
    BY <1>2, <2>1 DEF Own
<1> QED
  BY <1>3, <1>4, <1>5, <1>6 DEF JobStep

LEMMA CountsKept ==
    ASSUME IInv, Counts, [Next]_vars
    PROVE  Counts'
<1>1. ASSUME NEW q \in Runs, NEW t \in Tenants, QueryFails(q, t) PROVE Counts'
  <2>1. /\ failed' = [failed EXCEPT ![q] = t] /\ failed[q] = None
        /\ audit' = audit /\ excuse' = excuse
    BY <1>1 DEF QueryFails
  <2>2. failed \in [Runs -> Tenants \cup {None}] /\ t # None
    BY DEF IInv, TypeOK
  <2>3. {r \in Runs : failed'[r] # None} = {r \in Runs : failed[r] # None} \cup {q}
    BY <2>1, <2>2
  <2>4. IsFiniteSet({r \in Runs : failed'[r] # None})
    BY <2>3, FS_AddElement DEF Counts
  <2>5. \A r \in Runs : Pending(r)' => Pending(r) \/ failed[r] = None
    BY <1>1, <2>1 DEF QueryFails, Pending
  <2>6. \A r \in Runs : failed'[r] = None => failed[r] = None
    BY <2>1, <2>2
  <2> QED
    BY <2>1, <2>4, <2>5, <2>6 DEF Counts, RunCounts
<1>2. ASSUME NEW j \in jobs, JobStep(j) PROVE Counts'
  <2>1. Own(j) /\ j.run \in Runs /\ failed[j.run] # None /\ Pending(j.run)
    BY <1>2, StepsAreOwn, TypesOfJob DEF IInv, JobsOK, JobOK, Pending
  <2>2. ASSUME NEW r \in Runs PROVE RunCounts(r)'
    <3>1. RunCounts(r)
      BY DEF Counts
    <3>2. CASE r = j.run
      <4>1. ~excuse[r]
        BY <2>1, <3>1, <3>2 DEF RunCounts
      <4>2. jobs' = jobs \ {j} => ~Pending(r)'
        BY <3>2 DEF Pending, IInv, JobsOK
      <4> QED
        BY <2>1, <3>2, <4>1, <4>2 DEF Own, RunCounts
    <3>3. CASE r # j.run
      <4>1. Pending(r)' => Pending(r)
        BY <2>1, <3>3 DEF Own, Pending
      <4> QED
        BY <2>1, <3>1, <3>3, <4>1 DEF Own, RunCounts
    <3> QED
      BY <3>2, <3>3
  <2>3. IsFiniteSet({r \in Runs : failed'[r] # None})
    BY <2>1 DEF Counts, Own
  <2> QED
    BY <2>2, <2>3 DEF Counts
<1>3. CASE Restart
  <2>1. ASSUME NEW r \in Runs PROVE RunCounts(r)'
    <3>1. RunCounts(r)
      BY DEF Counts
    <3>2. ~Pending(r)' /\ failed' = failed /\ audit' = audit
      BY <1>3 DEF Restart, Pending
    <3>3. CASE Pending(r)
      <4>1. failed[r] # None /\ audit[r] = <<>>
        BY <3>3, TypesOfJob DEF Pending, IInv, JobsOK, JobOK
      <4> QED
        BY <3>2, <4>1 DEF RunCounts
    <3>4. CASE ~Pending(r)
      <4>1. excuse'[r] <=> excuse[r]
        BY <1>3, <3>4 DEF Restart, Pending
      <4> QED
        BY <3>1, <3>2, <4>1 DEF RunCounts
    <3> QED
      BY <3>3, <3>4
  <2>2. IsFiniteSet({r \in Runs : failed'[r] # None})
    BY <1>3 DEF Restart, Counts
  <2> QED
    BY <2>1, <2>2 DEF Counts
<1>4. CASE Tick \/ UNCHANGED vars
  BY <1>4 DEF Tick, vars, Counts, RunCounts, Pending
<1> QED
  BY <1>1, <1>2, <1>3, <1>4 DEF Next

\* One event each: as many events as runs that wrote one.
LEMMA AsManyEvents ==
    ASSUME NEW S, IsFiniteSet(S)
    PROVE  Cardinality({<<r, 1>> : r \in S}) = Cardinality(S)
<1> DEFINE T == {<<r, 1>> : r \in S}
           f == [r \in S |-> <<r, 1>>]
<1>1. f \in Bijection(S, T)
  BY DEF Bijection, Injection, Surjection, IsInjective
<1> QED
  BY <1>1, FS_Bijection DEF ExistsBijection

LEMMA AsManyMails ==
    ASSUME NEW Q, IsFiniteSet(Q), NEW R, NEW A, Q \subseteq R \X A
    PROVE  Cardinality({<<<<q[1], 1>>, q[2]>> : q \in Q}) = Cardinality(Q)
<1> DEFINE T == {<<<<q[1], 1>>, q[2]>> : q \in Q}
           f == [q \in Q |-> <<<<q[1], 1>>, q[2]>>]
<1>1. \A q \in Q : q = <<q[1], q[2]>>
  OBVIOUS
<1>2. f \in [Q -> T] /\ \A y \in T : \E q \in Q : f[q] = y
  OBVIOUS
<1>3. ASSUME NEW p \in Q, NEW q \in Q, f[p] = f[q] PROVE p = q
  <2>1. p[1] = q[1] /\ p[2] = q[2]
    BY <1>3
  <2> QED
    BY <1>1, <2>1
<1>4. f \in Bijection(Q, T)
  BY <1>2, <1>3 DEF Bijection, Injection, Surjection, IsInjective
<1> QED
  BY <1>4, FS_Bijection DEF ExistsBijection

\* The investigations of a tenant that came to their end, by their one event.
Done(t) == {r \in Runs : failed[r] = t /\ ~Pending(r) /\ ~excuse[r]}
Ended(t, action) == {r \in Done(t) : audit[r][1].action = action}

LEMMA OneEventWhenDone ==
    ASSUME IInv, Counts, NEW t \in Tenants
    PROVE  /\ IsFiniteSet(Done(t))
           /\ \A r \in Runs : failed[r] = t /\ audit[r] # <<>> => r \in Done(t)
           /\ \A r \in Done(t) :
                  /\ DOMAIN audit[r] = {1} /\ audit[r][1] \in Event
                  /\ EventIsTrue(r, audit[r][1]) /\ tries[r] \in Seq(BOOLEAN)
<1>1. IsFiniteSet(Done(t))
  <2>1. Done(t) \subseteq {r \in Runs : failed[r] # None}
    BY DEF Done
  <2> QED
    BY <2>1, FS_Subset DEF Counts
<1>2. ASSUME NEW r \in Runs, failed[r] = t, audit[r] # <<>> PROVE r \in Done(t)
  <2>1. ~Pending(r)
    BY <1>2 DEF Pending, IInv, JobsOK, JobOK
  <2>2. ~excuse[r]
    BY <1>2 DEF Counts, RunCounts
  <2> QED
    BY <1>2, <2>1, <2>2 DEF Done
<1>3. ASSUME NEW r \in Done(t)
      PROVE  /\ DOMAIN audit[r] = {1} /\ audit[r][1] \in Event
             /\ EventIsTrue(r, audit[r][1]) /\ tries[r] \in Seq(BOOLEAN)
  <2>1. r \in Runs /\ failed[r] # None /\ ~Pending(r) /\ ~excuse[r]
    BY DEF Done
  <2>2. Len(audit[r]) = 1 /\ EventIsTrue(r, audit[r][1])
    BY <2>1 DEF IInv, RunsOK, Closed
  <2>3. audit[r] \in Seq(Event) /\ tries[r] \in Seq(BOOLEAN)
    BY <2>1 DEF IInv, TypeOK
  <2>4. DOMAIN audit[r] = {1} /\ audit[r][1] \in Event /\ audit[r] # <<>>
    BY <2>2, <2>3
  <2> QED
    BY <2>2, <2>3, <2>4
<1> QED
  BY <1>1, <1>2, <1>3

\* The log counts each of them once.
LEMMA EventsOfTheEnded ==
    ASSUME IInv, Counts, NEW t \in Tenants, NEW action
    PROVE  UNION {{<<r, i>> : i \in {k \in DOMAIN audit[r] :
                                         failed[r] = t /\ audit[r][k].action = action}} : r \in Runs}
               = {<<r, 1>> : r \in Ended(t, action)}
<1> DEFINE of(r) == {k \in DOMAIN audit[r] : failed[r] = t /\ audit[r][k].action = action}
<1>1. ASSUME NEW r \in Runs
      PROVE  of(r) = IF r \in Ended(t, action) THEN {1} ELSE {}
  <2>1. CASE r \in Done(t)
    <3>1. DOMAIN audit[r] = {1} /\ failed[r] = t
      BY <2>1, OneEventWhenDone DEF Done
    <3> QED
      BY <2>1, <3>1 DEF Ended
  <2>2. CASE r \notin Done(t)
    <3>1. failed[r] # t \/ audit[r] = <<>>
      BY <2>2, OneEventWhenDone
    <3>2. of(r) = {}
      BY <3>1
    <3> QED
      BY <2>2, <3>2 DEF Ended
  <2> QED
    BY <2>1, <2>2
<1>2. Ended(t, action) \subseteq Runs
  BY DEF Ended, Done
<1> HIDE DEF of
<1>3. UNION {{<<r, i>> : i \in of(r)} : r \in Runs} = {<<r, 1>> : r \in Ended(t, action)}
  BY <1>1, <1>2
<1> QED
  BY <1>3 DEF of

\* What an event says decides how its investigation ended.
LEMMA EventsSort ==
    ASSUME IInv, Counts, NEW t \in Tenants, NEW r \in Done(t)
    PROVE  LET ended == audit[r][1].action
               tried == tries[r] # <<>>
               worked == \E i \in 1..Len(tries[r]) : tries[r][i]
           IN  /\ ended = "fixed" <=> tried /\ worked
               /\ ended = "escalated" <=> tried /\ ~worked
               /\ ended = "skipped" <=> ~tried
<1> DEFINE ended == audit[r][1].action
           tried == tries[r] # <<>>
           worked == \E i \in 1..Len(tries[r]) : tries[r][i]
<1>1. /\ ended \in {"fixed", "escalated", "skipped"} /\ EventIsTrue(r, audit[r][1])
      /\ tries[r] \in Seq(BOOLEAN)
  BY OneEventWhenDone DEF Event
<1>2. ASSUME ended = "fixed" PROVE tried /\ worked
  <2>1. OnlyLast(tries[r])
    BY <1>1, <1>2 DEF EventIsTrue
  <2>2. tried /\ Len(tries[r]) \in 1..Len(tries[r])
    BY <1>1, <2>1 DEF OnlyLast
  <2> QED
    BY <2>1, <2>2 DEF OnlyLast
<1>3. ASSUME ended = "escalated" PROVE tried /\ ~worked
  <2>1. tries[r] = [i \in 1..MaxRetries |-> FALSE]
    BY <1>1, <1>3 DEF EventIsTrue
  <2>2. Len(tries[r]) = MaxRetries /\ MaxRetries \in Nat \ {0}
    BY <2>1
  <2>3. \A i \in 1..MaxRetries : ~tries[r][i]
    BY <2>1, Zenon
  <2> QED
    BY <2>2, <2>3
<1>4. ASSUME ended = "skipped" PROVE ~tried
  BY <1>1, <1>4 DEF EventIsTrue
<1> HIDE DEF tried, worked
<1>5. /\ ended = "fixed" <=> tried /\ worked
      /\ ended = "escalated" <=> tried /\ ~worked
      /\ ended = "skipped" <=> ~tried
  BY <1>1, <1>2, <1>3, <1>4
<1> QED
  BY <1>5 DEF tried, worked

(***************************************************************************)
(* The dashboard's numbers, counted from the log alone, are those of the   *)
(* investigations that ended: fixed, given up, skipped, and the mails that *)
(* SES took and said so (get_watchdog_stats), for any failures, restarts   *)
(* and admins.                                                             *)
(***************************************************************************)
THEOREM TheDashboardCountsRight == Spec => []StatsAreTrue
<1>1. ASSUME IInv, Counts, NEW t \in Tenants
      PROVE  LET done == {r \in Runs : failed[r] = t /\ ~Pending(r) /\ ~excuse[r]}
                 retried == {r \in done : tries[r] # <<>>}
                 fixed == {r \in retried : \E i \in 1..Len(tries[r]) : tries[r][i]}
             IN  WatchdogStats(t) =
                     [succeeded_count |-> Cardinality(fixed),
                      exhausted_count |-> Cardinality(retried \ fixed),
                      skipped_count |-> Cardinality(done \ retried),
                      emails_sent_count |-> Cardinality(
                          {p \in done \X Admins : p[2] \in mailed[p[1]] \ unseen[p[1]]})]
  <2> DEFINE retried == {r \in Done(t) : tries[r] # <<>>}
             fixed == {r \in retried : \E i \in 1..Len(tries[r]) : tries[r][i]}
             events(action) == UNION {{<<r, i>> : i \in {k \in DOMAIN audit[r] :
                                   failed[r] = t /\ audit[r][k].action = action}} : r \in Runs}
             sent == {p \in events("escalated") \X Admins :
                          p[2] \in audit[p[1][1]][p[1][2]].notified}
             took == {p \in Done(t) \X Admins : p[2] \in mailed[p[1]] \ unseen[p[1]]}
  <2>1. /\ Ended(t, "fixed") = fixed /\ Ended(t, "escalated") = retried \ fixed
        /\ Ended(t, "skipped") = Done(t) \ retried
    BY <1>1, EventsSort DEF Ended
  <2>2. \A action : events(action) = {<<r, 1>> : r \in Ended(t, action)}
    BY <1>1, EventsOfTheEnded
  <2> HIDE DEF events
  <2>3. ASSUME NEW action PROVE Cardinality(events(action)) = Cardinality(Ended(t, action))
    <3>1. Ended(t, action) \subseteq Done(t) /\ IsFiniteSet(Done(t))
      BY <1>1, OneEventWhenDone DEF Ended
    <3>2. IsFiniteSet(Ended(t, action))
      BY <3>1, FS_Subset
    <3> QED
      BY <2>2, <3>2, AsManyEvents
  <2>4. Cardinality(sent) = Cardinality(took)
    <3>1. IsFiniteSet(Done(t) \X Admins)
      BY <1>1, OneEventWhenDone, FS_Product
    <3>2. IsFiniteSet(took)
      BY <3>1, FS_Subset
    <3>3. \A r \in Done(t), a \in Admins : a \in mailed[r] \ unseen[r] =>
              r \in Ended(t, "escalated") /\ a \in audit[r][1].notified
      BY <1>1, OneEventWhenDone DEF Ended, EventIsTrue
    <3>4. \A r \in Ended(t, "escalated") :
              r \in Done(t) /\ audit[r][1].notified = mailed[r] \ unseen[r]
      BY <1>1, OneEventWhenDone DEF Ended, EventIsTrue
    <3>5. sent = {<<<<q[1], 1>>, q[2]>> : q \in took}
      <4>1. ASSUME NEW p \in sent PROVE \E q \in took : p = <<<<q[1], 1>>, q[2]>>
        <5>1. p \in {<<r, 1>> : r \in Ended(t, "escalated")} \X Admins
          BY <2>2
        <5>2. PICK r \in Ended(t, "escalated"), a \in Admins : p = <<<<r, 1>>, a>>
          BY <5>1
        <5>3. a \in mailed[r] \ unseen[r] /\ r \in Done(t)
          BY <3>4, <5>2
        <5>4. <<r, a>> \in took
          BY <5>3
        <5> QED
          BY <5>2, <5>4
      <4>2. ASSUME NEW q \in took PROVE <<<<q[1], 1>>, q[2]>> \in sent
        <5>1. q[1] \in Ended(t, "escalated") /\ q[2] \in Admins /\ q[2] \in audit[q[1]][1].notified
          BY <3>3
        <5>2. <<q[1], 1>> \in events("escalated")
          BY <2>2, <5>1
        <5> QED
          BY <5>1, <5>2
      <4> HIDE DEF sent, took
      <4> QED
        BY <4>1, <4>2
    <3>6. took \subseteq Done(t) \X Admins
      OBVIOUS
    <3> HIDE DEF sent, took
    <3> QED
      BY <3>2, <3>5, <3>6, AsManyMails
  <2>5. WatchdogStats(t) =
            [succeeded_count |-> Cardinality(events("fixed")),
             exhausted_count |-> Cardinality(events("escalated")),
             skipped_count |-> Cardinality(events("skipped")),
             emails_sent_count |-> Cardinality(sent)]
    BY DEF WatchdogStats, events
  <2> QED
    BY <2>1, <2>3, <2>4, <2>5 DEF Done
<1>2. IInv /\ Counts => StatsAreTrue
  BY <1>1 DEF StatsAreTrue
<1>3. IInv /\ Counts /\ [Next]_vars => IInv' /\ Counts'
  BY NextKeeps, CountsKept
<1> QED
  BY <1>2, <1>3, Initially, CountsInitially, PTL DEF Spec

-----------------------------------------------------------------------------
(***************************************************************************)
(* The steps an investigation may still take: the retries it has left,     *)
(* then the explanation, the list of admins, a mail to each and the event. *)
(***************************************************************************)
JobWork(j) ==
    CASE j.pc \in {"skip", "fixed"} -> 1
      [] j.pc = "notify" -> 1 + Cardinality(j.left)
      [] j.pc = "members" -> Cardinality(Admins) + 2
      [] j.pc = "compose" -> Cardinality(Admins) + 3
      [] j.pc = "retry" -> Cardinality(Admins) + 3 + (MaxRetries - j.attempts)
      [] j.pc = "start" -> Cardinality(Admins) + 4 + MaxRetries

MostWork == Cardinality(Admins) + 4 + MaxRetries

LEMMA AdminsAreFew ==
    /\ Cardinality(Admins) \in Nat
    /\ \A S \in SUBSET Admins : /\ IsFiniteSet(S)
                                /\ Cardinality(S) \in Nat
                                /\ Cardinality(S) <= Cardinality(Admins)
BY FS_CardinalityType, FS_Subset

LEMMA WorkOfJob ==
    ASSUME IInv, NEW j \in jobs
    PROVE  JobWork(j) \in 1..MostWork
<1>1. j \in Job /\ j.attempts \in 0..MaxRetries /\ j.left \in SUBSET Admins
  BY TypesOfJob DEF IInv
<1>2. Cardinality(j.left) \in Nat /\ Cardinality(j.left) <= Cardinality(Admins)
  BY <1>1, AdminsAreFew
<1> QED
  BY <1>1, <1>2, AdminsAreFew DEF Job, JobWork, MostWork

\* A step of an investigation uses up work, if it does not end it.
LEMMA WorkIsUsedUp ==
    ASSUME IInv, NEW j \in jobs, JobStep(j), NEW n \in jobs', n.run = j.run
    PROVE  JobWork(n) < JobWork(j)
<1>1. /\ j \in Job /\ j.attempts \in 0..MaxRetries /\ j.left \in SUBSET Admins
      /\ JobOK(j) /\ Cardinality(j.left) \in Nat /\ Cardinality(j.left) <= Cardinality(Admins)
      /\ Cardinality(Admins) \in Nat
  BY TypesOfJob, AdminsAreFew DEF IInv, JobsOK
<1>2. n \notin jobs \ {j}
  BY DEF IInv, JobsOK
<1>3. ASSUME NEW m, Become(j, m) PROVE n = m
  BY <1>2, <1>3 DEF Become
<1>4. CASE Skip(j)
  <2>1. n = [j EXCEPT !.pc = "skip"] /\ j.pc = "start"
    BY <1>3, <1>4 DEF Skip
  <2> QED
    BY <1>1, <2>1 DEF Job, JobWork
<1>5. CASE Start(j)
  <2>1. n = [j EXCEPT !.pc = "retry"] /\ j.pc = "start"
    BY <1>3, <1>5 DEF Start
  <2> QED
    BY <1>1, <2>1 DEF Job, JobWork, JobOK
<1>6. CASE Retry(j)
  <2>1. j.pc = "retry" /\ j.attempts < MaxRetries
    BY <1>1, <1>6 DEF Retry, JobOK
  <2>2. PICK ok \in BOOLEAN : Become(j, [j EXCEPT !.attempts = @ + 1, !.pc = AfterRetry(j, ok)])
    BY <1>6 DEF Retry
  <2>3. n.attempts = j.attempts + 1 /\ n.pc = AfterRetry(j, ok)
    BY <1>1, <1>3, <2>2 DEF Job
  <2> QED
    BY <1>1, <2>1, <2>3 DEF AfterRetry, JobWork
<1>7. CASE Compose(j)
  <2>1. n = [j EXCEPT !.pc = "members"] /\ j.pc = "compose"
    BY <1>3, <1>7 DEF Compose
  <2> QED
    BY <1>1, <2>1 DEF Job, JobWork
<1>8. CASE ListAdmins(j)
  <2>1. PICK to \in SUBSET Admins : n = [j EXCEPT !.pc = "notify", !.left = to]
    BY <1>3, <1>8 DEF ListAdmins
  <2>2. n.pc = "notify" /\ n.left = to /\ j.pc = "members"
    BY <1>1, <1>8, <2>1 DEF Job, ListAdmins
  <2>3. Cardinality(to) \in Nat /\ Cardinality(to) <= Cardinality(Admins)
    BY AdminsAreFew
  <2> QED
    BY <1>1, <2>2, <2>3 DEF JobWork
<1>9. CASE Notify(j)
  <2>0. PICK a \in j.left : \E answered :
            Become(j, [j EXCEPT !.left = @ \ {a}, !.notified = @ \cup answered])
    BY <1>9, Zenon DEF Notify
  <2>1. PICK answered : n = [j EXCEPT !.left = @ \ {a}, !.notified = @ \cup answered]
    BY <1>3, <2>0
  <2>2. n.pc = "notify" /\ n.left = j.left \ {a} /\ j.pc = "notify"
    BY <1>1, <1>9, <2>1 DEF Job, Notify
  <2>3. Cardinality(j.left \ {a}) = Cardinality(j.left) - 1
    BY <1>1, AdminsAreFew, FS_RemoveElement
  <2> QED
    BY <1>1, <2>2, <2>3 DEF JobWork
<1>10. CASE Raise(j) \/ LogEvent(j) \/ LogEventFails(j)
  <2>1. jobs' = jobs \ {j}
    BY <1>10 DEF Raise, LogEvent, LogEventFails, Finish
  <2> QED
    BY <1>2, <2>1
<1> QED
  BY <1>4, <1>5, <1>6, <1>7, <1>8, <1>9, <1>10 DEF JobStep

\* Nothing else in the system gives an investigation more to do.
LEMMA OthersLeaveIt ==
    ASSUME IInv, [Next]_vars, NEW j \in jobs, ~JobStep(j), NEW n \in jobs', n.run = j.run
    PROVE  n = j
<1>1. ASSUME NEW r \in Runs, NEW t \in Tenants, QueryFails(r, t) PROVE n = j
  <2>1. j.run # r
    BY <1>1, TypesOfJob DEF QueryFails, IInv, TypeOK, JobsOK, JobOK
  <2> QED
    BY <1>1, <2>1 DEF QueryFails, IInv, JobsOK
<1>2. ASSUME NEW k \in jobs, JobStep(k) PROVE n = j
  <2>1. k.run # j.run
    BY <1>2 DEF IInv, JobsOK
  <2> QED
    BY <1>2, <2>1, StepsAreOwn DEF Own, IInv, JobsOK
<1>3. CASE Restart
  BY <1>3 DEF Restart
<1>4. CASE Tick \/ UNCHANGED vars
  BY <1>4 DEF Tick, vars, IInv, JobsOK
<1> QED
  BY <1>1, <1>2, <1>3, <1>4 DEF Next

(***************************************************************************)
(* An investigation takes at most Cardinality(Admins) + 4 + MaxRetries     *)
(* steps: each uses up one, and no failure, restart or other investigation *)
(* gives it more.  What remains for its outcome to be due is that its      *)
(* sleeps and calls come back (error_watchdog_service.py, investigate_error).*)
(***************************************************************************)
THEOREM InvestigationsAreBounded ==
    Spec => /\ [](\A j \in jobs : JobWork(j) \in 1..MostWork)
            /\ [][\A j \in jobs : \A n \in jobs' :
                      n.run = j.run => IF JobStep(j) THEN JobWork(n) < JobWork(j) ELSE n = j]_vars
<1>1. IInv => \A j \in jobs : JobWork(j) \in 1..MostWork
  BY WorkOfJob
<1>2. IInv /\ [Next]_vars =>
          [\A j \in jobs : \A n \in jobs' :
               n.run = j.run => IF JobStep(j) THEN JobWork(n) < JobWork(j) ELSE n = j]_vars
  BY WorkIsUsedUp, OthersLeaveIt
<1> QED
  BY <1>1, <1>2, Invariance, PTL DEF Spec
=============================================================================
