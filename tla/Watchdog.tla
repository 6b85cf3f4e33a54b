------------------------------ MODULE Watchdog ------------------------------
(***************************************************************************)
(* The error watchdog, services/error_watchdog_service.py, started as the  *)
(* background task of a chat response (api/chat.py), and the audit log it  *)
(* writes, services/audit_service.py.                                      *)
(*                                                                         *)
(* An investigation is a record in jobs; between two of its steps it sleeps *)
(* or awaits the pipeline, the model, Cognito, SES or DynamoDB.  The check  *)
(* of the cooldown and its start have no await between them and are one    *)
(* step.  The chat handler refuses questions while no knowledge base is    *)
(* configured (chat.py:387), so the early return for that is never taken.  *)
(*                                                                         *)
(* Data abstraction.  A failure is the id of its trace, a mail is its      *)
(* recipient.  The pipeline that a retry runs is the one RagSystem models. *)
(***************************************************************************)
EXTENDS Naturals, Sequences, FiniteSets

CONSTANTS
    Tenants,
    Runs,            \* failed chat queries
    Admins,          \* mail addresses of admins
    MaxRetries,      \* MAX_AUTO_RETRIES
    Cooldown,        \* COOLDOWN_SECONDS, in ticks
    None

ASSUME WatchdogAssumption ==
    /\ MaxRetries \in Nat \ {0} /\ Cooldown \in Nat \ {0}
    /\ None \notin Tenants
    /\ IsFiniteSet(Admins)

VARIABLES
    since,     \* [Tenants -> 0..Cooldown]: age of _last_investigation_started_at
    jobs,      \* investigations in flight
    audit,     \* [Runs -> Seq(Event)]: the audit events about a run
    failed,    \* history: [Runs -> Tenants or None], the failures handed over
    tries,     \* history: [Runs -> Seq(BOOLEAN)], the outcome of each retry
    mailed,    \* history: [Runs -> SUBSET Admins], whose mail SES took
    unseen,    \* history: [Runs -> SUBSET Admins], those of them SES's answer was lost for
    starts,    \* history: ages of the starts of a tenant, younger than Cooldown
    excuse     \* history: [Runs -> BOOLEAN], an exception, a failed put_item or a restart
               \* may have cost the run its event

vars == <<since, jobs, audit, failed, tries, mailed, unseen, starts, excuse>>
history == <<failed, tries, mailed, unseen, starts, excuse>>

Event == [action : {"fixed", "escalated", "skipped"}, notified : SUBSET Admins]

Job == [run : Runs, tenant : Tenants, attempts : 0..MaxRetries,
        left : SUBSET Admins, notified : SUBSET Admins,
        pc : {"start", "skip", "retry", "fixed", "compose", "members", "notify"}]

Become(j, n) == jobs' = (jobs \ {j}) \cup {n}
Finish(j)    == jobs' = jobs \ {j}

Log(j, action, notified) ==
    audit' = [audit EXCEPT ![j.run] = Append(@, [action |-> action, notified |-> notified])]

Excuse(j) == excuse' = [excuse EXCEPT ![j.run] = TRUE]

-----------------------------------------------------------------------------
\* The stream ends after an "error" event: the background task is started.  A
\* stream cut off by the client or by an exception starts none.
QueryFails(r, t) ==
    /\ failed[r] = None
    /\ failed' = [failed EXCEPT ![r] = t]
    /\ jobs' = jobs \cup {[run |-> r, tenant |-> t, attempts |-> 0, left |-> {},
                           notified |-> {}, pc |-> "start"]}
    /\ UNCHANGED <<since, audit, tries, mailed, unseen, starts, excuse>>

InCooldown(t) == since[t] < Cooldown

\* Variant for fault injection: a skipped failure renews the cooldown.
SkipRenewing(j) ==
    /\ j.pc = "start" /\ InCooldown(j.tenant)
    /\ since' = [since EXCEPT ![j.tenant] = 0]
    /\ Become(j, [j EXCEPT !.pc = "skip"])
    /\ UNCHANGED <<audit, history>>

Skip(j) ==
    /\ j.pc = "start" /\ InCooldown(j.tenant)
    /\ Become(j, [j EXCEPT !.pc = "skip"])
    /\ UNCHANGED <<since, audit, history>>

Start(j) ==
    /\ j.pc = "start" /\ ~InCooldown(j.tenant)
    /\ since' = [since EXCEPT ![j.tenant] = 0]
    /\ starts' = [starts EXCEPT ![j.tenant] = @ \cup {0}]
    /\ Become(j, [j EXCEPT !.pc = "retry"])
    /\ UNCHANGED <<audit, failed, tries, mailed, unseen, excuse>>

\* Variant for fault injection: the count is compared before it is raised.
AfterRetryLate(j, ok) ==
    CASE ok -> "fixed"
      [] ~ok /\ j.attempts < MaxRetries -> "retry"
      [] OTHER -> "compose"

AfterRetry(j, ok) ==
    CASE ok -> "fixed"
      [] ~ok /\ j.attempts + 1 < MaxRetries -> "retry"
      [] OTHER -> "compose"

\* Sleep, then run the pipeline once as the user whose question failed.
Retry(j) ==
    /\ j.pc = "retry"
    /\ \E ok \in BOOLEAN :
        /\ tries' = [tries EXCEPT ![j.run] = Append(@, ok)]
        /\ Become(j, [j EXCEPT !.attempts = @ + 1, !.pc = AfterRetry(j, ok)])
    /\ UNCHANGED <<since, audit, failed, mailed, unseen, starts, excuse>>

\* _compose_notification
Compose(j) ==
    /\ j.pc = "compose"
    /\ Become(j, [j EXCEPT !.pc = "members"])
    /\ UNCHANGED <<since, audit, history>>

\* list_org_members: whoever is an enabled admin now.
ListAdmins(j) ==
    /\ j.pc = "members"
    /\ \E to \in SUBSET Admins : Become(j, [j EXCEPT !.pc = "notify", !.left = to])
    /\ UNCHANGED <<since, audit, history>>

\* Variant for fault injection: a recipient counts as notified before SES accepts.
NotifyEagerly(j) ==
    /\ j.pc = "notify"
    /\ \E a \in j.left : \E took \in SUBSET {a} :
        /\ mailed' = [mailed EXCEPT ![j.run] = @ \cup took]
        /\ Become(j, [j EXCEPT !.left = @ \ {a}, !.notified = @ \cup {a}])
    /\ UNCHANGED <<since, audit, failed, tries, unseen, starts, excuse>>

\* One mail after the other.  SES takes it or refuses it; an answer that does not
\* arrive (a read timeout, a lost connection) counts as a refusal, whether or not
\* SES took the mail.
Notify(j) ==
    /\ j.pc = "notify"
    /\ \E a \in j.left : \E took \in SUBSET {a} : \E answered \in SUBSET took :
        /\ mailed' = [mailed EXCEPT ![j.run] = @ \cup took]
        /\ unseen' = [unseen EXCEPT ![j.run] = @ \cup (took \ answered)]
        /\ Become(j, [j EXCEPT !.left = @ \ {a}, !.notified = @ \cup answered])
    /\ UNCHANGED <<since, audit, failed, tries, starts, excuse>>

\* What an exception ends without an event: run_pipeline_once outside its own
\* error events (embed_text), the model's explanation, Cognito.
Raise(j) ==
    /\ j.pc \in {"retry", "compose", "members"}
    /\ Finish(j)
    /\ Excuse(j)
    /\ UNCHANGED <<since, audit, failed, tries, mailed, unseen, starts>>

\* Variant for fault injection: the outcome is told from the number of attempts.
OutcomeByAttempts(j) ==
    CASE j.pc = "skip" -> "skipped"
      [] j.pc # "skip" /\ j.attempts < MaxRetries -> "fixed"
      [] OTHER -> "escalated"

Outcome(j) ==
    CASE j.pc = "skip" -> "skipped"
      [] j.pc = "fixed" -> "fixed"
      [] OTHER -> "escalated"

Ready(j) == j.pc \in {"skip", "fixed"} \/ (j.pc = "notify" /\ j.left = {})

\* Variant for fault injection: a failed put_item is tried again by the caller.
LogEventTwice(j) ==
    /\ Ready(j)
    /\ Log(j, Outcome(j), j.notified)
    /\ Finish(j) \/ UNCHANGED jobs
    /\ UNCHANGED <<since, history>>

LogEvent(j) ==
    /\ Ready(j)
    /\ Log(j, Outcome(j), j.notified)
    /\ Finish(j)
    /\ UNCHANGED <<since, history>>

\* log_event is best effort: put_item fails and nobody learns of it.
LogEventFails(j) ==
    /\ Ready(j)
    /\ Finish(j)
    /\ Excuse(j)
    /\ UNCHANGED <<since, audit, failed, tries, mailed, unseen, starts>>

-----------------------------------------------------------------------------
\* The process restarts: the cooldowns and the investigations are gone.
Restart ==
    /\ jobs' = {}
    /\ since' = [t \in Tenants |-> Cooldown]
    /\ starts' = [t \in Tenants |-> {}]
    /\ excuse' = [r \in Runs |-> excuse[r] \/ \E j \in jobs : j.run = r]
    /\ UNCHANGED <<audit, failed, tries, mailed, unseen>>

Tick ==
    /\ since' = [t \in Tenants |-> IF since[t] < Cooldown THEN since[t] + 1 ELSE Cooldown]
    /\ starts' = [t \in Tenants |-> {a + 1 : a \in starts[t]} \cap 0..(Cooldown - 1)]
    /\ UNCHANGED <<jobs, audit, failed, tries, mailed, unseen, excuse>>

Init ==
    /\ since = [t \in Tenants |-> Cooldown]
    /\ jobs = {}
    /\ audit = [r \in Runs |-> <<>>]
    /\ failed = [r \in Runs |-> None]
    /\ tries = [r \in Runs |-> <<>>]
    /\ mailed = [r \in Runs |-> {}]
    /\ unseen = [r \in Runs |-> {}]
    /\ starts = [t \in Tenants |-> {}]
    /\ excuse = [r \in Runs |-> FALSE]

JobStep(j) ==
    \/ Skip(j) \/ Start(j) \/ Retry(j) \/ Compose(j) \/ ListAdmins(j) \/ Notify(j)
    \/ Raise(j) \/ LogEvent(j) \/ LogEventFails(j)

Next ==
    \/ \E r \in Runs, t \in Tenants : QueryFails(r, t)
    \/ \E j \in jobs : JobStep(j)
    \/ Restart
    \/ Tick

Spec == Init /\ [][Next]_vars

(***************************************************************************)
(* Fairness.  The sleep between retries ends, and every client times out,  *)
(* so an investigation always takes its next step or raises; the clock     *)
(* runs.  Nobody has to fail, and the process need not restart.            *)
(***************************************************************************)
FairSpec ==
    /\ Spec
    /\ \A r \in Runs : WF_vars(\E j \in jobs : j.run = r /\ JobStep(j))

\* get_watchdog_stats of services/admin_service.py.
WatchdogStats(t) ==
    LET logged(r, action) == {i \in DOMAIN audit[r] : failed[r] = t /\ audit[r][i].action = action}
        events(action) == UNION {{<<r, i>> : i \in logged(r, action)} : r \in Runs}
    IN  [succeeded_count |-> Cardinality(events("fixed")),
         exhausted_count |-> Cardinality(events("escalated")),
         skipped_count |-> Cardinality(events("skipped")),
         emails_sent_count |-> Cardinality(
             {p \in events("escalated") \X Admins : p[2] \in audit[p[1][1]][p[1][2]].notified})]

-----------------------------------------------------------------------------
TypeOK ==
    /\ since \in [Tenants -> 0..Cooldown]
    /\ jobs \subseteq Job
    /\ audit \in [Runs -> Seq(Event)]
    /\ failed \in [Runs -> Tenants \cup {None}]
    /\ tries \in [Runs -> Seq(BOOLEAN)]
    /\ mailed \in [Runs -> SUBSET Admins]
    /\ unseen \in [Runs -> SUBSET Admins]
    /\ starts \in [Tenants -> SUBSET (0..(Cooldown - 1))]
    /\ excuse \in [Runs -> BOOLEAN]

Pending(r) == \E j \in jobs : j.run = r

(***************************************************************************)
(* The audit log, read as an outcome per failure, implements Outcomes:     *)
(* one outcome each, that never changes, and none that stays open.         *)
(***************************************************************************)
Verdict(r) ==
    CASE failed[r] = None -> "none"
      [] failed[r] # None /\ Pending(r) -> IF audit[r] = <<>> THEN "open" ELSE "early"
      [] failed[r] # None /\ ~Pending(r) /\ audit[r] = <<>> -> "lost"
      [] OTHER -> IF Len(audit[r]) = 1 THEN audit[r][1].action ELSE "twice"

Verdicts == [r \in Runs |-> Verdict(r)]

Promise == INSTANCE Outcomes WITH verdict <- Verdicts

OneOutcomeEach == Promise!Spec

(***************************************************************************)
(* What an event says is what happened.  "fixed": the last retry, and only *)
(* it, succeeded, within MAX_AUTO_RETRIES, and nobody was mailed.           *)
(* "escalated": each of exactly MAX_AUTO_RETRIES retries failed, and the   *)
(* admins it counts as notified were all mailed and are all that were, but *)
(* for those whose mail SES took while its answer was lost.  "skipped":    *)
(* nothing was retried, nobody mailed.  No event: something went wrong.    *)
(***************************************************************************)
OnlyLast(s) == s # <<>> /\ \A i \in 1..Len(s) : s[i] <=> i = Len(s)

EventIsTrue(r, e) ==
    /\ e.action = "fixed" => OnlyLast(tries[r])
    /\ e.action = "escalated" => tries[r] = [i \in 1..MaxRetries |-> FALSE]
    /\ e.action = "skipped" => tries[r] = <<>>
    /\ e.action # "escalated" => mailed[r] = {}
    /\ e.notified = mailed[r] \ unseen[r]

EventsAreTrue ==
    \A r \in Runs :
        /\ \A i \in 1..Len(audit[r]) : EventIsTrue(r, audit[r][i])
        /\ Len(tries[r]) <= MaxRetries
        /\ failed[r] # None /\ ~Pending(r) /\ audit[r] = <<>> => excuse[r]

(***************************************************************************)
(* The numbers of the dashboard, which get_watchdog_stats counts from the  *)
(* log alone, are those of the investigations that came to their end: how  *)
(* many were fixed by a retry, given up or skipped, and how many mails SES *)
(* took and said so.  ("How many admins it actually reached",              *)
(* admin_service.py:420, may be more: see unseen.)                         *)
(***************************************************************************)
StatsAreTrue ==
    \A t \in Tenants :
        LET done == {r \in Runs : failed[r] = t /\ ~Pending(r) /\ ~excuse[r]}
            retried == {r \in done : tries[r] # <<>>}
            fixed == {r \in retried : \E i \in 1..Len(tries[r]) : tries[r][i]}
        IN  WatchdogStats(t) =
                [succeeded_count |-> Cardinality(fixed),
                 exhausted_count |-> Cardinality(retried \ fixed),
                 skipped_count |-> Cardinality(done \ retried),
                 emails_sent_count |-> Cardinality(
                     {p \in done \X Admins : p[2] \in mailed[p[1]] \ unseen[p[1]]})]

(***************************************************************************)
(* error_watchdog_service.py:38-41: "only the first failure starts an      *)
(* investigation", the rest are skipped.  Exactly: a failure is looked     *)
(* into if no investigation of its tenant started within the cooldown, and *)
(* it is skipped only if one did, so a flood of failures neither multiplies *)
(* the work nor silences the watchdog beyond the cooldown.                 *)
(***************************************************************************)
Decided(r, pc) ==
    \E j \in jobs, n \in jobs' :
        j.run = r /\ n.run = r /\ j.pc = "start" /\ n.pc = pc

CooldownIsExact ==
    [][\A r \in Runs :
        /\ Decided(r, "retry") => starts[failed[r]] = {}
        /\ Decided(r, "skip") => starts[failed[r]] # {}]_vars
=============================================================================
