------------------------------ MODULE Copilot ------------------------------
(***************************************************************************)
(* The admin co-pilot (services/copilot_service.py, POST /admin/copilot),  *)
(* the retry button of the dashboard (POST /admin/errors/{id}/retry) and   *)
(* the rating of answers (services/feedback_service.py), over the runs of  *)
(* LangSmith that Dashboard reads.                                         *)
(*                                                                         *)
(* A talk is one request.  The model decides which tools are called, so it *)
(* is a choice; each await of the code ends a step, and the talks of all   *)
(* admins interleave there.  The read-only tools differ only in what they  *)
(* return.                                                                 *)
(*                                                                         *)
(* Bounds: one talk of each admin, CallLists for what the model may ask    *)
(* for, MaxTraces runs, and MaxRatings ratings of runs.                    *)
(***************************************************************************)
EXTENDS Dashboard, SequencesExt

CONSTANTS
    Orgs,           \* the tenants
    Users,          \* who has ever asked
    Admins,
    Org,            \* [Admins -> Orgs]
    Histories,      \* the runs LangSmith may hold already
    Endings,        \* the tags a run may leave: [cache, sources]
    CallLists,      \* the tool calls one answer of the model may ask for
    KbConfigured,   \* settings.bedrock_kb_id is set
    MaxIterations,  \* MAX_TOOL_ITERATIONS
    MaxTraces,
    MaxRatings

Ids == 1..MaxTraces
Calls == [tool : {"read", "notify", "unknown"}] \cup [tool : {"retry"}, run : Ids \cup {None}]

\* One question through the chat pipeline, as LangSmith keeps it; a run may lack
\* its user, its end or the tags that only a finished answer gets.
Run == [tenant : Orgs, user : Users \cup {None}, query : DOMAIN Key, age : Int,
        latency : Nat \cup {None}, cost : Nat, error : BOOLEAN,
        cache : BOOLEAN \cup {None}, sources : Nat \cup {None}, scores : Seq(BOOLEAN)]

ASSUME CopilotAssumption ==
    /\ Admins \subseteq Users /\ Org \in [Admins -> Orgs]
    /\ Histories \subseteq Seq(Run)
    /\ Endings \subseteq [cache : BOOLEAN, sources : Nat]
    /\ MaxIterations \in Nat \ {0} /\ MaxTraces \in Nat /\ MaxRatings \in Nat
    /\ CallLists \subseteq Seq(Calls) \ {<<>>}
    /\ KbConfigured \in BOOLEAN

VARIABLES
    runs,       \* the runs in LangSmith, oldest first; the id of one is its place
    talk,       \* [Admins -> Talk]
    audit,      \* [Admins -> Seq(Effect)]: the audit events an admin's talk wrote
    effects,    \* history: [Admins -> Seq(Effect)], what the talk did
    unlogged    \* history: [Admins -> the places of effects without an event]

vars == <<runs, talk, audit, effects, unlogged>>

\* What retry_failed_query and notify_admin do, and how it ended.
Effect == [kind : {"retry", "email"}, run : Ids \cup {None}, ok : BOOLEAN]

\* An entry of actions_taken; the summary of a refused retry says so.
Action == Effect \cup [kind : {"retry"}, refused : Ids \cup {None}]

Pending(a) == Head(talk[a].calls)

Become(a, t) == talk' = [talk EXCEPT ![a] = t]

\* The call at the head is done: go on with the next one, or ask the model again.
AfterCall(t, actions) ==
    LET rest == Tail(t.calls) IN
    [t EXCEPT !.calls = rest, !.actions = @ \o actions,
              !.pc = CASE rest # <<>>                                -> "call"
                       [] rest = <<>> /\ t.rounds < MaxIterations    -> "model"
                       [] rest = <<>> /\ t.rounds >= MaxIterations   -> "answered"]

Raise(a) ==
    /\ Become(a, [talk[a] EXCEPT !.pc = "failed"])
    /\ UNCHANGED <<audit, effects>>

Init ==
    /\ runs \in Histories
    /\ talk = [a \in Admins |-> [pc |-> "idle", rounds |-> 0, calls |-> <<>>, actions |-> <<>>]]
    /\ audit = [a \in Admins |-> <<>>]
    /\ effects = [a \in Admins |-> <<>>]
    /\ unlogged = [a \in Admins |-> {}]

-----------------------------------------------------------------------------
Ask(a) ==
    /\ talk[a].pc = "idle"
    /\ Become(a, [talk[a] EXCEPT !.pc = "model"])
    /\ UNCHANGED <<runs, audit, effects, unlogged>>

\* Variant for fault injection: only an answer ends the loop.
ModelCallsUncounted(a) ==
    /\ talk[a].pc = "model"
    /\ \E calls \in CallLists : Become(a, [talk[a] EXCEPT !.pc = "call", !.calls = calls])
    /\ UNCHANGED <<runs, audit, effects, unlogged>>

ModelCalls(a) ==
    /\ talk[a].pc = "model"
    /\ \E calls \in CallLists :
           Become(a, [talk[a] EXCEPT !.pc = "call", !.calls = calls, !.rounds = @ + 1])
    /\ UNCHANGED <<runs, audit, effects, unlogged>>

ModelAnswers(a) ==
    /\ talk[a].pc = "model"
    /\ Become(a, [talk[a] EXCEPT !.pc = "answered"])
    /\ UNCHANGED <<runs, audit, effects, unlogged>>

\* A tool that only reads, or a name that is none.
ReadTool(a) ==
    /\ talk[a].pc = "call" /\ Pending(a).tool \in {"read", "unknown"}
    /\ Become(a, AfterCall(talk[a], <<>>))
    /\ UNCHANGED <<runs, audit, effects, unlogged>>

\* Variant for fault injection: the run is only looked for.
MayRetryAny(a, id) == id \in DOMAIN runs /\ KbConfigured

\* get_retry_inputs: the run exists and was the caller's tenant's.
MayRetry(a, id) == id \in DOMAIN runs /\ runs[id].tenant = Org[a] /\ KbConfigured

\* AdminError, or no knowledge base: nothing is run, the model is told.
RetryRefused(a) ==
    /\ talk[a].pc = "call" /\ Pending(a).tool = "retry"
    /\ ~MayRetry(a, Pending(a).run)
    /\ Become(a, AfterCall(talk[a], <<[kind |-> "retry", refused |-> Pending(a).run]>>))
    /\ UNCHANGED <<runs, audit, effects, unlogged>>

RetryBegins(a) ==
    /\ talk[a].pc = "call" /\ Pending(a).tool = "retry"
    /\ MayRetry(a, Pending(a).run) /\ Len(runs) < MaxTraces
    /\ Become(a, [talk[a] EXCEPT !.pc = "pipeline"])
    /\ UNCHANGED <<runs, audit, effects, unlogged>>

\* The runs a retry may add: the question again, as the admin.
NewRuns(a, id, error) ==
    {[tenant |-> Org[a], user |-> a, query |-> runs[id].query, age |-> 0, latency |-> 0,
      cost |-> 0, error |-> error, cache |-> e.cache, sources |-> e.sources, scores |-> <<>>] :
        e \in Endings}

\* run_pipeline_once; an answer of the guardrail is an answer.  Only a failure
\* that was raised is an error for LangSmith, not an "error" event.
Pipeline(a) ==
    /\ talk[a].pc = "pipeline"
    /\ \E r \in NewRuns(a, Pending(a).run, FALSE) : runs' = Append(runs, r)
    /\ \E ok \in BOOLEAN :
           effects' = [effects EXCEPT ![a] = Append(@, [kind |-> "retry", run |-> Pending(a).run, ok |-> ok])]
    /\ Become(a, [talk[a] EXCEPT !.pc = "log"])
    /\ UNCHANGED <<audit, unlogged>>

\* The embedding of the question raises outside every "error" event.
PipelineRaises(a) ==
    /\ talk[a].pc = "pipeline"
    /\ \E r \in NewRuns(a, Pending(a).run, TRUE) : runs' = Append(runs, r)
    /\ Raise(a)
    /\ UNCHANGED unlogged

\* The recipient is the caller; SES may refuse.  `ok` is what the sender saw: a mail
\* that SES took while its answer was lost counts as refused.
Notify(a) ==
    /\ talk[a].pc = "call" /\ Pending(a).tool = "notify"
    /\ \E ok \in BOOLEAN :
           effects' = [effects EXCEPT ![a] = Append(@, [kind |-> "email", run |-> None, ok |-> ok])]
    /\ Become(a, [talk[a] EXCEPT !.pc = "log"])
    /\ UNCHANGED <<runs, audit, unlogged>>

\* Variant for fault injection: only what succeeded is logged.
LogSuccess(a) ==
    /\ talk[a].pc = "log"
    /\ LET done == Last(effects[a]) IN
       /\ \/ /\ done.ok /\ audit' = [audit EXCEPT ![a] = Append(@, done)]
             /\ UNCHANGED unlogged
          \/ /\ ~done.ok /\ UNCHANGED <<audit, unlogged>>
       /\ Become(a, AfterCall(talk[a], <<done>>))
    /\ UNCHANGED <<runs, effects>>

\* Variant for fault injection: what failed is not told.
LogTellSuccess(a) ==
    /\ talk[a].pc = "log"
    /\ LET done == Last(effects[a]) IN
       /\ \/ /\ audit' = [audit EXCEPT ![a] = Append(@, done)]
             /\ UNCHANGED unlogged
          \/ /\ UNCHANGED audit
             /\ unlogged' = [unlogged EXCEPT ![a] = @ \cup {Len(effects[a])}]
       /\ Become(a, AfterCall(talk[a], IF done.ok THEN <<done>> ELSE <<>>))
    /\ UNCHANGED <<runs, effects>>

\* log_event is best effort; the summary goes to actions_taken either way.
Log(a) ==
    /\ talk[a].pc = "log"
    /\ LET done == Last(effects[a]) IN
       /\ \/ /\ audit' = [audit EXCEPT ![a] = Append(@, done)]
             /\ UNCHANGED unlogged
          \/ /\ UNCHANGED audit
             /\ unlogged' = [unlogged EXCEPT ![a] = @ \cup {Len(effects[a])}]
       /\ Become(a, AfterCall(talk[a], <<done>>))
    /\ UNCHANGED <<runs, effects>>

\* The model, LangSmith or the int() of an argument raises: no answer.
TalkFails(a) ==
    /\ \/ talk[a].pc = "model"
       \/ talk[a].pc = "call" /\ Pending(a).tool \in {"read", "retry"}
    /\ Raise(a)
    /\ UNCHANGED <<runs, unlogged>>

\* The process ends; an effect that is not logged yet never will be.
Restart ==
    /\ \E a \in Admins : talk[a].pc \notin {"idle", "answered", "failed"}
    /\ unlogged' = [a \in Admins |->
           IF talk[a].pc = "log" THEN unlogged[a] \cup {Len(effects[a])} ELSE unlogged[a]]
    /\ talk' = [a \in Admins |->
           IF talk[a].pc \in {"idle", "answered"} THEN talk[a] ELSE [talk[a] EXCEPT !.pc = "failed"]]
    /\ UNCHANGED <<runs, audit, effects>>

-----------------------------------------------------------------------------
\* The retry button: the same run, with neither an audit event nor a talk.
RetryButton(a) ==
    /\ Len(runs) < MaxTraces
    /\ \E id \in DOMAIN runs, error \in BOOLEAN :
           /\ MayRetry(a, id)
           /\ \E r \in NewRuns(a, id, error) : runs' = Append(runs, r)
    /\ UNCHANGED <<talk, audit, effects, unlogged>>

\* submit_feedback: anyone of the tenant rates a run of it, once more each time.
RateAnswer(t) ==
    /\ \E id \in DOMAIN runs, score \in BOOLEAN :
           /\ runs[id].tenant = t /\ Total([i \in DOMAIN runs |-> Len(runs[i].scores)]) < MaxRatings
           /\ runs' = [runs EXCEPT ![id].scores = Append(@, score)]
    /\ UNCHANGED <<talk, audit, effects, unlogged>>

TalkStep(a) ==
    \/ ModelCalls(a) \/ ModelAnswers(a) \/ ReadTool(a) \/ RetryRefused(a) \/ RetryBegins(a)
    \/ Pipeline(a) \/ PipelineRaises(a) \/ Notify(a) \/ Log(a) \/ TalkFails(a)

Next ==
    \/ \E a \in Admins : Ask(a) \/ TalkStep(a) \/ RetryButton(a) \/ RateAnswer(Org[a])
    \/ Restart

Spec == Init /\ [][Next]_vars

\* A request that runs goes on: its awaits return or raise.
FairSpec == Spec /\ \A a \in Admins : WF_vars(TalkStep(a))
-----------------------------------------------------------------------------
\* told is what s holds at the given places, and no more, in the order of s.
Tells(told, s, places) ==
    /\ Len(told) = Cardinality(places)
    /\ \A i \in places : told[Cardinality({j \in places : j <= i})] = s[i]

\* The effects whose event was written.
Logged(a) ==
    {i \in DOMAIN effects[a] :
        i \notin unlogged[a] /\ (talk[a].pc = "log" => i < Len(effects[a]))}

\* The entries of actions_taken that tell an effect: all but refused retries.
Done(actions) == {i \in DOMAIN actions : "ok" \in DOMAIN actions[i]}

(***************************************************************************)
(* The audit log tells the effects of a talk one by one, in order and with *)
(* their outcome, but for those whose put_item failed or whose process     *)
(* ended first; one that is still to be logged is the last.                *)
(***************************************************************************)
AuditTellsEffects == \A a \in Admins : Tells(audit[a], effects[a], Logged(a))

(***************************************************************************)
(* An answer names every retry and every mail of its talk, in order and    *)
(* with their outcome: actions_taken, less the retries that were refused.  *)
(***************************************************************************)
AnswerTellsEffects ==
    \A a \in Admins :
        talk[a].pc = "answered" => Tells(effects[a], talk[a].actions, Done(talk[a].actions))

(***************************************************************************)
(* Retries stay at home: a run that is added was asked in its organization *)
(* before, and who asks again is an admin of it (get_retry_inputs).        *)
(***************************************************************************)
RetriesStayHome ==
    [][Len(runs') > Len(runs) =>
           LET again == Last(runs') IN
           /\ again.user \in Admins /\ Org[again.user] = again.tenant
           /\ \E id \in DOMAIN runs : runs[id].tenant = again.tenant /\ runs[id].query = again.query]_vars

\* A question to the co-pilot comes to an end, whatever tools the model calls.
TalksEnd ==
    \A a \in Admins : talk[a].pc \notin {"idle", "answered", "failed"} ~> talk[a].pc \in {"answered", "failed"}

-----------------------------------------------------------------------------
(* What the panels of a tenant show, whatever the runs. *)
CONSTANTS Members, Days, Weeks, Limit

\* What the page asks for: the code takes any integer.
ASSUME PanelAssumption == Weeks \in Nat \ {0} /\ Limit \in Nat

Tenants == {Org[a] : a \in Admins}

(***************************************************************************)
(* The panels agree: per-user counts, costs and latencies add up to those  *)
(* of the organization, the histogram counts every latency once, in the    *)
(* bucket whose bounds hold it, and the percentiles do not cross.          *)
(***************************************************************************)
PanelsAgree ==
    \A t \in Tenants :
        LET stats == OrgStats(runs, t, Days)
            users == UserBreakdown(runs, t, Days)
            shown == MemberRows(runs, t, Days, Members)
            seconds == Latencies(runs, Window(runs, t, Days))
            lower(b) == IF b = 1 THEN 0 ELSE Edges[b - 1]
        IN  /\ stats.query_count = Total([u \in DOMAIN users |-> users[u].query_count])
            /\ stats.total_cost = Total([u \in DOMAIN users |-> users[u].total_cost])
            /\ stats.query_count = Total([u \in Members |-> shown[u].query_count])
                                 + Total([u \in DOMAIN users \ Members |-> users[u].query_count])
            /\ Cardinality(DOMAIN seconds) =
                   Total([u \in DOMAIN users |-> Cardinality(DOMAIN users[u].latencies)])
            /\ \A b \in DOMAIN stats.histogram :
                   stats.histogram[b] = Cardinality({i \in DOMAIN seconds :
                       lower(b) <= seconds[i] /\ (b <= Len(Edges) => seconds[i] < Edges[b])})
            /\ stats.latency.p50 <= stats.latency.p95 /\ stats.latency.p95 <= stats.latency.p99

(***************************************************************************)
(* Every run of the last weeks is in the bucket whose days hold it, but    *)
(* for one that started after the dashboard looked at its clock.           *)
(***************************************************************************)
TrendShowsAll ==
    \A t \in Tenants :
        LET trend == FeedbackTrend(runs, t, Weeks)
            rows == {i \in Window(runs, t, 7 * Weeks) : runs[i].age >= 0}
        IN  /\ Total([i \in DOMAIN trend |-> trend[i].query_count]) = Cardinality(rows)
            /\ \A i \in DOMAIN trend :
                   trend[i].query_count <= Cardinality({j \in rows :
                       trend[i].week_end <= runs[j].age /\ runs[j].age <= trend[i].week_start})

\* No panel drops, doubles or misplaces a run.
PanelsTellTheRuns == PanelsAgree /\ TrendShowsAll

(***************************************************************************)
(* The knowledge gaps are the questions asked without finding a source,    *)
(* each spelled in any way and counted once per run; none that is left out *)
(* was asked more often than one that is shown.                            *)
(***************************************************************************)
GapsAreGaps ==
    \A t \in Tenants :
        LET gaps == KnowledgeGaps(runs, t, Days, Limit)
            without(k) == Cardinality({i \in Window(runs, t, Days) :
                              runs[i].sources = 0 /\ Key[runs[i].query] = k})
        IN  /\ \A g, h \in gaps : g # h => Key[g.query] # Key[h.query]
            /\ \A g \in gaps : g.count = without(Key[g.query]) /\ g.count > 0
            /\ \A q \in DOMAIN Key :
                   Key[q] # Blank /\ (\A g \in gaps : Key[g.query] # Key[q]) =>
                       \/ without(Key[q]) = 0
                       \/ Cardinality(gaps) = Limit /\ \A g \in gaps : g.count >= without(Key[q])
=============================================================================
