---------------------------- MODULE CopilotProofs ----------------------------
(***************************************************************************)
(* Proofs about Copilot, for any admins, runs, tool calls and caps.        *)
(***************************************************************************)
EXTENDS Copilot, SequenceTheorems, FiniteSetTheorems, TLAPS

Places == {"idle", "model", "call", "pipeline", "log", "answered", "failed"}

Talk == [pc : Places, rounds : Nat, calls : Seq(Calls), actions : Seq(Action)]

TypeInv ==
    /\ runs \in Seq(Run)
    /\ talk \in [Admins -> Talk]
    /\ audit \in [Admins -> Seq(Effect)]
    /\ effects \in [Admins -> Seq(Effect)]
    /\ unlogged \in [Admins -> SUBSET Nat]

\* A tool that is being run was asked for.
CallWaits(a) == talk[a].pc \in {"call", "pipeline", "log"} => talk[a].calls # <<>>

\* A retry was allowed when it began, and it still is while the pipeline runs.
RetryIsAllowed(a) ==
    talk[a].pc = "pipeline" => Pending(a).tool = "retry" /\ MayRetry(a, Pending(a).run)

\* There is an effect to log, and it was not given up before.
EffectWaits(a) ==
    /\ unlogged[a] \subseteq 1..Len(effects[a])
    /\ talk[a].pc = "log" => effects[a] # <<>> /\ Len(effects[a]) \notin unlogged[a]

\* What was done, less an effect whose summary is still to come.
Settled(a) == IF talk[a].pc = "log" THEN Front(effects[a]) ELSE effects[a]

ActionsTell(a) ==
    talk[a].pc # "failed" => Tells(Settled(a), talk[a].actions, Done(talk[a].actions))

AuditTells(a) == Tells(audit[a], effects[a], Logged(a))

AdminInv(a) ==
    /\ CallWaits(a) /\ RetryIsAllowed(a) /\ EffectWaits(a)
    /\ ActionsTell(a) /\ AuditTells(a)

IInv == TypeInv /\ \A a \in Admins : AdminInv(a)
-----------------------------------------------------------------------------
(***************************************************************************)
(* Sequences that tell what another holds at some places.                  *)
(***************************************************************************)

\* The rank of a place among some of the first n places.
LEMMA PlacesHaveRanks ==
    ASSUME NEW n \in Nat, NEW S \in SUBSET (1..n), NEW i \in S
    PROVE  /\ IsFiniteSet(S) /\ Cardinality(S) \in Nat
           /\ Cardinality({j \in S : j <= i}) \in 1..Cardinality(S)
<1>1. IsFiniteSet(1..n)
  <2>1. 1 \in Int /\ n \in Int
    OBVIOUS
  <2> QED
    BY <2>1, FS_Interval
<1>2. IsFiniteSet(S)
  BY <1>1, FS_Subset
<1>3. {j \in S : j <= i} \subseteq S /\ i \in {j \in S : j <= i}
  OBVIOUS
<1>4. /\ IsFiniteSet({j \in S : j <= i}) /\ IsFiniteSet({i})
      /\ Cardinality({j \in S : j <= i}) <= Cardinality(S)
      /\ Cardinality({i}) <= Cardinality({j \in S : j <= i})
  BY <1>2, <1>3, FS_Subset, FS_Singleton
<1>5. Cardinality({i}) = 1
  BY FS_Singleton
<1>6. Cardinality(S) \in Nat /\ Cardinality({j \in S : j <= i}) \in Nat
  BY <1>2, <1>4, FS_CardinalityType
<1> QED
  BY <1>2, <1>4, <1>5, <1>6

\* One more entry tells one more place, after all others.
LEMMA TellsOneMore ==
    ASSUME NEW T, NEW told \in Seq(T), NEW s, NEW n \in Nat, NEW S \in SUBSET (1..n),
           NEW e \in T, s[n + 1] = e, Tells(told, s, S)
    PROVE  Tells(Append(told, e), s, S \cup {n + 1})
<1> DEFINE more == S \cup {n + 1}
<1>1. IsFiniteSet(S) /\ Cardinality(S) \in Nat
  <2>1. CASE S = {}
    BY <2>1, FS_EmptySet
  <2>2. CASE S # {}
    BY <2>2, PlacesHaveRanks
  <2> QED
    BY <2>1, <2>2
<1>2. Cardinality(more) = Cardinality(S) + 1
  <2>1. n + 1 \notin S
    OBVIOUS
  <2> QED
    BY <1>1, <2>1, FS_AddElement
<1>3. Len(Append(told, e)) = Cardinality(more)
  BY <1>2 DEF Tells
<1>4. ASSUME NEW i \in S
      PROVE  Append(told, e)[Cardinality({j \in more : j <= i})] = s[i]
  <2>1. {j \in more : j <= i} = {j \in S : j <= i}
    OBVIOUS
  <2>2. Cardinality({j \in S : j <= i}) \in 1..Cardinality(S) /\ Len(told) = Cardinality(S)
    BY PlacesHaveRanks DEF Tells
  <2>3. told[Cardinality({j \in S : j <= i})] = s[i]
    BY DEF Tells
  <2>4. \A k \in 1..Len(told) : Append(told, e)[k] = told[k]
    OBVIOUS
  <2> HIDE DEF more
  <2> QED
    BY <2>1, <2>2, <2>3, <2>4
<1>5. Append(told, e)[Cardinality({j \in more : j <= n + 1})] = s[n + 1]
  <2>1. \A j \in more : j <= n + 1
    OBVIOUS
  <2>2. Cardinality(more) = Len(told) + 1
    BY <1>2 DEF Tells
  <2>3. Append(told, e)[Len(told) + 1] = e
    OBVIOUS
  <2> HIDE DEF more
  <2>4. {j \in more : j <= n + 1} = more
    BY <2>1
  <2> QED
    BY <2>2, <2>3, <2>4
<1> QED
  BY <1>3, <1>4, <1>5 DEF Tells

\* What is told depends on those places only.
LEMMA TellsTheSame ==
    ASSUME NEW told, NEW s, NEW t, NEW S, \A i \in S : s[i] = t[i], Tells(told, s, S)
    PROVE  Tells(told, t, S)
BY DEF Tells

\* Front, as Append undoes it.
LEMMA Fronts ==
    ASSUME NEW T, NEW s \in Seq(T), s # <<>>
    PROVE  /\ Front(s) \in Seq(T) /\ Len(Front(s)) = Len(s) - 1
           /\ Last(s) \in T /\ Last(s) = s[Len(s)]
           /\ Append(Front(s), Last(s)) = s
<1>1. Len(s) \in Nat \ {0} /\ Len(s) - 1 \in Nat
  OBVIOUS
<1>2. Last(s) \in T /\ Last(s) = s[Len(s)]
  BY <1>1 DEF Last
<1>3. /\ Front(s) \in Seq(T) /\ Len(Front(s)) = Len(s) - 1
      /\ \A i \in 1..(Len(s) - 1) : Front(s)[i] = s[i]
  BY <1>1 DEF Front
<1> HIDE DEF Front, Last
<1>4. /\ Append(Front(s), Last(s)) \in Seq(T) /\ Len(Append(Front(s), Last(s))) = Len(s)
      /\ \A i \in 1..Len(s) : Append(Front(s), Last(s))[i] = s[i]
  BY <1>1, <1>2, <1>3
<1> QED
  BY <1>2, <1>3, <1>4, SeqEqual

LEMMA FrontOfAppend ==
    ASSUME NEW T, NEW s \in Seq(T), NEW e \in T
    PROVE  Front(Append(s, e)) = s /\ Last(Append(s, e)) = e
<1>1. /\ Append(s, e) \in Seq(T) /\ Len(Append(s, e)) = Len(s) + 1
      /\ \A i \in 1..Len(s) : Append(s, e)[i] = s[i]
      /\ Append(s, e)[Len(s) + 1] = e
  OBVIOUS
<1>2. /\ Front(Append(s, e)) \in Seq(T) /\ Len(Front(Append(s, e))) = Len(s)
      /\ \A i \in 1..Len(s) : Front(Append(s, e))[i] = s[i]
  BY <1>1 DEF Front
<1>3. Front(Append(s, e)) = s
  BY <1>2, SeqEqual
<1> QED
  BY <1>1, <1>3 DEF Last

-----------------------------------------------------------------------------
(***************************************************************************)
(* What actions_taken tells.                                               *)
(***************************************************************************)
Refused == [kind : {"retry"}, refused : Ids \cup {None}]

LEMMA OnlyEffectsAreDone ==
    /\ \A e \in Effect : e \in Action /\ "ok" \in DOMAIN e
    /\ \A r \in Refused : r \in Action /\ "ok" \notin DOMAIN r
<1>1. \A e \in Effect : DOMAIN e = {"kind", "run", "ok"}
  BY DEF Effect
<1>2. \A r \in Refused : DOMAIN r = {"kind", "refused"}
  BY DEF Refused
<1>3. \A r \in Refused : "ok" \notin DOMAIN r
  BY <1>2
<1> QED
  BY <1>1, <1>3 DEF Action, Refused

LEMMA DoneOfAppend ==
    ASSUME NEW acts \in Seq(Action), NEW e \in Action
    PROVE  /\ Append(acts, e) \in Seq(Action)
           /\ Done(acts) \subseteq 1..Len(acts)
           /\ \A i \in 1..Len(acts) : Append(acts, e)[i] = acts[i]
           /\ Append(acts, e)[Len(acts) + 1] = e
           /\ Done(Append(acts, e)) =
                  IF "ok" \in DOMAIN e THEN Done(acts) \cup {Len(acts) + 1} ELSE Done(acts)
<1>1. /\ Append(acts, e) \in Seq(Action)
      /\ DOMAIN acts = 1..Len(acts) /\ Len(acts) \in Nat
      /\ DOMAIN Append(acts, e) = 1..(Len(acts) + 1)
      /\ \A i \in 1..Len(acts) : Append(acts, e)[i] = acts[i]
      /\ Append(acts, e)[Len(acts) + 1] = e
  OBVIOUS
<1>2. 1..(Len(acts) + 1) = 1..Len(acts) \cup {Len(acts) + 1}
  BY <1>1
<1>3. CASE "ok" \in DOMAIN e
  BY <1>1, <1>2, <1>3, Zenon DEF Done
<1>4. CASE "ok" \notin DOMAIN e
  BY <1>1, <1>2, <1>4, Zenon DEF Done
<1> QED
  BY <1>1, <1>3, <1>4 DEF Done

\* An effect that is summed up is told.
LEMMA SummariesTell ==
    ASSUME NEW es \in Seq(Effect), NEW acts \in Seq(Action), NEW e \in Effect,
           Tells(es, acts, Done(acts))
    PROVE  Tells(Append(es, e), Append(acts, e), Done(Append(acts, e)))
<1>1. e \in Action /\ "ok" \in DOMAIN e
  BY OnlyEffectsAreDone
<1>2. /\ Done(acts) \subseteq 1..Len(acts) /\ Len(acts) \in Nat
      /\ \A i \in 1..Len(acts) : Append(acts, e)[i] = acts[i]
      /\ Append(acts, e)[Len(acts) + 1] = e
      /\ Done(Append(acts, e)) = Done(acts) \cup {Len(acts) + 1}
  BY <1>1, DoneOfAppend
<1>3. Tells(es, Append(acts, e), Done(acts))
  BY <1>2, TellsTheSame
<1> DEFINE n == Len(acts)  more == Append(acts, e)  S == Done(acts)
<1>4. n \in Nat /\ S \in SUBSET (1..n) /\ more[n + 1] = e /\ Tells(es, more, S)
  BY <1>2, <1>3
<1> HIDE DEF n, more, S
<1>5. Tells(Append(es, e), more, S \cup {n + 1})
  BY <1>4, TellsOneMore
<1> QED
  BY <1>2, <1>5 DEF n, more, S

\* A refusal tells no effect.
LEMMA RefusalsTellNothing ==
    ASSUME NEW es \in Seq(Effect), NEW acts \in Seq(Action), NEW r \in Refused,
           Tells(es, acts, Done(acts))
    PROVE  Tells(es, Append(acts, r), Done(Append(acts, r)))
<1>1. r \in Action /\ "ok" \notin DOMAIN r
  BY OnlyEffectsAreDone
<1>2. /\ Done(acts) \subseteq 1..Len(acts)
      /\ \A i \in 1..Len(acts) : Append(acts, r)[i] = acts[i]
      /\ Done(Append(acts, r)) = Done(acts)
  BY <1>1, DoneOfAppend
<1> QED
  BY <1>2, TellsTheSame

\* What AfterCall makes of a talk.
LEMMA CallsEnd ==
    ASSUME NEW t \in Talk, t.calls # <<>>, NEW acts \in Seq(Action)
    PROVE  /\ AfterCall(t, acts) \in Talk
           /\ AfterCall(t, acts).actions = t.actions \o acts
           /\ AfterCall(t, acts).pc \in {"call", "model", "answered"}
           /\ AfterCall(t, acts).pc = "call" => AfterCall(t, acts).calls # <<>>
<1> DEFINE rest == Tail(t.calls)
           next == CASE rest # <<>>                                -> "call"
                     [] rest = <<>> /\ t.rounds < MaxIterations    -> "model"
                     [] rest = <<>> /\ t.rounds >= MaxIterations   -> "answered"
<1>1. /\ t.calls \in Seq(Calls) /\ t.actions \in Seq(Action) /\ t.rounds \in Nat
      /\ t = [pc |-> t.pc, rounds |-> t.rounds, calls |-> t.calls, actions |-> t.actions]
  BY DEF Talk
<1>2. rest \in Seq(Calls) /\ t.actions \o acts \in Seq(Action)
  BY <1>1
<1>3. /\ next \in {"call", "model", "answered"}
      /\ next = "call" => rest # <<>>
  <2>1. t.rounds < MaxIterations \/ t.rounds >= MaxIterations
    BY <1>1, CopilotAssumption
  <2>2. CASE rest # <<>>
    BY <2>2
  <2>3. CASE rest = <<>> /\ t.rounds < MaxIterations
    BY <2>3, <1>1, CopilotAssumption
  <2>4. CASE rest = <<>> /\ t.rounds >= MaxIterations
    BY <2>4, <1>1, CopilotAssumption
  <2> QED
    BY <2>1, <2>2, <2>3, <2>4
<1>4. AfterCall(t, acts) = [t EXCEPT !.calls = rest, !.actions = t.actions \o acts, !.pc = next]
  BY DEF AfterCall
<1> HIDE DEF rest, next
<1>5. AfterCall(t, acts) = [pc |-> next, rounds |-> t.rounds, calls |-> rest, actions |-> t.actions \o acts]
  BY <1>1, <1>4
<1> QED
  BY <1>1, <1>2, <1>3, <1>5 DEF Talk, Places

-----------------------------------------------------------------------------
(***************************************************************************)
(* The invariant holds at first, and what a step leaves alone keeps it.    *)
(***************************************************************************)
LEMMA InitIInv == Init => IInv
<1> SUFFICES ASSUME Init PROVE IInv
  OBVIOUS
<1>1. TypeInv
  BY CopilotAssumption DEF Init, TypeInv, Talk, Places
<1>2. ASSUME NEW a \in Admins PROVE AdminInv(a)
  <2>1. /\ talk[a].pc = "idle" /\ talk[a].actions = <<>>
        /\ audit[a] = <<>> /\ effects[a] = <<>> /\ unlogged[a] = {}
    BY DEF Init
  <2>2. Cardinality({}) = 0 /\ Len(<<>>) = 0 /\ DOMAIN <<>> = {}
    BY FS_EmptySet
  <2>3. Done(talk[a].actions) = {} /\ Logged(a) = {}
    BY <2>1, <2>2 DEF Done, Logged
  <2> QED
    BY <2>1, <2>2, <2>3 DEF AdminInv, CallWaits, RetryIsAllowed, EffectWaits, ActionsTell,
        AuditTells, Settled, Tells
<1> QED
  BY <1>1, <1>2 DEF IInv

\* No step takes a run away or gives it to another tenant.
RunsKept == \A id \in DOMAIN runs : id \in DOMAIN runs' /\ runs'[id].tenant = runs[id].tenant

LEMMA OthersKeep ==
    ASSUME NEW b \in Admins, AdminInv(b), RunsKept,
           talk'[b] = talk[b], audit'[b] = audit[b],
           effects'[b] = effects[b], unlogged'[b] = unlogged[b]
    PROVE  AdminInv(b)'
<1>1. Logged(b)' = Logged(b) /\ Settled(b)' = Settled(b)
  BY DEF Logged, Settled
<1>2. RetryIsAllowed(b)'
  BY DEF AdminInv, RetryIsAllowed, Pending, MayRetry, RunsKept
<1> QED
  BY <1>1, <1>2 DEF AdminInv, CallWaits, EffectWaits, ActionsTell, AuditTells

LEMMA OneAdminActs ==
    ASSUME IInv, NEW a \in Admins, TypeInv', RunsKept, AdminInv(a)',
           \A b \in Admins \ {a} : /\ talk'[b] = talk[b] /\ audit'[b] = audit[b]
                                   /\ effects'[b] = effects[b] /\ unlogged'[b] = unlogged[b]
    PROVE  IInv'
BY OthersKeep DEF IInv

LEMMA RunsStay == ASSUME runs' = runs PROVE RunsKept
BY DEF RunsKept

LEMMA RunsGrow ==
    ASSUME runs \in Seq(Run), NEW r \in Run, runs' = Append(runs, r)
    PROVE  /\ RunsKept /\ runs' \in Seq(Run)
           /\ Len(runs') = Len(runs) + 1 /\ Last(runs') = r
<1>1. /\ Append(runs, r) \in Seq(Run) /\ Len(Append(runs, r)) = Len(runs) + 1
      /\ DOMAIN Append(runs, r) = 1..(Len(runs) + 1) /\ DOMAIN runs = 1..Len(runs)
      /\ \A i \in 1..Len(runs) : Append(runs, r)[i] = runs[i]
  OBVIOUS
<1>2. Last(Append(runs, r)) = r
  BY FrontOfAppend
<1>3. Len(runs) \in Nat /\ 1..Len(runs) \subseteq 1..(Len(runs) + 1)
  OBVIOUS
<1> QED
  BY <1>1, <1>2, <1>3, Zenon DEF RunsKept

\* What a retry adds is a run of its admin's tenant, and asks the same again.
LEMMA RetriesAreRuns ==
    ASSUME TypeInv, NEW a \in Admins, NEW id \in DOMAIN runs, NEW error \in BOOLEAN,
           NEW r \in NewRuns(a, id, error)
    PROVE  /\ r \in Run /\ r.user = a /\ r.tenant = Org[a] /\ r.query = runs[id].query
<1>1. runs[id] \in Run
  BY DEF TypeInv
<1>2. runs[id].query \in DOMAIN Key
  BY <1>1 DEF Run
<1>3. PICK e \in Endings :
        r = [tenant |-> Org[a], user |-> a, query |-> runs[id].query, age |-> 0, latency |-> 0,
             cost |-> 0, error |-> error, cache |-> e.cache, sources |-> e.sources, scores |-> <<>>]
  BY DEF NewRuns
<1>4. e.cache \in BOOLEAN /\ e.sources \in Nat /\ a \in Users /\ Org[a] \in Orgs
  BY CopilotAssumption
<1>5. <<>> \in Seq(BOOLEAN) /\ 0 \in Nat /\ 0 \in Int
  OBVIOUS
<1> HIDE DEF NewRuns
<1>6. r \in Run
  BY <1>2, <1>3, <1>4, <1>5 DEF Run
<1> QED
  BY <1>3, <1>6

-----------------------------------------------------------------------------
(***************************************************************************)
(* The steps of a talk.                                                    *)
(***************************************************************************)

\* A talk that neither has an effect nor tells of one.
LEMMA TalkGoesOn ==
    ASSUME IInv, NEW a \in Admins, NEW t \in Talk, Become(a, t),
           talk[a].pc \notin {"failed", "log"}, t.pc # "log",
           UNCHANGED <<audit, effects, unlogged>>, runs' \in Seq(Run), RunsKept,
           t.pc \in {"call", "pipeline"} => t.calls # <<>>,
           t.pc = "pipeline" => Head(t.calls).tool = "retry" /\ MayRetry(a, Head(t.calls).run),
           t.pc # "failed" => Tells(effects[a], t.actions, Done(t.actions))
    PROVE  IInv'
<1>1. talk'[a] = t /\ talk' \in [Admins -> Talk] /\ \A b \in Admins \ {a} : talk'[b] = talk[b]
  BY DEF Become, IInv, TypeInv
<1>2. TypeInv'
  BY <1>1 DEF IInv, TypeInv
<1>3. AdminInv(a)
  BY DEF IInv
<1>4. CallWaits(a)' /\ EffectWaits(a)'
  BY <1>1, <1>3 DEF AdminInv, CallWaits, EffectWaits
<1>5. RetryIsAllowed(a)'
  BY <1>1 DEF RetryIsAllowed, Pending, MayRetry, RunsKept
<1>6. ActionsTell(a)'
  BY <1>1 DEF ActionsTell, Settled
<1>7. AuditTells(a)'
  <2>1. Logged(a)' = Logged(a)
    BY <1>1 DEF Logged
  <2> QED
    BY <1>3, <2>1 DEF AdminInv, AuditTells
<1>8. AdminInv(a)'
  BY <1>4, <1>5, <1>6, <1>7 DEF AdminInv
<1> QED
  BY <1>1, <1>2, <1>8, OneAdminActs

\* What a talk has told so far, while no effect waits.
LEMMA ToldSoFar ==
    ASSUME IInv, NEW a \in Admins, talk[a].pc \notin {"failed", "log"}
    PROVE  /\ talk[a] \in Talk /\ effects[a] \in Seq(Effect)
           /\ talk[a].actions \in Seq(Action) /\ talk[a].calls \in Seq(Calls)
           /\ Tells(effects[a], talk[a].actions, Done(talk[a].actions))
BY DEF IInv, TypeInv, Talk, AdminInv, ActionsTell, Settled

\* The run that is to be retried.
LEMMA RetriedRun ==
    ASSUME NEW a \in Admins, talk[a].calls \in Seq(Calls), talk[a].calls # <<>>,
           Pending(a).tool = "retry"
    PROVE  Pending(a).run \in Ids \cup {None}
<1>1. Pending(a) \in Calls
  BY DEF Pending
<1>2. \A c \in [tool : {"read", "notify", "unknown"}] : c.tool # "retry"
  OBVIOUS
<1>3. Pending(a) \in [tool : {"retry"}, run : Ids \cup {None}]
  BY <1>1, <1>2 DEF Calls
<1> QED
  BY <1>3

\* The fields of a talk that changes.
LEMMA TalkFields ==
    ASSUME NEW t \in Talk, NEW pc \in Places
    PROVE  /\ [t EXCEPT !.pc = pc] \in Talk
           /\ [t EXCEPT !.pc = pc].pc = pc
           /\ [t EXCEPT !.pc = pc].calls = t.calls
           /\ [t EXCEPT !.pc = pc].actions = t.actions
BY DEF Talk

AskedFor(t, calls) == [t EXCEPT !.pc = "call", !.calls = calls, !.rounds = @ + 1]

LEMMA TalkAsksForTools ==
    ASSUME NEW t \in Talk, NEW calls \in Seq(Calls)
    PROVE  /\ AskedFor(t, calls) \in Talk /\ AskedFor(t, calls).pc = "call"
           /\ AskedFor(t, calls).calls = calls /\ AskedFor(t, calls).actions = t.actions
<1> DEFINE n == t.rounds + 1
<1>1. n \in Nat
  BY DEF Talk
<1>2. AskedFor(t, calls) = [t EXCEPT !.pc = "call", !.calls = calls, !.rounds = n]
  BY DEF Talk, AskedFor
<1> HIDE DEF n
<1> QED
  BY <1>1, <1>2 DEF Talk, Places

LEMMA AskKeeps == ASSUME IInv, NEW a \in Admins, Ask(a) PROVE IInv'
<1> DEFINE t == [talk[a] EXCEPT !.pc = "model"]
<1>1. talk[a].pc = "idle" /\ Become(a, t) /\ UNCHANGED <<runs, audit, effects, unlogged>>
  BY DEF Ask
<1>2. "model" \in Places
  BY DEF Places
<1>3. t \in Talk /\ t.pc = "model" /\ t.actions = talk[a].actions
  BY <1>1, <1>2, ToldSoFar, TalkFields
<1>4. runs' \in Seq(Run) /\ RunsKept
  BY <1>1, RunsStay DEF IInv, TypeInv
<1> HIDE DEF t
<1> QED
  BY <1>1, <1>3, <1>4, ToldSoFar, TalkGoesOn

LEMMA ModelCallsKeeps == ASSUME IInv, NEW a \in Admins, ModelCalls(a) PROVE IInv'
<1>1. PICK calls \in CallLists : Become(a, AskedFor(talk[a], calls))
  BY DEF ModelCalls, AskedFor
<1> DEFINE t == AskedFor(talk[a], calls)
<1>2. talk[a].pc = "model" /\ Become(a, t) /\ UNCHANGED <<runs, audit, effects, unlogged>>
  BY <1>1 DEF ModelCalls
<1>3. calls \in Seq(Calls) /\ calls # <<>>
  BY CopilotAssumption
<1>4. t \in Talk /\ t.pc = "call" /\ t.calls = calls /\ t.actions = talk[a].actions
  BY <1>2, <1>3, ToldSoFar, TalkAsksForTools
<1>5. runs' \in Seq(Run) /\ RunsKept
  BY <1>2, RunsStay DEF IInv, TypeInv
<1> HIDE DEF t
<1> QED
  BY <1>2, <1>3, <1>4, <1>5, ToldSoFar, TalkGoesOn

LEMMA ModelAnswersKeeps == ASSUME IInv, NEW a \in Admins, ModelAnswers(a) PROVE IInv'
<1> DEFINE t == [talk[a] EXCEPT !.pc = "answered"]
<1>1. talk[a].pc = "model" /\ Become(a, t) /\ UNCHANGED <<runs, audit, effects, unlogged>>
  BY DEF ModelAnswers
<1>2. "answered" \in Places
  BY DEF Places
<1>3. t \in Talk /\ t.pc = "answered" /\ t.actions = talk[a].actions
  BY <1>1, <1>2, ToldSoFar, TalkFields
<1>4. runs' \in Seq(Run) /\ RunsKept
  BY <1>1, RunsStay DEF IInv, TypeInv
<1> HIDE DEF t
<1> QED
  BY <1>1, <1>3, <1>4, ToldSoFar, TalkGoesOn

LEMMA ReadToolKeeps == ASSUME IInv, NEW a \in Admins, ReadTool(a) PROVE IInv'
<1> DEFINE t == AfterCall(talk[a], <<>>)
<1>1. talk[a].pc = "call" /\ Become(a, t) /\ UNCHANGED <<runs, audit, effects, unlogged>>
  BY DEF ReadTool
<1>2. talk[a].calls # <<>>
  BY <1>1 DEF IInv, AdminInv, CallWaits
<1>3. <<>> \in Seq(Action) /\ talk[a].actions \o <<>> = talk[a].actions
  BY <1>1, ToldSoFar
<1>4. /\ t \in Talk /\ t.actions = talk[a].actions
      /\ t.pc \in {"call", "model", "answered"}
      /\ t.pc = "call" => t.calls # <<>>
  BY <1>1, <1>2, <1>3, ToldSoFar, CallsEnd
<1>5. runs' \in Seq(Run) /\ RunsKept
  BY <1>1, RunsStay DEF IInv, TypeInv
<1> HIDE DEF t
<1> QED
  BY <1>1, <1>4, <1>5, ToldSoFar, TalkGoesOn

LEMMA RetryRefusedKeeps == ASSUME IInv, NEW a \in Admins, RetryRefused(a) PROVE IInv'
<1> DEFINE no == [kind |-> "retry", refused |-> Pending(a).run]
           t == AfterCall(talk[a], <<no>>)
<1>1. /\ talk[a].pc = "call" /\ Pending(a).tool = "retry"
      /\ Become(a, t) /\ UNCHANGED <<runs, audit, effects, unlogged>>
  BY DEF RetryRefused
<1>2. talk[a].calls # <<>>
  BY <1>1 DEF IInv, AdminInv, CallWaits
<1>3. no \in Refused
  BY <1>1, <1>2, ToldSoFar, RetriedRun DEF Refused
<1>4. no \in Action
  BY <1>3, OnlyEffectsAreDone
<1> HIDE DEF no
<1>5. <<no>> \in Seq(Action) /\ talk[a].actions \o <<no>> = Append(talk[a].actions, no)
  BY <1>1, <1>4, ToldSoFar, AppendIsConcat
<1>6. /\ t \in Talk /\ t.actions = Append(talk[a].actions, no)
      /\ t.pc \in {"call", "model", "answered"}
      /\ t.pc = "call" => t.calls # <<>>
  BY <1>1, <1>2, <1>5, ToldSoFar, CallsEnd
<1>7. Tells(effects[a], t.actions, Done(t.actions))
  BY <1>1, <1>3, <1>6, ToldSoFar, RefusalsTellNothing
<1>8. runs' \in Seq(Run) /\ RunsKept
  BY <1>1, RunsStay DEF IInv, TypeInv
<1> HIDE DEF t
<1> QED
  BY <1>1, <1>6, <1>7, <1>8, TalkGoesOn

LEMMA RetryBeginsKeeps == ASSUME IInv, NEW a \in Admins, RetryBegins(a) PROVE IInv'
<1> DEFINE t == [talk[a] EXCEPT !.pc = "pipeline"]
<1>1. /\ talk[a].pc = "call" /\ Pending(a).tool = "retry" /\ MayRetry(a, Pending(a).run)
      /\ Become(a, t) /\ UNCHANGED <<runs, audit, effects, unlogged>>
  BY DEF RetryBegins
<1>2. "pipeline" \in Places
  BY DEF Places
<1>3. /\ t \in Talk /\ t.pc = "pipeline"
      /\ t.calls = talk[a].calls /\ t.actions = talk[a].actions
  BY <1>1, <1>2, ToldSoFar, TalkFields
<1>4. t.calls # <<>> /\ Head(t.calls).tool = "retry" /\ MayRetry(a, Head(t.calls).run)
  BY <1>1, <1>3 DEF IInv, AdminInv, CallWaits, Pending
<1>5. runs' \in Seq(Run) /\ RunsKept
  BY <1>1, RunsStay DEF IInv, TypeInv
<1> HIDE DEF t
<1> QED
  BY <1>1, <1>3, <1>4, <1>5, ToldSoFar, TalkGoesOn

LEMMA RaiseKeeps ==
    ASSUME IInv, NEW a \in Admins, Raise(a), UNCHANGED unlogged,
           talk[a].pc \notin {"failed", "log"}, runs' \in Seq(Run), RunsKept
    PROVE  IInv'
<1> DEFINE t == [talk[a] EXCEPT !.pc = "failed"]
<1>1. Become(a, t) /\ UNCHANGED <<audit, effects>>
  BY DEF Raise
<1>2. "failed" \in Places
  BY DEF Places
<1>3. t \in Talk /\ t.pc = "failed"
  BY <1>2, ToldSoFar, TalkFields
<1> HIDE DEF t
<1> QED
  BY <1>1, <1>3, TalkGoesOn

LEMMA TalkFailsKeeps == ASSUME IInv, NEW a \in Admins, TalkFails(a) PROVE IInv'
BY RaiseKeeps, RunsStay DEF TalkFails, IInv, TypeInv

LEMMA PipelineRaisesKeeps == ASSUME IInv, NEW a \in Admins, PipelineRaises(a) PROVE IInv'
<1>1. talk[a].pc = "pipeline" /\ Raise(a) /\ UNCHANGED unlogged
  BY DEF PipelineRaises
<1>2. PICK r \in NewRuns(a, Pending(a).run, TRUE) : runs' = Append(runs, r)
  BY DEF PipelineRaises
<1>3. Pending(a).run \in DOMAIN runs
  BY <1>1 DEF IInv, AdminInv, RetryIsAllowed, MayRetry
<1>4. r \in Run
  BY <1>3, RetriesAreRuns DEF IInv
<1> QED
  BY <1>1, <1>2, <1>4, RunsGrow, RaiseKeeps DEF IInv, TypeInv

(***************************************************************************)
(* An effect: a retry that was run, or a mail.  It waits to be logged.     *)
(***************************************************************************)
LEMMA EffectHappens ==
    ASSUME IInv, NEW a \in Admins, talk[a].pc \in {"call", "pipeline"}, NEW e \in Effect,
           effects' = [effects EXCEPT ![a] = Append(@, e)],
           Become(a, [talk[a] EXCEPT !.pc = "log"]),
           UNCHANGED <<audit, unlogged>>, runs' \in Seq(Run), RunsKept
    PROVE  IInv'
<1> DEFINE t == [talk[a] EXCEPT !.pc = "log"]
           es == Append(effects[a], e)
<1>1. "log" \in Places
  BY DEF Places
<1>2. /\ t \in Talk /\ t.pc = "log"
      /\ t.calls = talk[a].calls /\ t.actions = talk[a].actions
  BY <1>1, ToldSoFar, TalkFields
<1>3. /\ effects[a] \in Seq(Effect) /\ es \in Seq(Effect) /\ es # <<>>
      /\ Len(effects[a]) \in Nat /\ Len(es) = Len(effects[a]) + 1
      /\ DOMAIN effects[a] = 1..Len(effects[a]) /\ DOMAIN es = 1..(Len(effects[a]) + 1)
      /\ \A i \in 1..Len(effects[a]) : es[i] = effects[a][i]
  <2>1. effects[a] \in Seq(Effect)
    BY ToldSoFar
  <2> QED
    BY <2>1
<1>4. Front(es) = effects[a]
  BY <1>3, FrontOfAppend
<1> HIDE DEF t
<1>5. /\ talk'[a] = t /\ talk' \in [Admins -> Talk]
      /\ effects'[a] = es /\ effects' \in [Admins -> Seq(Effect)]
      /\ \A b \in Admins \ {a} : talk'[b] = talk[b] /\ effects'[b] = effects[b]
  BY <1>2, <1>3 DEF Become, IInv, TypeInv, t
<1> HIDE DEF es
<1>6. TypeInv'
  BY <1>5 DEF IInv, TypeInv
<1>7. AdminInv(a)
  BY DEF IInv
<1>8. CallWaits(a)' /\ RetryIsAllowed(a)'
  BY <1>2, <1>5, <1>7 DEF AdminInv, CallWaits, RetryIsAllowed
<1>9. EffectWaits(a)'
  BY <1>3, <1>5, <1>7 DEF AdminInv, EffectWaits
<1>10. ActionsTell(a)'
  BY <1>2, <1>4, <1>5, ToldSoFar DEF ActionsTell, Settled
<1>11. AuditTells(a)'
  <2>1. Logged(a)' = Logged(a) /\ Logged(a) \subseteq 1..Len(effects[a])
    BY <1>2, <1>3, <1>5 DEF Logged
  <2>2. Tells(audit[a], effects[a], Logged(a))
    BY <1>7 DEF AdminInv, AuditTells
  <2>3. Tells(audit[a], es, Logged(a))
    BY <1>3, <2>1, <2>2, TellsTheSame
  <2> QED
    BY <1>5, <2>1, <2>3 DEF AuditTells
<1>12. AdminInv(a)'
  BY <1>8, <1>9, <1>10, <1>11 DEF AdminInv
<1> QED
  BY <1>5, <1>6, <1>12, OneAdminActs

LEMMA NotifyKeeps == ASSUME IInv, NEW a \in Admins, Notify(a) PROVE IInv'
<1>1. PICK ok \in BOOLEAN :
        effects' = [effects EXCEPT ![a] = Append(@, [kind |-> "email", run |-> None, ok |-> ok])]
  BY DEF Notify
<1>2. [kind |-> "email", run |-> None, ok |-> ok] \in Effect
  BY DEF Effect
<1> QED
  BY <1>1, <1>2, EffectHappens, RunsStay DEF Notify, IInv, TypeInv

LEMMA PipelineKeeps == ASSUME IInv, NEW a \in Admins, Pipeline(a) PROVE IInv'
<1>1. /\ talk[a].pc = "pipeline" /\ Become(a, [talk[a] EXCEPT !.pc = "log"])
      /\ UNCHANGED <<audit, unlogged>>
  BY DEF Pipeline
<1>2. PICK r \in NewRuns(a, Pending(a).run, FALSE) : runs' = Append(runs, r)
  BY DEF Pipeline
<1>3. PICK ok \in BOOLEAN :
        effects' = [effects EXCEPT ![a] =
            Append(@, [kind |-> "retry", run |-> Pending(a).run, ok |-> ok])]
  BY DEF Pipeline
<1>4. Pending(a).run \in DOMAIN runs /\ Pending(a).tool = "retry"
  BY <1>1 DEF IInv, AdminInv, RetryIsAllowed, MayRetry
<1>5. r \in Run
  BY <1>4, RetriesAreRuns DEF IInv
<1>6. talk[a].calls # <<>>
  BY <1>1 DEF IInv, AdminInv, CallWaits
<1>7. [kind |-> "retry", run |-> Pending(a).run, ok |-> ok] \in Effect
  BY <1>1, <1>4, <1>6, ToldSoFar, RetriedRun DEF Effect
<1>8. runs' \in Seq(Run) /\ RunsKept
  BY <1>2, <1>5, RunsGrow DEF IInv, TypeInv
<1> HIDE DEF NewRuns
<1> QED
  BY <1>1, <1>3, <1>7, <1>8, EffectHappens

(***************************************************************************)
(* The summary of an effect, with or without its event.                    *)
(***************************************************************************)
LEMMA LogKeeps == ASSUME IInv, NEW a \in Admins, Log(a) PROVE IInv'
<1> DEFINE es == effects[a]
           done == Last(es)
           n == Len(es) - 1
           t == AfterCall(talk[a], <<done>>)
<1>1. talk[a].pc = "log" /\ Become(a, t) /\ UNCHANGED <<runs, effects>>
  BY DEF Log
<1>2. AdminInv(a) /\ talk[a] \in Talk /\ es \in Seq(Effect) /\ audit[a] \in Seq(Effect)
      /\ unlogged[a] \subseteq Nat
  BY DEF IInv, TypeInv
<1>3. talk[a].calls # <<>> /\ es # <<>> /\ n + 1 \notin unlogged[a] /\ unlogged[a] \subseteq 1..(n + 1)
  BY <1>1, <1>2 DEF AdminInv, CallWaits, EffectWaits
<1>4. /\ n \in Nat /\ Len(es) = n + 1 /\ DOMAIN es = 1..(n + 1)
      /\ done \in Effect /\ done = es[n + 1]
      /\ Front(es) \in Seq(Effect) /\ Append(Front(es), done) = es
  BY <1>2, <1>3, Fronts
<1>5. done \in Action /\ talk[a].actions \in Seq(Action)
  BY <1>2, <1>4, OnlyEffectsAreDone DEF Talk
<1> HIDE DEF done, n
<1>6. <<done>> \in Seq(Action) /\ talk[a].actions \o <<done>> = Append(talk[a].actions, done)
  BY <1>5, AppendIsConcat
<1>7. /\ t \in Talk /\ t.actions = Append(talk[a].actions, done)
      /\ t.pc \in {"call", "model", "answered"}
      /\ t.pc = "call" => t.calls # <<>>
  BY <1>2, <1>3, <1>6, CallsEnd
<1> HIDE DEF t
<1>8. Tells(es, t.actions, Done(t.actions))
  <2>1. Tells(Front(es), talk[a].actions, Done(talk[a].actions))
    BY <1>1, <1>2 DEF AdminInv, ActionsTell, Settled
  <2> QED
    BY <1>4, <1>5, <1>7, <2>1, SummariesTell
<1>9. /\ talk'[a] = t /\ talk' \in [Admins -> Talk]
      /\ \A b \in Admins \ {a} : talk'[b] = talk[b]
  BY <1>1, <1>7 DEF Become, IInv, TypeInv
<1>10. CallWaits(a)' /\ RetryIsAllowed(a)' /\ ActionsTell(a)'
  <2>1. ActionsTell(a)'
    BY <1>1, <1>7, <1>8, <1>9 DEF ActionsTell, Settled
  <2> QED
    BY <1>7, <1>9, <2>1 DEF CallWaits, RetryIsAllowed
<1>11. RunsKept
  BY <1>1, RunsStay
<1> DEFINE L == Logged(a)
<1>12. L = {i \in 1..n : i \notin unlogged[a]} /\ Tells(audit[a], es, L)
  <2>1. L = {i \in 1..(n + 1) : i \notin unlogged[a] /\ i < n + 1}
    BY <1>1, <1>4 DEF Logged
  <2>2. L = {i \in 1..n : i \notin unlogged[a]}
    BY <1>4, <2>1
  <2> QED
    BY <1>2, <2>2 DEF AdminInv, AuditTells
<1>13. CASE audit' = [audit EXCEPT ![a] = Append(@, done)] /\ UNCHANGED unlogged
  <2>1. /\ audit'[a] = Append(audit[a], done) /\ audit' \in [Admins -> Seq(Effect)]
        /\ \A b \in Admins \ {a} : audit'[b] = audit[b]
    BY <1>2, <1>4, <1>13 DEF IInv, TypeInv
  <2>2. Logged(a)' = {i \in 1..(n + 1) : i \notin unlogged[a]}
    BY <1>1, <1>4, <1>7, <1>9, <1>13 DEF Logged
  <2>3. Logged(a)' = L \cup {n + 1}
    BY <1>3, <1>4, <1>12, <2>2
  <2>4. Tells(Append(audit[a], done), es, L \cup {n + 1})
    <3>1. L \in SUBSET (1..n) /\ es[n + 1] = done
      BY <1>4, <1>12
    <3> HIDE DEF L, es
    <3> QED
      BY <1>2, <1>4, <1>12, <3>1, TellsOneMore
  <2>5. AuditTells(a)'
    BY <1>1, <2>1, <2>3, <2>4 DEF AuditTells
  <2>6. EffectWaits(a)'
    BY <1>1, <1>2, <1>7, <1>9, <1>13 DEF AdminInv, EffectWaits
  <2>7. TypeInv'
    BY <1>1, <1>9, <1>13, <2>1 DEF IInv, TypeInv
  <2> QED
    BY <1>1, <1>9, <1>10, <1>11, <1>13, <2>1, <2>5, <2>6, <2>7, OneAdminActs DEF AdminInv
<1>14. CASE UNCHANGED audit /\ unlogged' = [unlogged EXCEPT ![a] = @ \cup {Len(es)}]
  <2>1. /\ unlogged'[a] = unlogged[a] \cup {n + 1} /\ unlogged' \in [Admins -> SUBSET Nat]
        /\ \A b \in Admins \ {a} : unlogged'[b] = unlogged[b]
    BY <1>2, <1>4, <1>14 DEF IInv, TypeInv
  <2>2. Logged(a)' = {i \in 1..(n + 1) : i \notin unlogged[a] \cup {n + 1}}
    BY <1>1, <1>4, <1>7, <1>9, <2>1 DEF Logged
  <2>3. Logged(a)' = L
    BY <1>4, <1>12, <2>2
  <2>4. AuditTells(a)'
    BY <1>1, <1>12, <1>14, <2>3 DEF AuditTells
  <2>5. EffectWaits(a)'
    BY <1>1, <1>3, <1>4, <1>7, <1>9, <2>1 DEF EffectWaits
  <2>6. TypeInv'
    BY <1>1, <1>9, <1>14, <2>1 DEF IInv, TypeInv
  <2> QED
    BY <1>1, <1>9, <1>10, <1>11, <1>14, <2>1, <2>4, <2>5, <2>6, OneAdminActs DEF AdminInv
<1> QED
  BY <1>13, <1>14 DEF Log, done

-----------------------------------------------------------------------------
(***************************************************************************)
(* The steps beside the talks.                                             *)
(***************************************************************************)
LEMMA RestartKeeps == ASSUME IInv, Restart PROVE IInv'
<1>1. /\ UNCHANGED <<runs, audit, effects>>
      /\ \A b \in Admins :
             /\ unlogged'[b] = IF talk[b].pc = "log" THEN unlogged[b] \cup {Len(effects[b])}
                               ELSE unlogged[b]
             /\ talk'[b] = IF talk[b].pc \in {"idle", "answered"} THEN talk[b]
                           ELSE [talk[b] EXCEPT !.pc = "failed"]
  BY DEF Restart
<1>2. \A b \in Admins : effects[b] \in Seq(Effect) /\ unlogged[b] \subseteq Nat /\ talk[b] \in Talk
  BY DEF IInv, TypeInv
<1>3. \A b \in Admins : unlogged'[b] \in SUBSET Nat
  <2> TAKE b \in Admins
  <2>1. effects[b] \in Seq(Effect) /\ unlogged[b] \subseteq Nat
    BY <1>2
  <2>2. Len(effects[b]) \in Nat
    BY <2>1
  <2> QED
    BY <1>1, <2>1, <2>2
<1>4. "failed" \in Places
  BY DEF Places
<1>5. \A b \in Admins :
          /\ talk'[b] \in Talk /\ talk'[b].pc \in {"idle", "answered", "failed"}
          /\ talk'[b].pc # "failed" => talk'[b] = talk[b]
          /\ talk'[b] = talk[b] => talk[b].pc \in {"idle", "answered", "failed"}
  <2> TAKE b \in Admins
  <2>1. CASE talk[b].pc \in {"idle", "answered"}
    BY <1>1, <1>2, <2>1
  <2>2. CASE talk[b].pc \notin {"idle", "answered"}
    <3>1. talk'[b] = [talk[b] EXCEPT !.pc = "failed"] /\ talk[b] \in Talk
      BY <1>1, <1>2, <2>2
    <3>2. talk'[b] \in Talk /\ talk'[b].pc = "failed"
      BY <1>4, <3>1, TalkFields
    <3>3. talk'[b] = talk[b] => talk[b].pc = "failed"
      BY <3>2
    <3> QED
      BY <3>2, <3>3
  <2> QED
    BY <2>1, <2>2
<1>6. TypeInv'
  <2>1. talk' \in [Admins -> Talk] /\ unlogged' \in [Admins -> SUBSET Nat]
    BY <1>3, <1>5 DEF Restart
  <2> QED
    BY <1>1, <2>1 DEF IInv, TypeInv
<1>7. ASSUME NEW b \in Admins PROVE AdminInv(b)'
  <2>1. AdminInv(b)
    BY DEF IInv
  <2>2. CallWaits(b)' /\ RetryIsAllowed(b)'
    BY <1>5 DEF CallWaits, RetryIsAllowed
  <2>3. EffectWaits(b)'
    <3>1. unlogged[b] \subseteq 1..Len(effects[b])
      BY <2>1 DEF AdminInv, EffectWaits
    <3>2. ASSUME talk[b].pc = "log" PROVE Len(effects[b]) \in 1..Len(effects[b])
      <4>1. effects[b] \in Seq(Effect) /\ effects[b] # <<>>
        BY <1>2, <2>1, <3>2 DEF AdminInv, EffectWaits
      <4> QED
        BY <4>1
    <3>3. unlogged'[b] \subseteq 1..Len(effects[b])
      BY <1>1, <3>1, <3>2
    <3> QED
      BY <1>1, <1>5, <3>3 DEF EffectWaits
  <2>4. ActionsTell(b)'
    <3>1. CASE talk'[b].pc = "failed"
      BY <3>1 DEF ActionsTell
    <3>2. CASE talk'[b].pc # "failed"
      BY <1>1, <1>5, <2>1, <3>2 DEF AdminInv, ActionsTell, Settled
    <3> QED
      BY <3>1, <3>2
  <2>5. AuditTells(b)'
    <3>1. DOMAIN effects[b] = 1..Len(effects[b]) /\ Len(effects[b]) \in Nat
      BY <1>2
    <3>2. Logged(b)' = {i \in DOMAIN effects[b] : i \notin unlogged'[b]}
      BY <1>1, <1>5 DEF Logged
    <3>3. ASSUME talk[b].pc = "log" PROVE Logged(b)' = Logged(b)
      <4>1. unlogged'[b] = unlogged[b] \cup {Len(effects[b])}
        BY <1>1, <3>3
      <4>2. \A i \in DOMAIN effects[b] : i < Len(effects[b]) <=> i # Len(effects[b])
        BY <3>1
      <4> QED
        BY <3>2, <3>3, <4>1, <4>2 DEF Logged
    <3>4. ASSUME talk[b].pc # "log" PROVE Logged(b)' = Logged(b)
      <4>1. unlogged'[b] = unlogged[b]
        BY <1>1, <3>4
      <4> QED
        BY <3>2, <3>4, <4>1 DEF Logged
    <3>5. Logged(b)' = Logged(b)
      BY <3>3, <3>4
    <3> QED
      BY <1>1, <2>1, <3>5 DEF AdminInv, AuditTells
  <2> QED
    BY <2>2, <2>3, <2>4, <2>5 DEF AdminInv
<1> QED
  BY <1>6, <1>7 DEF IInv

\* Runs come and are rated, whoever talks.
LEMMA OnlyRunsChange ==
    ASSUME IInv, runs' \in Seq(Run), RunsKept, UNCHANGED <<talk, audit, effects, unlogged>>
    PROVE  IInv'
BY OthersKeep DEF IInv, TypeInv

\* What the retry button adds.
LEMMA ButtonRuns ==
    ASSUME IInv, NEW a \in Admins, RetryButton(a)
    PROVE  \E id \in DOMAIN runs, error \in BOOLEAN :
               MayRetry(a, id) /\ \E r \in NewRuns(a, id, error) : runs' = Append(runs, r)
BY DEF RetryButton

LEMMA RetryButtonKeeps == ASSUME IInv, NEW a \in Admins, RetryButton(a) PROVE IInv'
<1>0. PICK id \in DOMAIN runs, error \in BOOLEAN :
        \E r \in NewRuns(a, id, error) : runs' = Append(runs, r)
  BY ButtonRuns
<1>1. PICK r \in NewRuns(a, id, error) : runs' = Append(runs, r)
  BY <1>0
<1>2. r \in Run
  BY RetriesAreRuns DEF IInv
<1>3. runs' \in Seq(Run) /\ RunsKept
  BY <1>1, <1>2, RunsGrow DEF IInv, TypeInv
<1> QED
  BY <1>3, OnlyRunsChange DEF RetryButton

LEMMA RatingsKeepRuns ==
    ASSUME IInv, NEW t, RateAnswer(t)
    PROVE  runs' \in Seq(Run) /\ RunsKept /\ Len(runs') = Len(runs)
<1>1. PICK id \in DOMAIN runs, score \in BOOLEAN :
        runs' = [runs EXCEPT ![id].scores = Append(@, score)]
  BY DEF RateAnswer
<1>2. runs \in Seq(Run) /\ runs[id] \in Run
  BY DEF IInv, TypeInv
<1> DEFINE r == [runs[id] EXCEPT !.scores = Append(runs[id].scores, score)]
<1>3. Append(runs[id].scores, score) \in Seq(BOOLEAN)
  BY <1>2 DEF Run
<1>4. r \in Run /\ r.tenant = runs[id].tenant
  BY <1>2, <1>3 DEF Run
<1>5. runs' = [runs EXCEPT ![id] = r]
  BY <1>1
<1> HIDE DEF r
<1>6. runs' \in Seq(Run) /\ Len(runs') = Len(runs) /\ DOMAIN runs' = DOMAIN runs
  BY <1>2, <1>4, <1>5
<1> QED
  BY <1>2, <1>4, <1>5, <1>6 DEF RunsKept

LEMMA RateAnswerKeeps == ASSUME IInv, NEW t, RateAnswer(t) PROVE IInv'
BY RatingsKeepRuns, OnlyRunsChange DEF RateAnswer

LEMMA StutterKeeps == ASSUME IInv, UNCHANGED vars PROVE IInv'
BY RunsStay, OnlyRunsChange DEF vars, IInv, TypeInv

LEMMA NextKeeps == ASSUME IInv, [Next]_vars PROVE IInv'
<1>1. ASSUME NEW a \in Admins, TalkStep(a) PROVE IInv'
  BY <1>1, ModelCallsKeeps, ModelAnswersKeeps, ReadToolKeeps, RetryRefusedKeeps, RetryBeginsKeeps,
     PipelineKeeps, PipelineRaisesKeeps, NotifyKeeps, LogKeeps, TalkFailsKeeps DEF TalkStep
<1>2. ASSUME NEW a \in Admins, Ask(a) \/ RetryButton(a) \/ RateAnswer(Org[a]) PROVE IInv'
  BY <1>2, AskKeeps, RetryButtonKeeps, RateAnswerKeeps
<1> QED
  BY <1>1, <1>2, RestartKeeps, StutterKeeps DEF Next

LEMMA InvariantHolds == Spec => []IInv
<1>1. IInv /\ [Next]_vars => IInv'
  BY NextKeeps
<1> QED
  BY InitIInv, <1>1, PTL DEF Spec
-----------------------------------------------------------------------------
\* The runs, talks, events and effects keep their types.
THEOREM CopilotIsTyped == Spec => []TypeInv
<1>1. IInv => TypeInv
  BY DEF IInv
<1> QED
  BY <1>1, InvariantHolds, PTL

(***************************************************************************)
(* The audit log tells every retry and mail of a talk in order, but those  *)
(* whose event was lost (log_event in _tool_retry_failed_query and         *)
(* _tool_notify_admin), whatever the tools, failures and restarts.         *)
(***************************************************************************)
THEOREM TheLogTellsEffects == Spec => []AuditTellsEffects
<1>1. IInv => AuditTellsEffects
  BY DEF IInv, AdminInv, AuditTells, AuditTellsEffects
<1> QED
  BY <1>1, InvariantHolds, PTL

(***************************************************************************)
(* actions_taken of an answer names every retry and mail of the talk, in   *)
(* order and with its outcome (run_copilot).                               *)
(***************************************************************************)
THEOREM TheAnswerTellsEffects == Spec => []AnswerTellsEffects
<1>1. IInv => AnswerTellsEffects
  BY DEF IInv, AdminInv, ActionsTell, Settled, AnswerTellsEffects
<1> QED
  BY <1>1, InvariantHolds, PTL

(***************************************************************************)
(* A run that is added was asked in its organization before, by an admin   *)
(* of it now, though a retry runs long after get_retry_inputs allowed it.  *)
(***************************************************************************)
THEOREM RetriesKeepToTheirTenant == Spec => RetriesStayHome
<1> DEFINE Home == Len(runs') > Len(runs) =>
               LET again == Last(runs') IN
               /\ again.user \in Admins /\ Org[again.user] = again.tenant
               /\ \E id \in DOMAIN runs :
                      runs[id].tenant = again.tenant /\ runs[id].query = again.query
<1>1. ASSUME IInv, NEW a \in Admins, NEW id \in DOMAIN runs, MayRetry(a, id),
             NEW error \in BOOLEAN, NEW r \in NewRuns(a, id, error), runs' = Append(runs, r)
      PROVE  Home
  <2>1. r \in Run /\ r.user = a /\ r.tenant = Org[a] /\ r.query = runs[id].query
    BY <1>1, RetriesAreRuns DEF IInv
  <2>2. Last(runs') = r
    BY <1>1, <2>1, RunsGrow DEF IInv, TypeInv
  <2>3. runs[id].tenant = Org[a]
    BY <1>1 DEF MayRetry
  <2> QED
    BY <2>1, <2>2, <2>3
<1>2. ASSUME IInv, runs' = runs \/ Len(runs') = Len(runs) PROVE Home
  <2>1. Len(runs) \in Nat
    BY <1>2 DEF IInv, TypeInv
  <2> QED
    BY <1>2, <2>1
<1>3. ASSUME IInv, NEW a \in Admins, Pipeline(a) \/ PipelineRaises(a) PROVE Home
  <2>1. talk[a].pc = "pipeline"
    BY <1>3 DEF Pipeline, PipelineRaises
  <2>2. MayRetry(a, Pending(a).run) /\ Pending(a).run \in DOMAIN runs
    BY <1>3, <2>1 DEF IInv, AdminInv, RetryIsAllowed, MayRetry
  <2>3. \E error \in BOOLEAN : \E r \in NewRuns(a, Pending(a).run, error) : runs' = Append(runs, r)
    BY <1>3 DEF Pipeline, PipelineRaises
  <2> HIDE DEF Home
  <2> QED
    BY <1>3, <2>2, <2>3, <1>1
<1>4. ASSUME IInv, NEW a \in Admins, RetryButton(a) PROVE Home
  <2> HIDE DEF Home
  <2> QED
    BY <1>1, <1>4, ButtonRuns
<1>5. ASSUME IInv, NEW a \in Admins, RateAnswer(Org[a]) PROVE Home
  BY <1>2, <1>5, RatingsKeepRuns
<1>6. ASSUME NEW a \in Admins,
             \/ Ask(a) \/ ModelCalls(a) \/ ModelAnswers(a) \/ ReadTool(a) \/ RetryRefused(a)
             \/ RetryBegins(a) \/ Notify(a) \/ Log(a) \/ TalkFails(a)
      PROVE  runs' = runs
  BY <1>6 DEF Ask, ModelCalls, ModelAnswers, ReadTool, RetryRefused, RetryBegins, Notify, Log, TalkFails
<1>7. ASSUME Restart \/ UNCHANGED vars PROVE runs' = runs
  BY <1>7 DEF Restart, vars
<1> HIDE DEF Home
<1>8. IInv /\ [Next]_vars => Home
  BY <1>2, <1>3, <1>4, <1>5, <1>6, <1>7 DEF Next, TalkStep
<1>9. IInv /\ [Next]_vars => [Home]_vars
  BY <1>8
<1>10. Spec => [][Home]_vars
  BY <1>9, InvariantHolds, PTL DEF Spec
<1> QED
  BY <1>10 DEF RetriesStayHome, Home

-----------------------------------------------------------------------------
(***************************************************************************)
(* Numbers.  The theorems on induction take an operator, so an induction   *)
(* is made by its least counterexample.                                    *)
(***************************************************************************)
LEMMA LeastNumber ==
    ASSUME NEW T, T \subseteq Nat, T # {}
    PROVE  \E x \in T : \A y \in T : x <= y
<1> DEFINE R == {p \in Nat \X Nat : p[1] < p[2]}
<1>1. R = OpToRel(<, Nat)
  BY DEF OpToRel
<1>2. IsWellFoundedOn(R, Nat)
  BY <1>1, NatLessThanWellFounded
<1> HIDE DEF R
<1>3. PICK x \in T : \A y \in T : ~(<<y, x>> \in R)
  BY <1>2, WFMin
<1>4. \A y \in T : ~(y < x)
  BY <1>3 DEF R
<1> QED
  BY <1>4

\* A finite set of integers has ends: the one fewest lie beyond.
LEMMA LeastOfFinite ==
    ASSUME NEW S, S \subseteq Int, S # {}, IsFiniteSet(S)
    PROVE  \E x \in S : \A y \in S : x <= y
<1> DEFINE below(x) == {y \in S : y < x}
           T == {n \in Nat : \E x \in S : n = Cardinality(below(x))}
<1>1. \A x \in S : IsFiniteSet(below(x)) /\ Cardinality(below(x)) \in Nat
  BY FS_Subset, FS_CardinalityType
<1>2. T # {} /\ T \subseteq Nat
  BY <1>1
<1>3. PICK n \in T : \A m \in T : n <= m
  BY <1>2, LeastNumber
<1>4. PICK x \in S : n = Cardinality(below(x))
  BY <1>3
<1>5. ASSUME NEW y \in S, y < x PROVE FALSE
  <2>0. \A z \in S : z \in Int
    OBVIOUS
  <2>1. y \in below(x) /\ y \notin below(y)
    BY <1>5, <2>0
  <2>3. below(y) \subseteq below(x)
    <3>1. ASSUME NEW z \in S, z < y PROVE z < x
      BY <1>5, <2>0, <3>1
    <3> QED
      BY <3>1
  <2>2. Cardinality(below(y)) <= Cardinality(below(x)) /\ Cardinality(below(y)) # Cardinality(below(x))
    BY <1>1, <2>1, <2>3, FS_Subset
  <2>4. n <= Cardinality(below(y))
    BY <1>1, <1>3
  <2> QED
    BY <1>1, <1>4, <2>2, <2>4
<1> QED
  BY <1>5

LEMMA GreatestOfFinite ==
    ASSUME NEW S, S \subseteq Int, S # {}, IsFiniteSet(S)
    PROVE  \E x \in S : \A y \in S : y <= x
<1> DEFINE f == [x \in S |-> -x]
           T == {-x : x \in S}
<1>1. f \in Surjection(S, T)
  BY DEF Surjection
<1>2. IsFiniteSet(T)
  BY <1>1, FS_Surjection
<1>0. T \subseteq Int /\ T # {}
  <2>1. \A x \in S : -x \in Int
    OBVIOUS
  <2> QED
    BY <2>1
<1>3. PICK t \in T : \A u \in T : t <= u
  <2> HIDE DEF T
  <2> QED
    BY <1>0, <1>2, LeastOfFinite
<1>4. PICK x \in S : t = -x
  BY <1>3
<1>5. ASSUME NEW y \in S PROVE y <= x
  <2>0. x \in Int /\ y \in Int
    OBVIOUS
  <2>1. -x <= -y
    BY <1>3, <1>4
  <2> QED
    BY <2>0, <2>1
<1> QED
  BY <1>5

LEMMA CountsGrow ==
    ASSUME NEW S, IsFiniteSet(S), NEW A, A \subseteq S, NEW B, B \subseteq A
    PROVE  /\ IsFiniteSet(A) /\ IsFiniteSet(B)
           /\ Cardinality(A) \in Nat /\ Cardinality(B) \in Nat
           /\ Cardinality(B) <= Cardinality(A)
           /\ Cardinality(B) = Cardinality(A) => A = B
<1>1. IsFiniteSet(A)
  BY FS_Subset
<1> QED
  BY <1>1, FS_Subset, FS_CardinalityType

LEMMA CountsByBijection ==
    ASSUME NEW S, IsFiniteSet(S), NEW T, NEW m \in [S -> T],
           \A x, y \in S : m[x] = m[y] => x = y,
           \A t \in T : \E x \in S : m[x] = t
    PROVE  IsFiniteSet(T) /\ Cardinality(T) = Cardinality(S)
<1>1. m \in Bijection(S, T)
  BY DEF Bijection, Injection, Surjection, IsInjective
<1> QED
  BY <1>1, FS_Bijection DEF ExistsBijection

-----------------------------------------------------------------------------
(***************************************************************************)
(* Sums.                                                                   *)
(***************************************************************************)
Units(f) == UNION {{x} \X (1..f[x]) : x \in DOMAIN f}

LEMMA UnitsOf ==
    ASSUME NEW S, NEW f \in [S -> Nat]
    PROVE  \A z : z \in Units(f) <=> \E x \in S : \E n \in 1..f[x] : z = <<x, n>>
BY DEF Units

LEMMA UnitsFinite ==
    ASSUME NEW S, IsFiniteSet(S), NEW f \in [S -> Nat]
    PROVE  IsFiniteSet(Units(f)) /\ Total(f) \in Nat /\ Total(f) = Cardinality(Units(f))
<1> DEFINE T == {{x} \X (1..f[x]) : x \in S}
           m == [x \in S |-> {x} \X (1..f[x])]
<1>1. m \in Surjection(S, T)
  BY DEF Surjection
<1>2. IsFiniteSet(T)
  BY <1>1, FS_Surjection
<1>3. ASSUME NEW x \in S PROVE IsFiniteSet({x} \X (1..f[x]))
  <2>1. IsFiniteSet({x}) /\ IsFiniteSet(1..f[x])
    <3>1. 1 \in Int /\ f[x] \in Int
      OBVIOUS
    <3> QED
      BY <3>1, FS_Singleton, FS_Interval
  <2> QED
    BY <2>1, FS_Product
<1>4. Units(f) = UNION T
  BY DEF Units
<1>5. IsFiniteSet(Units(f))
  <2> HIDE DEF m
  <2>1. \A X \in T : IsFiniteSet(X)
    BY <1>3
  <2> HIDE DEF T
  <2> QED
    BY <1>2, <1>4, <2>1, FS_UNION
<1>6. Total(f) = Cardinality(Units(f))
  BY DEF Total, Units
<1> QED
  BY <1>5, <1>6, FS_CardinalityType

Part(S, p, u) == {x \in S : p[x] = u}

\* Every element counts in exactly one part.
LEMMA TotalOfParts ==
    ASSUME NEW S, IsFiniteSet(S), NEW U, NEW p \in [S -> U], NEW f \in [U -> Nat],
           \A u \in U : f[u] = Cardinality(Part(S, p, u))
    PROVE  Total(f) = Cardinality(S) /\ IsFiniteSet(Units(f))
<1> DEFINE part(u) == {x \in S : p[x] = u}
<1>0. \A u : Part(S, p, u) = part(u)
  BY DEF Part
<1>1. \A u \in U : \E g : g \in Bijection(part(u), 1..f[u])
  <2> SUFFICES ASSUME NEW u \in U PROVE \E g : g \in Bijection(part(u), 1..f[u])
    OBVIOUS
  <2>1. IsFiniteSet(part(u)) /\ f[u] = Cardinality(part(u)) /\ f[u] \in Nat
    BY <1>0, FS_Subset
  <2>2. IsFiniteSet(1..f[u]) /\ Cardinality(1..f[u]) = f[u]
    BY <2>1, FS_Interval
  <2>3. ExistsBijection(part(u), 1..f[u])
    BY <2>1, <2>2, FS_SameCardinalityBij
  <2> QED
    BY <2>3 DEF ExistsBijection
<1> DEFINE b == [u \in U |-> CHOOSE g : g \in Bijection(part(u), 1..f[u])]
<1>2. ASSUME NEW u \in U PROVE b[u] \in Bijection(part(u), 1..f[u])
  BY <1>1
<1> DEFINE m == [x \in S |-> <<p[x], b[p[x]][x]>>]
<1>3. ASSUME NEW x \in S PROVE b[p[x]][x] \in 1..f[p[x]]
  BY <1>2 DEF Bijection, Injection
<1>4. m \in [S -> Units(f)]
  BY <1>3, UnitsOf
<1>5. ASSUME NEW x \in S, NEW y \in S, m[x] = m[y] PROVE x = y
  <2>1. p[x] = p[y] /\ b[p[x]][x] = b[p[y]][y]
    BY <1>5
  <2>2. x \in part(p[x]) /\ y \in part(p[x])
    BY <2>1
  <2>3. b[p[x]] \in Bijection(part(p[x]), 1..f[p[x]])
    BY <1>2
  <2> HIDE DEF b, m, part
  <2> QED
    BY <2>1, <2>2, <2>3 DEF Bijection, Injection, IsInjective
<1>6. ASSUME NEW z \in Units(f) PROVE \E x \in S : m[x] = z
  <2>1. PICK u \in U : \E n \in 1..f[u] : z = <<u, n>>
    BY UnitsOf
  <2>0. PICK n \in 1..f[u] : z = <<u, n>>
    BY <2>1
  <2>2. b[u] \in Bijection(part(u), 1..f[u])
    BY <1>2
  <2>3. PICK x \in part(u) : b[u][x] = n
    <3> HIDE DEF b, m, part
    <3> QED
      BY <2>2 DEF Bijection, Surjection
  <2> QED
    BY <2>0, <2>3
<1> HIDE DEF m
<1>7. Cardinality(Units(f)) = Cardinality(S) /\ IsFiniteSet(Units(f))
  BY <1>4, <1>5, <1>6, CountsByBijection
<1> QED
  BY <1>7 DEF Total, Units

\* What a function leaves out counts nothing.
LEMMA TotalSplits ==
    ASSUME NEW U, NEW f \in [U -> Nat], IsFiniteSet(Units(f)),
           NEW M, NEW g \in [M -> Nat],
           \A u \in M : u \in U => g[u] = f[u], \A u \in M : u \notin U => g[u] = 0,
           NEW V, V = U \ M
    PROVE  Total(f) = Total(g) + Total(Restrict(f, V))
<1> DEFINE h == Restrict(f, V)
<1>0. h = [u \in U \ M |-> f[u]]
  BY DEF Restrict
<1> HIDE DEF h
<1>1. h \in [U \ M -> Nat]
  BY <1>0
<1>2. Units(f) = Units(g) \cup Units(h)
  <2>1. ASSUME NEW z \in Units(f) PROVE z \in Units(g) \cup Units(h)
    <3>1. PICK u \in U : \E n \in 1..f[u] : z = <<u, n>>
      BY UnitsOf
    <3>2. CASE u \in M
      <4>1. g[u] = f[u]
        BY <3>2
      <4> QED
        BY <3>1, <3>2, <4>1, UnitsOf
    <3>3. CASE u \notin M
      <4>1. u \in U \ M /\ h[u] = f[u]
        BY <1>0, <3>3
      <4> QED
        BY <1>1, <3>1, <4>1, UnitsOf
    <3> QED
      BY <3>2, <3>3
  <2>2. ASSUME NEW z \in Units(g) PROVE z \in Units(f)
    <3>1. PICK u \in M : \E n \in 1..g[u] : z = <<u, n>>
      BY UnitsOf
    <3>2. g[u] \in Nat /\ g[u] # 0
      BY <3>1
    <3>3. u \in U /\ g[u] = f[u]
      BY <3>2
    <3> QED
      BY <3>1, <3>3, UnitsOf
  <2>3. ASSUME NEW z \in Units(h) PROVE z \in Units(f)
    <3>1. PICK u \in U \ M : \E n \in 1..h[u] : z = <<u, n>>
      BY <1>1, UnitsOf
    <3>2. h[u] = f[u]
      BY <1>0
    <3> QED
      BY <3>1, <3>2, UnitsOf
  <2> QED
    BY <2>1, <2>2, <2>3
<1>3. Units(g) \cap Units(h) = {}
  <2> SUFFICES ASSUME NEW z \in Units(g), z \in Units(h) PROVE FALSE
    OBVIOUS
  <2>1. PICK u \in M : \E n \in 1..g[u] : z = <<u, n>>
    BY UnitsOf
  <2>2. PICK v \in U \ M : \E n \in 1..h[v] : z = <<v, n>>
    BY <1>1, UnitsOf
  <2> QED
    BY <2>1, <2>2
<1>4. IsFiniteSet(Units(g)) /\ IsFiniteSet(Units(h))
  BY <1>2, FS_Subset
<1>5. Cardinality(Units(f)) = Cardinality(Units(g)) + Cardinality(Units(h))
  <2>1. Cardinality({}) = 0
    BY FS_EmptySet
  <2>2. Cardinality(Units(g)) \in Nat /\ Cardinality(Units(h)) \in Nat
    BY <1>4, FS_CardinalityType
  <2>3. Cardinality(Units(g) \cup Units(h)) =
            Cardinality(Units(g)) + Cardinality(Units(h)) - Cardinality(Units(g) \cap Units(h))
    BY <1>4, FS_Union
  <2>4. Cardinality(Units(f)) = Cardinality(Units(g)) + Cardinality(Units(h)) - Cardinality({})
    BY <1>2, <1>3, <2>3, Zenon
  <2> QED
    BY <2>1, <2>2, <2>4
<1>6. Total(f) = Cardinality(Units(f)) /\ Total(g) = Cardinality(Units(g)) /\ Total(h) = Cardinality(Units(h))
  BY DEF Total, Units
<1> QED
  BY <1>5, <1>6 DEF h

\* A sum of sums is a sum over all.
LEMMA TotalOfTotals ==
    ASSUME NEW S, IsFiniteSet(S), NEW c \in [S -> Nat], NEW U, NEW p \in [S -> U],
           NEW f \in [U -> Nat],
           \A u \in U : f[u] = Total(Restrict(c, Part(S, p, u)))
    PROVE  Total(f) = Total(c) /\ IsFiniteSet(Units(f))
<1> DEFINE q == [z \in Units(c) |-> p[z[1]]]
           part(u) == {y \in S : p[y] = u}
           d(u) == Restrict(c, Part(S, p, u))
<1>1. IsFiniteSet(Units(c)) /\ Total(c) = Cardinality(Units(c))
  BY UnitsFinite
<1>2. q \in [Units(c) -> U]
  BY UnitsOf
<1>3. ASSUME NEW u \in U PROVE f[u] = Cardinality(Part(Units(c), q, u))
  <2>0. d(u) = [x \in part(u) |-> c[x]]
    BY DEF Restrict, Part
  <2>1. d(u) \in [part(u) -> Nat]
    BY <2>0
  <2>2. \A z : z \in Units(d(u)) <=> z \in Units(c) /\ q[z] = u
    <3> SUFFICES ASSUME NEW z PROVE z \in Units(d(u)) <=> z \in Units(c) /\ q[z] = u
      OBVIOUS
    <3>1. z \in Units(d(u)) <=> \E x \in part(u) : \E n \in 1..d(u)[x] : z = <<x, n>>
      <4> HIDE DEF d, part
      <4> QED
        BY <2>1, UnitsOf
    <3>2. z \in Units(c) <=> \E x \in S : \E n \in 1..c[x] : z = <<x, n>>
      BY UnitsOf
    <3>3. \A x \in part(u) : d(u)[x] = c[x]
      BY <2>0
    <3>4. z \in Units(c) => q[z] = p[z[1]]
      OBVIOUS
    <3> HIDE DEF d, q
    <3> QED
      BY <3>1, <3>2, <3>3, <3>4
  <2>3. f[u] = Total(d(u))
    OBVIOUS
  <2>4. Total(d(u)) = Cardinality(Units(d(u)))
    BY DEF Total, Units
  <2>5. Units(d(u)) = {z \in Units(c) : q[z] = u}
    <3> HIDE DEF d, q
    <3> QED
      BY <2>2
  <2> QED
    BY <2>3, <2>4, <2>5 DEF Part
<1> HIDE DEF q
<1> QED
  BY <1>1, <1>2, <1>3, TotalOfParts

-----------------------------------------------------------------------------
(***************************************************************************)
(* Order statistics.                                                       *)
(***************************************************************************)
LEMMA ImageIsFinite ==
    ASSUME NEW D, IsFiniteSet(D), NEW f \in [D -> Nat]
    PROVE  IsFiniteSet({f[i] : i \in D}) /\ {f[i] : i \in D} \subseteq Nat
<1>1. f \in Surjection(D, {f[i] : i \in D})
  BY DEF Surjection
<1> QED
  BY <1>1, FS_Surjection

LEMMA NthLies ==
    ASSUME NEW D, IsFiniteSet(D), NEW f \in [D -> Nat], NEW n \in 1..Cardinality(D)
    PROVE  /\ Nth(f, n) \in Nat
           /\ Cardinality({i \in D : f[i] < Nth(f, n)}) < n
           /\ n <= Cardinality({i \in D : f[i] <= Nth(f, n)})
<1> DEFINE below(v) == {i \in D : f[i] < v}
           upto(v) == {i \in D : f[i] <= v}
           V == {f[i] : i \in D}
           T == {v \in V : n <= Cardinality(upto(v))}
<1>1. \A v : IsFiniteSet(below(v)) /\ IsFiniteSet(upto(v))
             /\ Cardinality(below(v)) \in Nat /\ Cardinality(upto(v)) \in Nat
  BY FS_Subset, FS_CardinalityType
<1>2. IsFiniteSet(V) /\ V \subseteq Nat
  BY ImageIsFinite
<1>3. Cardinality(D) \in Nat /\ n \in Nat /\ n > 0 /\ D # {}
  BY FS_CardinalityType, FS_EmptySet
<1>4. T # {}
  <2>1. V # {}
    BY <1>3
  <2>2. PICK v \in V : \A w \in V : w <= v
    <3> HIDE DEF V
    <3>1. V \subseteq Int
      BY <1>2
    <3> QED
      BY <1>2, <2>1, <3>1, GreatestOfFinite
  <2>3. upto(v) = D
    BY <2>2
  <2> QED
    BY <1>3, <2>3
<1>5. T \subseteq V /\ T \subseteq Nat
  BY <1>2
<1>6. PICK v \in T : \A w \in T : v <= w
  <2> HIDE DEF T
  <2> QED
    BY <1>4, <1>5, LeastNumber
<1>7. v \in V /\ v \in Nat /\ n <= Cardinality(upto(v))
  BY <1>5
<1>8. Cardinality(below(v)) < n
  <2> SUFFICES ASSUME n <= Cardinality(below(v)) PROVE FALSE
    BY <1>1, <1>3
  <2> DEFINE W == {f[i] : i \in below(v)}
  <2>1. below(v) # {}
    BY <1>3, FS_EmptySet
  <2>2. W \subseteq V /\ W # {}
    BY <2>1
  <2>3. PICK w \in W : \A u \in W : u <= w
    <3>1. IsFiniteSet(W) /\ W \subseteq Int
      BY <1>2, <2>2, FS_Subset
    <3> HIDE DEF W
    <3> QED
      BY <2>2, <3>1, GreatestOfFinite
  <2>4. w \in V /\ w \in Nat /\ w < v
    BY <1>7
  <2>5. below(v) \subseteq upto(w)
    BY <2>3
  <2>6. Cardinality(below(v)) <= Cardinality(upto(w))
    BY <1>1, <2>5, FS_Subset
  <2>7. w \in T
    <3>1. n <= Cardinality(upto(w))
      <4>1. Cardinality(below(v)) \in Nat /\ Cardinality(upto(w)) \in Nat
        BY <1>1
      <4> HIDE DEF below, upto
      <4> QED
        BY <1>3, <2>6, <4>1
    <3> QED
      BY <2>4, <3>1
  <2>8. v <= w
    BY <1>6, <2>7
  <2> QED
    BY <1>7, <2>4, <2>8
<1>9. Nth(f, n) \in V /\ Cardinality(below(Nth(f, n))) < n /\ n <= Cardinality(upto(Nth(f, n)))
  <2>1. DOMAIN f = D
    OBVIOUS
  <2>2. Nth(f, n) = CHOOSE x \in V : Cardinality(below(x)) < n /\ n <= Cardinality(upto(x))
    BY <2>1 DEF Nth
  <2> HIDE DEF V, below, upto
  <2> QED
    BY <1>7, <1>8, <2>2
<1> QED
  BY <1>2, <1>9

LEMMA NthGrows ==
    ASSUME NEW D, IsFiniteSet(D), NEW f \in [D -> Nat],
           NEW m \in 1..Cardinality(D), NEW n \in 1..Cardinality(D), m <= n
    PROVE  Nth(f, m) <= Nth(f, n)
<1> DEFINE a == Nth(f, m)
           b == Nth(f, n)
<1>1. Cardinality(D) \in Nat /\ m \in Nat /\ n \in Nat
  BY FS_CardinalityType
<1>2. a \in Nat /\ b \in Nat /\ Cardinality({i \in D : f[i] < a}) < m /\ n <= Cardinality({i \in D : f[i] <= b})
  BY NthLies
<1> HIDE DEF a, b
<1>3. SUFFICES ASSUME b < a PROVE FALSE
  BY <1>2 DEF a, b
<1>4. {i \in D : f[i] <= b} \subseteq {i \in D : f[i] < a}
  BY <1>2, <1>3
<1>5. /\ Cardinality({i \in D : f[i] <= b}) \in Nat /\ Cardinality({i \in D : f[i] < a}) \in Nat
      /\ Cardinality({i \in D : f[i] <= b}) <= Cardinality({i \in D : f[i] < a})
  BY <1>4, CountsGrow
<1> QED
  BY <1>1, <1>2, <1>5

-----------------------------------------------------------------------------
(***************************************************************************)
(* Rankings.                                                               *)
(***************************************************************************)
Leading(G, R, n) == {x \in G : Cardinality({y \in G : <<y, x>> \in R}) < n}

LEMMA FirstOfRanking ==
    ASSUME NEW G, IsFiniteSet(G), NEW R, NEW n \in Nat,
           \A x \in G : <<x, x>> \notin R,
           \A x, y, z \in G : <<x, y>> \in R /\ <<y, z>> \in R => <<x, z>> \in R,
           \A x, y \in G : x # y => <<x, y>> \in R \/ <<y, x>> \in R,
           NEW out \in G, out \notin Leading(G, R, n)
    PROVE  Cardinality(Leading(G, R, n)) = n /\ \A x \in Leading(G, R, n) : <<x, out>> \in R
<1> DEFINE F == Leading(G, R, n)
           before(x) == {y \in G : <<y, x>> \in R}
           rank == [x \in G |-> Cardinality(before(x))]
           N == Cardinality(G)
<1>1. N \in Nat
  BY FS_CardinalityType
<1>2. ASSUME NEW x \in G PROVE IsFiniteSet(before(x)) /\ rank[x] \in 0..(N - 1)
  <2>1. before(x) \subseteq G \ {x}
    OBVIOUS
  <2>2. IsFiniteSet(G \ {x}) /\ Cardinality(G \ {x}) = N - 1
    BY FS_RemoveElement
  <2>3. IsFiniteSet(before(x)) /\ Cardinality(before(x)) <= N - 1
    <3> HIDE DEF before, N
    <3> QED
      BY <2>1, <2>2, FS_Subset
  <2>4. Cardinality(before(x)) \in Nat
    BY <2>3, FS_CardinalityType
  <2>5. rank[x] = Cardinality(before(x))
    OBVIOUS
  <2> HIDE DEF rank, before, N
  <2> QED
    BY <1>1, <2>3, <2>4, <2>5
<1>2a. ASSUME NEW x \in G PROVE rank[x] \in Int /\ 0 <= rank[x] /\ rank[x] <= N - 1
  <2>1. rank[x] \in 0..(N - 1)
    BY <1>2
  <2> HIDE DEF rank, N
  <2> QED
    BY <1>1, <2>1
<1>3. ASSUME NEW x \in G, NEW y \in G, <<x, y>> \in R PROVE rank[x] < rank[y]
  <2>1. before(x) \subseteq before(y) /\ x \in before(y) /\ x \notin before(x)
    BY <1>3
  <2>2. IsFiniteSet(before(y)) /\ Cardinality(before(x)) \in Nat /\ Cardinality(before(y)) \in Nat
    BY <1>2, FS_CardinalityType
  <2>3. Cardinality(before(x)) <= Cardinality(before(y)) /\ Cardinality(before(x)) # Cardinality(before(y))
    BY <2>1, <2>2, FS_Subset
  <2> QED
    BY <2>2, <2>3
<1>4. \A x, y \in G : rank[x] = rank[y] => x = y
  <2> SUFFICES ASSUME NEW x \in G, NEW y \in G, x # y PROVE rank[x] # rank[y]
    OBVIOUS
  <2>1. rank[x] < rank[y] \/ rank[y] < rank[x]
    <3> HIDE DEF rank
    <3> QED
      BY <1>3
  <2>2. rank[x] \in Int /\ rank[y] \in Int
    <3> HIDE DEF rank
    <3> QED
      BY <1>2a
  <2> HIDE DEF rank
  <2> QED
    BY <2>1, <2>2
<1>5. rank \in Injection(G, 0..(N - 1))
  <2>1. rank \in [G -> 0..(N - 1)]
    BY <1>2
  <2> HIDE DEF rank
  <2> QED
    BY <1>4, <2>1 DEF Injection, IsInjective
<1>6. \A k \in 0..(N - 1) : \E x \in G : rank[x] = k
  <2>1. IsFiniteSet(0..(N - 1)) /\ Cardinality(0..(N - 1)) = N
    <3>1. 0 \in Int /\ N - 1 \in Int
      BY <1>1
    <3>2. IsFiniteSet(0..(N - 1)) /\ Cardinality(0..(N - 1)) = IF 0 > N - 1 THEN 0 ELSE N - 1 - 0 + 1
      BY <3>1, FS_Interval
    <3> HIDE DEF N
    <3> QED
      BY <1>1, <3>2
  <2> HIDE DEF rank
  <2>2. rank \in Surjection(G, 0..(N - 1))
    BY <1>5, <2>1, FS_Injection
  <2> QED
    BY <2>2 DEF Surjection
<1>7. \A x \in G : x \in F <=> rank[x] < n
  BY DEF Leading
<1>8. F \subseteq G /\ IsFiniteSet(F)
  <2>1. F \subseteq G
    BY DEF Leading
  <2> QED
    BY <2>1, FS_Subset
<1>8a. out \notin F
  OBVIOUS
<1> HIDE DEF rank, N, F
<1>9. rank[out] \in 0..(N - 1) /\ n <= rank[out]
  BY <1>1, <1>2, <1>2a, <1>8a, <1>7
<1>10. Cardinality(F) = n
  <2> DEFINE m == [x \in F |-> rank[x]]
  <2>1. m \in [F -> 0..(n - 1)]
    <3>1. ASSUME NEW x \in F PROVE rank[x] \in 0..(n - 1)
      BY <1>2a, <1>7, <1>8
    <3> QED
      BY <3>1
  <2>2. \A k \in 0..(n - 1) : \E x \in F : m[x] = k
    <3> SUFFICES ASSUME NEW k \in 0..(n - 1) PROVE \E x \in F : m[x] = k
      OBVIOUS
    <3>1. k \in 0..(N - 1) /\ k < n
      BY <1>1, <1>9
    <3>2. PICK x \in G : rank[x] = k
      BY <1>6, <3>1
    <3> QED
      BY <1>7, <3>1, <3>2
  <2>3. \A x, y \in F : m[x] = m[y] => x = y
    BY <1>4, <1>8
  <2>4. Cardinality(0..(n - 1)) = n
    <3>1. 0 \in Int /\ n - 1 \in Int
      OBVIOUS
    <3>2. Cardinality(0..(n - 1)) = IF 0 > n - 1 THEN 0 ELSE n - 1 - 0 + 1
      BY <3>1, FS_Interval
    <3> QED
      BY <3>2
  <2> HIDE DEF m
  <2>5. Cardinality(0..(n - 1)) = Cardinality(F)
    BY ONLY <1>8, <2>1, <2>2, <2>3, CountsByBijection
  <2> QED
    BY <2>4, <2>5
<1>11. ASSUME NEW x \in F PROVE <<x, out>> \in R
  <2>1. x \in G /\ x # out
    BY <1>8, <1>8a
  <2>2. rank[x] < n /\ rank[x] \in Int /\ rank[out] \in Int
    BY <1>2a, <1>7, <2>1
  <2>3. ~(rank[out] < rank[x])
    BY <1>9, <2>2
  <2> QED
    BY <1>3, <2>1, <2>3
<1> QED
  BY <1>10, <1>11 DEF F

-----------------------------------------------------------------------------
(***************************************************************************)
(* The percentiles.                                                        *)
(***************************************************************************)

\* Where the cut at i of n + 1 hundredths lies: after the j-th of n values.
Below(n, i) ==
    LET pos == (i * (n + 1)) \div 100
    IN  IF pos < 1 THEN 1 ELSE IF pos > n - 1 THEN n - 1 ELSE pos

LEMMA Hundredths ==
    ASSUME NEW n \in Nat, NEW p \in Nat, p = n \div 100
    PROVE  100 * p <= n /\ n < 100 * p + 100
OBVIOUS

LEMMA CutLies ==
    ASSUME NEW n \in Nat, n > 1, NEW i \in {95, 99}
    PROVE  /\ Below(n, i) \in 1..(n - 1)
           /\ 100 * Below(n, i) <= i * (n + 1)
           /\ Below(n, i) < n - 1 => i * (n + 1) < 100 * Below(n, i) + 100
<1> DEFINE pos == (i * (n + 1)) \div 100
<1>1. i * (n + 1) \in Nat /\ i * (n + 1) >= 285
  OBVIOUS
<1>2. pos \in Nat
  BY <1>1
<1>3. 100 * pos <= i * (n + 1) /\ i * (n + 1) < 100 * pos + 100
  BY <1>1, <1>2, Hundredths
<1>4. Below(n, i) = IF pos < 1 THEN 1 ELSE IF pos > n - 1 THEN n - 1 ELSE pos
  BY DEF Below
<1> HIDE DEF pos
<1>5. pos >= 2
  BY <1>1, <1>2, <1>3
<1>6. CASE pos > n - 1
  BY <1>1, <1>2, <1>3, <1>4, <1>5, <1>6
<1>7. CASE pos <= n - 1
  BY <1>1, <1>2, <1>3, <1>4, <1>5, <1>7
<1> QED
  BY <1>2, <1>6, <1>7

\* The part of the way from a to b.
LEMMA Between ==
    ASSUME NEW a \in Nat, NEW b \in Nat, a <= b, NEW d \in Nat
    PROVE  /\ a * (100 - d) + b * d \in Int
           /\ 100 * a <= a * (100 - d) + b * d
           /\ d >= 100 => 100 * b <= a * (100 - d) + b * d
           /\ d <= 100 => a * (100 - d) + b * d <= 100 * b
           /\ \A e \in Nat : e <= d => a * (100 - e) + b * e <= a * (100 - d) + b * d
<1> DEFINE c == b - a
<1>1. c \in Nat /\ b = a + c
  OBVIOUS
<1>2. \A e \in Nat : a * (100 - e) + b * e = 100 * a + c * e
  BY <1>1
<1>3. c * d \in Nat
  BY <1>1
<1>4. d >= 100 => c * d >= 100 * c
  BY <1>1
<1>5. d <= 100 => c * d <= 100 * c
  BY <1>1
<1>6. \A e \in Nat : e <= d => c * e <= c * d
  BY <1>1
<1>7. \A e \in Nat : c * e \in Nat
  BY <1>1
<1> HIDE DEF c
<1> QED
  BY <1>1, <1>2, <1>3, <1>4, <1>5, <1>6, <1>7

(***************************************************************************)
(* The percentiles of _latency_stats do not cross, of no, one, two or any  *)
(* number of latencies, also where quantiles() extrapolates.               *)
(***************************************************************************)
THEOREM PercentilesGrow ==
    ASSUME NEW D, IsFiniteSet(D), NEW f \in [D -> Nat]
    PROVE  LatencyStats(f).p50 <= LatencyStats(f).p95 /\ LatencyStats(f).p95 <= LatencyStats(f).p99
<1> DEFINE n == Cardinality(D)
           j == Below(n, 95)
           k == Below(n, 99)
           d == 95 * (n + 1) - j * 100
           e == 99 * (n + 1) - k * 100
<1>1. n \in Nat /\ DOMAIN f = D
  BY FS_CardinalityType
<1>2. CASE n = 0
  <2>1. LatencyStats(f) = [p50 |-> 0, p95 |-> 0, p99 |-> 0]
    BY <1>1, <1>2 DEF LatencyStats
  <2> QED
    BY <2>1
<1>3. CASE n = 1
  <2> DEFINE only == 100 * Nth(f, 1)
  <2>1. LatencyStats(f) = [p50 |-> only, p95 |-> only, p99 |-> only]
    BY <1>1, <1>3 DEF LatencyStats
  <2>2. only \in Nat
    <3>1. 1 \in 1..Cardinality(D)
      BY <1>3
    <3>2. Nth(f, 1) \in Nat
      BY <3>1, NthLies
    <3> QED
      BY <3>2
  <2> HIDE DEF only
  <2> QED
    BY <2>1, <2>2
<1>4. CASE n > 1
  <2>1. LatencyStats(f) = [p50 |-> Median(f), p95 |-> Cut(f, 95), p99 |-> Cut(f, 99)]
    BY <1>1, <1>4 DEF LatencyStats
  <2>2. Cut(f, 95) = Nth(f, j) * (100 - d) + Nth(f, j + 1) * d
    BY <1>1 DEF Cut, Below
  <2>3. Cut(f, 99) = Nth(f, k) * (100 - e) + Nth(f, k + 1) * e
    BY <1>1 DEF Cut, Below
  <2>4. Median(f) = 50 * (Nth(f, (n + 1) \div 2) + Nth(f, (n + 2) \div 2))
    BY <1>1 DEF Median
  <2>5. /\ j \in 1..(n - 1) /\ 100 * j <= 95 * (n + 1)
        /\ j < n - 1 => 95 * (n + 1) < 100 * j + 100
    BY <1>1, <1>4, CutLies
  <2>6. /\ k \in 1..(n - 1) /\ 100 * k <= 99 * (n + 1)
        /\ k < n - 1 => 99 * (n + 1) < 100 * k + 100
    BY <1>1, <1>4, CutLies
  <2> HIDE DEF j, k
  <2>7. /\ d \in Nat /\ e \in Nat /\ j \in Nat /\ k \in Nat
        /\ j + 1 \in 1..n /\ k + 1 \in 1..n /\ j \in 1..n /\ k \in 1..n
    BY <1>1, <1>4, <2>5, <2>6
  <2>8. j <= k /\ (j = k => d <= e) /\ (j < k => d <= 100 /\ j + 1 <= k)
    BY <1>1, <1>4, <2>5, <2>6, <2>7
  <2>9. /\ (n + 1) \div 2 \in 1..n /\ (n + 2) \div 2 \in 1..n
        /\ (n + 1) \div 2 <= (n + 2) \div 2
    BY <1>1, <1>4
  <2>10. (n + 2) \div 2 <= j \/ (d >= 100 /\ (n + 2) \div 2 <= j + 1)
    BY <1>1, <1>4, <2>5, <2>7
  <2> HIDE DEF d, e, n
  <2>11. \A m \in 1..n : Nth(f, m) \in Nat
    BY NthLies DEF n
  <2>12. \A l, m \in 1..n : l <= m => Nth(f, l) <= Nth(f, m)
    BY NthGrows DEF n
  <2>13. Cut(f, 95) \in Int /\ 100 * Nth(f, j) <= Cut(f, 95) /\ (d >= 100 => 100 * Nth(f, j + 1) <= Cut(f, 95))
         /\ (d <= 100 => Cut(f, 95) <= 100 * Nth(f, j + 1))
    <3>1. Nth(f, j) \in Nat /\ Nth(f, j + 1) \in Nat /\ Nth(f, j) <= Nth(f, j + 1)
      BY <2>7, <2>11, <2>12
    <3> QED
      BY <2>2, <2>7, <3>1, Between
  <2>14. Cut(f, 99) \in Int /\ 100 * Nth(f, k) <= Cut(f, 99)
         /\ (j = k /\ d <= e => Cut(f, 95) <= Cut(f, 99))
    <3>1. Nth(f, k) \in Nat /\ Nth(f, k + 1) \in Nat /\ Nth(f, k) <= Nth(f, k + 1)
      BY <2>7, <2>11, <2>12
    <3> QED
      BY <2>2, <2>3, <2>7, <3>1, Between
  <2>15. Median(f) \in Int /\ Median(f) <= 100 * Nth(f, (n + 2) \div 2)
    BY <2>4, <2>9, <2>11, <2>12
  <2>16. Median(f) <= Cut(f, 95)
    <3> DEFINE h == (n + 2) \div 2
    <3>1. h \in 1..n /\ (h <= j \/ (d >= 100 /\ h <= j + 1))
      BY <2>9, <2>10
    <3>2. Median(f) <= 100 * Nth(f, h)
      BY <2>15
    <3> HIDE DEF h
    <3>3. CASE h <= j
      <4>1. Nth(f, h) <= Nth(f, j) /\ Nth(f, h) \in Nat /\ Nth(f, j) \in Nat
        BY <2>7, <2>11, <2>12, <3>1, <3>3
      <4> QED
        BY <2>13, <2>15, <3>2, <4>1
    <3>4. CASE d >= 100 /\ h <= j + 1
      <4>1. Nth(f, h) <= Nth(f, j + 1) /\ Nth(f, h) \in Nat /\ Nth(f, j + 1) \in Nat
        BY <2>7, <2>11, <2>12, <3>1, <3>4
      <4> QED
        BY <2>13, <2>15, <3>2, <3>4, <4>1
    <3> QED
      BY <3>1, <3>3, <3>4
  <2>17. Cut(f, 95) <= Cut(f, 99)
    <3>1. CASE j = k
      BY <2>8, <2>14, <3>1
    <3>2. CASE j < k
      <4>1. Nth(f, j + 1) <= Nth(f, k) /\ Nth(f, j + 1) \in Nat /\ Nth(f, k) \in Nat
        BY <2>7, <2>8, <2>11, <2>12, <3>2
      <4> QED
        BY <2>8, <2>13, <2>14, <3>2, <4>1
    <3> QED
      BY <2>7, <2>8, <3>1, <3>2
  <2> QED
    BY <2>1, <2>16, <2>17
<1> QED
  BY <1>1, <1>2, <1>3, <1>4

-----------------------------------------------------------------------------
(***************************************************************************)
(* The buckets.                                                            *)
(***************************************************************************)

\* A set of numbers from 1 on without a gap.
LEMMA GaplessIsInterval ==
    ASSUME NEW n \in Nat, NEW S \in SUBSET (1..n),
           \A x \in S, y \in 1..n : y < x => y \in S
    PROVE  Cardinality(S) \in 0..n /\ S = 1..Cardinality(S)
<1>1. IsFiniteSet(S)
  <2>1. 1 \in Int /\ n \in Int
    OBVIOUS
  <2>2. IsFiniteSet(1..n)
    BY <2>1, FS_Interval
  <2> QED
    BY <2>2, FS_Subset
<1>2. CASE S = {}
  <2>1. Cardinality(S) = 0
    BY <1>2, FS_EmptySet
  <2> QED
    BY <1>2, <2>1
<1>3. CASE S # {}
  <2>1. S \subseteq Int
    OBVIOUS
  <2>2. PICK x \in S : \A y \in S : y <= x
    BY <1>1, <1>3, <2>1, GreatestOfFinite
  <2>3. x \in 1..n /\ x \in Nat
    OBVIOUS
  <2>4. \A y \in S : y \in 1..n /\ y <= x
    BY <2>2
  <2>5. \A y \in 1..x : y \in S
    <3> SUFFICES ASSUME NEW y \in 1..x PROVE y \in S
      OBVIOUS
    <3>1. y \in 1..n /\ (y < x \/ y = x)
      BY <2>3
    <3> QED
      BY <3>1
  <2>6. S = 1..x
    <3>1. ASSUME NEW y \in S PROVE y \in 1..x
      BY <2>3, <2>4
    <3> QED
      BY <2>5, <3>1
  <2>7. Cardinality(1..x) = x
    <3>1. 1 \in Int /\ x \in Int /\ ~(1 > x)
      BY <2>3
    <3>2. Cardinality(1..x) = x - 1 + 1
      BY <3>1, FS_Interval
    <3> QED
      BY <2>3, <3>2
  <2> QED
    BY <2>3, <2>6, <2>7
<1> QED
  BY <1>2, <1>3

LEMMA BucketHolds ==
    ASSUME NEW v \in Nat, NEW b \in 1..(Len(Edges) + 1)
    PROVE  Bucket(v) = b <=>
               /\ (IF b = 1 THEN 0 ELSE Edges[b - 1]) <= v
               /\ b <= Len(Edges) => v < Edges[b]
<1> DEFINE L == Len(Edges)
           S == {e \in 1..L : Edges[e] <= v}
           k == Cardinality(S)
<1>1. /\ L \in Nat /\ DOMAIN Edges = 1..L /\ \A e \in 1..L : Edges[e] \in Nat
      /\ \A i, j \in 1..L : i < j => Edges[i] < Edges[j]
  BY DashboardAssumption
<1>2. Bucket(v) = 1 + k
  BY <1>1 DEF Bucket
<1> HIDE DEF L
<1>3. \A x \in S, y \in 1..L : y < x => y \in S
  <2> SUFFICES ASSUME NEW x \in S, NEW y \in 1..L, y < x PROVE y \in S
    OBVIOUS
  <2>1. x \in 1..L /\ Edges[x] <= v /\ Edges[y] < Edges[x] /\ Edges[x] \in Nat /\ Edges[y] \in Nat
    BY <1>1
  <2> QED
    BY <2>1
<1>4. S \in SUBSET (1..L)
  OBVIOUS
<1>5. k \in 0..L /\ S = 1..k
  <2> HIDE DEF S
  <2> QED
    BY <1>1, <1>3, <1>4, GaplessIsInterval
<1>6. \A e \in 1..L : e <= k <=> Edges[e] <= v
  <2>1. \A e \in 1..L : e \in S <=> Edges[e] <= v
    OBVIOUS
  <2> HIDE DEF S
  <2>2. \A e \in 1..L : e \in S <=> e <= k
    <3> HIDE DEF k
    <3>1. \A e \in 1..k : e \in S
      BY <1>5
    <3>2. \A e \in S : e \in 1..k
      BY <1>5
    <3>3. k \in Int
      BY <1>1, <1>5
    <3> QED
      BY <1>1, <3>1, <3>2, <3>3
  <2> QED
    BY <2>1, <2>2
<1> HIDE DEF S, k
<1>7. b \in 1..(L + 1)
  BY DEF L
<1>8. CASE b = 1
  BY <1>1, <1>2, <1>5, <1>6, <1>7, <1>8 DEF L
<1>9. CASE b # 1
  <2>1. b - 1 \in 1..L
    BY <1>1, <1>7, <1>9
  <2>2. b - 1 <= k <=> Edges[b - 1] <= v
    BY <1>6, <2>1
  <2>3. CASE b <= L
    <3>1. b <= k <=> Edges[b] <= v
      BY <1>6, <1>7, <2>3
    <3>2. Edges[b] \in Nat
      BY <1>1, <1>7, <2>3
    <3> QED
      BY <1>1, <1>2, <1>5, <1>7, <1>9, <2>2, <2>3, <3>1, <3>2 DEF L
  <2>4. CASE b > L
    BY <1>1, <1>2, <1>5, <1>7, <1>9, <2>2, <2>4 DEF L
  <2> QED
    BY <1>1, <1>7, <2>3, <2>4
<1> QED
  BY <1>8, <1>9

-----------------------------------------------------------------------------
(***************************************************************************)
(* The panels.                                                             *)
(***************************************************************************)
Lower(b) == IF b = 1 THEN 0 ELSE Edges[b - 1]

LEMMA WindowIsRuns ==
    ASSUME runs \in Seq(Run), NEW t, NEW days
    PROVE  /\ Window(runs, t, days) \subseteq DOMAIN runs /\ IsFiniteSet(Window(runs, t, days))
           /\ Window(runs, t, days) \subseteq Nat
           /\ \A i \in Window(runs, t, days) : runs[i] \in Run /\ runs[i].age <= days
<1>1. Len(runs) \in Nat /\ DOMAIN runs = 1..Len(runs) /\ \A i \in DOMAIN runs : runs[i] \in Run
  BY SMT
<1>2. \A i \in Window(runs, t, days) : i \in DOMAIN runs /\ runs[i].age <= days
  BY DEF Window, First, ListRuns
<1>3. IsFiniteSet(DOMAIN runs)
  <2>1. 1 \in Int /\ Len(runs) \in Int
    BY <1>1
  <2>2. IsFiniteSet(1..Len(runs))
    BY <2>1, FS_Interval
  <2> QED
    BY <1>1, <2>2
<1>4. Window(runs, t, days) \subseteq DOMAIN runs
  BY <1>2
<1> QED
  BY <1>1, <1>2, <1>3, <1>4, FS_Subset

LEMMA Seconds ==
    ASSUME runs \in Seq(Run), NEW rows, rows \subseteq DOMAIN runs, IsFiniteSet(rows)
    PROVE  /\ DOMAIN Latencies(runs, rows) = {j \in rows : runs[j].latency # None}
           /\ IsFiniteSet(DOMAIN Latencies(runs, rows))
           /\ Latencies(runs, rows) \in [DOMAIN Latencies(runs, rows) -> Nat]
<1> DEFINE D == {j \in rows : runs[j].latency # None}
<1>1. Latencies(runs, rows) = [i \in D |-> runs[i].latency]
  BY DEF Latencies
<1>2. ASSUME NEW i \in D PROVE runs[i].latency \in Nat
  <2>1. runs[i] \in Run
    OBVIOUS
  <2> QED
    BY <2>1 DEF Run
<1>3. IsFiniteSet(D)
  BY FS_Subset
<1> HIDE DEF D
<1>4. DOMAIN Latencies(runs, rows) = D /\ Latencies(runs, rows) \in [D -> Nat]
  BY <1>1, <1>2
<1> QED
  BY <1>3, <1>4 DEF D

Held(f, b) ==
    Cardinality({i \in DOMAIN f : Lower(b) <= f[i] /\ (b <= Len(Edges) => f[i] < Edges[b])})

LEMMA HistogramTells ==
    ASSUME NEW D, NEW f \in [D -> Nat], NEW b \in 1..(Len(Edges) + 1)
    PROVE  Histogram(f)[b] = Held(f, b)
<1>1. Histogram(f)[b] = Cardinality({i \in D : Bucket(f[i]) = b})
  BY DEF Histogram
<1>2. \A i \in D : Bucket(f[i]) = b <=> Lower(b) <= f[i] /\ (b <= Len(Edges) => f[i] < Edges[b])
  BY BucketHolds DEF Lower
<1>3. {i \in D : Bucket(f[i]) = b} = {i \in D : Lower(b) <= f[i] /\ (b <= Len(Edges) => f[i] < Edges[b])}
  BY <1>2
<1>4. DOMAIN f = D
  OBVIOUS
<1> QED
  BY <1>1, <1>3, <1>4 DEF Held

LEMMA UsersAddUp ==
    ASSUME runs \in Seq(Run), NEW t
    PROVE  LET rows  == Window(runs, t, Days)
               users == UserBreakdown(runs, t, Days)
               shown == MemberRows(runs, t, Days, Members)
           IN  /\ Cardinality(rows) = Total([u \in DOMAIN users |-> users[u].query_count])
               /\ Cost(runs, rows) = Total([u \in DOMAIN users |-> users[u].total_cost])
               /\ Cardinality(rows) = Total([u \in Members |-> shown[u].query_count])
                                    + Total([u \in DOMAIN users \ Members |-> users[u].query_count])
               /\ Cardinality(DOMAIN Latencies(runs, rows)) =
                      Total([u \in DOMAIN users |-> Cardinality(DOMAIN users[u].latencies)])
<1> DEFINE rows == Window(runs, t, Days)
           users == UserBreakdown(runs, t, Days)
           shown == MemberRows(runs, t, Days, Members)
           U == {runs[i].user : i \in rows}
           of(u) == {i \in rows : runs[i].user = u}
           p == [i \in rows |-> runs[i].user]
<1>1. rows \subseteq DOMAIN runs /\ IsFiniteSet(rows) /\ \A i \in rows : runs[i] \in Run
  BY WindowIsRuns
<1>2. users = [u \in U |-> UserRow(runs, of(u))]
  BY DEF UserBreakdown
<1>3. \A u \in U : /\ users[u].query_count = Cardinality(of(u))
                   /\ users[u].total_cost = Cost(runs, of(u))
                   /\ users[u].latencies = Latencies(runs, of(u))
  BY <1>2 DEF UserRow
<1>4. DOMAIN users = U
  BY <1>2
<1>5. p \in [rows -> U]
  OBVIOUS
<1>6. \A u : of(u) \subseteq rows /\ IsFiniteSet(of(u)) /\ Cardinality(of(u)) \in Nat
             /\ of(u) = {i \in rows : p[i] = u}
  BY <1>1, FS_Subset, FS_CardinalityType
<1> DEFINE counts == [u \in U |-> users[u].query_count]
           costs == [u \in U |-> users[u].total_cost]
           lates == [u \in U |-> Cardinality(DOMAIN users[u].latencies)]
           c == [i \in rows |-> runs[i].cost]
<1>7. c \in [rows -> Nat]
  BY <1>1 DEF Run
<1>8. counts \in [U -> Nat] /\ \A u \in U : counts[u] = Cardinality(Part(rows, p, u))
  <2>1. \A u \in U : users[u].query_count = Cardinality(Part(rows, p, u)) /\ users[u].query_count \in Nat
    <3> SUFFICES ASSUME NEW u \in U
                 PROVE  users[u].query_count = Cardinality(Part(rows, p, u)) /\ users[u].query_count \in Nat
      OBVIOUS
    <3>1. users[u].query_count = Cardinality(of(u))
      BY <1>3
    <3>2. Cardinality(of(u)) \in Nat /\ of(u) = Part(rows, p, u)
      BY <1>6 DEF Part
    <3> HIDE DEF users, of, p, rows
    <3> QED
      BY <3>1, <3>2
  <2> HIDE DEF users, p, rows, U
  <2> QED
    BY <2>1
<1>9. Total(counts) = Cardinality(rows) /\ IsFiniteSet(Units(counts))
  <2> HIDE DEF counts, p, rows, U, users
  <2> QED
    BY ONLY <1>1, <1>5, <1>8, TotalOfParts
<1>10. Total(costs) = Cost(runs, rows)
  <2>1. \A u \in U : costs[u] = Total(Restrict(c, Part(rows, p, u)))
    <3> SUFFICES ASSUME NEW u \in U PROVE costs[u] = Total(Restrict(c, Part(rows, p, u)))
      OBVIOUS
    <3>1. costs[u] = Total([i \in of(u) |-> runs[i].cost])
      <4> HIDE DEF users, of
      <4> QED
        BY <1>3 DEF Cost
    <3>2. [i \in of(u) |-> runs[i].cost] = Restrict(c, Part(rows, p, u))
      <4>1. of(u) = Part(rows, p, u)
        BY <1>6 DEF Part
      <4>2. \A i \in Part(rows, p, u) : c[i] = runs[i].cost
        BY DEF Part
      <4> HIDE DEF of, p, c, rows
      <4> QED
        BY <4>1, <4>2 DEF Restrict
    <3> HIDE DEF costs, of, p, c, rows
    <3> QED
      BY <3>1, <3>2
  <2>2. costs \in [U -> Nat]
    <3>1. ASSUME NEW u \in U PROVE costs[u] \in Nat
      <4> DEFINE d == Restrict(c, of(u))
      <4>1. IsFiniteSet(of(u)) /\ of(u) = Part(rows, p, u)
        BY <1>6 DEF Part
      <4>2. d \in [of(u) -> Nat]
        BY <1>7 DEF Restrict
      <4>3. Total(d) \in Nat
        <5> HIDE DEF d, of
        <5> QED
          BY <4>1, <4>2, UnitsFinite
      <4> HIDE DEF costs, of, p, c, rows
      <4> QED
        BY <2>1, <4>1, <4>3
    <3>2. costs = [u \in U |-> costs[u]]
      OBVIOUS
    <3> HIDE DEF costs
    <3> QED
      BY <3>1, <3>2
  <2>3. Total(costs) = Total(c)
    <3> HIDE DEF costs, c, p, rows, U
    <3> QED
      BY ONLY <1>1, <1>5, <1>7, <2>1, <2>2, TotalOfTotals
  <2> QED
    BY <2>3 DEF Cost
<1>11. Total(counts) = Total([u \in Members |-> shown[u].query_count])
                     + Total([u \in U \ Members |-> users[u].query_count])
  <2> DEFINE g == [u \in Members |-> shown[u].query_count]
  <2>1. ASSUME NEW u \in Members PROVE g[u] = IF u \in U THEN counts[u] ELSE 0
    <3>1. shown[u] = IF u \in DOMAIN users THEN users[u] ELSE UserRow(runs, {})
      BY DEF MemberRows
    <3>2. UserRow(runs, {}).query_count = 0
      <4>1. Cardinality({}) = 0
        BY FS_EmptySet
      <4> QED
        BY <4>1 DEF UserRow
    <3>3. g[u] = shown[u].query_count
      OBVIOUS
    <3>4. u \in U => counts[u] = users[u].query_count
      OBVIOUS
    <3> HIDE DEF g, shown, users, counts, U
    <3> QED
      BY <1>4, <3>1, <3>2, <3>3, <3>4
  <2>2. g \in [Members -> Nat]
    <3>1. \A u \in Members : g[u] \in Nat
      <4> HIDE DEF g, counts, U
      <4> QED
        BY <1>8, <2>1
    <3>2. g = [u \in Members |-> g[u]]
      OBVIOUS
    <3> HIDE DEF g
    <3> QED
      BY <3>1, <3>2
  <2>3. Total(counts) = Total(g) + Total(Restrict(counts, U \ Members))
    <3> HIDE DEF g, counts, U
    <3>1. counts \in [U -> Nat] /\ IsFiniteSet(Units(counts))
      BY <1>8, <1>9
    <3>2. /\ \A u \in Members : u \in U => g[u] = counts[u]
          /\ \A u \in Members : u \notin U => g[u] = 0
      BY <2>1
    <3> DEFINE V == U \ Members
    <3>3. V = U \ Members
      OBVIOUS
    <3> HIDE DEF V
    <3>4. Total(counts) = Total(g) + Total(Restrict(counts, V))
      BY ONLY <3>1, <3>2, <3>3, <2>2, TotalSplits
    <3> QED
      BY <3>4 DEF V
  <2>4. Restrict(counts, U \ Members) = [u \in U \ Members |-> users[u].query_count]
    <3> HIDE DEF users, U
    <3> QED
      BY DEF Restrict
  <2> QED
    BY <2>3, <2>4
<1>12. Total(lates) = Cardinality(DOMAIN Latencies(runs, rows))
  <2> DEFINE E == {j \in rows : runs[j].latency # None}
             q == [i \in E |-> runs[i].user]
  <2>1. IsFiniteSet(E) /\ DOMAIN Latencies(runs, rows) = E
    BY <1>1, Seconds, FS_Subset
  <2>2. q \in [E -> U]
    OBVIOUS
  <2>3. ASSUME NEW u \in U
        PROVE  lates[u] = Cardinality(Part(E, q, u)) /\ lates[u] \in Nat
    <3>1. DOMAIN Latencies(runs, of(u)) = {j \in of(u) : runs[j].latency # None}
      BY DEF Latencies
    <3>2. {j \in of(u) : runs[j].latency # None} = Part(E, q, u)
      BY DEF Part
    <3>3. lates[u] = Cardinality(DOMAIN Latencies(runs, of(u)))
      <4> HIDE DEF users, of
      <4> QED
        BY <1>3
    <3>4. IsFiniteSet(Part(E, q, u))
      <4> HIDE DEF E, q
      <4> QED
        BY <2>1, FS_Subset DEF Part
    <3> HIDE DEF lates, of, E, q
    <3> QED
      BY <3>1, <3>2, <3>3, <3>4, FS_CardinalityType
  <2>4. lates \in [U -> Nat] /\ \A u \in U : lates[u] = Cardinality(Part(E, q, u))
    <3>1. lates = [u \in U |-> lates[u]]
      OBVIOUS
    <3> HIDE DEF lates, E, q, U
    <3> QED
      BY <2>3, <3>1
  <2>5. Total(lates) = Cardinality(E)
    <3> HIDE DEF lates, E, q, U
    <3> QED
      BY ONLY <2>1, <2>2, <2>4, TotalOfParts
  <2> QED
    BY <2>1, <2>5
<1> HIDE DEF rows, users, shown, U
<1>13. Cardinality(rows) = Total([u \in DOMAIN users |-> users[u].query_count])
  BY <1>4, <1>9
<1>14. Cost(runs, rows) = Total([u \in DOMAIN users |-> users[u].total_cost])
  BY <1>4, <1>10
<1>15. Cardinality(rows) = Total([u \in Members |-> shown[u].query_count])
                         + Total([u \in DOMAIN users \ Members |-> users[u].query_count])
  BY <1>4, <1>9, <1>11
<1>16. Cardinality(DOMAIN Latencies(runs, rows)) =
           Total([u \in DOMAIN users |-> Cardinality(DOMAIN users[u].latencies)])
  BY <1>4, <1>12
<1> QED
  BY <1>13, <1>14, <1>15, <1>16 DEF rows, users, shown

\* What the tenants' panels show agrees, for any runs.
LEMMA PanelsAlwaysAgree == ASSUME runs \in Seq(Run) PROVE PanelsAgree
<1> SUFFICES ASSUME NEW t \in Tenants
             PROVE
        LET stats == OrgStats(runs, t, Days)
            users == UserBreakdown(runs, t, Days)
            shown == MemberRows(runs, t, Days, Members)
            seconds == Latencies(runs, Window(runs, t, Days))
            lower(b) == IF b = 1 THEN 0 ELSE Edges[b - 1]
        IN  /\ stats.query_count = Total([u \in DOMAIN users |-> users[u].query_count])
            /\ stats.total_cost = Total([u \in DOMAIN users |-> users[u].total_cost])
            /\ stats.query_count = Total([u \in Members |-> shown[u].query_count])
                                 + Total([u \in DOMAIN users \ Members |-> users[u].query_count])
            /\ Cardinality(DOMAIN seconds) =
                   Total([u \in DOMAIN users |-> Cardinality(DOMAIN users[u].latencies)])
            /\ \A b \in DOMAIN stats.histogram :
                   stats.histogram[b] = Cardinality({i \in DOMAIN seconds :
                       lower(b) <= seconds[i] /\ (b <= Len(Edges) => seconds[i] < Edges[b])})
            /\ stats.latency.p50 <= stats.latency.p95 /\ stats.latency.p95 <= stats.latency.p99
  BY DEF PanelsAgree
<1> DEFINE rows == Window(runs, t, Days)
           stats == OrgStats(runs, t, Days)
           seconds == Latencies(runs, rows)
<1>1. /\ stats.query_count = Cardinality(rows) /\ stats.total_cost = Cost(runs, rows)
      /\ stats.latency = LatencyStats(seconds) /\ stats.histogram = Histogram(seconds)
  BY DEF OrgStats
<1>2. rows \subseteq DOMAIN runs /\ IsFiniteSet(rows)
  BY WindowIsRuns
<1>3. IsFiniteSet(DOMAIN seconds) /\ seconds \in [DOMAIN seconds -> Nat]
  BY <1>2, Seconds
<1>4. stats.latency.p50 <= stats.latency.p95 /\ stats.latency.p95 <= stats.latency.p99
  <2> HIDE DEF seconds, stats
  <2> QED
    BY <1>1, <1>3, PercentilesGrow
<1>5. \A b \in DOMAIN stats.histogram : stats.histogram[b] = Held(seconds, b)
  <2>1. DOMAIN Histogram(seconds) = 1..(Len(Edges) + 1)
    BY DEF Histogram
  <2> HIDE DEF seconds, stats
  <2> QED
    BY <1>1, <1>3, <2>1, HistogramTells
<1> HIDE DEF stats
<1> QED
  BY <1>1, <1>4, <1>5, UsersAddUp DEF stats, Held, Lower

\* Every run of a window that began before the clock was read has its week.
LEMMA TheTrendShowsAll == ASSUME runs \in Seq(Run) PROVE TrendShowsAll
<1> SUFFICES ASSUME NEW t \in Tenants
             PROVE
        LET trend == FeedbackTrend(runs, t, Weeks)
            rows == {i \in Window(runs, t, 7 * Weeks) : runs[i].age >= 0}
        IN  /\ Total([i \in DOMAIN trend |-> trend[i].query_count]) = Cardinality(rows)
            /\ \A i \in DOMAIN trend :
                   trend[i].query_count <= Cardinality({j \in rows :
                       trend[i].week_end <= runs[j].age /\ runs[j].age <= trend[i].week_start})
  BY DEF TrendShowsAll
<1> DEFINE all == Window(runs, t, 7 * Weeks)
           trend == FeedbackTrend(runs, t, Weeks)
           rows == {i \in all : runs[i].age >= 0}
           p == [j \in rows |-> Weeks - Week(runs[j], Weeks)]
           f == [i \in 1..Weeks |-> trend[i].query_count]
           within(i) == {j \in rows : trend[i].week_end <= runs[j].age /\ runs[j].age <= trend[i].week_start}
<1>1. Weeks \in Nat /\ Weeks >= 1
  BY PanelAssumption
<1>2. \A j \in all : runs[j].age \in Int /\ runs[j].age <= 7 * Weeks
  BY WindowIsRuns DEF Run
<1>3. IsFiniteSet(all) /\ IsFiniteSet(rows)
  BY WindowIsRuns, FS_Subset
<1>4. \A i \in 1..Weeks : /\ trend[i].query_count = Cardinality({j \in all : Week(runs[j], Weeks) = Weeks - i})
                          /\ trend[i].week_start = 7 * (Weeks - i) + 7
                          /\ trend[i].week_end = 7 * (Weeks - i)
  BY DEF FeedbackTrend
<1>5. DOMAIN trend = 1..Weeks
  BY DEF FeedbackTrend
<1> HIDE DEF all, trend
<1>6. ASSUME NEW j \in all
      PROVE  LET w == Week(runs[j], Weeks) IN
             /\ w \in Int /\ w <= Weeks - 1
             /\ w >= 0 <=> runs[j].age >= 0
             /\ w >= 0 => 7 * w <= runs[j].age /\ runs[j].age <= 7 * w + 7
  <2> DEFINE age == runs[j].age
             n == age \div 7
  <2>1. age \in Int /\ age <= 7 * Weeks
    BY <1>2
  <2> HIDE DEF age
  <2>2. n \in Int /\ 7 * n <= age /\ age < 7 * n + 7
    BY <2>1
  <2> HIDE DEF n
  <2>3. Week(runs[j], Weeks) = IF n < Weeks - 1 THEN n ELSE Weeks - 1
    BY DEF Week, n, age
  <2>4. CASE n < Weeks - 1
    BY <1>1, <2>1, <2>2, <2>3, <2>4 DEF age
  <2>5. CASE n >= Weeks - 1
    BY <1>1, <2>1, <2>2, <2>3, <2>5 DEF age
  <2> QED
    BY <1>1, <2>2, <2>4, <2>5
<1>7. p \in [rows -> 1..Weeks]
  <2>1. ASSUME NEW j \in rows PROVE Weeks - Week(runs[j], Weeks) \in 1..Weeks
    BY <1>1, <1>6
  <2> QED
    BY <2>1
<1>8. ASSUME NEW i \in 1..Weeks
      PROVE  /\ {j \in all : Week(runs[j], Weeks) = Weeks - i} = Part(rows, p, i)
             /\ {j \in all : Week(runs[j], Weeks) = Weeks - i} \subseteq within(i)
  <2>1. Weeks - i \in Int /\ Weeks - i >= 0 /\ i \in Int
    BY <1>1
  <2>2. ASSUME NEW j \in all
        PROVE  /\ j \in rows <=> Week(runs[j], Weeks) >= 0
               /\ Week(runs[j], Weeks) = Weeks - i <=> j \in rows /\ p[j] = i
               /\ Week(runs[j], Weeks) = Weeks - i => j \in within(i)
    <3>1. Week(runs[j], Weeks) \in Int /\ (j \in rows <=> Week(runs[j], Weeks) >= 0)
      BY <1>6
    <3>2. ASSUME j \in rows
          PROVE  Week(runs[j], Weeks) = Weeks - i <=> p[j] = i
      <4>1. p[j] = Weeks - Week(runs[j], Weeks)
        BY <3>2
      <4> HIDE DEF p, rows
      <4> QED
        BY <1>1, <2>1, <3>1, <4>1
    <3>3. ASSUME Week(runs[j], Weeks) = Weeks - i PROVE j \in within(i)
      <4>1. j \in rows
        BY <2>1, <3>1, <3>3
      <4>2. trend[i].week_end <= runs[j].age /\ runs[j].age <= trend[i].week_start
        BY <1>4, <1>6, <2>1, <3>3
      <4> HIDE DEF rows
      <4> QED
        BY <4>1, <4>2
    <3>4. Week(runs[j], Weeks) = Weeks - i => j \in rows
      BY <2>1, <3>1
    <3> HIDE DEF rows, p, within
    <3> QED
      BY <3>1, <3>2, <3>3, <3>4
  <2>3. rows \subseteq all
    OBVIOUS
  <2> HIDE DEF rows, p, within
  <2> QED
    BY <2>2, <2>3 DEF Part
<1>9. ASSUME NEW i \in 1..Weeks
      PROVE  /\ f[i] = Cardinality(Part(rows, p, i)) /\ f[i] \in Nat
             /\ f[i] <= Cardinality(within(i))
  <2>1. f[i] = Cardinality({j \in all : Week(runs[j], Weeks) = Weeks - i})
    BY <1>4
  <2>2. within(i) \subseteq rows
    OBVIOUS
  <2>3. Part(rows, p, i) \subseteq within(i)
    BY <1>8
  <2>4. f[i] = Cardinality(Part(rows, p, i))
    BY <1>8, <2>1
  <2> HIDE DEF rows, p, within, f
  <2> QED
    BY <1>3, <2>2, <2>3, <2>4, CountsGrow
<1>10. f \in [1..Weeks -> Nat] /\ \A i \in 1..Weeks : f[i] = Cardinality(Part(rows, p, i))
  <2>1. f = [i \in 1..Weeks |-> f[i]]
    OBVIOUS
  <2> HIDE DEF f, p, rows
  <2> QED
    BY <1>9, <2>1
<1>11. Total(f) = Cardinality(rows)
  <2> DEFINE U == 1..Weeks
  <2>1. p \in [rows -> U] /\ f \in [U -> Nat] /\ \A i \in U : f[i] = Cardinality(Part(rows, p, i))
    BY <1>7, <1>10
  <2> HIDE DEF f, p, rows, U
  <2> QED
    BY ONLY <1>3, <2>1, TotalOfParts
<1>12. \A i \in 1..Weeks : trend[i].query_count <= Cardinality(within(i))
  <2>1. \A i \in 1..Weeks : f[i] = trend[i].query_count
    OBVIOUS
  <2> HIDE DEF f, within
  <2> QED
    BY <1>9, <2>1
<1> QED
  BY <1>5, <1>11, <1>12 DEF trend, all

-----------------------------------------------------------------------------
(***************************************************************************)
(* The gaps.                                                               *)
(***************************************************************************)
GapFields(g) == g.count \in Nat /\ g.last_asked \in Int /\ g.latest \in Nat

\* What is gathered of some runs is theirs.
LEMMA GapTells ==
    ASSUME runs \in Seq(Run), NEW asked, asked \subseteq DOMAIN runs, IsFiniteSet(asked), asked # {}
    PROVE  LET g == GapOf(runs, asked) IN
           /\ GapFields(g) /\ g.count = Cardinality(asked) /\ g.count > 0
           /\ g.latest \in asked /\ g.query = runs[g.latest].query
<1> DEFINE top == CHOOSE i \in asked : \A j \in asked : j <= i
           ages == {runs[i].age : i \in asked}
           least == CHOOSE n \in ages : \A m \in ages : n <= m
           g == GapOf(runs, asked)
<1>1. g = [query |-> runs[top].query, count |-> Cardinality(asked), latest |-> top, last_asked |-> least]
  BY DEF GapOf
<1>2. Cardinality(asked) \in Nat /\ Cardinality(asked) > 0
  BY FS_EmptySet, FS_CardinalityType
<1>3. Len(runs) \in Nat /\ DOMAIN runs = 1..Len(runs) /\ \A i \in DOMAIN runs : runs[i].age \in Int
  <2>1. Len(runs) \in Nat /\ DOMAIN runs = 1..Len(runs) /\ \A i \in DOMAIN runs : runs[i] \in Run
    BY SMT
  <2> QED
    BY <2>1 DEF Run
<1>4. asked \subseteq Nat /\ asked \subseteq Int
  BY <1>3
<1>5. top \in asked
  BY <1>4, GreatestOfFinite
<1>6. least \in ages
  <2>1. ages \subseteq Int /\ ages # {}
    BY <1>3
  <2>2. IsFiniteSet(ages)
    <3> DEFINE f == [i \in asked |-> runs[i].age]
    <3>1. f \in Surjection(asked, ages)
      BY DEF Surjection
    <3> QED
      BY <3>1, FS_Surjection
  <2> HIDE DEF ages
  <2> QED
    BY <2>1, <2>2, LeastOfFinite
<1>7. least \in Int
  BY <1>3, <1>6
<1> HIDE DEF top, least, ages, g
<1> QED
  BY <1>1, <1>2, <1>4, <1>5, <1>7 DEF GapFields, g

\* Two gaps stand one above the other.
LEMMA RanksIsAnOrder ==
    ASSUME NEW G, \A g \in G : GapFields(g), \A g, h \in G : g # h => g.latest # h.latest
    PROVE  /\ \A g \in G : ~Ranks(g, g)
           /\ \A g, h, i \in G : Ranks(g, h) /\ Ranks(h, i) => Ranks(g, i)
           /\ \A g, h \in G : g # h => Ranks(g, h) \/ Ranks(h, g)
BY DEF Ranks, GapFields

LEMMA TheGapsRank ==
    ASSUME NEW G, IsFiniteSet(G), NEW n \in Nat,
           \A g \in G : GapFields(g), \A g, h \in G : g # h => g.latest # h.latest,
           NEW out \in G, out \notin First(G, n, Ranks)
    PROVE  Cardinality(First(G, n, Ranks)) = n /\ \A g \in First(G, n, Ranks) : g.count >= out.count
<1> DEFINE R == {p \in G \X G : Ranks(p[1], p[2])}
           F == Leading(G, R, n)
<1>1. \A g, h \in G : <<g, h>> \in R <=> Ranks(g, h)
  OBVIOUS
<1> HIDE DEF R
<1>2. First(G, n, Ranks) = F
  <2>1. \A x \in G : {y \in G : Ranks(y, x)} = {y \in G : <<y, x>> \in R}
    BY <1>1
  <2>2. First(G, n, Ranks) = {x \in G : Cardinality({y \in G : Ranks(y, x)}) < n}
    BY DEF First
  <2> QED
    BY <2>1, <2>2 DEF Leading
<1>3. /\ \A g \in G : <<g, g>> \notin R
      /\ \A g, h, i \in G : <<g, h>> \in R /\ <<h, i>> \in R => <<g, i>> \in R
      /\ \A g, h \in G : g # h => <<g, h>> \in R \/ <<h, g>> \in R
  BY <1>1, RanksIsAnOrder
<1>4. Cardinality(F) = n /\ \A g \in F : <<g, out>> \in R
  <2>1. out \notin F
    BY <1>2
  <2> QED
    BY <1>3, <2>1, FirstOfRanking
<1>5. ASSUME NEW g \in F PROVE g.count >= out.count
  <2>1. g \in G /\ Ranks(g, out)
    BY <1>1, <1>4 DEF Leading
  <2>2. g.count \in Nat /\ out.count \in Nat
    BY <2>1 DEF GapFields
  <2>3. g.count > out.count \/ g.count = out.count
    BY <2>1 DEF Ranks
  <2> HIDE DEF F
  <2> QED
    BY <2>2, <2>3
<1> QED
  BY <1>2, <1>4, <1>5

LEMMA TheGapsAreWithoutSource == ASSUME runs \in Seq(Run) PROVE GapsAreGaps
<1> SUFFICES ASSUME NEW t \in Tenants
             PROVE
        LET gaps == KnowledgeGaps(runs, t, Days, Limit)
            without(k) == Cardinality({i \in Window(runs, t, Days) :
                              runs[i].sources = 0 /\ Key[runs[i].query] = k})
        IN  /\ \A g, h \in gaps : g # h => Key[g.query] # Key[h.query]
            /\ \A g \in gaps : g.count = without(Key[g.query]) /\ g.count > 0
            /\ \A q \in DOMAIN Key :
                   Key[q] # Blank /\ (\A g \in gaps : Key[g.query] # Key[q]) =>
                       \/ without(Key[q]) = 0
                       \/ Cardinality(gaps) = Limit /\ \A g \in gaps : g.count >= without(Key[q])
  BY DEF GapsAreGaps
<1> DEFINE all == Window(runs, t, Days)
           gaps == KnowledgeGaps(runs, t, Days, Limit)
           rows == {i \in all : IsGap(runs[i])}
           asked(k) == {i \in rows : Key[runs[i].query] = k}
           Keys == {Key[runs[i].query] : i \in rows}
           G == {GapOf(runs, asked(k)) : k \in Keys}
           unanswered(k) == {i \in all : runs[i].sources = 0 /\ Key[runs[i].query] = k}
<1>1. gaps = First(G, Limit, Ranks)
  BY DEF KnowledgeGaps
<1>2. all \subseteq DOMAIN runs /\ IsFiniteSet(all) /\ \A i \in all : runs[i] \in Run
  BY WindowIsRuns
<1> HIDE DEF all, gaps
<1>3. rows \subseteq DOMAIN runs /\ IsFiniteSet(rows)
  BY <1>2, FS_Subset
<1>4. ASSUME NEW k, k # Blank PROVE asked(k) = unanswered(k)
  BY <1>4 DEF IsGap
<1>5. \A k \in Keys : k # Blank /\ asked(k) # {}
  BY DEF IsGap
<1>6. ASSUME NEW k \in Keys
      PROVE  LET g == GapOf(runs, asked(k)) IN
             GapFields(g) /\ g.count = Cardinality(asked(k)) /\ g.count > 0
             /\ g.latest \in asked(k) /\ g.query = runs[g.latest].query /\ Key[g.query] = k
  <2>1. asked(k) \subseteq DOMAIN runs /\ IsFiniteSet(asked(k)) /\ asked(k) # {}
    BY <1>3, <1>5, FS_Subset
  <2>2. \A i \in asked(k) : Key[runs[i].query] = k
    OBVIOUS
  <2> HIDE DEF asked
  <2> QED
    BY <2>1, <2>2, GapTells
<1> HIDE DEF rows, asked
<1>8. \A g \in G : /\ GapFields(g) /\ g.count = Cardinality(asked(Key[g.query])) /\ g.count > 0
                   /\ Key[g.query] \in Keys /\ g.latest \in asked(Key[g.query])
                   /\ g = GapOf(runs, asked(Key[g.query]))
                   /\ Key[g.query] = Key[runs[g.latest].query]
  BY <1>6
<1>9. \A g, h \in G : g # h => Key[g.query] # Key[h.query] /\ g.latest # h.latest
  BY <1>8
<1>10. IsFiniteSet(G)
  <2> DEFINE f == [i \in rows |-> GapOf(runs, asked(Key[runs[i].query]))]
  <2>1. f \in Surjection(rows, G)
    BY DEF Surjection
  <2> HIDE DEF f, G
  <2> QED
    BY <1>3, <2>1, FS_Surjection
<1>11. Limit \in Nat
  BY PanelAssumption
<1>12. gaps \subseteq G
  BY <1>1 DEF First
<1>13. ASSUME NEW q \in DOMAIN Key, Key[q] # Blank, \A g \in gaps : Key[g.query] # Key[q]
       PROVE  \/ Cardinality(unanswered(Key[q])) = 0
              \/ Cardinality(gaps) = Limit /\ \A g \in gaps : g.count >= Cardinality(unanswered(Key[q]))
  <2> DEFINE k == Key[q]
             out == GapOf(runs, asked(k))
  <2>1. asked(k) = unanswered(k)
    BY <1>4, <1>13
  <2>2. CASE k \in Keys
    <3>1. out \in G /\ out \notin gaps /\ out.count = Cardinality(asked(k))
      BY <1>6, <1>13, <2>2
    <3> HIDE DEF out, G, k
    <3>2. Cardinality(gaps) = Limit /\ \A g \in gaps : g.count >= out.count
      BY <1>1, <1>8, <1>9, <1>10, <1>11, <3>1, TheGapsRank
    <3> QED
      BY <2>1, <3>1, <3>2 DEF k
  <2>3. CASE k \notin Keys
    <3>1. asked(k) = {}
      BY <2>3 DEF asked
    <3>2. Cardinality(asked(k)) = 0
      BY <3>1, FS_EmptySet
    <3> HIDE DEF k
    <3> QED
      BY <2>1, <3>2 DEF k
  <2> QED
    BY <2>2, <2>3
<1>14. \A g \in gaps : g.count = Cardinality(unanswered(Key[g.query])) /\ g.count > 0
  BY <1>4, <1>5, <1>8, <1>12
<1>15. \A g, h \in gaps : g # h => Key[g.query] # Key[h.query]
  BY <1>9, <1>12
<1> HIDE DEF G, Keys
<1> QED
  BY <1>13, <1>14, <1>15 DEF all, gaps

(***************************************************************************)
(* Whatever runs LangSmith holds, no panel of the dashboard drops, doubles *)
(* or misplaces one (get_org_stats, get_user_breakdown, get_users and      *)
(* get_feedback_trend).                                                    *)
(***************************************************************************)
THEOREM ThePanelsTellTheRuns == Spec => []PanelsTellTheRuns
<1>1. TypeInv => PanelsTellTheRuns
  BY PanelsAlwaysAgree, TheTrendShowsAll DEF TypeInv, PanelsTellTheRuns
<1> QED
  BY <1>1, CopilotIsTyped, PTL

(***************************************************************************)
(* Whatever runs LangSmith holds, the knowledge gaps are the questions     *)
(* that found no source, each once, and none left out was asked more often *)
(* than one that is shown (get_knowledge_gaps).                            *)
(***************************************************************************)
THEOREM TheGapsAreGaps == Spec => []GapsAreGaps
<1>1. TypeInv => GapsAreGaps
  BY TheGapsAreWithoutSource DEF TypeInv
<1> QED
  BY <1>1, CopilotIsTyped, PTL

-----------------------------------------------------------------------------
(***************************************************************************)
(* A talk runs down: a round of the model is taken, or else a call of its  *)
(* last answer is done, or else the call or the talk is one stage further. *)
(***************************************************************************)
Stage(pc) ==
    CASE pc = "idle" -> 4
      [] pc \in {"model", "call"} -> 3
      [] pc = "pipeline" -> 2
      [] pc = "log" -> 1
      [] pc \in {"answered", "failed"} -> 0

RunsDown(u, t) ==
    \/ u.rounds > t.rounds
    \/ u.rounds = t.rounds /\ Len(u.calls) < Len(t.calls)
    \/ u.rounds = t.rounds /\ u.calls = t.calls /\ Stage(u.pc) < Stage(t.pc)

RoundsOK(t) ==
    /\ t.rounds <= MaxIterations
    /\ t.pc = "model" => t.rounds < MaxIterations
    /\ t.pc = "idle" => t.rounds = 0

LEMMA StageFalls ==
    ASSUME NEW t \in Talk, RoundsOK(t), NEW pc \in Places, Stage(pc) < Stage(t.pc),
           pc # "idle", pc = "model" => t.pc = "idle"
    PROVE  RoundsOK([t EXCEPT !.pc = pc]) /\ RunsDown([t EXCEPT !.pc = pc], t)
<1>1. [t EXCEPT !.pc = pc].rounds = t.rounds
  BY DEF Talk
<1> QED
  BY <1>1, TalkFields, CopilotAssumption DEF RoundsOK, RunsDown

LEMMA CallIsDone ==
    ASSUME NEW t \in Talk, RoundsOK(t), t.pc # "idle", t.calls # <<>>, NEW acts \in Seq(Action)
    PROVE  RoundsOK(AfterCall(t, acts)) /\ RunsDown(AfterCall(t, acts), t)
<1> DEFINE next == CASE Tail(t.calls) # <<>>                                -> "call"
                     [] Tail(t.calls) = <<>> /\ t.rounds < MaxIterations    -> "model"
                     [] Tail(t.calls) = <<>> /\ t.rounds >= MaxIterations   -> "answered"
<1>1. t.calls \in Seq(Calls) /\ t.rounds \in Nat /\ MaxIterations \in Nat
  BY CopilotAssumption DEF Talk
<1>2. AfterCall(t, acts) = [t EXCEPT !.calls = Tail(t.calls), !.actions = t.actions \o acts, !.pc = next]
  BY DEF AfterCall
<1>3. next # "idle" /\ (next = "model" => t.rounds < MaxIterations)
  BY <1>1
<1> HIDE DEF next
<1>4. /\ AfterCall(t, acts).rounds = t.rounds /\ AfterCall(t, acts).pc = next
      /\ AfterCall(t, acts).calls = Tail(t.calls)
  BY <1>2 DEF Talk
<1>5. Len(Tail(t.calls)) < Len(t.calls)
  BY <1>1
<1> QED
  BY <1>1, <1>3, <1>4, <1>5 DEF RoundsOK, RunsDown

LEMMA TalkRunsDown ==
    ASSUME IInv, NEW a \in Admins, RoundsOK(talk[a]), Ask(a) \/ TalkStep(a)
    PROVE  \E u : Become(a, u) /\ RoundsOK(u) /\ RunsDown(u, talk[a])
<1> DEFINE t == talk[a]
<1>1. t \in Talk /\ effects[a] \in Seq(Effect)
  BY DEF IInv, TypeInv
<1>2. t.pc \in {"call", "pipeline", "log"} => t.calls # <<>>
  BY DEF IInv, AdminInv, CallWaits
<1>3. ASSUME NEW pc \in Places, Become(a, [t EXCEPT !.pc = pc]), Stage(pc) < Stage(t.pc),
             pc # "idle", pc = "model" => t.pc = "idle"
      PROVE  \E u : Become(a, u) /\ RoundsOK(u) /\ RunsDown(u, t)
  BY <1>1, <1>3, StageFalls
<1>4. ASSUME NEW acts \in Seq(Action), Become(a, AfterCall(t, acts)), t.pc # "idle", t.calls # <<>>
      PROVE  \E u : Become(a, u) /\ RoundsOK(u) /\ RunsDown(u, t)
  BY <1>1, <1>4, CallIsDone
<1> HIDE DEF t
<1>5. CASE Ask(a)
  BY <1>3, <1>5 DEF Ask, Stage, Places, t
<1>6. CASE ModelCalls(a)
  <2>1. PICK calls \in CallLists : Become(a, AskedFor(t, calls))
    BY <1>6 DEF ModelCalls, AskedFor, t
  <2>2. AskedFor(t, calls).rounds = t.rounds + 1 /\ t.rounds \in Nat
    BY <1>1 DEF AskedFor, Talk
  <2>3. AskedFor(t, calls).pc = "call"
    BY <1>1, <2>1, TalkAsksForTools, CopilotAssumption
  <2>4. t.rounds < MaxIterations
    BY <1>6 DEF ModelCalls, RoundsOK, t
  <2> QED
    BY <2>1, <2>2, <2>3, <2>4, CopilotAssumption DEF RoundsOK, RunsDown, t
<1>7. CASE ModelAnswers(a)
  BY <1>3, <1>7 DEF ModelAnswers, Stage, Places, t
<1>8. CASE ReadTool(a)
  <2>1. <<>> \in Seq(Action)
    OBVIOUS
  <2> QED
    BY <1>2, <1>4, <1>8, <2>1 DEF ReadTool, t
<1>9. CASE RetryRefused(a)
  <2>1. Pending(a).run \in Ids \cup {None}
    BY <1>1, <1>2, <1>9, RetriedRun DEF RetryRefused, Talk, t
  <2>2. <<[kind |-> "retry", refused |-> Pending(a).run]>> \in Seq(Action)
    BY <2>1 DEF Action
  <2> QED
    BY <1>2, <1>4, <1>9, <2>2 DEF RetryRefused, t
<1>10. CASE RetryBegins(a)
  BY <1>3, <1>10 DEF RetryBegins, Stage, Places, t
<1>11. CASE Pipeline(a)
  BY <1>3, <1>11 DEF Pipeline, Stage, Places, t
<1>12. CASE PipelineRaises(a)
  BY <1>3, <1>12 DEF PipelineRaises, Raise, Stage, Places, t
<1>13. CASE Notify(a)
  BY <1>3, <1>13 DEF Notify, Stage, Places, t
<1>14. CASE Log(a)
  <2>1. effects[a] # <<>>
    BY <1>14 DEF Log, IInv, AdminInv, EffectWaits
  <2>2. Last(effects[a]) \in Effect
    BY <1>1, <2>1 DEF Last
  <2>3. <<Last(effects[a])>> \in Seq(Action)
    BY <2>2 DEF Action
  <2> QED
    BY <1>2, <1>4, <1>14, <2>3 DEF Log, t
<1>15. CASE TalkFails(a)
  BY <1>3, <1>15 DEF TalkFails, Raise, Stage, Places, t
<1> QED
  BY <1>5, <1>6, <1>7, <1>8, <1>9, <1>10, <1>11, <1>12, <1>13, <1>14, <1>15 DEF TalkStep, t

LEMMA EveryTalkRunsDown ==
    ASSUME IInv, \A a \in Admins : RoundsOK(talk[a]), [Next]_vars
    PROVE  \A a \in Admins : /\ RoundsOK(talk'[a])
                             /\ talk'[a] = talk[a] \/ RunsDown(talk'[a], talk[a])
                             /\ TalkStep(a) => RunsDown(talk'[a], talk[a])
<1> SUFFICES ASSUME NEW a \in Admins
             PROVE  /\ RoundsOK(talk'[a])
                    /\ talk'[a] = talk[a] \/ RunsDown(talk'[a], talk[a])
                    /\ TalkStep(a) => RunsDown(talk'[a], talk[a])
  OBVIOUS
<1>1. talk \in [Admins -> Talk] /\ RoundsOK(talk[a])
  BY DEF IInv, TypeInv
<1>2. CASE Ask(a) \/ TalkStep(a)
  <2>1. PICK u : Become(a, u) /\ RoundsOK(u) /\ RunsDown(u, talk[a])
    BY <1>1, <1>2, TalkRunsDown
  <2>2. talk'[a] = u
    BY <1>1, <2>1 DEF Become
  <2> QED
    BY <2>1, <2>2
<1>3. CASE ~TalkStep(a) /\ talk'[a] = talk[a]
  BY <1>1, <1>3
<1>4. ASSUME NEW b \in Admins \ {a}, Ask(b) \/ TalkStep(b) PROVE talk'[a] = talk[a]
  <2>1. PICK u : Become(b, u)
    BY <1>4, TalkRunsDown
  <2> QED
    BY <1>1, <2>1 DEF Become
<1>5. CASE Restart
  <2>1. CASE talk[a].pc \in {"idle", "answered", "failed"}
    <3>1. talk'[a] = talk[a]
      BY <1>1, <1>5, <2>1 DEF Restart, Talk
    <3>2. ~TalkStep(a)
      BY <2>1 DEF TalkStep, ModelCalls, ModelAnswers, ReadTool, RetryRefused, RetryBegins,
                  Pipeline, PipelineRaises, Notify, Log, TalkFails
    <3> QED
      BY <1>3, <3>1, <3>2
  <2>2. CASE talk[a].pc \notin {"idle", "answered", "failed"}
    <3>1. talk'[a] = [talk[a] EXCEPT !.pc = "failed"]
      BY <1>5, <2>2 DEF Restart
    <3>2. "failed" \in Places /\ Stage("failed") < Stage(talk[a].pc)
      BY <1>1, <2>2 DEF Stage, Talk, Places
    <3> QED
      BY <1>1, <3>1, <3>2, StageFalls
  <2> QED
    BY <2>1, <2>2
<1>6. ASSUME NEW b \in Admins, RetryButton(b) \/ RateAnswer(Org[b]) PROVE talk'[a] = talk[a]
  BY <1>6 DEF RetryButton, RateAnswer
<1>7. CASE UNCHANGED vars
  BY <1>2, <1>3, <1>7 DEF vars
<1> QED
  BY <1>2, <1>3, <1>4, <1>5, <1>6, <1>7 DEF Next

(***************************************************************************)
(* A talk comes to no more than MaxIterations answers that call tools, and *)
(* every step of it, or the end of the process, runs it down: between two  *)
(* answers of the model the calls left become fewer, and the stages of a   *)
(* call have an order.  What remains for TalksEnd is that its awaits       *)
(* return or raise (run_copilot).                                          *)
(***************************************************************************)
THEOREM TalksAreBounded ==
    Spec => /\ [](\A a \in Admins : talk[a].rounds \in 0..MaxIterations)
            /\ [][\A a \in Admins : /\ talk'[a] = talk[a] \/ RunsDown(talk'[a], talk[a])
                                    /\ TalkStep(a) => RunsDown(talk'[a], talk[a])]_vars
<1> DEFINE Rounds == \A a \in Admins : RoundsOK(talk[a])
           Down == \A a \in Admins : /\ talk'[a] = talk[a] \/ RunsDown(talk'[a], talk[a])
                                     /\ TalkStep(a) => RunsDown(talk'[a], talk[a])
<1>1. Init => Rounds
  BY CopilotAssumption DEF Init, RoundsOK
<1>2. IInv /\ Rounds /\ [Next]_vars => Rounds' /\ [Down]_vars
  BY EveryTalkRunsDown
<1>3. IInv /\ Rounds => \A a \in Admins : talk[a].rounds \in 0..MaxIterations
  BY CopilotAssumption DEF IInv, TypeInv, Talk, RoundsOK
<1> QED
  BY <1>1, <1>2, <1>3, InvariantHolds, PTL DEF Spec
=============================================================================
