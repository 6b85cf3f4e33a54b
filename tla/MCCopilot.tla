------------------------------ MODULE MCCopilot ------------------------------
(* A TLC instance of Copilot: one admin and a few runs of two organizations. *)
EXTENDS Copilot

CONSTANTS t1, t2, amy, ben, Asked, ASKED, Other

TwoOrgs == {t1, t2}
OneAdmin == {amy}
InOrg1 == [a \in {amy} |-> t1]
Colleagues == {amy, ben}
Spelled == [q \in {Asked, ASKED, Other, Blank} |-> IF q = ASKED THEN Asked ELSE q]

TwoEdges == <<2, 5>>

RunOf(user, query, age, latency, cost, cache, sources, scores) ==
    [tenant |-> t1, user |-> user, query |-> query, age |-> age, latency |-> latency,
     cost |-> cost, error |-> latency = None, cache |-> cache, sources |-> sources, scores |-> scores]

\* Answers, a gap in two spellings, a cache hit, a guardrail, a failure, the
\* edges of the window and of the buckets.
Gap      == RunOf(amy, Asked, 14, 2, 3, FALSE, 0, <<TRUE, FALSE>>)
GapAgain == RunOf(ben, ASKED, 7, 5, 2, FALSE, 0, <<>>)
Found    == RunOf(ben, Other, 7, 1, 4, FALSE, 1, <<TRUE>>)
Hit      == RunOf(amy, Other, 3, 1, 0, TRUE, 1, <<>>)
Blocked  == RunOf(None, Asked, 3, 9, 0, None, None, <<>>)
Failed   == RunOf(ben, Blank, 0, None, 1, FALSE, 0, <<>>)
Foreign  == [RunOf(ben, ASKED, 0, None, 0, None, None, <<>>) EXCEPT !.tenant = t2]
Later    == RunOf(amy, Asked, -1, 3, 1, FALSE, 0, <<>>)

SomeHistories == {
    <<>>, <<Failed, Foreign>>, <<Gap, GapAgain, Failed>>, <<Gap, Found, Later>>,
    <<Found, Hit, Failed>>, <<GapAgain, Found, Blocked>>, <<Gap, Blocked, Foreign>>}

FoundOrNot == {[cache |-> FALSE, sources |-> 0], [cache |-> TRUE, sources |-> 1]}

Read == [tool |-> "read"]
Mail == [tool |-> "notify"]
Retry(id) == [tool |-> "retry", run |-> id]

SomeCalls == {<<Read>>, <<Retry(1), Mail>>, <<Retry(2), Retry(None)>>}
=============================================================================
