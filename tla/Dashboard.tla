----------------------------- MODULE Dashboard -----------------------------
(***************************************************************************)
(* What the admin dashboard computes from the LangSmith runs of a tenant:  *)
(* services/admin_service.py and get_users of api/admin.py.  Nothing here  *)
(* changes state; each operator is one function of the code.               *)
(*                                                                         *)
(* Data abstraction.  A run is one question through the chat pipeline.  It *)
(* started a whole number of days ago (age); -1 is a run that started      *)
(* after the dashboard looked at its clock and before LangSmith answered.  *)
(* Seconds and cents are integers.  A rate is a pair, numerator and        *)
(* denominator.  A question is a spelling; Key gives what lower() and      *)
(* strip() leave of it, Blank if that is nothing.  Rows are the ids of     *)
(* runs: LangSmith lists the newest, which has the highest id, first.      *)
(***************************************************************************)
EXTENDS Integers, Sequences, FiniteSets

CONSTANTS
    Edges,          \* LATENCY_BUCKET_EDGES_S
    MaxRuns,        \* MAX_RUNS_PER_QUERY
    PageSize,       \* LANGSMITH_PAGE_SIZE
    Key,            \* [spelling -> what it is grouped by]
    Blank,
    None

ASSUME DashboardAssumption ==
    /\ Edges \in Seq(Nat) /\ \A i, j \in 1..Len(Edges) : i < j => Edges[i] < Edges[j]
    /\ MaxRuns \in Nat \ {0} /\ PageSize \in Nat \ {0}

\* A list cut after n, as the set it shows: what has fewer than n before it.
First(S, n, Before(_, _)) == {x \in S : Cardinality({y \in S : Before(y, x)}) < n}

Newer(i, j) == i > j

\* The sum of a function into Nat, counted so that no recursion is needed.
Total(f) == Cardinality(UNION {{x} \X (1..f[x]) : x \in DOMAIN f})

Rate(a, b) == IF b = 0 THEN <<0, 1>> ELSE <<a, b>>

\* list_runs of LangSmith: a tenant's runs of the last days.
ListRuns(runs, t, days) == {i \in DOMAIN runs : runs[i].tenant = t /\ runs[i].age <= days}

Window(runs, t, days) == First(ListRuns(runs, t, days), MaxRuns, Newer)

Latencies(runs, rows) == [i \in {j \in rows : runs[j].latency # None} |-> runs[i].latency]
Cost(runs, rows) == Total([i \in rows |-> runs[i].cost])

-----------------------------------------------------------------------------
\* The n-th of the sorted values of f.
Nth(f, n) ==
    CHOOSE v \in {f[i] : i \in DOMAIN f} :
        /\ Cardinality({i \in DOMAIN f : f[i] < v}) < n
        /\ n <= Cardinality({i \in DOMAIN f : f[i] <= v})

\* _latency_stats, as hundredths of a second: statistics.quantiles(n=100) cuts
\* between the sorted values, and beyond them if they are few.
Cut(f, i) ==
    LET n == Cardinality(DOMAIN f)
        pos == (i * (n + 1)) \div 100
        j == IF pos < 1 THEN 1 ELSE IF pos > n - 1 THEN n - 1 ELSE pos
        delta == i * (n + 1) - j * 100
    IN  Nth(f, j) * (100 - delta) + Nth(f, j + 1) * delta

Median(f) ==
    LET n == Cardinality(DOMAIN f)
    IN  50 * (Nth(f, (n + 1) \div 2) + Nth(f, (n + 2) \div 2))

LatencyStats(latencies) ==
    LET n == Cardinality(DOMAIN latencies)
        only == 100 * Nth(latencies, 1)
    IN  CASE n = 0 -> [p50 |-> 0, p95 |-> 0, p99 |-> 0]
          [] n = 1 -> [p50 |-> only, p95 |-> only, p99 |-> only]
          [] n > 1 -> [p50 |-> Median(latencies), p95 |-> Cut(latencies, 95), p99 |-> Cut(latencies, 99)]

\* bisect_right, and its twin for fault injection: a value on an edge.
BucketLeft(v) == 1 + Cardinality({e \in DOMAIN Edges : Edges[e] < v})
Bucket(v)     == 1 + Cardinality({e \in DOMAIN Edges : Edges[e] <= v})

Histogram(latencies) ==
    [b \in 1..(Len(Edges) + 1) |-> Cardinality({i \in DOMAIN latencies : Bucket(latencies[i]) = b})]

\* _feedback_stats: every rating of every run counts, up to the cap.
FeedbackStats(runs, rows) ==
    LET given == UNION {{i} \X DOMAIN runs[i].scores : i \in rows}
        entries == First(given, MaxRuns, LAMBDA x, y : x[1] > y[1] \/ (x[1] = y[1] /\ x[2] < y[2]))
        positive == {x \in entries : runs[x[1]].scores[x[2]]}
    IN  [count |-> Cardinality(entries), rate |-> Rate(Cardinality(positive), Cardinality(entries))]

OrgStats(runs, t, days) ==
    LET rows   == Window(runs, t, days)
        errors == {i \in rows : runs[i].error}
        tagged == {i \in rows : runs[i].cache # None}
        hits   == {i \in tagged : runs[i].cache}
        misses == tagged \ hits
    IN  [query_count |-> Cardinality(rows),
         error_rate |-> Rate(Cardinality(errors), Cardinality(rows)),
         total_cost |-> Cost(runs, rows),
         latency |-> LatencyStats(Latencies(runs, rows)),
         histogram |-> Histogram(Latencies(runs, rows)),
         feedback |-> FeedbackStats(runs, rows),
         cache_hit_rate |-> Rate(Cardinality(hits), Cardinality(tagged)),
         estimated_cost_saved |-> Rate(Cost(runs, misses) * Cardinality(hits), Cardinality(misses))]

-----------------------------------------------------------------------------
\* min(days // 7, weeks - 1): // rounds down, also below zero.
Week(r, weeks) == IF r.age \div 7 < weeks - 1 THEN r.age \div 7 ELSE weeks - 1

\* get_feedback_trend: rolling weeks, the oldest first, in days before now.
FeedbackTrend(runs, t, weeks) ==
    [i \in 1..weeks |->
        LET w == weeks - i
            rows == {j \in Window(runs, t, 7 * weeks) : Week(runs[j], weeks) = w}
        IN  [week_start |-> 7 * w + 7, week_end |-> 7 * w,
             query_count |-> Cardinality(rows), feedback |-> FeedbackStats(runs, rows)]]

\* get_recent_errors: a page of failed runs, sorted by their start.
RecentErrors(runs, t, limit) ==
    First({i \in DOMAIN runs : runs[i].tenant = t /\ runs[i].error},
          IF limit < PageSize THEN limit ELSE PageSize, Newer)

UserRow(runs, rows) ==
    [query_count |-> Cardinality(rows), total_cost |-> Cost(runs, rows), latencies |-> Latencies(runs, rows)]

\* get_user_breakdown; a run without a user counts for "unknown", here None.
UserBreakdown(runs, t, days) ==
    LET rows == Window(runs, t, days)
    IN  [u \in {runs[i].user : i \in rows} |-> UserRow(runs, {i \in rows : runs[i].user = u})]

\* get_users: who is not a member now is not shown.
MemberRows(runs, t, days, members) ==
    LET breakdown == UserBreakdown(runs, t, days)
    IN  [u \in members |-> IF u \in DOMAIN breakdown THEN breakdown[u] ELSE UserRow(runs, {})]

\* Tagged with no source, and a question at all.
IsGap(r) == r.sources = 0 /\ Key[r.query] # Blank

\* Variant for fault injection: sorted the other way round.
RanksLower(g, h) == g.count < h.count \/ (g.count = h.count /\ g.latest > h.latest)

\* (count, last_asked), reversed; sorted() keeps the order of what is equal, and
\* the rows come newest first.
Ranks(g, h) ==
    \/ g.count > h.count
    \/ g.count = h.count /\ g.last_asked < h.last_asked
    \/ g.count = h.count /\ g.last_asked = h.last_asked /\ g.latest > h.latest

\* What is gathered of the runs that asked the same: the spelling of the latest,
\* and how few days ago it was asked last.
GapOf(runs, asked) ==
    LET latest == CHOOSE i \in asked : \A j \in asked : j <= i
        ages == {runs[i].age : i \in asked}
    IN  [query |-> runs[latest].query, count |-> Cardinality(asked), latest |-> latest,
         last_asked |-> CHOOSE n \in ages : \A m \in ages : n <= m]

\* get_knowledge_gaps
KnowledgeGaps(runs, t, days, limit) ==
    LET rows == {i \in Window(runs, t, days) : IsGap(runs[i])}
        asked(k) == {i \in rows : Key[runs[i].query] = k}
    IN  First({GapOf(runs, asked(k)) : k \in {Key[runs[i].query] : i \in rows}}, limit, Ranks)
=============================================================================
