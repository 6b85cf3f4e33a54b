---------------------------- MODULE SemanticCache ----------------------------
(***************************************************************************)
(* The process-local semantic answer cache, services/cache_service.py.     *)
(*                                                                         *)
(* The module-level dict _cache maps a scope, the verified triple          *)
(* (tenant_id, user_id, is_admin) of a request, to a list of entries kept  *)
(* in the order they were stored.  A missing key and an empty list behave  *)
(* alike and are both the empty sequence here.                             *)
(*                                                                         *)
(* Data abstraction.  A question stands for one class of embeddings whose  *)
(* cosine similarity reaches SIMILARITY_THRESHOLD, so two entries match a  *)
(* query alike and Python's max() returns the earliest of them.  An answer *)
(* is the set of documents it cites.  time.monotonic() is replaced by the  *)
(* age of an entry, which saturates at TTL: nothing distinguishes an entry *)
(* that expired from one that expired long ago.                            *)
(***************************************************************************)
EXTENDS Naturals, Sequences, FiniteSets

CONSTANTS
    Contexts,    \* request contexts [tenant, user, admin]; also the scopes
    Docs,        \* document ids
    Questions,   \* classes of similar standalone questions
    TTL,         \* TTL_SECONDS, in ticks
    MaxEntries   \* MAX_ENTRIES_PER_SCOPE

ASSUME CacheAssumption == TTL \in Nat \ {0} /\ MaxEntries \in Nat \ {0}

VARIABLE cache   \* [Contexts -> Seq(Entry)]

Entry == [q : Questions, srcs : SUBSET Docs, age : 0..TTL]

Live(e) == e.age < TTL

NoAnswers == [s \in Contexts |-> <<>>]

CacheInit == cache = NoAnswers

(***************************************************************************)
(* _prune_expired keeps the entries younger than the TTL.  Entries are     *)
(* appended as time passes, so what it keeps is a suffix (OldestFirst      *)
(* below is checked and proved): Cuts holds the place that suffix starts.  *)
(***************************************************************************)
Cuts(entries) ==
    {k \in 1..(Len(entries) + 1) :
        /\ \A i \in 1..(k - 1) : ~Live(entries[i])
        /\ \A i \in k..Len(entries) : Live(entries[i])}

Suffix(entries, k) == SubSeq(entries, k, Len(entries))

Matches(entries, q) == {i \in 1..Len(entries) : entries[i].q = q}

\* Variant for fault injection: a hit renews the entry it returns.
LookupHitRenews(s, q, i) ==
    \E k \in Cuts(cache[s]) :
        LET live == Suffix(cache[s], k) IN
        /\ i \in Matches(live, q)
        /\ cache' = [cache EXCEPT ![s] = [live EXCEPT ![i].age = 0]]

\* lookup() writes the pruned list back, whether or not it then finds a match.
LookupHit(s, q, i) ==
    \E k \in Cuts(cache[s]) :
        LET live == Suffix(cache[s], k) IN
        /\ i \in Matches(live, q)
        /\ \A j \in Matches(live, q) : i <= j
        /\ cache' = [cache EXCEPT ![s] = live]

LookupMiss(s, q) ==
    \E k \in Cuts(cache[s]) :
        LET live == Suffix(cache[s], k) IN
        /\ Matches(live, q) = {}
        /\ cache' = [cache EXCEPT ![s] = live]

\* Variants for fault injection: the cap is off by one, either way; new answers
\* go first.
EvictOldestEarly(entries) ==
    IF Len(entries) > MaxEntries
    THEN SubSeq(entries, Len(entries) - MaxEntries + 2, Len(entries))
    ELSE entries

EvictOldestLate(entries) ==
    IF Len(entries) > MaxEntries + 1
    THEN SubSeq(entries, Len(entries) - MaxEntries + 1, Len(entries))
    ELSE entries

StoreFirst(s, q, srcs) ==
    cache' = [cache EXCEPT
                 ![s] = LET all == <<[q |-> q, srcs |-> srcs, age |-> 0]>> \o @
                        IN  IF Len(all) > MaxEntries THEN SubSeq(all, 1, MaxEntries) ELSE all]

\* store() appends, then drops the oldest entries beyond the scope's cap.
EvictOldest(entries) ==
    IF Len(entries) > MaxEntries
    THEN SubSeq(entries, Len(entries) - MaxEntries + 1, Len(entries))
    ELSE entries

Store(s, q, srcs) ==
    cache' = [cache EXCEPT
                 ![s] = EvictOldest(Append(@, [q |-> q, srcs |-> srcs, age |-> 0]))]

\* Variant for fault injection: only the admin scopes of the tenant are dropped.
InvalidateAdmins(t) ==
    cache' = [s \in Contexts |-> IF s.tenant = t /\ s.admin THEN <<>> ELSE cache[s]]

InvalidateTenant(t) ==
    cache' = [s \in Contexts |-> IF s.tenant = t THEN <<>> ELSE cache[s]]

\* Time passes: every entry grows older by one tick.
Older(e) == [e EXCEPT !.age = IF @ < TTL THEN @ + 1 ELSE @]

Age == cache' = [s \in Contexts |-> [i \in 1..Len(cache[s]) |-> Older(cache[s][i])]]

-----------------------------------------------------------------------------

CacheTypeOK == cache \in [Contexts -> Seq(Entry)]

(***************************************************************************)
(* No scope ever holds more than MAX_ENTRIES_PER_SCOPE answers, and each   *)
(* list stays sorted from oldest to newest, which is what both the eviction *)
(* "del entries[:len - MAX]" (comment: "Oldest evicted first") and the     *)
(* preference of max() for the earliest match silently rely on.            *)
(***************************************************************************)
CacheBounded == \A s \in Contexts : Len(cache[s]) <= MaxEntries

OldestFirst ==
    \A s \in Contexts : \A i, j \in 1..Len(cache[s]) :
        i <= j => cache[s][j].age <= cache[s][i].age

(***************************************************************************)
(* A lookup or a store never costs a scope a live answer it need not lose: *)
(* their number drops only when time passes or the scope is emptied.       *)
(***************************************************************************)
LiveCount(entries) == Cardinality({i \in 1..Len(entries) : Live(entries[i])})

LiveAnswersStay ==
    [][\A s \in Contexts :
           LiveCount(cache'[s]) < LiveCount(cache[s]) => cache'[s] = <<>> \/ Age]_cache

-----------------------------------------------------------------------------
(***************************************************************************)
(* The cache on its own, called in any order by any number of requests.    *)
(***************************************************************************)
CacheNext ==
    \/ \E s \in Contexts, q \in Questions :
        \/ \E i \in 1..Len(cache[s]) : LookupHit(s, q, i)
        \/ LookupMiss(s, q)
        \/ \E srcs \in SUBSET Docs : Store(s, q, srcs)
    \/ \E s \in Contexts : InvalidateTenant(s.tenant)
    \/ Age

CacheSpec == CacheInit /\ [][CacheNext]_cache
=============================================================================
