-------------------------- MODULE RagSystemProofs ---------------------------
(***************************************************************************)
(* Proofs about the answer cache and the system that uses it, for all      *)
(* contexts, documents, questions, numbers of handlers and requests in     *)
(* flight, every TTL and every cap.                                        *)
(***************************************************************************)
EXTENDS RagSystem, SequenceTheorems, FiniteSetTheorems, TLAPS

-----------------------------------------------------------------------------
(***************************************************************************)
(* The cache: what each of its operations preserves.                       *)
(***************************************************************************)

\* A well-formed cache: typed, within its caps, sorted from oldest to newest.
CacheOK == CacheTypeOK /\ CacheBounded /\ OldestFirst

\* A step that adds no answer: what is cited afterwards was cited before.
NoNewAnswers ==
    \A s \in Contexts : \A i \in 1..Len(cache'[s]) : \E j \in 1..Len(cache[s]) :
        cache'[s][i].srcs = cache[s][j].srcs

\* A step that may add one answer, with sources srcs, to scope s.
OnlyNewAnswer(s, srcs) ==
    \A t \in Contexts : \A i \in 1..Len(cache'[t]) :
        \/ t = s /\ cache'[t][i].srcs = srcs
        \/ \E j \in 1..Len(cache[t]) : cache'[t][i].srcs = cache[t][j].srcs

\* A suffix of a list of entries is a list of entries, shifted.
LEMMA SuffixIsShift ==
    ASSUME NEW e \in Seq(Entry), NEW k \in 1..(Len(e) + 1)
    PROVE  /\ Suffix(e, k) \in Seq(Entry)
           /\ Len(Suffix(e, k)) = Len(e) - k + 1
           /\ \A i \in 1..Len(Suffix(e, k)) :
                 k + i - 1 \in 1..Len(e) /\ Suffix(e, k)[i] = e[k + i - 1]
<1>1. \A i \in k..Len(e) : e[i] \in Entry
  BY ElementOfSeq
<1>2. k \in Int /\ Len(e) \in Int /\ Len(e) >= 0 /\ k >= 1 /\ k <= Len(e) + 1
  BY LenProperties
<1>3. /\ SubSeq(e, k, Len(e)) \in Seq(Entry)
      /\ Len(SubSeq(e, k, Len(e))) = IF k <= Len(e) THEN Len(e) - k + 1 ELSE 0
      /\ \A i \in 1..(Len(e) - k + 1) : SubSeq(e, k, Len(e))[i] = e[k + i - 1]
  BY <1>1, <1>2, SubSeqProperties
<1>4. QED
  BY <1>2, <1>3 DEF Suffix


\* Writing a suffix of one scope's list back keeps the cache well formed and
\* adds no answer.
LEMMA PruneKeeps ==
    ASSUME CacheOK, NEW s \in Contexts, NEW k \in 1..(Len(cache[s]) + 1),
           cache' = [cache EXCEPT ![s] = Suffix(cache[s], k)]
    PROVE  CacheOK' /\ NoNewAnswers
<1>1. cache[s] \in Seq(Entry)
  BY DEF CacheOK, CacheTypeOK
<1>2. /\ Suffix(cache[s], k) \in Seq(Entry)
      /\ Len(Suffix(cache[s], k)) = Len(cache[s]) - k + 1
      /\ \A i \in 1..Len(Suffix(cache[s], k)) :
            /\ k + i - 1 \in 1..Len(cache[s])
            /\ Suffix(cache[s], k)[i] = cache[s][k + i - 1]
  BY <1>1, SuffixIsShift
<1>3. CacheTypeOK'
  BY <1>2 DEF CacheOK, CacheTypeOK
<1>4. CacheBounded'
  <2> SUFFICES ASSUME NEW t \in Contexts PROVE Len(cache'[t]) <= MaxEntries
    BY DEF CacheBounded
  <2>1. Len(cache[t]) <= MaxEntries /\ Len(cache[t]) \in Nat
    BY LenProperties DEF CacheOK, CacheTypeOK, CacheBounded
  <2>2. CASE t = s
    BY <1>2, <2>1, <2>2, CacheAssumption DEF CacheOK, CacheTypeOK
  <2>3. CASE t # s
    BY <2>1, <2>3 DEF CacheOK, CacheTypeOK
  <2>4. QED
    BY <2>2, <2>3
<1>5. OldestFirst'
  <2> SUFFICES ASSUME NEW t \in Contexts, NEW i \in 1..Len(cache'[t]),
                      NEW j \in 1..Len(cache'[t]), i <= j
               PROVE  cache'[t][j].age <= cache'[t][i].age
    BY DEF OldestFirst
  <2>1. CASE t = s
    <3>1. /\ cache'[t][i] = cache[s][k + i - 1] /\ k + i - 1 \in 1..Len(cache[s])
          /\ cache'[t][j] = cache[s][k + j - 1] /\ k + j - 1 \in 1..Len(cache[s])
      BY <1>2, <2>1 DEF CacheOK, CacheTypeOK
    <3>2. k + i - 1 <= k + j - 1
      OBVIOUS
    <3>3. QED
      BY <3>1, <3>2 DEF CacheOK, OldestFirst
  <2>2. CASE t # s
    BY <2>2 DEF CacheOK, CacheTypeOK, OldestFirst
  <2>3. QED
    BY <2>1, <2>2
<1>6. NoNewAnswers
  <2> SUFFICES ASSUME NEW t \in Contexts, NEW i \in 1..Len(cache'[t])
               PROVE  \E j \in 1..Len(cache[t]) : cache'[t][i].srcs = cache[t][j].srcs
    BY DEF NoNewAnswers
  <2>1. CASE t = s
    BY <1>2, <2>1 DEF CacheOK, CacheTypeOK
  <2>2. CASE t # s
    BY <2>2 DEF CacheOK, CacheTypeOK
  <2>3. QED
    BY <2>1, <2>2
<1>7. QED
  BY <1>3, <1>4, <1>5, <1>6 DEF CacheOK

\* lookup(): a miss and a hit only prune, and the answer a hit returns was
\* cached under the very scope that asked.
LEMMA LookupMissKeeps ==
    ASSUME CacheOK, NEW s \in Contexts, NEW q, LookupMiss(s, q)
    PROVE  CacheOK' /\ NoNewAnswers
<1>1. PICK k \in Cuts(cache[s]) : cache' = [cache EXCEPT ![s] = Suffix(cache[s], k)]
  BY DEF LookupMiss
<1>2. k \in 1..(Len(cache[s]) + 1)
  BY DEF Cuts
<1>3. QED
  BY <1>1, <1>2, PruneKeeps

LEMMA LookupHitKeeps ==
    ASSUME CacheOK, NEW s \in Contexts, NEW q, NEW i, LookupHit(s, q, i)
    PROVE  CacheOK' /\ NoNewAnswers /\ i \in 1..Len(cache'[s])
<1>1. PICK k \in Cuts(cache[s]) :
         /\ i \in Matches(Suffix(cache[s], k), q)
         /\ cache' = [cache EXCEPT ![s] = Suffix(cache[s], k)]
  BY DEF LookupHit
<1>2. k \in 1..(Len(cache[s]) + 1)
  BY DEF Cuts
<1>3. cache'[s] = Suffix(cache[s], k)
  BY <1>1 DEF CacheOK, CacheTypeOK
<1>4. i \in 1..Len(cache'[s])
  BY <1>1, <1>3 DEF Matches
<1>5. QED
  BY <1>1, <1>2, <1>4, PruneKeeps

\* store(): eviction keeps the newest MAX_ENTRIES_PER_SCOPE entries.
LEMMA EvictionKeepsNewest ==
    ASSUME NEW e \in Seq(Entry)
    PROVE  /\ EvictOldest(e) \in Seq(Entry)
           /\ Len(EvictOldest(e)) <= MaxEntries
           /\ \E n \in Nat : \A i \in 1..Len(EvictOldest(e)) :
                 n + i \in 1..Len(e) /\ EvictOldest(e)[i] = e[n + i]
<1>1. Len(e) \in Nat /\ MaxEntries \in Nat \ {0}
  BY LenProperties, CacheAssumption
<1>2. CASE Len(e) > MaxEntries
  <2>1. PICK k \in 1..(Len(e) + 1) : k = Len(e) - MaxEntries + 1
    <3>1. Len(e) - MaxEntries + 1 \in 1..(Len(e) + 1)
      BY <1>1, <1>2
    <3>2. QED
      BY <3>1, Zenon
  <2>2. EvictOldest(e) = Suffix(e, k)
    BY <1>2, <2>1 DEF EvictOldest, Suffix
  <2>3. /\ Suffix(e, k) \in Seq(Entry)
        /\ Len(Suffix(e, k)) = Len(e) - k + 1
        /\ \A i \in 1..Len(Suffix(e, k)) :
              k + i - 1 \in 1..Len(e) /\ Suffix(e, k)[i] = e[k + i - 1]
    BY SuffixIsShift
  <2>4. Len(EvictOldest(e)) = MaxEntries
    BY <1>1, <2>1, <2>2, <2>3
  <2>5. PICK n \in Nat : n = k - 1
    <3>1. k - 1 \in Nat
      BY <1>1
    <3>2. QED
      BY <3>1, Zenon
  <2>6. \A i \in 1..Len(EvictOldest(e)) :
           n + i \in 1..Len(e) /\ EvictOldest(e)[i] = e[n + i]
    <3> SUFFICES ASSUME NEW i \in 1..Len(EvictOldest(e))
                 PROVE  n + i \in 1..Len(e) /\ EvictOldest(e)[i] = e[n + i]
      OBVIOUS
    <3>1. n + i = k + i - 1
      BY <1>1, <2>4, <2>5
    <3>2. QED
      BY <2>2, <2>3, <3>1
  <2>7. \E m \in Nat : \A i \in 1..Len(EvictOldest(e)) :
           m + i \in 1..Len(e) /\ EvictOldest(e)[i] = e[m + i]
    BY <2>6, Zenon
  <2>8. EvictOldest(e) \in Seq(Entry) /\ Len(EvictOldest(e)) <= MaxEntries
    BY <1>1, <2>2, <2>3, <2>4
  <2>9. QED
    BY <2>7, <2>8
<1>3. CASE ~(Len(e) > MaxEntries)
  <2>1. EvictOldest(e) = e
    BY <1>3 DEF EvictOldest
  <2>2. \A i \in 1..Len(e) : 0 + i \in 1..Len(e) /\ e[i] = e[0 + i]
    BY <1>1
  <2>3. QED
    BY <1>1, <1>3, <2>1, <2>2
<1>4. QED
  BY <1>2, <1>3

LEMMA StoreKeeps ==
    ASSUME CacheOK, NEW s \in Contexts, NEW q \in Questions, NEW srcs \in SUBSET Docs,
           Store(s, q, srcs)
    PROVE  CacheOK' /\ OnlyNewAnswer(s, srcs)
<1> DEFINE new == [q |-> q, srcs |-> srcs, age |-> 0]
           longer == Append(cache[s], new)
<1>1. cache[s] \in Seq(Entry) /\ Len(cache[s]) \in Nat
  BY LenProperties DEF CacheOK, CacheTypeOK
<1>2. new \in Entry /\ new.age = 0 /\ new.srcs = srcs
  BY CacheAssumption DEF Entry
<1> HIDE DEF new
<1>3. /\ longer \in Seq(Entry)
      /\ Len(longer) = Len(cache[s]) + 1
      /\ \A i \in 1..Len(cache[s]) : longer[i] = cache[s][i]
      /\ longer[Len(cache[s]) + 1] = new
  BY <1>1, <1>2, AppendProperties
<1> HIDE DEF longer
<1>4. PICK n \in Nat : \A i \in 1..Len(EvictOldest(longer)) :
         n + i \in 1..Len(longer) /\ EvictOldest(longer)[i] = longer[n + i]
  BY <1>3, EvictionKeepsNewest
<1>5. EvictOldest(longer) \in Seq(Entry) /\ Len(EvictOldest(longer)) <= MaxEntries
  BY <1>3, EvictionKeepsNewest
<1>6. cache' = [cache EXCEPT ![s] = EvictOldest(longer)]
  BY DEF Store, longer, new
<1>7. CacheTypeOK'
  BY <1>5, <1>6 DEF CacheOK, CacheTypeOK
<1>8. CacheBounded'
  BY <1>5, <1>6 DEF CacheOK, CacheTypeOK, CacheBounded
<1>9. OldestFirst'
  <2> SUFFICES ASSUME NEW t \in Contexts, NEW i \in 1..Len(cache'[t]),
                      NEW j \in 1..Len(cache'[t]), i <= j
               PROVE  cache'[t][j].age <= cache'[t][i].age
    BY DEF OldestFirst
  <2>1. CASE t = s
    <3>1. /\ cache'[t][i] = longer[n + i] /\ n + i \in 1..Len(longer)
          /\ cache'[t][j] = longer[n + j] /\ n + j \in 1..Len(longer)
      BY <1>4, <1>6, <2>1 DEF CacheOK, CacheTypeOK
    <3>2. longer[n + i].age \in 0..TTL
      <4>1. longer[n + i] \in Entry
        BY <1>3, <3>1, ElementOfSeq
      <4>2. QED
        BY <4>1 DEF Entry
    <3>3. CASE n + j = Len(cache[s]) + 1
      BY <1>2, <1>3, <3>1, <3>2, <3>3, CacheAssumption
    <3>4. CASE n + j # Len(cache[s]) + 1
      <4>1. n + i \in 1..Len(cache[s]) /\ n + j \in 1..Len(cache[s]) /\ n + i <= n + j
        <5>1. Len(cache'[t]) \in Nat
          BY <1>7, LenProperties DEF CacheTypeOK
        <5>2. i \in Int /\ j \in Int
          BY <5>1
        <5>3. n + i \in 1..(Len(cache[s]) + 1) /\ n + j \in 1..(Len(cache[s]) + 1)
          BY <1>3, <3>1
        <5>4. QED
          BY <1>1, <3>4, <5>2, <5>3
      <4>2. cache[s][n + j].age <= cache[s][n + i].age
        BY <4>1 DEF CacheOK, OldestFirst
      <4>3. QED
        BY <1>3, <3>1, <4>1, <4>2
    <3>5. QED
      BY <3>3, <3>4
  <2>2. CASE t # s
    BY <1>6, <2>2 DEF CacheOK, CacheTypeOK, OldestFirst
  <2>3. QED
    BY <2>1, <2>2
<1>10. OnlyNewAnswer(s, srcs)
  <2> SUFFICES ASSUME NEW t \in Contexts, NEW i \in 1..Len(cache'[t])
               PROVE  \/ t = s /\ cache'[t][i].srcs = srcs
                      \/ \E j \in 1..Len(cache[t]) : cache'[t][i].srcs = cache[t][j].srcs
    BY DEF OnlyNewAnswer
  <2>1. CASE t = s
    <3>1. cache'[t][i] = longer[n + i] /\ n + i \in 1..Len(longer)
      BY <1>4, <1>6, <2>1 DEF CacheOK, CacheTypeOK
    <3>2. n + i \in 1..Len(cache[s]) \/ n + i = Len(cache[s]) + 1
      BY <1>1, <1>3, <3>1
    <3>3. QED
      BY <1>2, <1>3, <2>1, <3>1, <3>2
  <2>2. CASE t # s
    BY <1>6, <2>2 DEF CacheOK, CacheTypeOK
  <2>3. QED
    BY <2>1, <2>2
<1>11. QED
  BY <1>7, <1>8, <1>9, <1>10 DEF CacheOK

\* invalidate_tenant() and a restart only drop answers.
LEMMA DropKeeps ==
    ASSUME CacheOK, NEW T \in SUBSET Contexts,
           cache' = [s \in Contexts |-> IF s \in T THEN <<>> ELSE cache[s]]
    PROVE  CacheOK' /\ NoNewAnswers
<1>1. <<>> \in Seq(Entry) /\ Len(<<>>) = 0
  BY EmptySeq
<1>2. CacheTypeOK'
  BY <1>1 DEF CacheOK, CacheTypeOK
<1>3. CacheBounded'
  BY <1>1, CacheAssumption DEF CacheOK, CacheBounded
<1>4. OldestFirst'
  BY <1>1 DEF CacheOK, OldestFirst
<1>5. NoNewAnswers
  BY <1>1 DEF NoNewAnswers
<1>6. QED
  BY <1>2, <1>3, <1>4, <1>5 DEF CacheOK

\* The passing of time only ages the entries, and keeps them sorted.
LEMMA AgeKeeps ==
    ASSUME CacheOK, Age
    PROVE  CacheOK' /\ NoNewAnswers
<1>1. \A e \in Entry : /\ Older(e) \in Entry
                       /\ Older(e).srcs = e.srcs
                       /\ Older(e).age = IF e.age < TTL THEN e.age + 1 ELSE e.age
  BY CacheAssumption DEF Entry, Older
<1>2. \A s \in Contexts : /\ cache[s] \in Seq(Entry)
                          /\ Len(cache[s]) \in Nat
                          /\ \A i \in 1..Len(cache[s]) : cache[s][i] \in Entry
  BY ElementOfSeq, LenProperties DEF CacheOK, CacheTypeOK
<1>3. \A s \in Contexts : cache'[s] = [i \in 1..Len(cache[s]) |-> Older(cache[s][i])]
  BY DEF Age
<1>4. \A s \in Contexts : /\ cache'[s] \in Seq(Entry)
                          /\ Len(cache'[s]) = Len(cache[s])
                          /\ \A i \in 1..Len(cache[s]) : cache'[s][i] = Older(cache[s][i])
  <2> SUFFICES ASSUME NEW s \in Contexts
               PROVE  /\ cache'[s] \in Seq(Entry)
                      /\ Len(cache'[s]) = Len(cache[s])
                      /\ \A i \in 1..Len(cache[s]) : cache'[s][i] = Older(cache[s][i])
    OBVIOUS
  <2> DEFINE n == Len(cache[s])
             older == [i \in 1..n |-> Older(cache[s][i])]
  <2>1. n \in Nat
    BY <1>2
  <2>2. \A i \in 1..n : Older(cache[s][i]) \in Entry
    BY <1>1, <1>2
  <2>3. older \in Seq(Entry) /\ Len(older) = n
    <3> HIDE DEF n
    <3>1. older \in [1..n -> Entry]
      BY <2>2
    <3>2. older \in Seq(Entry)
      BY <2>1, <3>1, SeqDef
    <3>3. QED
      BY <2>1, <3>1, <3>2, LenProperties
  <2>4. QED
    BY <1>3, <2>3
<1>5. CacheTypeOK'
  BY <1>4 DEF Age, CacheTypeOK
<1>6. CacheBounded'
  BY <1>4 DEF CacheOK, CacheBounded
<1>7. OldestFirst'
  <2> SUFFICES ASSUME NEW s \in Contexts, NEW i \in 1..Len(cache[s]),
                      NEW j \in 1..Len(cache[s]), i <= j
               PROVE  cache'[s][j].age <= cache'[s][i].age
    BY <1>4 DEF OldestFirst
  <2>1. cache[s][j].age <= cache[s][i].age
    BY DEF CacheOK, OldestFirst
  <2>2. /\ cache'[s][i].age = IF cache[s][i].age < TTL THEN cache[s][i].age + 1
                              ELSE cache[s][i].age
        /\ cache'[s][j].age = IF cache[s][j].age < TTL THEN cache[s][j].age + 1
                              ELSE cache[s][j].age
    BY <1>1, <1>2, <1>4
  <2>3. cache[s][i].age \in 0..TTL /\ cache[s][j].age \in 0..TTL
    BY <1>2 DEF Entry
  <2>4. QED
    BY <2>1, <2>2, <2>3, CacheAssumption
<1>8. NoNewAnswers
  BY <1>1, <1>2, <1>4 DEF NoNewAnswers
<1>9. QED
  BY <1>5, <1>6, <1>7, <1>8 DEF CacheOK

\* The cache on its own: every operation keeps it well formed.
LEMMA CacheAloneKeeps ==
    ASSUME CacheOK, [CacheNext]_cache
    PROVE  CacheOK'
<1>1. ASSUME NEW s \in Contexts, NEW q \in Questions, NEW i, LookupHit(s, q, i) PROVE CacheOK'
  BY <1>1, LookupHitKeeps
<1>2. ASSUME NEW s \in Contexts, NEW q \in Questions, LookupMiss(s, q) PROVE CacheOK'
  BY <1>2, LookupMissKeeps
<1>3. ASSUME NEW s \in Contexts, NEW q \in Questions, NEW srcs \in SUBSET Docs, Store(s, q, srcs)
      PROVE  CacheOK'
  BY <1>3, StoreKeeps
<1>4. ASSUME NEW t \in Contexts, InvalidateTenant(t.tenant) PROVE CacheOK'
  <2> DEFINE T == {s \in Contexts : s.tenant = t.tenant}
  <2>1. cache' = [s \in Contexts |-> IF s \in T THEN <<>> ELSE cache[s]] /\ T \in SUBSET Contexts
    BY <1>4 DEF InvalidateTenant
  <2> HIDE DEF T
  <2> QED
    BY <2>1, DropKeeps
<1>5. CASE Age
  BY <1>5, AgeKeeps
<1>6. CASE UNCHANGED cache
  BY <1>6 DEF CacheOK, CacheTypeOK, CacheBounded, OldestFirst
<1> QED
  BY <1>1, <1>2, <1>3, <1>4, <1>5, <1>6 DEF CacheNext

LEMMA CacheStartsOK == CacheInit => CacheOK
<1> SUFFICES ASSUME CacheInit PROVE CacheOK
  OBVIOUS
<1>1. <<>> \in Seq(Entry) /\ Len(<<>>) = 0
  BY EmptySeq
<1> QED
  BY <1>1, CacheAssumption DEF CacheInit, NoAnswers, CacheOK, CacheTypeOK, CacheBounded, OldestFirst

(***************************************************************************)
(* No scope holds more than MAX_ENTRIES_PER_SCOPE answers, whatever order  *)
(* lookup, store and invalidate_tenant are called in.                      *)
(***************************************************************************)
THEOREM CapHolds == CacheSpec => []CacheBounded
<1>1. CacheOK /\ [CacheNext]_cache => CacheOK'
  BY CacheAloneKeeps
<1>2. CacheOK => CacheBounded
  BY DEF CacheOK
<1> QED
  BY <1>1, <1>2, CacheStartsOK, PTL DEF CacheSpec

-----------------------------------------------------------------------------
(***************************************************************************)
(* Live answers.                                                           *)
(***************************************************************************)

LivePlaces(e) == {i \in 1..Len(e) : Live(e[i])}

LEMMA LivePlacesFinite ==
    ASSUME NEW e \in Seq(Entry)
    PROVE  IsFiniteSet(LivePlaces(e)) /\ LiveCount(e) \in Nat /\ LiveCount(e) = Cardinality(LivePlaces(e))
<1>1. Len(e) \in Nat
  BY LenProperties
<1>2. IsFiniteSet(1..Len(e))
  BY <1>1, FS_Interval
<1>3. LivePlaces(e) \in SUBSET (1..Len(e))
  BY DEF LivePlaces
<1>4. IsFiniteSet(LivePlaces(e))
  BY <1>2, <1>3, FS_Subset
<1> QED
  BY <1>4, FS_CardinalityType DEF LiveCount, LivePlaces

\* As many live answers are left as there were if each finds a place of its own.
LEMMA LiveMoved ==
    ASSUME NEW e \in Seq(Entry), NEW f \in Seq(Entry), NEW m \in [LivePlaces(e) -> LivePlaces(f)],
           \A i, j \in LivePlaces(e) : m[i] = m[j] => i = j
    PROVE  LiveCount(e) <= LiveCount(f)
<1>1. m \in Injection(LivePlaces(e), LivePlaces(f))
  BY DEF Injection, IsInjective
<1>2. IsFiniteSet(LivePlaces(f))
  BY LivePlacesFinite
<1>3. Cardinality(LivePlaces(e)) <= Cardinality(LivePlaces(f))
  BY <1>1, <1>2, FS_Injection
<1> QED
  BY <1>3, LivePlacesFinite

\* Pruning drops no live answer.
LEMMA PruneKeepsLive ==
    ASSUME NEW e \in Seq(Entry), NEW k \in Cuts(e)
    PROVE  LiveCount(e) <= LiveCount(Suffix(e, k))
<1>1. k \in 1..(Len(e) + 1) /\ Len(e) \in Nat /\ \A i \in 1..(k - 1) : ~Live(e[i])
  BY LenProperties DEF Cuts
<1>2. /\ Suffix(e, k) \in Seq(Entry)
      /\ Len(Suffix(e, k)) = Len(e) - k + 1
      /\ \A i \in 1..Len(Suffix(e, k)) :
            k + i - 1 \in 1..Len(e) /\ Suffix(e, k)[i] = e[k + i - 1]
  BY <1>1, SuffixIsShift
<1> DEFINE m == [i \in LivePlaces(e) |-> i - k + 1]
<1>3. ASSUME NEW i \in LivePlaces(e) PROVE i \in Nat /\ i - k + 1 \in LivePlaces(Suffix(e, k))
  <2>1. i \in 1..Len(e) /\ Live(e[i])
    BY DEF LivePlaces
  <2>2. k <= i
    <3>1. ~(i \in 1..(k - 1))
      BY <1>1, <2>1
    <3> QED
      BY <1>1, <2>1, <3>1
  <2>3. i - k + 1 \in 1..Len(Suffix(e, k)) /\ k + (i - k + 1) - 1 = i
    BY <1>1, <1>2, <2>1, <2>2
  <2>4. Suffix(e, k)[i - k + 1] = e[i]
    BY <1>2, <2>3
  <2> QED
    BY <2>1, <2>3, <2>4 DEF LivePlaces
<1>4. m \in [LivePlaces(e) -> LivePlaces(Suffix(e, k))]
  BY <1>3
<1>5. \A i, j \in LivePlaces(e) : m[i] = m[j] => i = j
  BY <1>1, <1>3
<1> HIDE DEF m
<1> QED
  BY <1>2, <1>4, <1>5, LiveMoved

\* A store costs at most the oldest answer and brings a live one.
LEMMA StoreKeepsLive ==
    ASSUME NEW e \in Seq(Entry), Len(e) <= MaxEntries, NEW new \in Entry, Live(new)
    PROVE  LiveCount(e) <= LiveCount(EvictOldest(Append(e, new)))
<1> DEFINE longer == Append(e, new)
<1>1. Len(e) \in Nat /\ MaxEntries \in Nat \ {0}
  BY LenProperties, CacheAssumption
<1>2. /\ longer \in Seq(Entry) /\ Len(longer) = Len(e) + 1
      /\ \A i \in 1..Len(e) : longer[i] = e[i]
      /\ longer[Len(e) + 1] = new
  BY AppendProperties
<1> HIDE DEF longer
<1>3. \A i \in LivePlaces(e) : i \in 1..Len(e) /\ Live(e[i])
  BY DEF LivePlaces
<1>4. CASE Len(e) < MaxEntries
  <2>1. EvictOldest(longer) = longer
    BY <1>1, <1>2, <1>4 DEF EvictOldest
  <2> DEFINE m == [i \in LivePlaces(e) |-> i]
  <2>2. ASSUME NEW i \in LivePlaces(e) PROVE i \in LivePlaces(longer)
    <3>1. i \in 1..Len(longer) /\ longer[i] = e[i]
      BY <1>1, <1>2, <1>3
    <3> QED
      BY <1>3, <3>1 DEF LivePlaces
  <2>3. m \in [LivePlaces(e) -> LivePlaces(longer)]
    BY <2>2
  <2>4. \A i, j \in LivePlaces(e) : m[i] = m[j] => i = j
    OBVIOUS
  <2> HIDE DEF m
  <2>5. LiveCount(e) <= LiveCount(longer)
    BY <1>2, <2>3, <2>4, LiveMoved
  <2> QED
    BY <2>1, <2>5 DEF longer
<1>5. CASE Len(e) = MaxEntries
  <2>1. EvictOldest(longer) = Suffix(longer, 2) /\ 2 \in 1..(Len(longer) + 1)
    BY <1>1, <1>2, <1>5 DEF EvictOldest, Suffix
  <2> DEFINE f == Suffix(longer, 2)
  <2>2. /\ f \in Seq(Entry) /\ Len(f) = Len(e)
        /\ \A i \in 1..Len(f) : f[i] = longer[i + 1]
    <3>1. /\ f \in Seq(Entry) /\ Len(f) = Len(longer) - 2 + 1
          /\ \A i \in 1..Len(f) : f[i] = longer[2 + i - 1]
      BY <1>2, <2>1, SuffixIsShift
    <3>2. Len(f) = Len(e)
      BY <1>1, <1>2, <3>1
    <3>3. \A i \in 1..Len(f) : 2 + i - 1 = i + 1
      BY <1>1, <3>2
    <3> QED
      BY <3>1, <3>2, <3>3
  <2> HIDE DEF f
  <2> DEFINE m == [i \in LivePlaces(e) |-> IF i = 1 THEN Len(e) ELSE i - 1]
  <2>3. ASSUME NEW i \in LivePlaces(e)
        PROVE  (IF i = 1 THEN Len(e) ELSE i - 1) \in LivePlaces(f)
    <3>1. i \in 1..Len(e)
      BY <1>3
    <3>2. CASE i = 1
      <4>1. Len(e) \in 1..Len(f) /\ f[Len(e)] = new
        BY <1>1, <1>2, <1>5, <2>2
      <4> QED
        BY <3>2, <4>1 DEF LivePlaces
    <3>3. CASE i # 1
      <4>1. i - 1 \in 1..Len(f) /\ (i - 1) + 1 = i
        BY <1>1, <2>2, <3>1, <3>3
      <4>2. f[i - 1] = e[i]
        BY <1>2, <2>2, <3>1, <4>1
      <4> QED
        BY <1>3, <3>3, <4>1, <4>2 DEF LivePlaces
    <3> QED
      BY <3>2, <3>3
  <2>4. m \in [LivePlaces(e) -> LivePlaces(f)]
    BY <2>3
  <2>5. ASSUME NEW i \in LivePlaces(e), NEW j \in LivePlaces(e), m[i] = m[j] PROVE i = j
    <3>1. i \in 1..Len(e) /\ j \in 1..Len(e)
      BY <1>3
    <3> QED
      BY <1>1, <2>5, <3>1
  <2> HIDE DEF m
  <2>6. LiveCount(e) <= LiveCount(f)
    BY <2>2, <2>4, <2>5, LiveMoved
  <2> QED
    BY <2>1, <2>6 DEF longer, f
<1> QED
  BY <1>1, <1>4, <1>5

\* What a step may do to the live answers of each scope.
Kept ==
    \A s \in Contexts :
        LiveCount(cache'[s]) < LiveCount(cache[s]) => cache'[s] = <<>> \/ Age

LEMMA LiveKept ==
    ASSUME CacheOK, CacheNext
    PROVE  Kept
<1> SUFFICES ASSUME ~Age, NEW s \in Contexts, cache'[s] # <<>>
             PROVE  ~(LiveCount(cache'[s]) < LiveCount(cache[s]))
  BY Zenon DEF Kept
<1>1. /\ cache \in [Contexts -> Seq(Entry)] /\ cache[s] \in Seq(Entry)
      /\ Len(cache[s]) <= MaxEntries
  BY DEF CacheOK, CacheTypeOK, CacheBounded
<1>2. cache'[s] \in Seq(Entry)
  BY CacheAloneKeeps DEF CacheOK, CacheTypeOK
<1>3. LiveCount(cache[s]) \in Nat /\ LiveCount(cache'[s]) \in Nat
  BY <1>1, <1>2, LivePlacesFinite
<1>4. LiveCount(cache[s]) <= LiveCount(cache'[s])
  <2>1. CASE cache'[s] = cache[s]
    BY <1>3, <2>1
  <2>2. ASSUME NEW t \in Contexts, NEW k \in Cuts(cache[t]),
               cache' = [cache EXCEPT ![t] = Suffix(cache[t], k)]
        PROVE  LiveCount(cache[s]) <= LiveCount(cache'[s])
    <3>1. CASE t = s
      <4>1. cache'[s] = Suffix(cache[s], k)
        BY <1>1, <2>2, <3>1
      <4>2. k \in Cuts(cache[s])
        BY <3>1
      <4> QED
        BY <1>1, <4>1, <4>2, PruneKeepsLive
    <3>2. CASE t # s
      BY <1>1, <2>1, <2>2, <3>2
    <3> QED
      BY <3>1, <3>2
  <2>3. ASSUME NEW t \in Contexts, NEW q \in Questions, NEW srcs \in SUBSET Docs, Store(t, q, srcs)
        PROVE  LiveCount(cache[s]) <= LiveCount(cache'[s])
    <3> DEFINE new == [q |-> q, srcs |-> srcs, age |-> 0]
    <3>1. new \in Entry /\ Live(new)
      BY CacheAssumption DEF Entry, Live
    <3>2. CASE t = s
      <4>1. cache'[s] = EvictOldest(Append(cache[s], new))
        BY <1>1, <2>3, <3>2 DEF Store
      <4> HIDE DEF new
      <4> QED
        BY <1>1, <3>1, <4>1, StoreKeepsLive
    <3>3. CASE t # s
      BY <1>1, <2>1, <2>3, <3>3 DEF Store
    <3> QED
      BY <3>2, <3>3
  <2>4. ASSUME NEW t \in Contexts, InvalidateTenant(t.tenant)
        PROVE  LiveCount(cache[s]) <= LiveCount(cache'[s])
    BY <2>1, <2>4 DEF InvalidateTenant
  <2>5. ASSUME NEW t \in Contexts, NEW q \in Questions, NEW i, LookupHit(t, q, i)
        PROVE  LiveCount(cache[s]) <= LiveCount(cache'[s])
    BY <2>2, <2>5 DEF LookupHit
  <2>6. ASSUME NEW t \in Contexts, NEW q \in Questions, LookupMiss(t, q)
        PROVE  LiveCount(cache[s]) <= LiveCount(cache'[s])
    BY <2>2, <2>6 DEF LookupMiss
  <2> QED
    BY <2>3, <2>4, <2>5, <2>6 DEF CacheNext
<1> QED
  BY <1>3, <1>4
(***************************************************************************)
(* A lookup or a store never costs a scope a live answer it need not lose: *)
(* pruning drops expired answers only, and a store that evicts replaces    *)
(* one answer by a younger one.                                            *)
(***************************************************************************)
THEOREM LiveAnswersAreKept == CacheSpec => LiveAnswersStay
<1>1. CacheOK /\ [CacheNext]_cache => [Kept]_cache
  BY LiveKept
<1>2. CacheOK /\ [CacheNext]_cache => CacheOK'
  BY CacheAloneKeeps
<1>3. CacheSpec => [][Kept]_cache
  BY <1>1, <1>2, CacheStartsOK, PTL DEF CacheSpec
<1> QED
  BY <1>3 DEF LiveAnswersStay, Kept

USE NoObjectAssumption

-----------------------------------------------------------------------------
(***************************************************************************)
(* Types.                                                                  *)
(***************************************************************************)

LEMMA ContextParts ==
    ASSUME NEW c \in Contexts
    PROVE  c.tenant \in Tenants /\ c.user \in Users
BY DEF Tenants, Users

\* What a handler record looks like, from its kind and its pc.
LEMMA OpParts ==
    ASSUME DocTypeOK, NEW o \in ops
    PROVE  /\ o.id \in OpIds /\ o.ctx \in Contexts
           /\ o.pc = "put" => o \in UploadOp
           /\ o.kind = "upload" /\ o.pc # "put" => o \in TagOp
           /\ o.kind = "delete" => o \in DeleteOp
           /\ o.pc = "duplicate" => o \in TagOp
           /\ o.pc = "deleting" => o \in DeleteOp
           /\ o.pc = "read" => o \in ShareOp
           /\ o.pc = "write" => o \in WriteOp
           /\ o.pc # "put" => o.doc \in Docs
BY DEF DocTypeOK, Op, UploadOp, TagOp, DeleteOp, ShareOp, WriteOp

LEMMA DocTypesInit == DocInit => DocTypeOK
BY DEF DocInit, DocTypeOK

LEMMA StartOpKeepsTypes ==
    ASSUME DocTypeOK, NEW id \in OpIds, NEW ctx \in Contexts, StartOp(id, ctx)
    PROVE  DocTypeOK'
<1>1. ASSUME NEW h \in Hashes, UploadNew(id, ctx, h)
      PROVE  DocTypeOK'
  BY <1>1 DEF UploadNew, s3Vars, DocTypeOK, Op, UploadOp
<1>2. ASSUME NEW h \in Hashes, UploadDuplicate(id, ctx, h)
      PROVE  DocTypeOK'
  BY <1>2 DEF UploadDuplicate, Duplicates, s3Vars, DocTypeOK, Op, TagOp
<1>3. ASSUME NEW d \in Docs, DeleteList(id, ctx, d)
      PROVE  DocTypeOK'
  BY <1>3 DEF DeleteList, KeysOf, s3Vars, DocTypeOK, Op, DeleteOp
<1>4. ASSUME NEW d \in Docs, NEW users \in SharePayloads, ShareResolve(id, ctx, d, users)
      PROVE  DocTypeOK'
  BY <1>4, PayloadAssumption DEF ShareResolve, s3Vars, DocTypeOK, Op, ShareOp
<1>5. QED
  BY <1>1, <1>2, <1>3, <1>4 DEF StartOp

LEMMA OpStepKeepsTypes ==
    ASSUME DocTypeOK, NEW o \in ops, OpStep(o)
    PROVE  DocTypeOK'
<1>1. CASE AnswerDuplicate(o)
  BY <1>1 DEF AnswerDuplicate, Finish, s3Vars, DocTypeOK
<1>2. CASE PutPrimary(o)
  <2>1. o \in UploadOp /\ o.ctx.tenant \in Tenants
    BY <1>2, OpParts, ContextParts DEF PutPrimary
  <2>2. PICK d \in Docs :
           /\ primary' = [primary EXCEPT ![d] = [tenant |-> o.ctx.tenant, hash |-> o.hash]]
           /\ born' = [born EXCEPT ![d] = o.ctx]
           /\ Become(o, [id |-> o.id, kind |-> "upload", ctx |-> o.ctx, doc |-> d, pc |-> "tag"])
    BY <1>2 DEF PutPrimary
  <2>3. [tenant |-> o.ctx.tenant, hash |-> o.hash] \in Primary
    BY <2>1 DEF UploadOp, Primary
  <2>4. [id |-> o.id, kind |-> "upload", ctx |-> o.ctx, doc |-> d, pc |-> "tag"] \in TagOp
    BY <2>1 DEF UploadOp, TagOp
  <2>5. o.ctx \in Contexts
    BY OpParts
  <2>6. QED
    BY <1>2, <2>2, <2>3, <2>4, <2>5 DEF PutPrimary, Become, DocTypeOK, Op
<1>3. CASE PutSidecar(o)
  <2>1. o \in TagOp /\ o.ctx.tenant \in Tenants /\ o.ctx.user \in Users
    BY <1>3, OpParts, ContextParts DEF PutSidecar
  <2>2. [tenant |-> o.ctx.tenant, by |-> o.ctx.user, shared |-> {}] \in Sidecar
    BY <2>1 DEF Sidecar
  <2>3. [o EXCEPT !.pc = "invalidate"] \in TagOp
    BY <2>1 DEF TagOp
  <2>4. Initial(o.ctx) \subseteq Contexts
    BY DEF Initial
  <2>5. o.doc \in Docs
    BY <2>1 DEF TagOp
  <2>6. QED
    BY <1>3, <2>2, <2>3, <2>4, <2>5 DEF PutSidecar, Become, DocTypeOK, Op
<1>4. CASE DeleteKey(o)
  <2>1. o \in DeleteOp
    BY <1>4, OpParts DEF DeleteKey
  <2> DEFINE key  == IF "primary" \in o.keys THEN "primary" ELSE "sidecar"
             rest == o.keys \ {key}
             n    == [o EXCEPT !.keys = rest,
                               !.pc = IF rest = {} THEN "invalidate" ELSE "deleting"]
  <2>2. n \in DeleteOp
    BY <2>1 DEF DeleteOp
  <2>3. /\ primary' = IF key = "primary" THEN [primary EXCEPT ![o.doc] = NoObject] ELSE primary
        /\ sidecar' = IF key = "sidecar" THEN [sidecar EXCEPT ![o.doc] = NoObject] ELSE sidecar
        /\ ops' = (ops \ {o}) \cup {n}
        /\ UNCHANGED <<born, granted, fate>>
    BY <1>4 DEF DeleteKey, Become
  <2>4. primary' \in [Docs -> Primary \cup {NoObject}] /\ sidecar' \in [Docs -> Sidecar \cup {NoObject}]
    BY <2>3 DEF DocTypeOK
  <2> HIDE DEF n
  <2>5. QED
    BY <2>2, <2>3, <2>4 DEF DocTypeOK, Op
<1>5. CASE ShareRead(o)
  <2>1. o \in ShareOp
    BY <1>5, OpParts DEF ShareRead
  <2>2. sidecar[o.doc] \in Sidecar
    BY <1>5, <2>1 DEF ShareRead, DocTypeOK, ShareOp
  <2>3. [id |-> o.id, kind |-> "share", ctx |-> o.ctx, doc |-> o.doc, users |-> o.users,
         body |-> sidecar[o.doc], pc |-> "write"] \in WriteOp
    BY <2>1, <2>2 DEF ShareOp, WriteOp
  <2>4. QED
    BY <1>5, <2>3 DEF ShareRead, Become, s3Vars, DocTypeOK, Op
<1>6. CASE ShareWrite(o)
  <2>1. o \in WriteOp
    BY <1>6, OpParts DEF ShareWrite
  <2>2. [o.body EXCEPT !.shared = o.users] \in Sidecar /\ o.doc \in Docs
    BY <2>1 DEF WriteOp, Sidecar
  <2>3. [id |-> o.id, kind |-> "share", ctx |-> o.ctx, doc |-> o.doc,
         users |-> o.users, pc |-> "invalidate"] \in ShareOp
    BY <2>1 DEF ShareOp, WriteOp
  <2>4. {c \in Contexts : c.tenant = o.ctx.tenant /\ c.user \in o.users} \subseteq Contexts
    OBVIOUS
  <2>5. QED
    BY <1>6, <2>2, <2>3, <2>4 DEF ShareWrite, Become, DocTypeOK, Op
<1>7. CASE OpFails(o)
  BY <1>7 DEF OpFails, Finish, s3Vars, DocTypeOK
<1>8. QED
  BY <1>1, <1>2, <1>3, <1>4, <1>5, <1>6, <1>7 DEF OpStep

LEMMA InvalidateKeepsTypes ==
    ASSUME DocTypeOK, NEW o \in ops, Invalidate(o)
    PROVE  DocTypeOK'
<1>1. o.doc \in Docs
  BY OpParts DEF Invalidate
<1>2. DeleteFate(o.doc) \in {"none", "late", "settled"}
  BY DEF DeleteFate
<1>3. QED
  BY <1>1, <1>2 DEF Invalidate, Finish, DocTypeOK

-----------------------------------------------------------------------------
(***************************************************************************)
(* What a step can do to each part of the state.                           *)
(***************************************************************************)

\* Every step keeps the cache well formed, and the only answers it adds are
\* those of requests in flight, each under its own scope.
LEMMA CacheStep ==
    ASSUME TypeOK, CacheOK, [Next]_vars
    PROVE  CacheOK' /\ (NoNewAnswers \/ \E r \in reqs : OnlyNewAnswer(r.ctx, r.srcs))
<1>1. CASE UNCHANGED cache
  BY <1>1 DEF NoNewAnswers, CacheOK, CacheTypeOK, CacheBounded, OldestFirst
<1>2. ASSUME NEW r \in reqs, ReqStep(r), ~UNCHANGED cache
      PROVE  CacheOK' /\ (NoNewAnswers \/ OnlyNewAnswer(r.ctx, r.srcs))
  <2>1. r \in Req /\ r.ctx \in Contexts /\ r.q \in Questions /\ r.srcs \in SUBSET Docs
    BY DEF TypeOK, Req
  <2>2. CASE AnswerFromCache(r)
    BY <2>1, <2>2, LookupHitKeeps DEF AnswerFromCache
  <2>3. CASE CacheMiss(r)
    BY <2>1, <2>3, LookupMissKeeps DEF CacheMiss
  <2>4. CASE StoreAnswer(r)
    BY <2>1, <2>4, StoreKeeps DEF StoreAnswer
  <2>5. QED
    BY <1>2, <2>2, <2>3, <2>4 DEF ReqStep, Retrieve, SendAnswer, EndRequest
<1>3. ASSUME NEW o \in ops, Invalidate(o)
      PROVE  CacheOK' /\ NoNewAnswers
  <2> DEFINE T == {s \in Contexts : s.tenant = o.ctx.tenant}
  <2>1. cache' = [s \in Contexts |-> IF s \in T THEN <<>> ELSE cache[s]]
    BY <1>3 DEF Invalidate, InvalidateTenant
  <2> HIDE DEF T
  <2>2. T \in SUBSET Contexts
    BY DEF T
  <2>3. QED
    BY <2>1, <2>2, DropKeeps
<1>4. CASE Restart
  <2>1. cache' = [s \in Contexts |-> IF s \in Contexts THEN <<>> ELSE cache[s]]
    BY <1>4 DEF Restart, NoAnswers
  <2>2. QED
    BY <2>1, DropKeeps
<1>5. CASE Tick
  BY <1>5, AgeKeeps DEF Tick
<1>6. CASE UNCHANGED vars
  BY <1>1, <1>6 DEF vars
<1>7. CASE DocStep
  BY <1>1, <1>7 DEF DocStep
<1>8. CASE KbStep
  BY <1>1, <1>8 DEF KbStep, StartSync, CrawlDocument, AbortSync
<1>9. CASE ChatStep
  BY <1>1, <1>2, <1>9 DEF ChatStep, Ask
<1>10. QED
  BY <1>3, <1>4, <1>5, <1>6, <1>7, <1>8, <1>9 DEF Next

\* Where the sources of a request come from: the request itself a step ago,
\* a cached answer of its own scope, or the index through the filter.
Origin(n) ==
    \A d \in n.srcs :
        \/ \E r \in reqs : r.ctx = n.ctx /\ d \in r.srcs
        \/ \E i \in 1..Len(cache[n.ctx]) : d \in cache[n.ctx][i].srcs
        \/ d \in Retrievable(n.ctx)

LEMMA ReqOrigin ==
    ASSUME TypeOK, CacheOK, [Next]_vars, NEW n \in reqs'
    PROVE  n \in Req /\ Origin(n)
<1>1. CASE n \in reqs
  BY <1>1 DEF TypeOK, Origin
<1>2. ASSUME NEW id \in ReqIds, NEW ctx \in Contexts, NEW q \in Questions,
             Ask(id, ctx, q), n \notin reqs
      PROVE  n \in Req /\ Origin(n)
  BY <1>2 DEF Ask, Req, Origin
<1>3. ASSUME NEW r \in reqs, ReqStep(r), n \notin reqs
      PROVE  n \in Req /\ Origin(n)
  <2>1. r \in Req
    BY DEF TypeOK
  <2>2. CASE AnswerFromCache(r)
    <3>1. PICK i \in 1..Len(cache[r.ctx]) :
             /\ LookupHit(r.ctx, r.q, i)
             /\ Advance(r, [r EXCEPT !.pc = "answered", !.srcs = cache'[r.ctx][i].srcs])
      BY <2>2 DEF AnswerFromCache
    <3>2. n = [r EXCEPT !.pc = "answered", !.srcs = cache'[r.ctx][i].srcs]
      BY <1>3, <3>1 DEF Advance
    <3>3. r.ctx \in Contexts /\ r.q \in Questions
      BY <2>1 DEF Req
    <3>4. CacheOK' /\ NoNewAnswers /\ i \in 1..Len(cache'[r.ctx])
      BY <3>1, <3>3, LookupHitKeeps
    <3>5. cache'[r.ctx][i].srcs \in SUBSET Docs
      <4>1. cache'[r.ctx] \in Seq(Entry)
        BY <3>3, <3>4 DEF CacheOK, CacheTypeOK
      <4>2. cache'[r.ctx][i] \in Entry
        BY <3>4, <4>1, ElementOfSeq
      <4>3. QED
        BY <4>2 DEF Entry
    <3>6. n \in Req /\ n.ctx = r.ctx /\ n.srcs = cache'[r.ctx][i].srcs
      BY <2>1, <3>2, <3>5 DEF Req
    <3>7. \E j \in 1..Len(cache[r.ctx]) : n.srcs = cache[r.ctx][j].srcs
      BY <3>3, <3>4, <3>6 DEF NoNewAnswers
    <3>8. QED
      BY <3>6, <3>7 DEF Origin
  <2>3. CASE CacheMiss(r)
    <3>1. n = [r EXCEPT !.pc = "retrieve"]
      BY <1>3, <2>3 DEF CacheMiss, Advance
    <3>2. n \in Req /\ n.ctx = r.ctx /\ n.srcs = r.srcs
      BY <2>1, <3>1 DEF Req
    <3>3. QED
      BY <3>2 DEF Origin
  <2>4. CASE Retrieve(r)
    <3>1. PICK found \in SUBSET Retrievable(r.ctx) :
             Advance(r, [r EXCEPT !.pc = "generate", !.srcs = found])
      BY <2>4 DEF Retrieve
    <3>2. n = [r EXCEPT !.pc = "generate", !.srcs = found]
      BY <1>3, <3>1 DEF Advance
    <3>3. found \in SUBSET Docs
      BY DEF Retrievable
    <3>4. n \in Req /\ n.ctx = r.ctx /\ n.srcs = found
      BY <2>1, <3>2, <3>3 DEF Req
    <3>5. QED
      BY <3>4 DEF Origin
  <2>5. CASE SendAnswer(r)
    <3>1. n = [r EXCEPT !.pc = "store"]
      BY <1>3, <2>5 DEF SendAnswer, Advance
    <3>2. n \in Req /\ n.ctx = r.ctx /\ n.srcs = r.srcs
      BY <2>1, <3>1 DEF Req
    <3>3. QED
      BY <3>2 DEF Origin
  <2>6. QED
    BY <1>3, <2>2, <2>3, <2>4, <2>5 DEF ReqStep, StoreAnswer, EndRequest
<1>4. CASE UNCHANGED reqs \/ reqs' = {}
  BY <1>1, <1>4
<1>5. CASE ChatStep
  BY <1>1, <1>2, <1>3, <1>5 DEF ChatStep
<1>6. CASE UNCHANGED vars
  BY <1>4, <1>6 DEF vars, ragVars
<1>7. CASE DocStep
  BY <1>4, <1>7 DEF DocStep, ragVars
<1>8. CASE KbStep
  BY <1>4, <1>8 DEF KbStep, StartSync, CrawlDocument, AbortSync
<1>9. ASSUME NEW o \in ops, Invalidate(o) PROVE UNCHANGED reqs
  BY <1>9 DEF Invalidate, ragVars
<1>10. CASE Restart \/ Tick
  BY <1>4, <1>10 DEF Restart, Tick, ragVars
<1>11. QED
  BY <1>4, <1>5, <1>6, <1>7, <1>8, <1>9, <1>10 DEF Next

\* The index only ever holds copies of sidecars.
LEMMA IndexStep ==
    ASSUME TypeOK, [Next]_vars, NEW d \in Docs
    PROVE  \/ index'[d] = index[d]
           \/ index'[d] = IF primary[d] = NoObject THEN NoObject ELSE sidecar[d]
<1>1. CASE KbStep
  BY <1>1 DEF KbStep, StartSync, CrawlDocument, AbortSync, TypeOK
<1>2. CASE UNCHANGED index
  BY <1>2
<1>3. QED
  BY <1>1, <1>2 DEF Next, vars, ragVars, DocStep, Invalidate, ChatStep, Ask, ReqStep,
     AnswerFromCache, CacheMiss, Retrieve, SendAnswer, StoreAnswer, EndRequest, Restart, Tick

\* The document objects change only in the steps of a handler.
LEMMA DocUnchanged ==
    ASSUME [Next]_vars
    PROVE  \/ DocStep
           \/ \E o \in ops : Invalidate(o)
           \/ UNCHANGED s3Vars /\ (UNCHANGED ops \/ ops' = {})
BY DEF Next, vars, docVars, s3Vars, KbStep, StartSync, CrawlDocument, AbortSync, ChatStep, Ask,
   ReqStep, AnswerFromCache, CacheMiss, Retrieve, SendAnswer, StoreAnswer, EndRequest, Restart, Tick

\* Type correctness of the whole system (and the shape of the cache lists).
LEMMA TypesInductive ==
    ASSUME TypeOK, CacheOK, [Next]_vars
    PROVE  TypeOK' /\ CacheOK'
<1>1. CacheOK' /\ CacheTypeOK'
  BY CacheStep DEF CacheOK
<1>2. DocTypeOK'
  <2>1. DocTypeOK
    BY DEF TypeOK
  <2>2. CASE DocStep
    BY <2>1, <2>2, StartOpKeepsTypes, OpStepKeepsTypes DEF DocStep
  <2>3. CASE \E o \in ops : Invalidate(o)
    BY <2>1, <2>3, InvalidateKeepsTypes
  <2>4. CASE UNCHANGED s3Vars /\ (UNCHANGED ops \/ ops' = {})
    BY <2>1, <2>4 DEF s3Vars, DocTypeOK
  <2>5. QED
    BY <2>2, <2>3, <2>4, DocUnchanged
<1>3. index' \in [Docs -> Sidecar \cup {NoObject}]
  <2>1. CASE KbStep
    BY <2>1 DEF KbStep, StartSync, CrawlDocument, AbortSync, TypeOK, DocTypeOK
  <2>2. CASE UNCHANGED index
    BY <2>2 DEF TypeOK
  <2>3. QED
    BY <2>1, <2>2 DEF Next, vars, ragVars, DocStep, Invalidate, ChatStep, Ask, ReqStep,
       AnswerFromCache, CacheMiss, Retrieve, SendAnswer, StoreAnswer, EndRequest, Restart, Tick
<1>4. pending' \subseteq Docs
  BY DEF Next, vars, ragVars, DocStep, Invalidate, ChatStep, Ask, ReqStep, KbStep, StartSync,
     CrawlDocument, AbortSync, AnswerFromCache, CacheMiss, Retrieve, SendAnswer, StoreAnswer,
     EndRequest, Restart, Tick, TypeOK
<1>5. reqs' \subseteq Req
  BY ReqOrigin
<1>6. QED
  BY <1>1, <1>2, <1>3, <1>4, <1>5 DEF TypeOK

LEMMA TypesInitial == Init => TypeOK /\ CacheOK
<1> SUFFICES ASSUME Init PROVE TypeOK /\ CacheOK
  OBVIOUS
<1>1. <<>> \in Seq(Entry) /\ Len(<<>>) = 0
  BY EmptySeq
<1>2. cache = [s \in Contexts |-> <<>>]
  BY DEF Init, CacheInit, NoAnswers
<1>3. CacheOK
  BY <1>1, <1>2, CacheAssumption DEF CacheOK, CacheTypeOK, CacheBounded, OldestFirst
<1>4. QED
  BY <1>3, DocTypesInit DEF CacheOK, Init, TypeOK

\* Every state of the system has its type (RagSystem!TypeOK).
THEOREM TypeCorrect == Spec => []TypeOK
<1>1. TypeOK /\ CacheOK /\ [Next]_vars => (TypeOK /\ CacheOK)'
  BY TypesInductive
<1>2. QED
  BY <1>1, TypesInitial, PTL DEF Spec

\* No scope outgrows its cap and every list stays sorted by age: the facts
\* store() and lookup() rely on without checking them.
THEOREM CacheWellFormed == Spec => [](CacheBounded /\ OldestFirst)
<1>1. TypeOK /\ CacheOK /\ [Next]_vars => (TypeOK /\ CacheOK)'
  BY TypesInductive
<1>2. CacheOK => CacheBounded /\ OldestFirst
  BY DEF CacheOK
<1>3. QED
  BY <1>1, <1>2, TypesInitial, PTL DEF Spec

-----------------------------------------------------------------------------
(***************************************************************************)
(* The system uses its cache by the operations of SemanticCache alone: a   *)
(* step is one of them, leaves it as it is, or ends the process.           *)
(***************************************************************************)
UsesTheCache == CacheNext \/ cache' = NoAnswers

LEMMA StepsUseTheCache ==
    ASSUME TypeOK, Next
    PROVE  [UsesTheCache]_cache
<1>1. CASE DocStep
  BY <1>1 DEF DocStep
<1>2. CASE KbStep
  BY <1>2 DEF KbStep, StartSync, CrawlDocument, AbortSync
<1>3. ASSUME NEW o \in ops, Invalidate(o) PROVE [UsesTheCache]_cache
  <2>1. o.ctx \in Contexts
    BY OpParts DEF TypeOK
  <2>2. InvalidateTenant(o.ctx.tenant)
    BY <1>3 DEF Invalidate
  <2> QED
    BY <2>1, <2>2 DEF UsesTheCache, CacheNext
<1>4. ASSUME NEW r \in reqs, ReqStep(r) PROVE [UsesTheCache]_cache
  <2>1. r.ctx \in Contexts /\ r.q \in Questions /\ r.srcs \in SUBSET Docs
    BY DEF TypeOK, Req
  <2>2. CASE AnswerFromCache(r)
    <3>1. \E i \in 1..Len(cache[r.ctx]) : LookupHit(r.ctx, r.q, i)
      BY <2>2 DEF AnswerFromCache
    <3> QED
      BY <2>1, <3>1 DEF UsesTheCache, CacheNext
  <2>3. CASE CacheMiss(r)
    BY <2>1, <2>3 DEF CacheMiss, UsesTheCache, CacheNext
  <2>4. CASE StoreAnswer(r)
    BY <2>1, <2>4 DEF StoreAnswer, UsesTheCache, CacheNext
  <2> QED
    BY <1>4, <2>2, <2>3, <2>4 DEF ReqStep, Retrieve, SendAnswer, EndRequest
<1>5. ASSUME NEW id \in ReqIds, NEW ctx \in Contexts, NEW q \in Questions, Ask(id, ctx, q)
      PROVE  [UsesTheCache]_cache
  BY <1>5 DEF Ask
<1>6. CASE Restart
  BY <1>6 DEF Restart, UsesTheCache
<1>7. CASE Tick
  BY <1>7 DEF Tick, UsesTheCache, CacheNext
<1> QED
  BY <1>1, <1>2, <1>3, <1>4, <1>5, <1>6, <1>7 DEF Next, ChatStep

(***************************************************************************)
(* The composed system implements the cache on its own, restarts apart.    *)
(***************************************************************************)
THEOREM CacheIsEncapsulated == Spec => CacheInit /\ [][UsesTheCache]_cache
<1>1. TypeOK /\ CacheOK /\ [Next]_vars => [UsesTheCache]_cache
  BY StepsUseTheCache DEF vars
<1>2. TypeOK /\ CacheOK /\ [Next]_vars => (TypeOK /\ CacheOK)'
  BY TypesInductive
<1>3. Init => CacheInit
  BY DEF Init
<1> QED
  BY <1>1, <1>2, <1>3, TypesInitial, PTL DEF Spec

(***************************************************************************)
(* In the whole system, too, chats and document handlers that interleave   *)
(* never cost a scope a live answer: only time, an invalidation of its     *)
(* tenant and the end of the process do.                                   *)
(***************************************************************************)
THEOREM LiveAnswersAreKeptInTheSystem == Spec => LiveAnswersStay
<1>1. TypeOK /\ CacheOK /\ [Next]_vars => [Kept]_cache
  <2> SUFFICES ASSUME TypeOK, CacheOK, Next, cache' # cache PROVE Kept
    BY DEF vars
  <2>1. CASE CacheNext
    BY <2>1, LiveKept
  <2>2. CASE cache' = NoAnswers
    BY <2>2 DEF NoAnswers, Kept
  <2> QED
    BY <2>1, <2>2, StepsUseTheCache DEF UsesTheCache
<1>2. TypeOK /\ CacheOK /\ [Next]_vars => (TypeOK /\ CacheOK)'
  BY TypesInductive
<1>3. Spec => [][Kept]_cache
  BY <1>1, <1>2, TypesInitial, PTL DEF Spec
<1> QED
  BY <1>3 DEF LiveAnswersStay, Kept

-----------------------------------------------------------------------------
(***************************************************************************)
(* Isolation.  SourcesWereGranted is not inductive: an answer is safe      *)
(* because the index entry it came from was, that because the sidecar it   *)
(* was crawled from was, and that because whoever wrote the sidecar worked *)
(* on a document of their own tenant.                                      *)
(***************************************************************************)

Readers(m) == {c \in Contexts : RetrievalFilter(c, m)}

\* A document has one tenant, that of its upload, and whoever its sidecar or
\* its index entry admits was granted it.
DocSafe(d) ==
    /\ primary[d] # NoObject =>
           born[d] # NoObject /\ primary[d].tenant = born[d].tenant
    /\ sidecar[d] # NoObject =>
           /\ born[d] # NoObject /\ sidecar[d].tenant = born[d].tenant
           /\ Readers(sidecar[d]) \subseteq granted[d]
    /\ index[d] # NoObject => Readers(index[d]) \subseteq granted[d]
    /\ \A c \in granted[d] : born[d] # NoObject /\ c.tenant = born[d].tenant

\* A handler works on a document of its caller's tenant, and a sidecar body
\* it holds to rewrite admits nobody new.
OpSafe(o) ==
    /\ o.pc # "put" => born[o.doc] # NoObject /\ born[o.doc].tenant = o.ctx.tenant
    /\ o.pc = "write" =>
           o.body.tenant = o.ctx.tenant /\ Readers(o.body) \subseteq granted[o.doc]

Safe == (\A d \in Docs : DocSafe(d)) /\ (\A o \in ops : OpSafe(o))

\* What only a handler's step can change, and what it leaves alone.
LEMMA HistoryGrows ==
    ASSUME TypeOK, [Next]_vars, NEW d \in Docs
    PROVE  /\ granted[d] \subseteq granted'[d]
           /\ born[d] # NoObject => born'[d] = born[d]
<1>1. CASE UNCHANGED <<granted, born>>
  BY <1>1
<1>2. ASSUME NEW o \in ops, OpStep(o)
      PROVE  granted[d] \subseteq granted'[d] /\ (born[d] # NoObject => born'[d] = born[d])
  <2>1. CASE PutPrimary(o)
    BY <2>1 DEF PutPrimary, TypeOK, DocTypeOK
  <2>2. CASE PutSidecar(o)
    BY <2>2 DEF PutSidecar, TypeOK, DocTypeOK
  <2>3. CASE ShareWrite(o)
    BY <2>3 DEF ShareWrite, TypeOK, DocTypeOK
  <2>4. QED
    BY <1>2, <2>1, <2>2, <2>3 DEF OpStep, AnswerDuplicate, DeleteKey, ShareRead, OpFails, s3Vars
<1>3. CASE DocStep
  BY <1>2, <1>3, <1>1 DEF DocStep, StartOp, UploadNew, UploadDuplicate, DeleteList,
     ShareResolve, s3Vars
<1>4. QED
  BY <1>1, <1>3, DocUnchanged DEF Invalidate, s3Vars

LEMMA OpSafeStable ==
    ASSUME TypeOK, [Next]_vars, NEW o \in ops, OpSafe(o)
    PROVE  OpSafe(o)'
<1>1. o.pc # "put" => o.doc \in Docs
  BY OpParts DEF TypeOK
<1>2. QED
  BY <1>1, HistoryGrows DEF OpSafe

\* The handlers: each new record is safe because of what its step checked.
LEMMA OpsStaySafe ==
    ASSUME TypeOK, Safe, [Next]_vars, NEW n \in ops'
    PROVE  OpSafe(n)'
<1>1. CASE n \in ops
  BY <1>1, OpSafeStable DEF Safe
<1>2. ASSUME NEW id \in OpIds, NEW ctx \in Contexts, StartOp(id, ctx), n \notin ops
      PROVE  OpSafe(n)'
  <2>1. UNCHANGED <<born, granted>>
    BY <1>2 DEF StartOp, UploadNew, UploadDuplicate, DeleteList, ShareResolve, s3Vars
  <2>2. ASSUME NEW h \in Hashes, UploadNew(id, ctx, h) PROVE OpSafe(n)'
    BY <1>2, <2>2 DEF UploadNew, OpSafe
  <2>3. ASSUME NEW h \in Hashes, UploadDuplicate(id, ctx, h) PROVE OpSafe(n)'
    <3>1. PICK d \in Duplicates(ctx.tenant, h) :
             n = [id |-> id, kind |-> "upload", ctx |-> ctx, doc |-> d, pc |-> "duplicate"]
      BY <1>2, <2>3 DEF UploadDuplicate
    <3>2. d \in Docs /\ primary[d] = [tenant |-> ctx.tenant, hash |-> h]
      BY DEF Duplicates
    <3>3. [tenant |-> ctx.tenant, hash |-> h] \in Primary
      BY ContextParts DEF Primary
    <3>4. born[d] # NoObject /\ born[d].tenant = ctx.tenant
      BY <3>2, <3>3 DEF Safe, DocSafe
    <3>5. QED
      BY <2>1, <3>1, <3>4 DEF OpSafe
  <2>4. ASSUME NEW d \in Docs, DeleteList(id, ctx, d) PROVE OpSafe(n)'
    <3>1. born[d] # NoObject /\ born[d].tenant = ctx.tenant
      BY <2>4 DEF DeleteList, KeysOf, Safe, DocSafe
    <3>2. n.pc = "delete" /\ n.doc = d /\ n.ctx = ctx
      BY <1>2, <2>4 DEF DeleteList
    <3>3. QED
      BY <2>1, <3>1, <3>2 DEF OpSafe
  <2>5. ASSUME NEW d \in Docs, NEW users \in SharePayloads, ShareResolve(id, ctx, d, users)
        PROVE  OpSafe(n)'
    <3>1. born[d] # NoObject /\ born[d].tenant = ctx.tenant
      BY <2>5 DEF ShareResolve, Safe, DocSafe
    <3>2. n.pc = "read" /\ n.doc = d /\ n.ctx = ctx
      BY <1>2, <2>5 DEF ShareResolve
    <3>3. QED
      BY <2>1, <3>1, <3>2 DEF OpSafe
  <2>6. QED
    BY <1>2, <2>2, <2>3, <2>4, <2>5 DEF StartOp
<1>3. ASSUME NEW o \in ops, OpStep(o), n \notin ops
      PROVE  OpSafe(n)'
  <2>1. OpSafe(o)' /\ OpSafe(o)
    BY OpSafeStable DEF Safe
  <2>2. CASE PutPrimary(o)
    <3>1. PICK d \in Docs :
             /\ born' = [born EXCEPT ![d] = o.ctx]
             /\ n = [id |-> o.id, kind |-> "upload", ctx |-> o.ctx, doc |-> d, pc |-> "tag"]
      BY <1>3, <2>2 DEF PutPrimary, Become
    <3>2. born'[d] = o.ctx /\ o.ctx # NoObject
      BY <3>1, OpParts DEF TypeOK, DocTypeOK
    <3>3. QED
      BY <3>1, <3>2 DEF OpSafe
  <2>3. CASE PutSidecar(o)
    <3>1. o \in TagOp
      BY <2>3, OpParts DEF PutSidecar, TypeOK
    <3>2. n = [o EXCEPT !.pc = "invalidate"]
      BY <1>3, <2>3 DEF PutSidecar, Become
    <3>3. n.pc = "invalidate" /\ n.doc = o.doc /\ n.ctx = o.ctx /\ o.pc = "tag"
      BY <2>3, <3>1, <3>2 DEF TagOp, PutSidecar
    <3>4. QED
      BY <2>1, <3>3 DEF OpSafe
  <2>4. CASE DeleteKey(o)
    <3>1. o \in DeleteOp
      BY <2>4, OpParts DEF DeleteKey, TypeOK
    <3> DEFINE key  == IF "primary" \in o.keys THEN "primary" ELSE "sidecar"
               rest == o.keys \ {key}
               next == IF rest = {} THEN "invalidate" ELSE "deleting"
    <3>2. n = [o EXCEPT !.keys = rest, !.pc = next]
      BY <1>3, <2>4 DEF DeleteKey, Become
    <3> HIDE DEF rest
    <3>3. n.pc # "put" /\ n.pc # "write" /\ n.doc = o.doc /\ n.ctx = o.ctx
      BY <3>1, <3>2 DEF DeleteOp
    <3>4. o.pc # "put"
      BY <3>1 DEF DeleteOp
    <3>5. QED
      BY <2>1, <3>3, <3>4 DEF OpSafe
  <2>5. CASE ShareRead(o)
    <3>1. o \in ShareOp /\ o.doc \in Docs /\ o.pc = "read"
      BY <2>5, OpParts DEF ShareRead, TypeOK
    <3>2. n = [id |-> o.id, kind |-> "share", ctx |-> o.ctx, doc |-> o.doc,
               users |-> o.users, body |-> sidecar[o.doc], pc |-> "write"]
      BY <1>3, <2>5 DEF ShareRead, Become
    <3>3. /\ sidecar[o.doc].tenant = born[o.doc].tenant
          /\ Readers(sidecar[o.doc]) \subseteq granted[o.doc]
      BY <2>5, <3>1 DEF ShareRead, Safe, DocSafe
    <3>4. UNCHANGED <<born, granted>>
      BY <2>5 DEF ShareRead, s3Vars
    <3>5. QED
      BY <2>1, <3>1, <3>2, <3>3, <3>4 DEF OpSafe
  <2>6. CASE ShareWrite(o)
    <3>1. n = [id |-> o.id, kind |-> "share", ctx |-> o.ctx, doc |-> o.doc,
               users |-> o.users, pc |-> "invalidate"]
      BY <1>3, <2>6 DEF ShareWrite, Become
    <3>2. o.pc = "write"
      BY <2>6 DEF ShareWrite
    <3>3. QED
      BY <2>1, <3>1, <3>2 DEF OpSafe
  <2>7. QED
    BY <1>3, <2>2, <2>3, <2>4, <2>5, <2>6 DEF OpStep, AnswerDuplicate, OpFails, Finish
<1>4. CASE DocStep
  BY <1>1, <1>2, <1>3, <1>4 DEF DocStep
<1>5. QED
  BY <1>1, <1>4, DocUnchanged DEF Invalidate, Finish

\* The documents.
LEMMA DocsStaySafe ==
    ASSUME TypeOK, Safe, [Next]_vars, NEW d \in Docs
    PROVE  DocSafe(d)'
<1>1. DocSafe(d)
  BY DEF Safe
<1>2. CASE UNCHANGED s3Vars
  <2>1. QED
    BY <1>1, <1>2, IndexStep DEF DocSafe, s3Vars
<1>3. ASSUME NEW o \in ops, OpStep(o), UNCHANGED index
      PROVE  DocSafe(d)'
  <2>1. OpSafe(o)
    BY DEF Safe
  <2>2. CASE PutPrimary(o)
    <3>1. PICK e \in Docs :
             /\ born[e] = NoObject
             /\ primary' = [primary EXCEPT ![e] = [tenant |-> o.ctx.tenant, hash |-> o.hash]]
             /\ born' = [born EXCEPT ![e] = o.ctx]
      BY <2>2 DEF PutPrimary
    <3>2. UNCHANGED <<sidecar, granted>>
      BY <2>2 DEF PutPrimary
    <3>3. CASE d = e
      <4>1. /\ primary'[d] = [tenant |-> o.ctx.tenant, hash |-> o.hash]
            /\ born'[d] = o.ctx /\ o.ctx # NoObject
        BY <3>1, <3>3, OpParts DEF TypeOK, DocTypeOK
      <4>2. granted[d] = {} /\ sidecar[d] = NoObject
        BY <1>1, <3>1, <3>3 DEF DocSafe
      <4>3. QED
        BY <1>1, <1>3, <3>2, <4>1, <4>2 DEF DocSafe
    <3>4. CASE d # e
      <4>1. primary'[d] = primary[d] /\ born'[d] = born[d]
        BY <3>1, <3>4 DEF TypeOK, DocTypeOK
      <4>2. QED
        BY <1>1, <1>3, <3>2, <4>1 DEF DocSafe
    <3>5. QED
      BY <3>3, <3>4
  <2>3. CASE PutSidecar(o)
    <3>1. /\ sidecar' = [sidecar EXCEPT ![o.doc] =
                            [tenant |-> o.ctx.tenant, by |-> o.ctx.user, shared |-> {}]]
          /\ granted' = [granted EXCEPT ![o.doc] = @ \cup Initial(o.ctx)]
          /\ UNCHANGED <<primary, born>> /\ o.pc = "tag"
      BY <2>3 DEF PutSidecar
    <3>2. CASE d = o.doc
      <4> DEFINE m == [tenant |-> o.ctx.tenant, by |-> o.ctx.user, shared |-> {}]
      <4>1. sidecar'[d] = m /\ granted'[d] = granted[d] \cup Initial(o.ctx)
        BY <3>1, <3>2 DEF TypeOK, DocTypeOK
      <4>2. Readers(m) \subseteq Initial(o.ctx) /\ m.tenant = o.ctx.tenant
        BY DEF Readers, RetrievalFilter, Initial
      <4>3. \A c \in Initial(o.ctx) : c.tenant = o.ctx.tenant
        BY DEF Initial
      <4>4. born[d] # NoObject /\ born[d].tenant = o.ctx.tenant
        BY <2>1, <3>1, <3>2 DEF OpSafe
      <4> HIDE DEF m
      <4>5. QED
        BY <1>1, <1>3, <3>1, <4>1, <4>2, <4>3, <4>4 DEF DocSafe
    <3>3. CASE d # o.doc
      <4>1. sidecar'[d] = sidecar[d] /\ granted'[d] = granted[d]
        BY <3>1, <3>3 DEF TypeOK, DocTypeOK
      <4>2. QED
        BY <1>1, <1>3, <3>1, <4>1 DEF DocSafe
    <3>4. QED
      BY <3>2, <3>3
  <2>4. CASE DeleteKey(o)
    <3>1. /\ primary'[d] \in {primary[d], NoObject}
          /\ sidecar'[d] \in {sidecar[d], NoObject}
          /\ UNCHANGED <<born, granted>>
      BY <2>4 DEF DeleteKey, TypeOK, DocTypeOK
    <3>2. QED
      BY <1>1, <1>3, <3>1 DEF DocSafe
  <2>5. CASE ShareWrite(o)
    <3> DEFINE m   == [o.body EXCEPT !.shared = o.users]
               new == {c \in Contexts : c.tenant = o.ctx.tenant /\ c.user \in o.users}
    <3>1. /\ sidecar' = [sidecar EXCEPT ![o.doc] = m]
          /\ granted' = [granted EXCEPT ![o.doc] = @ \cup new]
          /\ UNCHANGED <<primary, born>> /\ o.pc = "write"
      BY <2>5 DEF ShareWrite
    <3>2. CASE d = o.doc
      <4>1. sidecar'[d] = m /\ granted'[d] = granted[d] \cup new
        BY <3>1, <3>2 DEF TypeOK, DocTypeOK
      <4>2. o \in WriteOp /\ o.body \in Sidecar
        BY <3>1, OpParts DEF TypeOK, WriteOp
      <4>3. m.tenant = o.body.tenant /\ m.by = o.body.by /\ m.shared = o.users
        BY <4>2 DEF Sidecar
      <4>4. born[d] # NoObject /\ born[d].tenant = o.ctx.tenant /\ o.body.tenant = o.ctx.tenant
        BY <2>1, <3>1, <3>2 DEF OpSafe
      <4>5. Readers(o.body) \subseteq granted[d]
        BY <2>1, <3>1, <3>2 DEF OpSafe
      <4> HIDE DEF m
      <4>6. Readers(m) \subseteq Readers(o.body) \cup new
        BY <4>3, <4>4 DEF Readers, RetrievalFilter
      <4>7. \A c \in new : c.tenant = o.ctx.tenant
        OBVIOUS
      <4> HIDE DEF new
      <4>8. QED
        BY <1>1, <1>3, <3>1, <4>1, <4>3, <4>4, <4>5, <4>6, <4>7 DEF DocSafe
    <3>3. CASE d # o.doc
      <4>1. sidecar'[d] = sidecar[d] /\ granted'[d] = granted[d]
        BY <3>1, <3>3 DEF TypeOK, DocTypeOK
      <4>2. QED
        BY <1>1, <1>3, <3>1, <4>1 DEF DocSafe
    <3>4. QED
      BY <3>2, <3>3
  <2>6. CASE UNCHANGED s3Vars
    BY <1>2, <2>6
  <2>7. QED
    BY <1>3, <2>2, <2>3, <2>4, <2>5, <2>6 DEF OpStep, AnswerDuplicate, ShareRead, OpFails
<1>4. CASE DocStep
  <2>1. UNCHANGED index
    BY <1>4 DEF DocStep, ragVars
  <2>2. ASSUME NEW id \in OpIds, NEW ctx \in Contexts, StartOp(id, ctx)
        PROVE  UNCHANGED s3Vars
    BY <2>2 DEF StartOp, UploadNew, UploadDuplicate, DeleteList, ShareResolve
  <2>3. QED
    BY <1>2, <1>3, <1>4, <2>1, <2>2 DEF DocStep
<1>5. ASSUME NEW o \in ops, Invalidate(o)
      PROVE  DocSafe(d)'
  BY <1>1, <1>5 DEF Invalidate, ragVars, DocSafe
<1>6. QED
  BY <1>2, <1>4, <1>5, DocUnchanged

-----------------------------------------------------------------------------
\* A context the filter lets through was granted the document.
LEMMA RetrievableWasGranted ==
    ASSUME Safe, NEW c \in Contexts, NEW d \in Retrievable(c)
    PROVE  c \in granted[d]
BY DEF Safe, DocSafe, Retrievable, Readers

LEMMA IsolationInductive ==
    ASSUME TypeOK, CacheOK, Safe, SourcesWereGranted, [Next]_vars
    PROVE  Safe' /\ SourcesWereGranted'
<1>1. Safe'
  BY OpsStaySafe, DocsStaySafe DEF Safe
<1>2. ASSUME NEW n \in reqs', NEW d \in n.srcs
      PROVE  n.ctx \in granted'[d]
  <2>1. n \in Req /\ Origin(n)
    BY ReqOrigin
  <2>2. n.ctx \in Contexts /\ d \in Docs
    BY <2>1 DEF Req
  <2>3. n.ctx \in granted[d]
    BY <2>1, <2>2, RetrievableWasGranted DEF Origin, SourcesWereGranted
  <2>4. QED
    BY <2>2, <2>3, HistoryGrows
<1>3. ASSUME NEW s \in Contexts, NEW i \in 1..Len(cache'[s]), NEW d \in cache'[s][i].srcs
      PROVE  s \in granted'[d]
  <2>1. s \in granted[d]
    <3>1. CASE NoNewAnswers
      BY <3>1 DEF NoNewAnswers, SourcesWereGranted
    <3>2. ASSUME NEW r \in reqs, OnlyNewAnswer(r.ctx, r.srcs)
          PROVE  s \in granted[d]
      BY <3>2 DEF OnlyNewAnswer, SourcesWereGranted
    <3>3. QED
      BY <3>1, <3>2, CacheStep
  <2>2. d \in Docs
    <3>1. CacheTypeOK'
      BY CacheStep DEF CacheOK
    <3>2. cache'[s] \in Seq(Entry)
      BY <3>1 DEF CacheTypeOK
    <3>3. cache'[s][i] \in Entry
      BY <3>2, ElementOfSeq
    <3>4. QED
      BY <3>3 DEF Entry
  <2>3. QED
    BY <2>1, <2>2, HistoryGrows
<1>4. QED
  BY <1>1, <1>2, <1>3 DEF SourcesWereGranted

\* Tenant isolation and per-document sharing, through retrieval and cache,
\* whatever is stale, racing or in flight (RagSystem!SourcesWereGranted).
THEOREM Isolation == Spec => []SourcesWereGranted
<1> DEFINE IInv == TypeOK /\ CacheOK /\ Safe /\ SourcesWereGranted
<1>1. Init => IInv
  <2> SUFFICES ASSUME Init PROVE IInv
    OBVIOUS
  <2>1. TypeOK /\ CacheOK
    BY TypesInitial
  <2>2. Safe
    BY DEF Init, DocInit, Safe, DocSafe
  <2>3. \A s \in Contexts : Len(cache[s]) = 0
    BY EmptySeq DEF Init, CacheInit, NoAnswers
  <2>4. SourcesWereGranted
    BY <2>3 DEF Init, SourcesWereGranted
  <2>5. QED
    BY <2>1, <2>2, <2>4
<1>2. IInv /\ [Next]_vars => IInv'
  BY TypesInductive, IsolationInductive
<1>3. IInv => SourcesWereGranted
  OBVIOUS
<1> HIDE DEF IInv
<1>4. QED
  BY <1>1, <1>2, <1>3, PTL DEF Spec

-----------------------------------------------------------------------------
(***************************************************************************)
(* Deletes.  That a settled delete stays settled rests on the object never *)
(* coming back: uuid4 gives out no id twice, a crawl finds no primary any  *)
(* more, and a sidecar that a late share rewrites is not enough for it.    *)
(***************************************************************************)

\* A delete that has nothing more to do with the primary has seen it gone.
DeletesEmpty ==
    \A o \in ops : o.kind = "delete" =>
        /\ "primary" \notin o.keys => primary[o.doc] = NoObject
        /\ o.pc = "invalidate" => o.keys = {}

Uncited(d) ==
    /\ \A r \in reqs : d \notin r.srcs
    /\ \A s \in Contexts : \A i \in 1..Len(cache[s]) : d \notin cache[s][i].srcs

\* Neither stored, nor to be stored again, nor indexed, nor cited.
Gone(d) ==
    born[d] # NoObject /\ primary[d] = NoObject /\ index[d] = NoObject /\ Uncited(d)

SettledIsGone == \A d \in Docs : fate[d] = "settled" => Gone(d)

\* A primary that was deleted is not put again.
LEMMA PrimaryStaysAway ==
    ASSUME TypeOK, [Next]_vars, NEW d \in Docs, born[d] # NoObject, primary[d] = NoObject
    PROVE  primary'[d] = NoObject
<1>1. CASE UNCHANGED primary
  BY <1>1
<1>2. ASSUME NEW o \in ops, OpStep(o) PROVE primary'[d] = NoObject
  <2>1. CASE PutPrimary(o)
    <3>1. PICK e \in Docs :
             /\ born[e] = NoObject
             /\ primary' = [primary EXCEPT ![e] = [tenant |-> o.ctx.tenant, hash |-> o.hash]]
      BY <2>1 DEF PutPrimary
    <3> QED
      BY <3>1 DEF TypeOK, DocTypeOK
  <2>2. CASE DeleteKey(o)
    BY <2>2 DEF DeleteKey, TypeOK, DocTypeOK
  <2>3. CASE UNCHANGED primary
    BY <2>3
  <2> QED
    BY <1>2, <2>1, <2>2, <2>3
    DEF OpStep, AnswerDuplicate, PutSidecar, ShareRead, ShareWrite, OpFails, s3Vars
<1>3. CASE DocStep
  <2>1. ASSUME NEW id \in OpIds, NEW ctx \in Contexts, StartOp(id, ctx) PROVE UNCHANGED primary
    BY <2>1 DEF StartOp, UploadNew, UploadDuplicate, DeleteList, ShareResolve, s3Vars
  <2> QED
    BY <1>1, <1>2, <1>3, <2>1 DEF DocStep
<1> QED
  BY <1>1, <1>3, DocUnchanged DEF Invalidate, s3Vars

LEMMA DeletesStayEmpty ==
    ASSUME TypeOK, Safe, DeletesEmpty, [Next]_vars
    PROVE  DeletesEmpty'
<1> SUFFICES ASSUME NEW n \in ops', n.kind = "delete"
             PROVE  /\ "primary" \notin n.keys => primary'[n.doc] = NoObject
                    /\ n.pc = "invalidate" => n.keys = {}
  BY DEF DeletesEmpty
<1>1. CASE n \in ops
  <2>1. n \in DeleteOp
    BY <1>1, OpParts DEF TypeOK
  <2>2. n.doc \in Docs /\ born[n.doc] # NoObject
    BY <1>1, <2>1 DEF DeleteOp, Safe, OpSafe
  <2> QED
    BY <1>1, <2>2, PrimaryStaysAway DEF DeletesEmpty
<1>2. ASSUME NEW id \in OpIds, NEW ctx \in Contexts, StartOp(id, ctx), n \notin ops
      PROVE  /\ "primary" \notin n.keys => primary'[n.doc] = NoObject
             /\ n.pc = "invalidate" => n.keys = {}
  <2>1. PICK d \in Docs : DeleteList(id, ctx, d)
    BY <1>2 DEF StartOp, UploadNew, UploadDuplicate, ShareResolve
  <2>2. n.doc = d /\ n.keys = KeysOf(ctx.tenant, d) /\ n.pc = "delete" /\ UNCHANGED primary
    BY <1>2, <2>1 DEF DeleteList, s3Vars
  <2>3. "primary" \notin KeysOf(ctx.tenant, d) => primary[d] = NoObject
    BY <2>1 DEF DeleteList, KeysOf, Safe, DocSafe
  <2> QED
    BY <2>2, <2>3
<1>3. ASSUME NEW o \in ops, OpStep(o), n \notin ops
      PROVE  /\ "primary" \notin n.keys => primary'[n.doc] = NoObject
             /\ n.pc = "invalidate" => n.keys = {}
  <2>1. CASE DeleteKey(o)
    <3>1. o \in DeleteOp /\ o.doc \in Docs
      BY <2>1, OpParts DEF DeleteKey, TypeOK, DeleteOp
    <3> DEFINE key  == IF "primary" \in o.keys THEN "primary" ELSE "sidecar"
               rest == o.keys \ {key}
               next == IF rest = {} THEN "invalidate" ELSE "deleting"
    <3>2. n = [o EXCEPT !.keys = rest, !.pc = next]
      BY <1>3, <2>1 DEF DeleteKey, Become
    <3>3. n.doc = o.doc /\ n.keys = rest /\ n.pc = next
      BY <3>1, <3>2 DEF DeleteOp
    <3>4. n.pc = "invalidate" => n.keys = {}
      BY <3>3
    <3>5. CASE "primary" \in o.keys
      <4>1. primary'[o.doc] = NoObject
        BY <2>1, <3>1, <3>5 DEF DeleteKey, TypeOK, DocTypeOK
      <4> QED
        BY <3>3, <3>4, <4>1
    <3>6. CASE "primary" \notin o.keys
      <4>1. primary[o.doc] = NoObject
        BY <3>1, <3>6 DEF DeletesEmpty, DeleteOp
      <4>2. UNCHANGED primary
        BY <2>1, <3>6 DEF DeleteKey
      <4> QED
        BY <3>3, <3>4, <4>1, <4>2
    <3> QED
      BY <3>5, <3>6
  <2>2. ~PutPrimary(o)
    BY <1>3 DEF PutPrimary, Become
  <2>3. ~PutSidecar(o)
    <3> SUFFICES ASSUME PutSidecar(o) PROVE FALSE
      OBVIOUS
    <3>1. o \in TagOp /\ o.kind = "upload"
      BY OpParts DEF PutSidecar, TypeOK
    <3>2. n = [o EXCEPT !.pc = "invalidate"]
      BY <1>3 DEF PutSidecar, Become
    <3> QED
      BY <3>1, <3>2 DEF TagOp
  <2>4. ~ShareRead(o) /\ ~ShareWrite(o)
    BY <1>3 DEF ShareRead, ShareWrite, Become
  <2> QED
    BY <1>3, <2>1, <2>2, <2>3, <2>4 DEF OpStep, AnswerDuplicate, OpFails, Finish
<1>4. CASE DocStep
  BY <1>1, <1>2, <1>3, <1>4 DEF DocStep
<1> QED
  BY <1>1, <1>4, DocUnchanged DEF Invalidate, Finish

\* Nobody cites again what the index does not hold.
LEMMA UncitedStays ==
    ASSUME TypeOK, CacheOK, [Next]_vars, NEW d \in Docs, index[d] = NoObject, Uncited(d)
    PROVE  Uncited(d)'
<1>1. ASSUME NEW n \in reqs' PROVE d \notin n.srcs
  <2>1. n \in Req /\ Origin(n)
    BY ReqOrigin
  <2> QED
    BY <2>1 DEF Origin, Req, Uncited, Retrievable
<1>2. ASSUME NEW s \in Contexts, NEW i \in 1..Len(cache'[s]) PROVE d \notin cache'[s][i].srcs
  <2>1. CASE NoNewAnswers
    BY <2>1 DEF NoNewAnswers, Uncited
  <2>2. ASSUME NEW r \in reqs, OnlyNewAnswer(r.ctx, r.srcs) PROVE d \notin cache'[s][i].srcs
    BY <2>2 DEF OnlyNewAnswer, Uncited
  <2> QED
    BY <2>1, <2>2, CacheStep
<1> QED
  BY <1>1, <1>2 DEF Uncited

\* The step that settles a delete leaves no answer that cites the document:
\* whoever could cite it belongs to the organization whose cache it drops.
LEMMA SettlingForgets ==
    ASSUME TypeOK, CacheOK, Safe, SourcesWereGranted, DeletesEmpty,
           NEW o \in ops, Invalidate(o), o.kind = "delete", DeleteFate(o.doc) = "settled"
    PROVE  Gone(o.doc)'
<1> DEFINE d == o.doc
<1>1. o \in DeleteOp /\ d \in Docs /\ o.pc = "invalidate"
  BY OpParts DEF Invalidate, TypeOK, DeleteOp
<1>2. born[d] # NoObject /\ born[d].tenant = o.ctx.tenant
  BY <1>1 DEF Safe, OpSafe
<1>3. primary[d] = NoObject
  BY <1>1 DEF DeletesEmpty
<1>4. index[d] = NoObject /\ \A r \in reqs : d \notin r.srcs
  BY DEF DeleteFate, Carries
<1>5. UNCHANGED <<primary, born, index, reqs>>
  BY DEF Invalidate, ragVars
<1>6. ASSUME NEW s \in Contexts, NEW i \in 1..Len(cache'[s]) PROVE d \notin cache'[s][i].srcs
  <2>1. cache'[s] = IF s.tenant = o.ctx.tenant THEN <<>> ELSE cache[s]
    BY DEF Invalidate, InvalidateTenant
  <2>2. CASE s.tenant = o.ctx.tenant
    <3>1. Len(cache'[s]) = 0
      BY <2>1, <2>2, EmptySeq
    <3> QED
      BY <3>1
  <2>3. CASE s.tenant # o.ctx.tenant
    <3>1. s \notin granted[d]
      BY <1>1, <1>2, <2>3 DEF Safe, DocSafe
    <3> QED
      BY <2>1, <2>3, <3>1 DEF SourcesWereGranted
  <2> QED
    BY <2>2, <2>3
<1> HIDE DEF d
<1>7. Gone(d)'
  BY <1>2, <1>3, <1>4, <1>5, <1>6 DEF Gone, Uncited
<1> QED
  BY <1>7 DEF d

\* Only the end of a delete settles its fate.
LEMMA FateStep ==
    ASSUME TypeOK, [Next]_vars, NEW d \in Docs, fate'[d] = "settled", fate[d] # "settled"
    PROVE  \E o \in ops : Invalidate(o) /\ o.kind = "delete" /\ o.doc = d /\ DeleteFate(d) = "settled"
<1>1. ~UNCHANGED fate
  OBVIOUS
<1>2. ~DocStep
  BY <1>1 DEF DocStep, StartOp, UploadNew, UploadDuplicate, DeleteList, ShareResolve, OpStep,
     AnswerDuplicate, PutPrimary, PutSidecar, DeleteKey, ShareRead, ShareWrite, OpFails, s3Vars
<1>3. PICK o \in ops : Invalidate(o)
  BY <1>1, <1>2, DocUnchanged DEF s3Vars
<1>4. fate' = IF o.kind = "delete" THEN [fate EXCEPT ![o.doc] = DeleteFate(o.doc)] ELSE fate
  BY <1>3 DEF Invalidate
<1>5. fate \in [Docs -> {"none", "late", "settled"}]
  BY DEF TypeOK, DocTypeOK
<1> QED
  BY <1>1, <1>3, <1>4, <1>5

LEMMA SettledStaysGone ==
    ASSUME TypeOK, CacheOK, Safe, SourcesWereGranted, DeletesEmpty, SettledIsGone, [Next]_vars
    PROVE  SettledIsGone'
<1> SUFFICES ASSUME NEW d \in Docs, fate'[d] = "settled" PROVE Gone(d)'
  BY DEF SettledIsGone
<1>1. CASE fate[d] = "settled"
  <2>1. Gone(d)
    BY <1>1 DEF SettledIsGone
  <2>2. born'[d] # NoObject
    BY <2>1, HistoryGrows DEF Gone
  <2>3. primary'[d] = NoObject
    BY <2>1, PrimaryStaysAway DEF Gone
  <2>4. index'[d] = NoObject
    BY <2>1, IndexStep DEF Gone
  <2>5. Uncited(d)'
    BY <2>1, UncitedStays DEF Gone
  <2> QED
    BY <2>2, <2>3, <2>4, <2>5 DEF Gone
<1>2. CASE fate[d] # "settled"
  BY <1>2, FateStep, SettlingForgets
<1> QED
  BY <1>1, <1>2

IInv ==
    TypeOK /\ CacheOK /\ Safe /\ SourcesWereGranted /\ DeletesEmpty /\ SettledIsGone

(***************************************************************************)
(* A delete whose invalidation found neither chunks in the index nor a     *)
(* request that carries the document is final: no request and no cached    *)
(* answer cites it again (documents.py:389 against chat.py:339), whatever  *)
(* handlers, crawls, shares and further deletes follow.                    *)
(***************************************************************************)
THEOREM SettledDeletes == Spec => []SettledDeleteIsFinal
<1>1. Init => IInv
  <2> SUFFICES ASSUME Init PROVE IInv
    OBVIOUS
  <2>1. TypeOK /\ CacheOK
    BY TypesInitial
  <2>2. Safe /\ DeletesEmpty /\ SettledIsGone
    BY DEF Init, DocInit, Safe, DocSafe, DeletesEmpty, SettledIsGone
  <2>3. \A s \in Contexts : Len(cache[s]) = 0
    BY EmptySeq DEF Init, CacheInit, NoAnswers
  <2>4. SourcesWereGranted
    BY <2>3 DEF Init, SourcesWereGranted
  <2> QED
    BY <2>1, <2>2, <2>4 DEF IInv
<1>2. IInv /\ [Next]_vars => IInv'
  BY TypesInductive, IsolationInductive, DeletesStayEmpty, SettledStaysGone DEF IInv
<1>3. IInv => SettledDeleteIsFinal
  BY DEF IInv, SettledIsGone, Gone, Uncited, SettledDeleteIsFinal
<1> QED
  BY <1>1, <1>2, <1>3, PTL DEF Spec
=============================================================================
