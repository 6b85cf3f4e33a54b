------------------------- MODULE ConversationsProofs -------------------------
(***************************************************************************)
(* Proofs about Conversations, for any users, conversations and number of  *)
(* overlapping requests, questions, verbatim turns and messages to a page. *)
(***************************************************************************)
EXTENDS Conversations, FiniteSetTheorems, WellFoundedInduction, TLAPS

TypeInv ==
    /\ items \in [Users -> [Convs -> Item \cup {None}]]
    /\ messages \in [Convs -> SUBSET Message]
    /\ asks \subseteq Ask
    /\ turns \in 0..MaxTurns /\ clock \in Nat
    /\ owner \in [Convs -> Users \cup {None}]
    /\ deleted \subseteq Convs /\ lossy \subseteq Convs
    /\ late \subseteq Message

\* A row is its owner's, and so is all that was folded into it.
RowsAreOwned ==
    \A u \in Users, c \in Convs : items[u][c] # None =>
        owner[c] = u /\ \A m \in items[u][c].summary : m.by = u

\* No row with a title is left of a conversation that was deleted, and its id
\* is not given out again.
DeletedForGood ==
    \A c \in deleted : owner[c] # None
        /\ \A u \in Users : items[u][c] # None => ~items[u][c].titled

\* No two messages of a conversation share a sort key, and a key in flight is
\* no stored message's and no other request's.
KeysAreUnique ==
    /\ \A c \in Convs : \A m, k \in messages[c] : m.key = k.key => m = k
    /\ \A c \in Convs : \A m \in messages[c] : m.key <= clock
    /\ \A r \in asks : r.key <= clock
    /\ \A r \in asks : r.key # 0 => r.pc \in {"user", "assistant"}
    /\ \A r \in asks, c \in Convs : \A m \in messages[c] : m.key # r.key
    /\ \A r, s \in asks : r.key = s.key /\ r.key # 0 => r = s

TablesAreFinite ==
    /\ \A c \in Convs : IsFiniteSet(messages[c])
    /\ \A r \in asks : IsFiniteSet(r.hist)

\* A conversation nothing was cut out of.
Whole(c) == c \in Convs \ (lossy \cup deleted)

\* Of the messages T, with L those that landed late: a part that nothing came
\* in front of since but the late.
Segment(T, L, G) == G \subseteq T /\ \A x \in T \ G : x \in L \/ \A y \in G : y.key < x.key

\* Of two histories G was read no later than h: what of G lies in front of a
\* message of h is in h; or h was read before G and is no longer, and a part of
\* it while all fits a page.
Precedes(G, h) == \A x \in G, y \in h : x.key < y.key => x \in h

Ordered(T, G, h) ==
    \/ Precedes(G, h)
    \/ /\ Cardinality(h) <= Cardinality(G)
       /\ Cardinality(T) <= PageSize => h \subseteq G

\* H: the histories that requests have read.
HistsAreOrdered(T, L, H) ==
    \A h \in H : Segment(T, L, h) /\ Cardinality(h) <= PageSize /\ \A G \in H : Ordered(T, G, h)

\* The messages below the boundary of a history that was read are in the
\* summary, but for the late.
Witness(T, L, H, G, summary, through) ==
    /\ Segment(T, L, G) /\ through = Boundary(G)
    /\ Oldest(G, through) \subseteq summary \cup L
    /\ \A h \in H : Ordered(T, G, h)

Covers(T, L, H, summary, through) ==
    \E G \in SUBSET T : Witness(T, L, H, G, summary, through)

Hists(c) == {r.hist : r \in {s \in asks : s.conv = c}}

RowsCover(c) ==
    \A u \in Users : items[u][c] # None =>
        Covers(messages[c], late, Hists(c), items[u][c].summary, items[u][c].through)

\* A request's summary covers as much as it says, and once it has folded, all
\* that its recent turns leave out.
AsksCover(c) ==
    \A r \in asks : r.conv = c =>
        /\ Covers(messages[c], late, Hists(c), r.summary, r.through)
        /\ r.pc = "fold" => r.through < Boundary(r.hist)
        /\ r.pc \in {"save", "answer"} => Boundary(r.hist) <= r.through

Covered(c) == HistsAreOrdered(messages[c], late, Hists(c)) /\ RowsCover(c) /\ AsksCover(c)

IInv ==
    /\ TypeInv /\ OnlyTheOwner /\ RowsAreOwned /\ DeletedForGood
    /\ KeysAreUnique /\ TablesAreFinite
    /\ \A c \in Convs : Whole(c) => Covered(c)
-----------------------------------------------------------------------------
USE HistoryAssumption, NoneAssumption

(***************************************************************************)
(* Histories: how many messages lie in front of another.                   *)
(***************************************************************************)
Below(S, m) == {k \in S : k.key < m.key}

LEMMA LeastNumber ==
    ASSUME NEW T, T \subseteq Nat, T # {}
    PROVE  \E x \in T : \A y \in T : x <= y
<1> DEFINE R == {p \in Nat \X Nat : p[1] < p[2]}
<1>1. R = OpToRel(<, Nat)
  BY DEF OpToRel
<1>2. IsWellFoundedOn(R, Nat)
  BY <1>1, NatLessThanWellFounded
<1> HIDE DEF R
<1>3. PICK x \in T : \A y \in T : ~(<<y, x>> \in R)
  BY <1>2, WFMin
<1>4. \A y \in T : ~(y < x)
  BY <1>3 DEF R
<1> QED
  BY <1>4

LEMMA Counts ==
    ASSUME NEW S, IsFiniteSet(S), NEW T, T \subseteq S
    PROVE  /\ IsFiniteSet(T) /\ Cardinality(T) \in Nat /\ Cardinality(S) \in Nat
           /\ Cardinality(T) <= Cardinality(S)
           /\ Cardinality(T) = Cardinality(S) => T = S
<1>1. T \in SUBSET S
  OBVIOUS
<1> QED
  BY <1>1, FS_Subset, FS_CardinalityType

LEMMA OneMore ==
    ASSUME NEW S, IsFiniteSet(S), NEW x
    PROVE  /\ IsFiniteSet(S \cup {x})
           /\ Cardinality(S) <= Cardinality(S \cup {x})
           /\ Cardinality(S \cup {x}) <= Cardinality(S) + 1
<1>1. /\ IsFiniteSet(S \cup {x}) /\ Cardinality(S) \in Nat
      /\ Cardinality(S \cup {x}) = IF x \in S THEN Cardinality(S) ELSE Cardinality(S) + 1
  BY FS_AddElement, FS_CardinalityType
<1> QED
  BY <1>1

LEMMA IsOldest ==
    ASSUME NEW S, NEW n, NEW m \in S
    PROVE  m \in Oldest(S, n) <=> Cardinality(Below(S, m)) < n
BY DEF Oldest, Below

LEMMA Windows ==
    ASSUME NEW h, IsFiniteSet(h)
    PROVE  /\ Boundary(h) \in Nat /\ Boundary(h) <= Cardinality(h)
           /\ \A g : IsFiniteSet(g) /\ Cardinality(g) <= Cardinality(h) =>
                         Boundary(g) <= Boundary(h)
           /\ \A g : IsFiniteSet(g) /\ 0 < Boundary(g) /\ Cardinality(g) <= Cardinality(h) =>
                         Boundary(h) - Boundary(g) = Cardinality(h) - Cardinality(g)
<1>1. Window \in Nat
  BY DEF Window
<1>2. Cardinality(h) \in Nat /\ \A g : IsFiniteSet(g) => Cardinality(g) \in Nat
  BY FS_CardinalityType
<1> QED
  BY <1>1, <1>2 DEF Boundary

LEMMA NoHistory == IsFiniteSet({}) /\ Boundary({}) = 0 /\ Cardinality({}) = 0
BY FS_EmptySet DEF Boundary, Window

\* What precedes a message of a segment lies in the segment, but for the late.
LEMMA OldestLiesIn ==
    ASSUME NEW G, NEW h, NEW T, IsFiniteSet(T), G \subseteq T, h \subseteq T, NEW L,
           \A x \in T \ G : x \in L \/ \A y \in G : y.key < x.key,
           Precedes(G, h), NEW n \in Nat, n <= Cardinality(G), NEW y \in Oldest(h, n)
    PROVE  y \in L \/ y \in Oldest(G, n)
<1>1. y \in h /\ y \in T
  BY DEF Oldest
<1>2. Cardinality(Below(h, y)) < n
  BY <1>1, IsOldest
<1>3. IsFiniteSet(h) /\ Below(h, y) \subseteq h
  BY Counts DEF Below
<1>4. Below(G, y) \subseteq Below(h, y)
  BY <1>1 DEF Below, Precedes
<1>5. /\ Cardinality(Below(G, y)) <= Cardinality(Below(h, y))
      /\ Cardinality(Below(G, y)) \in Nat /\ Cardinality(Below(h, y)) \in Nat
  <2>1. IsFiniteSet(Below(h, y))
    BY <1>3, Counts
  <2> QED
    BY <2>1, <1>4, Counts
<1>6. CASE y \in G
  BY <1>2, <1>5, <1>6, IsOldest
<1>7. CASE y \notin G /\ y \notin L
  <2>1. Below(G, y) = G
    BY <1>1, <1>7 DEF Below
  <2> QED
    BY <1>2, <1>5, <2>1
<1> QED
  BY <1>6, <1>7

\* A page holds all of a short table and as much as fits of a long one.
LEMMA Pages ==
    ASSUME NEW T, IsFiniteSet(T), T \subseteq Message, NEW n \in Nat,
           \A m, k \in T : m.key = k.key => m = k
    PROVE  /\ Oldest(T, n) \subseteq T
           /\ \A x \in T, y \in Oldest(T, n) : x.key < y.key => x \in Oldest(T, n)
           /\ Cardinality(Oldest(T, n)) <= n
           /\ n <= Cardinality(Oldest(T, n)) \/ Oldest(T, n) = T
<1> DEFINE P == Oldest(T, n)
<1>1. P \subseteq T /\ IsFiniteSet(P)
  <2>1. P \subseteq T
    BY DEF Oldest
  <2> QED
    BY <2>1, Counts
<1>2. \A x \in T : Below(T, x) \subseteq T /\ IsFiniteSet(Below(T, x))
  <2>1. \A x \in T : Below(T, x) \subseteq T
    BY DEF Below
  <2> QED
    BY <2>1, Counts
<1>3. ASSUME NEW x \in T, NEW y \in P, x.key < y.key PROVE x \in P
  <2>1. x.key \in Nat /\ y.key \in Nat /\ y \in T
    BY <1>1 DEF Message
  <2>2. Below(T, x) \subseteq Below(T, y)
    <3>1. \A k \in T : k.key \in Nat
      BY DEF Message
    <3> QED
      BY <2>1, <3>1, <1>3 DEF Below
  <2>3. Cardinality(Below(T, x)) <= Cardinality(Below(T, y))
        /\ Cardinality(Below(T, x)) \in Nat /\ Cardinality(Below(T, y)) \in Nat
    BY <1>2, <2>1, <2>2, Counts
  <2>4. Cardinality(Below(T, y)) < n
    BY <2>1, <1>3, IsOldest
  <2> QED
    BY <2>3, <2>4, IsOldest
<1>4. n <= Cardinality(P) \/ P = T
  <2> SUFFICES ASSUME P # T PROVE n <= Cardinality(P)
    OBVIOUS
  <2> DEFINE K == {m.key : m \in T \ P}
  <2>1. K \subseteq Nat /\ K # {}
    BY <1>1 DEF Message
  <2> HIDE DEF K
  <2>2. PICK k \in K : \A j \in K : k <= j
    BY <2>1, LeastNumber
  <2>3. PICK m \in T \ P : m.key = k
    BY <2>2 DEF K
  <2>4. \A x \in T \ P : m.key <= x.key
    BY <2>2, <2>3 DEF K
  <2>5. Below(T, m) \subseteq P
    <3>1. \A x \in T : x.key \in Nat
      BY DEF Message
    <3> QED
      BY <2>3, <2>4, <3>1 DEF Below
  <2>6. ~(Cardinality(Below(T, m)) < n)
    BY <2>3, IsOldest
  <2>7. Cardinality(Below(T, m)) <= Cardinality(P) /\ Cardinality(P) \in Nat
        /\ Cardinality(Below(T, m)) \in Nat
    BY <1>1, <2>5, Counts
  <2> QED
    BY <2>6, <2>7
<1>5. Cardinality(P) <= n
  <2>1. CASE P = {}
    BY <2>1, FS_EmptySet
  <2>2. CASE P # {}
    <3> DEFINE E == {Cardinality(P) - Cardinality(Below(P, x)) : x \in P}
    <3>0. \A x \in T : x.key \in Nat
      BY DEF Message
    <3>1. \A x \in P : Below(P, x) \subseteq P
      BY DEF Below
    <3>2. \A x \in P : /\ Cardinality(Below(P, x)) \in Nat /\ Cardinality(P) \in Nat
                       /\ Cardinality(Below(P, x)) <= Cardinality(P)
                       /\ IsFiniteSet(Below(P, x))
      BY <1>1, <3>1, Counts
    <3>3. E \subseteq Nat /\ E # {}
      BY <2>2, <3>2
    <3> HIDE DEF E
    <3>4. PICK e \in E : \A i \in E : e <= i
      BY <3>3, LeastNumber
    <3>5. PICK x \in P : e = Cardinality(P) - Cardinality(Below(P, x))
      BY <3>4 DEF E
    <3>6. ASSUME NEW z \in P, x.key < z.key PROVE FALSE
      <4>1. Below(P, x) \subseteq Below(P, z) /\ x \in Below(P, z) /\ x \notin Below(P, x)
        BY <3>0, <3>6, <1>1 DEF Below
      <4>2. Cardinality(Below(P, x)) < Cardinality(Below(P, z))
        BY <3>2, <4>1, Counts
      <4>3. Cardinality(P) - Cardinality(Below(P, z)) \in E
        BY DEF E
      <4> QED
        BY <3>2, <3>4, <3>5, <4>2, <4>3
    <3>7. P = Below(P, x) \cup {x}
      BY <3>0, <3>6, <1>1 DEF Below
    <3>8. Cardinality(P) <= Cardinality(Below(P, x)) + 1
      <4>1. IsFiniteSet(Below(P, x)) /\ Cardinality(Below(P, x)) \in Nat
        BY <3>2
      <4>2. Cardinality(Below(P, x) \cup {x}) <= Cardinality(Below(P, x)) + 1
        BY <4>1, OneMore
      <4> QED
        BY <3>7, <4>2
    <3>9. Below(P, x) \subseteq Below(T, x) /\ x \in T
      BY <1>1 DEF Below
    <3>10. Cardinality(Below(P, x)) <= Cardinality(Below(T, x))
           /\ Cardinality(Below(T, x)) \in Nat
      BY <1>2, <3>9, Counts
    <3>11. Cardinality(Below(T, x)) < n
      BY <3>9, IsOldest
    <3> QED
      BY <3>2, <3>8, <3>10, <3>11
  <2> QED
    BY <2>1, <2>2
<1> QED
  BY <1>1, <1>3, <1>4, <1>5

\* What a request folds are the messages from the old boundary to the new one.
LEMMA FoldedTurns ==
    ASSUME NEW r \in Ask
    PROVE  /\ Oldest(r.hist, Boundary(r.hist)) \subseteq
                  Oldest(r.hist, r.through) \cup TurnsToFold(r)
           /\ TurnsToFold(r) \subseteq r.hist /\ TurnsToFold(r) \subseteq Message
BY DEF TurnsToFold, Oldest, Ask

LEMMA InitIInv == Init => IInv
<1> SUFFICES ASSUME Init PROVE IInv
  OBVIOUS
<1>1. TypeInv /\ OnlyTheOwner /\ RowsAreOwned /\ DeletedForGood /\ KeysAreUnique
  BY DEF Init, TypeInv, OnlyTheOwner, RowsAreOwned, DeletedForGood, KeysAreUnique
<1>2. TablesAreFinite
  BY FS_EmptySet DEF Init, TablesAreFinite
<1>3. \A c \in Convs : Covered(c)
  BY DEF Init, Covered, HistsAreOrdered, Hists, RowsCover, AsksCover
<1> QED
  BY <1>1, <1>2, <1>3 DEF IInv

-----------------------------------------------------------------------------
(***************************************************************************)
(* Types.                                                                  *)
(***************************************************************************)

\* What a row holds is typed, also where there is none.
LEMMA StoredTyped ==
    ASSUME TypeInv, NEW u \in Users, NEW c \in Convs
    PROVE  StoredSummary(u, c) \in SUBSET Message /\ StoredThrough(u, c) \in Nat
BY DEF TypeInv, StoredSummary, StoredThrough, Item

LEMMA UpsertTyped ==
    ASSUME TypeInv, NEW u \in Users, NEW c \in Convs,
           NEW summary \in SUBSET Message, NEW through \in Nat,
           Upsert(u, c, summary, through)
    PROVE  /\ items' \in [Users -> [Convs -> Item \cup {None}]]
           /\ items'[u][c] # None
           /\ items'[u][c].summary = summary /\ items'[u][c].through = through
           /\ items'[u][c].titled => items[u][c] # None /\ items[u][c].titled
           /\ \A v \in Users, d \in Convs : <<v, d>> # <<u, c>> => items'[v][d] = items[v][d]
<1> DEFINE row == [titled |-> items[u][c] # None /\ items[u][c].titled,
                   summary |-> summary, through |-> through]
<1>1. items' = [items EXCEPT ![u][c] = row]
  BY DEF Upsert, TypeInv
<1>2. (items[u][c] # None /\ items[u][c].titled) \in BOOLEAN
  BY DEF TypeInv, Item
<1>3. row \in Item
  BY <1>2 DEF Item
<1> HIDE DEF row
<1>4. items'[u][c] = row /\ items' \in [Users -> [Convs -> Item \cup {None}]]
      /\ \A v \in Users, d \in Convs : <<v, d>> # <<u, c>> => items'[v][d] = items[v][d]
  BY <1>1, <1>3 DEF TypeInv
<1>5. items'[u][c] # None
  BY <1>3, <1>4
<1>6. row.summary = summary /\ row.through = through
      /\ row.titled = (items[u][c] # None /\ items[u][c].titled)
  BY DEF row
<1> QED
  BY <1>4, <1>5, <1>6

LEMMA NewAskTyped ==
    ASSUME TypeInv, NEW id \in AskIds, NEW u \in Users, NEW c \in Convs,
           NEW pc \in {"history", "answer"}, NewAsk(id, u, c, pc)
    PROVE  asks' \subseteq Ask /\ turns' \in 0..MaxTurns
<1>1. turns + 1 \in 1..MaxTurns
  BY DEF NewAsk, TypeInv
<1>2. [id |-> id, user |-> u, conv |-> c, key |-> 0,
       hist |-> {}, summary |-> {}, through |-> 0, pc |-> pc] \in Ask
  BY DEF Ask
<1>3. asks' \subseteq Ask
  BY <1>2 DEF NewAsk, TypeInv
<1>4. turns' \in 0..MaxTurns
  BY <1>1 DEF NewAsk
<1> QED
  BY <1>3, <1>4

\* What a put writes, and where.
Put(r) == [key |-> r.key, by |-> r.user, role |-> r.pc]

LEMMA PutTyped ==
    ASSUME TypeInv, KeysAreUnique, NEW r \in asks, PutItem(r)
    PROVE  /\ Put(r) \in Message /\ r.conv \in Convs
           /\ messages'[r.conv] = messages[r.conv] \cup {Put(r)}
           /\ \A c \in Convs : c # r.conv => messages'[c] = messages[c]
           /\ messages' \in [Convs -> SUBSET Message]
           /\ late' = IF \E k \in messages[r.conv] : r.key < k.key
                      THEN late \cup {Put(r)} ELSE late
<1>1. r \in Ask /\ r.key # 0 /\ r.pc \in {"user", "assistant"}
  BY DEF TypeInv, PutItem, KeysAreUnique
<1>2. Put(r) \in Message /\ r.conv \in Convs /\ Put(r).key = r.key
  BY <1>1 DEF Put, Message, Ask
<1>3. messages' = [messages EXCEPT ![r.conv] = @ \cup {Put(r)}]
      /\ late' = IF \E k \in messages[r.conv] : Put(r).key < k.key
                 THEN late \cup {Put(r)} ELSE late
  BY DEF PutItem, Put
<1> QED
  BY <1>2, <1>3 DEF TypeInv

LEMMA TypeStep == TypeInv /\ KeysAreUnique /\ TablesAreFinite /\ [Next]_vars => TypeInv'
<1> SUFFICES ASSUME TypeInv, KeysAreUnique, TablesAreFinite, [Next]_vars PROVE TypeInv'
  OBVIOUS
<1>1. ASSUME NEW id \in AskIds, NEW u \in Users, NEW c \in Convs, StartConversation(id, u, c)
      PROVE  TypeInv'
  <2>1. asks' \subseteq Ask /\ turns' \in 0..MaxTurns
    BY <1>1, NewAskTyped DEF StartConversation
  <2>2. [titled |-> TRUE, summary |-> {}, through |-> 0] \in Item
    BY DEF Item
  <2> QED
    BY <1>1, <2>1, <2>2 DEF StartConversation, TypeInv
<1>2. ASSUME NEW id \in AskIds, NEW u \in Users, NEW c \in Convs, OpenConversation(id, u, c)
      PROVE  TypeInv'
  <2>1. asks' \subseteq Ask /\ turns' \in 0..MaxTurns
    BY <1>2, NewAskTyped DEF OpenConversation
  <2> QED
    BY <1>2, <2>1 DEF OpenConversation, TypeInv
<1>3. ASSUME NEW r \in asks, AskStep(r) PROVE TypeInv'
  <2> r \in Ask
    BY DEF TypeInv
  <2>1. CASE ReadHistory(r)
    <3>1. [r EXCEPT !.hist = Page(r.conv), !.pc = "summary"] \in Ask
      BY DEF TypeInv, Ask, Page, Oldest
    <3> QED
      BY <2>1, <3>1 DEF ReadHistory, Become, TypeInv
  <2>2. CASE ReadSummary(r)
    <3>1. StoredSummary(r.user, r.conv) \in SUBSET Message /\ StoredThrough(r.user, r.conv) \in Nat
      BY StoredTyped DEF Ask
    <3>2. \A pc \in {"fold", "answer"} :
              [r EXCEPT !.summary = StoredSummary(r.user, r.conv),
                        !.through = StoredThrough(r.user, r.conv), !.pc = pc] \in Ask
      BY <3>1 DEF Ask
    <3> QED
      BY <2>2, <3>2 DEF ReadSummary, Become, TypeInv
  <2>3. CASE Fold(r)
    <3>1. Boundary(r.hist) \in Nat /\ TurnsToFold(r) \subseteq Message
      BY Windows, FoldedTurns DEF TablesAreFinite
    <3>2. /\ [r EXCEPT !.summary = @ \cup TurnsToFold(r),
                       !.through = Boundary(r.hist), !.pc = "save"] \in Ask
          /\ [r EXCEPT !.through = Boundary(r.hist), !.pc = "save"] \in Ask /\ r.conv \in Convs
      BY <3>1 DEF Ask
    <3> QED
      BY <2>3, <3>2 DEF Fold, Become, TypeInv
  <2>4. CASE SaveSummary(r)
    <3>1. items' \in [Users -> [Convs -> Item \cup {None}]]
      BY <2>4, UpsertTyped DEF SaveSummary, Ask
    <3>2. [r EXCEPT !.pc = "answer"] \in Ask
      BY DEF Ask
    <3> QED
      BY <2>4, <3>1, <3>2 DEF SaveSummary, Become, TypeInv
  <2>5. CASE Answer(r)
    <3>1. [r EXCEPT !.hist = {}, !.summary = {}, !.through = 0, !.pc = "user"] \in Ask
      BY DEF Ask
    <3> QED
      BY <2>5, <3>1 DEF Answer, Become, TypeInv
  <2>6. CASE SortKey(r)
    <3>1. [r EXCEPT !.key = clock + 1] \in Ask /\ clock + 1 \in Nat
      BY DEF TypeInv, Ask
    <3> QED
      BY <2>6, <3>1 DEF SortKey, Become, TypeInv
  <2>7. CASE PutItem(r)
    <3>1. \A pc \in {"assistant", "touch"} : [r EXCEPT !.key = 0, !.pc = pc] \in Ask
      BY DEF Ask
    <3>2. [r EXCEPT !.key = 0, !.pc = IF @ = "user" THEN "assistant" ELSE "touch"] \in Ask
      BY <3>1 DEF Ask
    <3>3. asks' \subseteq Ask
      BY <2>7, <3>2 DEF PutItem, Become, TypeInv
    <3>4. late' \subseteq Message /\ messages' \in [Convs -> SUBSET Message]
      BY <2>7, PutTyped DEF TypeInv
    <3> QED
      BY <2>7, <3>3, <3>4 DEF PutItem, TypeInv
  <2>8. CASE Touch(r)
    <3>1. StoredSummary(r.user, r.conv) \in SUBSET Message /\ StoredThrough(r.user, r.conv) \in Nat
      BY StoredTyped DEF Ask
    <3>2. items' \in [Users -> [Convs -> Item \cup {None}]]
      BY <2>8, <3>1, UpsertTyped DEF Touch, Ask
    <3> QED
      BY <2>8, <3>2 DEF Touch, Finish, TypeInv
  <2>9. CASE Drop(r)
    BY <2>9 DEF Drop, Finish, TypeInv
  <2> QED
    BY <1>3, <2>1, <2>2, <2>3, <2>4, <2>5, <2>6, <2>7, <2>8, <2>9 DEF AskStep
<1>4. ASSUME NEW u \in Users, NEW c \in Convs, DeleteConversation(u, c)
      PROVE  TypeInv'
  BY <1>4 DEF DeleteConversation, TypeInv
<1>5. ASSUME NEW u \in Users, NEW c \in Convs, DeleteFails(u, c)
      PROVE  TypeInv'
  BY <1>5 DEF DeleteFails, TypeInv
<1>6. CASE UNCHANGED vars
  BY <1>6 DEF vars, TypeInv
<1> QED
  BY <1>1, <1>2, <1>3, <1>4, <1>5, <1>6 DEF Next

\* What becomes of a request in a step that takes no key, reads no history
\* and puts nothing.
LEMMA Successor ==
    ASSUME NEW r \in Ask, AskStep(r), ~ReadHistory(r), ~SortKey(r), ~PutItem(r), NEW s \in asks'
    PROVE  \/ s \in asks /\ s # r
           \/ /\ s.conv = r.conv /\ s.user = r.user /\ s.key = r.key
              /\ r.pc \in {"summary", "fold", "save", "answer"}
              /\ s.hist = r.hist \/ s.hist = {}
<1>1. CASE ReadSummary(r)
  BY <1>1 DEF ReadSummary, Become, Ask
<1>2. CASE Fold(r)
  <2>1. \/ s \in asks /\ s # r
        \/ s = [r EXCEPT !.summary = @ \cup TurnsToFold(r),
                         !.through = Boundary(r.hist), !.pc = "save"]
        \/ s = [r EXCEPT !.through = Boundary(r.hist), !.pc = "save"]
    BY <1>2 DEF Fold, Become
  <2>2. r.pc = "fold"
    BY <1>2 DEF Fold
  <2> QED
    BY <2>1, <2>2 DEF Ask
<1>3. CASE SaveSummary(r)
  BY <1>3 DEF SaveSummary, Become, Ask
<1>4. CASE Answer(r)
  BY <1>4 DEF Answer, Become, Ask
<1>5. CASE Touch(r) \/ Drop(r)
  BY <1>5 DEF Touch, Drop, Finish
<1> QED
  BY <1>1, <1>2, <1>3, <1>4, <1>5 DEF AskStep

\* Requests come and go, and histories are pages.
LEMMA FiniteStep == TypeInv /\ KeysAreUnique /\ TablesAreFinite /\ [Next]_vars => TablesAreFinite'
<1> SUFFICES ASSUME TypeInv, KeysAreUnique, TablesAreFinite, [Next]_vars PROVE TablesAreFinite'
  OBVIOUS
<1>1. ASSUME NEW id \in AskIds, NEW u \in Users, NEW c \in Convs,
             StartConversation(id, u, c) \/ OpenConversation(id, u, c)
      PROVE  TablesAreFinite'
  <2>1. messages' = messages /\ \A s \in asks' : s \in asks \/ s.hist = {}
    BY <1>1 DEF StartConversation, OpenConversation, NewAsk
  <2> QED
    BY <2>1, NoHistory DEF TablesAreFinite
<1>2. ASSUME NEW r \in asks, AskStep(r) PROVE TablesAreFinite'
  <2> r \in Ask /\ r.conv \in Convs /\ IsFiniteSet(r.hist)
    BY DEF TypeInv, Ask, TablesAreFinite
  <2>1. CASE ReadHistory(r)
    <3>1. IsFiniteSet(messages[r.conv]) /\ Page(r.conv) \subseteq messages[r.conv]
      BY DEF TablesAreFinite, Page, Oldest
    <3>2. IsFiniteSet(Page(r.conv))
      BY <3>1, Counts
    <3>3. [r EXCEPT !.hist = Page(r.conv), !.pc = "summary"].hist = Page(r.conv)
      BY DEF Ask
    <3> QED
      BY <2>1, <3>2, <3>3 DEF ReadHistory, Become, TablesAreFinite
  <2>2. CASE PutItem(r)
    <3>1. \A c \in Convs : IsFiniteSet(messages'[c])
      <4> SUFFICES ASSUME NEW c \in Convs PROVE IsFiniteSet(messages'[c])
        OBVIOUS
      <4>1. IsFiniteSet(messages[c])
        BY DEF TablesAreFinite
      <4>2. IsFiniteSet(messages[c] \cup {Put(r)})
        BY <4>1, OneMore
      <4>3. messages'[c] = messages[c] \/ messages'[c] = messages[c] \cup {Put(r)}
        BY <2>2, PutTyped
      <4> QED
        BY <4>1, <4>2, <4>3
    <3>2. \A s \in asks' : IsFiniteSet(s.hist)
      <4>1. [r EXCEPT !.key = 0, !.pc = IF @ = "user" THEN "assistant" ELSE "touch"].hist = r.hist
        BY DEF Ask
      <4> QED
        BY <2>2, <4>1 DEF PutItem, Become, TablesAreFinite
    <3> QED
      BY <3>1, <3>2 DEF TablesAreFinite
  <2>3. CASE SortKey(r)
    <3>1. [r EXCEPT !.key = clock + 1].hist = r.hist
      BY DEF Ask
    <3> QED
      BY <2>3, <3>1 DEF SortKey, Become, TablesAreFinite
  <2>4. CASE ~ReadHistory(r) /\ ~PutItem(r) /\ ~SortKey(r)
    <3>1. messages' = messages
      BY <1>2, <2>4 DEF AskStep, ReadSummary, Fold, SaveSummary, Answer, Touch, Drop
    <3>2. \A s \in asks' : s \in asks \/ s.hist = r.hist \/ s.hist = {}
      BY <1>2, <2>4, Successor
    <3> QED
      BY <3>1, <3>2, NoHistory DEF TablesAreFinite
  <2> QED
    BY <2>1, <2>2, <2>3, <2>4
<1>3. ASSUME NEW u \in Users, NEW c \in Convs, DeleteConversation(u, c) \/ DeleteFails(u, c)
      PROVE  TablesAreFinite'
  <2>1. \A d \in Convs : messages'[d] \subseteq messages[d]
    BY <1>3 DEF DeleteConversation, DeleteFails, TypeInv
  <2>2. \A d \in Convs : IsFiniteSet(messages'[d])
    BY <2>1, Counts DEF TablesAreFinite
  <2> QED
    BY <1>3, <2>2 DEF DeleteConversation, DeleteFails, TablesAreFinite
<1>4. CASE UNCHANGED vars
  BY <1>4 DEF vars, TablesAreFinite
<1> QED
  BY <1>1, <1>2, <1>3, <1>4 DEF Next

LEMMA KeysStep == TypeInv /\ KeysAreUnique /\ [Next]_vars => KeysAreUnique'
<1> SUFFICES ASSUME TypeInv, KeysAreUnique, [Next]_vars PROVE KeysAreUnique'
  OBVIOUS
<1> clock \in Nat /\ \A c \in Convs : \A m \in messages[c] : m.key \in Nat /\ m.key # 0
  BY DEF TypeInv, Message
<1>1. ASSUME NEW id \in AskIds, NEW u \in Users, NEW c \in Convs,
             StartConversation(id, u, c) \/ OpenConversation(id, u, c)
      PROVE  KeysAreUnique'
  <2>1. \A s \in asks' : s \in asks \/ s.key = 0
    BY <1>1 DEF StartConversation, OpenConversation, NewAsk
  <2> QED
    BY <1>1, <2>1 DEF StartConversation, OpenConversation, KeysAreUnique
<1>2. ASSUME NEW r \in asks, AskStep(r) PROVE KeysAreUnique'
  <2> r \in Ask /\ r.conv \in Convs
    BY DEF TypeInv, Ask
  <2>1. CASE SortKey(r)
    <3> DEFINE n == [r EXCEPT !.key = clock + 1]
    <3>1. n.key = clock + 1 /\ n.pc \in {"user", "assistant"}
      BY <2>1 DEF SortKey, Ask
    <3>2. asks' = (asks \ {r}) \cup {n} /\ clock' = clock + 1 /\ messages' = messages
      BY <2>1 DEF SortKey, Become
    <3> HIDE DEF n
    <3>3. \A s \in asks' : s = n \/ s \in asks
      BY <3>2
    <3>4. \A s \in asks : s.key \in Nat
      BY DEF TypeInv, Ask
    <3> QED
      BY <3>1, <3>2, <3>3, <3>4 DEF KeysAreUnique
  <2>2. CASE PutItem(r)
    <3>1. \A s \in asks' : s.key = 0 \/ (s \in asks /\ s # r)
      BY <2>2 DEF PutItem, Become, Ask
    <3>2. \A c \in Convs : \A m \in messages'[c] : m \in messages[c] \/ m = Put(r)
      BY <2>2, PutTyped
    <3>3. Put(r).key = r.key /\ clock' = clock /\ r.key # 0
      BY <2>2 DEF PutItem, Put
    <3>4. \A c \in Convs : \A m, k \in messages'[c] : m.key = k.key => m = k
      BY <3>2, <3>3 DEF KeysAreUnique
    <3>5. \A c \in Convs : \A m \in messages'[c] : m.key <= clock' /\ m.key # 0
      BY <3>2, <3>3 DEF KeysAreUnique
    <3>6. \A s \in asks', c \in Convs : \A m \in messages'[c] : m.key # s.key
      BY <3>1, <3>2, <3>3, <3>5 DEF KeysAreUnique
    <3>7. \A s, t \in asks' : s.key = t.key /\ s.key # 0 => s = t
      BY <3>1 DEF KeysAreUnique
    <3>8. \A s \in asks' : s.key <= clock' /\ (s.key # 0 => s.pc \in {"user", "assistant"})
      BY <3>1, <3>3 DEF KeysAreUnique
    <3> QED
      BY <3>4, <3>5, <3>6, <3>7, <3>8 DEF KeysAreUnique
  <2>3. CASE ~SortKey(r) /\ ~PutItem(r)
    <3>1. messages' = messages /\ clock' = clock
      BY <1>2, <2>3 DEF AskStep, ReadHistory, ReadSummary, Fold, SaveSummary, Answer, Touch, Drop
    <3>2. ASSUME ReadHistory(r), NEW s \in asks' PROVE s \in asks \/ s.key = 0
      <4>1. r.key = 0 /\ [r EXCEPT !.hist = Page(r.conv), !.pc = "summary"].key = r.key
        BY <3>2 DEF ReadHistory, KeysAreUnique, Ask
      <4> QED
        BY <3>2, <4>1 DEF ReadHistory, Become
    <3>3. ASSUME ~ReadHistory(r), NEW s \in asks' PROVE s \in asks \/ s.key = 0
      <4>1. r.pc \in {"summary", "fold", "save", "answer"} => r.key = 0
        BY DEF KeysAreUnique
      <4> QED
        BY <1>2, <2>3, <3>3, <4>1, Successor
    <3>4. \A s \in asks' : s \in asks \/ s.key = 0
      BY <3>2, <3>3
    <3> QED
      BY <3>1, <3>4 DEF KeysAreUnique
  <2> QED
    BY <2>1, <2>2, <2>3
<1>3. ASSUME NEW u \in Users, NEW c \in Convs, DeleteConversation(u, c) \/ DeleteFails(u, c)
      PROVE  KeysAreUnique'
  <2>1. \A d \in Convs : messages'[d] \subseteq messages[d]
    BY <1>3 DEF DeleteConversation, DeleteFails, TypeInv
  <2> QED
    BY <1>3, <2>1 DEF DeleteConversation, DeleteFails, KeysAreUnique
<1>4. CASE UNCHANGED vars
  BY <1>4 DEF vars, KeysAreUnique
<1> QED
  BY <1>1, <1>2, <1>3, <1>4 DEF Next

-----------------------------------------------------------------------------
(***************************************************************************)
(* Who owns what.                                                          *)
(***************************************************************************)

Owned == OnlyTheOwner /\ RowsAreOwned /\ DeletedForGood

OwnAsk(r) == owner[r.conv] = r.user /\ \A m \in r.hist \cup r.summary : m.by = r.user

\* A conversation nobody created has no messages, no row and no request.
LEMMA Fresh ==
    ASSUME TypeInv, Owned, NEW c \in Convs, owner[c] = None
    PROVE  /\ messages[c] = {} /\ c \notin deleted
           /\ \A u \in Users : items[u][c] = None
           /\ \A r \in asks : r.conv # c
<1>1. \A m \in messages[c] : m.by \in Users
  BY DEF TypeInv, Message
<1>2. \A r \in asks : r.user \in Users
  BY DEF TypeInv, Ask
<1> QED
  BY <1>1, <1>2 DEF Owned, OnlyTheOwner, RowsAreOwned, DeletedForGood

LEMMA OwnedNow ==
    ASSUME TypeInv, Owned, NEW r \in asks
    PROVE  /\ OwnAsk(r) /\ r \in Ask /\ r.user \in Users /\ r.conv \in Convs
           /\ r.summary \in SUBSET Message /\ r.through \in Nat
BY DEF TypeInv, Owned, OnlyTheOwner, OwnAsk, Ask

\* A step that leaves the rows alone, adds no message and replaces a request.
LEMMA OwnedByBecome ==
    ASSUME TypeInv, Owned, NEW r, NEW n, Become(r, n), OwnAsk(n),
           UNCHANGED <<items, messages, owner, deleted>>
    PROVE  Owned'
<1>1. \A s \in asks' : OwnAsk(s)'
  BY DEF Become, Owned, OnlyTheOwner, OwnAsk
<1> QED
  BY <1>1 DEF Owned, OnlyTheOwner, OwnAsk, RowsAreOwned, DeletedForGood

\* A step that writes the row of a request and replaces it.
LEMMA OwnedByUpsert ==
    ASSUME TypeInv, Owned, NEW r \in asks,
           NEW summary \in SUBSET Message, NEW through \in Nat,
           \A m \in summary : m.by = r.user,
           Upsert(r.user, r.conv, summary, through),
           \A s \in asks' : OwnAsk(s),
           UNCHANGED <<messages, owner, deleted>>
    PROVE  Owned'
<1>1. OwnAsk(r) /\ r.user \in Users /\ r.conv \in Convs
  BY OwnedNow
<1>3. OnlyTheOwner'
  BY DEF Owned, OnlyTheOwner, OwnAsk
<1>4. /\ items'[r.user][r.conv] # None
      /\ items'[r.user][r.conv].summary = summary
      /\ items'[r.user][r.conv].titled => items[r.user][r.conv] # None /\ items[r.user][r.conv].titled
      /\ \A v \in Users, d \in Convs : <<v, d>> # <<r.user, r.conv>> => items'[v][d] = items[v][d]
  <2> DEFINE u == r.user  c == r.conv
  <2>1. Upsert(u, c, summary, through) /\ u \in Users /\ c \in Convs
    BY <1>1
  <2> HIDE DEF u, c
  <2>2. /\ items'[u][c] # None
        /\ items'[u][c].summary = summary
        /\ items'[u][c].titled => items[u][c] # None /\ items[u][c].titled
        /\ \A v \in Users, d \in Convs : <<v, d>> # <<u, c>> => items'[v][d] = items[v][d]
    BY <2>1, UpsertTyped
  <2> QED
    BY <2>2 DEF u, c
<1>5. RowsAreOwned'
  <2> SUFFICES ASSUME NEW u \in Users, NEW c \in Convs, items'[u][c] # None
               PROVE  owner'[c] = u /\ \A m \in items'[u][c].summary : m.by = u
    BY DEF RowsAreOwned
  <2> QED
    BY <1>1, <1>4 DEF Owned, RowsAreOwned, OwnAsk
<1>6. DeletedForGood'
  <2> SUFFICES ASSUME NEW c \in deleted, NEW u \in Users, items'[u][c] # None
               PROVE  owner[c] # None /\ ~items'[u][c].titled
    BY DEF Owned, DeletedForGood
  <2>1. c \in Convs
    BY DEF TypeInv
  <2>2. owner[c] # None /\ (items[u][c] # None => ~items[u][c].titled)
    BY DEF Owned, DeletedForGood
  <2>3. CASE <<u, c>> = <<r.user, r.conv>>
    BY <1>4, <2>2, <2>3
  <2>4. CASE <<u, c>> # <<r.user, r.conv>>
    BY <1>4, <2>1, <2>2, <2>4
  <2> QED
    BY <2>3, <2>4
<1> QED
  BY <1>3, <1>5, <1>6 DEF Owned

LEMMA OwnedByPut ==
    ASSUME TypeInv, KeysAreUnique, Owned, NEW r \in asks, PutItem(r)
    PROVE  Owned'
<1>1. OwnAsk(r) /\ r \in Ask
  BY OwnedNow
<1>2. ASSUME NEW c \in Convs, NEW m \in messages'[c] PROVE m.by = owner[c]
  <2>1. m \in messages[c] \/ (c = r.conv /\ m = Put(r))
    BY <1>2, PutTyped
  <2> QED
    BY <1>1, <2>1 DEF Put, OwnAsk, Owned, OnlyTheOwner
<1>3. OwnAsk([r EXCEPT !.key = 0, !.pc = IF @ = "user" THEN "assistant" ELSE "touch"])
  BY <1>1 DEF OwnAsk, Ask
<1>4. \A s \in asks' : OwnAsk(s)
  BY <1>3 DEF PutItem, Become, Owned, OnlyTheOwner, OwnAsk
<1>5. UNCHANGED <<items, owner, deleted>>
  BY DEF PutItem
<1> QED
  BY <1>2, <1>4, <1>5 DEF Owned, OnlyTheOwner, OwnAsk, RowsAreOwned, DeletedForGood

LEMMA OwnedByNewAsk ==
    ASSUME TypeInv, Owned, NEW id, NEW u \in Users, NEW c \in Convs, NEW pc, NewAsk(id, u, c, pc)
    PROVE  \A s \in asks' : OwnAsk(s) \/ (s.conv = c /\ s.user = u /\ s.hist = {} /\ s.summary = {})
<1>1. \A s \in asks' : s \in asks \/ (s.conv = c /\ s.user = u /\ s.hist = {} /\ s.summary = {})
  BY DEF NewAsk
<1>2. \A s \in asks : OwnAsk(s)
  BY DEF Owned, OnlyTheOwner, OwnAsk
<1> QED
  BY <1>1, <1>2

\* What a request reads of its own conversation is its own.
LEMMA OwnedReads ==
    ASSUME TypeInv, Owned, NEW r \in asks
    PROVE  /\ \A m \in Page(r.conv) : m.by = r.user
           /\ \A m \in StoredSummary(r.user, r.conv) : m.by = r.user
BY OwnedNow DEF Owned, OnlyTheOwner, RowsAreOwned, OwnAsk, Page, Oldest, StoredSummary

LEMMA OwnedStep == TypeInv /\ KeysAreUnique /\ Owned /\ [Next]_vars => Owned'
<1> SUFFICES ASSUME TypeInv, KeysAreUnique, Owned, [Next]_vars PROVE Owned'
  OBVIOUS
<1>1. ASSUME NEW id \in AskIds, NEW u \in Users, NEW c \in Convs, StartConversation(id, u, c)
      PROVE  Owned'
  <2>1. /\ messages[c] = {} /\ c \notin deleted
        /\ \A v \in Users : items[v][c] = None
        /\ \A r \in asks : r.conv # c
    BY <1>1, Fresh DEF StartConversation
  <2>2. owner'[c] = u /\ \A d \in Convs : d # c => owner'[d] = owner[d]
    BY <1>1 DEF StartConversation, TypeInv
  <2>3. \A d \in Convs : \A m \in messages'[d] : m.by = owner'[d]
    BY <1>1, <2>1, <2>2 DEF StartConversation, Owned, OnlyTheOwner
  <2>4. \A s \in asks' : OwnAsk(s)'
    <3> SUFFICES ASSUME NEW s \in asks' PROVE OwnAsk(s)'
      OBVIOUS
    <3>1. CASE s \in asks
      <4>1. s.conv \in Convs /\ s.conv # c /\ OwnAsk(s)
        BY <3>1, <2>1, OwnedNow
      <4> QED
        BY <4>1, <2>2 DEF OwnAsk
    <3>2. CASE s \notin asks
      <4>1. s.user = u /\ s.conv = c /\ s.hist = {} /\ s.summary = {}
        BY <3>2, <1>1 DEF StartConversation, NewAsk
      <4> QED
        BY <4>1, <2>2 DEF OwnAsk
    <3> QED
      BY <3>1, <3>2
  <2>5. items'[u][c] # None => items'[u][c].summary = {}
    BY <1>1 DEF StartConversation, TypeInv
  <2>6. \A v \in Users, d \in Convs : <<v, d>> # <<u, c>> => items'[v][d] = items[v][d]
    BY <1>1 DEF StartConversation, TypeInv
  <2>7. RowsAreOwned'
    <3> SUFFICES ASSUME NEW v \in Users, NEW d \in Convs, items'[v][d] # None
                 PROVE  owner'[d] = v /\ \A m \in items'[v][d].summary : m.by = v
      BY DEF RowsAreOwned
    <3>1. CASE d = c
      BY <3>1, <2>1, <2>2, <2>5, <2>6
    <3>2. CASE d # c
      BY <3>2, <2>2, <2>6 DEF Owned, RowsAreOwned
    <3> QED
      BY <3>1, <3>2
  <2>8. DeletedForGood'
    BY <1>1, <2>1, <2>2, <2>6 DEF StartConversation, Owned, DeletedForGood, TypeInv
  <2> QED
    BY <2>3, <2>4, <2>7, <2>8 DEF Owned, OnlyTheOwner, OwnAsk
<1>2. ASSUME NEW id \in AskIds, NEW u \in Users, NEW c \in Convs, OpenConversation(id, u, c)
      PROVE  Owned'
  <2>1. owner[c] = u
    BY <1>2 DEF OpenConversation, Owned, RowsAreOwned
  <2>2. \A s \in asks' : OwnAsk(s)
    <3>1. NewAsk(id, u, c, "history")
      BY <1>2 DEF OpenConversation
    <3>2. \A s \in asks' :
              OwnAsk(s) \/ (s.conv = c /\ s.user = u /\ s.hist = {} /\ s.summary = {})
      BY <3>1, OwnedByNewAsk
    <3> QED
      BY <2>1, <3>2 DEF OwnAsk
  <2> QED
    BY <1>2, <2>2 DEF OpenConversation, Owned, OnlyTheOwner, OwnAsk, RowsAreOwned, DeletedForGood
<1>3. ASSUME NEW r \in asks, AskStep(r) PROVE Owned'
  <2>0. /\ OwnAsk(r) /\ r \in Ask /\ r.summary \in SUBSET Message
        /\ r.through \in Nat /\ r.user \in Users /\ r.conv \in Convs
        /\ StoredSummary(r.user, r.conv) \in SUBSET Message
        /\ StoredThrough(r.user, r.conv) \in Nat
    BY OwnedNow, StoredTyped
  <2>1. CASE ReadHistory(r)
    <3>1. OwnAsk([r EXCEPT !.hist = Page(r.conv), !.pc = "summary"])
      BY <2>0, OwnedReads DEF OwnAsk, Ask
    <3> QED
      BY <2>1, <3>1, OwnedByBecome DEF ReadHistory
  <2>2. CASE ReadSummary(r)
    <3>1. \A pc : OwnAsk([r EXCEPT !.summary = StoredSummary(r.user, r.conv),
                                   !.through = StoredThrough(r.user, r.conv), !.pc = pc])
      BY <2>0, OwnedReads DEF OwnAsk, Ask
    <3> QED
      BY <2>2, <3>1, OwnedByBecome DEF ReadSummary
  <2>3. CASE Fold(r)
    <3>1. TurnsToFold(r) \subseteq r.hist
      BY <2>0, FoldedTurns
    <3>2. OwnAsk([r EXCEPT !.summary = @ \cup TurnsToFold(r),
                           !.through = Boundary(r.hist), !.pc = "save"])
      BY <2>0, <3>1 DEF OwnAsk, Ask
    <3>3. OwnAsk([r EXCEPT !.through = Boundary(r.hist), !.pc = "save"])
      BY <2>0 DEF OwnAsk, Ask
    <3> QED
      BY <2>3, <3>2, <3>3, OwnedByBecome DEF Fold
  <2>4. CASE SaveSummary(r)
    <3>1. OwnAsk([r EXCEPT !.pc = "answer"]) /\ \A m \in r.summary : m.by = r.user
      BY <2>0 DEF OwnAsk, Ask
    <3>2. \A s \in asks' : OwnAsk(s)
      BY <2>4, <3>1 DEF SaveSummary, Become, Owned, OnlyTheOwner, OwnAsk
    <3>3. Upsert(r.user, r.conv, r.summary, r.through) /\ UNCHANGED <<messages, owner, deleted>>
      BY <2>4 DEF SaveSummary
    <3> QED
      BY <2>0, <3>1, <3>2, <3>3, OwnedByUpsert
  <2>5. CASE Answer(r)
    <3>1. OwnAsk([r EXCEPT !.hist = {}, !.summary = {}, !.through = 0, !.pc = "user"])
      BY <2>0 DEF OwnAsk, Ask
    <3> QED
      BY <2>5, <3>1, OwnedByBecome DEF Answer
  <2>6. CASE SortKey(r)
    <3>1. OwnAsk([r EXCEPT !.key = clock + 1])
      BY <2>0 DEF OwnAsk, Ask
    <3> QED
      BY <2>6, <3>1, OwnedByBecome DEF SortKey
  <2>7. CASE PutItem(r)
    BY <2>7, OwnedByPut
  <2>8. CASE Touch(r)
    <3>1. \A s \in asks' : OwnAsk(s)
      BY <2>8 DEF Touch, Finish, Owned, OnlyTheOwner, OwnAsk
    <3>2. \A m \in StoredSummary(r.user, r.conv) : m.by = r.user
      BY OwnedReads
    <3>3. Upsert(r.user, r.conv, StoredSummary(r.user, r.conv), StoredThrough(r.user, r.conv))
          /\ UNCHANGED <<messages, owner, deleted>>
      BY <2>8 DEF Touch
    <3> QED
      BY <2>0, <3>1, <3>2, <3>3, OwnedByUpsert
  <2>9. CASE Drop(r)
    BY <2>9 DEF Drop, Finish, Owned, OnlyTheOwner, RowsAreOwned, DeletedForGood
  <2> QED
    BY <1>3, <2>1, <2>2, <2>3, <2>4, <2>5, <2>6, <2>7, <2>8, <2>9 DEF AskStep
<1>4. ASSUME NEW u \in Users, NEW c \in Convs, DeleteConversation(u, c) PROVE Owned'
  <2>1. \A d \in Convs : messages'[d] \subseteq messages[d]
    BY <1>4 DEF DeleteConversation, TypeInv
  <2>2. OnlyTheOwner'
    BY <1>4, <2>1 DEF DeleteConversation, Owned, OnlyTheOwner
  <2>3. \A v \in Users, d \in Convs : items'[v][d] # None => items'[v][d] = items[v][d]
    BY <1>4 DEF DeleteConversation, TypeInv
  <2>4. RowsAreOwned'
    BY <1>4, <2>3 DEF DeleteConversation, Owned, RowsAreOwned
  <2>5. owner[c] # None /\ \A v \in Users : items'[v][c] = None
    <3>1. owner[c] = u /\ \A v \in Users : items[v][c] # None => v = u
      BY <1>4 DEF DeleteConversation, Owned, RowsAreOwned
    <3> QED
      BY <1>4, <3>1 DEF DeleteConversation, TypeInv
  <2>6. DeletedForGood'
    <3> SUFFICES ASSUME NEW d \in deleted'
                 PROVE  owner'[d] # None /\ \A v \in Users : items'[v][d] # None => ~items'[v][d].titled
      BY DEF DeletedForGood
    <3>1. CASE d = c
      BY <1>4, <2>5, <3>1 DEF DeleteConversation
    <3>2. CASE d # c
      <4>1. d \in deleted /\ d \in Convs
        BY <1>4, <3>2 DEF DeleteConversation, TypeInv
      <4> QED
        BY <1>4, <2>3, <4>1 DEF DeleteConversation, Owned, DeletedForGood
    <3> QED
      BY <3>1, <3>2
  <2> QED
    BY <2>2, <2>4, <2>6 DEF Owned
<1>5. ASSUME NEW u \in Users, NEW c \in Convs, DeleteFails(u, c) PROVE Owned'
  <2>1. \A d \in Convs : messages'[d] \subseteq messages[d]
    BY <1>5 DEF DeleteFails, TypeInv
  <2> QED
    BY <1>5, <2>1 DEF DeleteFails, Owned, OnlyTheOwner, RowsAreOwned, DeletedForGood
<1>6. CASE UNCHANGED vars
  BY <1>6 DEF vars, Owned, OnlyTheOwner, RowsAreOwned, DeletedForGood
<1> QED
  BY <1>1, <1>2, <1>3, <1>4, <1>5, <1>6 DEF Next

-----------------------------------------------------------------------------
(***************************************************************************)
(* What is counted is folded.                                              *)
(***************************************************************************)

\* T is what is stored of a conversation, L the late, H the histories read.
Histories(T, L, H) ==
    /\ IsFiniteSet(T) /\ T \subseteq Message /\ \A m, k \in T : m.key = k.key => m = k
    /\ HistsAreOrdered(T, L, H)

LEMMA Parts ==
    ASSUME NEW T, NEW L, NEW H, Histories(T, L, H), NEW G, G \subseteq T
    PROVE  /\ IsFiniteSet(G) /\ Cardinality(G) \in Nat /\ Cardinality(G) <= Cardinality(T)
           /\ Cardinality(T) \in Nat /\ Boundary(G) \in Nat /\ Boundary(G) <= Cardinality(G)
           /\ Precedes(G, T)
<1>1. /\ IsFiniteSet(G) /\ Cardinality(G) \in Nat /\ Cardinality(G) <= Cardinality(T)
      /\ Cardinality(T) \in Nat
  BY Counts DEF Histories
<1>2. Boundary(G) \in Nat /\ Boundary(G) <= Cardinality(G)
  BY <1>1, Windows
<1> QED
  BY <1>1, <1>2 DEF Precedes

\* A history read now stands in order to all that were read before.
LEMMA ReadInOrder ==
    ASSUME NEW T, NEW L, NEW H, Histories(T, L, H)
    PROVE  /\ HistsAreOrdered(T, L, H \cup {{}, Oldest(T, PageSize)})
           /\ \A G \in SUBSET T : Ordered(T, G, {}) /\ Ordered(T, G, Oldest(T, PageSize))
<1> DEFINE p == Oldest(T, PageSize)
<1>1. /\ p \subseteq T
      /\ \A x \in T, y \in p : x.key < y.key => x \in p
      /\ Cardinality(p) <= PageSize
      /\ PageSize <= Cardinality(p) \/ p = T
  BY Pages DEF Histories
<1>2. /\ Cardinality(p) \in Nat /\ Cardinality(p) <= Cardinality(T) /\ Cardinality(T) \in Nat
      /\ Cardinality(p) = Cardinality(T) => p = T
  BY <1>1, Counts DEF Histories
<1>3. Segment(T, L, {}) /\ Segment(T, L, p)
  <2>1. \A x \in T \ p, y \in p : y.key < x.key
    <3>1. \A x \in T : x.key \in Nat
      BY DEF Histories, Message
    <3> QED
      BY <1>1, <3>1 DEF Histories
  <2> QED
    BY <1>1, <2>1 DEF Segment
<1> HIDE DEF p
<1>4. \A G \in SUBSET T : Ordered(T, G, {}) /\ Ordered(T, G, p)
  BY <1>1 DEF Ordered, Precedes
<1>5. ASSUME NEW h \in H PROVE Ordered(T, p, h) /\ Ordered(T, {}, h)
  <2>1. h \subseteq T /\ Cardinality(h) <= PageSize
    BY DEF Histories, HistsAreOrdered, Segment
  <2>2. Cardinality(h) \in Nat /\ Cardinality(h) <= Cardinality(T)
    BY <2>1, Parts
  <2>3. Cardinality(h) <= Cardinality(p)
    BY <1>1, <1>2, <2>1, <2>2
  <2>4. Cardinality(T) <= PageSize => p = T
    BY <1>1, <1>2
  <2> QED
    BY <2>1, <2>3, <2>4 DEF Ordered, Precedes
<1>6. Cardinality({}) <= PageSize
  BY NoHistory
<1>7. \A h \in H : h \subseteq T
  BY DEF Histories, HistsAreOrdered, Segment
<1>8. \A h \in H \cup {{}, p} : Segment(T, L, h) /\ Cardinality(h) <= PageSize
  BY <1>1, <1>3, <1>6 DEF Histories, HistsAreOrdered
<1>9. \A h \in H : \A G \in H \cup {{}, p} : Ordered(T, G, h)
  BY <1>5 DEF Histories, HistsAreOrdered
<1>10. \A h \in {{}, p} : \A G \in H \cup {{}, p} : Ordered(T, G, h)
  BY <1>1, <1>4, <1>7
<1> QED
  BY <1>4, <1>8, <1>9, <1>10 DEF p, HistsAreOrdered

\* Messages are added, in front of others only late, and histories are read
\* of what was there: order and cover stay.
LEMMA Kept ==
    ASSUME NEW T, NEW L, NEW H, Histories(T, L, H),
           NEW T2, NEW L2, NEW H2, IsFiniteSet(T2), T \subseteq T2, L \subseteq L2,
           \A x \in T2 \ T : x \in L2 \/ \A y \in T : y.key < x.key,
           H2 \subseteq H \cup {{}, Oldest(T, PageSize)}
    PROVE  /\ HistsAreOrdered(T2, L2, H2)
           /\ \A summary, through :
                  Covers(T, L, H, summary, through) => Covers(T2, L2, H2, summary, through)
<1>1. Cardinality(T) \in Nat /\ Cardinality(T2) \in Nat /\ Cardinality(T) <= Cardinality(T2)
  BY Counts
<1>2. \A G : Segment(T, L, G) => Segment(T2, L2, G)
  BY DEF Segment
<1>3. \A G, h : Ordered(T, G, h) => Ordered(T2, G, h)
  BY <1>1 DEF Ordered
<1>4. HistsAreOrdered(T, L, H \cup {{}, Oldest(T, PageSize)})
  BY ReadInOrder
<1>5. HistsAreOrdered(T2, L2, H2)
  BY <1>2, <1>3, <1>4 DEF HistsAreOrdered
<1>6. ASSUME NEW summary, NEW through, NEW G \in SUBSET T, Witness(T, L, H, G, summary, through)
      PROVE  Witness(T2, L2, H2, G, summary, through)
  <2>1. \A h \in H2 : Ordered(T, G, h)
    <3>1. Ordered(T, G, {}) /\ Ordered(T, G, Oldest(T, PageSize))
      BY ReadInOrder
    <3> QED
      BY <1>6, <3>1 DEF Witness
  <2> QED
    BY <1>2, <1>3, <1>6, <2>1 DEF Witness
<1> QED
  BY <1>5, <1>6 DEF Covers

\* Nothing folded is covered by the empty history.
LEMMA NothingFolded ==
    ASSUME NEW T, NEW L, NEW H
    PROVE  Covers(T, L, H, {}, 0)
<1>1. Witness(T, L, H, {}, {}, 0)
  BY NoHistory DEF Witness, Segment, Ordered, Precedes, Oldest
<1> QED
  BY <1>1 DEF Covers

\* Folding what aged out of a history since the summary was made covers the
\* history up to its own boundary.
LEMMA FoldCovers ==
    ASSUME NEW T, NEW L, NEW H, Histories(T, L, H), NEW h \in H,
           NEW summary, NEW through, Covers(T, L, H, summary, through),
           through < Boundary(h), NEW folded,
           Oldest(h, Boundary(h)) \subseteq Oldest(h, through) \cup folded
    PROVE  Covers(T, L, H, summary \cup folded, Boundary(h))
<1>1. PICK G \in SUBSET T : Witness(T, L, H, G, summary, through)
  BY DEF Covers
<1>2. h \subseteq T /\ Segment(T, L, h) /\ \A g \in H : Ordered(T, h, g)
  BY DEF Histories, HistsAreOrdered, Segment
<1>3. Ordered(T, G, h) /\ through = Boundary(G) /\ Segment(T, L, G)
  BY <1>1 DEF Witness
<1>4. /\ IsFiniteSet(G) /\ IsFiniteSet(h) /\ Boundary(G) \in Nat /\ Boundary(h) \in Nat
      /\ Boundary(G) <= Cardinality(G)
  BY <1>2, Parts
<1>5. Precedes(G, h)
  <2>1. Cardinality(h) <= Cardinality(G) => Boundary(h) <= Boundary(G)
    BY <1>4, Windows
  <2> QED
    BY <1>3, <1>4, <2>1 DEF Ordered
<1>6. Oldest(h, through) \subseteq L \cup Oldest(G, through)
  BY <1>2, <1>3, <1>4, <1>5, OldestLiesIn DEF Histories, Segment
<1>7. Oldest(h, Boundary(h)) \subseteq (summary \cup folded) \cup L
  BY <1>1, <1>6 DEF Witness
<1>8. Witness(T, L, H, h, summary \cup folded, Boundary(h))
  BY <1>2, <1>7 DEF Witness
<1> QED
  BY <1>2, <1>8 DEF Covers

\* A summary that counts as many covers a history, whichever was read first.
LEMMA CoversHistory ==
    ASSUME NEW T, NEW L, NEW H, Histories(T, L, H), NEW h \in H, Cardinality(T) <= PageSize,
           NEW summary, NEW through, Covers(T, L, H, summary, through), Boundary(h) <= through
    PROVE  Oldest(h, Boundary(h)) \subseteq summary \cup L
<1>1. PICK G \in SUBSET T : Witness(T, L, H, G, summary, through)
  BY DEF Covers
<1>2. h \subseteq T
  BY DEF Histories, HistsAreOrdered, Segment
<1>3. /\ Ordered(T, G, h) /\ through = Boundary(G) /\ Segment(T, L, G)
      /\ Oldest(G, through) \subseteq summary \cup L
  BY <1>1 DEF Witness
<1>4. /\ IsFiniteSet(G) /\ IsFiniteSet(h) /\ Boundary(G) \in Nat /\ Boundary(h) \in Nat
      /\ Boundary(G) <= Cardinality(G) /\ Cardinality(G) \in Nat /\ Cardinality(h) \in Nat
  BY <1>2, Parts
<1> SUFFICES ASSUME NEW y \in Oldest(h, Boundary(h)) PROVE y \in Oldest(G, through) \/ y \in L
  BY <1>3
<1>5. y \in h /\ Cardinality(Below(h, y)) < Boundary(h)
  BY IsOldest DEF Oldest
<1>6. CASE Precedes(G, h)
  <2>1. y \in L \/ y \in Oldest(G, Boundary(h))
    BY <1>2, <1>3, <1>4, <1>6, OldestLiesIn DEF Histories, Segment
  <2>2. CASE y \in Oldest(G, Boundary(h))
    <3>1. y \in G /\ IsFiniteSet(Below(G, y)) /\ Cardinality(Below(G, y)) < Boundary(h)
      <4>1. y \in G /\ Below(G, y) \subseteq G
        BY <2>2 DEF Oldest, Below
      <4> QED
        BY <1>4, <2>2, <4>1, IsOldest, Counts
    <3>2. Cardinality(Below(G, y)) \in Nat
      BY <3>1, FS_CardinalityType
    <3>3. Cardinality(Below(G, y)) < through
      BY <1>3, <1>4, <3>1, <3>2
    <3> QED
      BY <3>1, <3>3, IsOldest
  <2> QED
    BY <2>1, <2>2
<1>7. CASE ~Precedes(G, h)
  <2>1. h \subseteq G /\ Cardinality(h) <= Cardinality(G) /\ y \in G
    BY <1>3, <1>5, <1>7 DEF Ordered
  <2>2. Below(G, y) \subseteq Below(h, y) \cup (G \ h) /\ Below(h, y) \subseteq h
    BY DEF Below
  <2>3. /\ IsFiniteSet(Below(h, y)) /\ IsFiniteSet(G \ h)
        /\ Cardinality(Below(h, y)) \in Nat /\ Cardinality(G \ h) \in Nat
        /\ Cardinality(G \ h) = Cardinality(G) - Cardinality(h)
    <3>1. G \cap h = h
      BY <2>1
    <3>2. IsFiniteSet(G \ h) /\ Cardinality(G \ h) = Cardinality(G) - Cardinality(h)
      BY <1>4, <3>1, FS_Difference
    <3>3. IsFiniteSet(Below(h, y)) /\ Cardinality(Below(h, y)) \in Nat
      BY <1>4, <2>2, Counts
    <3> QED
      BY <3>2, <3>3, FS_CardinalityType
  <2>4. /\ IsFiniteSet(Below(h, y) \cup (G \ h))
        /\ Cardinality(Below(h, y) \cup (G \ h)) <= Cardinality(Below(h, y)) + Cardinality(G \ h)
    <3>1. /\ IsFiniteSet(Below(h, y) \cup (G \ h))
          /\ Cardinality(Below(h, y) \cup (G \ h)) =
                 Cardinality(Below(h, y)) + Cardinality(G \ h) - Cardinality(Below(h, y) \cap (G \ h))
      BY <2>3, FS_Union
    <3>2. Cardinality(Below(h, y) \cap (G \ h)) = 0
      <4>1. Below(h, y) \cap (G \ h) = {}
        BY <2>2
      <4> QED
        BY <4>1, NoHistory
    <3> QED
      BY <2>3, <3>1, <3>2
  <2>5. /\ Cardinality(Below(G, y)) <= Cardinality(Below(h, y) \cup (G \ h))
        /\ Cardinality(Below(G, y)) \in Nat /\ Cardinality(Below(h, y) \cup (G \ h)) \in Nat
    BY <2>2, <2>4, Counts
  <2>6. Boundary(G) - Boundary(h) = Cardinality(G) - Cardinality(h)
    <3>1. 0 < Boundary(h)
      BY <1>4, <1>5, <2>3
    <3> QED
      BY <1>4, <2>1, <3>1, Windows
  <2>7. Cardinality(Below(G, y)) < through
    BY <1>3, <1>4, <1>5, <2>3, <2>4, <2>5, <2>6
  <2> QED
    BY <2>1, <2>7, IsOldest
<1> QED
  BY <1>6, <1>7

\* A summary counts no more than is stored, and what it counts it holds.
LEMMA CoversTable ==
    ASSUME NEW T, NEW L, NEW H, Histories(T, L, H),
           NEW summary, NEW through, Covers(T, L, H, summary, through)
    PROVE  through <= Cardinality(T) /\ Oldest(T, through) \subseteq summary \cup L
<1>1. PICK G \in SUBSET T : Witness(T, L, H, G, summary, through)
  BY DEF Covers
<1>2. /\ through = Boundary(G) /\ Segment(T, L, G)
      /\ Oldest(G, through) \subseteq summary \cup L
  BY <1>1 DEF Witness
<1>3. /\ Cardinality(G) \in Nat /\ Cardinality(G) <= Cardinality(T) /\ Cardinality(T) \in Nat
      /\ Boundary(G) \in Nat /\ Boundary(G) <= Cardinality(G) /\ Precedes(G, T)
  BY Parts
<1>4. Oldest(T, through) \subseteq L \cup Oldest(G, through)
  BY <1>2, <1>3, OldestLiesIn DEF Histories, Segment
<1> QED
  BY <1>2, <1>3, <1>4

-----------------------------------------------------------------------------
(***************************************************************************)
(* Every step keeps it so.                                                 *)
(***************************************************************************)
LEMMA HistoriesNow ==
    ASSUME IInv, NEW c \in Convs, Whole(c)
    PROVE  /\ Histories(messages[c], late, Hists(c))
           /\ \A r \in asks : r.conv = c => r.hist \in Hists(c)
BY DEF IInv, Histories, TypeInv, TablesAreFinite, KeysAreUnique, Covered, Hists

\* A request of a step: its summary covers what it counts.
AskIsCovered(c, s) ==
    /\ Covers(messages[c], late, Hists(c), s.summary, s.through)
    /\ s.pc = "fold" => s.through < Boundary(s.hist)
    /\ s.pc \in {"save", "answer"} => Boundary(s.hist) <= s.through

\* Messages only added, in front of others only late; histories only read;
\* every row and request as good as one before.
LEMMA CoveredKept ==
    ASSUME IInv, NEW c \in Convs, Whole(c),
           IsFiniteSet(messages'[c]), messages[c] \subseteq messages'[c], late \subseteq late',
           \A x \in messages'[c] \ messages[c] :
               x \in late' \/ \A y \in messages[c] : y.key < x.key,
           \A u \in Users : items'[u][c] # None =>
               Covers(messages[c], late, Hists(c), items'[u][c].summary, items'[u][c].through),
           \A s \in asks' : s.conv = c =>
               AskIsCovered(c, s) /\ s.hist \in Hists(c) \cup {{}, Page(c)}
    PROVE  Covered(c)'
<1>1. Histories(messages[c], late, Hists(c))
  BY HistoriesNow
<1>2. Hists(c)' \subseteq Hists(c) \cup {{}, Oldest(messages[c], PageSize)}
  BY DEF Hists, Page
<1> DEFINE T == messages[c]  L == late  H == Hists(c)
           T2 == messages'[c]  L2 == late'  H2 == Hists(c)'
<1>3. /\ HistsAreOrdered(T2, L2, H2)
      /\ \A summary, through :
             Covers(T, L, H, summary, through) => Covers(T2, L2, H2, summary, through)
  <2>1. /\ Histories(T, L, H) /\ IsFiniteSet(T2) /\ T \subseteq T2 /\ L \subseteq L2
        /\ \A x \in T2 \ T : x \in L2 \/ \A y \in T : y.key < x.key
        /\ H2 \subseteq H \cup {{}, Oldest(T, PageSize)}
    BY <1>1, <1>2
  <2> HIDE DEF T, L, H, T2, L2, H2
  <2> QED
    BY <2>1, Kept
<1>4. RowsCover(c)'
  BY <1>3 DEF RowsCover
<1>5. AsksCover(c)'
  BY <1>3 DEF AsksCover, AskIsCovered
<1> QED
  BY <1>3, <1>4, <1>5 DEF Covered

\* What is stored of a summary covers what it counts.
LEMMA StoredCovers ==
    ASSUME IInv, NEW u \in Users, NEW c \in Convs, Whole(c)
    PROVE  Covers(messages[c], late, Hists(c), StoredSummary(u, c), StoredThrough(u, c))
<1>1. CASE items[u][c] = None
  BY <1>1, NothingFolded DEF StoredSummary, StoredThrough
<1>2. CASE items[u][c] # None
  BY <1>2 DEF IInv, Covered, RowsCover, StoredSummary, StoredThrough
<1> QED
  BY <1>1, <1>2

LEMMA NewIsCovered ==
    ASSUME NEW c, NEW s, s.hist = {}, s.summary = {}, s.through = 0, s.pc # "fold"
    PROVE  AskIsCovered(c, s)
BY NothingFolded, NoHistory DEF AskIsCovered

LEMMA CoverStep ==
    ASSUME IInv, [Next]_vars, TablesAreFinite', NEW c \in Convs, Whole(c)'
    PROVE  Covered(c)'
<1>1. Whole(c) /\ IsFiniteSet(messages'[c])
  <2>1. lossy \subseteq lossy' /\ deleted \subseteq deleted'
    <3>1. ASSUME NEW r \in asks, AskStep(r) PROVE lossy \subseteq lossy' /\ deleted \subseteq deleted'
      BY <3>1 DEF AskStep, ReadHistory, ReadSummary, Fold, SaveSummary, Answer, SortKey, PutItem,
                  Touch, Drop
    <3> QED
      BY <3>1 DEF Next, vars, StartConversation, OpenConversation, DeleteConversation, DeleteFails
  <2> QED
    BY <2>1 DEF Whole, TablesAreFinite
<1>2. /\ \A u \in Users : items[u][c] # None =>
             Covers(messages[c], late, Hists(c), items[u][c].summary, items[u][c].through)
      /\ \A s \in asks : s.conv = c => AskIsCovered(c, s) /\ s.hist \in Hists(c)
  BY <1>1, HistoriesNow DEF IInv, Covered, RowsCover, AsksCover, AskIsCovered
<1> TypeInv
  BY DEF IInv
<1>3. ASSUME NEW id \in AskIds, NEW u \in Users, NEW d \in Convs, StartConversation(id, u, d)
      PROVE  Covered(c)'
  <2>1. \A s \in asks' : s \in asks \/ (s.hist = {} /\ s.summary = {} /\ s.through = 0 /\ s.pc = "answer")
    BY <1>3 DEF StartConversation, NewAsk
  <2>2. \A v \in Users : items'[v][c] = items[v][c]
                          \/ (items'[v][c].summary = {} /\ items'[v][c].through = 0)
    BY <1>3 DEF StartConversation, TypeInv
  <2>3. messages' = messages /\ late' = late
    BY <1>3 DEF StartConversation
  <2>4. \A s \in asks' : s.conv = c => AskIsCovered(c, s) /\ s.hist \in Hists(c) \cup {{}, Page(c)}
    BY <1>2, <2>1, NewIsCovered
  <2>5. \A v \in Users : items'[v][c] # None =>
            Covers(messages[c], late, Hists(c), items'[v][c].summary, items'[v][c].through)
    BY <1>2, <2>2, NothingFolded
  <2> QED
    BY <1>1, <2>3, <2>4, <2>5, CoveredKept
<1>4. ASSUME NEW id \in AskIds, NEW u \in Users, NEW d \in Convs, OpenConversation(id, u, d)
      PROVE  Covered(c)'
  <2>1. \A s \in asks' : s \in asks \/ (s.hist = {} /\ s.summary = {} /\ s.through = 0 /\ s.pc = "history")
    BY <1>4 DEF OpenConversation, NewAsk
  <2>2. messages' = messages /\ late' = late /\ items' = items
    BY <1>4 DEF OpenConversation
  <2>3. \A s \in asks' : s.conv = c => AskIsCovered(c, s) /\ s.hist \in Hists(c) \cup {{}, Page(c)}
    BY <1>2, <2>1, NewIsCovered
  <2> QED
    BY <1>1, <1>2, <2>2, <2>3, CoveredKept
<1>5. ASSUME NEW r \in asks, AskStep(r) PROVE Covered(c)'
  <2>0. /\ r \in Ask /\ r.user \in Users /\ r.conv \in Convs /\ r.summary \in SUBSET Message
        /\ r.through \in Nat /\ IsFiniteSet(r.hist) /\ Boundary(r.hist) \in Nat
        /\ StoredSummary(r.user, r.conv) \in SUBSET Message
        /\ StoredThrough(r.user, r.conv) \in Nat
        /\ r.conv = c => AskIsCovered(c, r) /\ r.hist \in Hists(c)
    <3>1. r \in Ask /\ IsFiniteSet(r.hist)
      BY DEF IInv, TypeInv, TablesAreFinite
    <3> QED
      BY <1>2, <3>1, StoredTyped, Windows DEF Ask
  <2>1. ASSUME UNCHANGED <<messages, late, items>>, NEW n, Become(r, n),
               r.conv = c => n.conv = c /\ AskIsCovered(c, n) /\ n.hist \in Hists(c) \cup {{}, Page(c)},
               n.conv = r.conv
        PROVE  Covered(c)'
    <3>1. \A s \in asks' : s.conv = c => AskIsCovered(c, s) /\ s.hist \in Hists(c) \cup {{}, Page(c)}
      BY <1>2, <2>1 DEF Become
    <3> QED
      BY <1>1, <1>2, <2>1, <3>1, CoveredKept
  <2>2. CASE ReadHistory(r)
    <3> DEFINE n == [r EXCEPT !.hist = Page(r.conv), !.pc = "summary"]
    <3>1. n.conv = r.conv /\ n.hist = Page(r.conv) /\ n.summary = r.summary
          /\ n.through = r.through /\ n.pc = "summary"
      BY <2>0 DEF Ask
    <3>2. Become(r, n) /\ UNCHANGED <<messages, late, items>>
      BY <2>2 DEF ReadHistory
    <3> HIDE DEF n
    <3>3. r.conv = c => AskIsCovered(c, n)
      BY <2>0, <3>1 DEF AskIsCovered
    <3> QED
      BY <2>1, <3>1, <3>2, <3>3
  <2>3. CASE ReadSummary(r)
    <3> DEFINE through == StoredThrough(r.user, r.conv)
               n == [r EXCEPT !.summary = StoredSummary(r.user, r.conv), !.through = through,
                              !.pc = IF Boundary(r.hist) > through THEN "fold" ELSE "answer"]
    <3>1. n.conv = r.conv /\ n.hist = r.hist /\ n.summary = StoredSummary(r.user, r.conv)
          /\ n.through = through /\ n.pc = IF Boundary(r.hist) > through THEN "fold" ELSE "answer"
      BY <2>0 DEF Ask
    <3>2. Become(r, n) /\ UNCHANGED <<messages, late, items>>
      BY <2>3 DEF ReadSummary
    <3> HIDE DEF n
    <3>3. ASSUME r.conv = c PROVE AskIsCovered(c, n)
      <4>1. Covers(messages[c], late, Hists(c), n.summary, n.through)
        BY <1>1, <2>0, <3>1, <3>3, StoredCovers
      <4> QED
        BY <2>0, <3>1, <4>1 DEF AskIsCovered
    <3> QED
      BY <2>0, <2>1, <3>1, <3>2, <3>3
  <2>4. CASE Fold(r)
    <3>1. CASE Become(r, [r EXCEPT !.summary = @ \cup TurnsToFold(r),
                                   !.through = Boundary(r.hist), !.pc = "save"])
      <4> DEFINE n == [r EXCEPT !.summary = @ \cup TurnsToFold(r),
                                !.through = Boundary(r.hist), !.pc = "save"]
      <4>1. n.conv = r.conv /\ n.hist = r.hist /\ n.summary = r.summary \cup TurnsToFold(r)
            /\ n.through = Boundary(r.hist) /\ n.pc = "save"
        BY <2>0 DEF Ask
      <4>2. Become(r, n) /\ UNCHANGED <<messages, late, items>>
        BY <2>4, <3>1 DEF Fold
      <4> HIDE DEF n
      <4>3. ASSUME r.conv = c PROVE AskIsCovered(c, n)
        <5>1. /\ Covers(messages[c], late, Hists(c), r.summary, r.through)
              /\ r.through < Boundary(r.hist) /\ r.hist \in Hists(c)
          BY <2>0, <2>4, <4>3 DEF Fold, AskIsCovered
        <5>2. Histories(messages[c], late, Hists(c))
          BY <1>1, HistoriesNow
        <5>3. Oldest(r.hist, Boundary(r.hist)) \subseteq Oldest(r.hist, r.through) \cup TurnsToFold(r)
          BY <2>0, FoldedTurns
        <5>4. Covers(messages[c], late, Hists(c), r.summary \cup TurnsToFold(r), Boundary(r.hist))
          BY <5>1, <5>2, <5>3, FoldCovers
        <5> QED
          BY <2>0, <4>1, <5>4 DEF AskIsCovered
      <4> QED
        BY <2>0, <2>1, <4>1, <4>2, <4>3
    <3>2. CASE Become(r, [r EXCEPT !.through = Boundary(r.hist), !.pc = "save"])
               /\ lossy' = lossy \cup {r.conv}
      <4> DEFINE n == [r EXCEPT !.through = Boundary(r.hist), !.pc = "save"]
      <4>1. n.conv = r.conv
        BY <2>0 DEF Ask
      <4>2. Become(r, n) /\ UNCHANGED <<messages, late, items>>
        BY <2>4, <3>2 DEF Fold
      <4>3. r.conv # c
        BY <3>2 DEF Whole
      <4> HIDE DEF n
      <4> QED
        BY <2>1, <4>1, <4>2, <4>3
    <3> QED
      BY <2>4, <3>1, <3>2 DEF Fold
  <2>5. ASSUME NEW summary \in SUBSET Message, NEW through \in Nat,
               Upsert(r.user, r.conv, summary, through),
               r.conv = c => Covers(messages[c], late, Hists(c), summary, through)
        PROVE  \A u \in Users : items'[u][c] # None =>
                   Covers(messages[c], late, Hists(c), items'[u][c].summary, items'[u][c].through)
    <3> DEFINE v == r.user  d == r.conv
    <3>1. Upsert(v, d, summary, through) /\ v \in Users /\ d \in Convs
      BY <2>0, <2>5
    <3> HIDE DEF v, d
    <3>2. /\ items'[v][d].summary = summary /\ items'[v][d].through = through
          /\ \A u \in Users, e \in Convs : <<u, e>> # <<v, d>> => items'[u][e] = items[u][e]
      BY <2>5, <3>1, UpsertTyped
    <3> QED
      BY <1>2, <2>5, <3>2 DEF d, v
  <2>6. CASE SaveSummary(r)
    <3>1. \A u \in Users : items'[u][c] # None =>
              Covers(messages[c], late, Hists(c), items'[u][c].summary, items'[u][c].through)
      BY <2>0, <2>5, <2>6 DEF SaveSummary, AskIsCovered
    <3>2. messages' = messages /\ late' = late /\ Become(r, [r EXCEPT !.pc = "answer"]) /\ r.pc = "save"
      BY <2>6 DEF SaveSummary
    <3> DEFINE n == [r EXCEPT !.pc = "answer"]
    <3>3. n.conv = r.conv /\ n.hist = r.hist /\ n.summary = r.summary /\ n.through = r.through
          /\ n.pc = "answer"
      BY <2>0 DEF Ask
    <3>4. asks' = (asks \ {r}) \cup {n}
      BY <3>2 DEF Become
    <3> HIDE DEF n
    <3>5. n.conv = c => AskIsCovered(c, n) /\ n.hist \in Hists(c)
      BY <2>0, <3>2, <3>3 DEF AskIsCovered
    <3>6. \A s \in asks' : s.conv = c => AskIsCovered(c, s) /\ s.hist \in Hists(c) \cup {{}, Page(c)}
      BY <1>2, <3>4, <3>5
    <3> QED
      BY <1>1, <3>1, <3>2, <3>6, CoveredKept
  <2>7. CASE Answer(r)
    <3> DEFINE n == [r EXCEPT !.hist = {}, !.summary = {}, !.through = 0, !.pc = "user"]
    <3>1. n.conv = r.conv /\ n.hist = {} /\ n.summary = {} /\ n.through = 0 /\ n.pc = "user"
      BY <2>0 DEF Ask
    <3>2. Become(r, n) /\ UNCHANGED <<messages, late, items>>
      BY <2>7 DEF Answer
    <3> HIDE DEF n
    <3>3. AskIsCovered(c, n)
      BY <3>1, NewIsCovered
    <3> QED
      BY <2>1, <3>1, <3>2, <3>3
  <2>8. CASE SortKey(r)
    <3> DEFINE n == [r EXCEPT !.key = clock + 1]
    <3>1. n.conv = r.conv /\ n.hist = r.hist /\ n.summary = r.summary /\ n.through = r.through
          /\ n.pc = r.pc
      BY <2>0 DEF Ask
    <3>2. Become(r, n) /\ UNCHANGED <<messages, late, items>>
      BY <2>8 DEF SortKey
    <3> HIDE DEF n
    <3>3. r.conv = c => AskIsCovered(c, n)
      BY <2>0, <3>1 DEF AskIsCovered
    <3> QED
      BY <2>0, <2>1, <3>1, <3>2, <3>3
  <2>9. CASE PutItem(r)
    <3>0. KeysAreUnique
      BY DEF IInv
    <3> DEFINE n == [r EXCEPT !.key = 0, !.pc = IF @ = "user" THEN "assistant" ELSE "touch"]
    <3>1. n.conv = r.conv /\ n.hist = r.hist /\ n.summary = r.summary /\ n.through = r.through
          /\ n.pc \in {"assistant", "touch"}
      BY <2>0 DEF Ask
    <3>2. asks' = (asks \ {r}) \cup {n} /\ items' = items /\ r.key # 0
      BY <2>9 DEF PutItem, Become
    <3> HIDE DEF n
    <3>3. /\ messages'[r.conv] = messages[r.conv] \cup {Put(r)}
          /\ \A d \in Convs : d # r.conv => messages'[d] = messages[d]
          /\ late' = IF \E k \in messages[r.conv] : r.key < k.key THEN late \cup {Put(r)} ELSE late
      BY <2>9, <3>0, PutTyped
    <3>4. messages[c] \subseteq messages'[c] /\ late \subseteq late'
      BY <3>3
    <3>5. \A x \in messages'[c] \ messages[c] : x \in late' \/ \A y \in messages[c] : y.key < x.key
      <4> SUFFICES ASSUME NEW x \in messages'[c] \ messages[c], x \notin late', NEW y \in messages[c]
                   PROVE  y.key < x.key
        OBVIOUS
      <4>1. r.conv = c /\ x = Put(r) /\ x.key = r.key
        BY <3>3 DEF Put
      <4>2. ~(r.key < y.key) /\ y.key # r.key
        BY <3>0, <3>3, <4>1 DEF KeysAreUnique
      <4>3. r.key \in Nat /\ y.key \in Nat
        BY <2>0 DEF TypeInv, Message, Ask
      <4> QED
        BY <4>1, <4>2, <4>3
    <3>6. \A s \in asks' : s.conv = c => AskIsCovered(c, s) /\ s.hist \in Hists(c) \cup {{}, Page(c)}
      <4>1. n.conv = c => AskIsCovered(c, n) /\ n.hist \in Hists(c)
        BY <2>0, <3>1 DEF AskIsCovered
      <4> QED
        BY <1>2, <3>2, <4>1
    <3> QED
      BY <1>1, <1>2, <3>2, <3>4, <3>5, <3>6, CoveredKept
  <2>10. CASE Touch(r)
    <3>1. r.conv = c => Covers(messages[c], late, Hists(c), StoredSummary(r.user, r.conv),
                               StoredThrough(r.user, r.conv))
      BY <1>1, <2>0, StoredCovers
    <3>2. \A u \in Users : items'[u][c] # None =>
              Covers(messages[c], late, Hists(c), items'[u][c].summary, items'[u][c].through)
      BY <2>0, <2>5, <2>10, <3>1 DEF Touch
    <3>3. messages' = messages /\ late' = late /\ asks' \subseteq asks
      BY <2>10 DEF Touch, Finish
    <3> QED
      BY <1>1, <1>2, <3>2, <3>3, CoveredKept
  <2>11. CASE Drop(r)
    <3>1. messages' = messages /\ late' = late /\ items' = items /\ asks' \subseteq asks
      BY <2>11 DEF Drop, Finish
    <3> QED
      BY <1>1, <1>2, <3>1, CoveredKept
  <2> QED
    BY <1>5, <2>2, <2>3, <2>4, <2>6, <2>7, <2>8, <2>9, <2>10, <2>11 DEF AskStep
<1>6. ASSUME NEW u \in Users, NEW d \in Convs, DeleteConversation(u, d) \/ DeleteFails(u, d)
      PROVE  Covered(c)'
  <2>1. d # c
    BY <1>6 DEF DeleteConversation, DeleteFails, Whole
  <2>2. messages'[c] = messages[c] /\ late' = late /\ asks' = asks
    BY <1>6, <2>1 DEF DeleteConversation, DeleteFails, TypeInv
  <2>3. \A v \in Users : items'[v][c] = items[v][c]
    BY <1>6, <2>1 DEF DeleteConversation, DeleteFails, TypeInv
  <2> QED
    BY <1>1, <1>2, <2>2, <2>3, CoveredKept
<1>7. CASE UNCHANGED vars
  BY <1>1, <1>2, <1>7, CoveredKept DEF vars
<1> QED
  BY <1>3, <1>4, <1>5, <1>6, <1>7 DEF Next

-----------------------------------------------------------------------------
LEMMA Inductive == Spec => []IInv
<1>1. Init => IInv
  BY InitIInv
<1>2. IInv /\ [Next]_vars => IInv'
  <2> SUFFICES ASSUME IInv, [Next]_vars PROVE IInv'
    OBVIOUS
  <2>1. TypeInv' /\ KeysAreUnique' /\ TablesAreFinite' /\ Owned'
    BY TypeStep, KeysStep, FiniteStep, OwnedStep DEF IInv, Owned
  <2>2. \A c \in Convs : Whole(c)' => Covered(c)'
    BY <2>1, CoverStep
  <2> QED
    BY <2>1, <2>2 DEF IInv, Owned
<1> QED
  BY <1>1, <1>2, PTL DEF Spec

LEMMA IInvFolded == IInv => FoldedUnlessLossy
<1> SUFFICES ASSUME IInv, NEW u \in Users, NEW c \in Convs \ lossy,
                    items[u][c] # None, items[u][c].titled
             PROVE  /\ items[u][c].through <= Cardinality(messages[c])
                    /\ Oldest(messages[c], items[u][c].through) \subseteq items[u][c].summary \cup late
  BY DEF FoldedUnlessLossy, ThroughIsFolded
<1>1. Whole(c)
  BY DEF IInv, DeletedForGood, Whole
<1>2. Histories(messages[c], late, Hists(c))
  BY <1>1, HistoriesNow
<1>3. Covers(messages[c], late, Hists(c), items[u][c].summary, items[u][c].through)
  BY <1>1 DEF IInv, Covered, RowsCover
<1> QED
  BY <1>2, <1>3, CoversTable

LEMMA IInvNothingDropped == IInv => NothingDropped
<1> SUFFICES ASSUME IInv, NEW r \in asks, r.pc = "answer", r.conv \notin lossy \cup deleted,
                    Cardinality(messages[r.conv]) <= PageSize
             PROVE  r.hist \subseteq Recent(r.hist) \cup r.summary \cup late
  BY DEF NothingDropped
<1> DEFINE c == r.conv
<1>1. c \in Convs /\ Whole(c)
  BY DEF IInv, TypeInv, Ask, Whole
<1>2. Histories(messages[c], late, Hists(c)) /\ r.hist \in Hists(c)
  BY <1>1, HistoriesNow
<1>3. Covers(messages[c], late, Hists(c), r.summary, r.through) /\ Boundary(r.hist) <= r.through
  BY <1>1 DEF IInv, Covered, AsksCover
<1>4. Oldest(r.hist, Boundary(r.hist)) \subseteq r.summary \cup late
  BY <1>2, <1>3, CoversHistory
<1> QED
  BY <1>4 DEF Recent


(***************************************************************************)
(* The types of both tables and of every request in flight.                *)
(***************************************************************************)
THEOREM ConversationsTyped == Spec => []TypeInv
<1>1. IInv => TypeInv
  BY DEF IInv
<1> QED
  BY Inductive, <1>1, PTL

(***************************************************************************)
(* Only the creator of a conversation ever reads or writes its messages    *)
(* (conversation_store.py:13-17), for any number of users, conversations   *)
(* and overlapping requests, also after a delete and the row an upsert     *)
(* makes in its wake.                                                      *)
(***************************************************************************)
THEOREM MessagesStayWithTheOwner == Spec => []OnlyTheOwner
<1>1. IInv => OnlyTheOwner
  BY DEF IInv
<1> QED
  BY Inductive, <1>1, PTL

(***************************************************************************)
(* summarized_through counts messages folded into the summary              *)
(* (conversation_store.py:147-150), all but those that landed after one    *)
(* with a younger sort key, while no summarization and no delete of the    *)
(* conversation failed; for any number of pages.                           *)
(***************************************************************************)
THEOREM ThroughCountsTheFolded == Spec => []FoldedUnlessLossy
BY Inductive, IInvFolded, PTL

(***************************************************************************)
(* The summary and the recent turns cover the history a request read       *)
(* (chat.py:406-410), but for messages that landed late, unless a          *)
(* summarization or a delete failed, the conversation was deleted while    *)
(* the request was in flight, or it outgrew the page.                      *)
(***************************************************************************)
THEOREM HistoryIsPreserved == Spec => []NothingDropped
BY Inductive, IInvNothingDropped, PTL
=============================================================================
