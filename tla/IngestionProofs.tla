-------------------------- MODULE IngestionProofs --------------------------
(***************************************************************************)
(* Proofs about Ingestion, for every text, target and overlap ratio: how   *)
(* the chunking cuts, and what the record of a document says while it is   *)
(* ingested, deleted or lost with the process.  The inductive invariant of *)
(* the chunking says, for each of its two inner loops, what holds of the   *)
(* chunk under way and of the one before.                                  *)
(***************************************************************************)
EXTENDS Ingestion, SequenceTheorems, TLAPS

\* Sentences i..j of the text.
Part(i, j) == i \in 1..Len(text) /\ j \in 1..Len(text) /\ i <= j

LastChunk == chunks[Len(chunks)]

Inside == \A k \in 1..Len(chunks) : Part(chunks[k].first, chunks[k].last)

\* The chunks so far, whether or not they reach the end.
Chained ==
    /\ chunks # <<>> => chunks[1].first = 1
    /\ \A k \in 1..(Len(chunks) - 1) :
           /\ chunks[k].first < chunks[k + 1].first
           /\ chunks[k + 1].first <= chunks[k].last + 1
           /\ chunks[k].last <= chunks[k + 1].last

\* A chunk of the sentences i..j would be neither too heavy nor have run on
\* into a section too late.
FitsSoFar(i, j) ==
    /\ i < j => Tokens(text, i, j) <= Target
    /\ \A m \in (i + 1)..j :
           text[m].section # text[m - 1].section => Tokens(text, i, m - 1) < MinTokens

\* What a chunk that starts at i shares with chunk c.
SharesLittle(c, i) ==
    i < c.last => Tokens(text, i + 1, c.last) < OverlapTarget(Tokens(text, c.first, c.last))

Taking ==
    step = "take" =>
        /\ start \in 1..Len(text) /\ pos \in start..(Len(text) + 1)
        /\ FitsSoFar(start, pos - 1)
        /\ chunks = <<>> => start = 1
        /\ chunks # <<>> => /\ LastChunk.first < start /\ start <= LastChunk.last + 1
                            /\ SharesLittle(LastChunk, start)

Overlapping ==
    step = "overlap" =>
        /\ start \in 1..Len(text) /\ pos \in (start + 1)..Len(text)
        /\ chunks # <<>> /\ LastChunk.first = start /\ LastChunk.last = pos - 1
        /\ back <= pos - start
        /\ back >= 2 => Tokens(text, pos - back + 1, pos - 1) < OverlapTarget(Tokens(text, start, pos - 1))

Finished ==
    step = "done" /\ text # <<>> => chunks # <<>> /\ LastChunk.last = Len(text)

CutInv == ChunkingTypeOK /\ Inside /\ Chained /\ ChunksFit /\ OverlapIsBounded /\ Taking /\ Overlapping /\ Finished

-----------------------------------------------------------------------------
LEMMA TextIsTyped ==
    ASSUME text \in Texts
    PROVE  /\ Len(text) \in Nat
           /\ \A i \in 1..Len(text) : text[i].upto \in Nat
           /\ \A i, j \in 1..Len(text) : i <= j => text[i].upto <= text[j].upto
<1>1. text \in Seq([upto : Nat, section : Nat])
  BY ChunkingAssumption DEF ChunkingAssumption
<1>2. Len(text) \in Nat /\ \A i \in 1..Len(text) : text[i].upto \in Nat
  <2>1. Len(text) \in Nat
    BY <1>1
  <2>2. \A i \in 1..Len(text) : text[i] \in [upto : Nat, section : Nat]
    BY <1>1, ElementOfSeq
  <2> QED
    BY <2>1, <2>2
<1>3. \A i, j \in 1..Len(text) : i < j => text[i].upto < text[j].upto
  BY ChunkingAssumption DEF ChunkingAssumption
<1> QED
  BY <1>2, <1>3

\* A part of a part is no heavier.
LEMMA TokensShrink ==
    ASSUME text \in Texts, NEW i, NEW j, NEW k, NEW m,
           Part(i, j), Part(k, m), i <= k, m <= j
    PROVE  /\ Tokens(text, i, j) \in Int /\ Tokens(text, k, m) \in Int
           /\ Tokens(text, k, m) <= Tokens(text, i, j)
<1>1. text[m].upto <= text[j].upto /\ text[m].upto \in Nat /\ text[j].upto \in Nat
  BY TextIsTyped DEF Part
<1>2. CASE k = 1
  BY <1>1, <1>2, TextIsTyped DEF Part, Tokens
<1>3. CASE k # 1 /\ i = 1
  <2>1. text[k - 1].upto \in Nat
    BY <1>3, TextIsTyped DEF Part
  <2> QED
    BY <1>1, <1>3, <2>1 DEF Part, Tokens
<1>4. CASE k # 1 /\ i # 1
  <2>1. text[k - 1].upto \in Nat /\ text[i - 1].upto \in Nat /\ text[i - 1].upto <= text[k - 1].upto
    BY <1>4, TextIsTyped DEF Part
  <2>2. Tokens(text, i, j) = text[j].upto - text[i - 1].upto
    BY <1>4 DEF Tokens
  <2>3. Tokens(text, k, m) = text[m].upto - text[k - 1].upto
    BY <1>4 DEF Tokens
  <2> QED
    BY <1>1, <2>1, <2>2, <2>3
<1> QED
  BY <1>2, <1>3, <1>4

LEMMA NumbersAreTyped ==
    /\ MinTokens \in Int /\ Target \in Int
    /\ \A n \in Int : OverlapTarget(n) \in Int
<1> USE ChunkingAssumption DEF ChunkingAssumption
<1>1. MinTokens \in Int /\ Target \in Int
  BY DEF MinTokens
<1>2. ASSUME NEW n \in Int PROVE OverlapTarget(n) \in Int
  <2>1. n * OverlapNum \in Int
    OBVIOUS
  <2>2. ASSUME NEW a \in Int PROVE a \div OverlapDen \in Int
    BY <2>2
  <2> QED
    BY <2>1, <2>2 DEF OverlapTarget, RoundHalfEven
<1> QED
  BY <1>1, <1>2

-----------------------------------------------------------------------------
\* What CutInv says of the chunks alone survives when they stay.
LEMMA ChunksStay ==
    ASSUME CutInv, UNCHANGED <<text, chunks>>
    PROVE  Inside' /\ Chained' /\ ChunksFit' /\ OverlapIsBounded'
BY DEF CutInv, Inside, Part, Chained, ChunksFit, OverlapIsBounded, Tokens

LEMMA ChunkTyped ==
    ASSUME ChunkingTypeOK
    PROVE  /\ Len(chunks) \in Nat
           /\ \A k \in 1..Len(chunks) : chunks[k].first \in Nat \ {0} /\ chunks[k].last \in Nat \ {0}
           /\ chunks # <<>> => Len(chunks) \in 1..Len(chunks)
<1>1. \A k \in 1..Len(chunks) : chunks[k] \in Chunk
  BY ElementOfSeq DEF ChunkingTypeOK
<1>2. Len(chunks) \in Nat /\ (chunks # <<>> => Len(chunks) # 0)
  BY LenProperties, EmptySeq DEF ChunkingTypeOK
<1> QED
  BY <1>1, <1>2 DEF Chunk

LEMMA StartStep == ASSUME CutInv, StartChunking PROVE CutInv'
<1>1. ChunkingTypeOK'
  BY EmptySeq DEF CutInv, ChunkingTypeOK, StartChunking
<1>2. chunks' = <<>> /\ Len(chunks') = 0 /\ text' = text
  BY DEF StartChunking
<1>3. Inside' /\ Chained' /\ ChunksFit' /\ OverlapIsBounded'
  BY <1>2 DEF Inside, Chained, ChunksFit, OverlapIsBounded
<1>4. text # <<>> => Len(text) \in Nat /\ 1 <= Len(text)
  BY ChunkingAssumption, EmptySeq, LenProperties DEF ChunkingAssumption, CutInv, ChunkingTypeOK
<1>5. Taking' /\ Overlapping' /\ Finished'
  BY <1>2, <1>4 DEF StartChunking, Taking, Overlapping, Finished, FitsSoFar
<1> QED
  BY <1>1, <1>3, <1>5 DEF CutInv

LEMMA TakeStep == ASSUME CutInv, TakeSentence PROVE CutInv'
<1>1. ChunkingTypeOK'
  BY DEF CutInv, ChunkingTypeOK, TakeSentence
<1>2. Inside' /\ Chained' /\ ChunksFit' /\ OverlapIsBounded'
  BY ChunksStay DEF TakeSentence
<1>3. start \in 1..Len(text) /\ pos \in start..Len(text) /\ Len(text) \in Nat /\ pos' = pos + 1
  BY TextIsTyped DEF CutInv, ChunkingTypeOK, Taking, TakeSentence
<1>4. FitsSoFar(start, pos)
  <2>1. start < pos => Tokens(text, start, pos) <= Target
    <3>1. Tokens(text, start, pos) \in Int
      BY <1>3, TokensShrink DEF CutInv, ChunkingTypeOK, Part
    <3> QED
      BY <1>3, <3>1, NumbersAreTyped DEF TakeSentence, Break
  <2>2. ASSUME NEW m \in (start + 1)..pos, text[m].section # text[m - 1].section
        PROVE  Tokens(text, start, m - 1) < MinTokens
    <3>1. CASE m = pos
      <4>1. Tokens(text, start, pos - 1) \in Int
        BY <1>3, <2>2, <3>1, TokensShrink DEF CutInv, ChunkingTypeOK, Part
      <4> QED
        BY <1>3, <2>2, <3>1, <4>1, NumbersAreTyped DEF TakeSentence, Break
    <3>2. CASE m # pos
      BY <1>3, <2>2, <3>2 DEF CutInv, Taking, TakeSentence, FitsSoFar
    <3> QED
      BY <3>1, <3>2
  <2> QED
    BY <2>1, <2>2 DEF FitsSoFar
<1>5. Taking'
  <2>1. pos' - 1 = pos
    BY <1>3
  <2> QED
    BY <1>3, <1>4, <2>1
      DEF CutInv, Taking, TakeSentence, FitsSoFar, SharesLittle, LastChunk, Tokens
<1>6. Overlapping' /\ Finished'
  BY DEF TakeSentence, Overlapping, Finished
<1> QED
  BY <1>1, <1>2, <1>5, <1>6 DEF CutInv

LEMMA BackStep == ASSUME CutInv, StepBack PROVE CutInv'
<1>1. ChunkingTypeOK'
  BY DEF CutInv, ChunkingTypeOK, StepBack
<1>2. Inside' /\ Chained' /\ ChunksFit' /\ OverlapIsBounded'
  BY ChunksStay DEF StepBack
<1>3. Taking' /\ Finished'
  BY DEF StepBack, Taking, Finished
<1>4. Overlapping'
  <2>1. back' = back + 1 /\ UNCHANGED <<text, step, start, pos, chunks>> /\ back \in Nat /\ back < pos - start
    BY DEF CutInv, ChunkingTypeOK, StepBack, OverlapShort
  <2>2. start \in Nat /\ pos \in Nat
    BY DEF CutInv, ChunkingTypeOK
  <2>3. back' >= 2 => Tokens(text, pos - back' + 1, pos - 1) < OverlapTarget(Tokens(text, start, pos - 1))
    <3>1. pos - back' + 1 = pos - back /\ (back' >= 2 => back # 0)
      BY <2>1, <2>2
    <3> QED
      BY <3>1 DEF StepBack, OverlapShort
  <2> QED
    BY <2>1, <2>2, <2>3 DEF CutInv, Overlapping, LastChunk, StepBack
<1> QED
  BY <1>1, <1>2, <1>3, <1>4 DEF CutInv

LEMMA NextChunkStep == ASSUME CutInv, NextChunk PROVE CutInv'
<1>1. /\ start \in 1..Len(text) /\ pos \in (start + 1)..Len(text) /\ Len(text) \in Nat
      /\ chunks # <<>> /\ LastChunk.first = start /\ LastChunk.last = pos - 1
      /\ back \in Nat /\ back <= pos - start
      /\ back >= 2 => Tokens(text, pos - back + 1, pos - 1) < OverlapTarget(Tokens(text, start, pos - 1))
  BY TextIsTyped DEF CutInv, ChunkingTypeOK, Overlapping, NextChunk
<1>2. NextStart \in (start + 1)..pos /\ NextStart \in Nat
  BY <1>1 DEF NextStart
<1>3. start' = NextStart /\ pos' = NextStart /\ step' = "take" /\ UNCHANGED <<text, back, chunks>>
  BY DEF NextChunk
<1>4. ChunkingTypeOK'
  BY <1>2, <1>3 DEF CutInv, ChunkingTypeOK
<1>5. Inside' /\ Chained' /\ ChunksFit' /\ OverlapIsBounded'
  BY <1>3, ChunksStay
<1>6. SharesLittle(LastChunk, NextStart)
  <2> SUFFICES ASSUME NextStart < pos - 1
               PROVE  Tokens(text, NextStart + 1, pos - 1) < OverlapTarget(Tokens(text, start, pos - 1))
    BY <1>1 DEF SharesLittle
  <2>1. back >= 2 /\ pos - back + 1 <= NextStart + 1 /\ pos - back + 1 > start
    BY <1>1, <1>2 DEF NextStart
  <2>2. /\ Tokens(text, NextStart + 1, pos - 1) \in Int /\ Tokens(text, pos - back + 1, pos - 1) \in Int
        /\ Tokens(text, NextStart + 1, pos - 1) <= Tokens(text, pos - back + 1, pos - 1)
    BY <1>1, <1>2, <2>1, TokensShrink DEF CutInv, ChunkingTypeOK, Part
  <2>3. OverlapTarget(Tokens(text, start, pos - 1)) \in Int
    <3>1. Tokens(text, start, pos - 1) \in Int
      BY <1>1, TokensShrink DEF CutInv, ChunkingTypeOK, Part
    <3> QED
      BY <3>1, NumbersAreTyped
  <2> QED
    BY <1>1, <2>1, <2>2, <2>3
<1>7. Taking'
  <2>1. FitsSoFar(NextStart, NextStart - 1)
    BY <1>2 DEF FitsSoFar
  <2> QED
    BY <1>1, <1>2, <1>3, <1>6, <2>1 DEF Taking, FitsSoFar, SharesLittle, LastChunk, Tokens
<1>8. Overlapping' /\ Finished'
  BY <1>3 DEF Overlapping, Finished
<1> QED
  BY <1>4, <1>5, <1>7, <1>8 DEF CutInv

\* The chunk that ends at pos - 1 ends no earlier than the one before: up to the
\* end of that one, nothing breaks a chunk that starts later.
LEMMA EndsNoEarlier ==
    ASSUME CutInv, EmitChunk, chunks # <<>>
    PROVE  LastChunk.last <= pos - 1
<1> DEFINE c == LastChunk
<1>1. /\ start \in 1..Len(text) /\ pos \in start..(Len(text) + 1) /\ Len(text) \in Nat
      /\ c.first < start /\ Part(c.first, c.last) /\ c.first \in Nat /\ c.last \in Nat
  BY TextIsTyped, ChunkTyped DEF CutInv, ChunkingTypeOK, Taking, EmitChunk, Inside, LastChunk
<1>2. /\ c.first < c.last => Tokens(text, c.first, c.last) <= Target
      /\ \A j \in (c.first + 1)..c.last :
             text[j].section # text[j - 1].section => Tokens(text, c.first, j - 1) < MinTokens
  BY ChunkTyped DEF CutInv, ChunksFit, LastChunk
<1> HIDE DEF c
<1>3. ASSUME pos <= c.last PROVE FALSE
  <2>1. pos <= Len(text) /\ pos > start
    BY <1>1, <1>3 DEF Part, EmitChunk, Break
  <2>2. CASE text[pos].section # text[pos - 1].section /\ Tokens(text, start, pos - 1) >= MinTokens
    <3>1. Tokens(text, c.first, pos - 1) < MinTokens
      BY <1>1, <1>2, <1>3, <2>1, <2>2
    <3>2. /\ Tokens(text, c.first, pos - 1) \in Int /\ Tokens(text, start, pos - 1) \in Int
          /\ Tokens(text, start, pos - 1) <= Tokens(text, c.first, pos - 1)
      BY <1>1, <2>1, TokensShrink DEF CutInv, ChunkingTypeOK, Part
    <3> QED
      BY <2>2, <3>1, <3>2, NumbersAreTyped
  <2>3. CASE Tokens(text, start, pos) > Target
    <3>1. /\ Tokens(text, c.first, c.last) \in Int /\ Tokens(text, start, pos) \in Int
          /\ Tokens(text, start, pos) <= Tokens(text, c.first, c.last)
      BY <1>1, <1>3, <2>1, TokensShrink DEF CutInv, ChunkingTypeOK, Part
    <3>2. Tokens(text, c.first, c.last) <= Target
      BY <1>1, <1>2, <1>3, <2>1
    <3> QED
      BY <2>3, <3>1, <3>2, NumbersAreTyped
  <2> QED
    BY <2>1, <2>2, <2>3 DEF EmitChunk, Break
<1> QED
  BY <1>1, <1>3 DEF c

LEMMA EmitStep == ASSUME CutInv, EmitChunk PROVE CutInv'
<1> DEFINE n == Len(chunks)
           new == [first |-> start, last |-> pos - 1]
<1>1. /\ start \in 1..Len(text) /\ pos \in start..(Len(text) + 1) /\ Len(text) \in Nat
      /\ FitsSoFar(start, pos - 1)
      /\ chunks = <<>> => start = 1
      /\ chunks # <<>> => /\ LastChunk.first < start /\ start <= LastChunk.last + 1
                          /\ SharesLittle(LastChunk, start)
  BY TextIsTyped DEF CutInv, ChunkingTypeOK, Taking, EmitChunk
<1>2. pos > start /\ pos - 1 \in Nat \ {0}
  BY <1>1 DEF EmitChunk, Break
<1>3. new \in Chunk
  BY <1>1, <1>2 DEF Chunk
<1>4. /\ n \in Nat /\ Len(chunks') = n + 1 /\ chunks' \in Seq(Chunk)
      /\ \A k \in 1..n : chunks'[k] = chunks[k]
      /\ chunks'[n + 1] = new /\ chunks' # <<>>
  BY <1>3, AppendProperties, LenProperties DEF CutInv, ChunkingTypeOK, EmitChunk
<1>5. /\ chunks # <<>> <=> n >= 1
      /\ n >= 1 => chunks[n] = LastChunk
  BY <1>4, EmptySeq, LenProperties, ChunkTyped DEF LastChunk, CutInv, ChunkingTypeOK
<1>6. n >= 1 => /\ chunks[n].first < start /\ start <= chunks[n].last + 1
                /\ chunks[n].last <= pos - 1 /\ SharesLittle(chunks[n], start)
  BY <1>1, <1>5, EndsNoEarlier
<1>7. UNCHANGED <<text, start, pos>>
  BY DEF EmitChunk
<1>8. new.first = start /\ new.last = pos - 1
  OBVIOUS
<1> HIDE DEF n, new
<1>9. ChunkingTypeOK'
  BY <1>4, <1>7 DEF CutInv, ChunkingTypeOK, EmitChunk
<1>10. Inside'
  <2> SUFFICES ASSUME NEW k \in 1..Len(chunks')
               PROVE  Part(chunks'[k].first, chunks'[k].last)
    BY <1>7 DEF Inside, Part
  <2>1. CASE k = n + 1
    BY <1>1, <1>2, <1>4, <1>7, <1>8, <2>1 DEF Part
  <2>2. CASE k \in 1..n
    BY <1>4, <1>7, <2>2 DEF CutInv, Inside, Part, n
  <2> QED
    BY <1>4, <2>1, <2>2
<1>11. Chained'
  <2>1. chunks'[1].first = 1
    BY <1>1, <1>4, <1>5, <1>8 DEF CutInv, Chained
  <2>2. ASSUME NEW k \in 1..(Len(chunks') - 1)
        PROVE  /\ chunks'[k].first < chunks'[k + 1].first
               /\ chunks'[k + 1].first <= chunks'[k].last + 1
               /\ chunks'[k].last <= chunks'[k + 1].last
    <3>1. CASE k = n
      BY <1>4, <1>6, <1>8, <2>2, <3>1
    <3>2. CASE k \in 1..(n - 1)
      BY <1>4, <3>2 DEF CutInv, Chained, n
    <3> QED
      BY <1>4, <2>2, <3>1, <3>2
  <2> QED
    BY <2>1, <2>2 DEF Chained
<1>12. ChunksFit'
  <2> SUFFICES ASSUME NEW k \in 1..Len(chunks')
               PROVE  /\ chunks'[k].first < chunks'[k].last =>
                             Tokens(text, chunks'[k].first, chunks'[k].last) <= Target
                      /\ \A j \in (chunks'[k].first + 1)..chunks'[k].last :
                             text[j].section # text[j - 1].section =>
                                 Tokens(text, chunks'[k].first, j - 1) < MinTokens
    BY <1>7 DEF ChunksFit, Tokens
  <2>1. CASE k = n + 1
    BY <1>1, <1>4, <1>8, <2>1 DEF FitsSoFar
  <2>2. CASE k \in 1..n
    BY <1>4, <2>2 DEF CutInv, ChunksFit, n
  <2> QED
    BY <1>4, <2>1, <2>2
<1>13. OverlapIsBounded'
  <2> SUFFICES ASSUME NEW k \in 1..(Len(chunks') - 1), chunks'[k + 1].first < chunks'[k].last
               PROVE  Tokens(text, chunks'[k + 1].first + 1, chunks'[k].last)
                          < OverlapTarget(Tokens(text, chunks'[k].first, chunks'[k].last))
    BY <1>7 DEF OverlapIsBounded, Tokens
  <2>1. CASE k = n
    BY <1>4, <1>6, <1>8, <2>1 DEF SharesLittle
  <2>2. CASE k \in 1..(n - 1)
    BY <1>4, <2>2 DEF CutInv, OverlapIsBounded, n
  <2> QED
    BY <1>4, <2>1, <2>2
<1>14. Taking' /\ Overlapping' /\ Finished'
  <2>1. LastChunk' = new
    BY <1>4 DEF LastChunk
  <2>2. back' = 0 /\ step' = IF pos > Len(text) THEN "done" ELSE "overlap"
    BY DEF EmitChunk
  <2> QED
    BY <1>1, <1>2, <1>4, <1>7, <1>8, <2>1, <2>2 DEF Taking, Overlapping, Finished
<1> QED
  BY <1>9, <1>10, <1>11, <1>12, <1>13, <1>14 DEF CutInv

LEMMA StillStep == ASSUME CutInv, UNCHANGED chunking PROVE CutInv'
BY DEF chunking, CutInv, ChunkingTypeOK, Inside, Part, Chained, ChunksFit, OverlapIsBounded,
    Tokens, Taking,
       Overlapping, Finished, FitsSoFar, SharesLittle, LastChunk

LEMMA CutInvInit == ChunkingInit => CutInv
<1> SUFFICES ASSUME ChunkingInit PROVE CutInv
  OBVIOUS
<1>1. chunks = <<>> /\ Len(chunks) = 0 /\ chunks \in Seq(Chunk)
  BY EmptySeq DEF ChunkingInit
<1> QED
  BY <1>1 DEF ChunkingInit, CutInv, ChunkingTypeOK, Inside, Chained, ChunksFit,
      OverlapIsBounded, Taking,
              Overlapping, Finished

\* Whatever a step does, it does nothing else to the chunking.
LEMMA ChunkingSteps ==
    ASSUME [Next]_vars
    PROVE  StartChunking \/ ChunkingNext \/ UNCHANGED chunking
BY DEF Next, IngestionStep, Upload, IngestRequest, FindRecord, SaveIngesting, Download,
       ChunkDocument, Chunked, IndexChunks, SaveIngested, IngestionFails, DeleteObjects,
       PopRecord, Restart, vars

LEMMA CutInvNext == CutInv /\ [Next]_vars => CutInv'
<1> SUFFICES ASSUME CutInv, [Next]_vars PROVE CutInv'
  OBVIOUS
<1>1. CASE StartChunking
  BY <1>1, StartStep
<1>2. CASE ChunkingNext
  BY <1>2, TakeStep, EmitStep, BackStep, NextChunkStep DEF ChunkingNext
<1>3. CASE UNCHANGED chunking
  BY <1>3, StillStep
<1> QED
  BY <1>1, <1>2, <1>3, ChunkingSteps

LEMMA Cutting == Spec => []CutInv
<1>1. Init => CutInv
  BY CutInvInit DEF Init
<1> QED
  BY <1>1, CutInvNext, PTL DEF Spec

\* Every sentence of every text is in a chunk, whatever the target and the ratio.
THEOREM EveryTextIsCovered == Spec => []NothingLost
<1>1. CutInv => NothingLost
  BY DEF CutInv, Chained, Finished, NothingLost, LastChunk
<1> QED
  BY <1>1, Cutting, PTL

\* No chunk is too heavy unless it is one sentence, and none repeats too much.
THEOREM EveryTextIsWellCut == Spec => []ChunksWellCut
<1>1. CutInv => ChunksWellCut
  BY DEF CutInv, ChunksWellCut
<1> QED
  BY <1>1, Cutting, PTL

-----------------------------------------------------------------------------
(***************************************************************************)
(* The record against the ingestions, the files and the index.  Once a     *)
(* thread is past the chunking the chunks no longer change, whatever       *)
(* another thread does, so what its bulk() did not report stays in the     *)
(* index until it says so; a delete that finds a copy of the record in a   *)
(* thread has overtaken it.                                                *)
(***************************************************************************)
IngestionTypeOK ==
    /\ object \in {"none", "stored", "sidecar", "deleted"} /\ record \in Statuses \cup {None}
    /\ job \in [Threads -> Jobs \cup {None}] /\ deleting \in BOOLEAN /\ overtaken \in BOOLEAN
    /\ index \in SUBSET Nat /\ rejected \in [Threads -> SUBSET Nat] /\ told \in SUBSET Nat

\* How far the chunking is when a thread stands at a step.
Staged ==
    \A t \in Threads : /\ job[t] \in {"chunk", "index", "save"} => step # "idle"
                       /\ job[t] \in {"index", "save"} => step = "done"

SaveIsTrue ==
    \A t \in Threads : job[t] = "save" =>
        {k \in 1..Len(chunks) : k \notin rejected[t]} \subseteq index

StatusInv ==
    /\ IngestionTypeOK
    /\ Staged /\ SaveIsTrue
    /\ NeverStuckIngesting /\ IngestedIsIndexed /\ DeletedHasNoRecord
    /\ object = "none" => record = None /\ \A t \in Threads : job[t] = None
    /\ object = "deleted" /\ ~deleting /\ CopyHeld => overtaken

LEMMA StatusInvInit == Init => StatusInv
BY NoneAssumption
DEF Init, StatusInv, IngestionTypeOK, Staged, SaveIsTrue, NeverStuckIngesting,
    IngestedIsIndexed, DeletedHasNoRecord, CopyHeld, Statuses, Jobs

LEMMA StatusInvNext == CutInv /\ StatusInv /\ [Next]_vars => StatusInv'
<1> SUFFICES ASSUME CutInv, StatusInv, [Next]_vars PROVE StatusInv'
  OBVIOUS
<1> USE NoneAssumption
    DEF StatusInv, IngestionTypeOK, Staged, SaveIsTrue, NeverStuckIngesting,
        IngestedIsIndexed, DeletedHasNoRecord, CopyHeld, Statuses, Jobs
<1>1. Len(chunks) \in Nat
  BY LenProperties DEF CutInv, ChunkingTypeOK
<1>2. CASE Upload
  BY <1>2 DEF Upload, chunking
<1>3. ASSUME NEW t \in Threads, IngestRequest(t) PROVE StatusInv'
  BY <1>3 DEF IngestRequest, chunking
<1>4. ASSUME NEW t \in Threads, FindRecord(t) PROVE StatusInv'
  BY <1>4 DEF FindRecord, chunking
<1>5. ASSUME NEW t \in Threads, SaveIngesting(t) PROVE StatusInv'
  BY <1>5 DEF SaveIngesting, chunking
<1>6. ASSUME NEW t \in Threads, Download(t) PROVE StatusInv'
  <2>1. CASE StartChunking
    BY <1>6, <2>1 DEF Download, StartChunking
  <2>2. CASE step # "idle" /\ UNCHANGED chunking
    BY <1>6, <2>2 DEF Download, chunking
  <2> QED
    BY <1>6, <2>1, <2>2 DEF Download
<1>7. ASSUME NEW t \in Threads, ChunkDocument(t) PROVE StatusInv'
  <2>1. step \in {"take", "overlap"} /\ step' # "idle"
    BY <1>7 DEF ChunkDocument, ChunkingNext, TakeSentence, EmitChunk, StepBack, NextChunk
  <2>2. UNCHANGED ingestion
    BY <1>7 DEF ChunkDocument
  <2> QED
    BY <2>1, <2>2 DEF ingestion
<1>8. ASSUME NEW t \in Threads, Chunked(t) PROVE StatusInv'
  <2>1. chunks = <<>> => 1..Len(chunks) = {}
    OBVIOUS
  <2> QED
    BY <1>8, <2>1 DEF Chunked, chunking
<1>9. ASSUME NEW t \in Threads, IndexChunks(t) PROVE StatusInv'
  <2>1. PICK ok \in SUBSET (1..Len(chunks)) :
            index' = index \cup ok /\ rejected' = [rejected EXCEPT ![t] = (1..Len(chunks)) \ ok]
    BY <1>9 DEF IndexChunks
  <2> QED
    BY <1>1, <1>9, <2>1 DEF IndexChunks, chunking
<1>10. ASSUME NEW t \in Threads, SaveIngested(t) PROVE StatusInv'
  BY <1>10 DEF SaveIngested, chunking
<1>11. ASSUME NEW t \in Threads, IngestionFails(t) PROVE StatusInv'
  <2>1. PICK ok \in SUBSET (1..Len(chunks)) : index' = index \/ index' = index \cup ok
    BY <1>11 DEF IngestionFails
  <2>2. index' \in SUBSET Nat /\ index \subseteq index'
    <3>1. ok \in SUBSET Nat /\ index \in SUBSET Nat
      BY <1>1, <2>1
    <3> QED
      BY <2>1, <3>1
  <2> QED
    BY <1>11, <2>2 DEF IngestionFails, chunking
<1>12. CASE DeleteObjects
  BY <1>12 DEF DeleteObjects, chunking
<1>13. CASE PopRecord
  BY <1>13 DEF PopRecord, chunking
<1>14. CASE Restart
  BY <1>14 DEF Restart, chunking
<1>15. CASE UNCHANGED vars
  BY <1>15 DEF vars, chunking, ingestion
<1> QED
  BY <1>2, <1>3, <1>4, <1>5, <1>6, <1>7, <1>8, <1>9, <1>10, <1>11, <1>12, <1>13, <1>14, <1>15
  DEF Next, IngestionStep

LEMMA StatusIsInvariant == Spec => []StatusInv
BY StatusInvInit, StatusInvNext, Cutting, PTL DEF Spec

\* Every reachable state has its type.
THEOREM TypeCorrect == Spec => []TypeOK
<1>1. CutInv /\ StatusInv => TypeOK
  BY DEF CutInv, StatusInv, IngestionTypeOK, TypeOK
<1> QED
  BY <1>1, Cutting, StatusIsInvariant, PTL

\* A document is only shown as being ingested while a thread ingests it.
THEOREM NoneIsStuckIngesting == Spec => []NeverStuckIngesting
<1>1. StatusInv => NeverStuckIngesting
  BY DEF StatusInv
<1> QED
  BY <1>1, StatusIsInvariant, PTL

\* What is called "ingested" is in the index, but for the errors bulk() reported.
THEOREM IngestedMeansIndexed == Spec => []IngestedIsIndexed
<1>1. StatusInv => IngestedIsIndexed
  BY DEF StatusInv
<1> QED
  BY <1>1, StatusIsInvariant, PTL

\* The record of a deleted document only comes back when the delete overtook an
\* ingestion.
THEOREM DeletedStaysWithoutRecord == Spec => []DeletedHasNoRecord
<1>1. StatusInv => DeletedHasNoRecord
  BY DEF StatusInv
<1> QED
  BY <1>1, StatusIsInvariant, PTL

-----------------------------------------------------------------------------
(***************************************************************************)
(* Each ingestion works off a number.  Every chunk still to come, at most  *)
(* one for each sentence from start on, is worth Span turns: the loop that *)
(* gathers and the one that steps back take fewer for one chunk.           *)
(***************************************************************************)
Span == 2 * Len(text) + 4

\* The turns that may follow within the chunk under way.
TurnsLeft ==
    CASE step = "take" -> 2 * Len(text) + 3 - pos
      [] step = "overlap" -> pos - start - back + 1
      [] OTHER -> 0

CutLeft == IF step \in {"take", "overlap"} THEN (Len(text) + 1 - start) * Span + TurnsLeft ELSE 0

\* More than the chunking of the whole text can take.
WholeCut == (Len(text) + 1) * Span

WorkLeft(t) ==
    CASE job[t] = None -> 0
      [] job[t] = "save" -> 1
      [] job[t] = "index" -> 2
      [] job[t] = "chunk" -> 3 + CutLeft
      [] job[t] = "download" -> 4 + WholeCut
      [] job[t] = "found" -> 5 + WholeCut
      [] job[t] = "accepted" -> 6 + WholeCut

LEMMA OneLessIsASpanLess ==
    ASSUME NEW a \in Nat, NEW b \in Nat, NEW c \in Nat, a < b
    PROVE  a * c \in Nat /\ b * c \in Nat /\ a * c + c <= b * c
<1>1. PICK d \in Nat : b = a + 1 + d
  <2>1. b - a - 1 \in Nat /\ b = a + 1 + (b - a - 1)
    OBVIOUS
  <2> QED
    BY <2>1
<1>2. a * c \in Nat /\ d * c \in Nat
  OBVIOUS
<1>3. b * c = a * c + c + d * c
  BY <1>1
<1> QED
  BY <1>2, <1>3

LEMMA WorkIsANumber ==
    ASSUME CutInv
    PROVE  /\ Len(text) \in Nat /\ Span \in Nat /\ WholeCut \in Nat
           /\ CutLeft \in Nat
           /\ text # <<>> => Len(text) >= 1
<1>1. Len(text) \in Nat /\ Span \in Nat
  BY TextIsTyped DEF CutInv, ChunkingTypeOK, Span
<1>2. WholeCut \in Nat
  BY <1>1 DEF WholeCut
<1>3. CutLeft \in Nat
  <2>1. CASE step \in {"take", "overlap"}
    <3>1. start \in 1..Len(text) /\ Len(text) + 1 - start \in Nat
      BY <1>1, <2>1 DEF CutInv, Taking, Overlapping
    <3>2. (Len(text) + 1 - start) * Span \in Nat
      BY <1>1, <3>1
    <3>3. TurnsLeft \in Nat
      <4>1. CASE step = "take"
        BY <1>1, <4>1 DEF CutInv, Taking, TurnsLeft
      <4>2. CASE step = "overlap"
        BY <1>1, <4>2 DEF CutInv, ChunkingTypeOK, Overlapping, TurnsLeft
      <4> QED
        BY <2>1, <4>1, <4>2
    <3> QED
      BY <2>1, <3>2, <3>3 DEF CutLeft
  <2>2. CASE step \notin {"take", "overlap"}
    BY <2>2 DEF CutLeft
  <2> QED
    BY <2>1, <2>2
<1>4. text # <<>> => Len(text) >= 1
  BY ChunkingAssumption, EmptySeq, LenProperties DEF ChunkingAssumption, CutInv, ChunkingTypeOK
<1> QED
  BY <1>1, <1>2, <1>3, <1>4

\* Each turn of the two loops takes one off, and the next chunk a span.
LEMMA TurnsAreWorkedOff ==
    ASSUME CutInv, ChunkingNext
    PROVE  CutLeft' \in Int /\ CutLeft' < CutLeft
<1> DEFINE n == Len(text)
           w == (n + 1 - start) * Span
<1>1. n \in Nat /\ Span \in Nat /\ CutLeft \in Nat /\ text' = text
  BY WorkIsANumber DEF ChunkingNext, TakeSentence, EmitChunk, StepBack, NextChunk
<1>2. start \in 1..n /\ pos \in 1..(n + 1) /\ back \in Nat
  BY <1>1 DEF CutInv, ChunkingTypeOK, Taking, Overlapping, ChunkingNext, TakeSentence, EmitChunk,
              StepBack, NextChunk
<1>3. w \in Nat /\ CutLeft = w + TurnsLeft
  BY <1>1, <1>2 DEF CutLeft, ChunkingNext, TakeSentence, EmitChunk, StepBack, NextChunk
<1>4. Span = 2 * n + 4
  BY DEF Span
<1> HIDE DEF w
<1>5. CASE TakeSentence
  <2>1. CutLeft' = w + TurnsLeft'
    BY <1>5 DEF TakeSentence, CutLeft, Span, w
  <2> QED
    BY <1>1, <1>2, <1>3, <1>5, <2>1 DEF TakeSentence, TurnsLeft
<1>6. CASE StepBack
  <2>1. CutLeft' = w + TurnsLeft'
    BY <1>6 DEF StepBack, CutLeft, Span, w
  <2> QED
    BY <1>1, <1>2, <1>3, <1>6, <2>1 DEF StepBack, TurnsLeft
<1>7. CASE EmitChunk
  <2>1. pos > start /\ TurnsLeft = 2 * n + 3 - pos
    BY <1>2, <1>7 DEF EmitChunk, Break, TurnsLeft, CutInv, Taking
  <2>2. CASE pos > n
    BY <1>1, <1>2, <1>3, <1>7, <2>1, <2>2 DEF EmitChunk, CutLeft
  <2>3. CASE pos <= n
    <3>1. CutLeft' = w + TurnsLeft' /\ TurnsLeft' = pos - start + 1
      BY <1>1, <1>2, <1>7, <2>3 DEF EmitChunk, CutLeft, Span, TurnsLeft, w
    <3> QED
      BY <1>1, <1>2, <1>3, <2>1, <2>3, <3>1
  <2> QED
    BY <1>1, <1>2, <2>2, <2>3
<1>8. CASE NextChunk
  <2> DEFINE v == (n + 1 - start') * Span
  <2>1. start' \in (start + 1)..n /\ pos' = start' /\ step' = "take"
    BY <1>1, <1>2, <1>8 DEF NextChunk, NextStart, CutInv, Overlapping
  <2>2. CutLeft' = v + (2 * n + 3 - start')
    BY <1>1, <2>1 DEF CutLeft, TurnsLeft, Span
  <2>3. v \in Nat /\ v + Span <= w
    BY <1>1, <1>2, <2>1, OneLessIsASpanLess DEF w
  <2>4. TurnsLeft \in Nat /\ TurnsLeft >= 1
    BY <1>1, <1>2, <1>8 DEF NextChunk, CutInv, Overlapping, TurnsLeft
  <2> HIDE DEF v
  <2>5. v + (2 * n + 3 - start') < w + TurnsLeft
    BY <1>1, <1>2, <1>3, <1>4, <2>1, <2>3, <2>4
  <2> QED
    BY <1>3, <2>2, <2>5
<1> QED
  BY <1>5, <1>6, <1>7, <1>8 DEF ChunkingNext

LEMMA CutIsPartOfTheWhole ==
    ASSUME CutInv
    PROVE  CutLeft + 1 <= WholeCut
<1> DEFINE n == Len(text)
           w == (n + 1 - start) * Span
<1>1. n \in Nat /\ Span \in Nat /\ Span = 2 * n + 4
  BY WorkIsANumber DEF Span
<1>2. CASE step \in {"take", "overlap"}
  <2>1. start \in 1..n /\ pos \in 1..(n + 1) /\ pos >= start /\ back \in Nat
    BY <1>1, <1>2 DEF CutInv, ChunkingTypeOK, Taking, Overlapping
  <2>2. w \in Nat /\ w + Span <= WholeCut
    BY <1>1, <2>1, OneLessIsASpanLess DEF WholeCut
  <2>3. CutLeft = w + TurnsLeft /\ TurnsLeft \in Int /\ TurnsLeft <= 2 * n + 3
    <3>1. CASE step = "take"
      BY <1>1, <2>1, <3>1 DEF CutLeft, TurnsLeft
    <3>2. CASE step = "overlap"
      BY <1>1, <2>1, <3>2 DEF CutLeft, TurnsLeft
    <3> QED
      BY <1>2, <3>1, <3>2
  <2>4. WholeCut \in Nat
    BY WorkIsANumber
  <2> HIDE DEF w, n
  <2> QED
    BY <1>1, <2>2, <2>3, <2>4
<1>3. CASE step \notin {"take", "overlap"}
  <2>1. (n + 1) * Span \in Nat /\ 0 * Span + Span <= (n + 1) * Span
    BY <1>1, OneLessIsASpanLess
  <2> QED
    BY <1>1, <1>3, <2>1 DEF CutLeft, WholeCut
<1> QED
  BY <1>2, <1>3

LEMMA WorkOfStages ==
    ASSUME CutInv, StatusInv, NEW t \in Threads
    PROVE  /\ WorkLeft(t) \in 0..(6 + WholeCut)
           /\ job[t] = None <=> WorkLeft(t) = 0
<1>1. CutLeft \in Nat /\ WholeCut \in Nat /\ CutLeft + 1 <= WholeCut
  BY WorkIsANumber, CutIsPartOfTheWhole
<1>2. job[t] \in Jobs \cup {None}
  BY DEF StatusInv, IngestionTypeOK
<1> QED
  BY <1>1, <1>2, NoneAssumption DEF Jobs, WorkLeft

LEMMA TheTextStays == ASSUME [Next]_vars PROVE WholeCut' = WholeCut
<1>1. text' = text
  BY ChunkingSteps
  DEF StartChunking, ChunkingNext, TakeSentence, EmitChunk, StepBack, NextChunk, chunking
<1> QED
  BY <1>1 DEF WholeCut, Span

\* A thread's work does not grow when another one's chunking goes on.
LEMMA SharedTurns ==
    ASSUME CutInv, StatusInv, [Next]_vars, NEW t \in Threads, job[t] # None, job'[t] = job[t]
    PROVE  WorkLeft(t)' <= WorkLeft(t)
<1>1. CutLeft \in Nat /\ WholeCut \in Nat /\ WholeCut' = WholeCut
  BY WorkIsANumber, TheTextStays
<1>2. job[t] \in Jobs \cup {None}
  BY DEF StatusInv, IngestionTypeOK
<1>3. CASE job[t] = "chunk"
  <2>1. step # "idle"
    BY <1>3 DEF StatusInv, Staged
  <2>2. CutLeft' \in Int /\ CutLeft' <= CutLeft
    <3>1. CASE ChunkingNext
      BY <1>1, <3>1, TurnsAreWorkedOff
    <3>2. CASE UNCHANGED chunking
      BY <1>1, <3>2 DEF chunking, CutLeft, TurnsLeft, Span
    <3> QED
      BY <2>1, <3>1, <3>2, ChunkingSteps DEF StartChunking
  <2>3. PICK c \in Int : c = CutLeft' /\ c <= CutLeft
    BY <2>2
  <2>4. WorkLeft(t) = 3 + CutLeft
    BY <1>3, NoneAssumption DEF WorkLeft
  <2>5. WorkLeft(t)' = 3 + c
    BY <1>3, <2>3, NoneAssumption DEF WorkLeft
  <2>6. 3 + c <= WorkLeft(t)
    <3>1. c <= CutLeft
      BY <2>3
    <3> QED
      BY <1>1, <2>4, <3>1
  <2> QED
    BY <2>5, <2>6
<1>4. CASE job[t] # "chunk"
  BY <1>1, <1>2, <1>4, NoneAssumption DEF Jobs, WorkLeft
<1> QED
  BY <1>3, <1>4

\* The first of them to have the file starts it.
LEMMA StartedWork ==
    ASSUME CutInv, CutInv', NEW t \in Threads, Download(t)
    PROVE  CutLeft' \in Int /\ CutLeft' + 1 <= WholeCut
<1>1. CutLeft \in Nat /\ WholeCut \in Nat /\ CutLeft + 1 <= WholeCut
  BY WorkIsANumber, CutIsPartOfTheWhole
<1>2. CASE UNCHANGED chunking
  BY <1>1, <1>2 DEF chunking, CutLeft, TurnsLeft, Span
<1>3. CASE StartChunking
  <2>1. start' = 1 /\ pos' = 1 /\ text' = text /\ Len(text) \in Nat
    BY <1>3, WorkIsANumber DEF StartChunking
  <2>2. CASE text = <<>>
    BY <1>1, <1>3, <2>2 DEF StartChunking, CutLeft
  <2>3. CASE text # <<>>
    <3> DEFINE n == Len(text)
    <3>1. step' = "take" /\ n \in Nat /\ n >= 1 /\ Span = 2 * n + 4 /\ Span \in Nat
      BY <1>3, <2>3, WorkIsANumber DEF StartChunking, Span
    <3>2. CutLeft' = n * Span + (2 * n + 2)
      BY <2>1, <3>1 DEF CutLeft, TurnsLeft, Span
    <3>3. n * Span \in Nat /\ n * Span + Span <= WholeCut
      BY <3>1, OneLessIsASpanLess DEF WholeCut
    <3> HIDE DEF n
    <3> QED
      BY <1>1, <3>1, <3>2, <3>3
  <2> QED
    BY <2>2, <2>3
<1> QED
  BY <1>2, <1>3 DEF Download

\* Each step of a thread takes work off its own.
LEMMA WorkIsDone ==
    ASSUME CutInv, CutInv', StatusInv, [Next]_vars, NEW t \in Threads, IngestionStep(t)
    PROVE  WorkLeft(t)' < WorkLeft(t) /\ WorkLeft(t)' <= WorkLeft(t)
<1>1. CutLeft \in Nat /\ WholeCut \in Nat /\ CutLeft + 1 <= WholeCut /\ WholeCut' = WholeCut
  BY WorkIsANumber, CutIsPartOfTheWhole, TheTextStays
<1>2. job \in [Threads -> Jobs \cup {None}]
  BY DEF StatusInv, IngestionTypeOK
<1>3. CASE FindRecord(t)
  BY <1>1, <1>2, <1>3, NoneAssumption DEF FindRecord, WorkLeft
<1>4. CASE SaveIngesting(t)
  BY <1>1, <1>2, <1>4, NoneAssumption DEF SaveIngesting, WorkLeft
<1>5. CASE Download(t)
  <2>1. PICK c \in Int : c = CutLeft' /\ c + 1 <= WholeCut
    BY <1>5, StartedWork
  <2>2. WorkLeft(t) = 4 + WholeCut
    BY <1>2, <1>5, NoneAssumption DEF Download, WorkLeft
  <2>3. WorkLeft(t)' = 3 + c
    BY <1>2, <1>5, <2>1, NoneAssumption DEF Download, WorkLeft
  <2>4. 3 + c < WorkLeft(t) /\ 3 + c <= WorkLeft(t)
    <3>1. c + 1 <= WholeCut
      BY <2>1
    <3> QED
      BY <1>1, <2>2, <3>1
  <2> QED
    BY <2>3, <2>4
<1>6. CASE ChunkDocument(t)
  <2>1. PICK c \in Int : c = CutLeft' /\ c < CutLeft
    BY <1>6, TurnsAreWorkedOff DEF ChunkDocument
  <2>2. WorkLeft(t) = 3 + CutLeft
    BY <1>6, NoneAssumption DEF ChunkDocument, WorkLeft
  <2>3. WorkLeft(t)' = 3 + c
    BY <1>6, <2>1, NoneAssumption DEF ChunkDocument, ingestion, WorkLeft
  <2>4. 3 + c < WorkLeft(t) /\ 3 + c <= WorkLeft(t)
    <3>1. c < CutLeft
      BY <2>1
    <3> QED
      BY <1>1, <2>2, <3>1
  <2> QED
    BY <2>3, <2>4
<1>7. CASE Chunked(t)
  BY <1>1, <1>2, <1>7, NoneAssumption DEF Chunked, WorkLeft
<1>8. CASE IndexChunks(t)
  BY <1>2, <1>8, NoneAssumption DEF IndexChunks, WorkLeft
<1>9. CASE SaveIngested(t)
  BY <1>2, <1>9, NoneAssumption DEF SaveIngested, WorkLeft
<1>10. CASE IngestionFails(t)
  BY <1>1, <1>2, <1>10, NoneAssumption DEF IngestionFails, WorkLeft
<1> QED
  BY <1>3, <1>4, <1>5, <1>6, <1>7, <1>8, <1>9, <1>10 DEF IngestionStep

\* No step of the others adds any.
LEMMA OthersAddNoWork ==
    ASSUME CutInv, CutInv', StatusInv, StatusInv', [Next]_vars, NEW t \in Threads,
           ~IngestRequest(t), ~IngestionStep(t)
    PROVE  WorkLeft(t)' <= WorkLeft(t)
<1>1. WorkLeft(t) \in Int /\ 0 <= WorkLeft(t)
  <2>1. WholeCut \in Nat
    BY WorkIsANumber
  <2> QED
    BY <2>1, WorkOfStages
<1>2. CASE job'[t] = None
  BY <1>1, <1>2, NoneAssumption DEF WorkLeft
<1>3. CASE job'[t] # None
  <2>1. job'[t] = job[t]
    <3>1. job \in [Threads -> Jobs \cup {None}]
      BY DEF StatusInv, IngestionTypeOK
    <3>2. CASE UNCHANGED job
      BY <3>2
    <3>3. ASSUME NEW u \in Threads, IngestRequest(u) \/ IngestionStep(u) PROVE job'[t] = job[t]
      <4>1. t # u
        BY <3>3
      <4> QED
        BY <3>1, <3>3, <4>1
        DEF IngestRequest, IngestionStep, FindRecord, SaveIngesting, Download, ChunkDocument,
            Chunked, IndexChunks, SaveIngested, IngestionFails, ingestion
    <3>4. CASE Restart
      BY <1>3, <3>4 DEF Restart
    <3> QED
      BY <3>2, <3>3, <3>4
      DEF Next, Upload, DeleteObjects, PopRecord, vars, ingestion
  <2> QED
    BY <1>3, <2>1, SharedTurns
<1> QED
  BY <1>2, <1>3

(***************************************************************************)
(* An ingestion takes a bounded number of steps, however the text is cut   *)
(* and whatever the ratio: a request to ingest brings at most              *)
(* 6 + WholeCut of them, every step of its thread uses one up, and nothing *)
(* but a request brings more, no other ingestion of the document either.   *)
(* What remains for IngestionEnds is that the thread goes on               *)
(* (chunking_service.py, _group_sentences_into_chunks).                    *)
(***************************************************************************)
THEOREM IngestionIsBounded ==
    ASSUME NEW t \in Threads
    PROVE  Spec => /\ [](WorkLeft(t) \in 0..(6 + WholeCut) /\ (job[t] = None <=> WorkLeft(t) = 0))
                   /\ [][/\ IngestionStep(t) => WorkLeft(t)' < WorkLeft(t)
                         /\ ~IngestRequest(t) => WorkLeft(t)' <= WorkLeft(t)]_vars
<1>1. CutInv /\ StatusInv =>
          WorkLeft(t) \in 0..(6 + WholeCut) /\ (job[t] = None <=> WorkLeft(t) = 0)
  BY WorkOfStages
<1>2. CutInv /\ CutInv' /\ StatusInv /\ StatusInv' /\ [Next]_vars =>
          [/\ IngestionStep(t) => WorkLeft(t)' < WorkLeft(t)
           /\ ~IngestRequest(t) => WorkLeft(t)' <= WorkLeft(t)]_vars
  <2> SUFFICES ASSUME CutInv, CutInv', StatusInv, StatusInv', [Next]_vars
               PROVE  /\ IngestionStep(t) => WorkLeft(t)' < WorkLeft(t)
                      /\ ~IngestRequest(t) => WorkLeft(t)' <= WorkLeft(t)
    OBVIOUS
  <2>1. IngestionStep(t) => WorkLeft(t)' < WorkLeft(t) /\ WorkLeft(t)' <= WorkLeft(t)
    BY WorkIsDone
  <2>2. ~IngestRequest(t) /\ ~IngestionStep(t) => WorkLeft(t)' <= WorkLeft(t)
    BY OthersAddNoWork
  <2> QED
    BY <2>1, <2>2
<1> QED
  BY <1>1, <1>2, Cutting, StatusIsInvariant, PTL DEF Spec

-----------------------------------------------------------------------------
\* Each chunk starts at a sentence of its own.
FewChunks ==
    /\ step = "take" => Len(chunks) < start
    /\ step = "overlap" => Len(chunks) <= start
    /\ Len(chunks) <= Len(text)

LEMMA FewChunksNext ==
    ASSUME CutInv, FewChunks, [Next]_vars
    PROVE  FewChunks'
<1>1. Len(text) \in Nat /\ Len(chunks) \in Nat /\ start \in Nat
  BY TextIsTyped, LenProperties DEF CutInv, ChunkingTypeOK
<1>3. CASE StartChunking
  <2>1. Len(chunks') = 0
    BY <1>3 DEF StartChunking
  <2> QED
    BY <1>1, <1>3, <2>1 DEF StartChunking, FewChunks
<1>4. CASE ChunkingNext
  <2>1. CASE TakeSentence \/ StepBack
    BY <2>1 DEF TakeSentence, StepBack, FewChunks
  <2>2. CASE NextChunk
    BY <1>1, <2>2 DEF NextChunk, NextStart, FewChunks, CutInv, ChunkingTypeOK, Overlapping
  <2>3. CASE EmitChunk
    <3>1. Len(chunks') = Len(chunks) + 1
      BY <2>3 DEF EmitChunk, CutInv, ChunkingTypeOK
    <3>2. start <= Len(text) /\ Len(chunks) < start
      BY <1>1, <2>3 DEF EmitChunk, CutInv, Taking, FewChunks
    <3> QED
      BY <1>1, <2>3, <3>1, <3>2 DEF EmitChunk, FewChunks
  <2> QED
    BY <1>4, <2>1, <2>2, <2>3 DEF ChunkingNext
<1>5. CASE UNCHANGED chunking
  BY <1>5 DEF chunking, FewChunks
<1> QED
  BY <1>3, <1>4, <1>5, ChunkingSteps

\* A document makes no more chunks, and so no more embeddings, than it has
\* sentences, however large the overlap.
THEOREM NoMoreChunksThanSentences == Spec => [](Len(chunks) <= Len(text))
<1>1. Init => FewChunks
  BY TextIsTyped DEF Init, ChunkingInit, FewChunks
<1>2. FewChunks => Len(chunks) <= Len(text)
  BY DEF FewChunks
<1> QED
  BY <1>1, <1>2, FewChunksNext, Cutting, PTL DEF Spec
=============================================================================
