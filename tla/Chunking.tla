------------------------------ MODULE Chunking ------------------------------
(***************************************************************************)
(* _group_sentences_into_chunks of services/chunking_service.py: sentences *)
(* are gathered into chunks of at most Target tokens, a chunk prefers to   *)
(* end where a section ends, and the next one starts a few sentences back. *)
(* One action is one turn of one of the two inner loops.                   *)
(*                                                                         *)
(* Data abstraction.  A sentence is the number of tokens up to its end     *)
(* (upto) and the section it stands in; its text and its offsets follow    *)
(* from its place.  A chunk is its first and last sentence.  The branch    *)
(* for an empty current list is left out: the first sentence of a chunk    *)
(* meets neither break, so the list is never empty.                        *)
(***************************************************************************)
EXTENDS Integers, Sequences

CONSTANTS
    Target,             \* target_tokens
    OverlapNum,         \* overlap_ratio is OverlapNum / OverlapDen
    OverlapDen,
    Texts               \* what _extract_sentences may return

\* The tokens of the sentences i..j of a text.
Tokens(t, i, j) == t[j].upto - (IF i = 1 THEN 0 ELSE t[i - 1].upto)

ASSUME ChunkingAssumption ==
    /\ Target \in Nat \ {0} /\ OverlapNum \in Nat /\ OverlapDen \in Nat \ {0}
    /\ \A t \in Texts : /\ t \in Seq([upto : Nat, section : Nat])
                        /\ \A i, j \in 1..Len(t) : i < j => t[i].upto < t[j].upto

VARIABLES
    text,       \* the sentences of the document
    step,       \* "idle", "take", "overlap" or "done"
    start,      \* start_index: the first sentence of the chunk
    pos,        \* i: the next sentence
    back,       \* step_back
    chunks      \* the chunks so far

chunking == <<text, step, start, pos, back, chunks>>

Chunk == [first : Nat \ {0}, last : Nat \ {0}]

\* max(1, int(target_tokens * 0.5))
MinTokens == IF Target < 4 THEN 1 ELSE Target \div 2

\* round(): to the nearest integer, halves to the even one.
RoundHalfEven(num, den) ==
    LET q == num \div den  r == num % den
    IN  IF 2 * r > den \/ (2 * r = den /\ q % 2 = 1) THEN q + 1 ELSE q

OverlapTarget(tokens) == RoundHalfEven(tokens * OverlapNum, OverlapDen)

ChunkingInit ==
    /\ text \in Texts
    /\ step = "idle" /\ start = 1 /\ pos = 1 /\ back = 0 /\ chunks = <<>>

-----------------------------------------------------------------------------
StartChunking ==
    /\ step = "idle"
    /\ step' = IF text = <<>> THEN "done" ELSE "take"
    /\ start' = 1 /\ pos' = 1 /\ back' = 0 /\ chunks' = <<>>
    /\ UNCHANGED text

\* Variant for fault injection: the limit is looked at after the sentence was added.
BreakTooLate ==
    pos > start /\ (\/ /\ text[pos].section # text[pos - 1].section
                       /\ Tokens(text, start, pos - 1) >= MinTokens
                    \/ Tokens(text, start, pos - 1) > Target)

\* The next sentence begins a section and the chunk is big enough, or it is one
\* too many.
Break ==
    pos > start /\ (\/ /\ text[pos].section # text[pos - 1].section
                       /\ Tokens(text, start, pos - 1) >= MinTokens
                    \/ Tokens(text, start, pos) > Target)

\* Variant for fault injection: the index is not moved on.
TakeSentenceAgain ==
    /\ step = "take" /\ pos <= Len(text) /\ ~Break
    /\ UNCHANGED chunking

TakeSentence ==
    /\ step = "take" /\ pos <= Len(text) /\ ~Break
    /\ pos' = pos + 1
    /\ UNCHANGED <<text, step, start, back, chunks>>

EmitChunk ==
    /\ step = "take" /\ (pos <= Len(text) => Break)
    /\ chunks' = Append(chunks, [first |-> start, last |-> pos - 1])
    /\ step' = IF pos > Len(text) THEN "done" ELSE "overlap"
    /\ back' = 0
    /\ UNCHANGED <<text, start, pos>>

\* The loop over reversed(current) has not gathered the overlap yet.
OverlapShort ==
    /\ back < pos - start
    /\ (IF back = 0 THEN 0 ELSE Tokens(text, pos - back, pos - 1))
           < OverlapTarget(Tokens(text, start, pos - 1))

StepBack ==
    /\ step = "overlap" /\ OverlapShort
    /\ back' = back + 1
    /\ UNCHANGED <<text, step, start, pos, chunks>>

\* Variant for fault injection: the sentence that did not fit is skipped.
NextStartSkips == IF pos - back > start THEN pos + 1 - back ELSE start + 1

NextStart == IF pos - back > start THEN pos - back ELSE start + 1

NextChunk ==
    /\ step = "overlap" /\ ~OverlapShort
    /\ start' = NextStart /\ pos' = NextStart
    /\ step' = "take"
    /\ UNCHANGED <<text, back, chunks>>

ChunkingNext == TakeSentence \/ EmitChunk \/ StepBack \/ NextChunk

-----------------------------------------------------------------------------
ChunkingTypeOK ==
    /\ text \in Texts /\ step \in {"idle", "take", "overlap", "done"}
    /\ start \in Nat /\ pos \in Nat /\ back \in Nat
    /\ chunks \in Seq(Chunk)

(***************************************************************************)
(* The chunks cover the text from its first sentence on without a hole,    *)
(* each starts after the one before and ends no earlier, and when the loop *)
(* is done the last sentence is in the last chunk.                         *)
(***************************************************************************)
NothingLost ==
    /\ chunks # <<>> => chunks[1].first = 1
    /\ \A k \in 1..(Len(chunks) - 1) :
           /\ chunks[k].first < chunks[k + 1].first
           /\ chunks[k + 1].first <= chunks[k].last + 1
           /\ chunks[k].last <= chunks[k + 1].last
    /\ step = "done" /\ text # <<>> => chunks # <<>> /\ chunks[Len(chunks)].last = Len(text)

(***************************************************************************)
(* A chunk has at most Target tokens or is a single sentence, and it runs  *)
(* into a new section only while it is lighter than half the target ("A    *)
(* single sentence alone exceeds target_tokens - take it").                *)
(***************************************************************************)
ChunksFit ==
    \A k \in 1..Len(chunks) :
        LET c == chunks[k] IN
        /\ c.first < c.last => Tokens(text, c.first, c.last) <= Target
        /\ \A j \in (c.first + 1)..c.last :
               text[j].section # text[j - 1].section => Tokens(text, c.first, j - 1) < MinTokens

(***************************************************************************)
(* What two neighbours share, less its first sentence, is lighter than the *)
(* overlap the ratio asks for.                                             *)
(***************************************************************************)
OverlapIsBounded ==
    \A k \in 1..(Len(chunks) - 1) :
        chunks[k + 1].first < chunks[k].last =>
            Tokens(text, chunks[k + 1].first + 1, chunks[k].last)
                < OverlapTarget(Tokens(text, chunks[k].first, chunks[k].last))

\* Chunks are neither too heavy nor do they repeat too much of the one before.
ChunksWellCut == ChunksFit /\ OverlapIsBounded
=============================================================================
