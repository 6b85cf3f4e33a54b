----------------------------- MODULE Ingestion -----------------------------
(***************************************************************************)
(* The OpenSearch ingestion of a document, services/ingestion_service.py,  *)
(* with the in-memory records of services/document_store.py and the        *)
(* handlers of api/documents.py that write them: upload, ingest, delete.   *)
(*                                                                         *)
(* Documents have ids of their own and share nothing here, so the module   *)
(* is about one.  Each ingestion runs in a thread of the pool: handlers    *)
(* and other ingestions of the document run between its steps.  Nothing    *)
(* looks whether one is under way.                                         *)
(*                                                                         *)
(* Chunking touches nothing the handlers see, so they are not interleaved  *)
(* with its turns; and a file is never written again, so every ingestion   *)
(* of it cuts the same chunks: the first one's turns stand for all.        *)
(***************************************************************************)
EXTENDS Chunking

CONSTANTS
    Threads,    \* of the pool
    None        \* no record, no ingestion

VARIABLES
    object,     \* the files in S3: "none", "stored", "sidecar" (alone) or "deleted"
    record,     \* the status in _documents, or None
    job,        \* [Threads -> the step of the ingestion in flight, or None]
    deleting,   \* a delete removed the file but not yet the record
    index,      \* numbers of the chunks in the OpenSearch index
    rejected,   \* history: [Threads -> chunks its bulk() reported, until it is over]
    told,       \* history: those of the ingestion that saved "ingested"
    overtaken   \* history: a delete finished while the document was ingested

ingestion == <<object, record, job, deleting, index, rejected, told, overtaken>>
vars == <<chunking, ingestion>>

ASSUME NoneAssumption ==
    None \notin {"uploaded", "ingesting", "ingested", "ingestion_failed",
                 "accepted", "found", "download", "chunk", "index", "save"}

Statuses == {"uploaded", "ingesting", "ingested", "ingestion_failed"}
Jobs == {"accepted", "found", "download", "chunk", "index", "save"}

Init ==
    /\ ChunkingInit
    /\ object = "none" /\ record = None /\ deleting = FALSE
    /\ job = [t \in Threads |-> None]
    /\ index = {} /\ rejected = [t \in Threads |-> {}] /\ told = {} /\ overtaken = FALSE

-----------------------------------------------------------------------------
\* The record is saved after both put_object calls, with no await in between.
Upload ==
    /\ object = "none" /\ ~deleting
    /\ object' = "stored"
    /\ record' = "uploaded"
    /\ UNCHANGED <<chunking, job, deleting, index, rejected, told, overtaken>>

\* The handler finds the record before it hands the document to a thread.
IngestRequest(t) ==
    /\ job[t] = None /\ ~deleting
    /\ record # None
    /\ job' = [job EXCEPT ![t] = "accepted"]
    /\ UNCHANGED <<chunking, object, record, deleting, index, rejected, told, overtaken>>

\* The thread reads it again: a delete may have come first.
FindRecord(t) ==
    /\ job[t] = "accepted"
    /\ job' = [job EXCEPT ![t] = IF record = None THEN None ELSE "found"]
    /\ UNCHANGED <<chunking, object, record, deleting, index, rejected, told, overtaken>>

\* The copy is saved with its new status, whatever became of the record.
SaveIngesting(t) ==
    /\ job[t] = "found"
    /\ record' = "ingesting" /\ told' = {}
    /\ job' = [job EXCEPT ![t] = "download"]
    /\ UNCHANGED <<chunking, object, deleting, index, rejected, overtaken>>

Download(t) ==
    /\ job[t] = "download"
    /\ object = "stored"
    /\ job' = [job EXCEPT ![t] = "chunk"]
    /\ StartChunking \/ (step # "idle" /\ UNCHANGED chunking)
    /\ UNCHANGED <<object, record, deleting, index, rejected, told, overtaken>>

ChunkDocument(t) ==
    /\ job[t] = "chunk"
    /\ ChunkingNext
    /\ UNCHANGED ingestion

\* Without a chunk there is nothing to embed and to index.
Chunked(t) ==
    /\ job[t] = "chunk" /\ step = "done"
    /\ job' = [job EXCEPT ![t] = IF chunks = <<>> THEN "save" ELSE "index"]
    /\ UNCHANGED <<chunking, object, record, deleting, index, rejected, told, overtaken>>

\* bulk() indexes what it can under the chunks' own ids and only logs the errors.
IndexChunks(t) ==
    /\ job[t] = "index"
    /\ \E ok \in SUBSET (1..Len(chunks)) :
           /\ index' = index \cup ok
           /\ rejected' = [rejected EXCEPT ![t] = (1..Len(chunks)) \ ok]
    /\ job' = [job EXCEPT ![t] = "save"]
    /\ UNCHANGED <<chunking, object, record, deleting, told, overtaken>>

\* The status goes to the copy of the metadata read at the start.
SaveIngested(t) ==
    /\ job[t] = "save"
    /\ record' = "ingested"
    /\ told' = rejected[t] /\ rejected' = [rejected EXCEPT ![t] = {}]
    /\ job' = [job EXCEPT ![t] = None]
    /\ UNCHANGED <<chunking, object, deleting, index, overtaken>>

\* Variants for fault injection: the error of a step is taken for a success, or
\* leaves the record as it is.
FailSaved(t) ==
    /\ job[t] \in {"download", "index"}
    /\ record' = "ingested"
    /\ job' = [job EXCEPT ![t] = None]
    /\ UNCHANGED <<chunking, object, deleting, index, rejected, told, overtaken>>

FailForgotten(t) ==
    /\ job[t] \in {"download", "index"}
    /\ job' = [job EXCEPT ![t] = None]
    /\ UNCHANGED <<chunking, object, record, deleting, index, rejected, told, overtaken>>

\* S3, the extraction, the embedding or the index raises; a bulk() cut off by its
\* connection may have indexed some chunks.
IngestionFails(t) ==
    /\ job[t] \in {"download", "index"}
    /\ \/ UNCHANGED index
       \/ job[t] = "index" /\ \E ok \in SUBSET (1..Len(chunks)) : index' = index \cup ok
    /\ record' = "ingestion_failed"
    /\ job' = [job EXCEPT ![t] = None]
    /\ UNCHANGED <<chunking, object, deleting, rejected, told, overtaken>>

-----------------------------------------------------------------------------
\* The handlers need not be interleaved with the turns of the chunking.
AtRest == step = "done" \/ \A t \in Threads : job[t] # "chunk"

\* Ingestions that hold a copy of the record, and will save it.
CopyHeld == \E t \in Threads : job[t] \notin {None, "accepted"}

\* The files that list_objects_v2 found go first, one by one; when one cannot be
\* deleted, 502, the record stays and the delete can be asked for again.
DeleteObjects ==
    /\ object \in {"stored", "sidecar"} /\ ~deleting /\ AtRest
    /\ \/ object' = "deleted" /\ deleting' = TRUE
       \/ object' \in {object, "sidecar"} /\ UNCHANGED deleting
    /\ UNCHANGED <<chunking, record, job, index, rejected, told, overtaken>>

\* Variant for fault injection: the record of a deleted document stays.
KeepRecord ==
    /\ deleting /\ AtRest
    /\ deleting' = FALSE
    /\ overtaken' = (overtaken \/ CopyHeld)
    /\ UNCHANGED <<chunking, object, record, job, index, rejected, told>>

\* _documents.pop; the chunks in the index are left alone.
PopRecord ==
    /\ deleting /\ AtRest
    /\ record' = None
    /\ deleting' = FALSE
    /\ overtaken' = (overtaken \/ CopyHeld)
    /\ UNCHANGED <<chunking, object, job, index, rejected, told>>

\* The records live in memory; the bucket and the index do not.
Restart ==
    /\ record # None \/ deleting \/ \E t \in Threads : job[t] # None
    /\ AtRest
    /\ record' = None /\ deleting' = FALSE
    /\ job' = [t \in Threads |-> None] /\ rejected' = [t \in Threads |-> {}]
    /\ UNCHANGED <<chunking, object, index, told, overtaken>>

IngestionStep(t) ==
    \/ FindRecord(t) \/ SaveIngesting(t) \/ Download(t) \/ ChunkDocument(t)
    \/ Chunked(t) \/ IndexChunks(t) \/ SaveIngested(t) \/ IngestionFails(t)

Next ==
    \/ Upload \/ DeleteObjects \/ PopRecord \/ Restart
    \/ \E t \in Threads : IngestRequest(t) \/ IngestionStep(t)

Spec == Init /\ [][Next]_vars

\* A thread that was given a document goes on with it.
FairSpec == Spec /\ \A t \in Threads : WF_vars(IngestionStep(t))

-----------------------------------------------------------------------------
\* Proved, not model-checked (IngestionProofs!TypeCorrect).
TypeOK ==
    /\ ChunkingTypeOK
    /\ object \in {"none", "stored", "sidecar", "deleted"} /\ record \in Statuses \cup {None}
    /\ job \in [Threads -> Jobs \cup {None}] /\ deleting \in BOOLEAN /\ overtaken \in BOOLEAN
    /\ index \in SUBSET Nat /\ rejected \in [Threads -> SUBSET Nat] /\ told \in SUBSET Nat

\* A document is shown as being ingested only while a thread ingests it,
\* whatever failed and whichever of two ingestions saved last (the except clause
\* of ingest_document).
NeverStuckIngesting ==
    record = "ingesting" => \E t \in Threads : job[t] \in {"download", "chunk", "index", "save"}

\* An "ingested" document is in the index to its last chunk, as far as the bulk()
\* of the ingestion that says so did not report otherwise: after a failure, a
\* re-ingestion, and beside another one too.
IngestedIsIndexed ==
    record = "ingested" =>
        step = "done" /\ {k \in 1..Len(chunks) : k \notin told} \subseteq index

\* A document whose delete went through has a record again only if the delete
\* overtook an ingestion, which saves the copy it read before.
DeletedHasNoRecord ==
    object = "deleted" /\ record # None /\ ~deleting => overtaken

\* Every ingestion comes to its end however the text is cut: each chunk starts
\* after the one before.  A restart ends it too.
IngestionEnds == \A t \in Threads : job[t] # None ~> job[t] = None
=============================================================================
