------------------------------ MODULE RagSystem ------------------------------
(***************************************************************************)
(* Documents, knowledge base, answer cache and chat pipeline together:     *)
(* api/documents.py, services/bedrock_kb_service.py,                       *)
(* services/cache_service.py and _run_rag_pipeline of api/chat.py.         *)
(*                                                                         *)
(* Bedrock's index is fed only by ingestion jobs that crawl the bucket; it  *)
(* is never updated by a document handler.  A chat request is a record in  *)
(* reqs: between its steps it awaits the guardrail, the rewriter, the      *)
(* retriever, the reranker or the answer model, and everything else moves. *)
(***************************************************************************)
EXTENDS DocumentStore

CONSTANT ReqIds        \* bounds the chat requests in flight

VARIABLES
    index,      \* [Docs -> Sidecar or NoObject]: metadata on a document's chunks
    pending,    \* documents the running ingestion job has still to crawl
    reqs        \* chat requests in flight

Req == [id : ReqIds, ctx : Contexts, q : Questions, srcs : SUBSET Docs,
        pc : {"lookup", "retrieve", "generate", "store", "answered"}]

ragVars == <<index, pending, reqs>>
vars    == <<cache, docVars, ragVars>>

-----------------------------------------------------------------------------
(***************************************************************************)
(* The knowledge base.  sync_knowledge_base starts one job over the whole  *)
(* bucket; Bedrock refuses a second one while it runs (the call is a 502   *)
(* then and changes nothing).  NoObject stands for a document without      *)
(* chunks and for chunks without metadata: no filter matches either.       *)
(***************************************************************************)
StartSync ==
    /\ pending = {}
    /\ pending' = Docs
    /\ UNCHANGED <<cache, docVars, index, reqs>>

CrawlDocument(d) ==
    /\ d \in pending
    /\ pending' = pending \ {d}
    /\ index' = [index EXCEPT ![d] = IF primary[d] = NoObject THEN NoObject ELSE sidecar[d]]
    /\ UNCHANGED <<cache, docVars, reqs>>

\* The job ends FAILED or STOPPED with documents it never crawled.
AbortSync ==
    /\ pending # {}
    /\ pending' = {}
    /\ UNCHANGED <<cache, docVars, index, reqs>>

\* Variant for fault injection: members are filtered by tenant alone.
TenantFilter(ctx, m) == m.tenant = ctx.tenant

\* _build_retrieval_filter, applied by Bedrock to the metadata of each chunk.
RetrievalFilter(ctx, m) ==
    /\ m.tenant = ctx.tenant
    /\ ctx.admin \/ m.by = ctx.user \/ ctx.user \in m.shared

Retrievable(ctx) == {d \in Docs : index[d] # NoObject /\ RetrievalFilter(ctx, index[d])}

-----------------------------------------------------------------------------
(***************************************************************************)
(* The chat pipeline (_run_rag_pipeline).                                  *)
(***************************************************************************)

\* The input guardrail passed, the question is rewritten and embedded.
Ask(id, ctx, q) ==
    /\ LoopFree
    /\ \A r \in reqs : r.id # id
    /\ reqs' = reqs \cup {[id |-> id, ctx |-> ctx, q |-> q, srcs |-> {}, pc |-> "lookup"]}
    /\ UNCHANGED <<cache, docVars, index, pending>>

Advance(r, n) == reqs' = (reqs \ {r}) \cup {n}

\* A live match: its sources and its answer are sent, nothing else runs.
AnswerFromCache(r) ==
    /\ r.pc = "lookup" /\ LoopFree
    /\ \E i \in 1..Len(cache[r.ctx]) :
        /\ LookupHit(r.ctx, r.q, i)
        /\ Advance(r, [r EXCEPT !.pc = "answered", !.srcs = cache'[r.ctx][i].srcs])
    /\ UNCHANGED <<docVars, index, pending>>

CacheMiss(r) ==
    /\ r.pc = "lookup" /\ LoopFree
    /\ LookupMiss(r.ctx, r.q)
    /\ Advance(r, [r EXCEPT !.pc = "retrieve"])
    /\ UNCHANGED <<docVars, index, pending>>

\* retrieve_from_kb in a thread; the top-k cut, the reranker and the relevance
\* threshold may drop any of the chunks the filter admits.
Retrieve(r) ==
    /\ r.pc = "retrieve"
    /\ \E found \in SUBSET Retrievable(r.ctx) :
           Advance(r, [r EXCEPT !.pc = "generate", !.srcs = found])
    /\ UNCHANGED <<cache, docVars, index, pending>>

\* The answer passed the output guardrail and is sent ("token").
SendAnswer(r) ==
    /\ r.pc = "generate" /\ LoopFree
    /\ Advance(r, [r EXCEPT !.pc = "store"])
    /\ UNCHANGED <<cache, docVars, index, pending>>

\* The generator is resumed after the token: only now is the answer cached.
StoreAnswer(r) ==
    /\ r.pc = "store" /\ LoopFree
    /\ Store(r.ctx, r.q, r.srcs)
    /\ reqs' = reqs \ {r}
    /\ UNCHANGED <<docVars, index, pending>>

\* The end of a request answered from the cache, and every early return: the
\* retriever or the model fails, the output guardrail intervenes, the client
\* disconnects.  None of them touches the cache.
EndRequest(r) ==
    /\ LoopFree
    /\ reqs' = reqs \ {r}
    /\ UNCHANGED <<cache, docVars, index, pending>>

-----------------------------------------------------------------------------
(***************************************************************************)
(* The last step of a document handler: its audit event was written in the *)
(* thread pool, and now, back on the event loop, the tenant's cache goes.  *)
(*                                                                         *)
(* History: a delete is "settled" when at this moment neither the index    *)
(* nor a request in flight knows the document any more, else it is "late". *)
(***************************************************************************)
Carries(r, d) == d \in r.srcs

DeleteFate(d) ==
    IF index[d] = NoObject /\ ~\E r \in reqs : Carries(r, d)
    THEN "settled" ELSE "late"

Invalidate(o) ==
    /\ o.pc = "invalidate" /\ LoopFree
    /\ InvalidateTenant(o.ctx.tenant)
    /\ Finish(o)
    /\ fate' = IF o.kind = "delete" THEN [fate EXCEPT ![o.doc] = DeleteFate(o.doc)] ELSE fate
    /\ UNCHANGED <<primary, sidecar, born, granted, ragVars>>

\* The backend process restarts: memory is lost, S3 and Bedrock are not.
Restart ==
    /\ cache' = NoAnswers
    /\ ops' = {} /\ reqs' = {}
    /\ UNCHANGED <<primary, sidecar, born, granted, fate, index, pending>>

Tick ==
    /\ Age
    /\ UNCHANGED <<docVars, ragVars>>

-----------------------------------------------------------------------------
Init ==
    /\ CacheInit
    /\ DocInit
    /\ index = [d \in Docs |-> NoObject]
    /\ pending = {}
    /\ reqs = {}

StartOp(id, ctx) ==
    \/ \E h \in Hashes : UploadNew(id, ctx, h) \/ UploadDuplicate(id, ctx, h)
    \/ \E d \in Docs : DeleteList(id, ctx, d)
    \/ \E d \in Docs, users \in SharePayloads : ShareResolve(id, ctx, d, users)

OpStep(o) ==
    \/ AnswerDuplicate(o) \/ PutPrimary(o) \/ PutSidecar(o)
    \/ DeleteKey(o)
    \/ ShareRead(o) \/ ShareWrite(o)
    \/ OpFails(o)

ReqStep(r) ==
    \/ AnswerFromCache(r) \/ CacheMiss(r) \/ Retrieve(r)
    \/ SendAnswer(r) \/ StoreAnswer(r) \/ EndRequest(r)

DocStep ==
    /\ \/ \E id \in OpIds, ctx \in Contexts : StartOp(id, ctx)
       \/ \E o \in ops : OpStep(o)
    /\ UNCHANGED <<cache, ragVars>>

KbStep == StartSync \/ (\E d \in Docs : CrawlDocument(d)) \/ AbortSync

ChatStep ==
    \/ \E id \in ReqIds, ctx \in Contexts, q \in Questions : Ask(id, ctx, q)
    \/ \E r \in reqs : ReqStep(r)

Next ==
    \/ DocStep
    \/ \E o \in ops : Invalidate(o)
    \/ KbStep
    \/ ChatStep
    \/ Restart
    \/ Tick

Spec == Init /\ [][Next]_vars

(***************************************************************************)
(* Fairness.  boto3, the OpenAI client and Cohere time out, so a request   *)
(* or a handler in flight always takes its next step or fails, and the     *)
(* clock advances.  Nobody has to ask, upload, delete, share or sync.      *)
(***************************************************************************)
FairSpec ==
    /\ Spec
    /\ \A id \in ReqIds : WF_vars(\E r \in reqs : r.id = id /\ ReqStep(r))
    /\ \A id \in OpIds :
           WF_vars(\E o \in ops : /\ o.id = id
                                  /\ \/ OpStep(o) /\ UNCHANGED <<cache, ragVars>>
                                     \/ Invalidate(o))
    /\ WF_vars(Tick)

-----------------------------------------------------------------------------
TypeOK ==
    /\ CacheTypeOK
    /\ DocTypeOK
    /\ index \in [Docs -> Sidecar \cup {NoObject}]
    /\ pending \subseteq Docs
    /\ reqs \subseteq Req

(***************************************************************************)
(* Tenant isolation and per-document sharing, end to end: whatever a chat  *)
(* request holds or a cache scope stores cites only documents that some    *)
(* handler once meant that very context to read (uploaded by the user, in  *)
(* the tenant of the admin, or shared with the user by an admin of the     *)
(* same tenant).  The comments at api/chat.py:203-208 and 223-233 and      *)
(* bedrock_kb_service.py:212-222 promise it of retrieval and cache apart;  *)
(* here it has to survive stale sidecars, late crawls, shares racing       *)
(* deletes, and answers stored after the permissions changed.              *)
(***************************************************************************)
SourcesWereGranted ==
    /\ \A r \in reqs : \A d \in r.srcs : r.ctx \in granted[d]
    /\ \A s \in Contexts : \A i \in 1..Len(cache[s]) :
           \A d \in cache[s][i].srcs : s \in granted[d]

(***************************************************************************)
(* When the invalidation of a delete works: if at that moment neither the  *)
(* index nor a request in flight knows the document any more, then no      *)
(* cached answer and no request cites it ever again (invalidate_tenant at  *)
(* documents.py:389 against store at chat.py:339).                         *)
(***************************************************************************)
SettledDeleteIsFinal ==
    \A d \in Docs : fate[d] = "settled" =>
        /\ \A r \in reqs : d \notin r.srcs
        /\ \A s \in Contexts : \A i \in 1..Len(cache[s]) : d \notin cache[s][i].srcs

(***************************************************************************)
(* Nothing stays readable for ever: once the index keeps a document from a *)
(* context (deleted, unshared or never shared, and synced), that context's *)
(* requests and live cached answers stop citing it.  It needs the TTL not  *)
(* to be renewed by hits and every request in flight to end.               *)
(***************************************************************************)
Cited(ctx, d) ==
    \/ \E r \in reqs : r.ctx = ctx /\ d \in r.srcs
    \/ \E i \in 1..Len(cache[ctx]) : Live(cache[ctx][i]) /\ d \in cache[ctx][i].srcs

EventuallyForgotten ==
    \A ctx \in Contexts, d \in Docs :
        (<>[](d \notin Retrievable(ctx))) => (<>[]~Cited(ctx, d))
=============================================================================
