---------------------------- MODULE DocumentStore ----------------------------
(***************************************************************************)
(* Documents in S3 and the admin handlers that write them, api/documents.py *)
(* (upload_document, delete_document_endpoint, update_document_shares),    *)
(* over the answer cache each of them invalidates.                         *)
(*                                                                         *)
(* A document is a primary object and a sidecar "<key>.metadata.json" that *)
(* carries tenant_id, uploaded_by and shared_with.  There is no second     *)
(* copy: list, dedup, sharing and retrieval all start from these objects.  *)
(*                                                                         *)
(* A handler in flight is a record in ops.  Its pc names the next thing it *)
(* does; between two pcs lies an await, or a call run in the thread pool,  *)
(* where other handlers run.  boto3's put_object and delete_object are     *)
(* called directly in the coroutine, so between the two writes of an       *)
(* upload, or the two deletions of a delete, the event loop is blocked and *)
(* only threads and Bedrock move (LoopFree).                               *)
(***************************************************************************)
EXTENDS SemanticCache

CONSTANTS
    Hashes,      \* content hashes of uploaded files
    SharePayloads,  \* the user_ids of sharing requests
    OpIds,       \* bounds the admin handlers in flight
    NoObject     \* an S3 key that holds no object

Tenants == {c.tenant : c \in Contexts}
Users   == {c.user : c \in Contexts}

\* auth_service.list_org_members: the Cognito group of the tenant.
Members(t) == {c.user : c \in {x \in Contexts : x.tenant = t}}

Primary == [tenant : Tenants, hash : Hashes]
Sidecar == [tenant : Tenants, by : Users, shared : SUBSET Users]

ASSUME ContextAssumption ==
    \A c \in Contexts : c = [tenant |-> c.tenant, user |-> c.user, admin |-> c.admin]
                        /\ c.admin \in BOOLEAN

ASSUME PayloadAssumption == SharePayloads \subseteq SUBSET Users

ASSUME NoObjectAssumption ==
    NoObject \notin Primary /\ NoObject \notin Sidecar /\ NoObject \notin Contexts

VARIABLES
    primary,     \* [Docs -> Primary or NoObject]
    sidecar,     \* [Docs -> Sidecar or NoObject]
    ops,         \* admin handlers in flight
    born,        \* history: the context that uploaded the document
    granted,     \* history: the contexts a handler ever meant to let read it
    fate         \* history: how its delete ended, see Invalidate in RagSystem

UploadOp == [id : OpIds, kind : {"upload"}, ctx : Contexts, hash : Hashes,
             pc : {"put"}]
TagOp    == [id : OpIds, kind : {"upload"}, ctx : Contexts, doc : Docs,
             pc : {"tag", "invalidate", "duplicate"}]
DeleteOp == [id : OpIds, kind : {"delete"}, ctx : Contexts, doc : Docs,
             keys : SUBSET {"primary", "sidecar"},
             pc : {"delete", "deleting", "invalidate"}]
ShareOp  == [id : OpIds, kind : {"share"}, ctx : Contexts, doc : Docs,
             users : SUBSET Users, pc : {"read", "invalidate"}]
WriteOp  == [id : OpIds, kind : {"share"}, ctx : Contexts, doc : Docs,
             users : SUBSET Users, body : Sidecar, pc : {"write"}]
Op == UploadOp \cup TagOp \cup DeleteOp \cup ShareOp \cup WriteOp

docVars == <<primary, sidecar, ops, born, granted, fate>>
s3Vars  == <<primary, sidecar, born, granted, fate>>

DocInit ==
    /\ primary = [d \in Docs |-> NoObject]
    /\ sidecar = [d \in Docs |-> NoObject]
    /\ ops = {}
    /\ born = [d \in Docs |-> NoObject]
    /\ granted = [d \in Docs |-> {}]
    /\ fate = [d \in Docs |-> "none"]

LoopFree == \A o \in ops : o.pc \notin {"tag", "deleting"}

FreeId(id) == \A o \in ops : o.id # id

Become(o, n) == ops' = (ops \ {o}) \cup {n}
Finish(o)    == ops' = ops \ {o}

-----------------------------------------------------------------------------
(***************************************************************************)
(* The first reads of every handler run in the thread pool, so they may    *)
(* see the bucket between the two writes of another handler.               *)
(*                                                                         *)
(* POST /documents/upload (require_admin_context).                         *)
(***************************************************************************)

\* _find_duplicate_by_hash: some file under the tenant's prefix has this hash.
Duplicates(t, h) == {d \in Docs : primary[d] = [tenant |-> t, hash |-> h]}

UploadNew(id, ctx, h) ==
    /\ FreeId(id) /\ ctx.admin
    /\ Duplicates(ctx.tenant, h) = {}
    /\ ops' = ops \cup {[id |-> id, kind |-> "upload", ctx |-> ctx, hash |-> h, pc |-> "put"]}
    /\ UNCHANGED s3Vars

UploadDuplicate(id, ctx, h) ==
    /\ FreeId(id) /\ ctx.admin
    /\ \E d \in Duplicates(ctx.tenant, h) :
           ops' = ops \cup {[id |-> id, kind |-> "upload", ctx |-> ctx, doc |-> d, pc |-> "duplicate"]}
    /\ UNCHANGED s3Vars

\* The response duplicate=True is sent; nothing was written.
AnswerDuplicate(o) ==
    /\ o.pc = "duplicate" /\ LoopFree
    /\ Finish(o)
    /\ UNCHANGED s3Vars

\* uuid4 names a document no one used before.
PutPrimary(o) ==
    /\ o.pc = "put" /\ LoopFree
    /\ \E d \in Docs :
        /\ born[d] = NoObject
        /\ primary' = [primary EXCEPT ![d] = [tenant |-> o.ctx.tenant, hash |-> o.hash]]
        /\ born' = [born EXCEPT ![d] = o.ctx]
        /\ Become(o, [id |-> o.id, kind |-> "upload", ctx |-> o.ctx, doc |-> d, pc |-> "tag"])
    /\ UNCHANGED <<sidecar, granted, fate>>

\* Private to the uploader, and to the admins of the tenant, until shared.
Initial(ctx) ==
    {c \in Contexts : c.tenant = ctx.tenant /\ (c.admin \/ c.user = ctx.user)}

PutSidecar(o) ==
    /\ o.kind = "upload" /\ o.pc = "tag"
    /\ sidecar' = [sidecar EXCEPT
                      ![o.doc] = [tenant |-> o.ctx.tenant, by |-> o.ctx.user, shared |-> {}]]
    /\ granted' = [granted EXCEPT ![o.doc] = @ \cup Initial(o.ctx)]
    /\ Become(o, [o EXCEPT !.pc = "invalidate"])
    /\ UNCHANGED <<primary, born, fate>>

-----------------------------------------------------------------------------
(***************************************************************************)
(* DELETE /documents/{document_id} (require_admin_context): list the keys under *)
(* the caller's prefix, then delete them in the order S3 listed them, the  *)
(* primary before its sidecar.                                             *)
(***************************************************************************)
KeysOf(t, d) ==
    {k \in {"primary", "sidecar"} :
        \/ k = "primary" /\ primary[d] # NoObject /\ primary[d].tenant = t
        \/ k = "sidecar" /\ sidecar[d] # NoObject /\ sidecar[d].tenant = t}

DeleteList(id, ctx, d) ==
    /\ FreeId(id) /\ ctx.admin
    /\ KeysOf(ctx.tenant, d) # {}
    /\ ops' = ops \cup {[id |-> id, kind |-> "delete", ctx |-> ctx, doc |-> d,
                         keys |-> KeysOf(ctx.tenant, d), pc |-> "delete"]}
    /\ UNCHANGED s3Vars

DeleteKey(o) ==
    /\ \/ o.pc = "deleting"
       \/ o.kind = "delete" /\ o.pc = "delete" /\ LoopFree
    /\ LET key  == IF "primary" \in o.keys THEN "primary" ELSE "sidecar"
           rest == o.keys \ {key}
       IN /\ primary' = IF key = "primary" THEN [primary EXCEPT ![o.doc] = NoObject] ELSE primary
          /\ sidecar' = IF key = "sidecar" THEN [sidecar EXCEPT ![o.doc] = NoObject] ELSE sidecar
          /\ Become(o, [o EXCEPT !.keys = rest,
                                 !.pc = IF rest = {} THEN "invalidate" ELSE "deleting"])
    /\ UNCHANGED <<born, granted, fate>>

-----------------------------------------------------------------------------
(***************************************************************************)
(* PUT /documents/{document_id}/shares (require_admin_context): resolve the key, *)
(* check that every user is a member of the caller's organization, then    *)
(* read, modify and write the sidecar in a thread (_set_document_sharing). *)
(***************************************************************************)
ShareResolve(id, ctx, d, users) ==
    /\ FreeId(id) /\ ctx.admin
    /\ primary[d] # NoObject /\ primary[d].tenant = ctx.tenant
    /\ users \subseteq Members(ctx.tenant)
    /\ ops' = ops \cup {[id |-> id, kind |-> "share", ctx |-> ctx, doc |-> d,
                         users |-> users, pc |-> "read"]}
    /\ UNCHANGED s3Vars

\* Variant for fault injection: a missing sidecar is not an error.
ShareReadAnything(o) ==
    /\ o.pc = "read"
    /\ Become(o, [id |-> o.id, kind |-> "share", ctx |-> o.ctx, doc |-> o.doc,
                  users |-> o.users, body |-> sidecar[o.doc], pc |-> "write"])
    /\ UNCHANGED s3Vars

ShareRead(o) ==
    /\ o.pc = "read"
    /\ sidecar[o.doc] # NoObject
    /\ Become(o, [id |-> o.id, kind |-> "share", ctx |-> o.ctx, doc |-> o.doc,
                  users |-> o.users, body |-> sidecar[o.doc], pc |-> "write"])
    /\ UNCHANGED s3Vars

ShareWrite(o) ==
    /\ o.pc = "write"
    /\ sidecar' = [sidecar EXCEPT ![o.doc] = [o.body EXCEPT !.shared = o.users]]
    /\ granted' = [granted EXCEPT ![o.doc] =
                      @ \cup {c \in Contexts : c.tenant = o.ctx.tenant /\ c.user \in o.users}]
    /\ Become(o, [id |-> o.id, kind |-> "share", ctx |-> o.ctx, doc |-> o.doc,
                  users |-> o.users, pc |-> "invalidate"])
    /\ UNCHANGED <<primary, born, fate>>

-----------------------------------------------------------------------------
\* An S3 call of any handler fails: the response is a 502 and what was written
\* before it stays.  A share whose sidecar is missing always ends here.
OpFails(o) ==
    /\ o.pc \in {"put", "tag", "delete", "deleting", "read", "write"}
    /\ o.pc \in {"put", "delete"} => LoopFree
    /\ Finish(o)
    /\ UNCHANGED s3Vars

DocTypeOK ==
    /\ primary \in [Docs -> Primary \cup {NoObject}]
    /\ sidecar \in [Docs -> Sidecar \cup {NoObject}]
    /\ ops \subseteq Op
    /\ born \in [Docs -> Contexts \cup {NoObject}]
    /\ granted \in [Docs -> SUBSET Contexts]
    /\ fate \in [Docs -> {"none", "late", "settled"}]
=============================================================================
