----------------------------- MODULE UploadPage -----------------------------
(***************************************************************************)
(* The upload page (frontend/app/(protected)/upload/page.tsx with          *)
(* lib/documents.ts) over the session, and behind it the two requests it   *)
(* makes: POST /documents/upload, which does not go through apiFetch, and  *)
(* POST /documents/sync-kb, which does and polls a Bedrock ingestion job   *)
(* (services/bedrock_kb_service.py).                                       *)
(*                                                                         *)
(* One file is uploaded, by an administrator.  Jobs and how they end are   *)
(* Bedrock's: one runs at a time, and it reads the documents stored when   *)
(* it starts.                                                              *)
(*                                                                         *)
(* Bounds: one upload request at a time, MaxJobs jobs, and MaxPolls polls  *)
(* of a job before the deadline.                                           *)
(***************************************************************************)
EXTENDS Session

CONSTANTS MaxJobs, MaxPolls, None

ASSUME UploadAssumption == MaxJobs \in Nat /\ MaxPolls \in Nat /\ None \notin Calls

VARIABLES
    page,       \* [st, call]: `call` is the sync whose end the page awaits
    upload,     \* the request: [st, signed, heard]
    stored,     \* the file in S3: "no", "bare" without its sidecar, "whole"
    indexed,    \* a job has indexed the file with its sidecar
    jobs        \* [1..MaxJobs -> [st, covers, caller, seen, polls]]

pageVars == <<page, upload, stored, indexed, jobs>>
uploadVars == <<sessionVars, pageVars>>

Idle == [st |-> "idle", call |-> None]
NoUpload == [st |-> "idle", signed |-> FALSE, heard |-> TRUE]
NoJob == [st |-> "none", covers |-> FALSE, caller |-> None, seen |-> "none", polls |-> 0]

\* How Bedrock ends a job; "MISSED" is COMPLETE with this file among the
\* failed ones.
Finals == {"COMPLETE", "MISSED", "FAILED", "STOPPED"}

\* Variant for fault injection: a stopped job counts as done.
TerminalWithStopped(st) == st \in Finals

Terminal(st) == st \in {"COMPLETE", "MISSED", "FAILED"}

PageInit ==
    /\ page = Idle /\ upload = NoUpload
    /\ stored = "no" /\ indexed = FALSE
    /\ jobs = [i \in 1..MaxJobs |-> NoJob]

----------------------------------------------------------------------------

\* A job nobody asks about any more goes on.
Forgotten(job) == [job EXCEPT !.caller = None, !.seen = "none", !.polls = 0]

\* The page is not shown any more; its calls go on.
Unmounted ==
    /\ page' = Idle
    /\ upload' = [upload EXCEPT !.heard = FALSE]
    /\ UNCHANGED <<stored, indexed, jobs>>

Leave == page.st # "idle" /\ Unmounted /\ UNCHANGED sessionVars

\* Choosing a file, or retry after an error.
StartUpload ==
    /\ user # 0
    /\ page.st \in {"idle", "error"}
    /\ upload.st = "idle"
    /\ page' = [st |-> "uploading", call |-> None]
    /\ upload' = [st |-> "sent", signed |-> jar.id # 0, heard |-> TRUE]
    /\ UNCHANGED <<sessionVars, stored, indexed, jobs>>

\* upload_document: what is stored, and the answer.
StoreSteps(signed) ==
    {<<stored, "error">>}
    \cup (IF signed /\ stored = "no"
          THEN {<<"bare", "error">>, <<"whole", "ok">>} ELSE {})
    \cup (IF signed /\ stored # "no" THEN {<<stored, "duplicate">>} ELSE {})

ServeUpload ==
    /\ upload.st = "sent"
    /\ \E step \in StoreSteps(upload.signed) :
         /\ stored' = step[1]
         /\ upload' = [upload EXCEPT !.st = step[2]]
    /\ UNCHANGED <<sessionVars, page, indexed, jobs>>

Hears(st) == IF upload.heard THEN page' = [st |-> st, call |-> None] ELSE page' = page

UploadFails ==
    /\ upload.st = "error"
    /\ Hears("error")
    /\ upload' = NoUpload
    /\ UNCHANGED <<sessionVars, stored, indexed, jobs>>

\* The network fails, before the file is stored or after it.
UploadLost ==
    /\ upload.st \in {"sent", "ok", "duplicate"}
    /\ Hears("error")
    /\ upload' = NoUpload
    /\ UNCHANGED <<sessionVars, stored, indexed, jobs>>

UploadIsDuplicate ==
    /\ upload.st = "duplicate"
    /\ Hears("duplicate")
    /\ upload' = NoUpload
    /\ UNCHANGED <<sessionVars, stored, indexed, jobs>>

\* syncKnowledgeBase goes out, even when the page has gone.
UploadSucceeds(c) ==
    /\ upload.st = "ok"
    /\ Fetch(c)
    /\ page' = IF upload.heard THEN [st |-> "syncing", call |-> c] ELSE page
    /\ upload' = NoUpload
    /\ UNCHANGED <<stored, indexed, jobs>>

RetrySync(c) ==
    /\ page.st = "sync_failed"
    /\ Fetch(c)
    /\ page' = [st |-> "syncing", call |-> c]
    /\ UNCHANGED <<upload, stored, indexed, jobs>>

\* "Upload another".
Reset ==
    /\ page.st \in {"success", "duplicate"}
    /\ page' = Idle
    /\ UNCHANGED <<sessionVars, upload, stored, indexed, jobs>>

----------------------------------------------------------------------------

Running == {i \in 1..MaxJobs : jobs[i].st = "running"}
Serves(i, c) == jobs[i].caller = c
BeingServed(c) == \E i \in 1..MaxJobs : Serves(i, c)
Signed(c) == calls[c].st \in {"first", "again"} /\ calls[c].cookie # 0 /\ calls[c].kind = "api"

\* sync_knowledge_base: start_ingestion_job; the first status is not final.
StartJob(c) ==
    /\ Signed(c) /\ ~BeingServed(c)
    /\ Running = {}
    /\ \E i \in 1..MaxJobs :
         /\ jobs[i].st = "none"
         /\ \A k \in 1..(i - 1) : jobs[k].st # "none"
         /\ jobs' = [jobs EXCEPT ![i] = [NoJob EXCEPT !.st = "running", !.covers = stored = "whole",
                                                      !.caller = c]]
    /\ UNCHANGED <<sessionVars, page, upload, stored, indexed>>

JobEnds(i) ==
    /\ jobs[i].st = "running"
    /\ \E st \in Finals :
         /\ jobs' = [jobs EXCEPT ![i].st = st]
         /\ indexed' = (indexed \/ (st = "COMPLETE" /\ jobs[i].covers))
    /\ UNCHANGED <<sessionVars, page, upload, stored>>

\* Variant for fault injection: the deadline is not looked at.
NoDeadline(i) == FALSE

PastDeadline(i) == jobs[i].polls = MaxPolls

Poll(i) ==
    /\ jobs[i].caller # None
    /\ ~Terminal(jobs[i].seen) /\ ~PastDeadline(i)
    /\ jobs' = [jobs EXCEPT ![i].seen = jobs[i].st,
                            ![i].polls = IF @ < MaxPolls THEN @ + 1 ELSE @]
    /\ UNCHANGED <<sessionVars, page, upload, stored, indexed>>

\* The page hears the end of the sync it awaits.
SyncEnds(c, res) ==
    IF page.call = c
    THEN page' = [st |-> IF res = "ok" THEN "success" ELSE "sync_failed", call |-> None]
    ELSE page' = page

Served(c) == jobs' = [i \in 1..MaxJobs |-> IF Serves(i, c) THEN Forgotten(jobs[i]) ELSE jobs[i]]

\* 200 with a final status, whichever it is.
SyncReturns(c) ==
    /\ \E i \in 1..MaxJobs : Serves(i, c) /\ Terminal(jobs[i].seen)
    /\ Answered(c, "ok")
    /\ SyncEnds(c, "ok")
    /\ Served(c)
    /\ UNCHANGED <<upload, stored, indexed>>

SyncFails(c) ==
    /\ calls[c].kind = "api"
    /\ Answered(c, "error")
    /\ SyncEnds(c, "error")
    /\ Served(c)
    /\ UNCHANGED <<upload, stored, indexed>>

\* 502 at the deadline.
SyncTimesOut(c) ==
    /\ \E i \in 1..MaxJobs : Serves(i, c) /\ ~Terminal(jobs[i].seen) /\ PastDeadline(i)
    /\ SyncFails(c)

\* A job is running already, or Bedrock or the rate limit refuses.
SyncRefused(c) == Signed(c) /\ ~BeingServed(c) /\ SyncFails(c)

SyncUnauthorized(c) ==
    /\ calls[c].kind = "api" /\ ~BeingServed(c)
    /\ StillUnauthorized(c)
    /\ SyncEnds(c, "unauth")
    /\ UNCHANGED <<upload, stored, indexed, jobs>>

----------------------------------------------------------------------------

\* The steps of the session the page takes part in.
PageUnauthorized(c) == Unauthorized(c) /\ ~BeingServed(c) /\ UNCHANGED pageVars

PageRefreshed == Refreshed /\ UNCHANGED pageVars

PageNotRefreshed ==
    /\ NotRefreshed
    /\ page' = IF page.call \in Waiting THEN [st |-> "sync_failed", call |-> None] ELSE page
    /\ UNCHANGED <<upload, stored, indexed, jobs>>

LeaveBySession == (LogoutArrives \/ LogoutRejected) /\ Unmounted

\* An upload under way may still be served after the reload.
PageReload ==
    /\ Reload
    /\ page' = Idle /\ upload' = NoUpload
    /\ \E step \in IF upload.st = "sent" THEN StoreSteps(upload.signed) ELSE {<<stored, "none">>} :
         stored' = step[1]
    /\ jobs' = [i \in 1..MaxJobs |-> Forgotten(jobs[i])]
    /\ UNCHANGED indexed

MeEnds(c) ==
    /\ calls[c].kind = "me"
    /\ StillUnauthorized(c) \/ \E res \in {"ok", "error"} : Answered(c, res)
    /\ UNCHANGED pageVars

SessionSteps ==
    /\ Login \/ Expire \/ StartLogout \/ ServeLogout \/ LogoutLost
    /\ UNCHANGED pageVars

PageSteps ==
    Leave \/ StartUpload \/ ServeUpload \/ UploadFails \/ UploadLost \/ UploadIsDuplicate \/ Reset

RefreshSteps == (ServeRefresh /\ UNCHANGED pageVars) \/ PageRefreshed \/ PageNotRefreshed

CallEnds(c) == MeEnds(c) \/ SyncReturns(c) \/ SyncTimesOut(c) \/ SyncUnauthorized(c)

Next ==
    \/ SessionSteps \/ LeaveBySession \/ PageReload \/ RefreshSteps \/ PageSteps
    \/ \E c \in Calls : \/ UploadSucceeds(c) \/ RetrySync(c)
                        \/ StartJob(c) \/ SyncRefused(c) \/ CallEnds(c)
                        \/ SyncFails(c)    \* the network, or a poll, fails
                        \/ PageUnauthorized(c)
    \/ \E i \in 1..MaxJobs : JobEnds(i) \/ Poll(i)

Init == SessionInit /\ PageInit

Spec == Init /\ [][Next]_uploadVars

\* What becomes of a call that is not waiting for a refresh.
CallStep(c) ==
    \/ PageUnauthorized(c) \/ StartJob(c) \/ SyncRefused(c) \/ CallEnds(c)
    \/ \E i \in 1..MaxJobs : Serves(i, c) /\ Poll(i)

\* What becomes of the upload.
UploadStep == ServeUpload \/ UploadFails \/ UploadIsDuplicate \/ \E c \in Calls : UploadSucceeds(c)

\* Requests are answered, and a poll loop goes on.  Jobs need not end.
Fairness ==
    /\ WF_uploadVars(RefreshSteps)
    /\ WF_uploadVars(UploadStep)
    /\ \A c \in Calls : WF_uploadVars(CallStep(c))

FairSpec == Spec /\ Fairness

----------------------------------------------------------------------------

\* "Uploaded and indexed" is earned: after the file and its sidecar were
\* stored, an ingestion job began that has indexed them, or of which the page
\* was told that it had ended although it failed, for the file or as a whole.
SuccessIsEarned ==
    page.st = "success" => \E i \in 1..MaxJobs : jobs[i].covers /\ jobs[i].st \in {"COMPLETE", "MISSED", "FAILED"}

\* The page never stays at "uploading" or "indexing", and the session is
\* always restored or given up: refreshes, polls of jobs that never end or
\* that were stopped, and lost answers included.
PageComesToRest ==
    /\ page.st \in {"uploading", "syncing"} ~> page.st \notin {"uploading", "syncing"}
    /\ loading ~> ~loading
=============================================================================
