# A verified model of the RAG backend

TLA+ models of the FastAPI backend in `src/backend/app` and of the session and
upload page of its web client, the TLC instances that check them, and TLAPS proofs
of what matters most about them. The repository is
a multi-tenant question-answering service: admins of an organization upload
documents to S3, Amazon Bedrock crawls and indexes them, and members ask
questions that are answered from the documents they may read.

Paths below are relative to `src/`; `app/` is `backend/app/`, `web/` is
`frontend/app/`.

## 1. The system

One `uvicorn` process (`backend/Dockerfile` passes no `--workers`) serves all
tenants. Handlers are coroutines on one event loop. Blocking calls are either
run with `run_in_threadpool` / `asyncio.to_thread`, where other handlers move
meanwhile, or made directly in the coroutine, where nothing else on the loop
moves but threads and external services do. Both patterns are used, sometimes
in the same handler, and the interleavings of the models follow them.

State is kept in seven places: process memory (answer cache, watchdog cooldown,
document records), S3 (documents and their sidecars), the Bedrock index (fed by ingestion jobs
only), DynamoDB (conversations, messages, audit log), Redis (rate limits), Cognito
(users, groups) and the browser (cookies, page state).
No transaction spans two of them, and most operations write to two.

| component | state | operations | who else touches it |
|---|---|---|---|
| semantic answer cache `app/services/cache_service.py` | `_cache`: scope -> list of entries | `lookup`, `store`, `invalidate_tenant` | chat reads and fills it, document handlers empty it |
| documents `app/api/documents.py` | S3 objects and `.metadata.json` sidecars | upload, delete, share, list | Bedrock crawls both objects |
| knowledge base `app/services/bedrock_kb_service.py` | Bedrock's index and jobs | start a sync, retrieve with a filter | fed from S3, read by chat |
| chat `app/api/chat.py` | none of its own | the pipeline: guardrail, history, rewrite, lookup, retrieve, answer, guardrail, store | everything |
| conversations `app/services/conversation_store.py`, `query_service.py` | two DynamoDB tables | create, append, touch, summarize, delete | chat writes, the sidebar reads and deletes |
| rate limiter `app/services/rate_limit_service.py` | Redis counters with expiry | one Lua script per request | all tenant endpoints and the auth endpoints |
| organizations and members `app/services/auth_service.py`, `invite_service.py` | Cognito users and groups, ID tokens in cookies | sign up, join, log in, refresh, suspend, promote, demote | the request context (tenant, user, admin) of every call |
| watchdog and audit `error_watchdog_service.py`, `audit_service.py` | cooldown table, audit table | investigate an error, log an event | started by chat, shown to admins |
| admin co-pilot `copilot_service.py` | none | a tool loop of at most five rounds | retries queries, notifies admins |
| OpenSearch ingestion `ingestion_service.py`, `chunking_service.py`, `retrieval_service.py` | OpenSearch index, document status | ingest, hybrid retrieval | an alternative to Bedrock |
| guardrails, routing, orchestration | none | classify a text | chat |
| statistics and feedback `admin_service.py`, `feedback_service.py` | none (LangSmith) | aggregate runs, rate a run | chat adds runs, admins read |
| evaluation `eval_service.py` | none (LangSmith) | show the last experiment | admins |
| channel webhooks `app/api/channels.py` | none | verify, map to a tenant, ask | external |
| web client `web/` | cookies, component state, one refresh in flight | ask, upload, sync, share, log in and out | the API |

### What is hard about it, and what has to hold

* **Cache against documents.** An answer is stored long after its sources were
  read. In between documents are deleted, reshared and crawled, and the tenant's
  cache is emptied. Correct means: no context is ever shown a document it was
  not meant to read, and what it may no longer read it eventually stops seeing.
* **Two objects per document, two copies of its permissions.** A handler writes
  primary and sidecar in turn and may fail in between; shares read, modify and
  write the sidecar; the index holds the metadata of the last crawl. Correct
  means: permissions never mix between documents or tenants, whatever races.
* **Overlapping requests of a conversation.** History and summary are read apart
  and written apart, and a message takes its sort key before it is put. Correct
  means: nothing of the history is lost to the model but what lands out of order,
  and a conversation belongs to its creator also when deletes race with answers.
* **A shared limiter that may fail.** Correct means: a real bound over any window,
  a `Retry-After` that is true, and a bucket that opens again.
* **Roles in tokens.** Groups are read from an ID token that outlives a demotion;
  sign-up makes five calls and may stop after any. Correct means: no token gives
  more than its organization's roles for longer than its life.
* **Investigations.** A watchdog that starts once per cooldown, retries within a bound
  and leaves one audit entry that is true.
* **An agent with side effects.** The co-pilot runs what a model asks for: retries of
  queries, mails. Correct means: it stops, it stays in its organization, and what it
  did is in its answer and in the audit log, whatever fails on the way.
* **Five panels over one log of runs.** They cut the runs by days, weeks, latency and
  user. Correct means: no panel drops, doubles or misplaces a run.
* **A loop that steps back.** Chunking returns by the overlap after each chunk. Correct
  means: it ends, no sentence is lost, no chunk is too heavy.
* **A status others overwrite.** An ingestion saves a record it read minutes ago, and another
  ingestion of the same document may do so beside it.
* **One refresh for many calls.** The client shares a refresh among all calls that got
  a 401, and may log out meanwhile. Correct means: no call waits for a refresh that is
  over, requests act for the user on the screen, and a logout is not undone.
* **A page that waits for jobs.** Correct means: it never waits for ever, and what it calls
  a success followed from a job.

`PROJECT.json` lists each hazard at its line.

## 2. The models

```
SemanticCache ── DocumentStore ── RagSystem ── MCRagSystem,  RagSystemProofs
      └── MCSemanticCache
Conversations ── MCConversations,  ConversationsProofs
RateLimiter ──── MCRateLimiter,  RateLimiterProofs
Outcomes ─ implemented by ─ Watchdog ── MCWatchdog,  WatchdogProofs
Accounts ─────── MCAccounts,  AccountsProofs
Chunking ─ Ingestion ── MCIngestion,  IngestionProofs
Dashboard ─ Copilot ─── MCCopilot,  CopilotProofs
Session ── MCSession
   └────── UploadPage ── MCUploadPage,  WebClientProofs
```

**SemanticCache** (`cache_service.py`). `cache` maps a scope to its list of
entries. `LookupHit`, `LookupMiss` (both write the pruned list back), `Store`
(append, then evict the oldest), `InvalidateTenant`. A question stands for a class of
embeddings whose similarity reaches the threshold; the code's `max()` returns the
first of equals, so a hit returns the oldest live match. `time.monotonic()` is
an age per entry that saturates at the TTL.

**DocumentStore** (`api/documents.py`). `primary` and `sidecar` are the two S3
objects; a handler in flight is a record in `ops` whose `pc` names its next
step. Between two steps lies an `await` or a thread. `boto3` calls made directly
in a coroutine block the loop; `LoopFree` is false during them and guards every
step that needs the loop. Every S3 call may fail (`OpFails`) and leaves what was
written. `born`, `granted` and `fate` are history variables: who uploaded a
document, which contexts some handler ever meant to let read it, and how its
delete ended.

**RagSystem** composes the two with the knowledge base and the chat pipeline
(`_run_rag_pipeline`). `index` holds the metadata on a document's chunks, `pending`
what the running job has still to crawl, and `reqs` the chat requests. A job
crawls document by document, may be aborted, and reads whatever S3 holds at that
moment. `StoreAnswer` comes after the answer was sent, because the generator is
resumed after its `yield`. `Restart` empties the process memory and drops every
handler.

**Conversations** (`conversation_store.py`, `query_service.py`, the handler
`chat_query`). `items` is the conversations table, keyed by user and
conversation; `messages` the messages table, keyed by conversation only. A
request in flight is a record in `asks`. `append_message` is two steps: `SortKey` takes
the time, `PutItem` lands later, so that messages of overlapping requests land in any order;
`late` remembers those that landed after one with a younger key. A query of the messages
returns the oldest `PageSize` of them (`Page`), since no caller follows
`LastEvaluatedKey`. `update_item` creates a row that does
not exist (`Upsert`). The delete endpoint calls `boto3` in the coroutine, so it is one
step, or a failing step that leaves some messages; both see one page. A summary is the set of
messages folded into it.

**RateLimiter** (`rate_limit_service.py`, `core/dependencies.py`,
`middleware/rate_limit.py`). `count` and `ttl` are the Redis keys. The Lua script is atomic over all
buckets of a call. `BackendError` is a call whose script ran or did not run; the
answer is 503 either way. `RedisRestart` loses all keys. `wait`, `closed` and
`admitted` are history.

**Watchdog** (`error_watchdog_service.py`, the background task of `chat_query`,
`audit_service.py`). An investigation is a record in `jobs` whose `pc` names what it
does next; between two steps it sleeps or awaits. The cooldown is checked and begun
with no `await` between, so `Start` and `Skip` are single steps; `since` is the age
of a tenant's last start. `Retry` is one run of the pipeline as the user whose
question failed (what happens in it is `RagSystem`'s request). `Raise` is an
exception that nothing on the way catches. `LogEventFails` is `log_event`
swallowing an error of DynamoDB. A mail of `Notify` is refused, or taken, and if it is
taken its answer may be lost: `email_service.py:82` catches a read timeout or a lost
connection like a refusal. `tries`, `mailed`, `unseen`, `starts` and `excuse` are history:
what really was tried, whose mail SES took, for whom of them the answer was lost, and whether
something may have cost the run its event. The
handler refuses questions while no knowledge base is configured (`chat.py:387`), so
the early return at line 102 is never taken and is not modelled.

The dashboard's figures about the watchdog are read off the log (`WatchdogStats`).

**Outcomes** is the abstract promise: a failure is reported, and settled once as
fixed, escalated, skipped or lost. `Watchdog` implements it with the verdict read
off the audit log (`Verdicts`).

**Accounts** (`auth_service.py`, `invite_service.py`, `core/dependencies.py`,
`api/auth.py`, `api/admin.py`). `status`, `enabled`, `groups`, `members` and `admins` are what
Cognito holds. A sign-up or join is the record `signing`, one Cognito call a step
(`CreateUser`, `CreateOrg`, `AddMember`, `MakeFounderAdmin`), and fails after any
(`SigningFails`). `Begin` is the check of the caller's token, of the member list and of the
block on acting on oneself; `Change` the Cognito call, `LogEvent` the audit entry; they
lie in separate thread-pool calls, so two of these requests overlap. `IssueToken` is a login or a refresh:
the token's claims are those of Cognito then, and `Tick` ages it. `lost` (how long ago a
user was last an active admin) and `told` (what the log last said of a right) are
history.

**Chunking** (`_group_sentences_into_chunks`). A text is a sequence of sentences, each with the
tokens up to its end and its section. `TakeSentence` and `Break` are the inner loop,
`EmitChunk` the chunk and the target of the overlap, `StepBack` the backward loop,
`NextStart` the `max` at its end. `Texts` is a parameter: which sentences spaCy finds is
not modelled.

**Ingestion** (`ingestion_service.py`, `document_store.py`, both endpoints of
`api/documents.py` that touch the record). One document: `object` (S3), `record` (process memory),
`job` (the step of each thread that ingests it: nothing keeps two requests from ingesting it at
once) and `index`. A thread reads the record (`FindRecord`) and saves its copy twice,
with what it does (`SaveIngesting`) and how it went. Chunking runs as its own steps inside; every
ingestion of the file cuts the same chunks, so the first one's turns stand for all. A bulk
call may index some chunks, report others (`rejected`), or raise after some. `told` keeps
what was reported to the ingestion that said "ingested", and `overtaken` that a delete ran beside one.

**Dashboard** (`admin_service.py`). Each panel is one operator with the same selection, page cap and
arithmetic as the function. The rows LangSmith lists are a set of run ids, newest first being the
highest id first: `First` is what a cut list shows, `Total` the sum the code
accumulates, counted, and `Nth` the n-th of the sorted values, so that no operator folds over
a list. Percentiles are `statistics.quantiles` with its extrapolation.

**Copilot** (`copilot_service.py`, the retry endpoint, `feedback_service.py`). A talk is a record with
the tool calls of the current round, the rounds left and the actions so far. `ReadTool`,
`RetryRefused`, `RetryBegins`, `Pipeline`, `Notify` and `Log` are the tools' awaits; an exception
nothing catches is `PipelineRaises` or `TalkFails`. A retry adds a run to the
`runs` that the panels of `Dashboard` show, so they are checked in every state. `effects`
and `unlogged` are history.

**Session** (`web/lib/auth.ts`, `web/context/AuthProvider.tsx`, the cookie code of `api/auth.py`).
`jar` holds the two cookies, `live` the refresh tokens Cognito accepts, `calls` the requests in
flight (`first`, `wait` for the shared refresh, `again`), `refresh` and `logout` the two
special requests between their sending, their serving and their arrival. `Login` is served, brings
its cookies with the head of its answer and the user with the body, or is lost at either place.
`crossSite` says how the application is deployed: across sites the cookies are
`SameSite=None; Secure`, `delete_cookie` names neither, and a browser ignores such a deletion
(`Deleted`). `left` and `late` are history: the logouts answered, each with whether it was clean and
the expiries of the ID cookie before it, and whether an answer to a refresh
arrived after its session was left.

**UploadPage** (`web/(protected)/upload/page.tsx`, `web/lib/documents.ts`, `sync_knowledge_base`) runs over
`Session`: the upload itself goes by `XMLHttpRequest`, without a refresh; each sync goes by
`apiFetch`, with one. `jobs` are Bedrock's, each with the call that polls it and the polls it
has made. A page that was left goes on in the background, as its promises do.

## 3. The runs

| run | module | bounds | what it shows |
|---|---|---|---|
| `answer_cache` | `MCSemanticCache` | 2 scopes of a tenant, 2 questions, TTL 2, cap 2 | the cap holds, lists stay sorted by age, and no live answer is lost without need |
| `rag_isolation` | `MCRagSystem` | 2 organizations (admin and member; admin), 2 handlers, 1 request, 1 document, TTL 1, cap 1 | `SourcesWereGranted`: requests and cached answers cite only documents their context was once meant to read |
| `rag_forgetting` | `MCRagSystem` | 1 organization, 1 handler, 1 request, TTL 2, cap 2 | a settled delete is final; what a context may no longer retrieve it eventually stops citing |
| `conv_history` | `MCConversations` | 2 users, 1 conversation, 2 requests in flight, 4 questions, verbatim window of 1 turn, 5 messages to a page | only the owner reads and writes; the summary covers what it counts and what the verbatim window does not, but for late messages, unless a summarization or a delete failed (or, for the window, the conversation was deleted meanwhile or is longer than a page) |
| `conv_deleted` | `MCConversations` | 1 user, 3 questions | finding: a request in flight during a delete leaves messages and an untitled row |
| `rate_limit` | `MCRateLimiter` | 2 users of a tenant, window 3 ticks, 2 ticks a second, limits 2 and 1, counters saturate at 4 | at most twice the limit over any window, `Retry-After` is enough, buckets open again |
| `watchdog` | `MCWatchdog` | 1 tenant, 3 failures, 2 admins, 2 retries, cooldown of 2 ticks | the audit log implements `Outcomes`, liveness included; its events and figures are true; the cooldown is exact |
| `accounts` | `MCAccounts` | 2 users, 2 organizations, tokens and links live 1 tick, 2 role changes in flight | one organization per account; rights move inside an organization only; powers end with their token; the last admin goes only by a stale one; the log tells the rights |
| `ingestion` | `MCIngestion` | 2 threads, every text of up to 4 sentences of 1 or 5 tokens and up to 11 tokens in one or two sections, target 4, overlap 1/4 | chunks cover the text and fit; the loop and each ingestion end; the status is true |
| `copilot` | `MCCopilot` | 1 admin, 2 rounds of up to 2 tools, 7 histories of up to 3 runs plus 1 new one, page cap 3, 2 weeks, buckets at 2 and 5 s | effects are told and logged; talks end; retries stay at home; the panels agree with the runs |
| `web_session` | `MCSession` | both deployments, 2 calls, 2 logins, 2 expiries, 1 reload, the logins of two people | shared refreshes serve everybody; a clean logout is final (across sites: once the ID cookie expires); requests act for the user shown |
| `web_upload` | `MCUploadPage` | across sites, 1 call, 1 login, 1 expiry, 1 reload, 2 jobs, deadline after 1 poll | a success follows a job; the page comes to rest |

Why the bounds are enough. One document: handlers of different documents share
nothing but the cache of their tenant, and documents of two tenants are covered
by the choice of uploader. A document id is a fresh `uuid4`, so it is used once.
Two handlers give every race of two writers on one sidecar. One request is
enough for isolation, since requests interact through the cache only, and an
answer one left there is found by the next. TTL 1 distinguishes live from
expired; TTL 2, with a cap of 2, lets entries of different age live together,
which the age order and the mutant of a renewed hit need. In `conv_history`, four
questions with a window of one turn make the summary be folded, saved and folded
again, with two overlapping requests. In `rate_limit` the window (3 ticks) is not
a multiple of a second (2 ticks), so rounding up matters; counters saturate above
every limit, where nothing tells them apart. In `watchdog`, three failures can meet in
one cooldown as the one that starts it, one that is skipped during it and one that
comes after it; two retries have a first, a last and a failure between; tenants
share nothing there, so one is enough. In `accounts` two users suffice for two admins who
remove each other, an admin and a member, and members of two organizations; a token of
one tick is fresh, then stale, then dead; calls overlap in pairs. In `ingestion` the weights put
a sentence below half the target, at it, and above the whole, and four of them, one of them heavy,
give three chunks with overlaps between; two threads are what overlapping ingestions need, since one
that saves the record does not look at what the others do. In `copilot` the page cap is reached by the
histories and passed by the retry, and the histories hold a gap in two spellings, a cache
hit, a guardrail's answer, a failure, a run of another tenant, one that starts after the clock
was read, and ages and latencies on every edge. In `web_session` two calls are what
sharing needs, and two logins what mixing two users needs. In `web_upload` one call is enough: the page syncs once
per stored file and again only after that call failed, and `me` runs before it is shown. It is deployed across
sites, where a page keeps its cookies after a logout and can do more with them; the proofs
cover both deployments. Two jobs give the
conflict of a retried sync with the first one; one poll separates a job that ends before the
deadline from one that does not.

Deadlock is checked in every run but these: in the `conv_` runs `MaxTurns` bounds the questions
ever asked, in `web_session` and `web_upload` logins, expiries and jobs are bounded,
and in `accounts` all sign-ups may have failed for good (an address and a slug are used
once). There the system really may stop.

### Fairness

`rag_forgetting` uses `FairSpec`: weak fairness of each request's next step (or
failure), each handler's next step (or failure), and the clock. The code justifies
it by the timeouts of its clients; `EndRequest` and `OpFails` model them. Nothing
makes a user ask, upload, delete or sync. `rate_limit` assumes that Redis' clock
runs, and nothing about the callers, who may hammer a bucket for ever. `watchdog` assumes
that an investigation takes its next step or raises: `asyncio.sleep` ends, and the
clients of the model, Cognito, SES and DynamoDB have timeouts. `ingestion` assumes that
each thread takes its next step; a restart ends it too. `copilot` assumes that each await of a talk
returns or raises. `web_upload` assumes that requests are answered or fail and that the poll loop
goes on (`time.sleep` ends); it does not assume that a job ever ends, since only the
deadline bounds the wait for one, nor anything of the user. `accounts` and
`web_session` assume nothing: their properties are safety.

## 4. What is proved

For every value of the constants that satisfies the modules' assumptions. These say that
bounds are numbers of the right sign and that data are well formed; three say more: the
watchdog has finitely many admins to mail, in `Copilot` the runs LangSmith returns have the fields
the code selects (`Run`), and the page asks for at least one week and for no negative
number of gaps (`PanelAssumption`).

* `RagSystemProofs`, for any contexts, documents, questions, handlers, requests, TTL and cap:
  * `CapHolds`, `LiveAnswersAreKept`: the cache on its own (`CacheSpec`) keeps its cap and
    loses no live answer without need. The lemmas before them say what each of the four
    cache operations keeps (`CacheOK`: type, cap, age order) and which answers it adds.
  * `TypeCorrect`, `CacheWellFormed`: type, cap and age order in the composed system.
  * `Isolation`: `Spec => []SourcesWereGranted`, tenant isolation and per-document sharing.
  * `SettledDeletes`: `Spec => []SettledDeleteIsFinal`.
  * `CacheIsEncapsulated`: the composed system implements the cache on its own, a restart
    apart; `LiveAnswersAreKeptInTheSystem` carries `LiveAnswersStay` over to it.
* `ConversationsProofs`
  * `ConversationsTyped`, `MessagesStayWithTheOwner` (`OnlyTheOwner`), `ThroughCountsTheFolded`
    (`FoldedUnlessLossy`), `HistoryIsPreserved` (`NothingDropped`): every property of
    `conv_history`, for any users, conversations, window, page and overlap of requests.
* `RateLimiterProofs`
  * `RetryAfterIsTrue`: `Spec => []RetryAfterSuffices`.
  * `TwiceTheLimitAtMost`: `Spec => []AtMostTwiceTheLimit`.
* `WatchdogProofs`
  * `TypeCorrect`: `Spec => []TypeOK`, and with it the cap on retries.
  * `AuditIsTrue`: `Spec => []EventsAreTrue`.
  * `TheDashboardCountsRight`: `Spec => []StatsAreTrue`.
  * `CooldownDecides`: `Spec => CooldownIsExact`, an action property.
  * `OneOutcome`: `Spec => Promise!Safety`, the refinement of `Outcomes` without
    its fairness.
  * `InvestigationsAreBounded`: an investigation takes at most its retries, one mail for each admin and
    four more steps.
* `AccountsProofs`
  * `OneOrganizationEach`, `TenantsStayApart`, `PowersEnd`, `LastAdminStays`, `AuditIsTrue`:
    every property of the run `accounts`, for any users, organizations and lives.
* `IngestionProofs`
  * `EveryTextIsCovered`, `EveryTextIsWellCut`: chunking, for every text, target and ratio.
  * `TypeCorrect`, `NoneIsStuckIngesting`, `IngestedMeansIndexed`,
    `DeletedStaysWithoutRecord`: the document's status.
  * `IngestionIsBounded`, `NoMoreChunksThanSentences`: chunking and ingestion take a bounded
    number of steps, and a text yields no more chunks than it has sentences.
* `CopilotProofs`, for any admins, histories, answers of the model and caps:
  * `CopilotIsTyped`, `TheLogTellsEffects` (`AuditTellsEffects`), `TheAnswerTellsEffects`
    (`AnswerTellsEffects`), and the action property `RetriesKeepToTheirTenant` (`RetriesStayHome`).
  * `PercentilesGrow`, `ThePanelsTellTheRuns` (`PanelsTellTheRuns`), `TheGapsAreGaps` (`GapsAreGaps`):
    the five panels, for any runs, edges, page caps, days and weeks.
  * `TalksAreBounded`: a talk comes to at most `MaxIterations` answers that call tools.
* `WebClientProofs`
  * `RefreshesServe`, `LogoutsAreFinal`, `TheUserShownActs`: every property of `web_session`.
  * `PageUsesTheSession`: `Spec => SessionSpec`, the page implements the session, so
    the three theorems above hold under it.
  * `SuccessFollowsItsJob`: `Spec => []SuccessIsEarned`.
  * `CallsAreBounded`: a call through `apiFetch`, its wait for a refresh, its second sending and the
    polls of its job included, takes at most `MaxPolls + 4` steps.

**Isolation** is not inductive: it speaks of requests and cache while the hazard
starts in S3. The invariant `Safe` adds the chain that permissions travel along. What
an operation in flight is about to write was meant by someone (`OpSafe`: a share
writes back the body it read, with users of its own tenant); what a sidecar
lets through was granted (`DocSafe`); what the index lets through was granted,
since a crawl copies a sidecar; what a request or an entry cites was granted.
`granted` only grows, so races and restarts cannot break a link once it holds.
The step that needs care is the share: it joins a body read earlier
with a list of users resolved before that, and still writes only what the
document's own uploader and an admin of the same tenant meant.

**SettledDeletes.** That no citation comes back rests on the object not coming back. `Gone` adds to
"cited by nobody" that the id is taken (`uuid4` repeats none), and that neither S3 nor the index holds
the document: a crawl indexes only what it finds as a primary, and a late share may rewrite a sidecar
but never a primary. `DeletesEmpty` says of a delete in flight that it saw the primary
gone before it invalidates. The theorem then needs `TypeOK`, the lemmas on the cache
(no operation adds sources but `Store` those of its request) and `DeletesEmpty`.

**LiveAnswersAreKept** maps each live place of a list one to one to a live place after the
step: a prune keeps the order, an append keeps the places, and the cap evicts only
from the front, which `OldestFirst` makes the oldest.

**Conversations.** The run's properties speak of rows and of finished folds, the hazard lies in
requests that read long ago. `Covers` says of a pair of summary and boundary that some
history G that was once read is its witness: the boundary is that of G, and what is older in G is in
the summary, but for the late. `Segment` says what G is worth now: whatever was put since came
behind it or is late. `Ordered` relates G to every history a request still holds: either
what of G lies in front of a message of that history is in it too, or that history was read
before and is no longer than G. Both outlast a put, and a history read now stands in order to
all before it. A fold makes the request's own history the witness of the new pair: had its
history been read before G, its boundary would not exceed G's and it would not fold. A put is in front of
others only if it is late, because its key is nobody else's (`KeysAreUnique`). That a page
holds as much as fits rests on the least element of a set of keys (`Pages`, `LeastNumber`). The invariant is claimed of
conversations that are whole (no failed summarization, no delete). `RowsAreOwned` and
`DeletedForGood` carry `OnlyTheOwner` through an upsert that re-creates a deleted row.

**Co-pilot.** `Tells(told, s, places)`: one sequence tells what another holds at some places, in
order. The invariant splits each admin's effects at the one still to be logged or summarized: the audit log
tells all but the unlogged places (`AuditTells`), the actions tell all effects but the one whose tool has
not returned (`ActionsTell`). The lemmas say what an `Append` to either side does. `RetryIsAllowed`
says that a run checked before the pipeline began is still of the tenant when its answer comes,
since runs are only added.

**RetryAfterIsTrue** rests on two facts: a key that exists has a ttl that counts
down (`KeysExpire`), and a caller's remaining wait is never shorter than the ttl of
a bucket that denied it (`ResetInTime`). Rounding up to a second and the choice
of the longest ttl are what keeps the second one.

**TwiceTheLimitAtMost.** `Spread` splits the requests admitted during the last window by the age of the
bucket's key: those `Fresh` (since the key was made) are at most as many as the counter
and as the limit, those `Stale` (before it) at most the limit, because they all fell into one
older window. When the key expires, the stale ones have left the window and the fresh ones become
stale. A restart of Redis loses the keys, and with them the history the property counts
(`admitted` starts anew).

The watchdog's theorems share one invariant. `JobsOK` says what an investigation
knows of its run at each `pc`: nothing is logged yet, the retries made are as many
as it counted and failed but for the last, those it notes as notified are the ones mailed but for
those whose answer was lost, and nobody still on its list is among either; and
no two investigations have the same run. `RunsOK` says what one leaves behind:
one true event, or none and an excuse. `StartsOK` ties the table of last starts to
the history of all of them: one start younger than the cooldown, or none. For
`OneOutcome` each step of an investigation is a stutter or a `Settle`, and a
restart is `LoseAll`. `TheDashboardCountsRight` adds `Counts`: only finitely many queries have failed so
far, and an event and an excuse exclude each other. Then the events of a
tenant are one to one with its ended investigations, and the figures with the sets they claim to count.

**Accounts.** `PowersFade` is about who did something, and the state only has a token. The
invariant ties the two by time: the age of an admin token bounds how long its bearer can have been
out of office (`lost`), so does the age of an invite link together with the token that
made it, and a call in flight had such a token when it began. Ticks age all three
at once, which keeps the bounds. `TenantsStayApart` needs that a call's target was a
member of the caller's organization when it began and that nobody ever changes
organization, which is `OneOrgEach`.

**Chunking.** The invariant relates the loop's four numbers to the text: the open chunk
`start..pos` obeys the same two rules as a finished one, and while stepping back what
was given up weighs less than the overlap asked for. The sum of a run of sentences is a
difference of two prefix sums, so no induction is needed. `NothingLost` then follows
from `NextStart`, which lies after the last start and no further than one past
the last end.

**The status of a document.** Two ingestions overlap, so what holds of the record must hold whoever
saves it last. `Staged` says that the chunks are final once a thread is past the chunking, so that
no other thread changes what "all chunks" means; `SaveIsTrue` that a thread about to say
"ingested" has in the index what its bulk call did not report. Nothing leaves the index, so
both outlast the steps of the others. A record "ingesting" was saved by a thread that will save
it again, and a copy held during a delete makes the delete overtaking.

**Session and upload page.** Every reason to send, to wait or to log out is a cookie that
belonged to a session: the invariants state for each request in flight whose cookie it carries,
and that a session that was cleanly left has no live token and no granted refresh
under way, is in no cookie on one site, and across sites in the ID cookie only while none expired
since. A login under way adds that Cognito accepts its session, and that nobody
is shown and no logout runs meanwhile. For the page, a sync awaited by it was sent after the file was stored whole, and
the job that serves it began later still.

**Panels and gaps.** Nothing in the panels depends on the order of evaluation, so each
sum is a cardinality, and the inductions over numbers go by a least counterexample
(`LeastNumber`). `TotalOfParts` says that a sum over a set is the sum over its parts when every element lies in
exactly one of them: users, buckets and weeks are such parts. A bucket is right since
the edges at most `v` are the first so many of the increasing edges (`BucketHolds`).
`PercentilesGrow` needs that a cut lies between the two sorted values it interpolates,
or beyond the last ones by the same line, and that `Nth` grows; the cases of no, one, two and
more latencies are apart, as in the code. The gaps are listed in full up to the limit because
their ranks are pairwise different (`Ranks` ends with the ids of the runs) and below their
number, so every rank below the limit is taken (`FirstOfRanking`).

**Measures.** A property that something ends needs a number that every step lowers,
and fairness that lets the steps be taken. The numbers are proved. For an
ingestion, the work left is at most 6 steps and what the text leaves to cut: each finished chunk
starts later than the last, and within a chunk each step reads or gives back a sentence
(`CutLeft`). Steps of other ingestions of the document add none. For an investigation, the retries and mails left. For a talk, in this order, the rounds, the calls
left of the last answer, and the stage of the call (`RunsDown`). For a call of the
web client, its sending, its one second sending and the polls left, where a reload starts anew
(`CallWork`). That a step is enabled until the number is 0, and is taken, stays with TLC.

Only model-checked is liveness: `EventuallyForgotten`, `BucketsReopen`, `IngestionEnds`, `TalksEnd`,
`PageComesToRest`, and the fairness of `OneOutcomeEach`. The prover has no rule for fairness and none
for `ENABLED`. Every other property of the passing runs is proved.

Type invariants: those of `RagSystem` and `Watchdog` are checked and proved; those of
the other components are proved, as part of the invariants above.

Two excuses of `NothingDropped` are beyond the bound of its run and came from the proof: with a fifth
question, a delete under two requests in flight lets one write back a summary that counts messages
the other no longer reads, and two full pages, of which one holds a late message, share a
boundary but not what lies below it. The late message itself, below a boundary saved, needs a fifth question for
`NothingDropped` and is met by `FoldedUnlessLossy` in four.

## 5. What disagrees with the repository's own words

One run ends in a counterexample, and `PROJECT.json` quotes its lines:

* `conv_deleted`: an answer that arrives after a delete leaves orphans, and a row without
  a title on which the sidebar's listing fails.

The properties of the passing runs name, as explicit excuses, further places where
the code does not do what a comment says. Each excuse is needed: without it the run fails, or
fails with one question more (`NothingDropped`).

* `SettledDeleteIsFinal` speaks only of deletes whose document had left index and requests.
  The comment on `invalidate_tenant` (`cache_service.py:113-117`) promises that no stale
  answer shadows a removed document; an answer whose retrieval preceded the delete is stored
  after it, and a sync that drops the document empties no cache. The TTL bounds
  the harm (`EventuallyForgotten`).
* `NothingDropped` excuses conversations that were deleted under a request in flight: a summary
  written back then counts messages of the deleted history (`chat.py:406-410` says that nothing is dropped).
* `FoldedUnlessLossy` excuses a failed summarization: `summarized_through` then counts
  turns no summary holds (`conversation_store.py:147-150`).
* Both excuse a message that landed late. `append_message` takes the sort key
  (`conversation_store.py:132`) before the put (`:140`), in a thread and with retries; when an
  older key lands after younger messages were folded, it lies below the boundary
  saved and in no summary, and the message it pushed past the boundary is folded twice. No request
  failed, and the turn is dropped all the same.
* `NothingDropped` says nothing of a conversation longer than a page: `get_conversation`
  reads one page, oldest first (`conversation_store.py:102-106`), so past 1 MB of messages the
  newest turns reach neither the rewriter nor the summary. The delete reads one page too
  (`:185-190`), and the messages past it stay as the orphans that the comment below it wants to
  avoid; `conv_deleted` shows the other way to an orphan.
* `EventsAreTrue` and `StatsAreTrue` count a mail that SES took only if its answer arrived
  (`unseen`): the handler takes a read timeout for a refusal (`email_service.py:82`,
  `error_watchdog_service.py:144-152`). The event then says "no admin (send failed)" of an admin
  who has the mail, and `emails_sent_count` is less than "how many admins it actually reached by
  email" (`admin_service.py:420-421`). What is checked and proved is that nobody is counted
  who was not mailed, and that nobody else is left out.
* `EventsAreTrue` excuses an investigation that raises: no event tells of it, though
  `error_watchdog_service.py:4-5` logs "every outcome" and `admin_service.py:420-421` counts
  on it. The cooldown has begun by then and skips the next failures.
* `LastAdminByStaleToken`: blocking self-demotion does not keep an organization from losing its
  last admin. Two admins can demote each other with tokens issued before, and no
  endpoint repairs that.
* A sign-up that fails after `create_group` cannot be repeated with its slug, although
  `auth_service.py:102-106` calls a failed sign-up recoverable.
* `DeletedHasNoRecord` excuses a delete that overtakes an ingestion: the thread saves its
  copy of the record again, and its chunks stay in the index.
* Two ingestions of a document overwrite each other's status: a failure is saved over a success,
  or "ingested" while the other still works. `IngestedIsIndexed` holds all the same.
* `CleanLogoutIsFinal` lets the cookies outlive a logout across sites, the deployment that
  `api/auth.py:27-34` describes: `_clear_session_cookies` (`:69-71`) deletes them without
  `SameSite=None; Secure`, and a browser ignores that. The page shows nobody logged in, but loaded
  anew it restores the session with the ID cookie, for up to an hour, though "cookies are cleared
  regardless so the client is logged out either way" (`:180`). Cognito's sign-out is what ends
  it: no refresh renews that cookie, which is checked and proved.
* `ActsAsShown` and `CleanLogoutIsFinal` excuse an answer to a refresh that was served before
  the logout and arrives after it: the ID cookie is back for up to an hour, on one site too. A logout whose request failed at the server is shown as done.
  `_clear_session_cookies` in the `except` branch of `/auth/refresh` has no effect, since
  the `HTTPException` replaces the response that carries the deletions.
* `SuccessIsEarned` cannot say more than it does: the page shows "Uploaded and indexed" also
  when the job's status is FAILED or the file is among those a COMPLETE job could not
  index. A file whose sidecar is missing is shown as already in the knowledge base. A STOPPED
  job is polled to the deadline.
* `TrendShowsAll` excuses a run that starts after the panel read its clock: its week has
  index -1 and is not shown. The bucket for more than 5 s holds exactly 5 s too.
* The overlap may yield a chunk that lies within its predecessor (sentences of 2, 2 and 5
  tokens, target 4), which `test_chunking.py` describes as moving the window forward; and
  text repeated from before a heading is filed under the previous one.
* The co-pilot lists refused retries under the actions it took; a guardrail's answer counts as
  "now succeeds"; and an exception after a tool's effect ends the talk without an answer,
  so that only the audit log tells of it.

## 6. Abstractions

* Time is ages and remaining ticks. Cache and watchdog use `time.monotonic`; Redis
  expires keys by its own clock, which is assumed not to jump.
* The similarity of embeddings is taken to be an equivalence. Where it is not, a
  lookup may return another entry of the same scope, which the isolation property
  does not depend on.
* The admin's retry button (`api/admin.py`) runs the pipeline once for the original
  user; for documents and cache it is one more request of `RagSystem`.
* Cognito's passwords, codes and the reset of a password are left out; a login and a
  refresh issue the same token. A tick does not fall within a request.
* A 401 may meet a good cookie too (`verify_id_token` fails without Cognito's keys). Calls that
  waited for a refresh are sent again before another answer changes the cookies.
* The web client is one tab of a browser that accepts and sends third-party cookies where it is deployed
  across sites; one login and one logout are under way at a time, and the ID cookie does not expire while a refresh is. Only file
  types the page accepts are uploaded.
* Bedrock never answers the start of a job with a final status.
* Sort keys sort as they were taken: the clock of the one backend process does not jump back
  while requests of a conversation overlap. A page is counted in messages instead of bytes.
  A failing delete leaves the rest of the page in its order; items that DynamoDB returned as
  unprocessed and that were to be sent again are not told apart.
* `round()` is exact on the rational overlap ratio, half to even.
* The panels are asked for at least one week, and for the first so many gaps; the code takes
  any integer, and a negative limit would cut gaps off the end of the list.
* LangSmith's errors are runs that raised; error events inside an answer's stream are
  not. A retry is a run like any other and counts in the statistics of its organization.
* Texts are left out: an answer is the set of documents it cites, a summary the set
  of messages it holds. Guardrails, rewriting, reranking and the relevance threshold
  are the early returns, and the free choice of a subset of the retrievable
  documents.
* A crawl of one document reads its two objects in one step.
* A rate-limited caller is given its buckets. Which address `X-Forwarded-For`
  yields is not modelled.
* The pair of messages of a turn need not stay adjacent under overlapping requests;
  `query_service.py` reads them in pairs only to format them, and no claim is
  made about it.

## 7. Not modelled, and the plan

Not modelled:

* `retrieval_service.py`: stateless. Embedding and reranking are external; the two searches and
  the rank fusion are called by no endpoint.
* Guardrail, PII and injection patterns, intent routing and orchestration: stateless
  functions of a text. Their verdicts are early returns and free choices here.
* Text extraction and sentence splitting (PyMuPDF, python-docx, spaCy).
* `eval_service.py` (a view of what an external job wrote) and webhook signatures.
* The chat view and the documents page of the web client: they render what the handlers
  return and hold no state another part reads; the calls they make are those of `Session`.
* Prompts and formatting; AWS, Cohere, OpenAI and LangSmith themselves, which are modelled by what
  the code may observe of them.

The plan is carried out. What is left needs a prover with rules for fairness: the liveness
properties, whose measures are proved (section 4).
