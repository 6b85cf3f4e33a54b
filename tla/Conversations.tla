---------------------------- MODULE Conversations ----------------------------
(***************************************************************************)
(* Chat history: services/conversation_store.py over its two DynamoDB      *)
(* tables, and the handler that feeds it, chat_query of api/chat.py, with  *)
(* the running summary of services/query_service.py.                       *)
(*                                                                         *)
(* A request is a record in asks; between two of its steps lies a call run *)
(* in the thread pool.  The delete endpoint calls boto3 in the coroutine,  *)
(* so nothing on the event loop moves while it runs and it is one step; a  *)
(* thread call that would fall inside it leaves the same tables before or  *)
(* after it.  append_message takes its sort key in one step and puts the   *)
(* item in a later one: requests that overlap may land in another order    *)
(* than their keys sort.                                                   *)
(*                                                                         *)
(* Data abstraction.  A message is its sort key, its role and (history     *)
(* only: the messages table has no such column) the user who sent it.  A   *)
(* sort key is its place among the keys ever taken: the timestamps of one  *)
(* process, which sort as they were taken.  A summary is the set of        *)
(* messages folded into it.  The answer itself comes from the pipeline     *)
(* that RagSystem models.                                                  *)
(***************************************************************************)
EXTENDS Naturals, FiniteSets

CONSTANTS
    Users, Convs,
    AskIds,          \* bounds the requests in flight
    MaxTurns,        \* bounds the questions ever asked
    HistoryTurns,    \* MAX_HISTORY_TURNS
    PageSize,        \* how many messages a DynamoDB query returns in one page
    None             \* no conversation item; nobody

ASSUME HistoryAssumption ==
    HistoryTurns \in Nat \ {0} /\ PageSize \in Nat \ {0} /\ MaxTurns \in Nat
    /\ None \notin Users

Message == [key : Nat \ {0}, by : Users, role : {"user", "assistant"}]

\* One row of the conversations table.  Only create_conversation sets a title.
Item == [titled : BOOLEAN, summary : SUBSET Message, through : Nat]

ASSUME NoneAssumption == None \notin Item

VARIABLES
    items,     \* [Users -> [Convs -> Item or None]]: key (user_id, conversation_id)
    messages,  \* [Convs -> SUBSET Message]: key (conversation_id, sort_key)
    asks,      \* SUBSET Ask: the chat requests in flight
    turns,     \* how many questions were asked
    clock,     \* the youngest sort key taken
    owner,     \* history: who created the conversation
    deleted,   \* history: conversations whose deletion was answered with 204
    lossy,     \* history: the summarizer or a delete failed half way
    late       \* history: messages that landed after one with a younger key

vars == <<items, messages, asks, turns, clock, owner, deleted, lossy, late>>

\* key: the sort key taken for the message to put next, 0 for none.
Ask == [id : AskIds, user : Users, conv : Convs, key : Nat,
        hist : SUBSET Message, summary : SUBSET Message, through : Nat,
        pc : {"history", "summary", "fold", "save", "answer", "user", "assistant", "touch"}]

Become(r, n) == asks' = (asks \ {r}) \cup {n}
Finish(r)    == asks' = asks \ {r}

\* The n oldest messages of a set.
Oldest(S, n) == {m \in S : Cardinality({k \in S : k.key < m.key}) < n}

\* What a query of a conversation's messages returns: no caller asks for a
\* second page.
Page(c) == Oldest(messages[c], PageSize)

\* The turns rewrite_query reads verbatim: chat_history[-MAX_HISTORY_TURNS * 2:].
Window == 2 * HistoryTurns
Boundary(hist) == IF Cardinality(hist) > Window THEN Cardinality(hist) - Window ELSE 0
Recent(hist) == hist \ Oldest(hist, Boundary(hist))

NewAsk(id, u, c, pc) ==
    /\ turns < MaxTurns
    /\ \A r \in asks : r.id # id
    /\ turns' = turns + 1
    /\ asks' = asks \cup {[id |-> id, user |-> u, conv |-> c, key |-> 0,
                           hist |-> {}, summary |-> {}, through |-> 0, pc |-> pc]}

-----------------------------------------------------------------------------
(***************************************************************************)
(* POST /chat/query.                                                       *)
(***************************************************************************)

\* No conversation_id: create_conversation, under an id nobody has.
StartConversation(id, u, c) ==
    /\ owner[c] = None
    /\ NewAsk(id, u, c, "answer")
    /\ items' = [items EXCEPT ![u][c] = [titled |-> TRUE, summary |-> {}, through |-> 0]]
    /\ owner' = [owner EXCEPT ![c] = u]
    /\ UNCHANGED <<messages, clock, deleted, lossy, late>>

\* Variant for fault injection: the lookup ignores the user.
OpenAnyones(id, u, c) ==
    /\ \E v \in Users : items[v][c] # None /\ items[v][c].titled
    /\ NewAsk(id, u, c, "history")
    /\ UNCHANGED <<items, messages, clock, owner, deleted, lossy, late>>

\* get_conversation finds the row by user and conversation, else 404; it reads
\* the title, so a row without one is a 500.
OpenConversation(id, u, c) ==
    /\ items[u][c] # None /\ items[u][c].titled
    /\ NewAsk(id, u, c, "history")
    /\ UNCHANGED <<items, messages, clock, owner, deleted, lossy, late>>

\* ... and then its messages, oldest first, one page.
ReadHistory(r) ==
    /\ r.pc = "history"
    /\ Become(r, [r EXCEPT !.hist = Page(r.conv), !.pc = "summary"])
    /\ UNCHANGED <<items, messages, turns, clock, owner, deleted, lossy, late>>

StoredSummary(u, c) == IF items[u][c] = None THEN {} ELSE items[u][c].summary
StoredThrough(u, c) == IF items[u][c] = None THEN 0 ELSE items[u][c].through

\* get_history_summary, and whether enough new turns have aged out.
ReadSummary(r) ==
    /\ r.pc = "summary"
    /\ LET through == StoredThrough(r.user, r.conv) IN
       Become(r, [r EXCEPT !.summary = StoredSummary(r.user, r.conv),
                           !.through = through,
                           !.pc = IF Boundary(r.hist) > through THEN "fold" ELSE "answer"])
    /\ UNCHANGED <<items, messages, turns, clock, owner, deleted, lossy, late>>

\* Variant for fault injection: the first turn to fold is left out.
TurnsToFoldLate(r) == Oldest(r.hist, Boundary(r.hist)) \ Oldest(r.hist, r.through + 1)

\* chat_history[summarized_through:new_boundary]
TurnsToFold(r) == Oldest(r.hist, Boundary(r.hist)) \ Oldest(r.hist, r.through)

\* summarize_history: the model folds them in, or fails twice and the summary
\* stays as it was.  Either way the handler goes on with the new boundary.
Fold(r) ==
    /\ r.pc = "fold"
    /\ \/ /\ Become(r, [r EXCEPT !.summary = @ \cup TurnsToFold(r),
                                 !.through = Boundary(r.hist), !.pc = "save"])
          /\ UNCHANGED lossy
       \/ /\ Become(r, [r EXCEPT !.through = Boundary(r.hist), !.pc = "save"])
          /\ lossy' = lossy \cup {r.conv}
    /\ UNCHANGED <<items, messages, turns, clock, owner, deleted, late>>

\* update_item creates the row when there is none, without a title.
Upsert(u, c, summary, through) ==
    items' = [items EXCEPT ![u][c] =
                 [titled |-> @ # None /\ @.titled, summary |-> summary, through |-> through]]

\* Variant for fault injection: the boundary saved is the length of the history.
SaveWholeHistory(r) ==
    /\ r.pc = "save"
    /\ Upsert(r.user, r.conv, r.summary, Cardinality(r.hist))
    /\ Become(r, [r EXCEPT !.pc = "answer"])
    /\ UNCHANGED <<messages, turns, clock, owner, deleted, lossy, late>>

\* update_history_summary
SaveSummary(r) ==
    /\ r.pc = "save"
    /\ Upsert(r.user, r.conv, r.summary, r.through)
    /\ Become(r, [r EXCEPT !.pc = "answer"])
    /\ UNCHANGED <<messages, turns, clock, owner, deleted, lossy, late>>

\* The pipeline answers, or a guardrail text takes the answer's place; the
\* history is not looked at again.
Answer(r) ==
    /\ r.pc = "answer"
    /\ Become(r, [r EXCEPT !.hist = {}, !.summary = {}, !.through = 0, !.pc = "user"])
    /\ UNCHANGED <<items, messages, turns, clock, owner, deleted, lossy, late>>

\* append_message, in a thread: the sort key is the time now ...
SortKey(r) ==
    /\ r.pc \in {"user", "assistant"} /\ r.key = 0
    /\ clock' = clock + 1
    /\ Become(r, [r EXCEPT !.key = clock + 1])
    /\ UNCHANGED <<items, messages, turns, owner, deleted, lossy, late>>

\* ... and put_item lands when DynamoDB takes it, after retries perhaps.
PutItem(r) ==
    /\ r.key # 0
    /\ LET m == [key |-> r.key, by |-> r.user, role |-> r.pc] IN
       /\ messages' = [messages EXCEPT ![r.conv] = @ \cup {m}]
       /\ late' = IF \E k \in messages[r.conv] : m.key < k.key THEN late \cup {m} ELSE late
    /\ Become(r, [r EXCEPT !.key = 0, !.pc = IF @ = "user" THEN "assistant" ELSE "touch"])
    /\ UNCHANGED <<items, turns, clock, owner, deleted, lossy>>

\* touch_conversation
Touch(r) ==
    /\ r.pc = "touch"
    /\ Upsert(r.user, r.conv, StoredSummary(r.user, r.conv), StoredThrough(r.user, r.conv))
    /\ Finish(r)
    /\ UNCHANGED <<messages, turns, clock, owner, deleted, lossy, late>>

\* A DynamoDB call fails, the pipeline yields an error, the client disconnects
\* or the process restarts: nothing further is written.
Drop(r) ==
    /\ Finish(r)
    /\ UNCHANGED <<items, messages, turns, clock, owner, deleted, lossy, late>>

-----------------------------------------------------------------------------
(***************************************************************************)
(* DELETE /conversations/{conversation_id}: one page of messages, the row. *)
(***************************************************************************)
DeleteConversation(u, c) ==
    /\ items[u][c] # None
    /\ messages' = [messages EXCEPT ![c] = @ \ Page(c)]
    /\ items' = [items EXCEPT ![u][c] = None]
    /\ deleted' = deleted \cup {c}
    /\ UNCHANGED <<asks, turns, clock, owner, lossy, late>>

\* The batches go in the order of the page; some are gone when a call fails,
\* and the row stays.
DeleteFails(u, c) ==
    /\ items[u][c] # None /\ messages[c] # {}
    /\ \E n \in 1..PageSize :
           messages' = [messages EXCEPT ![c] = @ \ Oldest(@, n)]
    /\ lossy' = lossy \cup {c}
    /\ UNCHANGED <<items, asks, turns, clock, owner, deleted, late>>

-----------------------------------------------------------------------------
Init ==
    /\ items = [u \in Users |-> [c \in Convs |-> None]]
    /\ messages = [c \in Convs |-> {}]
    /\ asks = {} /\ turns = 0 /\ clock = 0
    /\ owner = [c \in Convs |-> None]
    /\ deleted = {} /\ lossy = {} /\ late = {}

AskStep(r) ==
    \/ ReadHistory(r) \/ ReadSummary(r) \/ Fold(r) \/ SaveSummary(r)
    \/ Answer(r) \/ SortKey(r) \/ PutItem(r) \/ Touch(r)
    \/ Drop(r)

Next ==
    \/ \E id \in AskIds, u \in Users, c \in Convs :
           StartConversation(id, u, c) \/ OpenConversation(id, u, c)
    \/ \E r \in asks : AskStep(r)
    \/ \E u \in Users, c \in Convs : DeleteConversation(u, c) \/ DeleteFails(u, c)

Spec == Init /\ [][Next]_vars

-----------------------------------------------------------------------------
(***************************************************************************)
(* The messages table has no user in its key; all that keeps a user out of *)
(* another's conversation is that every path to it goes through the row    *)
(* (conversation_store.py:13-17): only the creator ever writes or reads    *)
(* its messages, also when rows are deleted and re-created by an upsert.   *)
(***************************************************************************)
OnlyTheOwner ==
    /\ \A c \in Convs : \A m \in messages[c] : m.by = owner[c]
    /\ \A r \in asks : owner[r.conv] = r.user
    /\ \A r \in asks : \A m \in r.hist \cup r.summary : m.by = r.user

(***************************************************************************)
(* conversation_store.py:147-150: "summarized_through is a count of this   *)
(* conversation's messages (from the start) already folded into            *)
(* history_summary".  A message that lands late, after one with a younger  *)
(* key, moves those behind it up by one and may itself come to lie under   *)
(* the count unfolded; the count is right for all others.                  *)
(***************************************************************************)
ThroughIsFolded(u, c) ==
    items[u][c] # None /\ items[u][c].titled =>
        /\ items[u][c].through <= Cardinality(messages[c])
        /\ Oldest(messages[c], items[u][c].through) \subseteq items[u][c].summary \cup late

\* True while no summarization and no delete failed, however the requests
\* of a conversation overlap and overwrite each other's summary, however late
\* their messages land and however many pages they fill.
FoldedUnlessLossy == \A u \in Users, c \in Convs \ lossy : ThroughIsFolded(u, c)

(***************************************************************************)
(* chat.py:406-410: what is older than the verbatim turns "is preserved    *)
(* here as a running summary instead of being dropped outright".  When a   *)
(* request asks the rewriter, each message of the history it read is among *)
(* the recent turns or in its summary, although history and summary are    *)
(* read apart and others append and fold in between; only a message that   *)
(* landed late can be in neither.  Not so once the conversation is deleted *)
(* under the requests in flight (a summary one of them writes back counts  *)
(* messages another no longer reads), nor when it outgrew the page, whose  *)
(* recent turns are then not the conversation's.                           *)
(***************************************************************************)
NothingDropped ==
    \A r \in asks :
        r.pc = "answer" /\ r.conv \notin lossy \cup deleted
        /\ Cardinality(messages[r.conv]) <= PageSize =>
            r.hist \subseteq Recent(r.hist) \cup r.summary \cup late

(***************************************************************************)
(* conversation_store.py:192-195: a delete clears the messages explicitly, *)
(* "or they'd be orphaned": nothing of a deleted conversation is left.     *)
(***************************************************************************)
DeletedIsGone ==
    \A c \in deleted : messages[c] = {} /\ \A u \in Users : items[u][c] = None
=============================================================================
