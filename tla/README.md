# ALC-Engine: TLA+ models and proofs

ALC-Engine is a Go server for shared folder trees. Members edit a *virtual folder tree* locally, submit
the edits as one batch, and an admin approves or refuses them; approved batches are executed on PostgreSQL
and on a Redis cache. Around that it has upload approvals, a cache that clients synchronise with, AI chat
sessions, tags and user accounts. Redis, PostgreSQL and RabbitMQ are shared by all of them; inside the
process, goroutines talk over Go channels.

This directory holds TLA+ modules translated from the code under `src/`, the TLC configurations that check
them, and proofs checked by TLAPS.

## 1. The system's components

| Component | State it keeps | Operations | Correct when |
|---|---|---|---|
| Change request pipeline (`service/project.go`, `pre_storage.go`, `approval_coordinator.go`, `consumer_coordinator.go`, `repository/change_request.go`, `approval_redis.go`) | Redis: pending list and status hash per user, index per project, payload key per (user, project). RabbitMQ: `approval_result_queue`, `pre_storage_queue`, `consumer_queue`. Memory: notification channel, coordinator registry | submit, stage, approve, pair, execute, clean up, list | an approval executes at most one batch, of its own pair, the one the admin saw; every approved request comes to its end |
| Conflict detection (`ProjectService.CheckConflict`) | none | compare a batch with those of other members | exactly the documented conflicts are reported |
| Approved batch execution (`approved_batch.go`, `approval_pg.go`, `approval_redis.go`) | folders, mount relations, cache hashes | create, move, rename, delete | all or nothing; the result is a tree; cache and database agree |
| Folders and files (`virtual_folder.go`, `mount_relation.go`, `call_relation.go`, `new_file_service.go`) | the same tables, registered files, calls | direct edits, outside of requests and batches | a folder keeps its place, one father and one row per call; what is deleted stays deleted |
| Projects and members (`service/project.go`, `middleware/auth.go`) | projects, roots, member rows | create, add, change a role, admit a request | the owner keeps its role |
| Folder cache (`service/to_redis.go`, `rabbitmq/to_redis.go`, `redis_cache.go`) | version hashes, folder hashes | cache-aside read, update message, version check | every announced edit moves the version; a client that is up to date by the versions is; cached fields are current |
| Broker channel (`rabbitmq.go`) | one connection, one channel | declare, publish, consume | open as long as the process uses it |
| Cloud file uploads (`cloud_file_approval_service.go`, `cloud_file_service.go`, `minio/service.go`) | approvals and indexes in Redis, objects, file rows | ask, decide, fetch a URL, report, download, confirm | one approval waits, a decision stands, one record per file that leads to the latest object |
| Chat sessions (`chat.go`, `ai/helper.go`, `ai/manager.go`) | a helper with messages and callbacks per session, message rows | create, continue, stream | the stored history is the conversation, and the model is sent all of it |
| Accounts and tokens (`user.go`, `repository/code.go`, `jwt.go`) | accounts, codes, rate limits, blacklist | register, log in, mail a code, reset, refresh, log out | a code works once, the last one mailed is the valid one, a logout ends its own session only |
| Tags (`tag.go`) | tags, relations, a cache in the process with timers | edit, list the folders of a tag | the cached list is current, or goes away |
| AI models, RAG, MCP, speech, images, rate limiter, logging, configuration | none of interest | I/O | not modelled (section 6) |

Interaction: HTTP handlers call services; a submission notifies the pre-storage goroutine through a bounded
channel (and again through a Redis keyspace event where those are enabled); pre-storage and the approval
handler each publish to a queue of the approval coordinator, which publishes to the consumer's queue; the
consumer executes the batch, which writes the folder tables and the folder cache, which the cache consumer
writes too. The handlers of direct edits publish to the cache consumer's queue, and so do chat sessions.
Uploads meet the rest only in the file they are for, tags in the folders they are on.

What is hard to test here: two producers that meet in the coordinator in either order; keys per pair or even
per user that stand for several requests; four separate writes at the end of an execution; messages
acknowledged before they are handled; state lost in a restart; drops at a full channel; keys that expire at
different times; and, almost everywhere, checks and writes in separate calls without a lock or a transaction, so
that requests on one thing that overlap see each other halfway. `PROJECT.json` lists these hazards with their source lines and the properties aimed at them.

## 2. Modules

| Module | Contents |
|---|---|
| `ChangeApproval` | the pipeline, one action per access to Redis, a queue or a channel |
| `ApprovalLedger` | what the pipeline promises: verdicts are given, and each execution uses up an unused approval of its own pair |
| `MCChangeApproval` | the constants of the TLC instances |
| `ChangeApprovalProofs` | for all constants: type correctness, one execution per approval, executions are approved, refinement of `ApprovalLedger`; while users have one open request at a time, where each request is, through failing calls, restarts and expiry, and the properties that rest on it |
| `ConflictRelation` | `CheckConflict` on two batches, and the documented conditions |
| `ConflictCheck` | the submissions that depend on it |
| `MCConflictCheck` | all batches of one or two operations |
| `ConflictCheckProofs` | the check agrees with the documented conditions; waiting requests are compatible |
| `FolderTree` | folder trees, the operations of a batch, and what a batch makes of a tree |
| `AtomicBatches` | what executing batches promises while nothing fails: each takes effect once, in one step |
| `ApprovedBatch` | the execution of batches, one action per SQL statement and per operation written to the cache |
| `MCApprovedBatch` | a tree of three folders and all batches of one or two operations on it |
| `ApprovedBatchProofs` | type correctness, one father per folder, the refinement of `AtomicBatches`, the agreement of the cache and the tree as a whole, for all constants |
| `ProjectMembers` | projects, members, roles, and the check that admits a request |
| `FolderEdits` | extends it with the direct edits of folders, calls and files, one database statement per step |
| `MCFolderEdits` | a tree of three folders, a file, two projects, and the requests that clients send |
| `FolderEditsProofs` | the owner's role, revivals and duplicates come from overlaps, folders keep a place |
| `CacheRequests` | the constants that `FolderCache` and `TagCache` share |
| `FolderCache` | the cache with its producers, its consumer, the batch that writes it and a client that reads it |
| `CacheProofs` | versions count edits, copies and entries are current; so are the entries of `TagCache` |
| `CloudUpload` | approvals, the object store, the records of uploaded files and of local copies |
| `CloudUploadProofs` | one waiting approval, records and the newest key, decisions are final |
| `Conversation` | what a chat session promises: a history that only grows, a question and right behind it its answer |
| `ChatSession` | requests on chat sessions and the helpers they share |
| `ChatSessionProofs` | messages are stored once, answers behind their questions, prompts are complete; each session implements `Conversation` |
| `Accounts` | accounts, mailed codes, tokens |
| `AccountsProofs` | codes are used once, the newest stands, mails are limited, logouts refuse only their own tokens |
| `TagCache` | tags and the cache of folders by tag |
| `MCFolderCache`, `MCCloudUpload`, `MCChatSession`, `MCAccounts`, `MCTagCache` | symmetries of their TLC instances |

### ChangeApproval

State and code:

| Variable | Code |
|---|---|
| `pending[u]` | list `user:{u}:pending_updates`, head first (LPUSH) |
| `status[u]` | hash `userId:{u}`: one project and one state, or `None` |
| `index[p]` | set `project:{p}:pending_users` |
| `payload[<<u,p>>]` | `prestorage:payload:{u}:{p}` |
| `apQueue`, `psQueue`, `coQueue` | a RabbitMQ queue together with the Go channel its listener fills; both are FIFO and have one reader |
| `notices` | `pendingUpdatesChan`, capacity `ChanCap` (100 in the code) |
| `hsetEvents`, `listener` | `listenKeyspaceNotifications` |
| `preStore` | `handlePendingUpdate` between two calls |
| `registry`, `coordinator`, `cleaning` | `ApprovalCoordinator.stateRegistry`, its `coordinate` goroutine, and the hourly cleanup |
| `consumer` | `onApproved` / `onRefused` between two calls |
| `submitPc[r]` | the HTTP handler that submits `r` |
| `grants`, `batches`, `faults`, `crashes` | history: verdicts sent, batches executed, failures so far |

A verdict message carries a `token`, its index in `grants`. The code has no such field; it is only copied
along and read by properties. A request is a model value: what its operations are matters only to
`CheckConflict` (the constant `Conflicts`) and to the execution (which may fail).

Actions: `CheckConflict`, `PushRequest`, `SetWaiting`, `AddToIndex`, `NotifyPendingUpdate` are the steps of
one submission; `ReadEvent`, `OfferIfWaiting` the keyspace listener; `FindPendingUpdate`,
`StagePreStoragePayload`, `MarkPreStoraged`, `NotifyApprovalCoordinator` the pre-storage goroutine;
`ApproveChange` and `RefuseChange` the admin; `HandleApprovalMessage`, `HandlePreStorageMessage`,
`CheckAndTransition`, `NotifyConsumerCoordinator` the coordinator; `FindExpired`, `DeleteExpired` the cleanup;
`TakeResult`, `ExecuteApproved`, `FindPendingChange`, `RemovePendingChange`, `RemoveFromIndex`,
`FinishResult` the consumer; `Restart`, `ExpirePending`, `ExpirePayload` the environment.

Every call that can return an error has its error branch, counted by `faults`. Where a failing call leaves it
open whether it took effect and the code could tell the difference later (EXPIRE after LPUSH, GETDEL) both
outcomes are there. A restart loses the memory of the process and, of each queue, any prefix: messages are
acknowledged on delivery (`autoAck`), so those the listener already holds are gone.

Abstractions worth knowing: reading the lists of several users (SMEMBERS, then one LRANGE each) is one step;
one LRANGE that fails drops that user's requests, as the code's `continue` does. The broker itself does not
restart: its three queues here are declared durable, but no message is published as persistent, so what it would
lose is a part of each queue, and losing all of each queue is one of the outcomes of `Restart`. The
channel of `rabbitmq.go` stays open; a publish on it may fail. The hourly cleanup may run at any time.

`RefuseChange` is optional (`World`). The JSON field `approved` (`control/project.go:496-499`) is a bool with `binding:"required"`, and the
validator rejects the zero value, so the endpoint itself never sends a refusal; the coordinator and the
consumer handle one, and the runs that include it check that code.

The constant `Discipline` names what users and admins are assumed to refrain from, since the code does not
enforce it:

| Assumption | Meaning |
|---|---|
| `oneOpenRequest` | a user submits again only after the last request of theirs has reached a final status |
| `serialSubmit` | submissions of different users do not overlap |
| `listedOnly` | an admin sends a verdict only on a pair that is listed |
| `oneVerdict` | an admin sends no verdict that would be shown only requests already decided on |

The properties are first checked without any of these (`adversarial`), then the stronger ones under the
assumptions they need. None of them can be spared: section 3 says what happens without.

### ConflictCheck

`ConflictFolders(mine, theirs)` follows the loop body of `CheckConflict` part by part, with the three
`continue` statements as `Considered`. A batch is four sets of operations: the code collects them in maps and
the answer is a set, so order and repetition make no difference. An id is a number; whether it names a
folder or a folder the batch creates is said by a father type, and for the folder of a move, rename or delete
by nothing. A father type left empty counts as `enduring` in every test of the code and is that value here.
`waiting` holds the requests that can still be listed, `reply` the answer of the submission being served;
`Submit` is the whole of `SubmitChangeService` (in this module submissions take turns; how they overlap is
the subject of `ChangeApproval`, whose constant `Conflicts` stands for this relation).

`InConflict` states the three conditions in the comment above `CheckConflict`, independently of its code.
`IdsAreApart` says that temporary ids are not ids of folders and that a father called temporary is a temporary
id. Clients draw temporary ids and the database numbers the folders, so nothing in the code ensures it.

The relation lies in `ConflictRelation`, which `FolderTree` extends too, so that `ApprovedBatch` executes what
this very check lets pass.

### ApprovedBatch

| Variable | Code |
|---|---|
| `folders`, `nextId` | names of the undeleted rows of `virtual_folders`, and its id sequence |
| `relations` | undeleted rows of `mount_relations`: mounts of folders and files, and calls |
| `entry[f]` | hash `virfolder:{f}`: name and father |
| `version[f]` | field `f` of `project:{p}:folders`; the minor number, since the major one stays |
| `projectVersion` | field `projectversion` of `project:{p}` |
| `waiting` | the requests that `CheckConflict` would compare with; their field `early` is history (below) |
| `executor` | `ExecuteApproved` between two calls: stage, request, `tempToReal`, `relationsToDelete`, operations still to be written to the cache |
| `submitted`, `executed`, `before`, `faults` | counter and history |

The stages follow `ExecuteApprovedOps`: a kind of operation the batch does not have is passed over
(`FirstStage`, `AfterCreate`, `AfterMove`, `AfterRename`). A batch inserts its folders, then their relations;
reads the mounts of what it moves, deletes them one at a time (with every relation between the same two ids,
as the `WHERE` clause does) and inserts the new ones; saves the new names; deletes relations, then folders. The
statements run on `r.db`, not on the transaction opened for them, so each takes effect when it is executed and
`Fail` undoes nothing. The cache is then written in the order create, move, rename, delete, two writes for
each operation, the second of which may fail alone. There is one executor, the consumer goroutine.

A new folder's id is `nextId` or a later one: one insert statement numbers all its rows, in some order
(`Numberings`). `Rename` ends the execution when none of the folders exists any more, since saving an empty
slice is an error of the library. A temporary id that the batch does not create resolves to folder 0, as a
missing key of a Go map does.

A batch is submitted at any time, also in the middle of an execution: clients read the tables
(`GetVirtualFoldersByRootID`, `GetVirtualFoldersByParentID`), whose statements are not in a transaction, so they
see a folder before its children hang on it. The field `early` of a request keeps the folders its batch deletes
although the execution under way has only just inserted them; `TreeSurvives` names them as an exception (section 3).

What is assumed about clients, which are not in the repository, is in the guard of `Submit` and in
`ConstantsAssumption`: a batch is made from the tree as it is, names folders that exist, turns the tree into a
tree (so a delete takes the whole subtree along, or moves what stays), has one create per temporary id, and its
member has no other request waiting. It has one new name per folder because the last of several is the one that the
tables and the cache end with (`OneEach`). That it moves a folder once (`OncePerFolder`) is *not* assumed: nothing
refuses a batch with two moves of one folder, `batchMove` gives that folder two mounts, and the instance has such a
batch. Whatever else waits has passed the conflict check. A failed request may be executed again at once; the way back through pre-storage
is in `ChangeApproval`.

The properties that speak of the tree hold while nothing has failed and no batch moves a folder twice (`Intact`):
after a failure the tables hold half of a batch, and after two moves the folder is in two places, of which the cache
has the last. `AtMostOneFather` holds through failures and beside such batches; it exempts the folders that one
batch moves twice (`MovedTwice`) and no others. `TreeSurvives` names two more exceptions: the conflict
check compares no two moves of different folders, so two members can hang two folders under each other, and a folder
may be deleted while it is being made; the property says that nothing else detaches a folder. The refinement maps the tree of `AtomicBatches` to `before`
while statements are being executed and to the tables otherwise: the last statement is the step `Execute`, whose
result must be `Apply` of the batch for some numbering of the new folders.

### The modules of requests

`ProjectMembers`/`FolderEdits`, `CloudUpload`, `ChatSession`, `Accounts`, `FolderCache` and `TagCache` have one
form. A *handler* is a goroutine that serves one request at a time, and `call[h]` (`req[r]` for chats) is the
request with the local variables of its Go functions. An action that begins a request is named after the HTTP
handler; then one action follows for each database statement, Redis command, publish or object-store call, in
the code's order, with the guard of the code's early return. In the first three the next call is a `stage`; in
the last three it is the head of a list, `todo`, since their requests share most of their calls: the list
`LoginByCodeCalls` is the body of `LoginByCode`. A failing call (`Fail`, `FailingCall`) ends the request, except
where the code goes on. Deadlock is not checked: a run ends when the bounded requests have been made.

Little of what these components do is right if two requests on one subject overlap, since nothing is locked,
and the code says nothing else. The properties therefore say when the promise is kept: history variables
(`contested`, `crossed`, `raced`, `disturbed`) hold the subjects on which two requests were under way at a time,
and a property that exempts them still covers failures, restarts, expiry, and everything that goes on at once on
other subjects. `EditsAreCounted` and `StaleEntriesEnd` exempt no overlap, `OwnerKeepsRole` one only (below).

`FolderEdits`. `home[f]`, `folders`: rows of `virtual_folders` (project, undeleted); `registrar[x]`, `files`: rows
of `new_real_files`; `mounts`: undeleted `mount_relations`; `callRows`: `call_relations`; `owner`, `members`,
`roots`: `projects`, `project_members` in the order of ids, `virtual_roots`. A move reads the mounts of its folder,
looks for each (`FindRelation`), deletes it with every relation between the same two numbers (`DropRelation`),
checks the new parent and inserts. Folders and files are both numbered from 1, and file 2 of the instance has the
number of a folder in the folder it is mounted in: to unmount it takes the folder's mount away too, which
`FoldersKeepAPlace` names (`strayed`). A request has the project of its path, whose roles admit it
(`middleware/auth.go:99`), and the one it acts on, from its body or from the items it names; nothing compares the
two. So members of one project can act on another, and the menu has requests that do. For members the services check once more,
in the project of the body; that leaves one gap, between the two statements that create a project: its owner has no
row yet but may already add members, itself included, when another project admits the request (`early`). A rename saves the row it has read, deletion mark included, which puts a
deleted row back. `Menu` is the set of requests that clients send; the roles they need are those of `router.go`.

`CloudUpload`. One project. `approvals[i]` with two indexes that are written after it; `urls` and `objects`: the
store, where an object's ETag is how often its key was uploaded; a key holds the day and the file
(`GenerateKey`), so a second upload on another day has another key. `rows`, `locals`: `new_cloud_files` and
`new_cloud_file_locals`. Reporting an upload asks for no approval in the code, and an approval serves any number
of uploads until it expires. Before an approval is made the user's approvals are read, and one that cannot be read is
skipped as if it were not there (`OverlookWaiting`), so that a second one may come to wait; `OneApprovalWaits` names that
case beside overlaps. The endpoint that decides accepts approvals only (`binding:"required"` on a bool).

`ChatSession`. `helpers[s]` has the messages as a set and the last of them: the code adds the history again with
every request, so order and repetitions say nothing. The save callback is a request's; `ContextLives` says whether
that request still runs. `messages` is read and written in two steps, since `AddMessage` takes no lock that
`GenerateResponse` respects.

`Conversation` is what one session promises to those who use it; `Conversation(s)` maps its `rows` to `stored[s]`,
`talking` to the requests under way on `s`, `mixed` to those of them that overlapped with another (`crossed`), `lost`
to the requests whose message the database refused or whose client left (`unsaved`), and `delivered` to those whose
client got the answer. A request that has the session to itself may add its question, then its answer while
the question is the last message, then be delivered; one that overlaps may add its own messages, or repeat what was
said; the others come, leave or stutter. The choice of the model, the prompt, helpers and callbacks do not show.
`ImplementsConversations` says that the sessions start as conversations and that each step is, for every session,
one of its conversation or a stutter. TLC cannot check the specifications under a quantifier as they stand; that they
follow is the theorem `EachConversation`.

`Accounts`. A code is the number of its mail, so two mails never have the same six digits; a token is the account
and the second it was signed in, which is all that goes into its string. `sessions` are token pairs handed out;
their expiry is left out, the blacklist is not.

`FolderCache`. `tables[f]` is name and first mount row in PostgreSQL, with the type of the father, since folders and
roots (`RootID`) are numbered apart; the rest is Redis, the queue and the processes. An edit
gives a name or a father that never was before, so that what is stale can be told, or the root. A rename is a read and a
write of the whole row, so that a slow one inserts a deleted folder again; a move is the removal of the mounts and
the new one; `FolderEdits` takes both apart. Refusals come in four forms, told apart by what the handler does next:

* before any write and with an error: the request changes nothing and sends nothing, and is not modelled;
* because the folder has meanwhile been deleted (`Refuse`, and `Collect` when the message is built): the request ends
  without a message;
* because the user may not do it, or the new father is in another root (`Overlook`): the service returns no error, and
  the handler sends the message as if the edit had been made. So the version moves without an edit, and a *deletion* that
  was refused is announced, since its folder can still be found: `HandleDeleteUpdate` takes a living folder out of the
  version list and the cache;
* by the father of a new or a moved folder, after the first write (`RefuseMount`): the new folder has its row, or the moved
  one has lost its mounts, and no message says so.

Of each mount row the cache gets the father's number and the type `virtual_folder` (`CachedFather`), also of a row under
the root, which a move to the root makes. `ExecuteBatch` is a batch that renames a folder, written as
`ApprovedBatch` does; `client` keeps versions and copies as the version check is meant to be used.
`ComparesDurability` stands for the broker: `InitRabbitMQ` declares the queue as not durable and
`StartCacheUpdateConsumer` as durable. RabbitMQ refuses a declaration that differs and closes the channel, the
only one of the process; then nothing is published or consumed at all. The run takes the declarations to
agree, and so do the other modules that use a queue.

`TagCache` (its names differ from those of `FolderCache`, so that one module can speak of both). `cached[t]` is `virtualFolderCache`; a fill starts a goroutine that deletes the entry ten minutes
later, whatever entry is there by then (`timers[t]` counts them). Every writer clears the whole cache, then
writes. Folders are deleted (`DeleteTaggedFolder`) and, by a rename that read the row before, inserted again
(`ReviveTaggedFolder`), of which the cache learns nothing. The other cache, tags by folder, is filled by a function no route leads to.

## 3. Runs

| Run | Instance | Result |
|---|---|---|
| `ChangeApproval_reviewed` | 2 users, 2 projects, 4 requests, all assumptions, nothing fails; with fairness | `NoConflictingPairWaits`, `ExecutesWhatWasReviewed`, `ApprovedIsExecuted` hold |
| `ChangeApproval_overlap` | same, but submissions overlap and verdicts repeat | `ExecutedOnce`, `ConsumerFindsPayload`, `StagedRequestsAreListed`, `CompletedIsClean`, `FinalStatusIsFinal` hold |
| `ChangeApproval_adversarial` | 1 request, no assumptions, 2 verdicts, 1 failing call, 1 restart, keyspace events, refusals, expiry, a channel of 1 | `TypeOK`, `OneExecutionPerApproval`, `ExecutionsAreApproved`, `ImplementsLedger` hold |
| `ConflictCheck_exact` | 2 members, 2 folders, 1 temporary id, every batch of up to 2 operations, 3 waiting requests, symmetric in the members | `WaitingAreCompatible`, `ReplyIsExact` hold; deadlock checked |
| `ApprovedBatch_compatible` | 2 members, a tree of 3 folders (two of them cached), all batches of up to 2 operations and one that moves a folder twice, 2 requests, 1 failing call, symmetric in the members | `TypeOK`, `AtMostOneFather`, `TreeSurvives`, `CacheAgrees`, `ImplementsAtomicBatches` hold |
| `ApprovedBatch_rollback` | same, 1 request | `FailedBatchesLeaveNothing` violated |
| `FolderEdits_overlap` | an owner and a member, 2 projects (one to be created), 2 handlers, 4 folders and 2 files at most, whose numbers coincide with those of folders, requests that another project admits, 4 requests, 1 failing statement | `FoldersKeepAPlace`, `DuplicatesAreContested`, `RevivedWereContested`, `OwnerKeepsRole` hold |
| `CloudUpload_uploads` | 2 members, 2 admins, 1 file, 2 days, 2 handlers, 2 approvals, 2 uploads to a key, 6 requests, 1 failing call (also one that hides a waiting approval), expiry | `OneApprovalWaits`, `DecisionsStand`, `SecondRowIsContested`, `CompletedUploadsAreServed` hold |
| `ChatSession_turns` | 1 session, 3 requests, 2 at a time, 1 failure (a call, or a client that leaves), 1 restart | `StoredOnce`, `AnsweredIsStored`, `PromptIsComplete`, `ImplementsConversations` hold |
| `Accounts_codes` | 1 address, 2 handlers, 3 mails, 2 sessions, 2 seconds, 4 requests and refreshes, 1 failing call, expiry | `NewestCodeStands`, `CodeUsedOnce`, `OneMailPerWindow`, `LogoutIsItsOwn` hold |
| `FolderCache_edits` | 1 folder whose father may have the root's number, 2 handlers, 3 requests, chat messages and expiries (2 with a failure or restart), all refusals, a client | `EditsAreCounted`, `CopyIsCurrent`, `EntryIsCurrent` hold |
| `TagCache_edits` | 1 tag, 1 folder, which is deleted and comes back, 3 handlers, 5 requests, 1 failure or restart; with fairness | `EntriesAreCurrent`, `StaleEntriesEnd` hold |

Bounds. Two users in two projects, one of whom works in both, are needed for what pairs and per-user
keys can confuse; two requests of one pair for what a payload key or a registry entry can confuse;
`MaxApprovals` leaves room for one verdict per request and for a second verdict on the same one. One failure
and one restart can hit every call and every state; what several of them do, with any number of requests, is
covered by the proofs, which have no bounds. A channel of one is full as soon as a second notification comes. For
`ConflictCheck`, a conflict lies between two operations of two batches, so two operations per batch cover every pair
next to an operation that could hide it (a create whose temporary id is skipped), and three waiting requests let
one submission meet several. For `ApprovedBatch`, two requests are what can wait side by side and run in either
order, two operations are what one batch can combine (a create and a move into it, a move and a delete of the old
father, a delete of a subtree of two), and five folder ids leave room for one creation by each; deletes may name the
first folder that is created, so that it can be deleted while it is being made; a file and a call
give the statements that select by number something to hit. Deadlock is not checked in `ChangeApproval` and
`ApprovedBatch`: a run ends when all requests are submitted and decided and every worker is idle.

In the modules of requests the subjects are independent: their rows and keys carry the address, file, tag or
session, and what crosses subjects is in the instance (a clear empties the whole tag cache; a limit is shared by
the three kinds of code; unmounting selects by numbers). One subject therefore suffices, two where one acts on
another (two folders for a move, two users for a decision or a download). Two handlers give every overlap of
two requests and, with more requests than handlers, what a later one finds; `TagCache` has three, a reader and two
writers. Each mutant of `PROJECT.json`, a plausible mistake in the code, breaks its property within these bounds.

Fairness. `FairSpec` of `ChangeApproval` assumes weak fairness of each worker goroutine and of each submission
that has started: the goroutines run `for { select ... }` loops without conditions, and a handler runs to its end.
The coordinator's `select` between two channels is fair to each (Go chooses among the ready cases at random),
and both queues are finite here, so weak fairness of the goroutine suffices. Nobody is assumed to submit or
to approve, and the cleanup is under no fairness. `TagCache` assumes that a goroutine that sleeps ten minutes wakes
up (`WF_vars(Expire(t))`) and nothing else: requests may stop halfway for ever.

What the code does outside of the assumptions:

* A folder can be deleted under its first children. A request that creates folder `x` and moves another into it is
  under way; its folder has been inserted, the children have not been moved yet, and a second member submits the
  deletion of the new folder. `CheckConflict` compares the deleted folder's id with the temporary id the first request
  names as the father, finds no conflict, and the second request deletes the folder that by then has children
  (`approval_pg.go:126`). `TreeSurvives` is stated with this exception.
* `ExecuteApprovedOps` opens a transaction and puts it into the context, where nobody looks for it. A batch
  whose second statement fails leaves what the first one wrote, and its request is marked failed
  (`ApprovedBatch_rollback`, the finding of `PROJECT.json`).
* A batch that moves a folder twice gives it two mounts (`approval_pg.go:154-193`): the old ones are deleted, then one is
  inserted per move. `AtMostOneFather` is stated with this exception.
* A folder under the root is cached as one under a virtual folder with the root's number once it has been moved there
  (`to_redis.go:49-53`); the executor of batches writes `root`. `EntryIsCurrent` is stated with this exception. The
  version check is misled by what a refused edit announces, or does not (section 2, `FolderCache`).
* A file that is unmounted takes the mount of a folder of its number along (`repository/mount_relation.go:48-52`).
* Without `oneVerdict`: two admins may both approve a listed request. The coordinator pairs the first verdict with
  the request's pre-storage message and keeps the second in its registry; it is paired with the user's *next*
  request, which is executed although nobody has seen it (`approval_coordinator.go:200`).
* Without `oneOpenRequest`: a user who submits twice for one project has two pre-storage messages and one payload
  key. If the second request is staged over the first, two approvals execute it once and the other fails
  (`pre_storage.go:161`). A user with requests in two projects has one status hash and is shown in neither list once
  one of them is decided (`change_request.go:78`).
* Without `IdsAreApart`: `CheckConflict` skips another member's pending operation when its folder id equals a
  temporary id of the submitted batch, and two members can delete the same folder (`service/project.go:430`).
  `MissesAreCollisions` proves that this is all it can miss.

Each can be seen by taking the name out of `Discipline`, or by giving `TempIds` a number of `FolderIds`, in the
run above that has the property.

## 4. Proofs

For every set of users, projects and requests, every capacity, every number of failures and restarts and
every choice of `Discipline` and `World`, under `ConstantsAssumption` and `NoneAssumption` (the constants have
their types and `None` is not one of the values):

| Theorem | Statement |
|---|---|
| `TypeCorrect` | `Spec => []TypeOK` |
| `OneExecution` | `Spec => []OneExecutionPerApproval` |
| `ApprovedExecutions` | `Spec => []ExecutionsAreApproved` |
| `Refinement` | `Spec => ImplementsLedger` |

`TypeOK` is not inductive: that the consumer executes a request and not `None` depends on where its record
came from. `TypeInv` adds `HoldersOK`, which says what each busy worker holds.

`OneExecutionPerApproval` is not inductive either. `Inv` adds `ApprovalInv`: a verdict is in one place at a
time (`OnePlace`: in `apQueue`, with the coordinator, in `coQueue`, in execution, executed), it says the same
thing wherever it is (`SaysWhatWasGranted`), and what lies at a pair's keys is a request of that pair
(`OwnRequests`). There is one lemma per action for the verdict part and one per worker for the request part;
`NextInv` puts them together. For the refinement, `SendVerdict` maps to `GiveVerdict`, `ExecuteApproved` to
`Execute` (its token is unspent by `OnePlace`), and every other step leaves `grants` and `batches` alone.

The second part of `ChangeApprovalProofs` proves the properties of the runs `overlap` and `reviewed`, for any number
of users, projects, requests and verdicts, and each under the weakest of four hypotheses it is proved from. All suppose
`oneOpenRequest`, no keyspace events and no refusals:

| Hypothesis | Calls fail | Server restarts | Keys expire |
|---|---|---|---|
| `Orderly` | any number | any number | yes |
| `Orderly /\ "ttl" \notin World` | any number | any number | no |
| `Steady` | none | any number | no |
| `Calm` | none | never | no |

| Theorem | Statement |
|---|---|
| `OrderlyPipeline` | `Orderly => (Spec => []OrderlyState)` |
| `OrderlyExecutedOnce` | `Orderly => (Spec => []ExecutedOnce)` |
| `OrderlyFinalStatus` | `Orderly => (Spec => FinalStatusIsFinal)`, an action property |
| `OrderlyFindsPayload` | `Orderly /\ "ttl" \notin World => (Spec => []ConsumerFindsPayload)` |
| `SteadyPipeline` | `Steady => (Spec => []SteadyState)` |
| `SteadyCompletedIsClean` | `Steady => (Spec => []CompletedIsClean)` |
| `SteadyNoConflictingPair` | `Steady /\ InTurns => (Spec => []NoConflictingPairWaits)` |
| `CalmPipeline` | `Calm => (Spec => []CalmInv)` |
| `CalmStagedAreListed` | `Calm => (Spec => []StagedRequestsAreListed)` |
| `CalmExecutesReviewed` | `Calm /\ Reviewing => (Spec => []ExecutesWhatWasReviewed)` |

`InTurns` adds `serialSubmit` and that the relation `Conflicts` is symmetric, which `Symmetric` in
`ConflictCheckProofs` shows of the documented conditions; `Reviewing` adds `oneVerdict`. The run `overlap` also has
`listedOnly`; the proofs show that it is not needed. Section 3, under "What the code does outside of the
assumptions", says what goes wrong without the disciplines. Keyspace events are excluded because they make a second
notice of a request that is already on its way, so that its pair is in two places at a time; refusals
because `CheckAndTransition` writes the final status *refused* while the pair has yet to go through
`consumer_queue`, so that the user may submit again, and the consumer writes the status of the old request over that
of the new one.

None of the properties is inductive: each looks at one or two of the places a request passes (a payload, a
queue, the status), and the step that could break it is taken by a worker that has decided on the strength of
another.

`OrderlyInv` says of each pair that what is `UnderWay` (noticed, being staged, reported, being paired, in
`consumer_queue` or consumed) keeps its user from submitting (`HeldOK`: the status is undecided, and a request was
submitted), is in one place at a time (`OnceOK`), and that what will be staged, is staged or is about to be executed has
not been executed (`ReadyOK`). Nothing in it says that a request gets anywhere, which is why it survives all failures: a
call that fails, a restart and a key that expires only take pairs out of places (`Fewer`, `Drops`; the lemma
`Dwindling`), and each step that succeeds moves one pair from a place to the next (`PairMove`). The final status stands
because a status is written for a pair under way only, or by a submission (`StatusWriters`). `KeptInv` adds that a pair
that was staged keeps its payload until the consumer takes it.

`SteadyInv` says of a request that waits that its pair is undecided, its user is in the index and no other request of
the user waits or is being submitted (`WaitingOK`), and that what is staged or about to be executed waits, while after
the execution nothing of the user does (`PlaceOK`). A failing call breaks it: the status of a request may be final, as
*failed*, with the request still in the list. A restart does not, since it leaves Redis alone and what was being
submitted never waits. `NoRivals` looks ahead: a request that has passed its check and is still being written is
compared with those that wait as if it waited already, and `OneSubmits` says that only one is.

The last two properties say that something is where it should be, and a restart at the wrong moment takes it away for
good: after *approved* has been written and before the result is published, it leaves a payload that is on no page
(`StagedRequestsAreListed`); after the index has been written and before the notification, it leaves a request that a
page shows and no worker will stage, so that its verdict is kept for the user's next one (`ExecutesWhatWasReviewed`).
`PipelineInv` says, for each submission (`SubmissionOK`), user (`UserOK`) and pair (`KeyOK`), that the newest request of
the user is in one place only and that the place goes with the status: *waiting* with the handler, a notice or
pre-storage; *pre_storaged* with a report to the coordinator or its registry entry; *approved* with the coordinator,
`consumer_queue` or the consumer; *final* with nothing anywhere. The queues hold each pair at most once
(`QueuesAreSets`). The verdicts are the exception: any number of them may lie in `apQueue` or the registry, and what
keeps a second one from executing again is that it finds no report to be paired with. `ReviewInv` follows each verdict
through `apQueue`, the coordinator, `consumer_queue` and the consumer: as long as it is outstanding, the newest request
of its user is one its page showed, and it is the only verdict on that user.

All these invariants were first checked by TLC: those for `Calm` on the instances of the two runs, the others on
instances with failing calls and restarts.

What the hypotheses exclude does break the properties; TLC finds these counterexamples with two requests. Keyspace
events break `ExecutedOnce`, `FinalStatusIsFinal` and `ConsumerFindsPayload`; refusals the last two; expiry
`ConsumerFindsPayload` and `CompletedIsClean`; one failing call `CompletedIsClean`, `NoConflictingPairWaits` and
`StagedRequestsAreListed`; one restart `StagedRequestsAreListed` and `ExecutesWhatWasReviewed`. `ExecutedOnce` stands
with refusals on such an instance, which is not proved.

For `ConflictCheck`, under `BatchesAssumption` (batches have the types of the API):

| Theorem | Statement |
|---|---|
| `MissesAreCollisions` | a documented conflict the check misses is on a temporary id of the submitted batch; no assumption on ids |
| `CheckIsExact` | `IdsAreApart` implies that the check finds exactly the documented folders |
| `Compatible` | `IdsAreApart` implies `Spec => []WaitingAreCompatible` |
| `ExactReply` | `IdsAreApart` implies `Spec => []ReplyIsExact` |
| `OrderIsIrrelevant` | `IdsAreApart` implies that of every two batches the check finds the same folders, whichever is submitted first |

`ConflictFoldersAre` brings the set the code builds down to one folder at a time; `ReportsAreDocumented` and
`DocumentedAreReported` compare that with the conditions. The invariant is `TypeOK` (needed to know that
waiting batches are batches), `WaitingAreCompatible` and `ReplyIsExact` together; that a new request is
compatible with the old ones needs the symmetry of the documented conditions, which the code's loop does not
have on its face. The same symmetry and `CheckIsExact` make the order of two submissions irrelevant.

For `ApprovedBatch`, for every tree and every set of batches, any number of members, requests and failures, under
`ConstantsAssumption` (types; batches with one create per temporary id and one new name per folder; the tree at first
is one). That batches move a folder once is assumed nowhere: `OneFather` is about the folders no single batch moves
twice, and the other properties are conditional on `Intact`, which says so of the batches submitted:

| Theorem | Statement |
|---|---|
| `TypeCorrect` | `Spec => []TypeOK` |
| `OneFather` | `Spec => []AtMostOneFather` |
| `AtomicExecution` | `Spec => ImplementsAtomicBatches`, the refinement |
| `CacheFollowsTables` | `IdsApart => (Spec => []CacheAgrees)` |
| `TreeIsKept` | `ClientsAreExact => (Spec => []TreeSurvives)` |

One father per folder depends on what lies behind the executor at each stage, so `Inv` adds three parts:
`IdsInv` (every id in the tables, or named by a waiting move, is below `nextId`, so that a new folder has no
mount yet and cannot be named by a move before it exists), `NewFoldersInv` (between the two inserts, the new
folders are distinct and without a mount) and `MovedFoldersInv` (while old mounts are being deleted, those still
there are in the list; when the new ones are inserted, none is left). `QuietStep` disposes of the steps that add
nothing to the tables; `CacheWrite` of those that write the cache. That a failed batch may be executed again needs
nothing further: the invariant never looks at how the tables came about.

The refinement says what happens at the last statement, so `ExecutionInv` says at every stage how far the tables
are from `before`, the tree at the start: what the statements have written stays (`CreatedInv`, `MovedInv`,
`RenamedInv`), what the batch does not name is as it was (`FrameInv`), and the new folders are not named by the
batch itself (`OldIds`). When the batch is ready to commit, these add up to `Apply(before, batch, real)`
(`CommittedTree`). `HistoryInv` numbers the requests, so that none is executed twice. Submissions, cache writes and
the statements in between map to stuttering or to `Submit`; a failure maps to `Damage`.

`CacheFollowsTables` needs that a folder a request names still exists when it is executed, or the cache would get an
entry of a folder that has none in the tables. `ExistInv` says so, and it is the conflict check that makes it
true: no waiting request deletes what another names. `IdsApart` (no temporary id is a folder's id) is the assumption
under which the check is exact. `CurrentInv` says that during an execution the cache agrees with the tables but for
the operations in `todo`.

`TreeIsKept` is about all requests together. `WholeInv` follows the tree that the execution under way is to complete
(`Now`, settled when the new folders have their numbers) and the requests that have made it (`Past`), and says that
`Now` is good and that *each* waiting request would make a good tree of it. A tree is `Good` when it is as `TreeSurvives`
demands. Three lemmas about trees and batches, without any state, carry the steps: `NumberedTree` (the numbers
given to new folders make no difference), `TreeForOthers` (if two compatible requests would each make a good tree, the
second still does after the first) and `TreeForNew` (a request made from the half-changed tables finds a good tree
when the execution is over). The two exceptions in `TreeSurvives` come up at definite places: two movers in
`TreeForOthers` and `TreeForNew`, the early deletion in `TreeForNew` only. `ClientsAreExact` says that fathers called
enduring are folders or the root, that no temporary id is a folder's id, and that none is 0, which stands for a missing
father. All these invariants were first checked on the instance of the run.

### The modules of requests

These proofs have one plan. What a request has read or done is said of `call[h]`, stage by stage; what it
knows survives the steps of the others unless they are on the same subject, and then the subject is in the
history variable, because both were under way at a time (`OverlapsAreKnown`). Each of these parts is needed:
the properties speak of the tables, and a table says nothing of the request that is about to write to it.

| Module | Theorem | Statement |
|---|---|---|
| `CacheProofs` | `CurrentEntries` | `TagSpec => []EntriesAreCurrent` |
| `AccountsProofs` | `CodesUsedOnce` | `Spec => []CodeUsedOnce` |
| | `NewestCodesStand` | `Spec => []NewestCodeStands` |
| | `MailsAreLimited` | `Spec => []OneMailPerWindow` |
| | `LogoutsAreTheirOwn` | `Spec => []LogoutIsItsOwn` |
| `CloudUploadProofs` | `OneWaitsAtMost` | `Spec => []OneApprovalWaits` |
| | `SecondRowsAreContested` | `Spec => []SecondRowIsContested` |
| | `UploadsAreServed` | `Spec => []CompletedUploadsAreServed` |
| | `DecisionsAreFinal` | `Spec => DecisionsStand`, an action property |
| `FolderEditsProofs` | `OwnersKeepTheirRole` | `Spec => []OwnerKeepsRole` |
| | `RevivalsAreContested` | `Spec => []RevivedWereContested` |
| | `DuplicatesComeFromOverlaps` | `Spec => []DuplicatesAreContested` |
| | `FoldersStayMounted` | `Spec => []FoldersKeepAPlace` |
| `ChatSessionProofs` | `SessionInvariant` | `Spec => []IInv` |
| | `MessagesStoredOnce` | `Spec => []StoredOnce` |
| | `AnswersAreStored` | `Spec => []AnsweredIsStored` |
| | `PromptsAreComplete` | `Spec => []PromptIsComplete` |
| | `SessionsAreConversations` | `Spec => ImplementsConversations`, the refinement |
| | `EachConversation` | `Spec => \A s \in Sessions : Conversation(s)!Spec` |

They hold for every number of handlers, requests, failures and restarts.

`TagCache`. `ReadersAreCurrent` says that a
reader nobody overlapped, and behind whom no folder came back, holds what the tables say; it becomes an entry when the reader fills the cache.
`WritersAreSeen` says that while a tag is about to be written, an entry of it counts as raced and so does every
reader of it.

`Accounts` (`BoundsAssumption`: the bounds are numbers). The four properties share `TypesOK` and
`OverlapsAreKnown`. `UsesAreFew` says that a code which is stored, or in the hands of a request that has compared
it, has let nothing through; `NewestIsStored`, that the newest code of a kind is stored or about to be;
`WindowsAreLimited`, that after a mail the limit stands or is about to; `LogoutsAreKnown`, that what is on the
blacklist is the token of a session whose logout has begun. `CodesAreMailed` makes a code the number of a mail of
its own kind, so that codes of two kinds do not meet.

`CloudUpload` (`BoundsAssumption`, `NoneAssumption`, and `DaysAssumption`: days are numbers and the first is 1).
`FileInv` is about records: the rows of a file and the reports of its upload under way (`RowsAreKnown`,
`ReportsAreKnown`), and which row is found (`FilesAreServed`). `ApprovalInv` is about approvals: numbers not given
out yet are free, a request to decide holds the approval as it is stored, and a request to create one has seen
none that waits.

`FolderEdits` extends `ProjectMembers`; the invariant has a part for each (`MembersInv`, `EditsInv`), and a third
for the last theorem (`PlacesInv`). `MembersInv` needs that no request names the role `owner`, that updates spare
the project's owner, and that the first row that the owner has in a project is the one `AddOwner` inserts, unless the
project is `early`: whoever may add the owner before is the owner. `EditsInv` says of a move what it has read of the mounts (`OldsOK`) and that it finds none when it
inserts unless its folder is contested, and of a rename that the row it saves is there unless its subject is.
`PlacesInv` says that a folder that was mounted is, or a move of it has yet to insert. `DeleteMountRelation`
deletes every relation between two numbers, whatever their types: a folder loses its mount when a file of the same
number is unmounted from the same parent. The two numbers come from two sequences and do coincide, in the instance of
the run too; neither the theorem nor the run keeps them apart, and the folders that lose their mount this way are those
`strayed` holds beside the moves that ended early. The assumptions
`UsersAssumption` and `MenuAssumption` say what the router and the binding of requests let through, and
`InitialAssumption` that the tree of the initial state is one the program could have built.

`ChatSession` (`NoneAssumption`: `None` is not a request). A request adds the whole history to a helper that it may
share with requests before it, and the helper saves whatever is added through the callback it holds at that
moment. That this stores nothing a second time and loses nothing rests on whose callback it is:

* `ShapesOK`: what each request has left to add and what comes then; a helper's callback is missing, or belongs to a
  request that has ended, or to one on its session that is past `SetFuncs`. The first two save nothing, so the history
  is added again without being stored again.
* `SessionsOK`: a session without a row is empty, and the one request on it is about to insert the row.
* `OriginsOK`: what is stored, or is added again, has been saved by the request it is of. So a request's own question
  or answer is not in the history at the moment the request saves it, which is the step `StoredOnce` is about.
* `TurnsOK`, for requests that overlapped with no other and lost no save: from `SetFuncs` on the callback is the
  request's own; the question is the last message while the model is asked; once question and answer are
  stored they stay neighbours, since messages are only appended.
* `MemoriesOK`, for requests that overlapped with no other: the helper misses nothing of what is stored but what the
  request has still to add. When the model is asked nothing is left to add, and the last message is the question.

* `HistoriesOK`: what a request has yet to add of the history was said before, or is its own. This is what a request
  that overlaps may add (`Interrupt`), and with it the refinement holds for every session, crossed or not.

The refinement takes each step that adds to a history (`AddsInTurn`), that brings a request (`Comes`), that ends one
(`Goes`) and the rest (`TalksOn`). That a request has not spoken before it comes, asks or responds is `OriginsOK`;
that the question is the last message when the answer is added, and both are the last two when it is delivered,
is `TurnsOK`; that the callback which saves is the request's own, while the session is not crossed, is the lemma
`OwnCallback`, from `ShapesOK` and `OverlapsAreKnown`.

The parts after `OverlapsAreKnown` need it: two requests on a session at a time are in `crossed`, so the steps of any
other request leave the session, its helper and its rows alone. The invariant was first checked on the run's instance.

### The folder cache

`CacheProofs`, for any number of folders, handlers, requests, failures and restarts, under
`AbsenceAssumption` (`None` is no folder, row, father or number, and the root has a number):

| Theorem | Statement |
|---|---|
| `CacheInvariant` | `Open => (Spec => []IInv)` |
| `EditsCounted` | `Spec => []EditsAreCounted` |
| `CopyCurrent` | `Spec => []CopyIsCurrent` |
| `EntryCurrent` | `Spec => []EntryIsCurrent` |

The properties look at the system at rest, and nothing is at rest while the channel is closed; the invariant is
therefore about the open channel. Each property compares two stores, one of which the other runs after, so the
invariant says who is going to make up the difference:

* `TypesOK` lists what may be left of the calls of each kind of request and message, since a call may be made only
  after those before it. A refusal skips a call or ends the list, so each kind has few rests.
* `LivesOK`: one request creates a folder, and nothing is about a folder before its row is there.
* `EditsOwed`: `edits` is `projectVersion` plus the requests, messages and consumer that have still to move it.
  An edit is handed from request to queue to consumer; each step moves one unit of the sum. An edit whose request ends
  without its message is taken out of the sum again, and an announced deletion comes in when its message is sent.
* `VersionsOK`, for folders outside of `raced`: a request that creates a folder, and a batch, is alone with it, so
  that a version that was read is still the version when it is written; no message deletes it (`NoDeletion`); the client's version is at most the one
  it asked for, and that at most the present one. So the version never comes back to what the client has.
* `CopiesOK`: a client's copy is what is in the tables, or somebody `WillMove` the version.
* `EntriesOK`: outside of `crossed`, requests for a folder are in turn (`RequestsInTurn`), so a rename saves a row that is still there. What a request has read
  is what the tables say (`SnapshotsOK`), so does the last message about the folder (`MessagesOK`), and so does the
  entry, unless a request that rewrites it or a message is still under way (`EntryOK`).

`NextTypes`, `NextLives`, `NextEdits`, `NextVersions`, `NextCopies` and `NextEntries` prove one part each, with the
parts before it as hypotheses; there is one lemma per action where the part can be disturbed. The invariant
was first checked by TLC on the instance of the run, and `AtRest` turns each part into its property (`RestFacts`).

Every assumption is evaluated by TLC in the runs of its module.

### What is only model-checked

Liveness under fairness (`ApprovedIsExecuted`, `StaleEntriesEnd`): out of the prover's reach. Every safety property
of a passing run is stated by a theorem, some under the hypotheses named above: those of the request pipeline under
`Orderly`, `Steady`, `Calm`, `InTurns` and `Reviewing`, those of `ConflictCheck` and `ApprovedBatch` where temporary
ids collide with no folder's. Type correctness of the modules of requests is part of each invariant and is not listed.

## 5. Plan

The modules of section 2 are written and their safety properties proved. What would say more:

* promises for the other modules of requests, as `ApprovalLedger`, `AtomicBatches` and `Conversation` are for the
  pipeline, the executor and the sessions, and their refinement: first the code that is valid for an address;
* the pipeline with refusals, under which `ExecutedOnce` seems to stand, and with keyspace events: which of its
  promises are left;
* where a restart leaves a request that no worker holds (`StagedRequestsAreListed`), the repair that would bring it
  back, as a change to the code that the model can judge.

## 6. Not modelled

* `service/file.go` and its handlers (`MountFile`, `UploadFileToCloud`, `DeleteFile` and the others in
  `control/project.go`), and with them `SendCacheUpdateByFileID`, `GetFolderIDsByFileID` and
  `UpdateFolderCachesByIDs`: no route leads there.
* The relation endpoints (`control/project.go:796-935`), `CreateUserVirtualRoot`, `GetTagsByVirtualFolderID`,
  `DeleteApproval`, `UpdateApprovalToCompleted`, `GetFileLocalPath`, `RemoveAIHelper`, `StoreRefreshToken`,
  `RevokeRefreshToken`, `CheckCode`, `DeleteChangeRequest`: no route or no caller. `SetCodeRateLimit` is called after
  each mail (`service/smtp.go:39`), but nothing reads the key it sets: the limit that counts is `SetRateLimit`'s.
* File lists in the cache: their source is `cloud_files`, to which no live code writes.
* Edits refused with an error before their first write: they change nothing and announce nothing.
* Endpoints that only read, apart from those whose answer a property is about.
* AI models, RAG, MCP tools, images, speech: calls to external services, whose results are passed on.
* The rate limiter: one token bucket of a library per address, created under a lock after a second look.
* Parsing, response bodies, logging, configuration, the content of mails; hashing of passwords (a password is
  compared as it is).
