---------------------------- MODULE FolderCache ----------------------------
(***************************************************************************)
(* The folders of one project in Redis: service/to_redis.go and            *)
(* service/redis_cache.go, which publish what changed, rabbitmq/to_redis.go*)
(* whose one consumer writes it, and the executor of approved batches,     *)
(* which writes the same keys itself.  A request, or the handling of a     *)
(* message, is a list of calls, one per step; what is left of the list is  *)
(* its state.  A rename gives a folder a new name, a move a new father.    *)
(* File lists are left out: they come from cloud_files, to which no route  *)
(* writes any more.  So is a request that fails a check before its first   *)
(* write and answers with an error: it changes nothing and sends nothing.  *)
(***************************************************************************)
EXTENDS CacheRequests

CONSTANTS
  RootID,                \* the root of the project; roots and folders are numbered apart
  ComparesDurability     \* does the broker compare a declaration with the queue it has?

\* The first mount row of a folder, None if it has none.
Mounts == [type : {"folder"}, id : Nat] \cup [type : {"root"}, id : {RootID}] \cup {None}
Rows == [name : Nat, father : Mounts, live : BOOLEAN]

\* Names and versions are numbers; None stands for what is not there.
ASSUME AbsenceAssumption ==
  /\ None \notin Folders /\ None \notin Nat /\ None \notin Rows /\ RootID \in Nat
  /\ None \notin [type : {"virtual_folder", "root"}, id : Nat]
  /\ None \notin [type : {"folder", "root"}, id : Nat]

VARIABLES
  tables,          \* tables[f]: row and mount in PostgreSQL, None before it has a row, not live once deleted
  entry,           \* entry[f]: fields of virfolder:{f}
  version,         \* version[f]: minor version in project:{p}:folders, None if absent
  projectVersion,  \* projectversion in project:{p}
  queue,           \* cache_updates
  consumer, call,  \* the message at hand, the requests at hand
  client,          \* a client that keeps folders and asks for what is new
  calls, faults,
  edits,           \* history: edits, and refusals answered like edits, that are to be announced
  crossed,         \* history: folders with overlapping requests
  raced,           \* history: folders whose version two could write at a time, or was taken away
  failed           \* history: folders of calls that failed, or were refused after a write, until
                   \* they are edited again

redis == <<entry, version, projectVersion>>
history == <<edits, crossed, raced, failed>>
vars == <<tables, redis, queue, consumer, call, client, calls, faults, history>>

NoEntry == [name |-> None, father |-> None]
Idle == [folder |-> None, reason |-> None, new |-> 0, name |-> None, father |-> None,
         version |-> None, todo |-> <<>>]
FirstRow == [name |-> 0, father |-> None, live |-> TRUE]

Init ==
  /\ tables \in [Folders -> {None, FirstRow}]
  /\ entry = [f \in Folders |-> NoEntry]
  /\ version = [f \in Folders |-> IF tables[f] = None THEN None ELSE 0]
  /\ projectVersion = 0 /\ queue = <<>>
  /\ consumer = Idle /\ call = [h \in Handlers |-> Idle]
  /\ client = [version |-> version, asked |-> version, copy |-> tables]
  /\ calls = 0 /\ faults = 0
  /\ edits = 0 /\ crossed = {} /\ raced = {} /\ failed = {}

-----------------------------------------------------------------------------
(* The broker.  The queue is declared as not durable when the process      *)
(* starts (InitRabbitMQ), and as durable by the consumer.  A broker that   *)
(* compares the two closes the one channel there is for good, and every    *)
(* Publish fails.                                                          *)

StartCacheUpdateConsumer == IF ComparesDurability THEN "closed" ELSE "consuming"
Channel == StartCacheUpdateConsumer

Publish(message) == IF Channel = "closed" THEN UNCHANGED queue ELSE queue' = Append(queue, message)

\* The messages of chat sessions go to the same queue (ChatSession).
PublishChat ==
  /\ calls + faults < MaxCalls /\ calls' = calls + 1
  /\ Publish([Idle EXCEPT !.reason = "chat"])
  /\ UNCHANGED <<tables, redis, consumer, call, client, faults, history>>

-----------------------------------------------------------------------------
(* Requests                                                                *)

SendCacheUpdateByVirtualFolderID == <<"collect", "publish">>
GetVirtualFolderWithCache == <<"lookup", "collect", "fill">>

CreateCalls == <<"insert">> \o SendCacheUpdateByVirtualFolderID
CreateMountedCalls == <<"insert", "mount">> \o SendCacheUpdateByVirtualFolderID
MessageFirst ==     \* Mutant of UpdateCalls: the message is built before the write
  SendCacheUpdateByVirtualFolderID \o <<"read", "save">>
UpdateCalls == <<"read", "save">> \o SendCacheUpdateByVirtualFolderID
MoveCalls == <<"detach", "attach">> \o SendCacheUpdateByVirtualFolderID
DeleteCalls == <<"drop">> \o SendCacheUpdateByVirtualFolderID
QueryCalls == GetVirtualFolderWithCache \o SendCacheUpdateByVirtualFolderID
CacheFirst ==     \* Mutant of BatchCalls: the cache is written before the tables
  <<"readVersion", "writeVersion", "writeName", "bumpProject", "read", "save">>
BatchCalls == <<"read", "save", "readVersion", "writeVersion", "writeName", "bumpProject">>

Exists(f) == tables[f] # None /\ tables[f].live
ActiveOn(f) == {h \in Handlers : call[h].folder = f}
Pending(f) == consumer.folder = f \/ \E i \in DOMAIN queue : queue[i].folder = f
Creating(f) ==
  \/ \E h \in ActiveOn(f) : call[h].reason = "create"
  \/ consumer.folder = f /\ consumer.reason = "create"
  \/ \E i \in DOMAIN queue : queue[i].folder = f /\ queue[i].reason = "create"

Racing(f, reason) ==
  \/ Creating(f)
  \/ reason = "batch" /\ (ActiveOn(f) # {} \/ Pending(f))
  \/ \E h \in ActiveOn(f) : call[h].reason = "batch"

Begin(h, f, reason, todo) ==
  /\ call[h] = Idle /\ calls + faults < MaxCalls
  /\ calls' = calls + 1
  /\ call' = [call EXCEPT ![h] = [Idle EXCEPT !.folder = f, !.reason = reason, !.new = calls + 1,
                                            !.todo = todo]]
  /\ crossed' = IF ActiveOn(f) # {} \/ (reason = "batch" /\ Pending(f)) THEN crossed \cup {f} ELSE crossed
  /\ raced' = IF Racing(f, reason) THEN raced \cup {f} ELSE raced
  /\ failed' = IF reason = "modify" THEN failed \ {f} ELSE failed
  /\ UNCHANGED <<tables, redis, queue, consumer, client, faults, edits>>

CreateVirtualFolder(h) ==
  \E f \in Folders, todo \in {CreateCalls, CreateMountedCalls} :
    /\ tables[f] = None /\ ~Creating(f)
    /\ Begin(h, f, "create", todo)
UpdateVirtualFolder(h) == \E f \in Folders : Exists(f) /\ Begin(h, f, "modify", UpdateCalls)
MoveVirtualFolder(h) == \E f \in Folders : Exists(f) /\ Begin(h, f, "modify", MoveCalls)
DeleteVirtualFolder(h) == \E f \in Folders : Exists(f) /\ Begin(h, f, "delete", DeleteCalls)
GetFolderInfo(h) == \E f \in Folders : Exists(f) /\ Begin(h, f, "query", QueryCalls)

\* Batches are executed one at a time; this one renames a folder.
ExecuteBatch(h) ==
  /\ \A g \in Handlers : call[g].reason # "batch"
  /\ \E f \in Folders : Exists(f) /\ Begin(h, f, "batch", BatchCalls)

-----------------------------------------------------------------------------
(* Calls of a request                                                      *)

At(h, step) == call[h].todo # <<>> /\ Head(call[h].todo) = step
Rest(c) == IF Len(c.todo) = 1 THEN Idle ELSE [c EXCEPT !.todo = Tail(@)]
Go(h, c) == call' = [call EXCEPT ![h] = Rest(c)]
Continue(h) == Go(h, call[h])
Return(h) == call' = [call EXCEPT ![h] = Idle]
Row(h) == tables[call[h].folder]
Found(h) == Exists(call[h].folder)

Write(h, row) ==
  /\ tables' = [tables EXCEPT ![call[h].folder] = row]
  /\ Continue(h)
  /\ UNCHANGED <<redis, queue, consumer, client, calls, faults, crossed, raced, failed>>

Insert(h) == At(h, "insert") /\ Write(h, FirstRow) /\ edits' = edits + 1

Read(h) ==
  /\ At(h, "read") /\ Found(h)
  /\ Continue(h)
  /\ UNCHANGED <<tables, redis, queue, consumer, client, calls, faults, history>>

\* Save writes the whole row, and inserts one that was deleted in between.
Save(h) ==
  /\ At(h, "save")
  /\ Write(h, [Row(h) EXCEPT !.name = call[h].new, !.live = TRUE]) /\ edits' = edits + 1

\* Without a mount the folder counts as one of the root.
Detach(h) ==
  /\ At(h, "detach") /\ Found(h)
  /\ Write(h, [Row(h) EXCEPT !.father = None]) /\ UNCHANGED edits

\* CreateMountRelation does not look at the folder it mounts.
FolderFather(h) == [type |-> "folder", id |-> call[h].new]
RootFather == [type |-> "root", id |-> RootID]
Attach(h) ==
  /\ At(h, "attach")
  /\ \E father \in {FolderFather(h), RootFather} : Write(h, [Row(h) EXCEPT !.father = father])
  /\ edits' = edits + 1
Mount(h) ==
  /\ At(h, "mount")
  /\ Write(h, [Row(h) EXCEPT !.father = FolderFather(h)]) /\ UNCHANGED edits

Drop(h) ==
  /\ At(h, "drop")
  /\ Write(h, [Row(h) EXCEPT !.live = FALSE]) /\ UNCHANGED edits

\* The user may not do it, or the new father is in another root: the service returns no error, and
\* the handler goes on as if it were done.
Overlook(h) ==
  /\ call[h].reason # "batch" /\ call[h].todo # <<>>
  /\ Head(call[h].todo) \in {"save", "detach", "attach", "mount", "drop"}
  /\ edits' = IF Head(call[h].todo) \in {"save", "attach"} THEN edits + 1 ELSE edits
  /\ Continue(h)
  /\ UNCHANGED <<tables, redis, queue, consumer, client, calls, faults, crossed, raced, failed>>

\* The folder has been deleted since the request began.
Refuse(h) ==
  /\ call[h].todo # <<>> /\ Head(call[h].todo) \in {"read", "detach"} /\ ~Found(h)
  /\ Return(h)
  /\ UNCHANGED <<tables, redis, queue, consumer, client, calls, faults, history>>

\* The new father is not there, or is in another root: the request ends without a message, though
\* the new folder has its row, and the moved one has lost its mounts.
RefuseMount(h) ==
  /\ call[h].todo # <<>> /\ Head(call[h].todo) \in {"attach", "mount"}
  /\ edits' = IF At(h, "mount") THEN edits - 1 ELSE edits
  /\ failed' = failed \cup {call[h].folder}
  /\ Return(h)
  /\ UNCHANGED <<tables, redis, queue, consumer, client, calls, faults, crossed, raced>>

Lookup(h) ==
  /\ At(h, "lookup")
  /\ IF entry[call[h].folder] = NoEntry THEN Continue(h) ELSE Return(h)
  /\ UNCHANGED <<tables, redis, queue, consumer, client, calls, faults, history>>

\* What the cache holds of a father: every mount row counts as one under a virtual folder.
CachedFather(father) ==
  IF father = None THEN [type |-> "root", id |-> RootID]
  ELSE [type |-> "virtual_folder", id |-> father.id]

\* The row, then the relation: read in one step.  A deleted folder is not found, and the request
\* ends without a message.
Collect(h) ==
  /\ At(h, "collect")
  /\ IF Found(h)
     THEN /\ Go(h, [call[h] EXCEPT !.name = Row(h).name, !.father = CachedFather(Row(h).father)])
          /\ UNCHANGED edits
     ELSE /\ Return(h)
          /\ edits' = IF call[h].reason \in {"create", "modify"} THEN edits - 1 ELSE edits
  /\ UNCHANGED <<tables, redis, queue, consumer, client, calls, faults, crossed, raced, failed>>

FillCache(h) ==
  /\ At(h, "fill")
  /\ entry' = [entry EXCEPT ![call[h].folder] = [name |-> call[h].name, father |-> call[h].father]]
  /\ Continue(h)
  /\ UNCHANGED <<tables, version, projectVersion, queue, consumer, client, calls, faults, history>>

\* A deletion is announced when it was overlooked: the folder has been found again.
SendMessage(h) ==
  /\ At(h, "publish")
  /\ Publish([call[h] EXCEPT !.new = 0, !.todo = <<>>])
  /\ IF call[h].reason = "delete" THEN edits' = edits + 1 /\ raced' = raced \cup {call[h].folder}
     ELSE UNCHANGED <<edits, raced>>
  /\ Continue(h)
  /\ UNCHANGED <<tables, redis, consumer, client, calls, faults, crossed, failed>>

IncrementVersion(v) == IF v = None THEN 0 ELSE v + 1

ReadVersion(h) ==
  /\ At(h, "readVersion")
  /\ Go(h, [call[h] EXCEPT !.version = version[call[h].folder]])
  /\ UNCHANGED <<tables, redis, queue, consumer, client, calls, faults, history>>

WriteVersion(h) ==
  /\ At(h, "writeVersion")
  /\ version' = [version EXCEPT ![call[h].folder] = IncrementVersion(call[h].version)]
  /\ Continue(h)
  /\ UNCHANGED <<tables, entry, projectVersion, queue, consumer, client, calls, faults, history>>

\* HSET of the field that the batch changed.
WriteName(h) ==
  /\ At(h, "writeName")
  /\ entry' = [entry EXCEPT ![call[h].folder].name = call[h].new]
  /\ Continue(h)
  /\ UNCHANGED <<tables, version, projectVersion, queue, consumer, client, calls, faults, history>>

BumpProject(h) ==
  /\ At(h, "bumpProject")
  /\ projectVersion' = projectVersion + 1
  /\ Continue(h)
  /\ UNCHANGED <<tables, entry, version, queue, consumer, client, calls, faults, history>>

-----------------------------------------------------------------------------
(* The consumer                                                            *)

HandleQueryUpdate == <<"writeEntry">>
HandleCreateUpdate == <<"incrementProject", "addFolder", "writeEntry">>
HandleModifyQuietly ==     \* Mutant of HandleModifyUpdate: the project keeps its version
  <<"readVersion", "writeVersion", "writeEntry">>
HandleModifyUpdate == <<"incrementProject", "readVersion", "writeVersion", "writeEntry">>
HandleDeleteUpdate == <<"incrementProject", "removeFolder", "deleteEntry">>

HandleCacheUpdateMessage(reason) ==
  CASE reason = "query" -> HandleQueryUpdate
    [] reason = "create" -> HandleCreateUpdate
    [] reason = "modify" -> HandleModifyUpdate
    [] reason = "delete" -> HandleDeleteUpdate

\* A message of a chat session has no reason that the handler knows.
Consume ==
  /\ Channel = "consuming" /\ consumer = Idle /\ queue # <<>>
  /\ queue' = Tail(queue)
  /\ consumer' = IF Head(queue).reason = "chat" THEN Idle
                 ELSE [Head(queue) EXCEPT !.todo = HandleCacheUpdateMessage(Head(queue).reason)]
  /\ UNCHANGED <<tables, redis, call, client, calls, faults, history>>

Handling(step) == consumer.todo # <<>> /\ Head(consumer.todo) = step

IncrementProjectVersion ==
  /\ Handling("incrementProject")
  /\ projectVersion' = projectVersion + 1
  /\ consumer' = Rest(consumer)
  /\ UNCHANGED <<tables, entry, version, queue, call, client, calls, faults, history>>

AddVirtualFolderToProject ==
  /\ Handling("addFolder")
  /\ version' = [version EXCEPT ![consumer.folder] = 0]
  /\ consumer' = Rest(consumer)
  /\ UNCHANGED <<tables, entry, projectVersion, queue, call, client, calls, faults, history>>

ReadFolderVersion ==
  /\ Handling("readVersion")
  /\ consumer' = Rest([consumer EXCEPT !.version = version[consumer.folder]])
  /\ UNCHANGED <<tables, redis, queue, call, client, calls, faults, history>>

WriteFolderVersion ==
  /\ Handling("writeVersion")
  /\ version' = [version EXCEPT ![consumer.folder] = IncrementVersion(consumer.version)]
  /\ consumer' = Rest(consumer)
  /\ UNCHANGED <<tables, entry, projectVersion, queue, call, client, calls, faults, history>>

UpdateVirtualFolderCache ==
  /\ Handling("writeEntry")
  /\ entry' = [entry EXCEPT ![consumer.folder] = [name |-> consumer.name, father |-> consumer.father]]
  /\ consumer' = Rest(consumer)
  /\ UNCHANGED <<tables, version, projectVersion, queue, call, client, calls, faults, history>>

RemoveVirtualFolderFromProject ==
  /\ Handling("removeFolder")
  /\ version' = [version EXCEPT ![consumer.folder] = None]
  /\ consumer' = Rest(consumer)
  /\ UNCHANGED <<tables, entry, projectVersion, queue, call, client, calls, faults, history>>

DeleteVirtualFolderCache ==
  /\ Handling("deleteEntry")
  /\ entry' = [entry EXCEPT ![consumer.folder] = NoEntry]
  /\ consumer' = Rest(consumer)
  /\ UNCHANGED <<tables, version, projectVersion, queue, call, client, calls, faults, history>>

-----------------------------------------------------------------------------
(* The client, expiry and failures                                         *)

\* CheckProjectVersion: no version of the project counts as no change; otherwise the versions of
\* all folders come back, and the client reads those that it has in another version, then asks again.
CheckProjectVersion ==
  /\ projectVersion > 0 /\ client.asked = client.version
  /\ client' = [client EXCEPT !.asked = version]
  /\ UNCHANGED <<tables, redis, queue, consumer, call, calls, faults, history>>

Fetch(f) ==
  /\ client.asked[f] # client.version[f]
  /\ client' = [client EXCEPT !.version[f] = client.asked[f], !.copy[f] = tables[f]]
  /\ UNCHANGED <<tables, redis, queue, consumer, call, calls, faults, history>>

ExpireEntry(f) ==
  /\ entry[f] # NoEntry /\ calls + faults < MaxCalls
  /\ calls' = calls + 1
  /\ entry' = [entry EXCEPT ![f] = NoEntry]
  /\ UNCHANGED <<tables, version, projectVersion, queue, consumer, call, client, faults, history>>

Fault(folders) ==
  /\ faults < MaxFaults /\ calls + faults < MaxCalls
  /\ faults' = faults + 1
  /\ failed' = failed \cup (folders \ {None})
  /\ UNCHANGED <<edits, crossed, raced>>

\* A cache that cannot be read counts as empty, one that cannot be filled is passed over, and a
\* father that cannot be read is taken to be the root.
FailingCall(h) ==
  /\ call[h].todo # <<>>
  /\ Fault({call[h].folder})
  /\ \/ IF At(h, "lookup") \/ At(h, "fill") THEN Continue(h) ELSE Return(h)
     \/ At(h, "collect") /\ Found(h) /\ Go(h, [call[h] EXCEPT !.name = Row(h).name, !.father = CachedFather(None)])
  /\ UNCHANGED <<tables, redis, queue, consumer, client, calls>>

FailingConsumer ==
  /\ consumer # Idle
  /\ Fault({consumer.folder})
  /\ consumer' = Idle
  /\ UNCHANGED <<tables, redis, queue, call, client, calls>>

\* Messages are acknowledged when they are delivered, and delivered as soon as they are there.
Restart ==
  /\ Fault({queue[i].folder : i \in DOMAIN queue} \cup {consumer.folder} \cup {call[h].folder : h \in Handlers})
  /\ queue' = <<>> /\ consumer' = Idle /\ call' = [h \in Handlers |-> Idle]
  /\ UNCHANGED <<tables, redis, client, calls>>

Step(h) ==
  \/ CreateVirtualFolder(h) \/ UpdateVirtualFolder(h) \/ MoveVirtualFolder(h)
  \/ DeleteVirtualFolder(h) \/ GetFolderInfo(h) \/ ExecuteBatch(h)
  \/ Insert(h) \/ Read(h) \/ Save(h) \/ Detach(h) \/ Attach(h) \/ Mount(h) \/ Drop(h)
  \/ Overlook(h) \/ Refuse(h) \/ RefuseMount(h) \/ Lookup(h)
  \/ Collect(h) \/ FillCache(h) \/ SendMessage(h) \/ ReadVersion(h)
  \/ WriteVersion(h) \/ WriteName(h) \/ BumpProject(h) \/ FailingCall(h)

ConsumerStep ==
  \/ Consume \/ IncrementProjectVersion \/ AddVirtualFolderToProject
  \/ ReadFolderVersion \/ WriteFolderVersion \/ UpdateVirtualFolderCache
  \/ RemoveVirtualFolderFromProject \/ DeleteVirtualFolderCache \/ FailingConsumer

Next ==
  \/ \E h \in Handlers : Step(h)
  \/ ConsumerStep
  \/ \E f \in Folders : Fetch(f) \/ ExpireEntry(f)
  \/ CheckProjectVersion \/ PublishChat \/ Restart

Spec == Init /\ [][Next]_vars

-----------------------------------------------------------------------------
(* What the cache promises while the channel is open                       *)

AtRest ==
  /\ Channel = "consuming" /\ queue = <<>> /\ consumer = Idle
  /\ \A h \in Handlers : call[h] = Idle

\* At rest, and if nothing has failed, the version of the project has moved once for every edit that
\* is announced, however the requests, the consumer and the executor overlapped.  A refusal that is
\* answered like an edit is announced like one (virtual_folder.go:168-170, 217-219, 230-231,
\* control/project.go:267-272, 298-303, 330-335).  Not announced are deletions, for their folder is
\* not found any more, edits that a deletion overtakes before their message is built (to_redis.go:36-41),
\* and what a new folder or a moved one has lost when its father is refused (virtual_folder.go:59-75, 260).
EditsAreCounted == AtRest /\ faults = 0 => projectVersion = edits

\* A client that holds a folder in its current version holds what is in the tables: every edit is
\* in the tables before it moves the version, and the client reads the version before the folder.
\* Not so if a batch for the folder overlapped with requests or messages (the executor and the
\* consumer read the version before they write it, and a slow one sets it back), if the folder
\* was edited before its creation had set the version to 1.0, if a refused deletion has taken its
\* version away (rabbitmq/to_redis.go:107-109), or if since the last edit a call failed or the
\* father of a new or a moved folder was refused (rabbitmq/to_redis.go:156-210,
\* approval_redis.go:172-186, mount_relation.go:31-68).
CopyIsCurrent ==
  \A f \in Folders \ (raced \cup failed) :
    AtRest /\ Exists(f) /\ client.version[f] = version[f] => client.copy[f] = tables[f]

\* A folder without a mount row lies under the root.
FatherOf(mount) ==
  IF mount = None \/ mount.type = "root" THEN [type |-> "root", id |-> RootID]
  ELSE [type |-> "virtual_folder", id |-> mount.id]

\* The cached fields of a folder are those in the tables, unless requests for it overlapped (a
\* message holds what was read before it was sent, and a batch does not wait for the messages) or,
\* since the last edit, a call failed or the father of a new or a moved folder was refused
\* (to_redis.go:35-90, redis_cache.go:98-183, approval_redis.go:126-135).  Of a folder with a mount
\* row under the root only the number of the father is right, its type is that of a folder
\* (to_redis.go:49-53, redis_cache.go:107-110).
EntryIsCurrent ==
  \A f \in Folders \ (crossed \cup failed) :
    AtRest /\ Exists(f) =>
      /\ entry[f].name \in {None, tables[f].name}
      /\ entry[f].father # None =>
           /\ entry[f].father.id = FatherOf(tables[f].father).id
           /\ tables[f].father # RootFather => entry[f].father = FatherOf(tables[f].father)
=============================================================================
