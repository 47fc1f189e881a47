----------------------------- MODULE CacheProofs -----------------------------
(* Proofs about the two caches, for every value of their constants:        *)
(* FolderCache, and after it TagCache.                                     *)
EXTENDS FolderCache, TagCache, Integers, SequenceTheorems, FiniteSetTheorems, TLAPS

(***************************************************************************)
(* The inductive invariant.  First what is left of each list of calls.     *)
(***************************************************************************)

Insert3  == <<"insert", "collect", "publish">>
Insert4  == <<"insert", "mount", "collect", "publish">>
Mount3   == <<"mount", "collect", "publish">>
Read4    == <<"read", "save", "collect", "publish">>
Save3    == <<"save", "collect", "publish">>
Detach4  == <<"detach", "attach", "collect", "publish">>
Attach3  == <<"attach", "collect", "publish">>
Drop3    == <<"drop", "collect", "publish">>
Lookup5  == <<"lookup", "collect", "fill", "collect", "publish">>
Collect4 == <<"collect", "fill", "collect", "publish">>
Fill3    == <<"fill", "collect", "publish">>
Collect2 == <<"collect", "publish">>
Publish1 == <<"publish">>

Batch6   == <<"read", "save", "readVersion", "writeVersion", "writeName", "bumpProject">>
Batch5   == <<"save", "readVersion", "writeVersion", "writeName", "bumpProject">>
Batch4   == <<"readVersion", "writeVersion", "writeName", "bumpProject">>
Batch3   == <<"writeVersion", "writeName", "bumpProject">>
Batch2   == <<"writeName", "bumpProject">>
Batch1   == <<"bumpProject">>

Create3  == <<"incrementProject", "addFolder", "writeEntry">>
Create2  == <<"addFolder", "writeEntry">>
Modify4  == <<"incrementProject", "readVersion", "writeVersion", "writeEntry">>
Modify3  == <<"readVersion", "writeVersion", "writeEntry">>
Modify2  == <<"writeVersion", "writeEntry">>
Delete3  == <<"incrementProject", "removeFolder", "deleteEntry">>
Delete2  == <<"removeFolder", "deleteEntry">>
Delete1  == <<"deleteEntry">>
Write1   == <<"writeEntry">>

HandlerLists == {Insert3, Insert4, Mount3, Read4, Save3, Detach4, Attach3, Drop3,
                 Lookup5, Collect4, Fill3, Collect2, Publish1,
                 Batch6, Batch5, Batch4, Batch3, Batch2, Batch1}
ConsumerLists == {Create3, Create2, Modify4, Modify3, Modify2, Delete3, Delete2, Delete1, Write1}

Versions == Nat \cup {None}
Fathers == [type : {"virtual_folder", "root"}, id : Nat] \cup {None}
Calls == [folder : Folders \cup {None},
          reason : {"create", "modify", "delete", "query", "batch", "chat", None},
          new : Nat, name : Versions, father : Fathers, version : Versions,
          todo : HandlerLists \cup ConsumerLists \cup {<<>>}]

Doing(c) ==
  \/ c.reason = "create" /\ c.todo \in {Insert3, Insert4, Mount3, Collect2, Publish1}
  \/ c.reason = "modify" /\ c.todo \in {Read4, Save3, Detach4, Attach3, Collect2, Publish1}
  \/ c.reason = "delete" /\ c.todo \in {Drop3, Collect2, Publish1}
  \/ c.reason = "query"  /\ c.todo \in {Lookup5, Collect4, Fill3, Collect2, Publish1}
  \/ c.reason = "batch"  /\ c.todo \in {Batch6, Batch5, Batch4, Batch3, Batch2, Batch1}

Serving(c) == c.folder \in Folders /\ Doing(c)

Handles(c) ==
  /\ c.folder \in Folders
  /\ \/ c.reason = "query"  /\ c.todo = Write1
     \/ c.reason = "create" /\ c.todo \in {Create3, Create2, Write1}
     \/ c.reason = "modify" /\ c.todo \in {Modify4, Modify3, Modify2, Write1}
     \/ c.reason = "delete" /\ c.todo \in {Delete3, Delete2, Delete1}

Reasons == {"create", "modify", "query", "delete"}
Message(m) ==
  \/ m.folder = None /\ m.reason = "chat"
  \/ m.folder \in Folders /\ m.reason \in Reasons

Tables == [Folders -> Rows \cup {None}]
CallsOK == call \in [Handlers -> Calls] /\ \A h \in Handlers : call[h] = Idle \/ Serving(call[h])
ConsumerOK == consumer \in Calls /\ (consumer = Idle \/ Handles(consumer))
QueueOK == queue \in Seq(Calls) /\ \A i \in DOMAIN queue : Message(queue[i])
CacheOK ==
  /\ entry \in [Folders -> [name : Versions, father : Fathers]]
  /\ version \in [Folders -> Versions] /\ projectVersion \in Nat
ClientOK == client \in [version : [Folders -> Versions], asked : [Folders -> Versions], copy : Tables]

TypesOK ==
  /\ tables \in Tables /\ CacheOK /\ CallsOK /\ ConsumerOK /\ QueueOK /\ ClientOK
  /\ calls \in Nat /\ faults \in Nat /\ edits \in Int

\* The call that is due.  One request creates a folder; all others follow it.
Due(c) == Head(c.todo)

Follows(c, f) ==
  /\ Due(c) = "insert" => tables[f] = None
  /\ Due(c) # "insert" => tables[f] # None

LivesOK == \A f \in Folders :
  /\ \A h \in ActiveOn(f) : Follows(call[h], f)
  /\ \A h, g \in ActiveOn(f) : call[h].reason = "create" /\ call[g].reason = "create" => h = g
  /\ Pending(f) => tables[f] # None

-----------------------------------------------------------------------------
(* The edits that the version of the project has still to be moved for.    *)

Owes(c) ==
  \/ c.reason = "create" /\ Due(c) \in {"mount", "collect", "publish"}
  \/ c.reason = "modify" /\ Due(c) \in {"collect", "publish"}
  \/ c.reason = "batch" /\ Due(c) \notin {"read", "save"}
Edited(m) == m.folder # None /\ m.reason \in {"create", "modify", "delete"}

OwingCalls == {h \in Handlers : call[h].folder # None /\ Owes(call[h])}
OwingMessages == {i \in DOMAIN queue : Edited(queue[i])}
ConsumerOwes == IF consumer.folder # None /\ Due(consumer) = "incrementProject" THEN 1 ELSE 0

EditsOwed ==
  faults = 0 =>
    /\ IsFiniteSet(OwingCalls)
    /\ edits = projectVersion + Cardinality(OwingCalls) + Cardinality(OwingMessages) + ConsumerOwes

-----------------------------------------------------------------------------
(* The version of a folder, and the client that compares it.  A request    *)
(* that creates a folder, or a batch that edits it, is alone with it; what *)
(* is read of the version is not stale then, and the version only grows.   *)

Rank(v) == IF v = None THEN 0 ELSE v + 1
InQueue(f) == \E i \in DOMAIN queue : queue[i].folder = f

CreateIsAlone(f) ==
  /\ \A h \in ActiveOn(f) : call[h].reason = "create" =>
       ActiveOn(f) = {h} /\ ~Pending(f) /\ version[f] = None
  /\ \A i \in DOMAIN queue : queue[i].folder = f /\ queue[i].reason = "create" =>
       /\ ActiveOn(f) = {} /\ consumer.folder # f /\ version[f] = None
       /\ \A j \in DOMAIN queue : queue[j].folder = f => i = j
  /\ consumer.folder = f /\ consumer.reason = "create" =>
       /\ ActiveOn(f) = {} /\ ~InQueue(f)
       /\ Due(consumer) # "writeEntry" => version[f] = None

BatchIsAlone(f) ==
  \A h \in ActiveOn(f) : call[h].reason = "batch" =>
    /\ ActiveOn(f) = {h} /\ ~Pending(f)
    /\ Due(call[h]) = "writeVersion" => call[h].version = version[f]

VersionIsRead(f) ==
  consumer.folder = f /\ Due(consumer) = "writeVersion" => consumer.version = version[f]

NoDeletion(f) ==
  /\ consumer.folder = f => consumer.reason # "delete"
  /\ \A i \in DOMAIN queue : queue[i].folder = f => queue[i].reason # "delete"

ClientIsBehind(f) ==
  Rank(client.version[f]) <= Rank(client.asked[f]) /\ Rank(client.asked[f]) <= Rank(version[f])

VersionOK(f) ==
  CreateIsAlone(f) /\ BatchIsAlone(f) /\ VersionIsRead(f) /\ NoDeletion(f) /\ ClientIsBehind(f)

VersionsOK ==
  /\ \A f \in Folders : tables[f] = None => version[f] = None
  /\ \A f \in Folders \ raced : VersionOK(f)

\* The version of the folder is still to be moved.
Changes(c) ==
  \/ c.reason \in {"create", "modify"}
  \/ c.reason = "batch" /\ Due(c) \in {"readVersion", "writeVersion"}
WillMove(f) ==
  \/ \E h \in ActiveOn(f) : Changes(call[h])
  \/ \E i \in DOMAIN queue : queue[i].folder = f /\ Edited(queue[i])
  \/ consumer.folder = f /\ Due(consumer) # "writeEntry"

CopyOK(f) ==
  Exists(f) /\ client.version[f] = version[f] => client.copy[f] = tables[f] \/ WillMove(f)

CopiesOK == \A f \in Folders \ (raced \cup failed) : CopyOK(f)

-----------------------------------------------------------------------------
(* The fields of a folder.  While a request that edits it is under way     *)
(* they may be anything: its message will follow all others.               *)

Fresh(m, f) == m.name = tables[f].name /\ m.father = CachedFather(tables[f].father)
Rewrites(f) == \E h \in ActiveOn(f) : call[h].reason \in {"create", "modify"}
LastAbout(i, f) == queue[i].folder = f /\ \A j \in DOMAIN queue : queue[j].folder = f => j <= i

RequestsInTurn(f) == \A h \in ActiveOn(f) :
  /\ ActiveOn(f) = {h} /\ (call[h].reason = "batch" => ~Pending(f))
  /\ Due(call[h]) = "save" => Exists(f)

SnapshotsOK(f) == \A h \in ActiveOn(f) :
  /\ Due(call[h]) \in {"publish", "fill"} => Fresh(call[h], f)
  /\ Due(call[h]) \in {"readVersion", "writeVersion", "writeName"} => tables[f].name = call[h].new

MessagesOK(f) ==
  /\ \A i \in DOMAIN queue : LastAbout(i, f) => Fresh(queue[i], f)
  /\ consumer.folder = f /\ ~InQueue(f) => Fresh(consumer, f)

Renaming(f) == \E h \in ActiveOn(f) : Due(call[h]) \in {"readVersion", "writeVersion", "writeName"}
EntryOK(f) ==
  /\ entry[f].father \in {None, CachedFather(tables[f].father)}
  /\ entry[f].name \in {None, tables[f].name} \/ Renaming(f)

FieldsOK(f) == Exists(f) =>
  /\ SnapshotsOK(f)
  /\ Rewrites(f) \/ MessagesOK(f)
  /\ Rewrites(f) \/ Pending(f) \/ EntryOK(f)

EntriesOK ==
  /\ \A f \in Folders \ crossed : RequestsInTurn(f)
  /\ \A f \in Folders \ (crossed \cup failed) : FieldsOK(f)

-----------------------------------------------------------------------------
(* Lists of calls.                                                         *)

USE AbsenceAssumption

LEMMA ListFacts ==
  /\ Head(Insert3) = "insert" /\ Len(Insert3) = 3 /\ Tail(Insert3) = Collect2
  /\ Head(Insert4) = "insert" /\ Len(Insert4) = 4 /\ Tail(Insert4) = Mount3
  /\ Head(Mount3) = "mount" /\ Len(Mount3) = 3 /\ Tail(Mount3) = Collect2
  /\ Head(Read4) = "read" /\ Len(Read4) = 4 /\ Tail(Read4) = Save3
  /\ Head(Save3) = "save" /\ Len(Save3) = 3 /\ Tail(Save3) = Collect2
  /\ Head(Detach4) = "detach" /\ Len(Detach4) = 4 /\ Tail(Detach4) = Attach3
  /\ Head(Attach3) = "attach" /\ Len(Attach3) = 3 /\ Tail(Attach3) = Collect2
  /\ Head(Drop3) = "drop" /\ Len(Drop3) = 3 /\ Tail(Drop3) = Collect2
  /\ Head(Lookup5) = "lookup" /\ Len(Lookup5) = 5 /\ Tail(Lookup5) = Collect4
  /\ Head(Collect4) = "collect" /\ Len(Collect4) = 4 /\ Tail(Collect4) = Fill3
  /\ Head(Fill3) = "fill" /\ Len(Fill3) = 3 /\ Tail(Fill3) = Collect2
  /\ Head(Collect2) = "collect" /\ Len(Collect2) = 2 /\ Tail(Collect2) = Publish1
  /\ Head(Publish1) = "publish" /\ Len(Publish1) = 1
  /\ Head(Batch6) = "read" /\ Len(Batch6) = 6 /\ Tail(Batch6) = Batch5
  /\ Head(Batch5) = "save" /\ Len(Batch5) = 5 /\ Tail(Batch5) = Batch4
  /\ Head(Batch4) = "readVersion" /\ Len(Batch4) = 4 /\ Tail(Batch4) = Batch3
  /\ Head(Batch3) = "writeVersion" /\ Len(Batch3) = 3 /\ Tail(Batch3) = Batch2
  /\ Head(Batch2) = "writeName" /\ Len(Batch2) = 2 /\ Tail(Batch2) = Batch1
  /\ Head(Batch1) = "bumpProject" /\ Len(Batch1) = 1
  /\ Head(Create3) = "incrementProject" /\ Len(Create3) = 3 /\ Tail(Create3) = Create2
  /\ Head(Create2) = "addFolder" /\ Len(Create2) = 2 /\ Tail(Create2) = Write1
  /\ Head(Modify4) = "incrementProject" /\ Len(Modify4) = 4 /\ Tail(Modify4) = Modify3
  /\ Head(Modify3) = "readVersion" /\ Len(Modify3) = 3 /\ Tail(Modify3) = Modify2
  /\ Head(Modify2) = "writeVersion" /\ Len(Modify2) = 2 /\ Tail(Modify2) = Write1
  /\ Head(Delete3) = "incrementProject" /\ Len(Delete3) = 3 /\ Tail(Delete3) = Delete2
  /\ Head(Delete2) = "removeFolder" /\ Len(Delete2) = 2 /\ Tail(Delete2) = Delete1
  /\ Head(Delete1) = "deleteEntry" /\ Len(Delete1) = 1
  /\ Head(Write1) = "writeEntry" /\ Len(Write1) = 1
BY DEF Insert3, Insert4, Mount3, Read4, Save3, Detach4, Attach3, Drop3, Lookup5, Collect4, Fill3,
       Collect2, Publish1, Batch6, Batch5, Batch4, Batch3, Batch2, Batch1, Create3, Create2,
       Modify4, Modify3, Modify2, Delete3, Delete2, Delete1, Write1

LEMMA Tails ==
  /\ Len(Insert3) # 1 /\ Tail(Insert3) = Collect2
  /\ Len(Insert4) # 1 /\ Tail(Insert4) = Mount3
  /\ Len(Mount3) # 1 /\ Tail(Mount3) = Collect2
  /\ Len(Read4) # 1 /\ Tail(Read4) = Save3
  /\ Len(Save3) # 1 /\ Tail(Save3) = Collect2
  /\ Len(Detach4) # 1 /\ Tail(Detach4) = Attach3
  /\ Len(Attach3) # 1 /\ Tail(Attach3) = Collect2
  /\ Len(Drop3) # 1 /\ Tail(Drop3) = Collect2
  /\ Len(Lookup5) # 1 /\ Tail(Lookup5) = Collect4
  /\ Len(Collect4) # 1 /\ Tail(Collect4) = Fill3
  /\ Len(Fill3) # 1 /\ Tail(Fill3) = Collect2
  /\ Len(Collect2) # 1 /\ Tail(Collect2) = Publish1
  /\ Len(Batch6) # 1 /\ Tail(Batch6) = Batch5
  /\ Len(Batch5) # 1 /\ Tail(Batch5) = Batch4
  /\ Len(Batch4) # 1 /\ Tail(Batch4) = Batch3
  /\ Len(Batch3) # 1 /\ Tail(Batch3) = Batch2
  /\ Len(Batch2) # 1 /\ Tail(Batch2) = Batch1
  /\ Len(Create3) # 1 /\ Tail(Create3) = Create2
  /\ Len(Create2) # 1 /\ Tail(Create2) = Write1
  /\ Len(Modify4) # 1 /\ Tail(Modify4) = Modify3
  /\ Len(Modify3) # 1 /\ Tail(Modify3) = Modify2
  /\ Len(Modify2) # 1 /\ Tail(Modify2) = Write1
  /\ Len(Delete3) # 1 /\ Tail(Delete3) = Delete2
  /\ Len(Delete2) # 1 /\ Tail(Delete2) = Delete1
  /\ Len(Publish1) = 1 /\ Len(Batch1) = 1 /\ Len(Delete1) = 1 /\ Len(Write1) = 1
<1>1. /\ Len(Insert3) # 1 /\ Tail(Insert3) = Collect2
      /\ Len(Insert4) # 1 /\ Tail(Insert4) = Mount3
      /\ Len(Mount3) # 1 /\ Tail(Mount3) = Collect2
      /\ Len(Read4) # 1 /\ Tail(Read4) = Save3
      /\ Len(Save3) # 1 /\ Tail(Save3) = Collect2
      /\ Len(Detach4) # 1 /\ Tail(Detach4) = Attach3
      /\ Len(Attach3) # 1 /\ Tail(Attach3) = Collect2
      /\ Len(Drop3) # 1 /\ Tail(Drop3) = Collect2
      /\ Len(Lookup5) # 1 /\ Tail(Lookup5) = Collect4
      /\ Len(Collect4) # 1 /\ Tail(Collect4) = Fill3
      /\ Len(Fill3) # 1 /\ Tail(Fill3) = Collect2
      /\ Len(Collect2) # 1 /\ Tail(Collect2) = Publish1
      /\ Len(Batch6) # 1 /\ Tail(Batch6) = Batch5
      /\ Len(Batch5) # 1 /\ Tail(Batch5) = Batch4
      /\ Len(Batch4) # 1 /\ Tail(Batch4) = Batch3
      /\ Len(Batch3) # 1 /\ Tail(Batch3) = Batch2
      /\ Len(Batch2) # 1 /\ Tail(Batch2) = Batch1
  BY DEF Insert3, Insert4, Mount3, Read4, Save3, Detach4, Attach3, Drop3, Lookup5, Collect4, Fill3,
         Collect2, Publish1, Batch6, Batch5, Batch4, Batch3, Batch2, Batch1
<1>2. /\ Len(Create3) # 1 /\ Tail(Create3) = Create2
      /\ Len(Create2) # 1 /\ Tail(Create2) = Write1
      /\ Len(Modify4) # 1 /\ Tail(Modify4) = Modify3
      /\ Len(Modify3) # 1 /\ Tail(Modify3) = Modify2
      /\ Len(Modify2) # 1 /\ Tail(Modify2) = Write1
      /\ Len(Delete3) # 1 /\ Tail(Delete3) = Delete2
      /\ Len(Delete2) # 1 /\ Tail(Delete2) = Delete1
      /\ Len(Publish1) = 1 /\ Len(Batch1) = 1 /\ Len(Delete1) = 1 /\ Len(Write1) = 1
  BY DEF Create3, Create2, Modify4, Modify3, Modify2, Delete3, Delete2, Delete1, Write1, Publish1, Batch1
<1> QED
  BY <1>1, <1>2, Zenon

LEMMA EmptyList ==
  /\ Len(<<>>) = 0
  /\ \A l \in HandlerLists \cup ConsumerLists : Len(l) # 0 /\ l # <<>>
<1>1. Len(<<>>) = 0
  OBVIOUS
<1>2. \A l \in HandlerLists : Len(l) # 0
  BY DEF HandlerLists, Insert3, Insert4, Mount3, Read4, Save3, Detach4, Attach3, Drop3, Lookup5, Collect4, Fill3,
         Collect2, Publish1, Batch6, Batch5, Batch4, Batch3, Batch2, Batch1
<1>3. \A l \in ConsumerLists : Len(l) # 0
  BY DEF ConsumerLists, Create3, Create2, Modify4, Modify3, Modify2, Delete3, Delete2, Delete1, Write1
<1> QED
  BY <1>1, <1>2, <1>3

Left(c, todo) == [c EXCEPT !.todo = todo]

\* What is left of a list when its head is done.
LEMMA Rests ==
  ASSUME NEW c
  PROVE  /\ c.todo = Insert3 => Rest(c) = Left(c, Collect2)
         /\ c.todo = Insert4 => Rest(c) = Left(c, Mount3)
         /\ c.todo = Mount3 => Rest(c) = Left(c, Collect2)
         /\ c.todo = Read4 => Rest(c) = Left(c, Save3)
         /\ c.todo = Save3 => Rest(c) = Left(c, Collect2)
         /\ c.todo = Detach4 => Rest(c) = Left(c, Attach3)
         /\ c.todo = Attach3 => Rest(c) = Left(c, Collect2)
         /\ c.todo = Drop3 => Rest(c) = Left(c, Collect2)
         /\ c.todo = Lookup5 => Rest(c) = Left(c, Collect4)
         /\ c.todo = Collect4 => Rest(c) = Left(c, Fill3)
         /\ c.todo = Fill3 => Rest(c) = Left(c, Collect2)
         /\ c.todo = Collect2 => Rest(c) = Left(c, Publish1)
         /\ c.todo = Batch6 => Rest(c) = Left(c, Batch5)
         /\ c.todo = Batch5 => Rest(c) = Left(c, Batch4)
         /\ c.todo = Batch4 => Rest(c) = Left(c, Batch3)
         /\ c.todo = Batch3 => Rest(c) = Left(c, Batch2)
         /\ c.todo = Batch2 => Rest(c) = Left(c, Batch1)
         /\ c.todo = Create3 => Rest(c) = Left(c, Create2)
         /\ c.todo = Create2 => Rest(c) = Left(c, Write1)
         /\ c.todo = Modify4 => Rest(c) = Left(c, Modify3)
         /\ c.todo = Modify3 => Rest(c) = Left(c, Modify2)
         /\ c.todo = Modify2 => Rest(c) = Left(c, Write1)
         /\ c.todo = Publish1 => Rest(c) = Idle
         /\ c.todo = Batch1 => Rest(c) = Idle
         /\ c.todo = Delete3 => Rest(c) = Left(c, Delete2)
         /\ c.todo = Delete2 => Rest(c) = Left(c, Delete1)
         /\ c.todo = Delete1 => Rest(c) = Idle
         /\ c.todo = Write1 => Rest(c) = Idle
<1>1. Len(c.todo) = 1 => Rest(c) = Idle
  BY DEF Rest
<1>2. Len(c.todo) # 1 => Rest(c) = Left(c, Tail(c.todo))
  BY DEF Rest, Left
<1> QED
  BY <1>1, <1>2, Tails, Zenon

LEMMA LeftKeeps ==
  ASSUME NEW c \in Calls, NEW todo \in HandlerLists \cup ConsumerLists
  PROVE  /\ Left(c, todo) \in Calls
         /\ Left(c, todo).todo = todo /\ Left(c, todo).folder = c.folder
         /\ Left(c, todo).reason = c.reason /\ Left(c, todo).new = c.new
         /\ Left(c, todo).name = c.name /\ Left(c, todo).father = c.father
         /\ Left(c, todo).version = c.version
BY DEF Left, Calls

\* What a call leaves of a request, or of the handling of a message: the rest, with its next call.
Keeps(c, d, step) ==
  /\ d \in Calls /\ d.folder = c.folder /\ d.reason = c.reason /\ d.new = c.new
  /\ d.name = c.name /\ d.father = c.father /\ d.version = c.version
  /\ Due(d) = step
Leads(c, step) == Keeps(c, Rest(c), step) /\ Serving(Rest(c))

LEMMA Serves ==
  ASSUME NEW c \in Calls, Serving(c)
  PROVE  /\ c.folder \in Folders /\ c.todo # <<>> /\ c # Idle
         /\ Due(c) = "insert" => c.reason = "create" /\ (Leads(c, "collect") \/ Leads(c, "mount"))
         /\ Due(c) = "mount" => c.reason = "create" /\ Leads(c, "collect")
         /\ Due(c) = "read" => c.reason \in {"modify", "batch"} /\ Leads(c, "save")
         /\ Due(c) = "save" => \/ c.reason = "modify" /\ Leads(c, "collect")
                               \/ c.reason = "batch" /\ Leads(c, "readVersion")
         /\ Due(c) = "detach" => c.reason = "modify" /\ Leads(c, "attach")
         /\ Due(c) = "attach" => c.reason = "modify" /\ Leads(c, "collect")
         /\ Due(c) = "drop" => c.reason = "delete" /\ Leads(c, "collect")
         /\ Due(c) = "lookup" => c.reason = "query" /\ Leads(c, "collect")
         /\ Due(c) = "collect" => \/ c.reason = "query" /\ Leads(c, "fill")
                                  \/ c.reason \in Reasons /\ Leads(c, "publish")
         /\ Due(c) = "fill" => c.reason = "query" /\ Leads(c, "collect")
         /\ Due(c) = "publish" => c.reason \in Reasons /\ Rest(c) = Idle
         /\ Due(c) = "readVersion" => c.reason = "batch" /\ Leads(c, "writeVersion")
         /\ Due(c) = "writeVersion" => c.reason = "batch" /\ Leads(c, "writeName")
         /\ Due(c) = "writeName" => c.reason = "batch" /\ Leads(c, "bumpProject")
         /\ Due(c) = "bumpProject" => c.reason = "batch" /\ Rest(c) = Idle
<1>1. c.todo \in HandlerLists
  BY DEF Serving, Doing, HandlerLists
<1>2. c.folder \in Folders /\ c.todo # <<>> /\ c # Idle
  BY <1>1, EmptyList DEF Serving, Idle
<1>3. \A todo \in HandlerLists : Rest(c) = Left(c, todo) => Keeps(c, Rest(c), Head(todo))
  BY LeftKeeps DEF Keeps, Due
<1>4. \A todo : /\ Rest(c) = Left(c, todo)
                /\ \/ c.reason = "create" /\ todo \in {Mount3, Collect2, Publish1}
                   \/ c.reason = "modify" /\ todo \in {Save3, Attach3, Collect2, Publish1}
                   \/ c.reason = "delete" /\ todo \in {Collect2, Publish1}
                   \/ c.reason = "query" /\ todo \in {Collect4, Fill3, Collect2, Publish1}
                   \/ c.reason = "batch" /\ todo \in {Batch5, Batch4, Batch3, Batch2, Batch1}
                => Leads(c, Head(todo))
  <2> SUFFICES ASSUME NEW todo, Rest(c) = Left(c, todo),
                      \/ c.reason = "create" /\ todo \in {Mount3, Collect2, Publish1}
                      \/ c.reason = "modify" /\ todo \in {Save3, Attach3, Collect2, Publish1}
                      \/ c.reason = "delete" /\ todo \in {Collect2, Publish1}
                      \/ c.reason = "query" /\ todo \in {Collect4, Fill3, Collect2, Publish1}
                      \/ c.reason = "batch" /\ todo \in {Batch5, Batch4, Batch3, Batch2, Batch1}
               PROVE  Leads(c, Head(todo))
    OBVIOUS
  <2>1. todo \in HandlerLists
    BY DEF HandlerLists
  <2>2. Rest(c).todo = todo /\ Rest(c).reason = c.reason /\ Rest(c).folder = c.folder
    BY <2>1, LeftKeeps
  <2>3. Serving(Rest(c))
    BY <2>2, <1>2 DEF Serving, Doing
  <2> QED
    BY <1>3, <2>1, <2>3 DEF Leads
<1>5. CASE c.reason = "create"
  <2>1. CASE c.todo = Insert3
    BY <1>5, <2>1, <1>2, <1>4, ListFacts, Rests DEF Due
  <2>2. CASE c.todo = Insert4
    BY <1>5, <2>2, <1>2, <1>4, ListFacts, Rests DEF Due
  <2>3. CASE c.todo = Mount3
    BY <1>5, <2>3, <1>2, <1>4, ListFacts, Rests DEF Due
  <2>4. CASE c.todo = Collect2
    BY <1>5, <2>4, <1>2, <1>4, ListFacts, Rests DEF Due, Reasons
  <2>5. CASE c.todo = Publish1
    BY <1>5, <2>5, <1>2, <1>4, ListFacts, Rests DEF Due, Reasons
  <2> QED
    BY <1>5, <2>1, <2>2, <2>3, <2>4, <2>5 DEF Serving, Doing
<1>6. CASE c.reason = "modify"
  <2>1. CASE c.todo = Read4
    BY <1>6, <2>1, <1>2, <1>4, ListFacts, Rests DEF Due
  <2>2. CASE c.todo = Save3
    BY <1>6, <2>2, <1>2, <1>4, ListFacts, Rests DEF Due
  <2>3. CASE c.todo = Detach4
    BY <1>6, <2>3, <1>2, <1>4, ListFacts, Rests DEF Due
  <2>4. CASE c.todo = Attach3
    BY <1>6, <2>4, <1>2, <1>4, ListFacts, Rests DEF Due
  <2>5. CASE c.todo = Collect2
    BY <1>6, <2>5, <1>2, <1>4, ListFacts, Rests DEF Due, Reasons
  <2>6. CASE c.todo = Publish1
    BY <1>6, <2>6, <1>2, <1>4, ListFacts, Rests DEF Due, Reasons
  <2> QED
    BY <1>6, <2>1, <2>2, <2>3, <2>4, <2>5, <2>6 DEF Serving, Doing
<1>7. CASE c.reason = "delete"
  <2>1. CASE c.todo = Drop3
    BY <1>7, <2>1, <1>2, <1>4, ListFacts, Rests DEF Due
  <2>2. CASE c.todo = Collect2
    BY <1>7, <2>2, <1>2, <1>4, ListFacts, Rests DEF Due, Reasons
  <2>3. CASE c.todo = Publish1
    BY <1>7, <2>3, <1>2, <1>4, ListFacts, Rests DEF Due, Reasons
  <2> QED
    BY <1>7, <2>1, <2>2, <2>3 DEF Serving, Doing
<1>8. CASE c.reason = "query"
  <2>1. CASE c.todo = Lookup5
    BY <1>8, <2>1, <1>2, <1>4, ListFacts, Rests DEF Due
  <2>2. CASE c.todo = Collect4
    BY <1>8, <2>2, <1>2, <1>4, ListFacts, Rests DEF Due
  <2>3. CASE c.todo = Fill3
    BY <1>8, <2>3, <1>2, <1>4, ListFacts, Rests DEF Due
  <2>4. CASE c.todo = Collect2
    BY <1>8, <2>4, <1>2, <1>4, ListFacts, Rests DEF Due, Reasons
  <2>5. CASE c.todo = Publish1
    BY <1>8, <2>5, <1>2, <1>4, ListFacts, Rests DEF Due, Reasons
  <2> QED
    BY <1>8, <2>1, <2>2, <2>3, <2>4, <2>5 DEF Serving, Doing
<1>9. CASE c.reason = "batch"
  <2>1. CASE c.todo \in {Batch6, Batch5}
    BY <1>9, <2>1, <1>2, <1>4, ListFacts, Rests DEF Due
  <2>2. CASE c.todo \in {Batch4, Batch3}
    BY <1>9, <2>2, <1>2, <1>4, ListFacts, Rests DEF Due
  <2>3. CASE c.todo \in {Batch2, Batch1}
    BY <1>9, <2>3, <1>2, <1>4, ListFacts, Rests DEF Due
  <2> QED
    BY <1>9, <2>1, <2>2, <2>3 DEF Serving, Doing
<1> QED
  BY <1>5, <1>6, <1>7, <1>8, <1>9 DEF Serving, Doing

Hands(c, step) == Keeps(c, Rest(c), step) /\ Handles(Rest(c))

LEMMA Handled ==
  ASSUME NEW c \in Calls, Handles(c)
  PROVE  /\ c.folder \in Folders /\ c.todo # <<>> /\ c # Idle
         /\ c.reason \in Reasons
         /\ Due(c) \in {"incrementProject", "addFolder", "readVersion", "writeVersion", "writeEntry",
                       "removeFolder", "deleteEntry"}
         /\ Due(c) = "incrementProject" => \/ c.reason = "create" /\ Hands(c, "addFolder")
                                           \/ c.reason = "modify" /\ Hands(c, "readVersion")
                                           \/ c.reason = "delete" /\ Hands(c, "removeFolder")
         /\ Due(c) = "addFolder" => c.reason = "create" /\ Hands(c, "writeEntry")
         /\ Due(c) = "readVersion" => c.reason = "modify" /\ Hands(c, "writeVersion")
         /\ Due(c) = "writeVersion" => c.reason = "modify" /\ Hands(c, "writeEntry")
         /\ Due(c) = "removeFolder" => c.reason = "delete" /\ Hands(c, "deleteEntry")
         /\ Due(c) = "deleteEntry" => c.reason = "delete" /\ Rest(c) = Idle
         /\ Due(c) = "writeEntry" => c.reason # "delete" /\ Rest(c) = Idle
<1>1. c.todo \in ConsumerLists
  BY DEF Handles, ConsumerLists
<1>2. c.folder \in Folders /\ c.todo # <<>> /\ c # Idle
  BY <1>1, EmptyList DEF Handles, Idle
<1>3. \A todo : /\ Rest(c) = Left(c, todo)
                /\ \/ c.reason = "create" /\ todo \in {Create2, Write1}
                   \/ c.reason = "modify" /\ todo \in {Modify3, Modify2, Write1}
                   \/ c.reason = "delete" /\ todo \in {Delete2, Delete1}
                => Hands(c, Head(todo))
  <2> SUFFICES ASSUME NEW todo, Rest(c) = Left(c, todo),
                      \/ c.reason = "create" /\ todo \in {Create2, Write1}
                      \/ c.reason = "modify" /\ todo \in {Modify3, Modify2, Write1}
                      \/ c.reason = "delete" /\ todo \in {Delete2, Delete1}
               PROVE  Hands(c, Head(todo))
    OBVIOUS
  <2>1. todo \in ConsumerLists
    BY DEF ConsumerLists
  <2>2. Keeps(c, Rest(c), Head(todo)) /\ Rest(c).todo = todo
    BY <2>1, LeftKeeps DEF Keeps, Due
  <2> QED
    BY <2>2, <1>2 DEF Hands, Handles, Keeps
<1> QED
  <2>1. CASE c.todo = Create3
    BY <2>1, <1>2, <1>3, ListFacts, Rests DEF Handles, Due, Reasons
  <2>2. CASE c.todo = Create2
    <3>1. Due(c) = "addFolder" /\ Rest(c) = Left(c, Write1) /\ Head(Write1) = "writeEntry"
      BY <2>2, ListFacts, Rests DEF Due
    <3>2. c.reason = "create"
      BY <2>2, ListFacts DEF Handles
    <3>3. Hands(c, "writeEntry")
      BY <3>1, <3>2, <1>3
    <3> QED
      BY <1>2, <3>1, <3>2, <3>3 DEF Reasons
  <2>3. CASE c.todo = Modify4
    BY <2>3, <1>2, <1>3, ListFacts, Rests DEF Handles, Due, Reasons
  <2>4. CASE c.todo = Modify3
    BY <2>4, <1>2, <1>3, ListFacts, Rests DEF Handles, Due, Reasons
  <2>5. CASE c.todo = Modify2
    <3>1. Due(c) = "writeVersion" /\ Rest(c) = Left(c, Write1) /\ Head(Write1) = "writeEntry"
      BY <2>5, ListFacts, Rests DEF Due
    <3>2. c.reason = "modify"
      BY <2>5, ListFacts DEF Handles
    <3>3. Hands(c, "writeEntry")
      BY <3>1, <3>2, <1>3
    <3> QED
      BY <1>2, <3>1, <3>2, <3>3 DEF Reasons
  <2>6. CASE c.todo = Write1
    BY <2>6, <1>2, <1>3, ListFacts, Rests DEF Handles, Due, Reasons
  <2>7. CASE c.todo = Delete3
    BY <2>7, <1>2, <1>3, ListFacts, Rests DEF Handles, Due, Reasons
  <2>8. CASE c.todo = Delete2
    BY <2>8, <1>2, <1>3, ListFacts, Rests DEF Handles, Due, Reasons
  <2>9. CASE c.todo = Delete1
    BY <2>9, <1>2, <1>3, ListFacts, Rests DEF Handles, Due, Reasons
  <2> QED
    BY <2>1, <2>2, <2>3, <2>4, <2>5, <2>6, <2>7, <2>8, <2>9 DEF Handles

-----------------------------------------------------------------------------
(* Types, and the lives of folders.                                        *)

Open == Channel = "consuming"
Moves(h, d) == call' = [call EXCEPT ![h] = d]

LEMMA IdleFacts ==
  /\ Idle \in Calls /\ Idle.folder = None /\ Idle.todo = <<>>
  /\ \A c \in Calls : Serving(c) \/ Handles(c) => c.folder \in Folders /\ c.folder # None /\ c # Idle
BY DEF Idle, Calls, Versions, Fathers, Serving, Handles

\* A request at hand.
LEMMA AtHand ==
  ASSUME CallsOK, NEW h \in Handlers, call[h].todo # <<>> \/ call[h].folder # None
  PROVE  /\ call[h] \in Calls /\ Serving(call[h]) /\ call[h] # Idle
         /\ call[h].folder \in Folders /\ h \in ActiveOn(call[h].folder)
BY IdleFacts DEF CallsOK, ActiveOn

LEMMA ActiveServes ==
  ASSUME CallsOK, NEW f \in Folders, NEW h \in ActiveOn(f)
  PROVE  h \in Handlers /\ call[h] \in Calls /\ Serving(call[h]) /\ call[h].folder = f
BY AtHand DEF ActiveOn

LEMMA MovesOK ==
  ASSUME CallsOK, NEW h \in Handlers, NEW d \in Calls, d = Idle \/ Serving(d), Moves(h, d)
  PROVE  /\ CallsOK'
         /\ call'[h] = d /\ \A g \in Handlers \ {h} : call'[g] = call[g]
BY DEF CallsOK, Moves

\* The handlers on a folder, after one of them has gone on, ended, or begun.
LEMMA ActiveAfter ==
  ASSUME CallsOK, NEW h \in Handlers, NEW d, Moves(h, d), NEW f \in Folders
  PROVE  /\ d.folder = call[h].folder => ActiveOn(f)' = ActiveOn(f)
         /\ d.folder = None => ActiveOn(f)' = ActiveOn(f) \ {h}
         /\ call[h].folder = None => ActiveOn(f)' = ActiveOn(f) \cup (IF d.folder = f THEN {h} ELSE {})
<1>1. \A g \in Handlers : call'[g] = IF g = h THEN d ELSE call[g]
  BY DEF CallsOK, Moves
<1>2. ActiveOn(f)' = {g \in Handlers : call'[g].folder = f}
  BY DEF ActiveOn
<1> QED
  BY <1>1, <1>2 DEF ActiveOn

\* A request that begins.
Starts(f, reason, todo) ==
  \/ reason = "create" /\ todo \in {Insert3, Insert4} /\ tables[f] = None /\ ~Creating(f)
  \/ /\ Exists(f)
     /\ \/ reason = "modify" /\ todo \in {Read4, Detach4}
        \/ reason = "delete" /\ todo = Drop3
        \/ reason = "query" /\ todo = Lookup5
        \/ reason = "batch" /\ todo = Batch6
BeginsOn(h, f, reason, todo) == Starts(f, reason, todo) /\ Begin(h, f, reason, todo)
New(f, reason, todo) ==
  [Idle EXCEPT !.folder = f, !.reason = reason, !.new = calls + 1, !.todo = todo]

Beginning(h) ==
  \/ CreateVirtualFolder(h) \/ UpdateVirtualFolder(h) \/ MoveVirtualFolder(h)
  \/ DeleteVirtualFolder(h) \/ GetFolderInfo(h) \/ ExecuteBatch(h)

Words == {"insert", "mount", "read", "save", "detach", "attach", "drop", "lookup", "collect", "fill", "publish"}

LEMMA Joined ==
  ASSUME NEW S, NEW s \in Seq(S), NEW t \in Seq(S), NEW u \in Seq(S), Len(u) = Len(s) + Len(t),
         \A i \in 1..Len(u) : u[i] = IF i <= Len(s) THEN s[i] ELSE t[i - Len(s)]
  PROVE  s \o t = u
<1>1. /\ s \o t \in Seq(S) /\ Len(s \o t) = Len(s) + Len(t)
      /\ \A i \in 1..Len(s) + Len(t) : (s \o t)[i] = IF i <= Len(s) THEN s[i] ELSE t[i - Len(s)]
  BY ConcatProperties
<1> QED
  BY <1>1, SeqEqual

LEMMA Lists ==
  /\ CreateCalls = Insert3 /\ CreateMountedCalls = Insert4 /\ UpdateCalls = Read4
  /\ MoveCalls = Detach4 /\ DeleteCalls = Drop3 /\ QueryCalls = Lookup5 /\ BatchCalls = Batch6
<1>1. CreateCalls = Insert3
  <2> DEFINE s == <<"insert">>  t == <<"collect", "publish">>
  <2>1. s \in Seq(Words) /\ t \in Seq(Words) /\ Insert3 \in Seq(Words)
    BY DEF Insert3, Words
  <2>2. Len(Insert3) = Len(s) + Len(t)
    BY DEF Insert3
  <2>3. \A i \in 1..Len(Insert3) : Insert3[i] = IF i <= Len(s) THEN s[i] ELSE t[i - Len(s)]
    BY DEF Insert3
  <2>4. s \o t = Insert3
    BY <2>1, <2>2, <2>3, Joined
  <2> QED
    BY <2>4 DEF CreateCalls, SendCacheUpdateByVirtualFolderID
<1>2. UpdateCalls = Read4
  <2> DEFINE s == <<"read", "save">>  t == <<"collect", "publish">>
  <2>1. s \in Seq(Words) /\ t \in Seq(Words) /\ Read4 \in Seq(Words)
    BY DEF Read4, Words
  <2>2. Len(Read4) = Len(s) + Len(t)
    BY DEF Read4
  <2>3. \A i \in 1..Len(Read4) : Read4[i] = IF i <= Len(s) THEN s[i] ELSE t[i - Len(s)]
    BY DEF Read4
  <2>4. s \o t = Read4
    BY <2>1, <2>2, <2>3, Joined
  <2> QED
    BY <2>4 DEF UpdateCalls, SendCacheUpdateByVirtualFolderID
<1>3. MoveCalls = Detach4
  <2> DEFINE s == <<"detach", "attach">>  t == <<"collect", "publish">>
  <2>1. s \in Seq(Words) /\ t \in Seq(Words) /\ Detach4 \in Seq(Words)
    BY DEF Detach4, Words
  <2>2. Len(Detach4) = Len(s) + Len(t)
    BY DEF Detach4
  <2>3. \A i \in 1..Len(Detach4) : Detach4[i] = IF i <= Len(s) THEN s[i] ELSE t[i - Len(s)]
    BY DEF Detach4
  <2>4. s \o t = Detach4
    BY <2>1, <2>2, <2>3, Joined
  <2> QED
    BY <2>4 DEF MoveCalls, SendCacheUpdateByVirtualFolderID
<1>4. DeleteCalls = Drop3
  <2> DEFINE s == <<"drop">>  t == <<"collect", "publish">>
  <2>1. s \in Seq(Words) /\ t \in Seq(Words) /\ Drop3 \in Seq(Words)
    BY DEF Drop3, Words
  <2>2. Len(Drop3) = Len(s) + Len(t)
    BY DEF Drop3
  <2>3. \A i \in 1..Len(Drop3) : Drop3[i] = IF i <= Len(s) THEN s[i] ELSE t[i - Len(s)]
    BY DEF Drop3
  <2>4. s \o t = Drop3
    BY <2>1, <2>2, <2>3, Joined
  <2> QED
    BY <2>4 DEF DeleteCalls, SendCacheUpdateByVirtualFolderID
<1>5. QueryCalls = Lookup5
  <2> DEFINE s == <<"lookup", "collect", "fill">>  t == <<"collect", "publish">>
  <2>1. s \in Seq(Words) /\ t \in Seq(Words) /\ Lookup5 \in Seq(Words)
    BY DEF Lookup5, Words
  <2>2. Len(Lookup5) = Len(s) + Len(t)
    BY DEF Lookup5
  <2>3. \A i \in 1..Len(Lookup5) : Lookup5[i] = IF i <= Len(s) THEN s[i] ELSE t[i - Len(s)]
    BY DEF Lookup5
  <2>4. s \o t = Lookup5
    BY <2>1, <2>2, <2>3, Joined
  <2> QED
    BY <2>4 DEF QueryCalls, GetVirtualFolderWithCache, SendCacheUpdateByVirtualFolderID
<1>6. BatchCalls = Batch6
  BY DEF BatchCalls, Batch6
<1>7. CreateMountedCalls = Insert4
  <2> DEFINE s == <<"insert", "mount">>  t == <<"collect", "publish">>
  <2>1. s \in Seq(Words) /\ t \in Seq(Words) /\ Insert4 \in Seq(Words)
    BY DEF Insert4, Words
  <2>2. Len(Insert4) = Len(s) + Len(t)
    BY DEF Insert4
  <2>3. \A i \in 1..Len(Insert4) : Insert4[i] = IF i <= Len(s) THEN s[i] ELSE t[i - Len(s)]
    BY DEF Insert4
  <2>4. s \o t = Insert4
    BY <2>1, <2>2, <2>3, Joined
  <2> QED
    BY <2>4 DEF CreateMountedCalls, SendCacheUpdateByVirtualFolderID
<1> QED
  BY <1>1, <1>2, <1>3, <1>4, <1>5, <1>6, <1>7

LEMMA Beginnings ==
  ASSUME NEW h, Beginning(h)
  PROVE  \E f \in Folders, reason \in {"create", "modify", "delete", "query", "batch"}, todo \in HandlerLists :
           BeginsOn(h, f, reason, todo)
<1> USE DEF BeginsOn, Starts, HandlerLists
<1>1. CASE CreateVirtualFolder(h)
  BY <1>1, Lists DEF CreateVirtualFolder
<1>2. CASE UpdateVirtualFolder(h)
  BY <1>2, Lists DEF UpdateVirtualFolder
<1>3. CASE MoveVirtualFolder(h)
  BY <1>3, Lists DEF MoveVirtualFolder
<1>4. CASE DeleteVirtualFolder(h)
  BY <1>4, Lists DEF DeleteVirtualFolder
<1>5. CASE GetFolderInfo(h)
  BY <1>5, Lists DEF GetFolderInfo
<1>6. CASE ExecuteBatch(h)
  BY <1>6, Lists DEF ExecuteBatch
<1> QED
  BY <1>1, <1>2, <1>3, <1>4, <1>5, <1>6 DEF Beginning

LEMMA NewFacts ==
  ASSUME NEW f \in Folders, NEW reason \in {"create", "modify", "delete", "query", "batch"},
         NEW todo \in HandlerLists, Starts(f, reason, todo), calls \in Nat
  PROVE  LET d == New(f, reason, todo) IN
         /\ d \in Calls /\ Serving(d) /\ d.folder = f /\ d.reason = reason
         /\ Due(d) = Head(todo)
         /\ reason = "create" => Due(d) = "insert"
         /\ reason = "modify" => Due(d) \in {"read", "detach"}
         /\ reason = "delete" => Due(d) = "drop"
         /\ reason = "query" => Due(d) = "lookup"
         /\ reason = "batch" => Due(d) = "read"
<1> DEFINE d == New(f, reason, todo)
<1>1. d \in Calls /\ d.folder = f /\ d.reason = reason /\ d.todo = todo
  <2> DEFINE d1 == [Idle EXCEPT !.folder = f]
             d2 == [d1 EXCEPT !.reason = reason]
             d3 == [d2 EXCEPT !.new = calls + 1]
             d4 == [d3 EXCEPT !.todo = todo]
  <2>1. d1 \in Calls /\ d1.folder = f
    BY IdleFacts DEF Calls
  <2> HIDE DEF d1
  <2>2. d2 \in Calls /\ d2.folder = f /\ d2.reason = reason
    BY <2>1 DEF Calls
  <2> HIDE DEF d2
  <2>3. d3 \in Calls /\ d3.folder = f /\ d3.reason = reason
    BY <2>2 DEF Calls
  <2> HIDE DEF d3
  <2>4. d4 \in Calls /\ d4.folder = f /\ d4.reason = reason /\ d4.todo = todo
    BY <2>3 DEF Calls
  <2>5. d = d4
    BY DEF New, d1, d2, d3
  <2> QED
    BY <2>4, <2>5
<1>2. Serving(d)
  BY <1>1 DEF Serving, Doing, Starts
<1>3. Head(todo) = CASE reason = "create" -> "insert" [] reason = "delete" -> "drop"
                     [] reason = "query" -> "lookup" [] reason = "batch" -> "read"
                     [] reason = "modify" -> IF todo = Read4 THEN "read" ELSE "detach"
  BY ListFacts DEF Starts
<1> QED
  BY <1>1, <1>2, <1>3 DEF Due

-----------------------------------------------------------------------------
(* Every step keeps the types.                                             *)

LEMMA BeginTypes ==
  ASSUME TypesOK, NEW h \in Handlers, NEW f \in Folders,
         NEW reason \in {"create", "modify", "delete", "query", "batch"}, NEW todo \in HandlerLists,
         BeginsOn(h, f, reason, todo)
  PROVE  /\ TypesOK'
         /\ call[h] = Idle /\ Moves(h, New(f, reason, todo)) /\ call'[h] = New(f, reason, todo)
         /\ \A g \in Handlers \ {h} : call'[g] = call[g]
<1>1. /\ call[h] = Idle /\ Moves(h, New(f, reason, todo)) /\ calls' = calls + 1
      /\ UNCHANGED <<tables, entry, version, projectVersion, queue, consumer, client, faults, edits>>
  BY DEF BeginsOn, Begin, Moves, New, redis
<1>2. New(f, reason, todo) \in Calls /\ Serving(New(f, reason, todo))
  BY NewFacts DEF BeginsOn, TypesOK
<1>3. CallsOK' /\ call'[h] = New(f, reason, todo) /\ \A g \in Handlers \ {h} : call'[g] = call[g]
  BY <1>1, <1>2, MovesOK DEF TypesOK
<1> QED
  BY <1>1, <1>3 DEF TypesOK, ConsumerOK, QueueOK, ClientOK, CacheOK

\* What the step of a request leaves alone, once it is known where it leads.
LEMMA StepTypes ==
  ASSUME TypesOK, NEW h \in Handlers, NEW d \in Calls, d = Idle \/ Serving(d), Moves(h, d),
         tables' \in Tables, CacheOK', QueueOK', calls' \in Nat, faults' \in Nat, edits' \in Int,
         UNCHANGED <<consumer, client>>
  PROVE  TypesOK'
BY MovesOK DEF TypesOK, ConsumerOK, ClientOK

LEMMA Found1 ==
  ASSUME TypesOK, NEW h \in Handlers, call[h].folder \in Folders, Row(h) # None \/ Found(h)
  PROVE  Row(h) \in Rows /\ Row(h).name \in Nat /\ Row(h).father \in Mounts /\ Row(h).live \in BOOLEAN
BY DEF TypesOK, Tables, Found, Exists, Row, Rows

LEMMA FatherFacts ==
  /\ RootFather \in Mounts \ {None} /\ None \in Mounts /\ None \in Fathers
  /\ \A father \in Mounts : CachedFather(father) \in Fathers \ {None}
BY DEF RootFather, Mounts, Fathers, CachedFather

\* The call that a request is at, and what it leaves.
LEMMA AtFacts ==
  ASSUME CallsOK, NEW h \in Handlers, NEW step, At(h, step)
  PROVE  /\ call[h] \in Calls /\ Serving(call[h]) /\ call[h].folder \in Folders
         /\ Due(call[h]) = step /\ call[h] # Idle /\ h \in ActiveOn(call[h].folder)
BY AtHand DEF At, Due

Writing(h) == Insert(h) \/ Save(h) \/ Detach(h) \/ Attach(h) \/ Mount(h) \/ Drop(h)
TableWrites == {"insert", "save", "detach", "attach", "mount", "drop"}

\* The row that is written.
Becomes(c, row) ==
  /\ Due(c) = "insert" => row = FirstRow
  /\ Due(c) # "insert" => tables[c.folder] \in Rows
  /\ Due(c) \notin {"insert", "save"} => row.name = tables[c.folder].name
  /\ Due(c) \notin {"insert", "save", "drop"} => row.live = tables[c.folder].live
  /\ Due(c) = "save" => row.name = c.new /\ row.live /\ row.father = tables[c.folder].father
  /\ Due(c) = "drop" => ~row.live

LEMMA WrittenRow ==
  ASSUME TypesOK, LivesOK, NEW h \in Handlers, Writing(h)
  PROVE  \E row \in Rows : Write(h, row) /\ Becomes(call[h], row)
<1> DEFINE c == call[h]
<1>1. PICK step \in TableWrites : At(h, step)
  BY DEF Writing, TableWrites, Insert, Save, Detach, Attach, Mount, Drop
<1>2. c \in Calls /\ c.folder \in Folders /\ Due(c) = step /\ h \in ActiveOn(c.folder) /\ c.new \in Nat
  BY <1>1, AtFacts DEF TypesOK, Calls
<1>3. CASE Insert(h)
  <2>1. Due(c) = "insert" /\ Write(h, FirstRow) /\ FirstRow \in Rows
    BY <1>3 DEF Insert, At, Due, FirstRow, Rows, Mounts
  <2> QED
    BY <2>1 DEF Becomes
<1>4. CASE ~Insert(h)
  <2>1. Due(c) # "insert"
    BY <1>4 DEF Writing, Save, Detach, Attach, Mount, Drop, At, Due
  <2>2. Row(h) # None /\ Row(h) = tables[c.folder]
    BY <1>2, <2>1 DEF LivesOK, Follows, Row
  <2>3. Row(h) \in Rows
    BY <1>2, <2>2, Found1
  <2>4. CASE Save(h)
    <3> DEFINE row == [Row(h) EXCEPT !.name = c.new, !.live = TRUE]
    <3>1. row \in Rows /\ row.name = c.new /\ row.live /\ row.father = Row(h).father
      BY <1>2, <2>3 DEF Rows
    <3>2. Write(h, row) /\ Due(c) = "save"
      BY <2>4 DEF Save, At, Due
    <3> HIDE DEF row
    <3> QED
      BY <2>2, <2>3, <3>1, <3>2 DEF Becomes
  <2>5. ASSUME Due(c) \in {"detach", "attach", "mount"},
               NEW father \in Mounts, Write(h, [Row(h) EXCEPT !.father = father])
        PROVE  \E row \in Rows : Write(h, row) /\ Becomes(c, row)
    <3> DEFINE row == [Row(h) EXCEPT !.father = father]
    <3>1. row \in Rows /\ row.name = Row(h).name /\ row.live = Row(h).live
      BY <2>3 DEF Rows
    <3>2. Write(h, row)
      BY <2>5
    <3> HIDE DEF row
    <3> QED
      BY <2>2, <2>3, <2>5, <3>1, <3>2 DEF Becomes
  <2>6. CASE Detach(h) \/ Attach(h) \/ Mount(h)
    <3>1. Due(c) \in {"detach", "attach", "mount"}
      BY <2>6 DEF Detach, Attach, Mount, At, Due
    <3>2. FolderFather(h) \in Mounts
      BY <1>2 DEF FolderFather, Mounts
    <3>3. \E father \in Mounts : Write(h, [Row(h) EXCEPT !.father = father])
      BY <2>6, <3>2, FatherFacts DEF Detach, Attach, Mount
    <3> QED
      BY <2>5, <3>1, <3>3
  <2>7. CASE Drop(h)
    <3> DEFINE row == [Row(h) EXCEPT !.live = FALSE]
    <3>1. row \in Rows /\ row.name = Row(h).name /\ ~row.live
      BY <2>3 DEF Rows
    <3>2. Write(h, row) /\ Due(c) = "drop"
      BY <2>7 DEF Drop, At, Due
    <3> HIDE DEF row
    <3> QED
      BY <2>2, <2>3, <3>1, <3>2 DEF Becomes
  <2> QED
    BY <1>4, <2>4, <2>6, <2>7 DEF Writing
<1> QED
  BY <1>3, <1>4

LEMMA WriteTypes ==
  ASSUME TypesOK, LivesOK, NEW h \in Handlers, Writing(h)
  PROVE  /\ TypesOK' /\ Moves(h, Rest(call[h]))
         /\ call[h] \in Calls /\ Serving(call[h]) /\ Leads(call[h], Due(Rest(call[h])))
<1>1. PICK step \in TableWrites : At(h, step)
  BY DEF Writing, TableWrites, Insert, Save, Detach, Attach, Mount, Drop
<1>2. /\ call[h] \in Calls /\ Serving(call[h]) /\ call[h].folder \in Folders /\ Due(call[h]) = step
  BY <1>1, AtFacts DEF TypesOK
<1>3. Leads(call[h], Due(Rest(call[h])))
  BY <1>2, Serves DEF Leads, Keeps, TableWrites
<1>4. PICK row \in Rows : Write(h, row)
  BY WrittenRow
<1>5. Moves(h, Rest(call[h])) /\ UNCHANGED <<redis, queue, consumer, client, calls, faults>>
  BY <1>4 DEF Write, Continue, Go, Moves
<1>6. edits' \in Int
  BY DEF Writing, Insert, Save, Detach, Attach, Mount, Drop, TypesOK
<1>7. tables' \in Tables
  BY <1>2, <1>4 DEF Write, TypesOK, Tables
<1>8. Rest(call[h]) \in Calls /\ Serving(Rest(call[h]))
  BY <1>3 DEF Leads, Keeps
<1> QED
  BY <1>2, <1>3, <1>5, <1>6, <1>7, <1>8, StepTypes DEF TypesOK, CacheOK, QueueOK, redis

\* What a request carries on when it has read the row of its folder.
Seen(c, row, d, step) ==
  /\ d \in Calls /\ Serving(d) /\ d.folder = c.folder /\ d.reason = c.reason /\ d.new = c.new
  /\ d.name = row.name /\ d.father \in {CachedFather(row.father), CachedFather(None)} /\ d.version = c.version
  /\ Due(d) = step

LEMMA SeenFacts ==
  ASSUME TypesOK, NEW h \in Handlers, At(h, "collect"), Found(h),
         NEW father \in {CachedFather(Row(h).father), CachedFather(None)}
  PROVE  LET c == call[h]
             d == Rest([c EXCEPT !.name = Row(h).name, !.father = father]) IN
         /\ d.father = father
         /\ \/ c.reason = "query" /\ Seen(c, Row(h), d, "fill")
            \/ c.reason \in Reasons /\ Seen(c, Row(h), d, "publish")
<1> DEFINE c == call[h]
           e == [c EXCEPT !.name = Row(h).name, !.father = father]
<1>1. /\ c \in Calls /\ Serving(c) /\ c.folder \in Folders /\ Due(c) = "collect"
      /\ h \in ActiveOn(c.folder)
  BY AtFacts DEF TypesOK
<1>2. Row(h).name \in Versions /\ father \in Fathers
  BY <1>1, Found1, FatherFacts DEF Versions
<1>3. e \in Calls /\ e.folder = c.folder /\ e.reason = c.reason /\ e.new = c.new
      /\ e.name = Row(h).name /\ e.father = father /\ e.version = c.version /\ e.todo = c.todo
  BY <1>1, <1>2 DEF Calls
<1>4. Serving(e) /\ Due(e) = "collect"
  BY <1>1, <1>3 DEF Serving, Doing, Due
<1> HIDE DEF e
<1>5. \/ e.reason = "query" /\ Leads(e, "fill")
      \/ e.reason \in Reasons /\ Leads(e, "publish")
  BY <1>3, <1>4, Serves
<1>6. Rest(e).father = father /\ \A step : Leads(e, step) => Seen(c, Row(h), Rest(e), step)
  BY <1>3, <1>5 DEF Leads, Keeps, Seen
<1>7. \/ c.reason = "query" /\ Seen(c, Row(h), Rest(e), "fill")
      \/ c.reason \in Reasons /\ Seen(c, Row(h), Rest(e), "publish")
  BY <1>3, <1>5, <1>6
<1> QED
  BY <1>6, <1>7 DEF e

LEMMA CollectTypes ==
  ASSUME TypesOK, NEW h \in Handlers, Collect(h)
  PROVE  TypesOK' /\ call'[h] \in Calls /\ Moves(h, call'[h])
<1>1. call[h] \in Calls /\ Serving(call[h])
  BY AtFacts DEF Collect, TypesOK
<1>2. \E d \in Calls : (d = Idle \/ Serving(d)) /\ Moves(h, d)
  <2>1. CASE Found(h)
    <3>1. Moves(h, Rest([call[h] EXCEPT !.name = Row(h).name, !.father = CachedFather(Row(h).father)]))
      BY <2>1 DEF Collect, Go, Moves
    <3> QED
      BY <2>1, <3>1, SeenFacts DEF Collect, Seen
  <2>2. CASE ~Found(h)
    BY <2>2, IdleFacts DEF Collect, Return, Moves
  <2> QED
    BY <2>1, <2>2
<1>3. /\ UNCHANGED <<tables, redis, queue, consumer, client, calls, faults>> /\ edits' \in Int
  BY DEF Collect, TypesOK
<1> QED
  BY <1>2, <1>3, MovesOK, StepTypes DEF TypesOK, CacheOK, QueueOK, redis

\* The message of a request.
Sent(c) == [c EXCEPT !.new = 0, !.todo = <<>>]

LEMMA SentFacts ==
  ASSUME NEW c \in Calls, c.folder \in Folders, c.reason \in Reasons
  PROVE  /\ Sent(c) \in Calls /\ Message(Sent(c)) /\ Sent(c).folder = c.folder
         /\ Sent(c).reason = c.reason /\ Sent(c).name = c.name /\ Sent(c).father = c.father
BY DEF Sent, Calls, Message

LEMMA AppendFacts ==
  ASSUME QueueOK, NEW m \in Calls, Message(m), queue' = Append(queue, m)
  PROVE  /\ QueueOK' /\ Len(queue) \in Nat /\ Len(queue') = Len(queue) + 1
         /\ DOMAIN queue = 1..Len(queue) /\ DOMAIN queue' = 1..(Len(queue) + 1)
         /\ \A i \in 1..Len(queue) : queue'[i] = queue[i]
         /\ queue'[Len(queue) + 1] = m
BY DEF QueueOK

LEMMA SendTypes ==
  ASSUME Open, TypesOK, NEW h \in Handlers, SendMessage(h)
  PROVE  /\ TypesOK' /\ Moves(h, Idle) /\ queue' = Append(queue, Sent(call[h]))
         /\ call[h] \in Calls /\ call[h].folder \in Folders
         /\ call[h].reason \in Reasons /\ Due(call[h]) = "publish"
<1>1. call[h] \in Calls /\ Serving(call[h]) /\ Due(call[h]) = "publish" /\ call[h].folder \in Folders
  BY AtFacts DEF SendMessage, TypesOK
<1>2. call[h].reason \in Reasons /\ Rest(call[h]) = Idle
  BY <1>1, Serves
<1>3. Moves(h, Idle)
  BY <1>2 DEF SendMessage, Continue, Go, Moves
<1>4. queue' = Append(queue, Sent(call[h]))
  BY DEF SendMessage, Publish, Open, Sent
<1>5. QueueOK'
  BY <1>1, <1>2, <1>4, SentFacts, AppendFacts DEF TypesOK
<1> QED
  BY <1>1, <1>2, <1>3, <1>4, <1>5, IdleFacts, StepTypes DEF SendMessage, TypesOK, CacheOK, redis

LEMMA QuietStep ==
  ASSUME TypesOK, NEW h \in Handlers, NEW d \in Calls, d = Idle \/ Serving(d), Moves(h, d), CacheOK',
         UNCHANGED <<tables, queue, consumer, client, calls, faults, edits>>
  PROVE  TypesOK'
<1>1. tables' \in Tables /\ QueueOK' /\ calls' \in Nat /\ faults' \in Nat /\ edits' \in Int
  BY DEF TypesOK, QueueOK
<1> QED
  BY <1>1, StepTypes

LEMMA CacheKept ==
  ASSUME CacheOK, UNCHANGED redis
  PROVE  CacheOK'
BY DEF CacheOK, redis

\* The other steps of a request.
LEMMA QuietTypes ==
  ASSUME TypesOK, NEW h \in Handlers, Refuse(h) \/ Lookup(h) \/ FillCache(h) \/ ReadVersion(h)
  PROVE  TypesOK' /\ call[h] \in Calls /\ Serving(call[h]) /\ call[h].folder \in Folders
<1>1. call[h].todo # <<>>
  BY DEF Refuse, Lookup, FillCache, ReadVersion, At
<1>2. call[h] \in Calls /\ Serving(call[h]) /\ call[h].folder \in Folders
  BY <1>1, AtHand DEF TypesOK
<1>3. CASE Refuse(h)
  <2>1. Moves(h, Idle) /\ UNCHANGED redis /\ UNCHANGED <<tables, queue, consumer, client, calls, faults, edits>>
    BY <1>3 DEF Refuse, Return, Moves, history
  <2> QED
    BY <1>2, <2>1, IdleFacts, CacheKept, QuietStep DEF TypesOK
<1>4. CASE Lookup(h)
  <2>1. Leads(call[h], "collect")
    BY <1>2, <1>4, Serves DEF Lookup, At, Due
  <2>2. \E d \in Calls : (d = Idle \/ Serving(d)) /\ Moves(h, d)
    BY <1>4, <2>1, IdleFacts DEF Lookup, Return, Continue, Go, Moves, Leads, Keeps
  <2>5. UNCHANGED redis /\ UNCHANGED <<tables, queue, consumer, client, calls, faults, edits>>
    BY <1>4 DEF Lookup, history
  <2> QED
    BY <1>2, <2>2, <2>5, CacheKept, QuietStep DEF TypesOK
<1>5. CASE FillCache(h)
  <2>1. Leads(call[h], "collect")
    BY <1>2, <1>5, Serves DEF FillCache, At, Due
  <2>2. Rest(call[h]) \in Calls /\ Serving(Rest(call[h])) /\ Moves(h, Rest(call[h]))
    BY <1>5, <2>1 DEF FillCache, Continue, Go, Moves, Leads, Keeps
  <2>3. CacheOK'
    BY <1>2, <1>5 DEF FillCache, TypesOK, CacheOK, Calls
  <2>4. UNCHANGED <<tables, queue, consumer, client, calls, faults, edits>>
    BY <1>5 DEF FillCache, history
  <2> QED
    BY <1>2, <2>2, <2>3, <2>4, QuietStep
<1>6. CASE ReadVersion(h)
  <2> DEFINE e == [call[h] EXCEPT !.version = version[call[h].folder]]
  <2>1. e \in Calls /\ e.folder = call[h].folder /\ e.reason = call[h].reason /\ e.todo = call[h].todo
    BY <1>2 DEF Calls, TypesOK, CacheOK
  <2>2. Serving(e) /\ Due(e) = "readVersion"
    BY <1>2, <1>6, <2>1 DEF Serving, Doing, Due, ReadVersion, At
  <2> HIDE DEF e
  <2>3. Rest(e) \in Calls /\ Serving(Rest(e))
    BY <2>1, <2>2, Serves DEF Leads, Keeps
  <2>4. Moves(h, Rest(e))
    BY <1>6 DEF ReadVersion, Go, Moves, e
  <2>5. UNCHANGED redis /\ UNCHANGED <<tables, queue, consumer, client, calls, faults, edits>>
    BY <1>6 DEF ReadVersion, history
  <2> QED
    BY <1>2, <2>3, <2>4, <2>5, CacheKept, QuietStep DEF TypesOK
<1> QED
  BY <1>2, <1>3, <1>4, <1>5, <1>6

\* The steps of a request that leave the tables and the cache alone.
LEMMA PassTypes ==
  ASSUME TypesOK, NEW h \in Handlers, Read(h) \/ Overlook(h) \/ RefuseMount(h)
  PROVE  /\ TypesOK' /\ call[h] \in Calls /\ Serving(call[h]) /\ call[h].folder \in Folders
         /\ RefuseMount(h) => Moves(h, Idle)
         /\ Read(h) \/ Overlook(h) =>
              Moves(h, Rest(call[h])) /\ Leads(call[h], Due(Rest(call[h])))
<1>1. call[h].todo # <<>>
  BY DEF Read, Overlook, RefuseMount, At
<1>2. call[h] \in Calls /\ Serving(call[h]) /\ call[h].folder \in Folders
  BY <1>1, AtHand DEF TypesOK
<1>3. edits' \in Int /\ UNCHANGED <<tables, redis, queue, consumer, client, calls, faults>>
  BY DEF Read, Overlook, RefuseMount, TypesOK, history
<1>4. tables' \in Tables /\ CacheOK' /\ QueueOK' /\ calls' \in Nat /\ faults' \in Nat
  BY <1>3, CacheKept DEF TypesOK, QueueOK
<1>5. CASE Read(h) \/ Overlook(h)
  <2>1. Due(call[h]) \in {"read", "save", "detach", "attach", "mount", "drop"}
    BY <1>5 DEF Read, Overlook, At, Due
  <2>2. Leads(call[h], Due(Rest(call[h])))
    BY <1>2, <2>1, Serves DEF Leads, Keeps
  <2>3. Moves(h, Rest(call[h])) /\ Rest(call[h]) \in Calls /\ Serving(Rest(call[h]))
    BY <1>5, <2>2 DEF Read, Overlook, Continue, Go, Moves, Leads, Keeps
  <2>4. ~RefuseMount(h) \/ Moves(h, Idle)
    BY DEF RefuseMount, Return, Moves
  <2> QED
    BY <1>2, <1>3, <1>4, <2>2, <2>3, <2>4, StepTypes
<1>6. CASE RefuseMount(h) /\ ~(Read(h) \/ Overlook(h))
  <2>1. Moves(h, Idle)
    BY <1>6 DEF RefuseMount, Return, Moves
  <2> QED
    BY <1>2, <1>3, <1>4, <1>6, <2>1, IdleFacts, StepTypes
<1> QED
  BY <1>5, <1>6

LEMMA BatchTypes ==
  ASSUME TypesOK, NEW h \in Handlers, WriteVersion(h) \/ WriteName(h) \/ BumpProject(h)
  PROVE  TypesOK' /\ call[h] \in Calls /\ Serving(call[h]) /\ call[h].folder \in Folders
<1>1. call[h].todo # <<>>
  BY DEF WriteVersion, WriteName, BumpProject, At
<1>2. call[h] \in Calls /\ Serving(call[h]) /\ call[h].folder \in Folders
  BY <1>1, AtHand DEF TypesOK
<1>3. CASE WriteVersion(h)
  <2>1. Leads(call[h], "writeName")
    BY <1>2, <1>3, Serves DEF WriteVersion, At, Due
  <2>2. Rest(call[h]) \in Calls /\ Serving(Rest(call[h])) /\ Moves(h, Rest(call[h]))
    BY <1>3, <2>1 DEF WriteVersion, Continue, Go, Moves, Leads, Keeps
  <2>3. CacheOK'
    BY <1>2, <1>3 DEF WriteVersion, IncrementVersion, TypesOK, CacheOK, Calls, Versions
  <2>4. UNCHANGED <<tables, queue, consumer, client, calls, faults, edits>>
    BY <1>3 DEF WriteVersion, history
  <2> QED
    BY <1>2, <2>2, <2>3, <2>4, QuietStep
<1>4. CASE WriteName(h)
  <2>1. Leads(call[h], "bumpProject")
    BY <1>2, <1>4, Serves DEF WriteName, At, Due
  <2>2. Rest(call[h]) \in Calls /\ Serving(Rest(call[h])) /\ Moves(h, Rest(call[h]))
    BY <1>4, <2>1 DEF WriteName, Continue, Go, Moves, Leads, Keeps
  <2>3. CacheOK'
    BY <1>2, <1>4 DEF WriteName, TypesOK, CacheOK, Calls, Versions
  <2>4. UNCHANGED <<tables, queue, consumer, client, calls, faults, edits>>
    BY <1>4 DEF WriteName, history
  <2> QED
    BY <1>2, <2>2, <2>3, <2>4, QuietStep
<1>5. CASE BumpProject(h)
  <2>1. Rest(call[h]) = Idle
    BY <1>2, <1>5, Serves DEF BumpProject, At, Due
  <2>2. Moves(h, Idle)
    BY <1>5, <2>1 DEF BumpProject, Continue, Go, Moves
  <2>3. CacheOK'
    BY <1>5 DEF BumpProject, TypesOK, CacheOK
  <2>4. UNCHANGED <<tables, queue, consumer, client, calls, faults, edits>>
    BY <1>5 DEF BumpProject, history
  <2> QED
    BY <1>2, <2>2, <2>3, <2>4, IdleFacts, QuietStep
<1> QED
  BY <1>2, <1>3, <1>4, <1>5

\* Where a call that fails leaves a request: without its cache filled, at its end, or with a
\* row whose father could not be read.
LEMMA FailTypes ==
  ASSUME TypesOK, NEW h \in Handlers, FailingCall(h)
  PROVE  /\ TypesOK'
         /\ call[h] \in Calls /\ Serving(call[h]) /\ call[h].folder \in Folders
         /\ call'[h] \in Calls /\ Moves(h, call'[h])
         /\ \/ call'[h] = Idle
            \/ Due(call[h]) \in {"lookup", "fill"} /\ Leads(call[h], "collect") /\ call'[h] = Rest(call[h])
            \/ \E step \in {"fill", "publish"} :
                 /\ Due(call[h]) = "collect" /\ Found(h) /\ Seen(call[h], Row(h), call'[h], step)
                 /\ call[h].reason \in Reasons
                 /\ step = "fill" => call[h].reason = "query"
<1>1. call[h] \in Calls /\ Serving(call[h]) /\ call[h].folder \in Folders
  BY AtHand DEF FailingCall, TypesOK
<1>2. \E d \in Calls :
        /\ Moves(h, d) /\ (d = Idle \/ Serving(d))
        /\ \/ d = Idle
           \/ Due(call[h]) \in {"lookup", "fill"} /\ Leads(call[h], "collect") /\ d = Rest(call[h])
           \/ \E step \in {"fill", "publish"} :
                /\ Due(call[h]) = "collect" /\ Found(h) /\ Seen(call[h], Row(h), d, step)
                /\ call[h].reason \in Reasons
                /\ step = "fill" => call[h].reason = "query"
  <2>1. CASE (At(h, "lookup") \/ At(h, "fill")) /\ Continue(h)
    <3>1. Leads(call[h], "collect") /\ Due(call[h]) \in {"lookup", "fill"}
      BY <1>1, <2>1, Serves DEF At, Due
    <3> QED
      BY <2>1, <3>1 DEF Continue, Go, Moves, Leads, Keeps
  <2>2. CASE Return(h)
    BY <2>2, IdleFacts DEF Return, Moves
  <2>3. CASE At(h, "collect") /\ Found(h) /\ Go(h, [call[h] EXCEPT !.name = Row(h).name, !.father = CachedFather(None)])
    <3> DEFINE d == Rest([call[h] EXCEPT !.name = Row(h).name, !.father = CachedFather(None)])
    <3>1. \/ call[h].reason = "query" /\ Seen(call[h], Row(h), d, "fill")
          \/ call[h].reason \in Reasons /\ Seen(call[h], Row(h), d, "publish")
      BY <2>3, SeenFacts
    <3>2. Moves(h, d) /\ Due(call[h]) = "collect"
      BY <2>3 DEF Go, Moves, At, Due
    <3>3. d \in Calls /\ Serving(d)
      BY <3>1 DEF Seen
    <3> HIDE DEF d
    <3> QED
      BY <2>3, <3>1, <3>2, <3>3 DEF Reasons
  <2> QED
    BY <2>1, <2>2, <2>3 DEF FailingCall
<1>3. /\ UNCHANGED <<tables, redis, queue, consumer, client, calls, edits>> /\ faults' = faults + 1
  BY DEF FailingCall, Fault
<1>4. PICK d \in Calls :
        /\ Moves(h, d) /\ (d = Idle \/ Serving(d))
        /\ \/ d = Idle
           \/ Due(call[h]) \in {"lookup", "fill"} /\ Leads(call[h], "collect") /\ d = Rest(call[h])
           \/ \E step \in {"fill", "publish"} :
                /\ Due(call[h]) = "collect" /\ Found(h) /\ Seen(call[h], Row(h), d, step)
                /\ call[h].reason \in Reasons
                /\ step = "fill" => call[h].reason = "query"
  BY <1>2
<1>5. call'[h] = d
  BY <1>4, MovesOK DEF TypesOK
<1>6. tables' \in Tables /\ CacheOK' /\ QueueOK' /\ calls' \in Nat /\ faults' \in Nat /\ edits' \in Int
      /\ UNCHANGED <<consumer, client>>
  BY <1>3, CacheKept DEF TypesOK, QueueOK
<1>7. TypesOK'
  BY <1>4, <1>6, StepTypes
<1> QED
  BY <1>1, <1>4, <1>5, <1>7

\* The consumer.
LEMMA HandlingFacts ==
  ASSUME ConsumerOK, NEW step, Handling(step)
  PROVE  /\ consumer \in Calls /\ Handles(consumer) /\ consumer.folder \in Folders /\ consumer # Idle
         /\ Due(consumer) = step
BY IdleFacts DEF ConsumerOK, Handling, Due

LEMMA ListsOfMessages ==
  /\ HandleCacheUpdateMessage("query") = Write1
  /\ HandleCacheUpdateMessage("create") = Create3
  /\ HandleCacheUpdateMessage("modify") = Modify4
  /\ HandleCacheUpdateMessage("delete") = Delete3
BY DEF HandleCacheUpdateMessage, HandleQueryUpdate, HandleCreateUpdate, HandleModifyUpdate,
       HandleDeleteUpdate, Write1, Create3, Modify4, Delete3

\* The message at hand, from the head of the queue.
Takes(m, d) ==
  /\ d \in Calls /\ d.folder = m.folder /\ d.reason = m.reason /\ d.name = m.name /\ d.father = m.father
  /\ Handles(d)
  /\ IF m.reason = "query" THEN Due(d) = "writeEntry" ELSE Due(d) = "incrementProject"

LEMMA TailFacts ==
  ASSUME QueueOK, queue # <<>>, queue' = Tail(queue)
  PROVE  /\ QueueOK' /\ Len(queue) \in Nat \ {0} /\ Len(queue') = Len(queue) - 1
         /\ DOMAIN queue = 1..Len(queue) /\ DOMAIN queue' = 1..(Len(queue) - 1)
         /\ \A i \in 1..(Len(queue) - 1) : queue'[i] = queue[i + 1]
         /\ Head(queue) = queue[1] /\ Head(queue) \in Calls /\ Message(Head(queue))
<1>1. /\ Len(queue) \in Nat \ {0} /\ queue' \in Seq(Calls) /\ Len(queue') = Len(queue) - 1
      /\ \A i \in 1..(Len(queue) - 1) : queue'[i] = queue[i + 1]
      /\ Head(queue) = queue[1] /\ Head(queue) \in Calls
  BY HeadTailProperties, EmptySeq DEF QueueOK
<1>2. DOMAIN queue = 1..Len(queue) /\ DOMAIN queue' = 1..(Len(queue) - 1)
  BY <1>1 DEF QueueOK
<1> QED
  BY <1>1, <1>2 DEF QueueOK

LEMMA ConsumeTypes ==
  ASSUME TypesOK, Consume
  PROVE  /\ TypesOK' /\ queue # <<>> /\ queue' = Tail(queue) /\ consumer = Idle
         /\ IF Head(queue).reason = "chat" THEN Head(queue).folder = None /\ consumer' = Idle
            ELSE Head(queue).folder \in Folders /\ Takes(Head(queue), consumer')
<1> DEFINE m == Head(queue)
<1>1. queue # <<>> /\ queue' = Tail(queue) /\ consumer = Idle
  BY DEF Consume
<1>2. QueueOK' /\ m \in Calls /\ Message(m)
  BY <1>1, TailFacts DEF TypesOK
<1>3. IF m.reason = "chat" THEN m.folder = None /\ consumer' = Idle
      ELSE m.folder \in Folders /\ Takes(m, consumer')
  <2>1. CASE m.reason = "chat"
    BY <1>2, <2>1 DEF Consume, Message, Reasons
  <2>2. CASE m.reason # "chat"
    <3> DEFINE todo == HandleCacheUpdateMessage(m.reason)
    <3>1. m.folder \in Folders /\ m.reason \in Reasons
      BY <1>2, <2>2 DEF Message
    <3>2. consumer' = [m EXCEPT !.todo = todo]
      BY <2>2 DEF Consume
    <3>3. /\ m.reason = "query" => todo = Write1
          /\ m.reason = "create" => todo = Create3
          /\ m.reason = "modify" => todo = Modify4
          /\ m.reason = "delete" => todo = Delete3
      BY ListsOfMessages
    <3> HIDE DEF todo, m
    <3>4. todo \in ConsumerLists
      BY <3>1, <3>3 DEF ConsumerLists, Reasons
    <3>5. consumer' = Left(m, todo)
      BY <3>2 DEF Left
    <3>6. /\ consumer' \in Calls /\ consumer'.folder = m.folder /\ consumer'.reason = m.reason
          /\ consumer'.name = m.name /\ consumer'.father = m.father /\ consumer'.todo = todo
      BY <1>2, <3>4, <3>5, LeftKeeps
    <3> QED
      BY <2>2, <3>1, <3>3, <3>6, ListFacts DEF Takes, Handles, Due, Reasons
  <2> QED
    BY <2>1, <2>2
<1>4. ConsumerOK'
  BY <1>3, IdleFacts DEF ConsumerOK, Takes
<1>5. UNCHANGED <<tables, redis, call, client, calls, faults, edits>>
  BY DEF Consume, history
<1> QED
  BY <1>1, <1>2, <1>3, <1>4, <1>5, CacheKept DEF TypesOK, CallsOK, ClientOK

HandlingStep ==
  \/ IncrementProjectVersion \/ AddVirtualFolderToProject \/ ReadFolderVersion
  \/ WriteFolderVersion \/ UpdateVirtualFolderCache
  \/ RemoveVirtualFolderFromProject \/ DeleteVirtualFolderCache

LEMMA HandleTypes ==
  ASSUME TypesOK, HandlingStep
  PROVE  TypesOK'
<1>1. \E step : Handling(step)
  BY DEF HandlingStep, IncrementProjectVersion, AddVirtualFolderToProject, ReadFolderVersion,
         WriteFolderVersion, UpdateVirtualFolderCache,
         RemoveVirtualFolderFromProject, DeleteVirtualFolderCache
<1>2. consumer \in Calls /\ Handles(consumer) /\ consumer.folder \in Folders
  BY <1>1, HandlingFacts DEF TypesOK
<1>3. ConsumerOK'
  <2>1. ASSUME NEW c \in Calls, Handles(c), consumer' = Rest(c) PROVE ConsumerOK'
    BY <2>1, Handled, IdleFacts DEF ConsumerOK, Hands, Keeps
  <2>2. CASE ReadFolderVersion
    <3> DEFINE e == [consumer EXCEPT !.version = version[consumer.folder]]
    <3>1. e \in Calls /\ e.folder = consumer.folder /\ e.reason = consumer.reason /\ e.todo = consumer.todo
      BY <1>2 DEF Calls, TypesOK, CacheOK
    <3>2. Handles(e)
      BY <1>2, <3>1 DEF Handles
    <3> QED
      BY <2>1, <2>2, <3>1, <3>2 DEF ReadFolderVersion
  <2> QED
    BY <1>2, <2>1, <2>2 DEF HandlingStep, IncrementProjectVersion, AddVirtualFolderToProject,
                            WriteFolderVersion, UpdateVirtualFolderCache,
                            RemoveVirtualFolderFromProject, DeleteVirtualFolderCache
<1>4. CacheOK'
  <2>1. consumer.name \in Versions /\ consumer.father \in Fathers /\ consumer.version \in Versions
    BY <1>2 DEF Calls
  <2>2. IncrementVersion(consumer.version) \in Versions
    BY <2>1 DEF IncrementVersion, Versions
  <2>3. CASE IncrementProjectVersion
    BY <2>3 DEF IncrementProjectVersion, TypesOK, CacheOK
  <2>4. CASE AddVirtualFolderToProject
    BY <1>2, <2>4 DEF AddVirtualFolderToProject, TypesOK, CacheOK, Versions
  <2>5. CASE ReadFolderVersion
    BY <2>5, CacheKept DEF ReadFolderVersion, TypesOK
  <2>6. CASE WriteFolderVersion
    BY <1>2, <2>2, <2>6 DEF WriteFolderVersion, TypesOK, CacheOK
  <2>7. CASE UpdateVirtualFolderCache
    BY <1>2, <2>1, <2>7 DEF UpdateVirtualFolderCache, TypesOK, CacheOK
  <2>8. CASE RemoveVirtualFolderFromProject
    BY <1>2, <2>8 DEF RemoveVirtualFolderFromProject, TypesOK, CacheOK, Versions
  <2>9. CASE DeleteVirtualFolderCache
    BY <1>2, <2>9 DEF DeleteVirtualFolderCache, NoEntry, TypesOK, CacheOK, Versions, Fathers
  <2> QED
    BY <2>3, <2>4, <2>5, <2>6, <2>7, <2>8, <2>9 DEF HandlingStep
<1>5. UNCHANGED <<tables, queue, call, client, calls, faults, edits>>
  BY DEF HandlingStep, IncrementProjectVersion, AddVirtualFolderToProject, ReadFolderVersion,
         WriteFolderVersion, UpdateVirtualFolderCache,
         RemoveVirtualFolderFromProject, DeleteVirtualFolderCache, history
<1> QED
  BY <1>3, <1>4, <1>5 DEF TypesOK, QueueOK, CallsOK, ClientOK

\* The client, the cache, failures and restarts.
LEMMA ElseTypes ==
  ASSUME Open, TypesOK,
         \/ \E f \in Folders : Fetch(f) \/ ExpireEntry(f)
         \/ CheckProjectVersion \/ PublishChat \/ FailingConsumer \/ Restart
  PROVE  TypesOK'
<1>1. ASSUME NEW f \in Folders, Fetch(f) PROVE TypesOK'
  <2>1. ClientOK'
    BY <1>1 DEF Fetch, TypesOK, ClientOK, Tables
  <2> QED
    BY <1>1, <2>1, CacheKept DEF Fetch, TypesOK, ConsumerOK, QueueOK, CallsOK, history
<1>2. ASSUME NEW f \in Folders, ExpireEntry(f) PROVE TypesOK'
  <2>1. CacheOK'
    BY <1>2 DEF ExpireEntry, NoEntry, TypesOK, CacheOK, Versions, Fathers
  <2> QED
    BY <1>2, <2>1 DEF ExpireEntry, TypesOK, ConsumerOK, QueueOK, CallsOK, ClientOK, history
<1>3. CASE CheckProjectVersion
  <2>1. ClientOK'
    BY <1>3 DEF CheckProjectVersion, TypesOK, ClientOK, CacheOK
  <2> QED
    BY <1>3, <2>1, CacheKept DEF CheckProjectVersion, TypesOK, ConsumerOK, QueueOK, CallsOK, history
<1>4. CASE PublishChat
  <2> DEFINE m == [Idle EXCEPT !.reason = "chat"]
  <2>1. m \in Calls /\ Message(m)
    BY IdleFacts DEF Calls, Message
  <2>2. queue' = Append(queue, m)
    BY <1>4 DEF PublishChat, Publish, Open
  <2> HIDE DEF m
  <2>3. QueueOK'
    BY <2>1, <2>2, AppendFacts DEF TypesOK
  <2> QED
    BY <1>4, <2>3, CacheKept DEF PublishChat, TypesOK, ConsumerOK, CallsOK, ClientOK, history
<1>5. CASE FailingConsumer
  BY <1>5, CacheKept, IdleFacts DEF FailingConsumer, Fault, TypesOK, ConsumerOK, CallsOK, ClientOK, QueueOK
<1>6. CASE Restart
  <2>1. QueueOK' /\ CallsOK' /\ ConsumerOK'
    BY <1>6, IdleFacts, EmptySeq DEF Restart, QueueOK, CallsOK, ConsumerOK
  <2> QED
    BY <1>6, <2>1, CacheKept DEF Restart, Fault, TypesOK, ClientOK
<1> QED
  BY <1>1, <1>2, <1>3, <1>4, <1>5, <1>6

LEMMA NextTypes ==
  ASSUME Open, TypesOK, LivesOK, Next
  PROVE  TypesOK'
<1>1. ASSUME NEW h \in Handlers, Step(h) PROVE TypesOK'
  <2>1. CASE Beginning(h)
    BY <2>1, Beginnings, BeginTypes
  <2>2. CASE Writing(h)
    BY <2>2, WriteTypes
  <2>3. CASE ~Beginning(h) /\ ~Writing(h)
    BY <1>1, <2>3, CollectTypes, SendTypes, QuietTypes, PassTypes, BatchTypes, FailTypes DEF Step, Beginning, Writing
  <2> QED
    BY <2>1, <2>2, <2>3
<1> QED
  BY <1>1, ConsumeTypes, HandleTypes, ElseTypes DEF Next, ConsumerStep, HandlingStep

-----------------------------------------------------------------------------
(* Every step keeps the lives of the folders.                              *)

LEMMA PendingKept ==
  ASSUME UNCHANGED <<queue, consumer>>, NEW f
  PROVE  /\ Pending(f)' = Pending(f) /\ InQueue(f)' = InQueue(f)
BY DEF Pending, InQueue

\* What a step of a request makes of it: it ends, or stays the same request.
StaysOn(c, d) == d.folder = c.folder /\ d.reason = c.reason

LEMMA StillActive ==
  ASSUME CallsOK, NEW h \in Handlers, NEW d \in Calls, Moves(h, d), call[h] # Idle,
         d = Idle \/ StaysOn(call[h], d), NEW f \in Folders
  PROVE  /\ ActiveOn(f)' \subseteq ActiveOn(f) /\ ActiveOn(f) \subseteq ActiveOn(f)' \cup {h}
         /\ \A g \in ActiveOn(f)' : call'[g] = IF g = h THEN d ELSE call[g]
         /\ h \in ActiveOn(f)' => d # Idle /\ d.folder = f /\ call[h].folder = f
         /\ d # Idle => ActiveOn(f)' = ActiveOn(f)
<1>1. \A g \in Handlers : call'[g] = IF g = h THEN d ELSE call[g]
  BY DEF CallsOK, Moves
<1> QED
  BY <1>1, IdleFacts DEF ActiveOn, StaysOn

LEMMA StepLives ==
  ASSUME TypesOK, LivesOK, NEW h \in Handlers, call[h] # Idle, NEW d \in Calls, Moves(h, d),
         d = Idle \/ (StaysOn(call[h], d) /\ Due(d) # "insert"),
         d # Idle => Due(call[h]) # "insert", UNCHANGED tables,
         \A f \in Folders : Pending(f)' => Pending(f) \/ (call[h].folder = f /\ Due(call[h]) # "insert")
  PROVE  LivesOK'
<1> SUFFICES ASSUME NEW f \in Folders
             PROVE  /\ \A g \in ActiveOn(f)' : Follows(call[g], f)'
                    /\ \A g, k \in ActiveOn(f)' : call'[g].reason = "create" /\ call'[k].reason = "create" => g = k
                    /\ Pending(f)' => tables'[f] # None
  BY DEF LivesOK
<1>1. call[h] \in Calls /\ Serving(call[h]) /\ call[h].folder \in Folders /\ h \in ActiveOn(call[h].folder)
  BY AtHand DEF TypesOK, CallsOK, Serving, IdleFacts
<1>2. Due(call[h]) # "insert" => tables[call[h].folder] # None
  BY <1>1 DEF LivesOK, Follows
<1>3. /\ ActiveOn(f)' \subseteq ActiveOn(f)
      /\ \A g \in ActiveOn(f)' : call'[g] = IF g = h THEN d ELSE call[g]
      /\ h \in ActiveOn(f)' => d # Idle /\ d.folder = f /\ call[h].folder = f
  BY StillActive DEF TypesOK
<1>4. ASSUME NEW g \in ActiveOn(f)' PROVE Follows(call[g], f)'
  <2>1. CASE g = h
    BY <1>2, <1>3, <1>4, <2>1 DEF Follows
  <2>2. CASE g # h
    BY <1>3, <1>4, <2>2 DEF Follows, LivesOK
  <2> QED
    BY <2>1, <2>2
<1>5. \A g \in ActiveOn(f)' : call'[g].reason = call[g].reason
  BY <1>3 DEF StaysOn
<1>6. \A g, k \in ActiveOn(f)' : call'[g].reason = "create" /\ call'[k].reason = "create" => g = k
  BY <1>3, <1>5 DEF LivesOK
<1>7. Pending(f)' => tables'[f] # None
  BY <1>2 DEF LivesOK
<1> QED
  BY <1>4, <1>6, <1>7

LEMMA Written ==
  ASSUME TypesOK, LivesOK, NEW h \in Handlers, Writing(h)
  PROVE  LET c == call[h]  d == Rest(call[h]) IN
         /\ Moves(h, d) /\ c \in Calls /\ Serving(c) /\ c.folder \in Folders /\ c # Idle
         /\ d \in Calls /\ Serving(d) /\ StaysOn(c, d) /\ h \in ActiveOn(c.folder)
         /\ UNCHANGED <<entry, version, projectVersion, queue, consumer, client, crossed, raced, failed>>
         /\ Due(c) \in TableWrites /\ Due(d) # "insert" /\ Leads(c, Due(d))
         /\ \E row \in Rows :
              /\ \A f \in Folders : tables'[f] = IF f = c.folder THEN row ELSE tables[f]
              /\ Becomes(c, row)
<1> DEFINE c == call[h]  d == Rest(call[h])
<1>1. /\ Moves(h, d) /\ c \in Calls /\ Serving(c) /\ c.folder \in Folders /\ c # Idle
      /\ d \in Calls /\ Serving(d) /\ StaysOn(c, d) /\ h \in ActiveOn(c.folder) /\ Leads(c, Due(d))
  BY WriteTypes, AtHand, IdleFacts DEF Leads, Keeps, StaysOn, TypesOK
<1>2. PICK row \in Rows : Write(h, row) /\ Becomes(c, row)
  BY WrittenRow
<1>3. UNCHANGED <<entry, version, projectVersion, queue, consumer, client, crossed, raced, failed>>
  BY <1>2 DEF Write, redis
<1>4. Due(c) \in TableWrites
  BY DEF Writing, TableWrites, Insert, Save, Detach, Attach, Mount, Drop, At, Due
<1>5. Due(d) # "insert"
  BY <1>1, <1>4, Serves DEF Leads, Keeps, TableWrites
<1>6. \A f \in Folders : tables'[f] = IF f = c.folder THEN row ELSE tables[f]
  BY <1>1, <1>2 DEF Write, TypesOK, Tables
<1> QED
  BY <1>1, <1>2, <1>3, <1>4, <1>5, <1>6

LEMMA WriteLives ==
  ASSUME TypesOK, LivesOK, NEW h \in Handlers, Writing(h)
  PROVE  LivesOK'
<1> DEFINE c == call[h]  d == Rest(call[h])
<1>1. /\ Moves(h, d) /\ c \in Calls /\ Serving(c) /\ c.folder \in Folders /\ c # Idle
      /\ d \in Calls /\ Serving(d) /\ StaysOn(c, d) /\ h \in ActiveOn(c.folder)
  BY Written
<1>2. UNCHANGED <<queue, consumer>>
  BY Written
<1>3. Due(d) # "insert"
  BY Written
<1>4. PICK row \in Rows : \A f \in Folders : tables'[f] = IF f = c.folder THEN row ELSE tables[f]
  BY Written
<1>5. row # None
  OBVIOUS
<1> SUFFICES ASSUME NEW f \in Folders
             PROVE  /\ \A g \in ActiveOn(f)' : Follows(call[g], f)'
                    /\ \A g, k \in ActiveOn(f)' : call'[g].reason = "create" /\ call'[k].reason = "create" => g = k
                    /\ Pending(f)' => tables'[f] # None
  BY DEF LivesOK
<1>6. /\ ActiveOn(f)' = ActiveOn(f)
      /\ \A g \in ActiveOn(f)' : call'[g] = IF g = h THEN d ELSE call[g]
      /\ h \in ActiveOn(f)' => c.folder = f
  BY <1>1, StillActive, IdleFacts DEF TypesOK
<1>7. ASSUME NEW g \in ActiveOn(f)' PROVE Follows(call[g], f)'
  <2>1. CASE g = h
    <3>1. call'[g] = d /\ tables'[f] = row
      BY <1>4, <1>6, <1>7, <2>1
    <3> QED
      BY <1>3, <1>5, <3>1 DEF Follows
  <2>2. CASE g # h /\ f # c.folder
    BY <1>4, <1>6, <1>7, <2>2 DEF Follows, LivesOK
  <2>3. CASE g # h /\ f = c.folder
    <3>1. call'[g] = call[g] /\ Follows(call[g], f) /\ Follows(c, f) /\ tables'[f] = row
      BY <1>1, <1>4, <1>6, <1>7, <2>3 DEF LivesOK
    <3>2. Due(call[g]) # "insert"
      <4>1. ASSUME Due(call[g]) = "insert" PROVE FALSE
        <5>1. call[g].reason = "create" /\ tables[f] = None
          BY <1>6, <1>7, <3>1, <4>1, ActiveServes, Serves DEF Follows, TypesOK
        <5>2. Due(c) = "insert"
          BY <5>1, <3>1 DEF Follows
        <5>3. c.reason = "create"
          BY <5>2, <1>1, Serves
        <5> QED
          BY <5>1, <5>3, <1>1, <1>6, <1>7, <2>3 DEF LivesOK
      <4> QED
        BY <4>1
    <3> QED
      BY <1>5, <3>1, <3>2 DEF Follows
  <2> QED
    BY <2>1, <2>2, <2>3
<1>8. \A g, k \in ActiveOn(f)' : call'[g].reason = "create" /\ call'[k].reason = "create" => g = k
  BY <1>1, <1>6 DEF LivesOK, StaysOn
<1>9. Pending(f)' => tables'[f] # None
  BY <1>2, <1>4, <1>5, PendingKept DEF LivesOK
<1> QED
  BY <1>7, <1>8, <1>9

\* The steps of a request that leave the tables alone: what it is then, and what they change.
Quiet(h) ==
  \/ Read(h) \/ Overlook(h) \/ Refuse(h) \/ RefuseMount(h) \/ Lookup(h)
  \/ Collect(h) \/ FillCache(h) \/ SendMessage(h) \/ ReadVersion(h)
  \/ WriteVersion(h) \/ WriteName(h) \/ BumpProject(h) \/ FailingCall(h)

LEMMA QuietMoves ==
  ASSUME Open, TypesOK, LivesOK, NEW h \in Handlers, Quiet(h)
  PROVE  /\ call[h] \in Calls /\ Serving(call[h]) /\ call[h].folder \in Folders /\ call[h] # Idle
         /\ h \in ActiveOn(call[h].folder)
         /\ UNCHANGED <<tables, consumer, client, calls>>
         /\ \E d \in Calls :
              /\ Moves(h, d) /\ call'[h] = d
              /\ d = Idle \/ (StaysOn(call[h], d) /\ Serving(d) /\ Due(d) # "insert")
<1> DEFINE c == call[h]
<1>1. c.todo # <<>>
  BY DEF Quiet, Read, Overlook, Refuse, RefuseMount, Lookup, Collect, FillCache, SendMessage,
         ReadVersion, WriteVersion, WriteName, BumpProject, FailingCall, At
<1>2. c \in Calls /\ Serving(c) /\ c.folder \in Folders /\ c # Idle /\ h \in ActiveOn(c.folder)
  BY <1>1, AtHand DEF TypesOK
<1>3. UNCHANGED <<tables, consumer, client, calls>>
  BY DEF Quiet, Read, Overlook, Refuse, RefuseMount, Lookup, Collect, FillCache, SendMessage,
         ReadVersion, WriteVersion, WriteName, BumpProject, FailingCall
<1>4. \E d \in Calls : /\ Moves(h, d)
                       /\ d = Idle \/ (StaysOn(c, d) /\ Serving(d) /\ Due(d) # "insert")
  <2>1. CASE Read(h) \/ Overlook(h)
    <3>1. /\ Moves(h, Rest(c)) /\ Leads(c, Due(Rest(c)))
          /\ Due(c) \in {"read", "save", "detach", "attach", "mount", "drop"}
      BY <2>1, PassTypes DEF Read, Overlook, At, Due
    <3>2. Due(Rest(c)) # "insert"
      BY <1>2, <3>1, Serves DEF Leads, Keeps
    <3> QED
      BY <3>1, <3>2 DEF Leads, Keeps, StaysOn
  <2>2. CASE Refuse(h) \/ RefuseMount(h) \/ (Lookup(h) /\ Return(h)) \/ (Collect(h) /\ ~Found(h))
    BY <2>2, IdleFacts DEF Refuse, RefuseMount, Collect, Return, Moves
  <2>3. CASE SendMessage(h) \/ BumpProject(h)
    <3>1. Rest(c) = Idle
      BY <1>2, <2>3, Serves DEF SendMessage, BumpProject, At, Due
    <3> QED
      BY <2>3, <3>1, IdleFacts DEF SendMessage, BumpProject, Continue, Go, Moves
  <2>4. CASE (Lookup(h) /\ Continue(h)) \/ FillCache(h) \/ WriteVersion(h) \/ WriteName(h)
    <3>1. /\ Moves(h, Rest(c))
          /\ \E step \in {"collect", "writeName", "bumpProject"} : Leads(c, step)
      BY <1>2, <2>4, Serves
         DEF Lookup, FillCache, WriteVersion, WriteName, Continue, Go, Moves, At, Due
    <3> QED
      BY <1>2, <3>1 DEF Leads, Keeps, StaysOn
  <2>5. CASE ReadVersion(h)
    <3> DEFINE e == [c EXCEPT !.version = version[c.folder]]
    <3>1. e \in Calls /\ e.folder = c.folder /\ e.reason = c.reason /\ e.todo = c.todo
      BY <1>2 DEF Calls, TypesOK, CacheOK
    <3>2. Serving(e) /\ Due(e) = "readVersion"
      BY <1>2, <2>5, <3>1 DEF Serving, Doing, Due, ReadVersion, At
    <3>3. Moves(h, Rest(e))
      BY <2>5 DEF ReadVersion, Go, Moves
    <3> HIDE DEF e
    <3> QED
      BY <3>1, <3>2, <3>3, Serves DEF Leads, Keeps, StaysOn
  <2>6. CASE Collect(h) /\ Found(h)
    <3>1. Moves(h, Rest([c EXCEPT !.name = Row(h).name, !.father = CachedFather(Row(h).father)]))
      BY <2>6 DEF Collect, Go, Moves
    <3> QED
      BY <2>6, <3>1, SeenFacts DEF Collect, Seen, StaysOn
  <2>7. CASE FailingCall(h)
    BY <2>7, FailTypes, Serves DEF Leads, Keeps, Seen, StaysOn
  <2>8. Lookup(h) => Return(h) \/ Continue(h)
    BY DEF Lookup
  <2> QED
    BY <2>1, <2>2, <2>3, <2>4, <2>5, <2>6, <2>7, <2>8 DEF Quiet
<1>5. \A d : Moves(h, d) => call'[h] = d
  BY DEF Moves, TypesOK, CallsOK
<1> QED
  BY <1>2, <1>3, <1>4, <1>5

\* The messages that wait for the consumer.
LEMMA QuietQueue ==
  ASSUME Open, TypesOK, NEW h \in Handlers, Quiet(h)
  PROVE  \/ UNCHANGED queue
         \/ /\ SendMessage(h) /\ queue' = Append(queue, Sent(call[h]))
            /\ call[h] \in Calls /\ call[h].folder \in Folders
            /\ call[h].reason \in Reasons /\ Due(call[h]) = "publish"
BY SendTypes
   DEF Quiet, Read, Overlook, Refuse, RefuseMount, Lookup, Collect, FillCache, ReadVersion, WriteVersion, WriteName,
       BumpProject, FailingCall

\* Which folders are waited for, after a message is sent or taken.
LEMMA SentPending ==
  ASSUME QueueOK, NEW m \in Calls, Message(m), queue' = Append(queue, m), UNCHANGED consumer, NEW f
  PROVE  /\ Pending(f)' <=> Pending(f) \/ m.folder = f
         /\ InQueue(f)' <=> InQueue(f) \/ m.folder = f
<1>1. /\ Len(queue) \in Nat /\ DOMAIN queue = 1..Len(queue) /\ DOMAIN queue' = 1..(Len(queue) + 1)
      /\ \A i \in 1..Len(queue) : queue'[i] = queue[i]
      /\ queue'[Len(queue) + 1] = m
  BY AppendFacts
<1>2. InQueue(f)' <=> InQueue(f) \/ m.folder = f
  BY <1>1 DEF InQueue
<1> QED
  BY <1>2 DEF Pending, InQueue

LEMMA TakenPending ==
  ASSUME TypesOK, Consume, NEW f \in Folders
  PROVE  /\ Pending(f)' <=> Pending(f)
         /\ InQueue(f)' => InQueue(f)
         /\ InQueue(f) <=> InQueue(f)' \/ Head(queue).folder = f
<1>1. /\ queue # <<>> /\ queue' = Tail(queue) /\ consumer = Idle
      /\ IF Head(queue).reason = "chat" THEN Head(queue).folder = None /\ consumer' = Idle
         ELSE Head(queue).folder \in Folders /\ Takes(Head(queue), consumer')
  BY ConsumeTypes
<1>2. /\ Len(queue) \in Nat \ {0} /\ DOMAIN queue = 1..Len(queue) /\ DOMAIN queue' = 1..(Len(queue) - 1)
      /\ \A i \in 1..(Len(queue) - 1) : queue'[i] = queue[i + 1]
      /\ Head(queue) = queue[1]
  BY <1>1, TailFacts DEF TypesOK
<1>3. ASSUME NEW i \in DOMAIN queue PROVE i = 1 \/ (i - 1 \in DOMAIN queue' /\ queue'[i - 1] = queue[i])
  BY <1>2, <1>3
<1>4. InQueue(f) <=> InQueue(f)' \/ Head(queue).folder = f
  <2>1. ASSUME InQueue(f) PROVE InQueue(f)' \/ Head(queue).folder = f
    BY <1>2, <1>3, <2>1 DEF InQueue
  <2>2. ASSUME InQueue(f)' PROVE InQueue(f)
    <3>1. PICK i \in DOMAIN queue' : queue'[i].folder = f
      BY <2>2 DEF InQueue
    <3>2. i + 1 \in DOMAIN queue /\ queue[i + 1].folder = f
      BY <1>2, <3>1
    <3> QED
      BY <3>2 DEF InQueue
  <2>3. ASSUME Head(queue).folder = f PROVE InQueue(f)
    <3>1. 1 \in DOMAIN queue /\ queue[1].folder = f
      BY <1>2, <2>3
    <3> QED
      BY <3>1 DEF InQueue
  <2> QED
    BY <2>1, <2>2, <2>3
<1>5. consumer.folder # f /\ (consumer'.folder = f <=> Head(queue).folder = f)
  BY <1>1, IdleFacts DEF Takes
<1> QED
  BY <1>4, <1>5 DEF Pending, InQueue

LEMMA QuietLives ==
  ASSUME Open, TypesOK, LivesOK, NEW h \in Handlers, Quiet(h)
  PROVE  LivesOK'
<1>1. /\ call[h] \in Calls /\ Serving(call[h]) /\ call[h] # Idle
      /\ UNCHANGED <<tables, consumer>>
  BY QuietMoves
<1>2. PICK d \in Calls :
        /\ Moves(h, d) /\ call'[h] = d
        /\ d = Idle \/ (StaysOn(call[h], d) /\ Serving(d) /\ Due(d) # "insert")
  BY QuietMoves
<1>3. Due(call[h]) = "insert" => FailingCall(h)
  BY DEF Quiet, Read, Overlook, Refuse, RefuseMount, Lookup, Collect, FillCache, SendMessage, ReadVersion,
         WriteVersion, WriteName, BumpProject, At, Due
<1>4. d # Idle => Due(call[h]) # "insert"
  <2>1. CASE FailingCall(h)
    BY <1>2, <2>1, FailTypes
  <2> QED
    BY <1>3, <2>1
<1>5. ASSUME NEW f \in Folders, Pending(f)'
      PROVE  Pending(f) \/ (call[h].folder = f /\ Due(call[h]) # "insert")
  BY <1>1, <1>5, QuietQueue, PendingKept, SentFacts, SentPending DEF TypesOK
<1> QED
  BY <1>1, <1>2, <1>4, <1>5, StepLives

LEMMA BeginLives ==
  ASSUME TypesOK, LivesOK, NEW h \in Handlers, NEW f \in Folders,
         NEW reason \in {"create", "modify", "delete", "query", "batch"}, NEW todo \in HandlerLists,
         BeginsOn(h, f, reason, todo)
  PROVE  LivesOK'
<1> DEFINE d == New(f, reason, todo)
<1>1. /\ call[h] = Idle /\ Moves(h, d) /\ call'[h] = d
      /\ \A g \in Handlers \ {h} : call'[g] = call[g]
  BY BeginTypes
<1>2. /\ d.folder = f /\ d.reason = reason /\ d \in Calls
      /\ Due(d) = "insert" <=> reason = "create"
      /\ reason = "delete" => Due(d) = "drop"
  BY NewFacts DEF BeginsOn, TypesOK
<1>3. UNCHANGED <<tables, queue, consumer>>
  BY DEF BeginsOn, Begin
<1>4. \A k \in Folders : ActiveOn(k)' = ActiveOn(k) \cup (IF k = f THEN {h} ELSE {})
  BY <1>1, <1>2, IdleFacts, ActiveAfter DEF TypesOK
<1>5. /\ reason = "create" => tables[f] = None /\ \A g \in ActiveOn(f) : call[g].reason # "create"
      /\ reason # "create" => tables[f] # None
  BY DEF BeginsOn, Starts, Exists, Creating
<1> HIDE DEF d
<1> SUFFICES ASSUME NEW k \in Folders
             PROVE  /\ \A g \in ActiveOn(k)' : Follows(call[g], k)'
                    /\ \A g, i \in ActiveOn(k)' : call'[g].reason = "create" /\ call'[i].reason = "create" => g = i
                    /\ Pending(k)' => tables'[k] # None
  BY DEF LivesOK
<1>6. \A g \in ActiveOn(k) : g \in Handlers \ {h} /\ call'[g] = call[g]
  BY <1>1, IdleFacts DEF ActiveOn
<1>7. \A g \in ActiveOn(k)' : Follows(call[g], k)'
  <2>1. ASSUME NEW g \in ActiveOn(k) PROVE Follows(call[g], k)'
    BY <1>3, <1>6, <2>1 DEF LivesOK, Follows
  <2>2. k = f => Follows(call[h], k)'
    BY <1>1, <1>2, <1>3, <1>5 DEF Follows
  <2> QED
    BY <1>4, <2>1, <2>2
<1>8. \A g, i \in ActiveOn(k)' : call'[g].reason = "create" /\ call'[i].reason = "create" => g = i
  <2>1. CASE k = f /\ reason = "create"
    BY <1>1, <1>4, <1>5, <1>6, <2>1
  <2>2. CASE ~(k = f /\ reason = "create")
    BY <1>1, <1>2, <1>4, <1>6, <2>2 DEF LivesOK
  <2> QED
    BY <2>1, <2>2
<1>9. Pending(k)' => tables'[k] # None
  BY <1>3, PendingKept DEF LivesOK
<1> QED
  BY <1>7, <1>8, <1>9

\* What the rest of the program may do to the requests and the messages.
LEMMA ElseLives ==
  ASSUME LivesOK, UNCHANGED tables,
         call' = call \/ \A f \in Folders : ActiveOn(f)' = {},
         \A f \in Folders : Pending(f)' => Pending(f)
  PROVE  LivesOK'
<1>1. CASE call' = call
  BY <1>1 DEF LivesOK, Follows, ActiveOn
<1>2. CASE \A f \in Folders : ActiveOn(f)' = {}
  BY <1>2 DEF LivesOK
<1> QED
  BY <1>1, <1>2

LEMMA HandlingPending ==
  ASSUME TypesOK, HandlingStep
  PROVE  /\ UNCHANGED <<tables, queue, call, client, calls, faults, edits, crossed, raced, failed>>
         /\ consumer' = Idle \/ consumer'.folder = consumer.folder
<1>1. \E step : Handling(step)
  BY DEF HandlingStep, IncrementProjectVersion, AddVirtualFolderToProject, ReadFolderVersion,
         WriteFolderVersion, UpdateVirtualFolderCache,
         RemoveVirtualFolderFromProject, DeleteVirtualFolderCache
<1>2. consumer \in Calls /\ Handles(consumer)
  BY <1>1, HandlingFacts DEF TypesOK
<1>3. ASSUME NEW c \in Calls, Handles(c), c.folder = consumer.folder, consumer' = Rest(c)
      PROVE  consumer' = Idle \/ consumer'.folder = consumer.folder
  BY <1>3, Handled DEF Hands, Keeps
<1>4. CASE ReadFolderVersion
  <2> DEFINE e == [consumer EXCEPT !.version = version[consumer.folder]]
  <2>1. e \in Calls /\ e.folder = consumer.folder /\ e.reason = consumer.reason /\ e.todo = consumer.todo
    BY <1>2, IdleFacts DEF Calls, TypesOK, CacheOK
  <2>2. Handles(e)
    BY <1>2, <2>1 DEF Handles
  <2> QED
    BY <1>3, <1>4, <2>1, <2>2 DEF ReadFolderVersion, history
<1> QED
  BY <1>2, <1>3, <1>4
     DEF HandlingStep, IncrementProjectVersion, AddVirtualFolderToProject,
         WriteFolderVersion, UpdateVirtualFolderCache,
         RemoveVirtualFolderFromProject, DeleteVirtualFolderCache, history

\* Everybody but the handlers.
Else ==
  \/ ConsumerStep
  \/ \E f \in Folders : Fetch(f) \/ ExpireEntry(f)
  \/ CheckProjectVersion \/ PublishChat \/ Restart

LEMMA ChatMessage ==
  ASSUME Open, TypesOK, PublishChat
  PROVE  \E m \in Calls : /\ Message(m) /\ m.folder = None /\ m.reason = "chat"
                          /\ queue' = Append(queue, m)
<1> DEFINE m == [Idle EXCEPT !.reason = "chat"]
<1>1. m \in Calls /\ Message(m) /\ m.folder = None /\ m.reason = "chat"
  BY IdleFacts DEF Calls, Message
<1>2. queue' = Append(queue, m)
  BY DEF PublishChat, Publish, Open
<1> QED
  BY <1>1, <1>2

LEMMA RestartFacts ==
  ASSUME Restart
  PROVE  /\ \A f \in Folders : ActiveOn(f)' = {} /\ ~Pending(f)' /\ ~InQueue(f)'
         /\ queue' = <<>> /\ consumer' = Idle
         /\ \A f \in Folders \ failed' : ActiveOn(f) = {} /\ ~Pending(f) /\ f \notin failed
<1>1. queue' = <<>> /\ consumer' = Idle /\ call' = [h \in Handlers |-> Idle]
  BY DEF Restart
<1>2. failed' = failed \cup (({queue[i].folder : i \in DOMAIN queue} \cup {consumer.folder}
                               \cup {call[h].folder : h \in Handlers}) \ {None})
  BY DEF Restart, Fault
<1>3. DOMAIN queue' = {}
  BY <1>1
<1> QED
  BY <1>1, <1>2, <1>3, IdleFacts DEF ActiveOn, Pending, InQueue

LEMMA ElseMoves ==
  ASSUME Open, TypesOK, Else
  PROVE  /\ UNCHANGED tables
         /\ call' = call \/ \A f \in Folders : ActiveOn(f)' = {}
         /\ \A f \in Folders : Pending(f)' => Pending(f)
<1>1. CASE Consume
  BY <1>1, TakenPending DEF Consume
<1>2. CASE HandlingStep
  <2>1. \A f \in Folders : Pending(f)' => Pending(f)
    BY <1>2, HandlingPending, IdleFacts DEF Pending
  <2> QED
    BY <1>2, <2>1, HandlingPending
<1>3. CASE FailingConsumer
  BY <1>3, IdleFacts DEF FailingConsumer, Pending
<1>4. CASE (\E f \in Folders : Fetch(f) \/ ExpireEntry(f)) \/ CheckProjectVersion
  BY <1>4, PendingKept DEF Fetch, ExpireEntry, CheckProjectVersion
<1>5. CASE PublishChat
  <2>1. PICK m \in Calls : Message(m) /\ m.folder = None /\ queue' = Append(queue, m)
    BY <1>5, ChatMessage
  <2> QED
    BY <1>5, <2>1, SentPending DEF PublishChat, TypesOK
<1>6. CASE Restart
  BY <1>6, RestartFacts DEF Restart
<1> QED
  BY <1>1, <1>2, <1>3, <1>4, <1>5, <1>6 DEF Else, ConsumerStep, HandlingStep

LEMMA Steps ==
  ASSUME Next
  PROVE  \/ \E h \in Handlers : Beginning(h) \/ Writing(h) \/ Quiet(h)
         \/ Else
BY DEF Next, Step, Beginning, Writing, Quiet, Else

LEMMA NextLives ==
  ASSUME Open, TypesOK, LivesOK, Next
  PROVE  LivesOK'
<1>1. ASSUME NEW h \in Handlers, Beginning(h) PROVE LivesOK'
  BY <1>1, Beginnings, BeginLives
<1>2. CASE Else
  BY <1>2, ElseMoves, ElseLives
<1> QED
  BY <1>1, <1>2, Steps, WriteLives, QuietLives

-----------------------------------------------------------------------------
(* Every edit moves the version of the project once.                       *)

LEMMA OneMore ==
  ASSUME NEW S, NEW T, NEW x, IsFiniteSet(S), x \notin S, T = S \cup {x}
  PROVE  IsFiniteSet(T) /\ Cardinality(S) \in Nat /\ Cardinality(T) = Cardinality(S) + 1
<1>1. Cardinality(S) \in Nat
  BY FS_CardinalityType
<1>2. IsFiniteSet(S \cup {x}) /\ Cardinality(S \cup {x}) = IF x \in S THEN Cardinality(S) ELSE Cardinality(S) + 1
  BY FS_AddElement
<1> QED
  BY <1>1, <1>2

LEMMA OneLess ==
  ASSUME NEW S, NEW T, NEW x, IsFiniteSet(S), x \in S, T = S \ {x}
  PROVE  IsFiniteSet(T) /\ Cardinality(S) \in Nat /\ Cardinality(T) = Cardinality(S) - 1
<1>1. Cardinality(S) \in Nat
  BY FS_CardinalityType
<1>2. IsFiniteSet(S \ {x}) /\ Cardinality(S \ {x}) = IF x \in S THEN Cardinality(S) - 1 ELSE Cardinality(S)
  BY FS_RemoveElement
<1> QED
  BY <1>1, <1>2

LEMMA OwingAfter ==
  ASSUME TypesOK, NEW h \in Handlers, NEW d \in Calls, d = Idle \/ Serving(d), Moves(h, d)
  PROVE  OwingCalls' = (OwingCalls \ {h}) \cup (IF d # Idle /\ Owes(d) THEN {h} ELSE {})
<1>1. \A g \in Handlers : call'[g] = IF g = h THEN d ELSE call[g]
  BY DEF TypesOK, CallsOK, Moves
<1>2. d.folder # None <=> d # Idle
  BY IdleFacts
<1> QED
  BY <1>1, <1>2 DEF OwingCalls

Owing(c) == c # Idle /\ Owes(c)

\* One more, or one less, or as many.
LEMMA OwingCount ==
  ASSUME TypesOK, IsFiniteSet(OwingCalls), NEW h \in Handlers, call[h] = Idle \/ Serving(call[h]),
         NEW d \in Calls, d = Idle \/ Serving(d), Moves(h, d)
  PROVE  /\ IsFiniteSet(OwingCalls') /\ Cardinality(OwingCalls) \in Nat
         /\ (Owing(call[h]) <=> Owing(d)) => Cardinality(OwingCalls') = Cardinality(OwingCalls)
         /\ ~Owing(call[h]) /\ Owing(d) => Cardinality(OwingCalls') = Cardinality(OwingCalls) + 1
         /\ Owing(call[h]) /\ ~Owing(d) => Cardinality(OwingCalls') = Cardinality(OwingCalls) - 1
<1>1. OwingCalls' = (OwingCalls \ {h}) \cup (IF Owing(d) THEN {h} ELSE {})
  BY OwingAfter DEF Owing
<1>2. Owing(call[h]) <=> h \in OwingCalls
  BY IdleFacts DEF OwingCalls, TypesOK, CallsOK, Owing
<1>3. CASE Owing(call[h]) <=> Owing(d)
  <2>1. OwingCalls' = OwingCalls
    BY <1>1, <1>2, <1>3
  <2>2. Cardinality(OwingCalls) \in Nat
    BY FS_CardinalityType
  <2> QED
    BY <1>3, <2>1, <2>2
<1>4. CASE ~Owing(call[h]) /\ Owing(d)
  <2>1. OwingCalls' = OwingCalls \cup {h} /\ h \notin OwingCalls
    BY <1>1, <1>2, <1>4
  <2>2. IsFiniteSet(OwingCalls') /\ Cardinality(OwingCalls) \in Nat
        /\ Cardinality(OwingCalls') = Cardinality(OwingCalls) + 1
    BY <2>1, OneMore
  <2> QED
    BY <1>4, <2>2
<1>5. CASE Owing(call[h]) /\ ~Owing(d)
  <2>1. OwingCalls' = OwingCalls \ {h} /\ h \in OwingCalls
    BY <1>1, <1>2, <1>5
  <2>2. IsFiniteSet(OwingCalls') /\ Cardinality(OwingCalls) \in Nat
        /\ Cardinality(OwingCalls') = Cardinality(OwingCalls) - 1
    BY <2>1, OneLess
  <2> QED
    BY <1>5, <2>2
<1> QED
  BY <1>3, <1>4, <1>5

LEMMA EditedCounted ==
  ASSUME NEW q \in Seq(Calls)
  PROVE  LET S == {i \in DOMAIN q : Edited(q[i])} IN IsFiniteSet(S) /\ Cardinality(S) \in Nat
<1> DEFINE S == {i \in DOMAIN q : Edited(q[i])}
<1>1. Len(q) \in Nat /\ S \subseteq 1..Len(q)
  OBVIOUS
<1>2. IsFiniteSet(1..Len(q))
  BY <1>1, FS_Interval
<1> HIDE DEF S
<1>3. IsFiniteSet(S)
  BY <1>1, <1>2, FS_Subset
<1>4. IsFiniteSet(S) /\ Cardinality(S) \in Nat
  BY <1>3, FS_CardinalityType
<1> QED
  BY <1>4 DEF S

LEMMA MessagesCounted ==
  /\ QueueOK => IsFiniteSet(OwingMessages) /\ Cardinality(OwingMessages) \in Nat
  /\ QueueOK' => IsFiniteSet(OwingMessages') /\ Cardinality(OwingMessages') \in Nat
BY EditedCounted DEF QueueOK, OwingMessages

LEMMA SentCount ==
  ASSUME QueueOK, NEW m \in Calls, Message(m), queue' = Append(queue, m)
  PROVE  Cardinality(OwingMessages') = Cardinality(OwingMessages) + (IF Edited(m) THEN 1 ELSE 0)
<1>1. /\ Len(queue) \in Nat /\ DOMAIN queue = 1..Len(queue) /\ DOMAIN queue' = 1..(Len(queue) + 1)
      /\ \A i \in 1..Len(queue) : queue'[i] = queue[i]
      /\ queue'[Len(queue) + 1] = m
  BY AppendFacts
<1>2. OwingMessages' = OwingMessages \cup (IF Edited(m) THEN {Len(queue) + 1} ELSE {})
  BY <1>1 DEF OwingMessages
<1>3. Len(queue) + 1 \notin OwingMessages
  BY <1>1 DEF OwingMessages
<1>4. IsFiniteSet(OwingMessages) /\ Cardinality(OwingMessages) \in Nat
  BY MessagesCounted
<1>5. CASE Edited(m)
  <2>1. Cardinality(OwingMessages') = Cardinality(OwingMessages) + 1
    BY <1>2, <1>3, <1>4, <1>5, OneMore
  <2> QED
    BY <1>5, <2>1
<1>6. CASE ~Edited(m)
  BY <1>2, <1>4, <1>6
<1> QED
  BY <1>5, <1>6

LEMMA TakenCount ==
  ASSUME QueueOK, queue # <<>>, queue' = Tail(queue)
  PROVE  Cardinality(OwingMessages') = Cardinality(OwingMessages) - (IF Edited(Head(queue)) THEN 1 ELSE 0)
<1>1. /\ Len(queue) \in Nat \ {0} /\ DOMAIN queue = 1..Len(queue) /\ DOMAIN queue' = 1..(Len(queue) - 1)
      /\ \A i \in 1..(Len(queue) - 1) : queue'[i] = queue[i + 1]
      /\ Head(queue) = queue[1] /\ QueueOK'
  BY TailFacts
<1> DEFINE S == OwingMessages \ {1}
           f == [i \in S |-> i - 1]
<1>2. IsFiniteSet(S) /\ Cardinality(S) = Cardinality(OwingMessages) - (IF Edited(Head(queue)) THEN 1 ELSE 0)
  <2>1. 1 \in OwingMessages <=> Edited(Head(queue))
    BY <1>1 DEF OwingMessages
  <2>2. IsFiniteSet(OwingMessages) /\ Cardinality(OwingMessages) \in Nat
    BY MessagesCounted
  <2>3. CASE Edited(Head(queue))
    <3>1. IsFiniteSet(S) /\ Cardinality(S) = Cardinality(OwingMessages) - 1
      BY <2>1, <2>2, <2>3, OneLess
    <3> QED
      BY <2>3, <3>1
  <2>4. CASE ~Edited(Head(queue))
    <3>1. S = OwingMessages
      BY <2>1, <2>4
    <3> HIDE DEF S
    <3> QED
      BY <2>2, <2>4, <3>1
  <2> QED
    BY <2>3, <2>4
<1>3. ExistsBijection(S, OwingMessages')
  <2>1. \A i \in S : f[i] \in OwingMessages'
    <3> SUFFICES ASSUME NEW i \in S PROVE i - 1 \in OwingMessages'
      OBVIOUS
    <3>1. i \in 2..Len(queue) /\ Edited(queue[i])
      BY <1>1 DEF OwingMessages
    <3>2. i - 1 \in DOMAIN queue' /\ queue'[i - 1] = queue[i]
      BY <1>1, <3>1
    <3> QED
      BY <3>1, <3>2 DEF OwingMessages
  <2>2. \A i, j \in S : f[i] = f[j] => i = j
    BY <1>1 DEF OwingMessages
  <2>3. \A j \in OwingMessages' : \E i \in S : f[i] = j
    <3> SUFFICES ASSUME NEW j \in OwingMessages' PROVE \E i \in S : i - 1 = j
      OBVIOUS
    <3>1. j \in 1..(Len(queue) - 1) /\ Edited(queue'[j])
      BY <1>1 DEF OwingMessages
    <3>2. j + 1 \in OwingMessages /\ j + 1 # 1 /\ (j + 1) - 1 = j
      BY <1>1, <3>1 DEF OwingMessages
    <3> QED
      BY <3>2
  <2> QED
    <3>1. f \in [S -> OwingMessages']
      BY <2>1
    <3>2. IsInjective(f)
      BY <2>2 DEF IsInjective
    <3> HIDE DEF f
    <3>3. f \in Bijection(S, OwingMessages')
      BY <2>3, <3>1, <3>2 DEF Bijection, Injection, Surjection
    <3> QED
      BY <3>3 DEF ExistsBijection
<1> HIDE DEF f, S
<1>4. Cardinality(OwingMessages') = Cardinality(S)
  BY <1>2, <1>3, FS_Bijection
<1> QED
  BY <1>2, <1>4

Debt(c) == IF Owing(c) THEN 1 ELSE 0

\* The balance after a step of a request.
LEMMA BalanceKept ==
  ASSUME TypesOK, TypesOK', EditsOwed, NEW h \in Handlers, call[h] = Idle \/ Serving(call[h]),
         NEW d \in Calls, d = Idle \/ Serving(d), Moves(h, d), faults' = 0 => faults = 0,
         UNCHANGED consumer,
         faults' = 0 => edits' - projectVersion' + Debt(call[h]) + Cardinality(OwingMessages)
                          = edits - projectVersion + Debt(d) + Cardinality(OwingMessages')
  PROVE  EditsOwed'
<1> SUFFICES ASSUME faults' = 0
             PROVE  /\ IsFiniteSet(OwingCalls')
                    /\ edits' = projectVersion' + Cardinality(OwingCalls') + Cardinality(OwingMessages')
                                + ConsumerOwes'
  BY DEF EditsOwed
<1>1. /\ IsFiniteSet(OwingCalls)
      /\ edits = projectVersion + Cardinality(OwingCalls) + Cardinality(OwingMessages) + ConsumerOwes
  BY DEF EditsOwed
<1>2. Cardinality(OwingMessages) \in Nat /\ Cardinality(OwingMessages') \in Nat
  BY MessagesCounted DEF TypesOK
<1>3. ConsumerOwes' = ConsumerOwes /\ ConsumerOwes \in Nat
  BY DEF ConsumerOwes, Due
<1>4. /\ IsFiniteSet(OwingCalls') /\ Cardinality(OwingCalls) \in Nat
      /\ Cardinality(OwingCalls') = Cardinality(OwingCalls) + Debt(d) - Debt(call[h])
  <2>1. /\ IsFiniteSet(OwingCalls') /\ Cardinality(OwingCalls) \in Nat
        /\ (Owing(call[h]) <=> Owing(d)) => Cardinality(OwingCalls') = Cardinality(OwingCalls)
        /\ ~Owing(call[h]) /\ Owing(d) => Cardinality(OwingCalls') = Cardinality(OwingCalls) + 1
        /\ Owing(call[h]) /\ ~Owing(d) => Cardinality(OwingCalls') = Cardinality(OwingCalls) - 1
    BY <1>1, OwingCount
  <2> QED
    BY <2>1 DEF Debt
<1>5. Debt(d) \in {0, 1} /\ Debt(call[h]) \in {0, 1}
  BY DEF Debt
<1>6. edits \in Int /\ edits' \in Int /\ projectVersion \in Nat /\ projectVersion' \in Nat
  BY DEF TypesOK, CacheOK
<1>7. edits' - projectVersion' + Debt(call[h]) + Cardinality(OwingMessages)
        = edits - projectVersion + Debt(d) + Cardinality(OwingMessages')
  OBVIOUS
<1> HIDE DEF Debt
<1>8. ASSUME NEW e \in Int, NEW e1 \in Int, NEW v \in Nat, NEW v1 \in Nat, NEW n \in Nat, NEW m \in Nat,
             NEW m1 \in Nat, NEW o \in Nat, NEW x \in {0, 1}, NEW x1 \in {0, 1},
             e = v + n + m + o, e1 - v1 + x + m = e - v + x1 + m1
      PROVE  e1 = v1 + (n + x1 - x) + m1 + o
  BY <1>8
<1>9. edits' = projectVersion' + Cardinality(OwingCalls') + Cardinality(OwingMessages') + ConsumerOwes'
  <2> DEFINE n == Cardinality(OwingCalls)  n1 == Cardinality(OwingCalls')
             m == Cardinality(OwingMessages)  m1 == Cardinality(OwingMessages')
             x == Debt(call[h])  x1 == Debt(d)
  <2>1. /\ n \in Nat /\ m \in Nat /\ m1 \in Nat /\ x \in {0, 1} /\ x1 \in {0, 1} /\ n1 = n + x1 - x
        /\ edits = projectVersion + n + m + ConsumerOwes
        /\ edits' - projectVersion' + x + m = edits - projectVersion + x1 + m1
    BY <1>1, <1>2, <1>4, <1>5, <1>7
  <2> HIDE DEF n, n1, m, m1, x, x1
  <2>2. edits' = projectVersion' + (n + x1 - x) + m1 + ConsumerOwes
    BY <2>1, <1>3, <1>6, <1>8
  <2>3. edits' = projectVersion' + n1 + m1 + ConsumerOwes'
    BY <2>1, <2>2, <1>3
  <2> QED
    BY <2>3 DEF n1, m1
<1> QED
  BY <1>4, <1>9

LEMMA DebtKept ==
  ASSUME TypesOK, TypesOK', EditsOwed, NEW h \in Handlers, call[h] = Idle \/ Serving(call[h]),
         NEW d \in Calls, d = Idle \/ Serving(d), Moves(h, d), faults' = 0 => faults = 0,
         UNCHANGED <<consumer, queue>>,
         edits' - projectVersion' + Debt(call[h]) = edits - projectVersion + Debt(d)
  PROVE  EditsOwed'
<1>1. OwingMessages' = OwingMessages /\ Cardinality(OwingMessages) \in Nat
  BY MessagesCounted DEF TypesOK, OwingMessages
<1>2. Debt(d) \in {0, 1} /\ Debt(call[h]) \in {0, 1}
  BY DEF Debt
<1>3. edits \in Int /\ edits' \in Int /\ projectVersion \in Nat /\ projectVersion' \in Nat
  BY DEF TypesOK, CacheOK
<1>4. edits' - projectVersion' + Debt(call[h]) + Cardinality(OwingMessages)
        = edits - projectVersion + Debt(d) + Cardinality(OwingMessages')
  BY <1>1, <1>2, <1>3
<1> QED
  BY <1>4, BalanceKept

LEMMA BeginEdits ==
  ASSUME TypesOK, EditsOwed, NEW h \in Handlers, NEW f \in Folders,
         NEW reason \in {"create", "modify", "delete", "query", "batch"}, NEW todo \in HandlerLists,
         BeginsOn(h, f, reason, todo)
  PROVE  EditsOwed'
<1> DEFINE d == New(f, reason, todo)
<1>1. TypesOK' /\ call[h] = Idle /\ Moves(h, d)
  BY BeginTypes
<1>2. d \in Calls /\ Serving(d) /\ ~Owes(d)
  BY NewFacts DEF BeginsOn, TypesOK, Owes
<1>3. UNCHANGED <<queue, consumer, faults, edits, projectVersion>>
  BY DEF BeginsOn, Begin, redis
<1>4. Debt(d) = 0 /\ Debt(call[h]) = 0
  BY <1>1, <1>2 DEF Debt, Owing
<1> HIDE DEF d
<1>5. edits' - projectVersion' + Debt(call[h]) = edits - projectVersion + Debt(d)
  BY <1>3, <1>4
<1> QED
  BY <1>1, <1>2, <1>3, <1>5, DebtKept

LEMMA Debts ==
  ASSUME NEW c \in Calls, Serving(c), Leads(c, Due(Rest(c)))
  PROVE  /\ Due(c) \in {"insert", "save", "attach"} => Debt(c) = 0 /\ Debt(Rest(c)) = 1
         /\ Due(c) \in {"read", "detach", "drop"} => Debt(c) = 0 /\ Debt(Rest(c)) = 0
         /\ Due(c) = "mount" => Debt(c) = 1 /\ Debt(Rest(c)) = 1
<1> DEFINE d == Rest(c)
<1>1. c # Idle /\ d # Idle /\ d.reason = c.reason
  BY IdleFacts DEF Leads, Keeps
<1> HIDE DEF d
<1>2. CASE Due(c) \in {"insert", "save", "attach"}
  <2>1. ~Owes(c)
    BY <1>2, Serves DEF Owes
  <2>2. Owes(d)
    BY <1>1, <1>2, Serves DEF d, Owes, Leads, Keeps
  <2> QED
    BY <1>1, <1>2, <2>1, <2>2 DEF d, Debt, Owing
<1>3. CASE Due(c) \in {"read", "detach", "drop"}
  <2>1. ~Owes(c)
    BY <1>3, Serves DEF Owes
  <2>2. ~Owes(d)
    BY <1>1, <1>3, Serves DEF d, Owes, Leads, Keeps
  <2> QED
    BY <1>1, <1>3, <2>1, <2>2 DEF d, Debt, Owing
<1>4. CASE Due(c) = "mount"
  <2>1. Owes(c)
    BY <1>4, Serves DEF Owes
  <2>2. Owes(d)
    BY <1>1, <1>4, Serves DEF d, Owes, Leads, Keeps
  <2> QED
    BY <1>1, <1>4, <2>1, <2>2 DEF d, Debt, Owing
<1> QED
  BY <1>2, <1>3, <1>4

LEMMA WriteEdits ==
  ASSUME TypesOK, LivesOK, EditsOwed, NEW h \in Handlers, Writing(h)
  PROVE  EditsOwed'
<1> DEFINE c == call[h]  d == Rest(call[h])
<1>1. /\ TypesOK' /\ Moves(h, d) /\ c \in Calls /\ Serving(c)
      /\ d \in Calls /\ Serving(d) /\ Leads(c, Due(d))
  BY WriteTypes DEF Leads, Keeps
<1>2. UNCHANGED <<queue, consumer, faults, projectVersion>>
  BY DEF Writing, Insert, Save, Detach, Attach, Mount, Drop, Write, redis
<1>3. edits \in Int /\ projectVersion \in Nat
  BY DEF TypesOK, CacheOK
<1>4. edits' - projectVersion' + Debt(c) = edits - projectVersion + Debt(d)
  <2>1. CASE Insert(h) \/ Save(h) \/ Attach(h)
    <3>1. edits' = edits + 1 /\ Due(c) \in {"insert", "save", "attach"}
      BY <2>1 DEF Insert, Save, Attach, At, Due
    <3>2. Debt(c) = 0 /\ Debt(d) = 1
      BY <1>1, <3>1, Debts
    <3> QED
      BY <1>2, <1>3, <3>1, <3>2
  <2>2. CASE Detach(h) \/ Drop(h)
    <3>1. edits' = edits /\ Due(c) \in {"detach", "drop"}
      BY <2>2 DEF Detach, Drop, At, Due
    <3>2. Debt(c) = 0 /\ Debt(d) = 0
      BY <1>1, <3>1, Debts
    <3> QED
      BY <1>2, <1>3, <3>1, <3>2
  <2>3. CASE Mount(h)
    <3>1. edits' = edits /\ Due(c) = "mount"
      BY <2>3 DEF Mount, At, Due
    <3>2. Debt(c) = 1 /\ Debt(d) = 1
      BY <1>1, <3>1, Debts
    <3> QED
      BY <1>2, <1>3, <3>1, <3>2
  <2> QED
    BY <2>1, <2>2, <2>3 DEF Writing
<1> QED
  BY <1>1, <1>2, <1>4, DebtKept

\* The steps of a request that send nothing.
LEMMA QuietEdits ==
  ASSUME Open, TypesOK, TypesOK', LivesOK, EditsOwed, NEW h \in Handlers, Quiet(h), ~SendMessage(h)
  PROVE  EditsOwed'
<1> DEFINE c == call[h]
<1>1. c \in Calls /\ Serving(c) /\ c # Idle /\ UNCHANGED consumer
  BY QuietMoves
<1>2. UNCHANGED queue
  BY QuietQueue
<1>3. PICK d \in Calls : /\ Moves(h, d) /\ call'[h] = d
                         /\ d = Idle \/ (StaysOn(c, d) /\ Serving(d))
  BY QuietMoves
<1>4. edits \in Int /\ projectVersion \in Nat
  BY DEF TypesOK, CacheOK
<1>5. CASE FailingCall(h)
  <2>1. faults' # 0
    BY <1>5 DEF FailingCall, Fault, TypesOK
  <2> QED
    BY <2>1 DEF EditsOwed
<1>6. CASE ~FailingCall(h)
  <2>1. UNCHANGED faults
    BY <1>6 DEF Quiet, Read, Overlook, Refuse, RefuseMount, Lookup, Collect, FillCache, SendMessage,
                ReadVersion, WriteVersion, WriteName, BumpProject
  <2>2. edits' - projectVersion' + Debt(c) = edits - projectVersion + Debt(d)
    <3>1. CASE Refuse(h) \/ Lookup(h) \/ FillCache(h)
      <4>1. Due(c) \in {"read", "detach", "lookup", "fill"} /\ UNCHANGED <<edits, projectVersion>>
        BY <3>1 DEF Refuse, Lookup, FillCache, At, Due, history, redis
      <4>2. ~Owes(c)
        BY <1>1, <4>1, Serves DEF Owes
      <4>3. CASE Refuse(h)
        <5>1. d = Idle
          BY <1>3, <4>3 DEF Refuse, Return, Moves, TypesOK, CallsOK
        <5>2. Debt(c) = 0 /\ Debt(d) = 0
          BY <4>2, <5>1 DEF Debt, Owing
        <5> QED
          BY <1>4, <4>1, <5>2
      <4>4. CASE Lookup(h) \/ FillCache(h)
        <5>1. c.reason = "query"
          BY <1>1, <4>4, Serves DEF Lookup, FillCache, At, Due
        <5>2. Debt(c) = 0 /\ Debt(d) = 0
          BY <1>3, <5>1 DEF Debt, Owing, Owes, StaysOn
        <5> QED
          BY <1>4, <4>1, <5>2
      <4> QED
        BY <3>1, <4>3, <4>4
    <3>2. CASE Collect(h) /\ Found(h)
      <4>1. UNCHANGED <<edits, projectVersion>> /\ Due(c) = "collect"
        BY <3>2 DEF Collect, redis, At, Due
      <4>2. d = Rest([c EXCEPT !.name = Row(h).name, !.father = CachedFather(Row(h).father)])
        BY <1>3, <3>2 DEF Collect, Go, TypesOK, CallsOK
      <4>3. \/ c.reason = "query" /\ Seen(c, Row(h), d, "fill")
            \/ c.reason \in Reasons /\ Seen(c, Row(h), d, "publish")
        BY <3>2, <4>2, SeenFacts DEF Collect
      <4>4. Owing(c) <=> Owing(d)
        BY <1>1, <4>1, <4>3, IdleFacts DEF Owing, Owes, Seen, Reasons
      <4>5. Debt(c) = Debt(d) /\ Debt(c) \in {0, 1}
        BY <4>4 DEF Debt
      <4> QED
        BY <1>4, <4>1, <4>5
    <3>3. CASE Collect(h) /\ ~Found(h)
      <4>1. /\ UNCHANGED projectVersion /\ Due(c) = "collect"
            /\ edits' = IF c.reason \in {"create", "modify"} THEN edits - 1 ELSE edits
        BY <3>3 DEF Collect, redis, At, Due
      <4>2. d = Idle
        BY <1>3, <3>3 DEF Collect, Return, TypesOK, CallsOK
      <4>3. Owing(c) <=> c.reason \in {"create", "modify"}
        BY <1>1, <4>1, Serves DEF Owing, Owes, Reasons
      <4>4. Debt(d) = 0 /\ Debt(c) = IF c.reason \in {"create", "modify"} THEN 1 ELSE 0
        BY <4>2, <4>3 DEF Debt, Owing
      <4> QED
        BY <1>4, <4>1, <4>4
    <3>4. CASE ReadVersion(h) \/ WriteVersion(h) \/ WriteName(h)
      <4>1. UNCHANGED <<edits, projectVersion>> /\ Due(c) \in {"readVersion", "writeVersion", "writeName"}
        BY <3>4 DEF ReadVersion, WriteVersion, WriteName, redis, At, Due, history
      <4>2. c.reason = "batch"
        BY <1>1, <4>1, Serves
      <4>3. d # Idle /\ Due(d) \notin {"read", "save"}
        <5>1. CASE ReadVersion(h)
          <6> DEFINE e == [c EXCEPT !.version = version[c.folder]]
          <6>1. e \in Calls /\ e.folder = c.folder /\ e.reason = c.reason /\ e.todo = c.todo
            BY <1>1 DEF Calls, TypesOK, CacheOK, Serving
          <6>2. Serving(e) /\ Due(e) = "readVersion"
            BY <1>1, <5>1, <6>1 DEF Serving, Doing, Due, ReadVersion, At
          <6>3. d = Rest(e)
            BY <1>3, <5>1 DEF ReadVersion, Go, TypesOK, CallsOK
          <6> HIDE DEF e
          <6> QED
            BY <6>1, <6>2, <6>3, Serves, IdleFacts DEF Leads, Keeps
        <5>2. CASE WriteVersion(h) \/ WriteName(h)
          <6>1. d = Rest(c)
            BY <1>3, <5>2 DEF WriteVersion, WriteName, Continue, Go, TypesOK, CallsOK
          <6>2. Due(c) \in {"writeVersion", "writeName"}
            BY <5>2 DEF WriteVersion, WriteName, At, Due
          <6> QED
            BY <1>1, <6>1, <6>2, Serves, IdleFacts DEF Leads, Keeps
        <5> QED
          BY <3>4, <5>1, <5>2
      <4>4. Debt(c) = 1 /\ Debt(d) = 1
        BY <1>1, <1>3, <4>1, <4>2, <4>3 DEF Debt, Owing, Owes, StaysOn
      <4> QED
        BY <1>4, <4>1, <4>4
    <3>5. CASE BumpProject(h)
      <4>1. edits' = edits /\ projectVersion' = projectVersion + 1 /\ Due(c) = "bumpProject"
        BY <3>5 DEF BumpProject, history, At, Due
      <4>2. c.reason = "batch" /\ Rest(c) = Idle
        BY <1>1, <4>1, Serves
      <4>3. d = Idle
        BY <1>3, <3>5, <4>2 DEF BumpProject, Continue, Go, TypesOK, CallsOK
      <4>4. Debt(c) = 1 /\ Debt(d) = 0
        BY <1>1, <4>1, <4>2, <4>3 DEF Debt, Owing, Owes
      <4> QED
        BY <1>4, <4>1, <4>4
    <3>6. CASE Read(h) \/ Overlook(h)
      <4>1. /\ Moves(h, Rest(c)) /\ Leads(c, Due(Rest(c))) /\ UNCHANGED projectVersion
            /\ Due(c) \in {"read", "save", "detach", "attach", "mount", "drop"}
            /\ edits' = IF Due(c) \in {"save", "attach"} THEN edits + 1 ELSE edits
        BY <3>6, PassTypes DEF Read, Overlook, At, Due, history, redis
      <4>2. d = Rest(c)
        BY <1>3, <4>1 DEF Moves, TypesOK, CallsOK
      <4>3. CASE Due(c) \in {"save", "attach"}
        <5>1. Debt(c) = 0 /\ Debt(d) = 1
          BY <1>1, <4>1, <4>2, <4>3, Debts
        <5> QED
          BY <1>4, <4>1, <4>3, <5>1
      <4>4. CASE Due(c) \in {"read", "detach", "drop"}
        <5>1. Debt(c) = 0 /\ Debt(d) = 0
          BY <1>1, <4>1, <4>2, <4>4, Debts
        <5> QED
          BY <1>4, <4>1, <4>4, <5>1
      <4>5. CASE Due(c) = "mount"
        <5>1. Debt(c) = 1 /\ Debt(d) = 1
          BY <1>1, <4>1, <4>2, <4>5, Debts
        <5> QED
          BY <1>4, <4>1, <4>5, <5>1
      <4> QED
        BY <4>1, <4>3, <4>4, <4>5
    <3>7. CASE RefuseMount(h)
      <4>1. /\ UNCHANGED projectVersion /\ Due(c) \in {"attach", "mount"}
            /\ edits' = IF Due(c) = "mount" THEN edits - 1 ELSE edits
        BY <3>7 DEF RefuseMount, At, Due, redis
      <4>2. d = Idle
        BY <1>3, <3>7 DEF RefuseMount, Return, TypesOK, CallsOK
      <4>3. Owing(c) <=> Due(c) = "mount"
        BY <1>1, <4>1, Serves DEF Owing, Owes
      <4>4. Debt(d) = 0 /\ Debt(c) = IF Due(c) = "mount" THEN 1 ELSE 0
        BY <4>2, <4>3 DEF Debt, Owing
      <4> QED
        BY <1>4, <4>1, <4>4
    <3> QED
      BY <1>6, <3>1, <3>2, <3>3, <3>4, <3>5, <3>6, <3>7 DEF Quiet
  <2> QED
    BY <1>1, <1>2, <1>3, <2>1, <2>2, DebtKept
<1> QED
  BY <1>5, <1>6

LEMMA SendEdits ==
  ASSUME Open, TypesOK, EditsOwed, NEW h \in Handlers, SendMessage(h)
  PROVE  EditsOwed'
<1> DEFINE c == call[h]  m == Sent(call[h])
<1>1. /\ TypesOK' /\ Moves(h, Idle) /\ queue' = Append(queue, m)
      /\ c \in Calls /\ c.folder \in Folders
      /\ c.reason \in Reasons /\ Due(c) = "publish"
  BY SendTypes
<1>2. m \in Calls /\ Message(m) /\ m.folder = c.folder /\ m.reason = c.reason
  BY <1>1, SentFacts
<1>3. /\ UNCHANGED <<consumer, faults, projectVersion>>
      /\ edits' = IF c.reason = "delete" THEN edits + 1 ELSE edits
  BY DEF SendMessage, redis
<1>4. call[h] # Idle /\ Serving(call[h]) /\ Idle \in Calls /\ Debt(Idle) = 0
  BY <1>1, IdleFacts DEF TypesOK, CallsOK, Debt, Owing
<1>5. /\ Edited(m) <=> c.reason \in {"create", "modify", "delete"}
      /\ Debt(c) = IF c.reason \in {"create", "modify"} THEN 1 ELSE 0
  <2>1. c # Idle /\ c.folder # None
    BY <1>1, <1>4
  <2>2. Owes(c) <=> c.reason \in {"create", "modify"}
    BY <1>1 DEF Owes, Reasons
  <2> QED
    BY <1>1, <1>2, <2>1, <2>2 DEF Debt, Owing, Edited
<1>6. Cardinality(OwingMessages') = Cardinality(OwingMessages) + Debt(c) + (edits' - edits)
  <2>1. edits' - edits = IF c.reason = "delete" THEN 1 ELSE 0
    BY <1>3 DEF TypesOK
  <2>2. Cardinality(OwingMessages') = Cardinality(OwingMessages) + (IF Edited(m) THEN 1 ELSE 0)
    BY <1>1, <1>2, SentCount DEF TypesOK
  <2>3. Cardinality(OwingMessages) \in Nat
    BY MessagesCounted DEF TypesOK
  <2> HIDE DEF c, m
  <2> QED
    BY <1>5, <2>1, <2>2, <2>3
<1>7. /\ Cardinality(OwingMessages) \in Nat /\ Debt(c) \in {0, 1} /\ edits \in Int /\ projectVersion \in Nat
      /\ edits' \in Int
  BY <1>1, MessagesCounted DEF TypesOK, CacheOK, Debt
<1> HIDE DEF c, m
<1>8. edits' - projectVersion' + Debt(c) + Cardinality(OwingMessages)
        = edits - projectVersion + Debt(Idle) + Cardinality(OwingMessages')
  BY <1>3, <1>4, <1>6, <1>7
<1> QED
  BY <1>1, <1>3, <1>4, <1>8, BalanceKept DEF c

\* The steps that move no request.
LEMMA OthersKept ==
  ASSUME TypesOK, TypesOK', EditsOwed, UNCHANGED call, faults' = 0 => faults = 0,
         faults' = 0 => edits' - projectVersion' + Cardinality(OwingMessages) + ConsumerOwes
                          = edits - projectVersion + Cardinality(OwingMessages') + ConsumerOwes'
  PROVE  EditsOwed'
<1> SUFFICES ASSUME faults' = 0
             PROVE  /\ IsFiniteSet(OwingCalls')
                    /\ edits' = projectVersion' + Cardinality(OwingCalls') + Cardinality(OwingMessages')
                                + ConsumerOwes'
  BY DEF EditsOwed
<1>1. /\ IsFiniteSet(OwingCalls)
      /\ edits = projectVersion + Cardinality(OwingCalls) + Cardinality(OwingMessages) + ConsumerOwes
  BY DEF EditsOwed
<1>2. OwingCalls' = OwingCalls /\ Cardinality(OwingCalls) \in Nat
  BY <1>1, FS_CardinalityType DEF OwingCalls
<1>3. ConsumerOwes' \in Nat /\ ConsumerOwes \in Nat
  BY DEF ConsumerOwes
<1>4. Cardinality(OwingMessages) \in Nat /\ Cardinality(OwingMessages') \in Nat
  BY MessagesCounted DEF TypesOK
<1>5. edits \in Int /\ edits' \in Int /\ projectVersion \in Nat /\ projectVersion' \in Nat
  BY DEF TypesOK, CacheOK
<1>6. ASSUME NEW e \in Int, NEW e1 \in Int, NEW v \in Nat, NEW v1 \in Nat, NEW n \in Nat, NEW m \in Nat,
             NEW m1 \in Nat, NEW o \in Nat, NEW o1 \in Nat,
             e = v + n + m + o, e1 - v1 + m + o = e - v + m1 + o1
      PROVE  e1 = v1 + n + m1 + o1
  BY <1>6
<1>7. edits' - projectVersion' + Cardinality(OwingMessages) + ConsumerOwes
        = edits - projectVersion + Cardinality(OwingMessages') + ConsumerOwes'
  OBVIOUS
<1>8. PICK n \in Nat : n = Cardinality(OwingCalls)
  BY <1>2
<1>9. PICK m \in Nat : m = Cardinality(OwingMessages)
  BY <1>4
<1>10. PICK m1 \in Nat : m1 = Cardinality(OwingMessages')
  BY <1>4
<1>11. edits = projectVersion + n + m + ConsumerOwes
  BY <1>1, <1>8, <1>9
<1>12. edits' = projectVersion' + n + m1 + ConsumerOwes'
  BY <1>3, <1>5, <1>6, <1>7, <1>9, <1>10, <1>11
<1> QED
  BY <1>1, <1>2, <1>8, <1>10, <1>12

LEMMA ConsumerEdits ==
  ASSUME TypesOK, TypesOK', EditsOwed, Consume \/ HandlingStep
  PROVE  EditsOwed'
<1>1. UNCHANGED <<call, faults, edits>>
  BY DEF Consume, HandlingStep, IncrementProjectVersion, AddVirtualFolderToProject, ReadFolderVersion,
         WriteFolderVersion, UpdateVirtualFolderCache,
         RemoveVirtualFolderFromProject, DeleteVirtualFolderCache, history
<1>2. Cardinality(OwingMessages) \in Nat /\ Cardinality(OwingMessages') \in Nat
      /\ edits \in Int /\ projectVersion \in Nat
  BY MessagesCounted DEF TypesOK, CacheOK
<1>3. CASE Consume
  <2> DEFINE m == Head(queue)
  <2>1. /\ queue # <<>> /\ queue' = Tail(queue) /\ consumer = Idle
        /\ IF m.reason = "chat" THEN m.folder = None /\ consumer' = Idle
           ELSE m.folder \in Folders /\ Takes(m, consumer')
    BY <1>3, ConsumeTypes
  <2>2. m \in Calls /\ Message(m)
    BY <2>1, TailFacts DEF TypesOK
  <2>3. Cardinality(OwingMessages') = Cardinality(OwingMessages) - (IF Edited(m) THEN 1 ELSE 0)
    BY <2>1, TakenCount DEF TypesOK
  <2>4. UNCHANGED projectVersion
    BY <1>3 DEF Consume, redis
  <2> HIDE DEF m
  <2>5. ConsumerOwes = 0
    BY <2>1, IdleFacts DEF ConsumerOwes
  <2>6. ConsumerOwes' = IF Edited(m) THEN 1 ELSE 0
    <3>1. CASE m.reason = "chat"
      BY <2>1, <3>1, IdleFacts DEF ConsumerOwes, Edited
    <3>2. CASE m.reason # "chat"
      <4>1. consumer'.folder \in Folders /\ m.folder \in Folders /\ Takes(m, consumer')
        BY <2>1, <3>2 DEF Takes
      <4>2. Edited(m) <=> Due(consumer') = "incrementProject"
        BY <2>2, <3>2, <4>1 DEF Takes, Edited, Message, Reasons
      <4> QED
        BY <4>1, <4>2 DEF ConsumerOwes, Due
    <3> QED
      BY <3>1, <3>2
  <2> QED
    BY <1>1, <1>2, <2>3, <2>4, <2>5, <2>6, OthersKept
<1>4. CASE HandlingStep
  <2>1. UNCHANGED queue
    BY <1>4, HandlingPending
  <2>2. OwingMessages' = OwingMessages
    BY <2>1 DEF OwingMessages
  <2>3. PICK step : Handling(step)
    BY <1>4 DEF HandlingStep, IncrementProjectVersion, AddVirtualFolderToProject, ReadFolderVersion,
                WriteFolderVersion, UpdateVirtualFolderCache,
                RemoveVirtualFolderFromProject, DeleteVirtualFolderCache
  <2>4. consumer \in Calls /\ Handles(consumer) /\ consumer.folder \in Folders
    BY <2>3, HandlingFacts DEF TypesOK
  <2>5. \A c \in Calls : Handles(c) => Rest(c).folder = None \/ Due(Rest(c)) # "incrementProject"
    BY Handled, IdleFacts DEF Hands, Keeps
  <2>6. ConsumerOwes' = 0
    <3>1. CASE ReadFolderVersion
      <4> DEFINE e == [consumer EXCEPT !.version = version[consumer.folder]]
      <4>1. e \in Calls /\ e.folder = consumer.folder /\ e.reason = consumer.reason /\ e.todo = consumer.todo
        BY <2>4 DEF Calls, TypesOK, CacheOK
      <4>2. Handles(e)
        BY <2>4, <4>1 DEF Handles
      <4>3. consumer' = Rest(e)
        BY <3>1 DEF ReadFolderVersion
      <4> HIDE DEF e
      <4> QED
        BY <2>5, <4>1, <4>2, <4>3 DEF ConsumerOwes, Due
    <3>2. CASE ~ReadFolderVersion
      <4>1. consumer' = Rest(consumer)
        BY <1>4, <3>2 DEF HandlingStep, IncrementProjectVersion, AddVirtualFolderToProject,
                          WriteFolderVersion, UpdateVirtualFolderCache,
                          RemoveVirtualFolderFromProject, DeleteVirtualFolderCache
      <4> QED
        BY <2>4, <2>5, <4>1 DEF ConsumerOwes, Due
    <3> QED
      BY <3>1, <3>2
  <2>7. CASE IncrementProjectVersion
    <3>1. projectVersion' = projectVersion + 1 /\ ConsumerOwes = 1
      BY <2>4, <2>7 DEF IncrementProjectVersion, ConsumerOwes, Handling, Due
    <3> QED
      BY <1>1, <1>2, <2>2, <2>6, <3>1, OthersKept
  <2>8. CASE ~IncrementProjectVersion
    <3>1. projectVersion' = projectVersion /\ Due(consumer) # "incrementProject"
      BY <1>4, <2>8 DEF HandlingStep, AddVirtualFolderToProject, ReadFolderVersion,
                        WriteFolderVersion, UpdateVirtualFolderCache,
                        RemoveVirtualFolderFromProject, DeleteVirtualFolderCache, Handling, Due, redis
    <3>2. ConsumerOwes = 0
      BY <3>1 DEF ConsumerOwes
    <3> QED
      BY <1>1, <1>2, <2>2, <2>6, <3>1, <3>2, OthersKept
  <2> QED
    BY <2>7, <2>8
<1> QED
  BY <1>3, <1>4

LEMMA ElseEdits ==
  ASSUME Open, TypesOK, TypesOK', EditsOwed, Else
  PROVE  EditsOwed'
<1>1. CASE Consume \/ HandlingStep
  BY <1>1, ConsumerEdits
<1>2. CASE FailingConsumer \/ Restart
  <2>1. faults' # 0
    BY <1>2 DEF FailingConsumer, Restart, Fault, TypesOK
  <2> QED
    BY <2>1 DEF EditsOwed
<1>3. Cardinality(OwingMessages) \in Nat /\ edits \in Int /\ projectVersion \in Nat /\ ConsumerOwes \in Nat
  BY MessagesCounted DEF TypesOK, CacheOK, ConsumerOwes
<1>4. CASE (\E f \in Folders : Fetch(f) \/ ExpireEntry(f)) \/ CheckProjectVersion
  <2>1. UNCHANGED <<call, faults, edits, projectVersion, queue, consumer>>
    BY <1>4 DEF Fetch, ExpireEntry, CheckProjectVersion, history, redis
  <2>2. OwingMessages' = OwingMessages /\ ConsumerOwes' = ConsumerOwes
    BY <2>1 DEF OwingMessages, ConsumerOwes, Due
  <2> QED
    BY <1>3, <2>1, <2>2, OthersKept
<1>5. CASE PublishChat
  <2>1. PICK m \in Calls : Message(m) /\ m.folder = None /\ queue' = Append(queue, m)
    BY <1>5, ChatMessage
  <2>2. UNCHANGED <<call, faults, edits, projectVersion, consumer>>
    BY <1>5 DEF PublishChat, history, redis
  <2>3. ConsumerOwes' = ConsumerOwes
    BY <2>2 DEF ConsumerOwes, Due
  <2>4. Cardinality(OwingMessages') = Cardinality(OwingMessages)
    BY <1>3, <2>1, SentCount DEF TypesOK, Edited
  <2> QED
    BY <1>3, <2>2, <2>3, <2>4, OthersKept
<1> QED
  BY <1>1, <1>2, <1>4, <1>5 DEF Else, ConsumerStep, HandlingStep

LEMMA NextEdits ==
  ASSUME Open, TypesOK, LivesOK, EditsOwed, Next
  PROVE  EditsOwed'
<1>1. TypesOK'
  BY NextTypes
<1>2. ASSUME NEW h \in Handlers, Beginning(h) PROVE EditsOwed'
  BY <1>2, Beginnings, BeginEdits
<1>3. ASSUME NEW h \in Handlers, Quiet(h) PROVE EditsOwed'
  BY <1>1, <1>3, QuietEdits, SendEdits
<1> QED
  BY <1>1, <1>2, <1>3, Steps, WriteEdits, ElseEdits

-----------------------------------------------------------------------------
(* The version of a folder.                                                *)

LEMMA RankFacts ==
  /\ \A v \in Versions : Rank(v) \in Nat /\ Rank(IncrementVersion(v)) = Rank(v) + 1
  /\ \A v, w \in Versions : Rank(v) = Rank(w) <=> v = w
  /\ Rank(None) = 0 /\ Rank(0) = 1
BY DEF Rank, Versions, IncrementVersion

LEMMA VersionKept ==
  ASSUME QueueOK, QueueOK', NEW f \in Folders, VersionOK(f), version'[f] = version[f], ClientIsBehind(f)',
         ActiveOn(f)' \subseteq ActiveOn(f),
         \A g \in ActiveOn(f)' :
           /\ call'[g].reason = call[g].reason
           /\ call'[g].reason = "batch" /\ Due(call'[g]) = "writeVersion" => call'[g].version = version[f],
         NEW k \in Nat,
         \A i \in DOMAIN queue' : queue'[i].folder = f => i + k \in DOMAIN queue /\ queue[i + k] = queue'[i],
         consumer'.folder = f =>
           /\ consumer.folder = f /\ consumer'.reason = consumer.reason
           /\ Due(consumer') # "writeEntry" => Due(consumer) # "writeEntry"
           /\ Due(consumer') = "writeVersion" => consumer'.version = version[f]
  PROVE  VersionOK(f)'
<1>1. InQueue(f)' => InQueue(f)
  BY DEF InQueue
<1>2. Pending(f)' => Pending(f)
  BY <1>1 DEF Pending, InQueue
<1>3. CreateIsAlone(f)'
  <2>1. ASSUME NEW g \in ActiveOn(f)', call'[g].reason = "create"
        PROVE  ActiveOn(f)' = {g} /\ ~Pending(f)' /\ version'[f] = None
    BY <1>2, <2>1 DEF VersionOK, CreateIsAlone
  <2>2. ASSUME NEW i \in DOMAIN queue', queue'[i].folder = f, queue'[i].reason = "create"
        PROVE  /\ ActiveOn(f)' = {} /\ consumer'.folder # f /\ version'[f] = None
               /\ \A j \in DOMAIN queue' : queue'[j].folder = f => i = j
    <3>1. i + k \in DOMAIN queue /\ queue[i + k] = queue'[i]
      BY <2>2
    <3>2. /\ ActiveOn(f) = {} /\ consumer.folder # f /\ version[f] = None
          /\ \A j \in DOMAIN queue : queue[j].folder = f => i + k = j
      BY <2>2, <3>1 DEF VersionOK, CreateIsAlone
    <3>3. \A j \in DOMAIN queue' : queue'[j].folder = f => i + k = j + k
      BY <3>2
    <3>4. DOMAIN queue' \subseteq Nat
      BY DEF QueueOK
    <3> QED
      BY <3>2, <3>3, <3>4
  <2>3. ASSUME consumer'.folder = f, consumer'.reason = "create"
        PROVE  /\ ActiveOn(f)' = {} /\ ~InQueue(f)'
               /\ Due(consumer') # "writeEntry" => version'[f] = None
    BY <1>1, <2>3 DEF VersionOK, CreateIsAlone
  <2> QED
    BY <2>1, <2>2, <2>3 DEF CreateIsAlone, Due
<1>4. BatchIsAlone(f)'
  <2> SUFFICES ASSUME NEW g \in ActiveOn(f)', call'[g].reason = "batch"
               PROVE  /\ ActiveOn(f)' = {g} /\ ~Pending(f)'
                      /\ Due(call'[g]) = "writeVersion" => call'[g].version = version'[f]
    BY DEF BatchIsAlone, Due
  <2>1. ActiveOn(f) = {g} /\ ~Pending(f)
    BY DEF VersionOK, BatchIsAlone
  <2> QED
    BY <1>2, <2>1
<1>5. VersionIsRead(f)'
  BY DEF VersionIsRead, Due
<1>6. NoDeletion(f)'
  BY DEF VersionOK, NoDeletion
<1> QED
  BY <1>3, <1>4, <1>5, <1>6 DEF VersionOK

\* The version of a folder grows, and the client has to read the folder again.
LEMMA VersionGrows ==
  ASSUME TypesOK, NEW f \in Folders, ClientIsBehind(f), version'[f] = IncrementVersion(version[f]),
         UNCHANGED client
  PROVE  ClientIsBehind(f)' /\ client'.version[f] # version'[f] /\ version'[f] # None
<1>1. /\ version[f] \in Versions /\ client.version[f] \in Versions /\ client.asked[f] \in Versions
  BY DEF TypesOK, CacheOK, ClientOK
<1>2. Rank(version'[f]) = Rank(version[f]) + 1
  BY <1>1, RankFacts
<1>3. Rank(version[f]) \in Nat /\ Rank(client.version[f]) \in Nat /\ Rank(client.asked[f]) \in Nat
  BY <1>1, RankFacts
<1>4. ClientIsBehind(f)'
  BY <1>2, <1>3 DEF ClientIsBehind
<1>5. Rank(client.version[f]) # Rank(version'[f])
  BY <1>2, <1>3 DEF ClientIsBehind
<1>6. version'[f] # None
  BY <1>2, <1>3, RankFacts
<1> QED
  BY <1>4, <1>5, <1>6

LEMMA BehindKept ==
  ASSUME NEW f, ClientIsBehind(f), version'[f] = version[f], UNCHANGED client
  PROVE  ClientIsBehind(f)'
BY DEF ClientIsBehind

LEMMA BeginVersions ==
  ASSUME TypesOK, LivesOK, VersionsOK, NEW h \in Handlers, NEW k \in Folders,
         NEW reason \in {"create", "modify", "delete", "query", "batch"}, NEW todo \in HandlerLists,
         BeginsOn(h, k, reason, todo), NEW f \in Folders \ raced'
  PROVE  f \notin raced /\ VersionOK(f)'
<1> DEFINE d == New(k, reason, todo)
<1>1. /\ TypesOK' /\ call[h] = Idle /\ Moves(h, d) /\ call'[h] = d
      /\ \A g \in Handlers \ {h} : call'[g] = call[g]
  BY BeginTypes
<1>2. /\ d.folder = k /\ d.reason = reason /\ d \in Calls
      /\ Due(d) # "writeVersion"
  BY NewFacts DEF BeginsOn, TypesOK
<1>3. /\ UNCHANGED <<tables, version, queue, consumer, client>>
      /\ raced' = IF Racing(k, reason) THEN raced \cup {k} ELSE raced
  BY DEF BeginsOn, Begin, redis
<1>4. ActiveOn(f)' = ActiveOn(f) \cup (IF k = f THEN {h} ELSE {})
  BY <1>1, <1>2, IdleFacts, ActiveAfter DEF TypesOK
<1>5. \A g \in ActiveOn(f) : g \in Handlers \ {h} /\ call'[g] = call[g]
  BY <1>1, IdleFacts DEF ActiveOn
<1>6. f \notin raced /\ VersionOK(f)
  BY <1>3 DEF VersionsOK
<1>7. ClientIsBehind(f)'
  BY <1>3, <1>6, BehindKept DEF VersionOK
<1>8. CASE k # f
  <2>1. \A g \in ActiveOn(f)' :
           /\ call'[g].reason = call[g].reason
           /\ call'[g].reason = "batch" /\ Due(call'[g]) = "writeVersion" => call'[g].version = version[f]
    BY <1>4, <1>5, <1>6, <1>8 DEF VersionOK, BatchIsAlone
  <2>2. \A i \in DOMAIN queue' : i + 0 \in DOMAIN queue /\ queue[i + 0] = queue'[i]
    BY <1>3 DEF TypesOK, QueueOK
  <2>3. ActiveOn(f)' \subseteq ActiveOn(f) /\ version'[f] = version[f]
    BY <1>3, <1>4, <1>8
  <2>4. consumer'.folder = f =>
           /\ consumer.folder = f /\ consumer'.reason = consumer.reason
           /\ Due(consumer') # "writeEntry" => Due(consumer) # "writeEntry"
           /\ Due(consumer') = "writeVersion" => consumer'.version = version[f]
    BY <1>3, <1>6 DEF VersionOK, VersionIsRead
  <2> QED
    BY <1>1, <1>6, <1>7, <2>1, <2>2, <2>3, <2>4, VersionKept, Zenon DEF TypesOK
<1>9. CASE k = f
  <2>1. ~Racing(f, reason)
    BY <1>3, <1>9
  <2>2. reason = "create" => ActiveOn(f) = {} /\ ~Pending(f) /\ version[f] = None
    <3> SUFFICES ASSUME reason = "create" PROVE ActiveOn(f) = {} /\ ~Pending(f) /\ version[f] = None
      OBVIOUS
    <3>1. tables[f] = None /\ ~Creating(f)
      BY <1>9 DEF BeginsOn, Starts
    <3>2. ASSUME NEW g \in ActiveOn(f) PROVE FALSE
      <4>1. Due(call[g]) = "insert"
        BY <3>1, <3>2 DEF LivesOK, Follows
      <4>2. call[g].reason = "create"
        BY <3>2, <4>1, ActiveServes, Serves DEF TypesOK
      <4> QED
        BY <3>1, <3>2, <4>2 DEF Creating
    <3> QED
      BY <3>1, <3>2 DEF LivesOK, VersionsOK
  <2>3. CreateIsAlone(f)'
    <3>1. \A g \in ActiveOn(f)' : call'[g].reason = "create" => g = h /\ reason = "create"
      BY <1>1, <1>2, <1>4, <1>5, <2>1 DEF Racing, Creating
    <3>2. Pending(f)' = Pending(f)
      BY <1>3, PendingKept
    <3>3. /\ \A i \in DOMAIN queue' : ~(queue'[i].folder = f /\ queue'[i].reason = "create")
          /\ ~(consumer'.folder = f /\ consumer'.reason = "create")
      BY <1>3, <2>1 DEF Racing, Creating
    <3> QED
      BY <1>3, <1>4, <1>9, <2>2, <3>1, <3>2, <3>3 DEF CreateIsAlone
  <2>4. BatchIsAlone(f)'
    <3>1. \A g \in ActiveOn(f)' : call'[g].reason = "batch" => g = h /\ reason = "batch"
      BY <1>1, <1>2, <1>4, <1>5, <2>1 DEF Racing
    <3>2. reason = "batch" => ActiveOn(f) = {} /\ ~Pending(f)
      BY <2>1 DEF Racing
    <3>3. Pending(f)' = Pending(f)
      BY <1>3, PendingKept
    <3>4. \A g \in ActiveOn(f)' : g = h => Due(call'[g]) # "writeVersion"
      BY <1>1, <1>2
    <3> QED
      BY <1>4, <1>9, <3>1, <3>2, <3>3, <3>4 DEF BatchIsAlone, Due
  <2>5. VersionIsRead(f)' /\ NoDeletion(f)'
    BY <1>3, <1>6 DEF VersionOK, VersionIsRead, NoDeletion, Due
  <2> QED
    BY <1>6, <1>7, <2>3, <2>4, <2>5 DEF VersionOK
<1> QED
  BY <1>8, <1>9

LEMMA SameQueue ==
  ASSUME QueueOK, UNCHANGED queue
  PROVE  \A i \in DOMAIN queue' : i + 0 \in DOMAIN queue /\ queue[i + 0] = queue'[i]
BY DEF QueueOK

LEMMA SameConsumer ==
  ASSUME NEW f, VersionOK(f), UNCHANGED consumer
  PROVE  consumer'.folder = f =>
           /\ consumer.folder = f /\ consumer'.reason = consumer.reason
           /\ Due(consumer') # "writeEntry" => Due(consumer) # "writeEntry"
           /\ Due(consumer') = "writeVersion" => consumer'.version = version[f]
BY DEF VersionOK, VersionIsRead

\* The requests on a folder, when one of them goes on and does not write the version.
LEMMA RequestsKept ==
  ASSUME CallsOK, NEW h \in Handlers, NEW d \in Calls, Moves(h, d), call[h] # Idle,
         d = Idle \/ StaysOn(call[h], d), NEW f \in Folders, VersionOK(f),
         d # Idle /\ d.folder = f /\ d.reason = "batch" /\ Due(d) = "writeVersion" => d.version = version[f]
  PROVE  /\ ActiveOn(f)' \subseteq ActiveOn(f)
         /\ \A g \in ActiveOn(f)' :
              /\ call'[g].reason = call[g].reason
              /\ call'[g].reason = "batch" /\ Due(call'[g]) = "writeVersion" => call'[g].version = version[f]
<1>1. /\ ActiveOn(f)' \subseteq ActiveOn(f)
      /\ \A g \in ActiveOn(f)' : call'[g] = IF g = h THEN d ELSE call[g]
      /\ h \in ActiveOn(f)' => d # Idle /\ d.folder = f /\ call[h].folder = f
  BY StillActive
<1> SUFFICES ASSUME NEW g \in ActiveOn(f)'
             PROVE  /\ call'[g].reason = call[g].reason
                    /\ call'[g].reason = "batch" /\ Due(call'[g]) = "writeVersion" => call'[g].version = version[f]
  BY <1>1
<1>2. CASE g = h
  BY <1>1, <1>2 DEF StaysOn
<1>3. CASE g # h
  BY <1>1, <1>3 DEF VersionOK, BatchIsAlone
<1> QED
  BY <1>2, <1>3

LEMMA WriteVersions ==
  ASSUME TypesOK, LivesOK, NEW h \in Handlers, Writing(h), NEW f \in Folders, VersionOK(f)
  PROVE  VersionOK(f)'
<1> DEFINE c == call[h]  d == Rest(call[h])
<1>1. /\ Moves(h, d) /\ c \in Calls /\ Serving(c) /\ c # Idle
      /\ d \in Calls /\ Serving(d) /\ StaysOn(c, d) /\ UNCHANGED <<version, queue, consumer, client>>
      /\ Due(c) \in TableWrites /\ Leads(c, Due(d))
  BY Written
<1>2. TypesOK'
  BY WriteTypes
<1>3. Due(d) # "writeVersion"
  BY <1>1, Serves DEF Leads, Keeps, TableWrites
<1> HIDE DEF d
<1>4. /\ ActiveOn(f)' \subseteq ActiveOn(f)
      /\ \A g \in ActiveOn(f)' :
           /\ call'[g].reason = call[g].reason
           /\ call'[g].reason = "batch" /\ Due(call'[g]) = "writeVersion" => call'[g].version = version[f]
  BY <1>1, <1>3, RequestsKept DEF TypesOK
<1>5. ClientIsBehind(f)'
  BY <1>1, BehindKept DEF VersionOK
<1>6. \A i \in DOMAIN queue' : i + 0 \in DOMAIN queue /\ queue[i + 0] = queue'[i]
  BY <1>1, SameQueue DEF TypesOK
<1>7. version'[f] = version[f]
  BY <1>1
<1>8. consumer'.folder = f =>
        /\ consumer.folder = f /\ consumer'.reason = consumer.reason
        /\ Due(consumer') # "writeEntry" => Due(consumer) # "writeEntry"
        /\ Due(consumer') = "writeVersion" => consumer'.version = version[f]
  BY <1>1, SameConsumer
<1> QED
  BY <1>2, <1>4, <1>5, <1>6, <1>7, <1>8, VersionKept, Zenon DEF TypesOK

\* What a batch takes for the version of its folder.
LEMMA QuietReads ==
  ASSUME Open, TypesOK, LivesOK, NEW h \in Handlers, Quiet(h), call'[h] # Idle, call'[h].reason = "batch",
         Due(call'[h]) = "writeVersion"
  PROVE  call'[h].version = version[call[h].folder]
<1> DEFINE c == call[h]
<1>1. c \in Calls /\ Serving(c) /\ c.folder \in Folders
  BY QuietMoves
<1>2. PICK d \in Calls : Moves(h, d) /\ call'[h] = d /\ (d = Idle \/ StaysOn(c, d))
  BY QuietMoves
<1>3. c.reason = "batch"
  BY <1>2 DEF StaysOn
<1>4. Due(c) \in {"read", "save", "readVersion", "writeVersion", "writeName", "bumpProject"}
  BY <1>1, <1>3, ListFacts DEF Serving, Doing, Due
<1>5. ~(Overlook(h) \/ Lookup(h) \/ FillCache(h) \/ Collect(h) \/ SendMessage(h))
  BY <1>3, <1>4 DEF Overlook, Lookup, FillCache, Collect, SendMessage, At, Due
<1>6. ~(Refuse(h) \/ RefuseMount(h))
  BY <1>2 DEF Refuse, RefuseMount, Return, TypesOK, CallsOK
<1>10. ~Read(h)
  <2>1. ASSUME Read(h) PROVE FALSE
    <3>1. d = Rest(c) /\ Due(c) = "read"
      BY <1>2, <2>1 DEF Read, Continue, Go, At, Due, TypesOK, CallsOK
    <3>2. Due(d) = "save"
      BY <1>1, <3>1, Serves DEF Leads, Keeps
    <3> QED
      BY <1>2, <3>2
  <2> QED
    BY <2>1
<1>7. ~FailingCall(h)
  <2>1. ASSUME FailingCall(h) PROVE FALSE
    BY <1>3, <1>4, <2>1, FailTypes
  <2> QED
    BY <2>1
<1>8. ~(WriteVersion(h) \/ WriteName(h) \/ BumpProject(h))
  <2>1. ASSUME WriteVersion(h) \/ WriteName(h) \/ BumpProject(h) PROVE FALSE
    <3>1. d = Rest(c) /\ Due(c) \in {"writeVersion", "writeName", "bumpProject"}
      BY <1>2, <2>1 DEF WriteVersion, WriteName, BumpProject, Continue, Go, At, Due, TypesOK, CallsOK
    <3>2. Due(d) \in {"writeName", "bumpProject"} \/ d = Idle
      BY <1>1, <3>1, Serves DEF Leads, Keeps
    <3> QED
      BY <1>2, <3>2
  <2> QED
    BY <2>1
<1>9. CASE ReadVersion(h)
  <2> DEFINE e == [c EXCEPT !.version = version[c.folder]]
  <2>1. /\ e \in Calls /\ e.folder = c.folder /\ e.reason = c.reason /\ e.todo = c.todo
        /\ e.version = version[c.folder]
    BY <1>1 DEF Calls, TypesOK, CacheOK
  <2>2. Serving(e) /\ Due(e) = "readVersion"
    BY <1>1, <1>9, <2>1 DEF Serving, Doing, Due, ReadVersion, At
  <2>3. d = Rest(e)
    BY <1>2, <1>9 DEF ReadVersion, Go, TypesOK, CallsOK
  <2> HIDE DEF e
  <2> QED
    BY <1>2, <2>1, <2>2, <2>3, Serves DEF Leads, Keeps
<1> QED
  BY <1>5, <1>6, <1>7, <1>8, <1>9, <1>10 DEF Quiet

LEMMA QuietVersions ==
  ASSUME Open, TypesOK, TypesOK', LivesOK, NEW h \in Handlers, Quiet(h),
         NEW f \in Folders \ raced', VersionOK(f)
  PROVE  VersionOK(f)'
<1> DEFINE c == call[h]
<1>1. /\ c \in Calls /\ Serving(c) /\ c.folder \in Folders /\ c # Idle /\ h \in ActiveOn(c.folder)
      /\ UNCHANGED <<tables, consumer, client, calls>>
  BY QuietMoves
<1>2. PICK d \in Calls : /\ Moves(h, d) /\ call'[h] = d
                         /\ d = Idle \/ (StaysOn(c, d) /\ Serving(d))
  BY QuietMoves
<1>3. d # Idle /\ d.folder = f /\ d.reason = "batch" /\ Due(d) = "writeVersion" => d.version = version[f]
  BY <1>2, QuietReads DEF StaysOn
<1>4. /\ ActiveOn(f)' \subseteq ActiveOn(f)
      /\ \A g \in ActiveOn(f)' :
           /\ call'[g].reason = call[g].reason
           /\ call'[g].reason = "batch" /\ Due(call'[g]) = "writeVersion" => call'[g].version = version[f]
  BY <1>1, <1>2, <1>3, RequestsKept DEF TypesOK
<1>5. CASE WriteVersion(h) /\ c.folder = f
  <2>1. Due(c) = "writeVersion" /\ c.reason = "batch"
    BY <1>1, <1>5, Serves DEF WriteVersion, At, Due
  <2>2. ActiveOn(f) = {h} /\ ~Pending(f) /\ c.version = version[f]
    BY <1>1, <1>5, <2>1 DEF VersionOK, BatchIsAlone
  <2>3. version'[f] = IncrementVersion(version[f]) /\ UNCHANGED queue
    BY <1>5, <2>2 DEF WriteVersion, TypesOK, CacheOK
  <2>4. ClientIsBehind(f)'
    BY <1>1, <2>3, VersionGrows DEF VersionOK
  <2>5. d = Rest(c)
    BY <1>2, <1>5 DEF WriteVersion, Continue, Go, TypesOK, CallsOK
  <2>6. Due(d) = "writeName" /\ d.reason = "batch" /\ d.folder = f
    BY <1>1, <1>5, <2>1, <2>5, Serves DEF Leads, Keeps
  <2>7. ~Pending(f)' /\ ~InQueue(f)' /\ consumer'.folder # f
    BY <1>1, <2>2, <2>3, PendingKept DEF Pending, InQueue
  <2>8. ActiveOn(f)' = {h}
    BY <1>2, <1>4, <2>2, <2>6 DEF ActiveOn
  <2>9. CreateIsAlone(f)'
    BY <1>2, <2>6, <2>7, <2>8 DEF CreateIsAlone, InQueue
  <2>10. BatchIsAlone(f)'
    BY <1>2, <2>6, <2>7, <2>8 DEF BatchIsAlone, Due
  <2>11. VersionIsRead(f)' /\ NoDeletion(f)'
    BY <1>1, <2>3, <2>7 DEF VersionIsRead, VersionOK, NoDeletion
  <2> QED
    BY <2>4, <2>9, <2>10, <2>11 DEF VersionOK
<1>6. CASE SendMessage(h) /\ c.folder = f
  <2> DEFINE m == Sent(c)
  <2>1. /\ d = Idle /\ queue' = Append(queue, m) /\ c.reason \in Reasons
    BY <1>2, <1>6, SendTypes DEF Moves, TypesOK, CallsOK
  <2>2. m \in Calls /\ Message(m) /\ m.folder = f /\ m.reason = c.reason
    BY <1>1, <1>6, <2>1, SentFacts
  <2>3. version' = version
    BY <1>6 DEF SendMessage, redis
  <2>4. /\ Len(queue) \in Nat /\ DOMAIN queue = 1..Len(queue) /\ DOMAIN queue' = 1..(Len(queue) + 1)
        /\ \A i \in 1..Len(queue) : queue'[i] = queue[i]
        /\ queue'[Len(queue) + 1] = m
    BY <2>1, <2>2, AppendFacts DEF TypesOK
  <2>5. h \notin ActiveOn(f)' /\ h \in ActiveOn(f)
    BY <1>1, <1>2, <1>6, <2>1, IdleFacts DEF ActiveOn
  <2>6. \A g \in ActiveOn(f)' : call'[g].reason \notin {"create", "batch"}
    <3> SUFFICES ASSUME NEW g \in ActiveOn(f)', call[g].reason \in {"create", "batch"} PROVE FALSE
      BY <1>4
    <3>1. ActiveOn(f) = {g}
      BY <1>4 DEF VersionOK, CreateIsAlone, BatchIsAlone
    <3> QED
      BY <2>5, <3>1
  <2>7. \A i \in DOMAIN queue : ~(queue[i].folder = f /\ queue[i].reason = "create")
    BY <2>5 DEF VersionOK, CreateIsAlone
  <2>8. ~(consumer.folder = f /\ consumer.reason = "create")
    BY <2>5 DEF VersionOK, CreateIsAlone
  <2>9. ASSUME NEW i \in DOMAIN queue', queue'[i].folder = f, queue'[i].reason = "create"
        PROVE  /\ ActiveOn(f)' = {} /\ consumer'.folder # f /\ version'[f] = None
               /\ \A j \in DOMAIN queue' : queue'[j].folder = f => i = j
    <3>1. i = Len(queue) + 1 /\ c.reason = "create"
      BY <2>2, <2>4, <2>7, <2>9
    <3>2. ActiveOn(f) = {h} /\ ~Pending(f) /\ version[f] = None
      BY <2>5, <3>1 DEF VersionOK, CreateIsAlone
    <3>3. ActiveOn(f)' = {}
      BY <1>4, <2>5, <3>2
    <3>4. consumer'.folder # f /\ version'[f] = None
      BY <1>1, <2>3, <3>2 DEF Pending
    <3>5. \A j \in 1..Len(queue) : queue'[j].folder # f
      BY <2>4, <3>2 DEF Pending
    <3> QED
      BY <2>4, <3>1, <3>3, <3>4, <3>5
  <2>10. CreateIsAlone(f)'
    BY <1>1, <2>6, <2>8, <2>9 DEF CreateIsAlone
  <2>11. BatchIsAlone(f)'
    BY <2>6 DEF BatchIsAlone
  <2>12. VersionIsRead(f)' /\ ClientIsBehind(f)'
    BY <1>1, <2>3 DEF VersionOK, VersionIsRead, ClientIsBehind, Due
  <2>13. c.reason # "delete"
    BY <1>6 DEF SendMessage
  <2>14. NoDeletion(f)'
    BY <1>1, <2>2, <2>4, <2>13 DEF VersionOK, NoDeletion
  <2> QED
    BY <2>10, <2>11, <2>12, <2>14 DEF VersionOK
<1>7. CASE ~(WriteVersion(h) /\ c.folder = f) /\ ~(SendMessage(h) /\ c.folder = f)
  <2>1. version'[f] = version[f]
    BY <1>7 DEF Quiet, Read, Overlook, Refuse, RefuseMount, Lookup, Collect, FillCache, SendMessage,
                ReadVersion, WriteVersion, WriteName, BumpProject, FailingCall, redis, TypesOK, CacheOK
  <2>2. \A i \in DOMAIN queue' : queue'[i].folder = f => i + 0 \in DOMAIN queue /\ queue[i + 0] = queue'[i]
    <3>1. CASE UNCHANGED queue
      BY <3>1, SameQueue DEF TypesOK
    <3>2. CASE ~UNCHANGED queue
      <4>1. /\ SendMessage(h) /\ queue' = Append(queue, Sent(c))
            /\ c.reason \in Reasons
        BY <3>2, QuietQueue
      <4>2. Sent(c) \in Calls /\ Message(Sent(c)) /\ Sent(c).folder # f
        BY <1>1, <1>7, <4>1, SentFacts
      <4>3. /\ Len(queue) \in Nat /\ DOMAIN queue = 1..Len(queue) /\ DOMAIN queue' = 1..(Len(queue) + 1)
            /\ \A i \in 1..Len(queue) : queue'[i] = queue[i]
            /\ queue'[Len(queue) + 1] = Sent(c)
        BY <4>1, <4>2, AppendFacts DEF TypesOK
      <4> QED
        BY <4>2, <4>3
    <3> QED
      BY <3>1, <3>2
  <2>3. ClientIsBehind(f)'
    BY <1>1, <2>1, BehindKept DEF VersionOK
  <2> QED
    BY <1>1, <1>4, <2>1, <2>2, <2>3, SameConsumer, VersionKept, Zenon DEF TypesOK
<1> QED
  BY <1>5, <1>6, <1>7

\* What the consumer does to its message, and to the versions.
LEMMA HandlingMoves ==
  ASSUME TypesOK, HandlingStep
  PROVE  /\ consumer \in Calls /\ Handles(consumer) /\ consumer.folder \in Folders /\ consumer # Idle
         /\ UNCHANGED <<tables, queue, call, client, calls, faults, edits, crossed, raced, failed>>
         /\ \/ /\ Due(consumer) = "writeEntry" /\ consumer' = Idle /\ UNCHANGED version
               /\ consumer.reason # "delete"
               /\ entry' = [entry EXCEPT ![consumer.folder] = [name |-> consumer.name, father |-> consumer.father]]
            \/ /\ Due(consumer) = "deleteEntry" /\ consumer' = Idle /\ UNCHANGED version
               /\ consumer.reason = "delete" /\ entry' = [entry EXCEPT ![consumer.folder] = NoEntry]
            \/ /\ consumer' \in Calls /\ consumer'.folder = consumer.folder /\ consumer'.reason = consumer.reason
               /\ consumer'.name = consumer.name /\ consumer'.father = consumer.father
               /\ UNCHANGED entry
               /\ \/ /\ Due(consumer) = "incrementProject" /\ UNCHANGED version
                     /\ Due(consumer') \in {"addFolder", "readVersion", "removeFolder"}
                  \/ /\ Due(consumer) = "addFolder" /\ consumer.reason = "create" /\ Due(consumer') = "writeEntry"
                     /\ version' = [version EXCEPT ![consumer.folder] = 0]
                  \/ /\ Due(consumer) = "readVersion" /\ consumer.reason = "modify" /\ UNCHANGED version
                     /\ Due(consumer') = "writeVersion" /\ consumer'.version = version[consumer.folder]
                  \/ /\ Due(consumer) = "writeVersion" /\ consumer.reason = "modify" /\ Due(consumer') = "writeEntry"
                     /\ version' = [version EXCEPT ![consumer.folder] = IncrementVersion(consumer.version)]
                  \/ /\ Due(consumer) = "removeFolder" /\ consumer.reason = "delete"
                     /\ Due(consumer') = "deleteEntry" /\ version' = [version EXCEPT ![consumer.folder] = None]
<1>1. \E step : Handling(step)
  BY DEF HandlingStep, IncrementProjectVersion, AddVirtualFolderToProject, ReadFolderVersion,
         WriteFolderVersion, UpdateVirtualFolderCache,
         RemoveVirtualFolderFromProject, DeleteVirtualFolderCache
<1>2. consumer \in Calls /\ Handles(consumer) /\ consumer.folder \in Folders /\ consumer # Idle
  BY <1>1, HandlingFacts DEF TypesOK
<1>3. UNCHANGED <<tables, queue, call, client, calls, faults, edits, crossed, raced, failed>>
  BY HandlingPending
<1>4. CASE UpdateVirtualFolderCache
  <2>1. Due(consumer) = "writeEntry" /\ consumer' = Rest(consumer) /\ UNCHANGED version
    BY <1>4 DEF UpdateVirtualFolderCache, Handling, Due
  <2>2. consumer' = Idle /\ consumer.reason # "delete"
    BY <1>2, <2>1, Handled
  <2> QED
    BY <1>2, <1>3, <1>4, <2>1, <2>2 DEF UpdateVirtualFolderCache
<1>5. CASE IncrementProjectVersion
  <2>1. Due(consumer) = "incrementProject" /\ consumer' = Rest(consumer) /\ UNCHANGED <<version, entry>>
    BY <1>5 DEF IncrementProjectVersion, Handling, Due
  <2>2. \E step \in {"addFolder", "readVersion", "removeFolder"} : Keeps(consumer, consumer', step)
    BY <1>2, <2>1, Handled DEF Hands
  <2> QED
    BY <1>2, <1>3, <2>1, <2>2 DEF Keeps
<1>6. CASE AddVirtualFolderToProject
  <2>1. /\ Due(consumer) = "addFolder" /\ consumer' = Rest(consumer) /\ UNCHANGED entry
        /\ version' = [version EXCEPT ![consumer.folder] = 0]
    BY <1>6 DEF AddVirtualFolderToProject, Handling, Due
  <2>2. Keeps(consumer, consumer', "writeEntry") /\ consumer.reason = "create"
    BY <1>2, <2>1, Handled DEF Hands
  <2> QED
    BY <1>2, <1>3, <2>1, <2>2 DEF Keeps
<1>7. CASE ReadFolderVersion
  <2> DEFINE e == [consumer EXCEPT !.version = version[consumer.folder]]
  <2>1. /\ e \in Calls /\ e.folder = consumer.folder /\ e.reason = consumer.reason /\ e.todo = consumer.todo
        /\ e.name = consumer.name /\ e.father = consumer.father /\ e.version = version[consumer.folder]
    BY <1>2 DEF Calls, TypesOK, CacheOK
  <2>2. Handles(e) /\ Due(e) = "readVersion" /\ Due(consumer) = "readVersion"
    BY <1>2, <1>7, <2>1 DEF Handles, Due, ReadFolderVersion, Handling
  <2>3. consumer' = Rest(e) /\ UNCHANGED <<version, entry>>
    BY <1>7 DEF ReadFolderVersion, redis
  <2> HIDE DEF e
  <2>4. Keeps(e, consumer', "writeVersion") /\ e.reason = "modify"
    BY <2>1, <2>2, <2>3, Handled DEF Hands
  <2> QED
    BY <1>2, <1>3, <2>1, <2>2, <2>3, <2>4 DEF Keeps
<1>8. CASE WriteFolderVersion
  <2>1. /\ Due(consumer) = "writeVersion" /\ consumer' = Rest(consumer) /\ UNCHANGED entry
        /\ version' = [version EXCEPT ![consumer.folder] = IncrementVersion(consumer.version)]
    BY <1>8 DEF WriteFolderVersion, Handling, Due
  <2>2. Keeps(consumer, consumer', "writeEntry") /\ consumer.reason = "modify"
    BY <1>2, <2>1, Handled DEF Hands
  <2> QED
    BY <1>2, <1>3, <2>1, <2>2 DEF Keeps
<1>9. CASE RemoveVirtualFolderFromProject
  <2>1. /\ Due(consumer) = "removeFolder" /\ consumer' = Rest(consumer) /\ UNCHANGED entry
        /\ version' = [version EXCEPT ![consumer.folder] = None]
    BY <1>9 DEF RemoveVirtualFolderFromProject, Handling, Due
  <2>2. Keeps(consumer, consumer', "deleteEntry") /\ consumer.reason = "delete"
    BY <1>2, <2>1, Handled DEF Hands
  <2> QED
    BY <1>2, <1>3, <2>1, <2>2 DEF Keeps
<1>10. CASE DeleteVirtualFolderCache
  <2>1. /\ Due(consumer) = "deleteEntry" /\ consumer' = Rest(consumer) /\ UNCHANGED version
        /\ entry' = [entry EXCEPT ![consumer.folder] = NoEntry]
    BY <1>10 DEF DeleteVirtualFolderCache, Handling, Due
  <2>2. consumer' = Idle /\ consumer.reason = "delete"
    BY <1>2, <2>1, Handled
  <2> QED
    BY <1>2, <1>3, <2>1, <2>2
<1> QED
  BY <1>4, <1>5, <1>6, <1>7, <1>8, <1>9, <1>10 DEF HandlingStep

LEMMA SameCalls ==
  ASSUME NEW f, VersionOK(f), UNCHANGED call
  PROVE  /\ ActiveOn(f)' = ActiveOn(f)
         /\ \A g \in ActiveOn(f)' :
              /\ call'[g].reason = call[g].reason
              /\ call'[g].reason = "batch" /\ Due(call'[g]) = "writeVersion" => call'[g].version = version[f]
<1>1. ActiveOn(f)' = ActiveOn(f)
  BY DEF ActiveOn
<1> QED
  BY <1>1 DEF VersionOK, BatchIsAlone

LEMMA HandleVersions ==
  ASSUME TypesOK, TypesOK', HandlingStep, NEW f \in Folders, VersionOK(f)
  PROVE  VersionOK(f)'
<1>1. /\ consumer \in Calls /\ Handles(consumer) /\ consumer.folder \in Folders
      /\ UNCHANGED <<tables, queue, call, client>>
  BY HandlingMoves
<1>2. /\ ActiveOn(f)' = ActiveOn(f)
      /\ \A g \in ActiveOn(f)' :
           /\ call'[g].reason = call[g].reason
           /\ call'[g].reason = "batch" /\ Due(call'[g]) = "writeVersion" => call'[g].version = version[f]
  BY <1>1, SameCalls
<1>3. \A i \in DOMAIN queue' : i + 0 \in DOMAIN queue /\ queue[i + 0] = queue'[i]
  BY <1>1, SameQueue DEF TypesOK
<1>4. CASE version'[f] = version[f]
  <2>1. consumer'.folder = f =>
          /\ consumer.folder = f /\ consumer'.reason = consumer.reason
          /\ Due(consumer') # "writeEntry" => Due(consumer) # "writeEntry"
          /\ Due(consumer') = "writeVersion" => consumer'.version = version[f]
    BY HandlingMoves, IdleFacts
  <2>2. ClientIsBehind(f)'
    BY <1>1, <1>4, BehindKept DEF VersionOK
  <2> QED
    BY <1>2, <1>3, <1>4, <2>1, <2>2, VersionKept, Zenon DEF TypesOK
<1>5. CASE version'[f] # version[f]
  <2>1. /\ consumer.folder = f /\ consumer'.folder = f /\ Due(consumer') = "writeEntry"
        /\ \/ /\ Due(consumer) = "addFolder" /\ consumer.reason = "create" /\ consumer'.reason = "create"
              /\ version'[f] = 0
           \/ /\ Due(consumer) = "writeVersion" /\ consumer.reason = "modify" /\ consumer'.reason = "modify"
              /\ version'[f] = IncrementVersion(consumer.version)
    BY <1>5, HandlingMoves DEF TypesOK, CacheOK, VersionOK, NoDeletion
  <2>2. version'[f] = IncrementVersion(version[f])
    BY <2>1 DEF VersionOK, CreateIsAlone, VersionIsRead, IncrementVersion
  <2>3. ClientIsBehind(f)'
    BY <1>1, <2>2, VersionGrows DEF VersionOK
  <2>4. Pending(f) /\ Pending(f)' /\ InQueue(f)' = InQueue(f)
    BY <1>1, <2>1 DEF Pending, InQueue
  <2>5. \A g \in ActiveOn(f)' : call'[g].reason \notin {"create", "batch"}
    BY <1>2, <2>4 DEF VersionOK, CreateIsAlone, BatchIsAlone
  <2>6. \A i \in DOMAIN queue' : ~(queue'[i].folder = f /\ queue'[i].reason = "create")
    BY <1>1, <2>1 DEF VersionOK, CreateIsAlone
  <2>7. CreateIsAlone(f)'
    <3>1. consumer'.folder = f /\ consumer'.reason = "create" =>
            /\ ActiveOn(f)' = {} /\ ~InQueue(f)'
            /\ Due(consumer') # "writeEntry" => version'[f] = None
      BY <1>2, <2>1, <2>4 DEF VersionOK, CreateIsAlone
    <3> QED
      BY <2>5, <2>6, <3>1 DEF CreateIsAlone, Due
  <2>8. BatchIsAlone(f)'
    BY <2>5 DEF BatchIsAlone
  <2>9. VersionIsRead(f)' /\ NoDeletion(f)'
    BY <1>1, <2>1 DEF VersionIsRead, VersionOK, NoDeletion, Due
  <2> QED
    BY <2>3, <2>7, <2>8, <2>9 DEF VersionOK
<1> QED
  BY <1>4, <1>5

LEMMA ConsumeVersions ==
  ASSUME TypesOK, Consume, NEW f \in Folders, VersionOK(f)
  PROVE  VersionOK(f)'
<1> DEFINE m == Head(queue)
<1>1. /\ TypesOK' /\ queue # <<>> /\ queue' = Tail(queue) /\ consumer = Idle
      /\ IF m.reason = "chat" THEN m.folder = None /\ consumer' = Idle
         ELSE m.folder \in Folders /\ Takes(m, consumer')
  BY ConsumeTypes
<1>2. /\ Len(queue) \in Nat \ {0} /\ DOMAIN queue = 1..Len(queue) /\ DOMAIN queue' = 1..(Len(queue) - 1)
      /\ \A i \in 1..(Len(queue) - 1) : queue'[i] = queue[i + 1]
      /\ m = queue[1] /\ Message(m)
  BY <1>1, TailFacts DEF TypesOK
<1>3. UNCHANGED <<call, version, client>>
  BY DEF Consume, redis
<1>4. /\ ActiveOn(f)' = ActiveOn(f)
      /\ \A g \in ActiveOn(f)' :
           /\ call'[g].reason = call[g].reason
           /\ call'[g].reason = "batch" /\ Due(call'[g]) = "writeVersion" => call'[g].version = version[f]
  BY <1>3, SameCalls
<1>5. \A i \in DOMAIN queue' : i + 1 \in DOMAIN queue /\ queue[i + 1] = queue'[i]
  BY <1>2
<1>6. ClientIsBehind(f)'
  BY <1>3, BehindKept DEF VersionOK
<1> HIDE DEF m
<1>7. CASE m.folder # f
  <2>1. consumer'.folder # f
    BY <1>1, <1>7, IdleFacts DEF Takes
  <2>2. version'[f] = version[f] /\ 1 \in Nat
    BY <1>3
  <2> QED
    BY <1>1, <1>4, <1>5, <1>6, <2>1, <2>2, VersionKept, Zenon DEF TypesOK
<1>8. CASE m.folder = f
  <2>1. /\ consumer'.folder = f /\ consumer'.reason = m.reason /\ Due(consumer') # "writeVersion"
    BY <1>1, <1>8 DEF Takes
  <2>2. 1 \in DOMAIN queue /\ queue[1].folder = f /\ queue[1].reason = m.reason /\ Pending(f)
    BY <1>2, <1>8 DEF Pending
  <2>3. \A g \in ActiveOn(f)' : call'[g].reason \notin {"create", "batch"}
    BY <1>4, <2>2 DEF VersionOK, CreateIsAlone, BatchIsAlone
  <2>4. \A i \in DOMAIN queue' : ~(queue'[i].folder = f /\ queue'[i].reason = "create")
    <3> SUFFICES ASSUME NEW i \in DOMAIN queue', queue'[i].folder = f, queue'[i].reason = "create" PROVE FALSE
      OBVIOUS
    <3>1. i + 1 \in DOMAIN queue /\ queue[i + 1] = queue'[i] /\ i + 1 # 1
      BY <1>2
    <3> QED
      BY <2>2, <3>1 DEF VersionOK, CreateIsAlone
  <2>5. m.reason = "create" => ActiveOn(f)' = {} /\ ~InQueue(f)' /\ version'[f] = None
    <3> SUFFICES ASSUME m.reason = "create" PROVE ActiveOn(f)' = {} /\ ~InQueue(f)' /\ version'[f] = None
      OBVIOUS
    <3>1. /\ ActiveOn(f) = {} /\ version[f] = None
          /\ \A j \in DOMAIN queue : queue[j].folder = f => 1 = j
      BY <2>2 DEF VersionOK, CreateIsAlone
    <3>2. ASSUME NEW j \in DOMAIN queue', queue'[j].folder = f PROVE FALSE
      <4>1. j + 1 \in DOMAIN queue /\ queue[j + 1] = queue'[j] /\ j + 1 # 1
        BY <1>2
      <4> QED
        BY <3>1, <3>2, <4>1
    <3> QED
      BY <1>3, <1>4, <3>1, <3>2 DEF InQueue
  <2>6. CreateIsAlone(f)'
    BY <2>1, <2>3, <2>4, <2>5 DEF CreateIsAlone
  <2>7. BatchIsAlone(f)'
    BY <2>3 DEF BatchIsAlone
  <2>8. VersionIsRead(f)'
    BY <2>1 DEF VersionIsRead, Due
  <2>9. NoDeletion(f)'
    BY <1>5, <2>1, <2>2 DEF VersionOK, NoDeletion
  <2> QED
    BY <1>6, <2>6, <2>7, <2>8, <2>9 DEF VersionOK
<1> QED
  BY <1>7, <1>8

LEMMA ElseVersions ==
  ASSUME Open, TypesOK, TypesOK', Else, NEW f \in Folders, VersionOK(f)
  PROVE  VersionOK(f)'
<1>1. CASE Consume
  BY <1>1, ConsumeVersions
<1>2. CASE HandlingStep
  BY <1>2, HandleVersions
<1>3. ASSUME NEW k \in Folders, Fetch(k) PROVE VersionOK(f)'
  <2>1. UNCHANGED <<version, queue, consumer, call>> /\ client' = [client EXCEPT !.version[k] = client.asked[k],
                                                                           !.copy[k] = tables[k]]
    BY <1>3 DEF Fetch, redis
  <2>2. client'.asked[f] = client.asked[f] /\ client'.version[f] \in {client.version[f], client.asked[f]}
    BY <2>1 DEF TypesOK, ClientOK
  <2>3. /\ version[f] \in Versions /\ client.asked[f] \in Versions
    BY DEF TypesOK, CacheOK, ClientOK
  <2>4. Rank(version[f]) \in Nat /\ Rank(client.asked[f]) \in Nat
    BY <2>3, RankFacts
  <2>5. ClientIsBehind(f)'
    BY <2>1, <2>2, <2>4 DEF VersionOK, ClientIsBehind
  <2>6. \A i \in DOMAIN queue' : i + 0 \in DOMAIN queue /\ queue[i + 0] = queue'[i]
    BY <2>1, SameQueue DEF TypesOK
  <2>7. version'[f] = version[f]
    BY <2>1
  <2>8. consumer'.folder = f =>
          /\ consumer.folder = f /\ consumer'.reason = consumer.reason
          /\ Due(consumer') # "writeEntry" => Due(consumer) # "writeEntry"
          /\ Due(consumer') = "writeVersion" => consumer'.version = version[f]
    BY <2>1, SameConsumer
  <2>9. /\ ActiveOn(f)' \subseteq ActiveOn(f)
        /\ \A g \in ActiveOn(f)' :
             /\ call'[g].reason = call[g].reason
             /\ call'[g].reason = "batch" /\ Due(call'[g]) = "writeVersion" => call'[g].version = version[f]
    BY <2>1, SameCalls
  <2> QED
    BY <2>5, <2>6, <2>7, <2>8, <2>9, VersionKept, Zenon DEF TypesOK
<1>4. CASE CheckProjectVersion
  <2>1. UNCHANGED <<version, queue, consumer, call>> /\ client' = [client EXCEPT !.asked = version]
        /\ client.asked = client.version
    BY <1>4 DEF CheckProjectVersion, redis
  <2>2. client'.asked[f] = version[f] /\ client'.version[f] = client.asked[f]
    BY <2>1 DEF TypesOK, ClientOK
  <2>3. /\ version[f] \in Versions /\ client.asked[f] \in Versions
    BY DEF TypesOK, CacheOK, ClientOK
  <2>4. Rank(version[f]) \in Nat /\ Rank(client.asked[f]) \in Nat
    BY <2>3, RankFacts
  <2>5. ClientIsBehind(f)'
    BY <2>1, <2>2, <2>4 DEF VersionOK, ClientIsBehind
  <2>6. \A i \in DOMAIN queue' : i + 0 \in DOMAIN queue /\ queue[i + 0] = queue'[i]
    BY <2>1, SameQueue DEF TypesOK
  <2>7. version'[f] = version[f]
    BY <2>1
  <2>8. consumer'.folder = f =>
          /\ consumer.folder = f /\ consumer'.reason = consumer.reason
          /\ Due(consumer') # "writeEntry" => Due(consumer) # "writeEntry"
          /\ Due(consumer') = "writeVersion" => consumer'.version = version[f]
    BY <2>1, SameConsumer
  <2>9. /\ ActiveOn(f)' \subseteq ActiveOn(f)
        /\ \A g \in ActiveOn(f)' :
             /\ call'[g].reason = call[g].reason
             /\ call'[g].reason = "batch" /\ Due(call'[g]) = "writeVersion" => call'[g].version = version[f]
    BY <2>1, SameCalls
  <2> QED
    BY <2>5, <2>6, <2>7, <2>8, <2>9, VersionKept, Zenon DEF TypesOK
<1>5. ASSUME UNCHANGED <<version, client, call>>, consumer' = consumer \/ consumer'.folder # f,
             \A i \in DOMAIN queue' : queue'[i].folder = f => i + 0 \in DOMAIN queue /\ queue[i + 0] = queue'[i]
      PROVE  VersionOK(f)'
  <2>1. ClientIsBehind(f)'
    BY <1>5, BehindKept DEF VersionOK
  <2>2. version'[f] = version[f]
    BY <1>5
  <2>3. consumer'.folder = f =>
          /\ consumer.folder = f /\ consumer'.reason = consumer.reason
          /\ Due(consumer') # "writeEntry" => Due(consumer) # "writeEntry"
          /\ Due(consumer') = "writeVersion" => consumer'.version = version[f]
    BY <1>5, SameConsumer
  <2> QED
    BY <1>5, <2>1, <2>2, <2>3, SameCalls, VersionKept, Zenon DEF TypesOK
<1>6. CASE FailingConsumer \/ \E k \in Folders : ExpireEntry(k)
  <2>1. UNCHANGED <<version, client, call, queue>>
    BY <1>6 DEF FailingConsumer, ExpireEntry, redis
  <2>2. consumer' = consumer \/ consumer'.folder # f
    BY <1>6, IdleFacts DEF FailingConsumer, ExpireEntry
  <2> QED
    BY <1>5, <2>1, <2>2, SameQueue DEF TypesOK
<1>7. CASE PublishChat
  <2>1. PICK m \in Calls : Message(m) /\ m.folder = None /\ queue' = Append(queue, m)
    BY <1>7, ChatMessage
  <2>2. UNCHANGED <<version, client, call, consumer>>
    BY <1>7 DEF PublishChat, redis
  <2>3. \A i \in DOMAIN queue' : queue'[i].folder = f => i + 0 \in DOMAIN queue /\ queue[i + 0] = queue'[i]
    BY <2>1, AppendFacts DEF TypesOK
  <2> QED
    BY <1>5, <2>2, <2>3
<1>8. CASE Restart
  <2>1. ActiveOn(f)' = {} /\ queue' = <<>> /\ consumer' = Idle /\ UNCHANGED <<version, client>>
    BY <1>8, RestartFacts DEF Restart, redis
  <2>2. ClientIsBehind(f)'
    BY <2>1, BehindKept DEF VersionOK
  <2>3. CreateIsAlone(f)'
    BY <2>1, IdleFacts DEF CreateIsAlone
  <2>4. BatchIsAlone(f)' /\ VersionIsRead(f)' /\ NoDeletion(f)'
    BY <2>1, IdleFacts DEF BatchIsAlone, VersionIsRead, NoDeletion
  <2> QED
    BY <2>2, <2>3, <2>4 DEF VersionOK
<1> QED
  BY <1>1, <1>2, <1>3, <1>4, <1>6, <1>7, <1>8 DEF Else, ConsumerStep, HandlingStep

\* A folder that has no row has no version.
LEMMA NextUnborn ==
  ASSUME Open, TypesOK, LivesOK, Next, NEW f \in Folders, tables[f] = None => version[f] = None
  PROVE  tables'[f] = None => version'[f] = None
<1>1. ASSUME NEW h \in Handlers, Beginning(h) PROVE UNCHANGED <<tables, version>>
  BY <1>1, Beginnings DEF BeginsOn, Begin, redis
<1>2. ASSUME NEW h \in Handlers, Writing(h) PROVE tables'[f] = None => version'[f] = None
  <2>1. UNCHANGED version /\ (tables'[f] = None => tables[f] = None)
    BY <1>2, Written DEF Rows
  <2> QED
    BY <2>1
<1>3. ASSUME NEW h \in Handlers, Quiet(h) PROVE tables'[f] = None => version'[f] = None
  <2>1. call[h] \in Calls /\ Serving(call[h]) /\ h \in ActiveOn(call[h].folder) /\ UNCHANGED tables
        /\ call[h].folder \in Folders
    BY <1>3, QuietMoves
  <2>2. CASE WriteVersion(h)
    <3>1. Due(call[h]) # "insert"
      BY <2>2 DEF WriteVersion, At, Due
    <3>2. tables[call[h].folder] # None
      BY <2>1, <3>1 DEF LivesOK, Follows
    <3>3. f # call[h].folder => version'[f] = version[f]
      BY <2>2 DEF WriteVersion, TypesOK, CacheOK
    <3> QED
      BY <2>1, <3>2, <3>3
  <2>3. CASE ~WriteVersion(h)
    <3>1. UNCHANGED version
      BY <1>3, <2>3 DEF Quiet, Read, Overlook, Refuse, RefuseMount, Lookup, Collect, FillCache, SendMessage, ReadVersion, WriteName,
                        BumpProject, FailingCall, redis
    <3> QED
      BY <2>1, <3>1
  <2> QED
    BY <2>2, <2>3
<1>4. CASE HandlingStep
  <2>1. tables[consumer.folder] # None /\ UNCHANGED tables
    BY <1>4, HandlingMoves DEF LivesOK, Pending
  <2>2. f # consumer.folder => version'[f] = version[f]
    BY <1>4, HandlingMoves DEF TypesOK, CacheOK
  <2> QED
    BY <2>1, <2>2
<1>5. CASE Else /\ ~HandlingStep
  <2>1. UNCHANGED <<tables, version>>
    BY <1>5 DEF Else, ConsumerStep, HandlingStep, Consume, FailingConsumer, Fetch, ExpireEntry,
                CheckProjectVersion, PublishChat, Restart, redis
  <2> QED
    BY <2>1
<1> QED
  BY <1>1, <1>2, <1>3, <1>4, <1>5, Steps

LEMMA NextRaced ==
  ASSUME Next
  PROVE  raced \subseteq raced' /\ crossed \subseteq crossed'
<1>1. ASSUME NEW h \in Handlers, Beginning(h) PROVE raced \subseteq raced' /\ crossed \subseteq crossed'
  BY <1>1, Beginnings DEF BeginsOn, Begin
<1>2. ASSUME NEW h \in Handlers, Writing(h) PROVE UNCHANGED <<raced, crossed>>
  BY <1>2 DEF Writing, Insert, Save, Detach, Attach, Mount, Drop, Write, history
<1>3. ASSUME NEW h \in Handlers, Quiet(h) PROVE raced \subseteq raced' /\ crossed \subseteq crossed'
  BY <1>3 DEF Quiet, Read, Overlook, Refuse, RefuseMount, Lookup, Collect, FillCache, SendMessage,
              ReadVersion, WriteVersion, WriteName, BumpProject, FailingCall, Fault, history
<1>4. CASE Else
  BY <1>4 DEF Else, ConsumerStep, Consume, IncrementProjectVersion, AddVirtualFolderToProject,
              ReadFolderVersion, WriteFolderVersion, UpdateVirtualFolderCache,
              RemoveVirtualFolderFromProject, DeleteVirtualFolderCache, FailingConsumer, Fetch,
              ExpireEntry, CheckProjectVersion, PublishChat, Restart, Fault, history
<1> QED
  BY <1>1, <1>2, <1>3, <1>4, Steps

LEMMA NextVersions ==
  ASSUME Open, TypesOK, LivesOK, VersionsOK, Next
  PROVE  VersionsOK'
<1>1. \A f \in Folders : tables'[f] = None => version'[f] = None
  BY NextUnborn DEF VersionsOK
<1>2. ASSUME NEW f \in Folders \ raced' PROVE VersionOK(f)'
  <2>1. f \notin raced /\ VersionOK(f) /\ TypesOK'
    BY NextRaced, NextTypes DEF VersionsOK
  <2>2. ASSUME NEW h \in Handlers, Beginning(h) PROVE VersionOK(f)'
    BY <2>2, Beginnings, BeginVersions
  <2> QED
    BY <2>1, <2>2, Steps, WriteVersions, QuietVersions, ElseVersions
<1> QED
  BY <1>1, <1>2 DEF VersionsOK

-----------------------------------------------------------------------------
(* The copies of the client.                                               *)

LEMMA CopyKept ==
  ASSUME NEW f \in Folders, CopyOK(f), tables'[f] = tables[f], version'[f] = version[f],
         client'.version[f] = client.version[f], client'.copy[f] = client.copy[f],
         Exists(f) /\ WillMove(f) => WillMove(f)'
  PROVE  CopyOK(f)'
BY DEF CopyOK, Exists

\* The requests, the messages and the consumer that will move the version, each kept by itself.
LEMMA WillMoveKept ==
  ASSUME QueueOK, NEW f \in Folders, WillMove(f),
         \A g \in ActiveOn(f) : Changes(call[g]) => WillMove(f)' \/ (g \in ActiveOn(f)' /\ Changes(call'[g])),
         UNCHANGED queue \/ \E m \in Calls : Message(m) /\ queue' = Append(queue, m),
         UNCHANGED consumer
  PROVE  WillMove(f)'
<1>1. CASE \E g \in ActiveOn(f) : Changes(call[g])
  BY <1>1 DEF WillMove, Changes, Due
<1>2. CASE \E i \in DOMAIN queue : queue[i].folder = f /\ Edited(queue[i])
  <2>1. PICK i \in DOMAIN queue : queue[i].folder = f /\ Edited(queue[i])
    BY <1>2
  <2>2. i \in DOMAIN queue' /\ queue'[i] = queue[i]
    BY <2>1, AppendFacts DEF QueueOK
  <2> QED
    BY <2>1, <2>2 DEF WillMove, Edited
<1>3. CASE consumer.folder = f /\ Due(consumer) # "writeEntry"
  BY <1>3 DEF WillMove, Due
<1> QED
  BY <1>1, <1>2, <1>3 DEF WillMove

LEMMA BeginCopies ==
  ASSUME TypesOK, LivesOK, CopiesOK, NEW h \in Handlers, NEW k \in Folders,
         NEW reason \in {"create", "modify", "delete", "query", "batch"}, NEW todo \in HandlerLists,
         BeginsOn(h, k, reason, todo), NEW f \in Folders \ (raced' \cup failed')
  PROVE  CopyOK(f)'
<1> DEFINE d == New(k, reason, todo)
<1>1. /\ call[h] = Idle /\ Moves(h, d) /\ call'[h] = d
      /\ \A g \in Handlers \ {h} : call'[g] = call[g]
  BY BeginTypes
<1>2. d.folder = k /\ d.reason = reason /\ d \in Calls
  BY NewFacts DEF BeginsOn, TypesOK
<1>3. /\ UNCHANGED <<tables, version, queue, consumer, client>> /\ f \notin raced
      /\ failed' = IF reason = "modify" THEN failed \ {k} ELSE failed
  BY DEF BeginsOn, Begin, redis
<1>4. ActiveOn(f)' = ActiveOn(f) \cup (IF k = f THEN {h} ELSE {})
  BY <1>1, <1>2, IdleFacts, ActiveAfter DEF TypesOK
<1>5. \A g \in ActiveOn(f) : g \in Handlers \ {h} /\ call'[g] = call[g]
  BY <1>1, IdleFacts DEF ActiveOn
<1> HIDE DEF d
<1>6. CASE f \in failed
  <2>1. k = f /\ h \in ActiveOn(f)' /\ call'[h].reason = "modify"
    BY <1>1, <1>2, <1>3, <1>4, <1>6
  <2> QED
    BY <2>1 DEF CopyOK, WillMove, Changes
<1>7. CASE f \notin failed
  <2>1. CopyOK(f)
    BY <1>3, <1>7 DEF CopiesOK
  <2>2. WillMove(f) => WillMove(f)'
    BY <1>3, <1>4, <1>5, WillMoveKept DEF TypesOK
  <2> QED
    BY <1>3, <2>1, <2>2, CopyKept
<1> QED
  BY <1>6, <1>7

LEMMA WriteCopies ==
  ASSUME TypesOK, LivesOK, CopiesOK, NEW h \in Handlers, Writing(h), NEW f \in Folders \ (raced' \cup failed')
  PROVE  CopyOK(f)'
<1> DEFINE c == call[h]  d == Rest(call[h])
<1>1. /\ Moves(h, d) /\ c \in Calls /\ Serving(c) /\ c.folder \in Folders /\ c # Idle
      /\ d \in Calls /\ Serving(d) /\ StaysOn(c, d) /\ h \in ActiveOn(c.folder)
      /\ UNCHANGED <<version, queue, consumer, client, raced, failed>>
      /\ Due(c) \in TableWrites
  BY Written
<1>2. PICK row \in Rows :
        /\ \A k \in Folders : tables'[k] = IF k = c.folder THEN row ELSE tables[k]
        /\ Due(c) = "drop" => ~row.live
  BY Written DEF Becomes
<1>3. CopyOK(f)
  BY <1>1 DEF CopiesOK
<1>4. Due(c) # "drop" => Changes(d)
  BY <1>1, Serves DEF Changes, StaysOn, Leads, Keeps, TableWrites
<1>5. d # Idle
  BY <1>1, IdleFacts
<1> HIDE DEF d
<1>6. /\ ActiveOn(f)' = ActiveOn(f)
      /\ \A g \in ActiveOn(f)' : call'[g] = IF g = h THEN d ELSE call[g]
  BY <1>1, <1>5, StillActive DEF TypesOK
<1>7. CASE f # c.folder
  <2>1. tables'[f] = tables[f] /\ h \notin ActiveOn(f)
    BY <1>2, <1>7 DEF ActiveOn
  <2>2. WillMove(f) => WillMove(f)'
    BY <1>1, <1>6, <2>1, WillMoveKept DEF TypesOK
  <2> QED
    BY <1>1, <1>3, <2>1, <2>2, CopyKept
<1>8. CASE f = c.folder /\ Due(c) = "drop"
  BY <1>2, <1>8 DEF CopyOK, Exists
<1>9. CASE f = c.folder /\ Due(c) # "drop"
  <2>1. h \in ActiveOn(f)' /\ Changes(call'[h])
    BY <1>1, <1>4, <1>6, <1>9
  <2> QED
    BY <2>1 DEF CopyOK, WillMove, Changes, Due
<1> QED
  BY <1>7, <1>8, <1>9

\* A request that owes a version keeps on doing so, finds no folder, or has sent its message.
LEMMA ChangesKept ==
  ASSUME Open, TypesOK, LivesOK, NEW h \in Handlers, Quiet(h), ~FailingCall(h), ~RefuseMount(h),
         ~WriteVersion(h), Changes(call[h])
  PROVE  \/ call'[h] # Idle /\ Changes(call'[h])
         \/ ~Exists(call[h].folder)
         \/ queue' = Append(queue, Sent(call[h])) /\ Edited(Sent(call[h]))
<1> DEFINE c == call[h]
<1>1. c \in Calls /\ Serving(c) /\ c.folder \in Folders
  BY QuietMoves
<1>2. PICK d \in Calls : Moves(h, d) /\ call'[h] = d /\ (d = Idle \/ StaysOn(c, d))
  BY QuietMoves
<1>3. CASE Refuse(h) \/ (Collect(h) /\ ~Found(h))
  BY <1>3 DEF Refuse, Found
<1>4. CASE SendMessage(h)
  <2>1. queue' = Append(queue, Sent(c)) /\ Due(c) = "publish"
    BY <1>4, SendTypes
  <2>2. c.reason \in {"create", "modify"}
    BY <2>1 DEF Changes
  <2>3. Edited(Sent(c))
    BY <1>1, <2>2, SentFacts DEF Edited, Reasons
  <2> QED
    BY <2>1, <2>3
<1>5. CASE Collect(h) /\ Found(h)
  <2>1. Due(c) = "collect"
    BY <1>5 DEF Collect, At, Due
  <2>2. d = Rest([c EXCEPT !.name = Row(h).name, !.father = CachedFather(Row(h).father)])
    BY <1>2, <1>5 DEF Collect, Go, TypesOK, CallsOK
  <2>3. d.reason = c.reason /\ d # Idle
    BY <1>5, <2>2, SeenFacts, IdleFacts DEF Collect, Seen
  <2> QED
    BY <1>2, <2>1, <2>3 DEF Changes
<1>6. CASE ReadVersion(h)
  <2> DEFINE e == [c EXCEPT !.version = version[c.folder]]
  <2>1. e \in Calls /\ e.folder = c.folder /\ e.reason = c.reason /\ e.todo = c.todo
    BY <1>1 DEF Calls, TypesOK, CacheOK
  <2>2. Serving(e) /\ Due(e) = "readVersion"
    BY <1>1, <1>6, <2>1 DEF Serving, Doing, Due, ReadVersion, At
  <2>3. d = Rest(e)
    BY <1>2, <1>6 DEF ReadVersion, Go, TypesOK, CallsOK
  <2> HIDE DEF e
  <2>4. e.reason = "batch" /\ Leads(e, "writeVersion")
    BY <2>1, <2>2, Serves
  <2> QED
    BY <1>2, <2>3, <2>4, IdleFacts DEF Leads, Keeps, Changes
<1>8. CASE Read(h) \/ Overlook(h)
  <2>1. /\ d = Rest(c) /\ Due(c) \in {"read", "save", "detach", "attach", "mount", "drop"}
        /\ c.reason = "batch" => Due(c) = "read"
    BY <1>2, <1>8 DEF Read, Overlook, Continue, Go, At, Due, TypesOK, CallsOK
  <2>2. c.reason # "batch" /\ c.reason \in {"create", "modify"}
    BY <2>1 DEF Changes
  <2>3. d.reason = c.reason /\ d # Idle
    BY <1>1, <2>1, <2>2, Serves, IdleFacts DEF Leads, Keeps
  <2> QED
    BY <1>2, <2>2, <2>3 DEF Changes
<1>7. ~(Lookup(h) \/ FillCache(h) \/ WriteName(h) \/ BumpProject(h))
  <2>1. ASSUME Lookup(h) \/ FillCache(h) \/ WriteName(h) \/ BumpProject(h) PROVE FALSE
    <3>1. Due(c) \in {"lookup", "fill", "writeName", "bumpProject"}
      BY <2>1 DEF Lookup, FillCache, WriteName, BumpProject, At, Due
    <3>2. c.reason \in {"query", "batch"}
      BY <1>1, <3>1, Serves
    <3> QED
      BY <3>1, <3>2 DEF Changes
  <2> QED
    BY <2>1
<1> QED
  BY <1>3, <1>4, <1>5, <1>6, <1>7, <1>8 DEF Quiet

LEMMA QuietCopies ==
  ASSUME Open, TypesOK, LivesOK, VersionsOK, CopiesOK, NEW h \in Handlers, Quiet(h),
         NEW f \in Folders \ (raced' \cup failed')
  PROVE  CopyOK(f)'
<1> DEFINE c == call[h]
<1>1. /\ c \in Calls /\ Serving(c) /\ c.folder \in Folders /\ c # Idle /\ h \in ActiveOn(c.folder)
      /\ UNCHANGED <<tables, consumer, client, calls>>
  BY QuietMoves
<1>2. PICK d \in Calls : /\ Moves(h, d) /\ call'[h] = d
                         /\ d = Idle \/ (StaysOn(c, d) /\ Serving(d))
  BY QuietMoves
<1>3. f \notin raced /\ f \notin failed /\ (FailingCall(h) \/ RefuseMount(h) => f # c.folder)
  BY <1>1 DEF Quiet, Read, Overlook, Refuse, RefuseMount, Lookup, Collect, FillCache, SendMessage,
              ReadVersion, WriteVersion, WriteName, BumpProject, FailingCall, Fault, history
<1>4. CopyOK(f) /\ VersionOK(f)
  BY <1>3 DEF CopiesOK, VersionsOK
<1>5. /\ ActiveOn(f) \subseteq ActiveOn(f)' \cup {h}
      /\ \A g \in ActiveOn(f)' : call'[g] = IF g = h THEN d ELSE call[g]
      /\ d # Idle => ActiveOn(f)' = ActiveOn(f)
  BY <1>1, <1>2, StillActive DEF TypesOK
<1>6. UNCHANGED queue \/ \E m \in Calls : Message(m) /\ queue' = Append(queue, m)
  BY QuietQueue, SentFacts
<1>7. CASE WriteVersion(h) /\ c.folder = f
  <2>1. Due(c) = "writeVersion" /\ c.reason = "batch"
    BY <1>1, <1>7, Serves DEF WriteVersion, At, Due
  <2>2. c.version = version[f]
    BY <1>1, <1>4, <1>7, <2>1 DEF VersionOK, BatchIsAlone
  <2>3. version'[f] = IncrementVersion(version[f])
    BY <1>7, <2>2 DEF WriteVersion, TypesOK, CacheOK
  <2>4. client'.version[f] # version'[f]
    BY <1>1, <1>4, <2>3, VersionGrows DEF VersionOK
  <2> QED
    BY <2>4 DEF CopyOK
<1>8. CASE ~(WriteVersion(h) /\ c.folder = f)
  <2>1. version'[f] = version[f]
    BY <1>8 DEF Quiet, Read, Overlook, Refuse, RefuseMount, Lookup, Collect, FillCache, SendMessage,
                ReadVersion, WriteVersion, WriteName, BumpProject, FailingCall, redis, TypesOK, CacheOK
  <2>2. ASSUME Exists(f), WillMove(f) PROVE WillMove(f)'
    <3>1. ASSUME NEW g \in ActiveOn(f), Changes(call[g]) PROVE WillMove(f)' \/ (g \in ActiveOn(f)' /\ Changes(call'[g]))
      <4>1. CASE g # h
        BY <1>5, <3>1, <4>1 DEF Changes
      <4>2. CASE g = h
        <5>1. c.folder = f
          BY <3>1, <4>2 DEF ActiveOn
        <5>2. \/ d # Idle /\ Changes(d)
              \/ queue' = Append(queue, Sent(c)) /\ Edited(Sent(c))
          BY <1>2, <1>3, <1>8, <2>2, <3>1, <4>2, <5>1, ChangesKept
        <5>3. CASE d # Idle /\ Changes(d)
          BY <1>2, <1>5, <3>1, <4>2, <5>3
        <5>4. CASE queue' = Append(queue, Sent(c)) /\ Edited(Sent(c))
          <6>1. c.reason \in Reasons
            BY <5>4 DEF Edited, Sent, Calls, Reasons
          <6>2. Sent(c) \in Calls /\ Message(Sent(c)) /\ Sent(c).folder = f
            BY <1>1, <5>1, <6>1, SentFacts
          <6>3. Len(queue) + 1 \in DOMAIN queue' /\ queue'[Len(queue) + 1] = Sent(c)
            BY <5>4, <6>2, AppendFacts DEF TypesOK
          <6> QED
            BY <5>4, <6>2, <6>3 DEF WillMove, Edited
        <5> QED
          BY <5>2, <5>3, <5>4
      <4> QED
        BY <4>1, <4>2
    <3> QED
      BY <1>1, <1>6, <2>2, <3>1, WillMoveKept DEF TypesOK
  <2> QED
    BY <1>1, <1>4, <2>1, <2>2, CopyKept
<1> QED
  BY <1>7, <1>8

LEMMA ConsumeCopies ==
  ASSUME TypesOK, Consume, NEW f \in Folders, CopyOK(f)
  PROVE  CopyOK(f)'
<1> DEFINE m == Head(queue)
<1>1. /\ queue # <<>> /\ queue' = Tail(queue) /\ consumer = Idle
      /\ IF m.reason = "chat" THEN m.folder = None /\ consumer' = Idle
         ELSE m.folder \in Folders /\ Takes(m, consumer')
  BY ConsumeTypes
<1>2. /\ Len(queue) \in Nat \ {0} /\ DOMAIN queue = 1..Len(queue) /\ DOMAIN queue' = 1..(Len(queue) - 1)
      /\ \A i \in 1..(Len(queue) - 1) : queue'[i] = queue[i + 1]
      /\ m = queue[1]
  BY <1>1, TailFacts DEF TypesOK
<1>3. UNCHANGED <<tables, call, version, client>>
  BY DEF Consume, redis
<1> HIDE DEF m
<1>4. WillMove(f) => WillMove(f)'
  <2>1. CASE \E h \in ActiveOn(f) : Changes(call[h])
    BY <1>3, <2>1 DEF WillMove, ActiveOn, Changes, Due
  <2>2. CASE \E i \in DOMAIN queue : queue[i].folder = f /\ Edited(queue[i])
    <3>1. PICK i \in DOMAIN queue : queue[i].folder = f /\ Edited(queue[i])
      BY <2>2
    <3>2. CASE i = 1
      <4>1. m.folder = f /\ Edited(m)
        BY <1>2, <3>1, <3>2
      <4>2. Takes(m, consumer') /\ m.reason # "query"
        BY <1>1, <4>1 DEF Edited
      <4> QED
        BY <4>1, <4>2 DEF Takes, WillMove, Due
    <3>3. CASE i # 1
      <4>1. i - 1 \in DOMAIN queue' /\ queue'[i - 1] = queue[i]
        BY <1>2, <3>3
      <4> QED
        BY <3>1, <4>1 DEF WillMove, Edited
    <3> QED
      BY <3>2, <3>3
  <2> QED
    BY <1>1, <2>1, <2>2, IdleFacts DEF WillMove
<1> QED
  BY <1>3, <1>4, CopyKept

LEMMA HandleCopies ==
  ASSUME TypesOK, HandlingStep, NEW f \in Folders, VersionOK(f), CopyOK(f)
  PROVE  CopyOK(f)'
<1>1. UNCHANGED <<tables, queue, call, client>> /\ consumer.folder \in Folders
  BY HandlingMoves
<1>2. CASE version'[f] = version[f]
  <2>1. consumer.folder = f /\ Due(consumer) # "writeEntry" => consumer'.folder = f /\ Due(consumer') # "writeEntry"
    <3> SUFFICES ASSUME consumer.folder = f, Due(consumer) # "writeEntry"
                 PROVE  consumer'.folder = f /\ Due(consumer') # "writeEntry"
      OBVIOUS
    <3>1. Due(consumer) # "writeVersion"
      <4>1. ASSUME Due(consumer) = "writeVersion" PROVE FALSE
        <5>1. version'[f] = IncrementVersion(consumer.version) /\ consumer.version = version[f]
          BY <4>1, HandlingMoves DEF TypesOK, CacheOK, VersionOK, VersionIsRead
        <5>2. version'[f] = IncrementVersion(version[f]) /\ version[f] \in Versions
          BY <5>1 DEF TypesOK, CacheOK
        <5> QED
          BY <1>2, <5>2, RankFacts
      <4> QED
        BY <4>1
    <3>2. Due(consumer) # "addFolder"
      <4>1. ASSUME Due(consumer) = "addFolder" PROVE FALSE
        <5>1. version'[f] = 0 /\ consumer.reason = "create"
          BY <4>1, HandlingMoves DEF TypesOK, CacheOK
        <5>2. version[f] = None
          BY <4>1, <5>1 DEF VersionOK, CreateIsAlone
        <5>3. 0 # None
          BY RankFacts
        <5> QED
          BY <1>2, <5>1, <5>2, <5>3, Zenon
      <4> QED
        BY <4>1
    <3>3. consumer.reason # "delete"
      BY DEF VersionOK, NoDeletion
    <3> QED
      BY <3>1, <3>2, <3>3, HandlingMoves
  <2>2. WillMove(f) => WillMove(f)'
    BY <1>1, <2>1 DEF WillMove, ActiveOn, Changes, Due
  <2> QED
    BY <1>1, <1>2, <2>2, CopyKept
<1>3. CASE version'[f] # version[f]
  <2>1. /\ consumer.folder = f
        /\ \/ /\ Due(consumer) = "addFolder" /\ consumer.reason = "create" /\ version'[f] = 0
           \/ /\ Due(consumer) = "writeVersion" /\ version'[f] = IncrementVersion(consumer.version)
    BY <1>3, HandlingMoves DEF TypesOK, CacheOK, VersionOK, NoDeletion
  <2>2. version'[f] = IncrementVersion(version[f])
    BY <2>1 DEF VersionOK, CreateIsAlone, VersionIsRead, IncrementVersion
  <2>3. client'.version[f] # version'[f]
    BY <1>1, <2>2, VersionGrows DEF VersionOK
  <2> QED
    BY <2>3 DEF CopyOK
<1> QED
  BY <1>2, <1>3

LEMMA ElseCopies ==
  ASSUME Open, TypesOK, VersionsOK, CopiesOK, Else, NEW f \in Folders \ (raced' \cup failed')
  PROVE  CopyOK(f)'
<1>1. f \notin raced /\ f \notin failed
  BY DEF Else, ConsumerStep, Consume, IncrementProjectVersion, AddVirtualFolderToProject,
         ReadFolderVersion, WriteFolderVersion, UpdateVirtualFolderCache,
              RemoveVirtualFolderFromProject, DeleteVirtualFolderCache, FailingConsumer, Fetch,
         ExpireEntry, CheckProjectVersion, PublishChat, Restart, Fault, history
<1>2. CopyOK(f) /\ VersionOK(f)
  BY <1>1 DEF CopiesOK, VersionsOK
<1>3. CASE Consume
  BY <1>2, <1>3, ConsumeCopies
<1>4. CASE HandlingStep
  BY <1>2, <1>4, HandleCopies
<1>5. ASSUME NEW k \in Folders, Fetch(k) PROVE CopyOK(f)'
  <2>1. /\ UNCHANGED <<tables, version, queue, consumer, call>>
        /\ client' = [client EXCEPT !.version[k] = client.asked[k], !.copy[k] = tables[k]]
    BY <1>5 DEF Fetch, redis
  <2>2. CASE k = f
    <3>1. client'.copy[f] = tables'[f]
      BY <2>1, <2>2 DEF TypesOK, ClientOK, Tables
    <3> QED
      BY <3>1 DEF CopyOK
  <2>3. CASE k # f
    <3>1. client'.version[f] = client.version[f] /\ client'.copy[f] = client.copy[f]
      BY <2>1, <2>3 DEF TypesOK, ClientOK, Tables
    <3>2. WillMove(f)' = WillMove(f)
      BY <2>1 DEF WillMove, ActiveOn, Changes, Due
    <3> QED
      BY <1>2, <2>1, <3>1, <3>2, CopyKept
  <2> QED
    BY <2>2, <2>3
<1>6. CASE CheckProjectVersion
  <2>1. /\ UNCHANGED <<tables, version, queue, consumer, call>> /\ client' = [client EXCEPT !.asked = version]
    BY <1>6 DEF CheckProjectVersion, redis
  <2>2. client'.version[f] = client.version[f] /\ client'.copy[f] = client.copy[f]
    BY <2>1 DEF TypesOK, ClientOK
  <2>3. WillMove(f)' = WillMove(f)
    BY <2>1 DEF WillMove, ActiveOn, Changes, Due
  <2> QED
    BY <1>2, <2>1, <2>2, <2>3, CopyKept
<1>7. ASSUME NEW k \in Folders, ExpireEntry(k) PROVE CopyOK(f)'
  <2>1. UNCHANGED <<tables, version, queue, consumer, call, client>>
    BY <1>7 DEF ExpireEntry
  <2>2. WillMove(f)' = WillMove(f)
    BY <2>1 DEF WillMove, ActiveOn, Changes, Due
  <2> QED
    BY <1>2, <2>1, <2>2, CopyKept
<1>8. CASE PublishChat
  <2>1. PICK m \in Calls : Message(m) /\ queue' = Append(queue, m)
    BY <1>8, ChatMessage
  <2>2. UNCHANGED <<tables, version, consumer, call, client>>
    BY <1>8 DEF PublishChat, redis
  <2>3. WillMove(f) => WillMove(f)'
    BY <2>1, <2>2, WillMoveKept DEF TypesOK, ActiveOn
  <2> QED
    BY <1>2, <2>2, <2>3, CopyKept
<1>9. CASE FailingConsumer
  <2>1. UNCHANGED <<tables, version, queue, call, client>> /\ failed' = failed \cup ({consumer.folder} \ {None})
    BY <1>9 DEF FailingConsumer, Fault, redis
  <2>2. consumer.folder # f
    BY <2>1
  <2>3. WillMove(f) => WillMove(f)'
    BY <2>1, <2>2 DEF WillMove, ActiveOn, Changes, Due
  <2> QED
    BY <1>2, <2>1, <2>3, CopyKept
<1>10. CASE Restart
  <2>1. UNCHANGED <<tables, version, client>> /\ ActiveOn(f) = {} /\ ~Pending(f)
    BY <1>10, RestartFacts DEF Restart, redis
  <2>2. ~WillMove(f)
    BY <2>1 DEF WillMove, Pending
  <2> QED
    BY <1>2, <2>1, <2>2, CopyKept
<1> QED
  BY <1>3, <1>4, <1>5, <1>6, <1>7, <1>8, <1>9, <1>10 DEF Else, ConsumerStep, HandlingStep

LEMMA NextCopies ==
  ASSUME Open, TypesOK, LivesOK, VersionsOK, CopiesOK, Next
  PROVE  CopiesOK'
<1> SUFFICES ASSUME NEW f \in Folders \ (raced' \cup failed') PROVE CopyOK(f)'
  BY DEF CopiesOK
<1>1. ASSUME NEW h \in Handlers, Beginning(h) PROVE CopyOK(f)'
  BY <1>1, Beginnings, BeginCopies
<1> QED
  BY <1>1, Steps, WriteCopies, QuietCopies, ElseCopies

-----------------------------------------------------------------------------
(* The cached fields of a folder.                                          *)

LEMMA TurnKept ==
  ASSUME NEW f, RequestsInTurn(f), ActiveOn(f)' \subseteq ActiveOn(f),
         \A g \in ActiveOn(f)' : call'[g].reason = call[g].reason /\ (Due(call'[g]) = "save" => Exists(f)'),
         ActiveOn(f)' # {} => (Pending(f)' => Pending(f))
  PROVE  RequestsInTurn(f)'
BY DEF RequestsInTurn, Due

\* A request saves a row that it has read.
LEMMA QuietSaves ==
  ASSUME Open, TypesOK, LivesOK, NEW h \in Handlers, Quiet(h), call'[h] # Idle, Due(call'[h]) = "save"
  PROVE  Exists(call[h].folder)
<1> DEFINE c == call[h]
<1>1. c \in Calls /\ Serving(c) /\ c.folder \in Folders
  BY QuietMoves
<1>2. PICK d \in Calls : Moves(h, d) /\ call'[h] = d /\ (d = Idle \/ StaysOn(c, d))
  BY QuietMoves
<1>3. ASSUME d = Rest(c) PROVE Due(c) = "read"
  <2>1. Due(c) \in {"insert", "mount", "read", "save", "detach", "attach", "drop", "lookup", "collect", "fill",
                    "publish", "readVersion", "writeVersion", "writeName", "bumpProject"}
    BY <1>1, ListFacts DEF Serving, Doing, Due
  <2> QED
    BY <1>1, <1>2, <1>3, <2>1, Serves DEF Leads, Keeps
<1>4. CASE Read(h)
  BY <1>4 DEF Read, Found
<1>5. CASE Collect(h)
  <2>1. Found(h)
    BY <1>2, <1>5 DEF Collect, Return, TypesOK, CallsOK
  <2> QED
    BY <2>1 DEF Found
<1>6. CASE FailingCall(h)
  BY <1>1, <1>2, <1>6, FailTypes DEF Leads, Keeps, Seen
<1>7. CASE ReadVersion(h)
  <2> DEFINE e == [c EXCEPT !.version = version[c.folder]]
  <2>1. e \in Calls /\ e.folder = c.folder /\ e.reason = c.reason /\ e.todo = c.todo
    BY <1>1 DEF Calls, TypesOK, CacheOK
  <2>2. Serving(e) /\ Due(e) = "readVersion"
    BY <1>1, <1>7, <2>1 DEF Serving, Doing, Due, ReadVersion, At
  <2>3. d = Rest(e)
    BY <1>2, <1>7 DEF ReadVersion, Go, TypesOK, CallsOK
  <2> HIDE DEF e
  <2> QED
    BY <1>2, <2>1, <2>2, <2>3, Serves DEF Leads, Keeps
<1>8. CASE Overlook(h) \/ Refuse(h) \/ RefuseMount(h) \/ Lookup(h) \/ FillCache(h) \/ SendMessage(h)
           \/ WriteVersion(h) \/ WriteName(h) \/ BumpProject(h)
  <2>1. d = Rest(c) \/ d = Idle
    BY <1>2, <1>8 DEF Overlook, Refuse, RefuseMount, Lookup, FillCache, SendMessage, WriteVersion, WriteName,
                      BumpProject, Continue, Return, Go, TypesOK, CallsOK
  <2>2. Due(c) # "read"
    BY <1>2, <1>8 DEF Overlook, Refuse, RefuseMount, Lookup, FillCache, SendMessage, WriteVersion, WriteName,
                      BumpProject, Return, At, Due, TypesOK, CallsOK
  <2> QED
    BY <1>2, <1>3, <2>1, <2>2
<1> QED
  BY <1>4, <1>5, <1>6, <1>7, <1>8 DEF Quiet

LEMMA NextTurns ==
  ASSUME Open, TypesOK, LivesOK, Next, NEW f \in Folders \ crossed', RequestsInTurn(f)
  PROVE  RequestsInTurn(f)'
<1>1. ASSUME NEW h \in Handlers, NEW k \in Folders,
             NEW reason \in {"create", "modify", "delete", "query", "batch"}, NEW todo \in HandlerLists,
             BeginsOn(h, k, reason, todo)
      PROVE  RequestsInTurn(f)'
  <2> DEFINE d == New(k, reason, todo)
  <2>1. /\ call[h] = Idle /\ Moves(h, d) /\ call'[h] = d
        /\ \A g \in Handlers \ {h} : call'[g] = call[g]
    BY <1>1, BeginTypes
  <2>2. d.folder = k /\ d.reason = reason /\ Due(d) # "save"
    BY <1>1, NewFacts DEF BeginsOn, TypesOK
  <2>3. /\ UNCHANGED <<tables, queue, consumer>>
        /\ crossed' = IF ActiveOn(k) # {} \/ (reason = "batch" /\ Pending(k)) THEN crossed \cup {k} ELSE crossed
    BY <1>1 DEF BeginsOn, Begin
  <2>4. ActiveOn(f)' = ActiveOn(f) \cup (IF k = f THEN {h} ELSE {})
    BY <2>1, <2>2, IdleFacts, ActiveAfter DEF TypesOK
  <2>5. \A g \in ActiveOn(f) : g \in Handlers \ {h} /\ call'[g] = call[g]
    BY <2>1, IdleFacts DEF ActiveOn
  <2>6. Pending(f)' = Pending(f)
    BY <2>3, PendingKept
  <2> HIDE DEF d
  <2>7. CASE k = f
    <3>1. ActiveOn(f) = {} /\ (reason = "batch" => ~Pending(f))
      BY <2>3, <2>7
    <3> QED
      BY <2>1, <2>2, <2>4, <2>6, <2>7, <3>1 DEF RequestsInTurn, Due
  <2>8. CASE k # f
    <3>1. \A g \in ActiveOn(f)' : Due(call'[g]) = "save" => Exists(f)'
      BY <2>3, <2>4, <2>5, <2>8 DEF RequestsInTurn, Exists
    <3> QED
      BY <2>4, <2>5, <2>6, <2>8, <3>1, TurnKept
  <2> QED
    BY <2>7, <2>8
<1>2. ASSUME NEW h \in Handlers, Beginning(h) PROVE RequestsInTurn(f)'
  BY <1>1, <1>2, Beginnings
<1>3. ASSUME NEW h \in Handlers, Writing(h) PROVE RequestsInTurn(f)'
  <2>1. /\ Moves(h, Rest(call[h])) /\ call[h] # Idle /\ Rest(call[h]) \in Calls /\ StaysOn(call[h], Rest(call[h]))
        /\ UNCHANGED <<queue, consumer>>
    BY <1>3, Written
  <2>2. /\ ActiveOn(f)' \subseteq ActiveOn(f)
        /\ \A g \in ActiveOn(f)' : call'[g] = IF g = h THEN Rest(call[h]) ELSE call[g]
    BY <2>1, StillActive DEF TypesOK
  <2>3. \A g \in ActiveOn(f)' : call'[g].reason = call[g].reason
    BY <2>1, <2>2 DEF StaysOn
  <2>4. Due(Rest(call[h])) # "save"
    BY <1>3, Written, Serves DEF Leads, Keeps, TableWrites
  <2>5. ASSUME NEW g \in ActiveOn(f)', Due(call'[g]) = "save" PROVE Exists(f)'
    <3>1. g # h /\ call'[g] = call[g] /\ g \in ActiveOn(f)
      BY <2>2, <2>4, <2>5
    <3>2. ActiveOn(f) = {g} /\ Exists(f)
      BY <2>5, <3>1 DEF RequestsInTurn
    <3>3. call[h].folder # f
      BY <3>1, <3>2 DEF ActiveOn
    <3>4. tables'[f] = tables[f]
      BY <1>3, <3>3, Written
    <3> QED
      BY <3>2, <3>4 DEF Exists
  <2> QED
    BY <2>1, <2>2, <2>3, <2>5, PendingKept, TurnKept
<1>4. ASSUME NEW h \in Handlers, Quiet(h) PROVE RequestsInTurn(f)'
  <2> DEFINE c == call[h]
  <2>1. /\ c \in Calls /\ c.folder \in Folders /\ c # Idle /\ h \in ActiveOn(c.folder)
        /\ UNCHANGED <<tables, consumer>>
    BY <1>4, QuietMoves
  <2>2. PICK d \in Calls : Moves(h, d) /\ call'[h] = d /\ (d = Idle \/ StaysOn(c, d))
    BY <1>4, QuietMoves
  <2>3. /\ ActiveOn(f)' \subseteq ActiveOn(f)
        /\ \A g \in ActiveOn(f)' : call'[g] = IF g = h THEN d ELSE call[g]
        /\ h \in ActiveOn(f)' => d # Idle /\ d.folder = f /\ c.folder = f
    BY <2>1, <2>2, StillActive DEF TypesOK
  <2>4. \A g \in ActiveOn(f)' : call'[g].reason = call[g].reason
    BY <2>2, <2>3 DEF StaysOn
  <2>5. ActiveOn(f)' # {} => (Pending(f)' => Pending(f))
    <3> SUFFICES ASSUME ActiveOn(f)' # {}, Pending(f)' PROVE Pending(f)
      OBVIOUS
    <3>1. CASE UNCHANGED queue
      BY <2>1, <3>1, PendingKept
    <3>2. CASE ~UNCHANGED queue
      <4>1. SendMessage(h) /\ queue' = Append(queue, Sent(c)) /\ c.reason \in Reasons
        BY <1>4, <3>2, QuietQueue
      <4>2. Sent(c) \in Calls /\ Message(Sent(c)) /\ Sent(c).folder = c.folder
        BY <2>1, <4>1, SentFacts
      <4>3. Pending(f) \/ c.folder = f
        BY <2>1, <4>1, <4>2, SentPending DEF TypesOK
      <4>4. c.folder # f
        <5>1. ASSUME c.folder = f PROVE FALSE
          <6>1. ActiveOn(f) = {h}
            BY <2>1, <5>1 DEF RequestsInTurn
          <6>2. d = Idle
            BY <2>2, <4>1, SendTypes DEF Moves, TypesOK, CallsOK
          <6> QED
            BY <2>3, <6>1, <6>2
        <5> QED
          BY <5>1
      <4> QED
        BY <4>3, <4>4
    <3> QED
      BY <3>1, <3>2
  <2>6. ASSUME NEW g \in ActiveOn(f)', Due(call'[g]) = "save" PROVE Exists(f)'
    <3>1. Exists(f)' = Exists(f)
      BY <2>1 DEF Exists
    <3>2. CASE g = h
      BY <1>4, <2>2, <2>3, <2>6, <3>1, <3>2, QuietSaves
    <3>3. CASE g # h
      BY <2>3, <2>6, <3>1, <3>3 DEF RequestsInTurn
    <3> QED
      BY <3>2, <3>3
  <2> QED
    BY <2>3, <2>4, <2>5, <2>6, TurnKept
<1>5. CASE Else
  <2>1. (call' = call \/ ActiveOn(f)' = {}) /\ (Pending(f)' => Pending(f)) /\ UNCHANGED tables
    BY <1>5, ElseMoves
  <2>2. /\ ActiveOn(f)' \subseteq ActiveOn(f)
        /\ \A g \in ActiveOn(f)' : call'[g].reason = call[g].reason /\ (Due(call'[g]) = "save" => Exists(f)')
    BY <2>1 DEF ActiveOn, RequestsInTurn, Exists
  <2> QED
    BY <2>1, <2>2, TurnKept
<1> QED
  BY <1>2, <1>3, <1>4, <1>5, Steps

\* The messages about a folder, when the queue has moved up by k.
LEMMA MessagesKept ==
  ASSUME QueueOK, QueueOK', NEW f \in Folders, MessagesOK(f), tables'[f] = tables[f], NEW k \in Nat,
         \A i \in DOMAIN queue' : queue'[i].folder = f => i + k \in DOMAIN queue /\ queue[i + k] = queue'[i],
         \A j \in DOMAIN queue : queue[j].folder = f =>
           j <= k \/ (j - k \in DOMAIN queue' /\ queue'[j - k].folder = f),
         consumer'.folder = f /\ ~InQueue(f)' => consumer'.name = tables[f].name /\ consumer'.father = CachedFather(tables[f].father)
  PROVE  MessagesOK(f)'
<1>1. DOMAIN queue \subseteq Nat /\ DOMAIN queue' \subseteq Nat
  BY DEF QueueOK
<1>2. ASSUME NEW i \in DOMAIN queue', LastAbout(i, f)' PROVE Fresh(queue[i], f)'
  <2>1. i + k \in DOMAIN queue /\ queue[i + k] = queue'[i]
    BY <1>2 DEF LastAbout
  <2>2. ASSUME NEW j \in DOMAIN queue, queue[j].folder = f PROVE j <= i + k
    <3>1. CASE j <= k
      BY <1>1, <3>1
    <3>2. CASE j - k \in DOMAIN queue' /\ queue'[j - k].folder = f
      <4>1. j - k <= i
        BY <1>2, <3>2 DEF LastAbout
      <4> QED
        BY <1>1, <4>1
    <3> QED
      BY <2>2, <3>1, <3>2
  <2>3. LastAbout(i + k, f)
    BY <1>2, <2>1, <2>2 DEF LastAbout
  <2> QED
    BY <2>1, <2>3 DEF MessagesOK, Fresh
<1>3. consumer'.folder = f /\ ~InQueue(f)' => Fresh(consumer, f)'
  BY DEF Fresh
<1> QED
  BY <1>2, <1>3 DEF MessagesOK

\* Nothing new about the requests on a folder, its row and its fields.
LEMMA FieldsKept ==
  ASSUME NEW f \in Folders, FieldsOK(f), tables'[f] = tables[f], entry'[f] = entry[f],
         ActiveOn(f)' = ActiveOn(f), \A g \in ActiveOn(f) : call'[g] = call[g],
         MessagesOK(f) => MessagesOK(f)', Pending(f)' <=> Pending(f)
  PROVE  FieldsOK(f)'
<1>1. Exists(f)' = Exists(f)
  BY DEF Exists
<1>2. SnapshotsOK(f) => SnapshotsOK(f)'
  BY DEF SnapshotsOK, Fresh, Due
<1>3. Rewrites(f)' <=> Rewrites(f)
  BY DEF Rewrites
<1>4. EntryOK(f) => EntryOK(f)'
  BY DEF EntryOK, Renaming, Due
<1> QED
  BY <1>1, <1>2, <1>3, <1>4 DEF FieldsOK

LEMMA SameMessages ==
  ASSUME QueueOK, NEW f \in Folders, MessagesOK(f), tables'[f] = tables[f], UNCHANGED <<queue, consumer>>
  PROVE  MessagesOK(f)'
BY DEF MessagesOK, Fresh, LastAbout, InQueue

\* A message about another folder is sent.
LEMMA OtherMessage ==
  ASSUME QueueOK, NEW f \in Folders, MessagesOK(f), tables'[f] = tables[f], UNCHANGED consumer,
         NEW m \in Calls, Message(m), m.folder # f, queue' = Append(queue, m)
  PROVE  MessagesOK(f)'
<1>1. /\ QueueOK' /\ Len(queue) \in Nat /\ DOMAIN queue = 1..Len(queue) /\ DOMAIN queue' = 1..(Len(queue) + 1)
      /\ \A i \in 1..Len(queue) : queue'[i] = queue[i]
      /\ queue'[Len(queue) + 1] = m
  BY AppendFacts
<1>2. InQueue(f)' <=> InQueue(f)
  BY SentPending
<1>3. consumer'.folder = f /\ ~InQueue(f)' => consumer'.name = tables[f].name /\ consumer'.father = CachedFather(tables[f].father)
  BY <1>2 DEF MessagesOK, Fresh
<1>4. /\ \A i \in DOMAIN queue' : queue'[i].folder = f => i + 0 \in DOMAIN queue /\ queue[i + 0] = queue'[i]
      /\ \A j \in DOMAIN queue : queue[j].folder = f => j <= 0 \/ (j - 0 \in DOMAIN queue' /\ queue'[j - 0].folder = f)
  BY <1>1
<1> QED
  BY <1>1, <1>3, <1>4, MessagesKept

LEMMA AloneFacts ==
  ASSUME NEW f, RequestsInTurn(f), NEW h \in ActiveOn(f)
  PROVE  /\ ActiveOn(f) = {h} /\ (call[h].reason = "batch" => ~Pending(f))
         /\ Rewrites(f) <=> call[h].reason \in {"create", "modify"}
         /\ Renaming(f) <=> Due(call[h]) \in {"readVersion", "writeVersion", "writeName"}
         /\ SnapshotsOK(f) <=>
              /\ Due(call[h]) \in {"publish", "fill"} => Fresh(call[h], f)
              /\ Due(call[h]) \in {"readVersion", "writeVersion", "writeName"} => tables[f].name = call[h].new
<1>1. ActiveOn(f) = {h} /\ (call[h].reason = "batch" => ~Pending(f))
  BY DEF RequestsInTurn
<1> QED
  BY <1>1 DEF Rewrites, Renaming, SnapshotsOK

LEMMA NoneFacts ==
  ASSUME NEW f, ActiveOn(f) = {}
  PROVE  ~Rewrites(f) /\ ~Renaming(f) /\ SnapshotsOK(f)
BY DEF Rewrites, Renaming, SnapshotsOK

LEMMA NotPendingMessages ==
  ASSUME NEW f, ~Pending(f)
  PROVE  MessagesOK(f)
BY DEF Pending, MessagesOK, LastAbout

\* The same after a step, for the request that is then alone with the folder.
LEMMA AloneAfter ==
  ASSUME NEW f, NEW h, NEW d, ActiveOn(f)' = {h}, call'[h] = d
  PROVE  /\ Rewrites(f)' <=> d.reason \in {"create", "modify"}
         /\ Renaming(f)' <=> Due(d) \in {"readVersion", "writeVersion", "writeName"}
         /\ SnapshotsOK(f)' <=>
              /\ Due(d) \in {"publish", "fill"} => d.name = tables'[f].name /\ d.father = CachedFather(tables'[f].father)
              /\ Due(d) \in {"readVersion", "writeVersion", "writeName"} => tables'[f].name = d.new
BY DEF Rewrites, Renaming, SnapshotsOK, Fresh, Due

LEMMA NoneAfter ==
  ASSUME NEW f, ActiveOn(f)' = {}
  PROVE  ~Rewrites(f)' /\ ~Renaming(f)' /\ SnapshotsOK(f)'
BY DEF Rewrites, Renaming, SnapshotsOK

LEMMA BeginFields ==
  ASSUME TypesOK, LivesOK, EntriesOK, NEW h \in Handlers, NEW k \in Folders,
         NEW reason \in {"create", "modify", "delete", "query", "batch"}, NEW todo \in HandlerLists,
         BeginsOn(h, k, reason, todo), NEW f \in Folders \ (crossed' \cup failed')
  PROVE  FieldsOK(f)'
<1> DEFINE d == New(k, reason, todo)
<1>1. /\ TypesOK' /\ call[h] = Idle /\ Moves(h, d) /\ call'[h] = d
      /\ \A g \in Handlers \ {h} : call'[g] = call[g]
  BY BeginTypes
<1>2. /\ d.folder = k /\ d.reason = reason /\ d \in Calls
      /\ Due(d) \in {"insert", "read", "detach", "drop", "lookup"}
  BY NewFacts DEF BeginsOn, TypesOK
<1>3. /\ UNCHANGED <<tables, entry, queue, consumer>> /\ f \notin crossed
      /\ crossed' = IF ActiveOn(k) # {} \/ (reason = "batch" /\ Pending(k)) THEN crossed \cup {k} ELSE crossed
      /\ failed' = IF reason = "modify" THEN failed \ {k} ELSE failed
  BY DEF BeginsOn, Begin, redis
<1>4. ActiveOn(f)' = ActiveOn(f) \cup (IF k = f THEN {h} ELSE {})
  BY <1>1, <1>2, IdleFacts, ActiveAfter DEF TypesOK
<1>5. \A g \in ActiveOn(f) : g \in Handlers \ {h} /\ call'[g] = call[g]
  BY <1>1, IdleFacts DEF ActiveOn
<1>6. Pending(f)' = Pending(f)
  BY <1>3, PendingKept
<1>7. MessagesOK(f) => MessagesOK(f)'
  BY <1>3, SameMessages DEF TypesOK
<1> HIDE DEF d
<1>8. CASE k # f
  <2>1. FieldsOK(f)
    BY <1>3, <1>8 DEF EntriesOK
  <2>2. ActiveOn(f)' = ActiveOn(f) /\ \A g \in ActiveOn(f) : call'[g] = call[g]
    BY <1>4, <1>5, <1>8
  <2> QED
    BY <1>3, <1>6, <1>7, <2>1, <2>2, FieldsKept
<1>9. CASE k = f
  <2>1. ActiveOn(f) = {} /\ ActiveOn(f)' = {h}
    BY <1>3, <1>4, <1>9
  <2>2. SnapshotsOK(f)' /\ ~Renaming(f)' /\ (Rewrites(f)' <=> reason \in {"create", "modify"})
    <3>1. Due(d) \notin {"publish", "fill", "readVersion", "writeVersion", "writeName"}
      BY <1>2
    <3> QED
      BY <1>1, <1>2, <2>1, <3>1, AloneAfter
  <2>3. CASE reason \in {"create", "modify"}
    BY <2>2, <2>3 DEF FieldsOK
  <2>4. CASE reason \notin {"create", "modify"}
    <3>1. FieldsOK(f)
      BY <1>3, <2>4 DEF EntriesOK
    <3>2. ~Rewrites(f) /\ ~Renaming(f)
      BY <2>1, NoneFacts
    <3>3. Exists(f)' = Exists(f) /\ (EntryOK(f) => EntryOK(f)')
      BY <1>3, <3>2 DEF Exists, EntryOK
    <3> QED
      BY <1>6, <1>7, <2>2, <3>1, <3>2, <3>3 DEF FieldsOK
  <2> QED
    BY <2>3, <2>4
<1> QED
  BY <1>8, <1>9

LEMMA WriteFields ==
  ASSUME TypesOK, LivesOK, EntriesOK, NEW h \in Handlers, Writing(h), NEW f \in Folders \ (crossed' \cup failed')
  PROVE  FieldsOK(f)'
<1> DEFINE c == call[h]  d == Rest(call[h])
<1>1. /\ Moves(h, d) /\ c \in Calls /\ Serving(c) /\ c.folder \in Folders /\ c # Idle
      /\ d \in Calls /\ Serving(d) /\ StaysOn(c, d) /\ h \in ActiveOn(c.folder)
      /\ UNCHANGED <<entry, queue, consumer, crossed, failed>>
      /\ Due(c) \in TableWrites
  BY Written
<1>2. PICK row \in Rows :
        /\ \A k \in Folders : tables'[k] = IF k = c.folder THEN row ELSE tables[k]
        /\ Becomes(c, row)
  BY Written
<1>3. FieldsOK(f) /\ RequestsInTurn(f)
  BY <1>1 DEF EntriesOK
<1>4. /\ Due(c) \notin {"save", "drop"} => c.reason \in {"create", "modify"}
      /\ Due(c) = "save" => c.reason \in {"modify", "batch"}
      /\ \E step \in {"collect", "mount", "attach", "readVersion"} : Leads(c, step)
  BY <1>1, Serves DEF TableWrites
<1>5. d # Idle /\ d.new = c.new
  BY <1>1, <1>4, IdleFacts, Serves DEF Leads, Keeps
<1> HIDE DEF d
<1>6. /\ ActiveOn(f)' = ActiveOn(f)
      /\ \A g \in ActiveOn(f)' : call'[g] = IF g = h THEN d ELSE call[g]
  BY <1>1, <1>5, StillActive DEF TypesOK
<1>7. Pending(f)' = Pending(f)
  BY <1>1, PendingKept
<1>8. CASE f # c.folder
  <2>1. tables'[f] = tables[f] /\ h \notin ActiveOn(f)
    BY <1>2, <1>8 DEF ActiveOn
  <2>2. MessagesOK(f) => MessagesOK(f)'
    BY <1>1, <2>1, SameMessages DEF TypesOK
  <2>3. \A g \in ActiveOn(f) : call'[g] = call[g]
    BY <1>6, <2>1
  <2> QED
    BY <1>1, <1>3, <1>6, <1>7, <2>1, <2>2, <2>3, FieldsKept
<1>9. CASE f = c.folder /\ Due(c) = "drop"
  BY <1>2, <1>9 DEF FieldsOK, Exists, Becomes
<1>10. CASE f = c.folder /\ Due(c) # "drop"
  <2>1. h \in ActiveOn(f) /\ ActiveOn(f) = {h} /\ ActiveOn(f)' = {h} /\ call'[h] = d /\ d.reason = c.reason
    BY <1>1, <1>3, <1>6, <1>10, AloneFacts DEF StaysOn
  <2>2. Due(d) \in {"collect", "mount", "attach", "readVersion"}
    BY <1>4 DEF Leads, Keeps, d
  <2>3. Rewrites(f)' <=> c.reason \in {"create", "modify"}
    BY <2>1 DEF Rewrites
  <2>4. CASE c.reason \in {"create", "modify"}
    <3>1. Due(d) # "readVersion"
      <4>1. ASSUME Due(d) = "readVersion" PROVE FALSE
        <5>1. d \in Calls /\ Serving(d) /\ d.reason \in {"create", "modify"}
          BY <1>1, <2>1, <2>4
        <5> QED
          BY <4>1, <5>1, Serves
      <4> QED
        BY <4>1
    <3>2. SnapshotsOK(f)'
      BY <2>1, <2>2, <3>1, AloneAfter
    <3> QED
      BY <2>3, <2>4, <3>2 DEF FieldsOK
  <2>5. CASE c.reason \notin {"create", "modify"}
    <3>1. c.reason = "batch" /\ Due(c) = "save"
      BY <1>1, <1>4, <1>10, <2>5
    <3>2. Exists(f)
      BY <1>3, <2>1, <3>1 DEF RequestsInTurn
    <3>3. tables'[f] = row
      BY <1>2, <1>10
    <3>4. tables'[f].name = c.new /\ tables'[f].father = tables[f].father
      BY <1>2, <1>10, <3>1, <3>3 DEF Becomes
    <3>5. ~Pending(f) /\ ~Rewrites(f)
      BY <1>3, <2>1, <3>1, AloneFacts
    <3>6. entry[f].father \in {None, CachedFather(tables[f].father)}
      BY <1>3, <3>2, <3>5 DEF FieldsOK, EntryOK
    <3>7. Due(d) = "readVersion"
      <4>1. Leads(c, "readVersion")
        BY <1>1, <3>1, Serves
      <4> QED
        BY <4>1 DEF Leads, Keeps, d
    <3>8. SnapshotsOK(f)' /\ Renaming(f)'
      BY <1>5, <2>1, <3>4, <3>7, AloneAfter
    <3>9. MessagesOK(f)'
      BY <1>1, <3>5 DEF MessagesOK, Pending, LastAbout
    <3>10. EntryOK(f)'
      BY <1>1, <3>4, <3>6, <3>8 DEF EntryOK
    <3> QED
      BY <3>8, <3>9, <3>10 DEF FieldsOK
  <2> QED
    BY <2>4, <2>5
<1> QED
  BY <1>8, <1>9, <1>10

\* A step of a request leaves the fields of other folders alone.
LEMMA QuietElsewhere ==
  ASSUME Open, TypesOK, LivesOK, NEW h \in Handlers, Quiet(h), NEW f \in Folders, f # call[h].folder,
         FieldsOK(f)
  PROVE  FieldsOK(f)'
<1> DEFINE c == call[h]
<1>1. /\ c \in Calls /\ c.folder \in Folders /\ c # Idle /\ UNCHANGED <<tables, consumer>>
  BY QuietMoves
<1>2. PICK d \in Calls : Moves(h, d) /\ (d = Idle \/ StaysOn(c, d))
  BY QuietMoves
<1>3. /\ ActiveOn(f)' \subseteq ActiveOn(f) /\ ActiveOn(f) \subseteq ActiveOn(f)' \cup {h}
      /\ \A g \in ActiveOn(f)' : call'[g] = IF g = h THEN d ELSE call[g]
  BY <1>1, <1>2, StillActive DEF TypesOK
<1>4. h \notin ActiveOn(f)
  BY DEF ActiveOn
<1>5. ActiveOn(f)' = ActiveOn(f) /\ \A g \in ActiveOn(f) : call'[g] = call[g]
  BY <1>3, <1>4
<1>6. entry'[f] = entry[f]
  BY DEF Quiet, Read, Overlook, Refuse, RefuseMount, Lookup, Collect, FillCache, SendMessage,
         ReadVersion, WriteVersion, WriteName, BumpProject, FailingCall, redis, TypesOK, CacheOK
<1>7. (MessagesOK(f) => MessagesOK(f)') /\ (Pending(f)' <=> Pending(f))
  <2>1. CASE UNCHANGED queue
    BY <1>1, <2>1, SameMessages, PendingKept DEF TypesOK
  <2>2. CASE ~UNCHANGED queue
    <3>1. queue' = Append(queue, Sent(c)) /\ c.reason \in Reasons
      BY <2>2, QuietQueue
    <3>2. Sent(c) \in Calls /\ Message(Sent(c)) /\ Sent(c).folder # f
      BY <1>1, <3>1, SentFacts
    <3> QED
      BY <1>1, <3>1, <3>2, OtherMessage, SentPending DEF TypesOK
  <2> QED
    BY <2>1, <2>2
<1> QED
  BY <1>1, <1>5, <1>6, <1>7, FieldsKept

\* The steps of a query, and of the calls that edit a folder, that send nothing and fill nothing.
LEMMA QuietKeeps ==
  ASSUME NEW f \in Folders, NEW h, NEW c, NEW d, FieldsOK(f), RequestsInTurn(f), TypesOK,
         h \in ActiveOn(f), call[h] = c, call'[h] = d, UNCHANGED <<tables, queue, consumer>>,
         entry'[f] = entry[f],
         \/ ActiveOn(f)' = {} /\ c.reason \notin {"create", "modify"}
         \/ ActiveOn(f)' = {h} /\ d.reason = c.reason,
         Due(c) \in {"readVersion", "writeVersion", "writeName"} =>
           ActiveOn(f)' = {h} /\ Due(d) \in {"readVersion", "writeVersion", "writeName"},
         SnapshotsOK(f)'
  PROVE  FieldsOK(f)'
<1>1. Exists(f)' = Exists(f) /\ Pending(f)' = Pending(f) /\ (MessagesOK(f) => MessagesOK(f)')
  BY PendingKept, SameMessages DEF Exists, TypesOK
<1>2. Rewrites(f) <=> c.reason \in {"create", "modify"}
  BY AloneFacts
<1>3. Renaming(f) => Renaming(f)'
  BY AloneFacts, AloneAfter
<1>4. Rewrites(f)' <=> Rewrites(f)
  <2>1. CASE ActiveOn(f)' = {} /\ c.reason \notin {"create", "modify"}
    BY <1>2, <2>1, NoneAfter
  <2>2. CASE ActiveOn(f)' = {h} /\ d.reason = c.reason
    BY <1>2, <2>2 DEF Rewrites
  <2> QED
    BY <2>1, <2>2
<1>5. EntryOK(f) => EntryOK(f)'
  BY <1>3 DEF EntryOK
<1> QED
  BY <1>1, <1>4, <1>5 DEF FieldsOK

LEMMA QuietFields ==
  ASSUME Open, TypesOK, LivesOK, EntriesOK, NEW h \in Handlers, Quiet(h),
         NEW f \in Folders \ (crossed' \cup failed')
  PROVE  FieldsOK(f)'
<1> DEFINE c == call[h]
<1>1. /\ c \in Calls /\ Serving(c) /\ c.folder \in Folders /\ c # Idle /\ h \in ActiveOn(c.folder)
      /\ UNCHANGED <<tables, consumer>>
  BY QuietMoves
<1>2. PICK d \in Calls : /\ Moves(h, d) /\ call'[h] = d
                         /\ d = Idle \/ (StaysOn(c, d) /\ Serving(d))
  BY QuietMoves
<1>3. f \notin crossed /\ f \notin failed /\ (FailingCall(h) \/ RefuseMount(h) => f # c.folder)
  BY <1>1 DEF Quiet, Read, Overlook, Refuse, RefuseMount, Lookup, Collect, FillCache, SendMessage,
              ReadVersion, WriteVersion, WriteName, BumpProject, FailingCall, Fault, history
<1>4. FieldsOK(f) /\ RequestsInTurn(f)
  BY <1>3 DEF EntriesOK
<1>5. CASE f # c.folder
  BY <1>4, <1>5, QuietElsewhere
<1>6. CASE f = c.folder
  <2> SUFFICES ASSUME Exists(f) PROVE FieldsOK(f)'
    BY <1>1 DEF FieldsOK, Exists
  <2>1. h \in ActiveOn(f) /\ ActiveOn(f) = {h} /\ (c.reason = "batch" => ~Pending(f))
    BY <1>1, <1>4, <1>6, AloneFacts
  <2>2. /\ ActiveOn(f)' = IF d = Idle THEN {} ELSE {h}
    <3>1. /\ ActiveOn(f)' \subseteq ActiveOn(f)
          /\ h \in ActiveOn(f)' => d # Idle
          /\ d # Idle => ActiveOn(f)' = ActiveOn(f)
      BY <1>1, <1>2, StillActive DEF TypesOK
    <3> QED
      BY <2>1, <3>1
  <2>3. /\ Due(c) \in {"publish", "fill"} => Fresh(c, f)
        /\ Due(c) \in {"readVersion", "writeVersion", "writeName"} => tables[f].name = c.new
    BY <1>4, <2>1, AloneFacts DEF FieldsOK
  <2>4. Rewrites(f) <=> c.reason \in {"create", "modify"}
    BY <1>4, <2>1, AloneFacts
  <2>5. Exists(f)' /\ Found(h)
    BY <1>1, <1>6 DEF Exists, Found
  <2>6. ~Refuse(h)
    BY <2>5 DEF Refuse
  <2>15. CASE Read(h) \/ Overlook(h)
    <3>1. /\ d = Rest(c) /\ Due(c) \in {"read", "save", "detach", "attach", "mount", "drop"}
          /\ Leads(c, Due(d)) /\ UNCHANGED <<entry, queue>>
      BY <1>2, <2>15, PassTypes DEF Read, Overlook, Continue, Go, At, Due, TypesOK, CallsOK, redis
    <3>2. c.reason = "batch" => Due(c) = "read"
      BY <2>15 DEF Read, Overlook, At, Due
    <3>3. d.reason = c.reason /\ d # Idle /\ Due(d) \in {"save", "collect", "attach"}
      BY <1>1, <3>1, <3>2, Serves, IdleFacts DEF Leads, Keeps
    <3>4. SnapshotsOK(f)'
      BY <1>2, <2>2, <3>3, AloneAfter
    <3> QED
      BY <1>1, <1>2, <1>4, <2>1, <2>2, <3>1, <3>3, <3>4, QuietKeeps
  <2>7. CASE Lookup(h)
    <3>1. Due(c) = "lookup" /\ UNCHANGED <<entry, queue>> /\ (Return(h) \/ Continue(h))
      BY <2>7 DEF Lookup, At, Due, redis
    <3>2. c.reason = "query" /\ Leads(c, "collect")
      BY <1>1, <3>1, Serves
    <3>3. d = Idle \/ (d.reason = c.reason /\ Due(d) = "collect")
      BY <1>2, <3>1, <3>2 DEF Return, Continue, Go, TypesOK, CallsOK, Leads, Keeps
    <3>4. SnapshotsOK(f)'
      BY <1>2, <2>2, <3>3, AloneAfter, NoneAfter
    <3> QED
      BY <1>1, <1>2, <1>4, <2>1, <2>2, <3>1, <3>2, <3>3, <3>4, QuietKeeps
  <2>8. CASE Collect(h)
    <3>1. Due(c) = "collect" /\ UNCHANGED <<entry, queue>>
      BY <2>8 DEF Collect, At, Due, redis
    <3>2. d = Rest([c EXCEPT !.name = Row(h).name, !.father = CachedFather(Row(h).father)])
      BY <1>2, <2>5, <2>8 DEF Collect, Go, TypesOK, CallsOK
    <3>3. /\ d.father = CachedFather(Row(h).father) /\ d.name = Row(h).name /\ d.reason = c.reason /\ d # Idle
          /\ Due(d) \in {"fill", "publish"}
      BY <2>5, <2>8, <3>2, SeenFacts, IdleFacts DEF Collect, Seen
    <3>4. Row(h) = tables'[f]
      BY <1>1, <1>6 DEF Row
    <3>5. SnapshotsOK(f)'
      BY <1>2, <2>2, <3>3, <3>4, AloneAfter
    <3> QED
      BY <1>1, <1>2, <1>4, <2>1, <2>2, <3>1, <3>3, <3>5, QuietKeeps
  <2>9. CASE FillCache(h)
    <3>1. Due(c) = "fill" /\ UNCHANGED queue /\ d = Rest(c)
          /\ entry' = [entry EXCEPT ![f] = [name |-> c.name, father |-> c.father]]
      BY <1>2, <1>6, <2>9 DEF FillCache, At, Due, Continue, Go, TypesOK, CallsOK
    <3>2. c.reason = "query" /\ d.reason = "query" /\ Due(d) = "collect" /\ d # Idle
      BY <1>1, <3>1, Serves, IdleFacts DEF Leads, Keeps
    <3>3. SnapshotsOK(f)' /\ ~Rewrites(f)'
      BY <1>2, <2>2, <3>2, AloneAfter
    <3>4. entry'[f].name = tables'[f].name /\ entry'[f].father = CachedFather(tables'[f].father)
      BY <1>1, <2>3, <3>1 DEF TypesOK, CacheOK, Fresh
    <3>5. EntryOK(f)'
      BY <3>4 DEF EntryOK
    <3>6. MessagesOK(f)'
      BY <1>1, <1>4, <2>4, <3>1, <3>2, SameMessages DEF FieldsOK, TypesOK
    <3> QED
      BY <3>3, <3>5, <3>6 DEF FieldsOK
  <2>10. CASE SendMessage(h)
    <3> DEFINE m == Sent(c)
    <3>1. /\ queue' = Append(queue, m) /\ c.reason \in Reasons /\ Due(c) = "publish"
          /\ d = Idle
      BY <1>2, <2>10, SendTypes DEF Moves, TypesOK, CallsOK
    <3>2. /\ m \in Calls /\ Message(m) /\ m.folder = f /\ m.name = c.name /\ m.father = c.father
      BY <1>1, <1>6, <3>1, SentFacts
    <3>3. /\ Len(queue) \in Nat /\ DOMAIN queue' = 1..(Len(queue) + 1)
          /\ queue'[Len(queue) + 1] = m
      BY <3>1, <3>2, AppendFacts DEF TypesOK
    <3>4. m.name = tables'[f].name /\ m.father = CachedFather(tables'[f].father)
      BY <1>1, <2>3, <3>1, <3>2 DEF Fresh
    <3> HIDE DEF m
    <3>5. InQueue(f)' /\ Pending(f)'
      BY <3>2, <3>3 DEF InQueue, Pending
    <3>6. ASSUME NEW i \in DOMAIN queue', LastAbout(i, f)' PROVE Fresh(queue[i], f)'
      <4>1. i = Len(queue) + 1
        BY <3>2, <3>3, <3>6 DEF LastAbout
      <4> QED
        BY <3>3, <3>4, <4>1 DEF Fresh
    <3>7. MessagesOK(f)'
      BY <3>5, <3>6 DEF MessagesOK
    <3>8. SnapshotsOK(f)'
      BY <2>2, <3>1, NoneAfter
    <3> QED
      BY <3>5, <3>7, <3>8 DEF FieldsOK
  <2>11. CASE ReadVersion(h)
    <3> DEFINE e == [c EXCEPT !.version = version[c.folder]]
    <3>1. e \in Calls /\ e.folder = c.folder /\ e.reason = c.reason /\ e.todo = c.todo /\ e.new = c.new
      BY <1>1 DEF Calls, TypesOK, CacheOK
    <3>2. Serving(e) /\ Due(e) = "readVersion" /\ Due(c) = "readVersion"
      BY <1>1, <2>11, <3>1 DEF Serving, Doing, Due, ReadVersion, At
    <3>3. d = Rest(e) /\ UNCHANGED <<entry, queue>>
      BY <1>2, <2>11 DEF ReadVersion, Go, TypesOK, CallsOK, redis
    <3> HIDE DEF e
    <3>4. Due(d) = "writeVersion" /\ d.new = c.new /\ d # Idle /\ d.reason = c.reason
      BY <3>1, <3>2, <3>3, Serves, IdleFacts DEF Leads, Keeps
    <3>5. SnapshotsOK(f)'
      BY <1>1, <1>2, <2>2, <2>3, <3>2, <3>4, AloneAfter
    <3> QED
      BY <1>1, <1>2, <1>4, <2>1, <2>2, <3>3, <3>4, <3>5, QuietKeeps
  <2>12. CASE WriteVersion(h)
    <3>1. d = Rest(c) /\ UNCHANGED <<entry, queue>> /\ Due(c) = "writeVersion"
      BY <1>2, <2>12 DEF WriteVersion, Continue, Go, TypesOK, CallsOK, At, Due
    <3>2. Due(d) = "writeName" /\ d.new = c.new /\ d # Idle /\ d.reason = c.reason
      BY <1>1, <3>1, Serves, IdleFacts DEF Leads, Keeps
    <3>3. SnapshotsOK(f)'
      BY <1>1, <1>2, <2>2, <2>3, <3>1, <3>2, AloneAfter
    <3> QED
      BY <1>1, <1>2, <1>4, <2>1, <2>2, <3>1, <3>2, <3>3, QuietKeeps
  <2>13. CASE WriteName(h)
    <3>1. /\ d = Rest(c) /\ UNCHANGED queue /\ Due(c) = "writeName"
          /\ entry' = [entry EXCEPT ![f].name = c.new]
      BY <1>2, <1>6, <2>13 DEF WriteName, Continue, Go, TypesOK, CallsOK, At, Due
    <3>2. Due(d) = "bumpProject" /\ d # Idle /\ c.reason = "batch"
      BY <1>1, <3>1, Serves, IdleFacts DEF Leads, Keeps
    <3>3. SnapshotsOK(f)'
      BY <1>2, <2>2, <3>2, AloneAfter
    <3>4. EntryOK(f)
      BY <1>4, <2>1, <2>4, <3>2 DEF FieldsOK
    <3>5. entry'[f].name = tables[f].name /\ entry'[f].father = entry[f].father
      BY <2>3, <3>1 DEF TypesOK, CacheOK
    <3>6. EntryOK(f)'
      BY <1>1, <3>4, <3>5 DEF EntryOK
    <3>7. MessagesOK(f)'
      BY <1>1, <2>1, <3>1, <3>2, NotPendingMessages, SameMessages DEF TypesOK
    <3> QED
      BY <3>3, <3>6, <3>7 DEF FieldsOK
  <2>14. CASE BumpProject(h)
    <3>1. d = Rest(c) /\ UNCHANGED <<entry, queue>> /\ Due(c) = "bumpProject"
      BY <1>2, <2>14 DEF BumpProject, Continue, Go, TypesOK, CallsOK, At, Due
    <3>2. d = Idle /\ c.reason = "batch"
      BY <1>1, <3>1, Serves
    <3>3. SnapshotsOK(f)'
      BY <2>2, <3>2, NoneAfter
    <3> QED
      BY <1>1, <1>2, <1>4, <2>1, <2>2, <3>1, <3>2, <3>3, QuietKeeps
  <2> QED
    BY <1>3, <1>6, <2>6, <2>7, <2>8, <2>9, <2>10, <2>11, <2>12, <2>13, <2>14, <2>15 DEF Quiet
<1> QED
  BY <1>5, <1>6

LEMMA ConsumeFields ==
  ASSUME TypesOK, Consume, NEW f \in Folders, FieldsOK(f)
  PROVE  FieldsOK(f)'
<1> DEFINE m == Head(queue)
<1>1. /\ TypesOK' /\ queue # <<>> /\ queue' = Tail(queue) /\ consumer = Idle
      /\ IF m.reason = "chat" THEN m.folder = None /\ consumer' = Idle
         ELSE m.folder \in Folders /\ Takes(m, consumer')
  BY ConsumeTypes
<1>2. /\ Len(queue) \in Nat \ {0} /\ DOMAIN queue = 1..Len(queue) /\ DOMAIN queue' = 1..(Len(queue) - 1)
      /\ \A i \in 1..(Len(queue) - 1) : queue'[i] = queue[i + 1]
      /\ m = queue[1]
  BY <1>1, TailFacts DEF TypesOK
<1>3. UNCHANGED <<tables, call, entry>>
  BY DEF Consume, redis
<1> HIDE DEF m
<1>4. MessagesOK(f) => MessagesOK(f)'
  <2> SUFFICES ASSUME MessagesOK(f) PROVE MessagesOK(f)'
    OBVIOUS
  <2>1. \A i \in DOMAIN queue' : queue'[i].folder = f => i + 1 \in DOMAIN queue /\ queue[i + 1] = queue'[i]
    BY <1>2
  <2>2. \A j \in DOMAIN queue : queue[j].folder = f =>
          j <= 1 \/ (j - 1 \in DOMAIN queue' /\ queue'[j - 1].folder = f)
    BY <1>2
  <2>3. ASSUME consumer'.folder = f, ~InQueue(f)'
        PROVE  consumer'.name = tables[f].name /\ consumer'.father = CachedFather(tables[f].father)
    <3>1. m.folder = f /\ consumer'.name = m.name /\ consumer'.father = m.father
      BY <1>1, <2>3, IdleFacts DEF Takes
    <3>2. ASSUME NEW j \in DOMAIN queue, queue[j].folder = f PROVE j <= 1
      BY <1>2, <2>2, <2>3, <3>2 DEF InQueue
    <3>3. LastAbout(1, f) /\ 1 \in DOMAIN queue
      BY <1>2, <3>1, <3>2 DEF LastAbout
    <3> QED
      BY <1>2, <3>1, <3>3 DEF MessagesOK, Fresh
  <2>4. tables'[f] = tables[f]
    BY <1>3
  <2> QED
    BY <1>1, <2>1, <2>2, <2>3, <2>4, MessagesKept DEF TypesOK
<1>5. Pending(f)' <=> Pending(f)
  BY TakenPending
<1>6. ActiveOn(f)' = ActiveOn(f) /\ \A g \in ActiveOn(f) : call'[g] = call[g]
  BY <1>3 DEF ActiveOn
<1> QED
  BY <1>3, <1>4, <1>5, <1>6, FieldsKept

LEMMA HandleFields ==
  ASSUME TypesOK, HandlingStep, NEW f \in Folders, FieldsOK(f)
  PROVE  FieldsOK(f)'
<1>1. UNCHANGED <<tables, queue, call>> /\ consumer.folder \in Folders
  BY HandlingMoves
<1>2. ActiveOn(f)' = ActiveOn(f) /\ \A g \in ActiveOn(f) : call'[g] = call[g]
  BY <1>1 DEF ActiveOn
<1>3. InQueue(f)' = InQueue(f) /\ tables'[f] = tables[f]
  BY <1>1 DEF InQueue
<1>4. MessagesOK(f) => MessagesOK(f)'
  <2> SUFFICES ASSUME MessagesOK(f) PROVE MessagesOK(f)'
    OBVIOUS
  <2>1. \A i \in DOMAIN queue' : LastAbout(i, f)' => Fresh(queue[i], f)'
    BY <1>1 DEF MessagesOK, LastAbout, Fresh
  <2>2. consumer'.folder = f =>
          consumer.folder = f /\ consumer'.name = consumer.name /\ consumer'.father = consumer.father
    BY HandlingMoves, IdleFacts
  <2>3. consumer'.folder = f /\ ~InQueue(f)' => Fresh(consumer, f)'
    BY <1>1, <1>3, <2>2 DEF MessagesOK, Fresh
  <2> QED
    BY <2>1, <2>3 DEF MessagesOK
<1>5. CASE consumer.folder = f /\ Due(consumer) = "writeEntry"
  <2> SUFFICES ASSUME Exists(f) PROVE FieldsOK(f)'
    BY <1>1 DEF FieldsOK, Exists
  <2>1. /\ entry' = [entry EXCEPT ![f] = [name |-> consumer.name, father |-> consumer.father]]
        /\ consumer' = Idle
    BY <1>5, HandlingMoves
  <2>2. SnapshotsOK(f)' /\ (Rewrites(f) => Rewrites(f)')
    BY <1>1, <1>2 DEF FieldsOK, SnapshotsOK, Rewrites, Fresh, Due
  <2>3. CASE Rewrites(f)
    BY <2>2, <2>3 DEF FieldsOK
  <2>4. CASE ~Rewrites(f) /\ InQueue(f)
    <3>1. Pending(f)'
      BY <1>3, <2>4 DEF Pending, InQueue
    <3> QED
      BY <1>4, <2>2, <2>4, <3>1 DEF FieldsOK
  <2>5. CASE ~Rewrites(f) /\ ~InQueue(f)
    <3>1. MessagesOK(f) /\ Fresh(consumer, f)
      BY <1>5, <2>5 DEF FieldsOK, MessagesOK
    <3>2. entry'[f].name = tables'[f].name /\ entry'[f].father = CachedFather(tables'[f].father)
      BY <1>1, <2>1, <3>1 DEF Fresh, TypesOK, CacheOK
    <3>3. EntryOK(f)'
      BY <3>2 DEF EntryOK
    <3> QED
      BY <1>4, <2>2, <3>1, <3>3 DEF FieldsOK
  <2> QED
    BY <2>3, <2>4, <2>5
<1>7. CASE consumer.folder = f /\ Due(consumer) = "deleteEntry"
  <2> SUFFICES ASSUME Exists(f) PROVE FieldsOK(f)'
    BY <1>1 DEF FieldsOK, Exists
  <2>1. entry' = [entry EXCEPT ![f] = NoEntry]
    BY <1>7, HandlingMoves
  <2>2. SnapshotsOK(f)' /\ (Rewrites(f) => Rewrites(f)')
    BY <1>1, <1>2 DEF FieldsOK, SnapshotsOK, Rewrites, Fresh, Due
  <2>3. EntryOK(f)'
    BY <2>1 DEF EntryOK, NoEntry, TypesOK, CacheOK
  <2> QED
    BY <1>4, <2>2, <2>3 DEF FieldsOK
<1>6. CASE ~(consumer.folder = f /\ Due(consumer) \in {"writeEntry", "deleteEntry"})
  <2>1. entry'[f] = entry[f]
    BY <1>6, HandlingMoves DEF TypesOK, CacheOK
  <2>2. consumer'.folder = f <=> consumer.folder = f
    BY <1>6, HandlingMoves, IdleFacts
  <2>3. Pending(f)' <=> Pending(f)
    BY <1>3, <2>2 DEF Pending, InQueue
  <2> QED
    BY <1>2, <1>3, <1>4, <2>1, <2>3, FieldsKept
<1> QED
  BY <1>5, <1>6, <1>7

LEMMA ElseFields ==
  ASSUME Open, TypesOK, EntriesOK, Else, NEW f \in Folders \ (crossed' \cup failed')
  PROVE  FieldsOK(f)'
<1>1. f \notin crossed /\ f \notin failed
  BY DEF Else, ConsumerStep, Consume, IncrementProjectVersion, AddVirtualFolderToProject,
         ReadFolderVersion, WriteFolderVersion, UpdateVirtualFolderCache,
              RemoveVirtualFolderFromProject, DeleteVirtualFolderCache, FailingConsumer, Fetch,
         ExpireEntry, CheckProjectVersion, PublishChat, Restart, Fault, history
<1>2. FieldsOK(f)
  BY <1>1 DEF EntriesOK
<1>3. CASE Consume
  BY <1>2, <1>3, ConsumeFields
<1>4. CASE HandlingStep
  BY <1>2, <1>4, HandleFields
<1>5. ASSUME UNCHANGED <<tables, call, entry>>,
             MessagesOK(f) => MessagesOK(f)', Pending(f)' <=> Pending(f)
      PROVE  FieldsOK(f)'
  <2>1. ActiveOn(f)' = ActiveOn(f) /\ \A g \in ActiveOn(f) : call'[g] = call[g]
    BY <1>5 DEF ActiveOn
  <2> QED
    BY <1>2, <1>5, <2>1, FieldsKept
<1>6. CASE CheckProjectVersion \/ \E k \in Folders : Fetch(k)
  <2>1. UNCHANGED <<tables, call, entry>> /\ UNCHANGED <<queue, consumer>>
    BY <1>6 DEF Fetch, CheckProjectVersion, redis
  <2> QED
    BY <1>5, <2>1, SameMessages, PendingKept DEF TypesOK
<1>7. ASSUME NEW k \in Folders, ExpireEntry(k) PROVE FieldsOK(f)'
  <2>1. /\ UNCHANGED <<tables, call, queue, consumer>> /\ entry' = [entry EXCEPT ![k] = NoEntry]
    BY <1>7 DEF ExpireEntry
  <2>2. ActiveOn(f)' = ActiveOn(f) /\ \A g \in ActiveOn(f) : call'[g] = call[g]
    BY <2>1 DEF ActiveOn
  <2>3. (MessagesOK(f) => MessagesOK(f)') /\ (Pending(f)' <=> Pending(f)) /\ tables'[f] = tables[f]
    BY <2>1, SameMessages, PendingKept DEF TypesOK
  <2>4. CASE k # f
    <3>1. entry'[f] = entry[f]
      BY <2>1, <2>4 DEF TypesOK, CacheOK
    <3> QED
      BY <1>2, <2>2, <2>3, <3>1, FieldsKept
  <2>5. CASE k = f
    <3>1. entry'[f] = NoEntry
      BY <2>1, <2>5 DEF TypesOK, CacheOK
    <3>2. EntryOK(f)'
      BY <3>1 DEF EntryOK, NoEntry
    <3>3. (SnapshotsOK(f) => SnapshotsOK(f)') /\ (Rewrites(f) => Rewrites(f)')
      BY <2>1, <2>2 DEF SnapshotsOK, Rewrites, Fresh, Due
    <3>4. Exists(f)' => Exists(f)
      BY <2>1 DEF Exists
    <3> QED
      BY <1>2, <2>3, <3>2, <3>3, <3>4 DEF FieldsOK
  <2> QED
    BY <2>4, <2>5
<1>8. CASE PublishChat
  <2>1. PICK m \in Calls : Message(m) /\ m.folder = None /\ queue' = Append(queue, m)
    BY <1>8, ChatMessage
  <2>2. UNCHANGED <<tables, call, entry>> /\ UNCHANGED consumer
    BY <1>8 DEF PublishChat, redis
  <2>3. (MessagesOK(f) => MessagesOK(f)') /\ (Pending(f)' <=> Pending(f))
    BY <2>1, <2>2, OtherMessage, SentPending DEF TypesOK
  <2> QED
    BY <1>5, <2>2, <2>3
<1>9. CASE FailingConsumer
  <2>1. UNCHANGED <<tables, call, entry>> /\ UNCHANGED queue /\ consumer' = Idle
        /\ failed' = failed \cup ({consumer.folder} \ {None})
    BY <1>9 DEF FailingConsumer, Fault, redis
  <2>2. consumer.folder # f /\ consumer'.folder # f
    BY <2>1, IdleFacts
  <2>3. Pending(f)' <=> Pending(f)
    BY <2>1, <2>2 DEF Pending
  <2>4. MessagesOK(f) => MessagesOK(f)'
    BY <2>1, <2>2 DEF MessagesOK, LastAbout, Fresh
  <2> QED
    BY <1>5, <2>1, <2>3, <2>4
<1>10. CASE Restart
  <2>1. /\ UNCHANGED <<tables, entry>> /\ ActiveOn(f) = {} /\ ~Pending(f)
        /\ ActiveOn(f)' = {} /\ ~Pending(f)'
    BY <1>10, RestartFacts DEF Restart, redis
  <2>2. MessagesOK(f)'
    BY <2>1 DEF MessagesOK, Pending, LastAbout
  <2>3. tables'[f] = tables[f] /\ entry'[f] = entry[f] /\ \A g \in ActiveOn(f) : call'[g] = call[g]
    BY <2>1
  <2> QED
    BY <1>2, <2>1, <2>2, <2>3, FieldsKept
<1> QED
  BY <1>3, <1>4, <1>6, <1>7, <1>8, <1>9, <1>10 DEF Else, ConsumerStep, HandlingStep

LEMMA NextEntries ==
  ASSUME Open, TypesOK, LivesOK, EntriesOK, Next
  PROVE  EntriesOK'
<1>1. ASSUME NEW f \in Folders \ crossed' PROVE RequestsInTurn(f)'
  <2>1. RequestsInTurn(f)
    BY NextRaced DEF EntriesOK
  <2> QED
    BY <2>1, NextTurns
<1>2. ASSUME NEW f \in Folders \ (crossed' \cup failed') PROVE FieldsOK(f)'
  <2>1. ASSUME NEW h \in Handlers, Beginning(h) PROVE FieldsOK(f)'
    BY <2>1, Beginnings, BeginFields
  <2> QED
    BY <2>1, Steps, WriteFields, QuietFields, ElseFields
<1> QED
  BY <1>1, <1>2 DEF EntriesOK

-----------------------------------------------------------------------------
(* The theorems.  While the channel is closed nothing is at rest; while it *)
(* is open, what the invariant says of calls and messages at rest is said  *)
(* of the cache.                                                           *)

IInv == TypesOK /\ LivesOK /\ EditsOwed /\ VersionsOK /\ CopiesOK /\ EntriesOK

LEMMA InitIInv ==
  ASSUME Init
  PROVE  IInv
<1>1. /\ \A f \in Folders : ActiveOn(f) = {} /\ ~Pending(f) /\ ~InQueue(f)
      /\ queue = <<>> /\ DOMAIN queue = {} /\ consumer = Idle /\ call = [h \in Handlers |-> Idle]
  BY IdleFacts DEF Init, ActiveOn, Pending, InQueue
<1>2. \A f \in Folders : /\ tables[f] \in {None, FirstRow}
                         /\ version[f] = IF tables[f] = None THEN None ELSE 0
  BY DEF Init
<1>3. FirstRow \in Rows
  BY FatherFacts DEF FirstRow, Rows
<1>4. TypesOK
  <2>1. tables \in Tables
    <3>1. {None, FirstRow} \subseteq Rows \cup {None}
      BY <1>3
    <3>2. tables \in [Folders -> {None, FirstRow}]
      BY DEF Init
    <3> QED
      BY <3>1, <3>2 DEF Tables
  <2>2. CacheOK
    <3>1. NoEntry \in [name : Versions, father : Fathers]
      BY DEF NoEntry, Versions, Fathers
    <3> QED
      BY <3>1 DEF Init, CacheOK, Versions
  <2>3. CallsOK /\ ConsumerOK /\ QueueOK
    BY <1>1, IdleFacts, EmptySeq DEF CallsOK, ConsumerOK, QueueOK
  <2>4. ClientOK
    BY <2>1, <2>2 DEF Init, ClientOK, CacheOK
  <2> QED
    BY <2>1, <2>2, <2>3, <2>4 DEF Init, TypesOK
<1>5. LivesOK
  BY <1>1 DEF LivesOK
<1>6. EditsOwed
  <2>1. OwingCalls = {} /\ OwingMessages = {} /\ ConsumerOwes = 0
    BY <1>1, IdleFacts DEF OwingCalls, OwingMessages, ConsumerOwes
  <2>2. edits = 0 /\ projectVersion = 0
    BY DEF Init
  <2> QED
    BY <2>1, <2>2, FS_EmptySet DEF EditsOwed
<1>7. VersionsOK
  <2>1. ASSUME NEW f \in Folders PROVE VersionOK(f)
    <3>1. CreateIsAlone(f) /\ BatchIsAlone(f) /\ VersionIsRead(f) /\ NoDeletion(f)
      BY <1>1, IdleFacts DEF CreateIsAlone, BatchIsAlone, VersionIsRead, NoDeletion
    <3>2. client.version[f] = version[f] /\ client.asked[f] = version[f]
      BY DEF Init
    <3>3. version[f] \in Versions
      BY <1>2 DEF Versions
    <3>4. Rank(version[f]) \in Nat
      BY <3>3, RankFacts
    <3> QED
      BY <3>1, <3>2, <3>4 DEF VersionOK, ClientIsBehind
  <2> QED
    BY <1>2, <2>1 DEF VersionsOK
<1>8. CopiesOK
  BY DEF Init, CopiesOK, CopyOK
<1>9. EntriesOK
  <2>1. ASSUME NEW f \in Folders PROVE RequestsInTurn(f) /\ FieldsOK(f)
    <3>1. RequestsInTurn(f) /\ SnapshotsOK(f) /\ MessagesOK(f)
      BY <1>1, NoneFacts, NotPendingMessages DEF RequestsInTurn
    <3>2. EntryOK(f)
      BY DEF Init, EntryOK, NoEntry
    <3> QED
      BY <3>1, <3>2 DEF FieldsOK
  <2> QED
    BY <2>1 DEF EntriesOK
<1> QED
  BY <1>4, <1>5, <1>6, <1>7, <1>8, <1>9 DEF IInv

LEMMA StutterIInv ==
  ASSUME IInv, UNCHANGED vars
  PROVE  IInv'
<1>1. /\ UNCHANGED <<tables, entry, version, projectVersion, queue, consumer, call, client, calls, faults,
                     edits, crossed, raced, failed>>
  BY DEF vars, redis, history
<1>2. TypesOK'
  BY <1>1 DEF IInv, TypesOK, CacheOK, CallsOK, ConsumerOK, QueueOK, ClientOK
<1>3. LivesOK'
  BY <1>1 DEF IInv, LivesOK, Follows, Due, ActiveOn, Pending
<1>4. EditsOwed'
  BY <1>1 DEF IInv, EditsOwed, OwingCalls, OwingMessages, ConsumerOwes, Due, Owes, Edited
<1>5. VersionsOK'
  BY <1>1 DEF IInv, VersionsOK, VersionOK, CreateIsAlone, BatchIsAlone, VersionIsRead, NoDeletion,
              ClientIsBehind, ActiveOn, Pending, InQueue, Due
<1>6. CopiesOK'
  BY <1>1 DEF IInv, CopiesOK, CopyOK, Exists, WillMove, Changes, ActiveOn, Due
<1>7. EntriesOK'
  <2>1. \A f \in Folders : ActiveOn(f)' = ActiveOn(f) /\ Pending(f)' = Pending(f)
    BY <1>1 DEF ActiveOn, Pending
  <2>2. \A f \in Folders \ crossed : RequestsInTurn(f)'
    BY <1>1, <2>1 DEF IInv, EntriesOK, RequestsInTurn, Exists, Due
  <2>3. ASSUME NEW f \in Folders \ (crossed \cup failed) PROVE FieldsOK(f)'
    <3>1. FieldsOK(f)
      BY DEF IInv, EntriesOK
    <3>2. MessagesOK(f) => MessagesOK(f)'
      BY <1>1, SameMessages DEF IInv, TypesOK
    <3> QED
      BY <1>1, <2>1, <3>1, <3>2, FieldsKept
  <2> QED
    BY <1>1, <2>2, <2>3 DEF EntriesOK
<1> QED
  BY <1>2, <1>3, <1>4, <1>5, <1>6, <1>7 DEF IInv

LEMMA StepIInv ==
  ASSUME Open, IInv, [Next]_vars
  PROVE  IInv'
<1>1. CASE Next
  BY <1>1, NextTypes, NextLives, NextEdits, NextVersions, NextCopies, NextEntries DEF IInv
<1>2. CASE UNCHANGED vars
  BY <1>2, StutterIInv
<1> QED
  BY <1>1, <1>2

\* While the channel is open the invariant holds in every state.
THEOREM CacheInvariant == Open => (Spec => []IInv)
<1> SUFFICES ASSUME Open PROVE Spec => []IInv
  OBVIOUS
<1>1. Init => IInv
  BY InitIInv
<1>2. IInv /\ [Next]_vars => IInv'
  BY StepIInv
<1> QED
  BY <1>1, <1>2, PTL DEF Spec

LEMMA RestFacts ==
  ASSUME AtRest
  PROVE  /\ OwingCalls = {} /\ OwingMessages = {} /\ ConsumerOwes = 0
         /\ \A f \in Folders : ~WillMove(f) /\ ~Rewrites(f) /\ ~Pending(f) /\ ~Renaming(f)
<1>1. queue = <<>> /\ consumer = Idle /\ \A h \in Handlers : call[h] = Idle
  BY DEF AtRest
<1>2. OwingCalls = {} /\ OwingMessages = {} /\ ConsumerOwes = 0
  BY <1>1, IdleFacts DEF OwingCalls, OwingMessages, ConsumerOwes
<1>3. \A f \in Folders : ActiveOn(f) = {} /\ ~Pending(f)
  BY <1>1, IdleFacts DEF ActiveOn, Pending
<1> QED
  BY <1>2, <1>3 DEF WillMove, Rewrites, Pending, Renaming

\* Every edit of the tables moves the version of the project once (to_redis.go:93-122): at rest and
\* without failures the two counts agree, for any number of handlers, folders and requests.
THEOREM EditsCounted == Spec => []EditsAreCounted
<1>1. CASE Open
  <2>1. IInv => EditsAreCounted
    <3> SUFFICES ASSUME IInv, AtRest, faults = 0 PROVE projectVersion = edits
      BY DEF EditsAreCounted
    <3>1. edits = projectVersion + Cardinality({}) + Cardinality({}) + 0
      BY RestFacts DEF IInv, EditsOwed
    <3>2. Cardinality({}) = 0 /\ projectVersion \in Nat
      BY FS_EmptySet DEF IInv, TypesOK, CacheOK
    <3> QED
      BY <3>1, <3>2
  <2> QED
    BY <1>1, <2>1, CacheInvariant, PTL
<1>2. CASE ~Open
  <2>1. EditsAreCounted
    BY <1>2 DEF Open, EditsAreCounted, AtRest
  <2> QED
    BY <2>1, PTL
<1> QED
  BY <1>1, <1>2

\* A client that holds a folder in its current version holds what is in the tables, save where two
\* could write the version at a time or a call failed (to_redis.go:156-210).
THEOREM CopyCurrent == Spec => []CopyIsCurrent
<1>1. CASE Open
  <2>1. IInv => CopyIsCurrent
    BY RestFacts DEF IInv, CopiesOK, CopyOK, CopyIsCurrent
  <2> QED
    BY <1>1, <2>1, CacheInvariant, PTL
<1>2. CASE ~Open
  <2>1. CopyIsCurrent
    BY <1>2 DEF Open, CopyIsCurrent, AtRest
  <2> QED
    BY <2>1, PTL
<1> QED
  BY <1>1, <1>2

\* The cached fields of a folder are those in the tables, save where requests for it overlapped or a
\* call failed (to_redis.go:35-90, redis_cache.go:98-183).
THEOREM EntryCurrent == Spec => []EntryIsCurrent
<1>1. CASE Open
  <2>1. IInv => EntryIsCurrent
    <3> SUFFICES ASSUME IInv, AtRest, NEW f \in Folders \ (crossed \cup failed), Exists(f)
                 PROVE  /\ entry[f].name \in {None, tables[f].name}
                        /\ entry[f].father # None =>
                             /\ entry[f].father.id = FatherOf(tables[f].father).id
                             /\ tables[f].father # RootFather => entry[f].father = FatherOf(tables[f].father)
      BY DEF EntryIsCurrent
    <3>1. /\ entry[f].name \in {None, tables[f].name}
          /\ entry[f].father \in {None, CachedFather(tables[f].father)}
      BY RestFacts DEF IInv, EntriesOK, FieldsOK, EntryOK
    <3>2. tables[f].father \in Mounts
      BY DEF IInv, TypesOK, Tables, Exists, Rows
    <3>3. \A mount \in Mounts : /\ CachedFather(mount).id = FatherOf(mount).id
                                /\ mount # RootFather => CachedFather(mount) = FatherOf(mount)
      BY DEF Mounts, CachedFather, FatherOf, RootFather
    <3> QED
      BY <3>1, <3>2, <3>3
  <2> QED
    BY <1>1, <2>1, CacheInvariant, PTL
<1>2. CASE ~Open
  <2>1. EntryIsCurrent
    BY <1>2 DEF Open, EntryIsCurrent, AtRest
  <2> QED
    BY <2>1, PTL
<1> QED
  BY <1>1, <1>2

-----------------------------------------------------------------------------
(* The cache of folders by tag: TagCache.                                  *)

(***************************************************************************)
(* What is left of a request is a suffix of its list, and of the order of  *)
(* the calls in it two facts matter: a write comes right after the cache   *)
(* has been cleared, and the cache is filled from what was read last.      *)
(***************************************************************************)

Suffixes ==
  {<<>>,
   <<"clear", "create">>, <<"create">>,
   <<"getTag", "clear", "save">>, <<"clear", "save">>, <<"save">>,
   <<"getTag", "clear", "delete">>, <<"clear", "delete">>, <<"delete">>,
   <<"getTag", "getFolder", "clear", "relate">>, <<"getFolder", "clear", "relate">>,
   <<"clear", "relate">>, <<"relate">>,
   <<"getTag", "getFolder", "clear", "unrelate">>, <<"getFolder", "clear", "unrelate">>,
   <<"clear", "unrelate">>, <<"unrelate">>,
   <<"getTag", "lookup", "readRelations", "readFolders", "fill">>,
   <<"lookup", "readRelations", "readFolders", "fill">>,
   <<"readRelations", "readFolders", "fill">>, <<"readFolders", "fill">>, <<"fill">>}

\* What Head and Tail make of a list written out.
LEMMA SuffixTails ==
  /\ \A a : Len(<<a>>) = 1
  /\ \A a, b : Head(<<a, b>>) = a /\ Tail(<<a, b>>) = <<b>> /\ Head(<<b>>) = b
  /\ \A a, b, c : Head(<<a, b, c>>) = a /\ Tail(<<a, b, c>>) = <<b, c>>
  /\ \A a, b, c, d : Head(<<a, b, c, d>>) = a /\ Tail(<<a, b, c, d>>) = <<b, c, d>>
  /\ \A a, b, c, d, e :
       Head(<<a, b, c, d, e>>) = a /\ Tail(<<a, b, c, d, e>>) = <<b, c, d, e>>
OBVIOUS

\* A suffix that does not end here goes on with a suffix; it writes only after it cleared, and
\* fills only after it read.
LEMMA SuffixFacts ==
  ASSUME NEW todo \in Suffixes, todo # <<>>, Len(todo) # 1
  PROVE  /\ Tail(todo) \in Suffixes /\ Tail(todo) # <<>>
         /\ Head(Tail(todo)) \in Writes => Head(todo) = "clear"
         /\ Head(Tail(todo)) \in Reads => Head(todo) \in {"readRelations", "readFolders"}
<1> DEFINE goal(t) == /\ Tail(t) \in Suffixes /\ Tail(t) # <<>>
                      /\ Head(Tail(t)) \in Writes => Head(t) = "clear"
                      /\ Head(Tail(t)) \in Reads => Head(t) \in {"readRelations", "readFolders"}
<1>1. goal(<<"clear", "create">>) /\ goal(<<"clear", "save">>) /\ goal(<<"clear", "delete">>)
  BY SuffixTails DEF Suffixes, Writes, Reads
<1>2. goal(<<"clear", "relate">>) /\ goal(<<"clear", "unrelate">>) /\ goal(<<"readFolders", "fill">>)
  BY SuffixTails DEF Suffixes, Writes, Reads
<1>3. goal(<<"getTag", "clear", "save">>) /\ goal(<<"getTag", "clear", "delete">>)
  BY SuffixTails DEF Suffixes, Writes, Reads
<1>4. goal(<<"getFolder", "clear", "relate">>) /\ goal(<<"getFolder", "clear", "unrelate">>)
  BY SuffixTails DEF Suffixes, Writes, Reads
<1>5. goal(<<"getTag", "getFolder", "clear", "relate">>) /\ goal(<<"getTag", "getFolder", "clear", "unrelate">>)
  BY SuffixTails DEF Suffixes, Writes, Reads
<1>6. goal(<<"getTag", "lookup", "readRelations", "readFolders", "fill">>)
  BY SuffixTails DEF Suffixes, Writes, Reads
<1>7. goal(<<"lookup", "readRelations", "readFolders", "fill">>) /\ goal(<<"readRelations", "readFolders", "fill">>)
  BY SuffixTails DEF Suffixes, Writes, Reads
<1>8. goal(todo)
  <2> HIDE DEF goal
  <2> QED
    BY <1>1, <1>2, <1>3, <1>4, <1>5, <1>6, <1>7, SuffixTails DEF Suffixes
<1> QED
  BY <1>8

TagCalls == [tag : Tags \cup {None}, folder : Folders \cup {None}, found : SUBSET Folders,
             raced : BOOLEAN, todo : Suffixes]

TagCallsOK ==
  /\ tagCall \in [Handlers -> TagCalls]
  /\ \A h \in Handlers : tagCall[h].todo # <<>> => Tag(h) \in Tags
  /\ DOMAIN cached = Tags

\* While a tag is about to be written, no entry of it is taken for current, and no reader that
\* has not been told will fill one.
WritersAreSeen ==
  \A g \in Handlers : WritingTag(g) =>
    /\ cached[Tag(g)] # None => Tag(g) \in racedTags
    /\ \A h \in Handlers : ReadingTag(h) /\ Tag(h) = Tag(g) => tagCall[h].raced

\* What a reader that nobody overlapped holds is what the tables say, up to deleted folders.
ReadersAreCurrent ==
  \A h \in Handlers : ReadingTag(h) /\ ~tagCall[h].raced =>
    /\ tagCall[h].found \subseteq Related(Tag(h))
    /\ Related(Tag(h)) \cap liveFolders \subseteq tagCall[h].found

TagInv == TagCallsOK /\ WritersAreSeen /\ ReadersAreCurrent /\ EntriesAreCurrent

-----------------------------------------------------------------------------
(* The steps of a request that read and write nothing of interest.         *)

Tagged(c) == c \in TagCalls /\ (c.todo # <<>> => c.tag \in Tags)
Harmless(c) == Tagged(c) /\ (c.todo # <<>> => Head(c.todo) \notin Writes \cup Reads)

LEMMA IdleIsHarmless == Harmless(NoTagCall)
BY DEF Harmless, Tagged, NoTagCall, TagCalls, Suffixes

\* What is left of a request after one call.
LEMMA TagRestFacts ==
  ASSUME TagCallsOK, NEW h \in Handlers, tagCall[h].todo # <<>>,
         NEW c, c \in TagCalls, c.todo = tagCall[h].todo, c.tag = tagCall[h].tag
  PROVE  /\ Tagged(TagRest(c))
         /\ TagRest(c).todo # <<>> =>
              TagRest(c).tag = c.tag /\ TagRest(c).found = c.found /\ TagRest(c).raced = c.raced
         /\ TagRest(c).todo # <<>> /\ Head(TagRest(c).todo) \in Writes => Head(c.todo) = "clear"
         /\ TagRest(c).todo # <<>> /\ Head(TagRest(c).todo) \in Reads
              => Head(c.todo) \in {"readRelations", "readFolders"}
<1>1. CASE Len(c.todo) = 1
  BY <1>1, IdleIsHarmless DEF TagRest, Harmless, Tagged, NoTagCall
<1>2. CASE Len(c.todo) # 1
  <2>1. TagRest(c) = [c EXCEPT !.todo = Tail(c.todo)]
    BY <1>2 DEF TagRest
  <2>2. c.todo \in Suffixes
    BY DEF TagCalls
  <2>3. Tail(c.todo) \in Suffixes /\ Tail(c.todo) # <<>>
        /\ (Head(Tail(c.todo)) \in Writes => Head(c.todo) = "clear")
        /\ (Head(Tail(c.todo)) \in Reads => Head(c.todo) \in {"readRelations", "readFolders"})
    BY <1>2, <2>2, SuffixFacts
  <2>4. c.tag \in Tags
    BY DEF TagCallsOK, Tag
  <2> QED
    BY <2>1, <2>3, <2>4 DEF Tagged, TagCalls
<1> QED
  BY <1>1, <1>2

LEMMA RestIsHarmless ==
  ASSUME TagCallsOK, NEW h \in Handlers, tagCall[h].todo # <<>>,
         Head(tagCall[h].todo) \notin {"clear", "readRelations", "readFolders"}
  PROVE  Harmless(TagRest(tagCall[h]))
<1>1. tagCall[h] \in TagCalls
  BY DEF TagCallsOK
<1> QED
  BY <1>1, TagRestFacts DEF Harmless

LEMMA QuietInv ==
  ASSUME TagInv, NEW h \in Handlers, NEW c, Harmless(c),
         tagCall' = [tagCall EXCEPT ![h] = c],
         UNCHANGED <<liveFolders, relations, cached, racedTags>>
  PROVE  TagInv'
<1> USE DEF TagInv
<1>1. /\ tagCall' \in [Handlers -> TagCalls] /\ tagCall'[h] = c
      /\ \A g \in Handlers : g # h => tagCall'[g] = tagCall[g]
  BY DEF TagCallsOK, Harmless, Tagged
<1>2. TagCallsOK'
  BY <1>1 DEF TagCallsOK, Harmless, Tagged, Tag
<1>3. \A g \in Handlers : WritingTag(g)' => WritingTag(g) /\ Tag(g)' = Tag(g)
  BY <1>1 DEF WritingTag, Writes, Harmless, Tag
<1>4. \A g \in Handlers : ReadingTag(g)' => ReadingTag(g) /\ tagCall'[g] = tagCall[g]
  BY <1>1 DEF ReadingTag, Reads, Harmless
<1>5. WritersAreSeen'
  BY <1>3, <1>4 DEF WritersAreSeen, Tag
<1>6. ReadersAreCurrent'
  BY <1>4 DEF ReadersAreCurrent, Related, Tag
<1>7. EntriesAreCurrent'
  BY DEF EntriesAreCurrent, Related
<1> QED
  BY <1>2, <1>5, <1>6, <1>7

LEMMA BeginInv ==
  ASSUME TagInv, NEW h \in Handlers, NEW t \in Tags, NEW f \in Folders \cup {None},
         NEW todo \in Suffixes, todo # <<>>, Head(todo) \in {"clear", "getTag"},
         BeginTagCall(h, t, f, todo)
  PROVE  TagInv'
<1> DEFINE c == [NoTagCall EXCEPT !.tag = t, !.folder = f, !.todo = todo]
<1>1. Harmless(c)
  BY DEF Harmless, Tagged, TagCalls, NoTagCall, Writes, Reads
<1>2. tagCall' = [tagCall EXCEPT ![h] = c] /\ UNCHANGED <<liveFolders, relations, cached, racedTags>>
  BY DEF BeginTagCall, tagTables
<1> QED
  BY <1>1, <1>2, QuietInv, Zenon

LEMMA RequestsInv ==
  ASSUME TagInv, NEW h \in Handlers,
         \/ CreateTag(h) \/ UpdateTag(h) \/ DeleteTag(h)
         \/ AddTagToVirtualFolder(h) \/ RemoveTagFromVirtualFolder(h) \/ GetVirtualFoldersByTagID(h)
  PROVE  TagInv'
<1>1. /\ CreateTagCalls \in Suffixes /\ CreateTagCalls # <<>> /\ Head(CreateTagCalls) = "clear"
      /\ UpdateTagCalls \in Suffixes /\ UpdateTagCalls # <<>> /\ Head(UpdateTagCalls) = "getTag"
      /\ DeleteTagCalls \in Suffixes /\ DeleteTagCalls # <<>> /\ Head(DeleteTagCalls) = "getTag"
  BY SuffixTails DEF Suffixes, CreateTagCalls, UpdateTagCalls, DeleteTagCalls
<1>2. /\ AddTagCalls \in Suffixes /\ AddTagCalls # <<>> /\ Head(AddTagCalls) = "getTag"
      /\ RemoveTagCalls \in Suffixes /\ RemoveTagCalls # <<>> /\ Head(RemoveTagCalls) = "getTag"
      /\ GetVirtualFoldersCalls \in Suffixes /\ GetVirtualFoldersCalls # <<>>
      /\ Head(GetVirtualFoldersCalls) = "getTag"
  BY SuffixTails DEF Suffixes, AddTagCalls, RemoveTagCalls, GetVirtualFoldersCalls
<1>3. CASE CreateTag(h)
  BY <1>1, <1>3, BeginInv DEF CreateTag
<1>4. CASE UpdateTag(h)
  BY <1>1, <1>4, BeginInv DEF UpdateTag
<1>5. CASE DeleteTag(h)
  BY <1>1, <1>5, BeginInv DEF DeleteTag
<1>6. CASE AddTagToVirtualFolder(h)
  BY <1>2, <1>6, BeginInv DEF AddTagToVirtualFolder
<1>7. CASE RemoveTagFromVirtualFolder(h)
  BY <1>2, <1>7, BeginInv DEF RemoveTagFromVirtualFolder
<1>8. CASE GetVirtualFoldersByTagID(h)
  BY <1>2, <1>8, BeginInv DEF GetVirtualFoldersByTagID
<1> QED
  BY <1>3, <1>4, <1>5, <1>6, <1>7, <1>8

\* A call that goes on or ends the request and changes no relation, folder or entry.
LEMMA QuietCallsInv ==
  ASSUME TagInv, NEW h \in Handlers,
         \/ GetTagByID(h) \/ GetVirtualFolderByID(h) \/ GetVirtualFolderFromCache(h)
         \/ InsertTag(h) \/ SaveTag(h) \/ DropTag(h) \/ FailingTagCall(h)
  PROVE  TagInv'
<1>1. tagCall[h].todo # <<>>
  BY DEF GetTagByID, GetVirtualFolderByID, GetVirtualFolderFromCache, InsertTag, SaveTag,
     DropTag, FailingTagCall, TagAt
<1>2. UNCHANGED <<liveFolders, relations, cached, racedTags>>
  BY DEF GetTagByID, GetVirtualFolderByID, GetVirtualFolderFromCache, InsertTag, SaveTag,
     DropTag, FailingTagCall, tagTables
<1>3. \/ tagCall' = [tagCall EXCEPT ![h] = NoTagCall]
      \/ /\ Head(tagCall[h].todo) \notin {"clear", "readRelations", "readFolders"}
         /\ tagCall' = [tagCall EXCEPT ![h] = TagRest(tagCall[h])]
  BY DEF GetTagByID, GetVirtualFolderByID, GetVirtualFolderFromCache, InsertTag, SaveTag,
     DropTag, FailingTagCall,
         TagAt, TagContinueIf, TagContinue, TagGo, TagReturn
<1>4. CASE tagCall' = [tagCall EXCEPT ![h] = NoTagCall]
  BY <1>2, <1>4, IdleIsHarmless, QuietInv, Zenon
<1>5. CASE /\ Head(tagCall[h].todo) \notin {"clear", "readRelations", "readFolders"}
           /\ tagCall' = [tagCall EXCEPT ![h] = TagRest(tagCall[h])]
  <2>1. Harmless(TagRest(tagCall[h]))
    BY <1>1, <1>5, RestIsHarmless DEF TagInv
  <2> QED
    BY <1>2, <1>5, <2>1, QuietInv, Zenon
<1> QED
  BY <1>3, <1>4, <1>5

-----------------------------------------------------------------------------
(* The calls that the cache depends on.                                    *)

\* The writer that clears the cache tells the readers of its tag; what it is about to write
\* makes no entry stale, for none is left.
LEMMA ClearCacheInv ==
  ASSUME TagInv, NEW h \in Handlers, ClearCache(h)
  PROVE  TagInv'
<1> USE DEF TagInv
<1>1. /\ tagCall[h].todo # <<>> /\ Head(tagCall[h].todo) = "clear" /\ tagCall[h] \in TagCalls
      /\ cached' = [t \in Tags |-> None] /\ racedTags' = {} /\ UNCHANGED <<liveFolders, relations>>
  BY DEF ClearCache, TagAt, TagCallsOK, tagTables
<1>2. tagCall'[h] = TagRest(tagCall[h])
  BY DEF ClearCache
<1>3. Tagged(TagRest(tagCall[h]))
      /\ (TagRest(tagCall[h]).todo # <<>> =>
            Head(TagRest(tagCall[h]).todo) \notin Reads /\ TagRest(tagCall[h]).tag = Tag(h))
  BY <1>1, TagRestFacts DEF Reads, Tag
<1>4. ASSUME NEW g \in Handlers, g # h
      PROVE  /\ tagCall'[g] \in TagCalls /\ tagCall'[g].todo = tagCall[g].todo /\ tagCall'[g].tag = tagCall[g].tag
             /\ tagCall'[g].found = tagCall[g].found
             /\ tagCall'[g].raced = (tagCall[g].raced \/ (ReadingTag(g) /\ Tag(g) = Tag(h)))
  <2>1. tagCall'[g] = [tagCall[g] EXCEPT !.raced = @ \/ (ReadingTag(g) /\ Tag(g) = Tag(h))]
    BY <1>4 DEF ClearCache
  <2>2. tagCall[g] \in TagCalls
    BY DEF TagCallsOK
  <2> QED
    BY <2>1, <2>2 DEF TagCalls
<1>5. TagCallsOK'
  <2>1. DOMAIN tagCall' = Handlers /\ tagCall' = [g \in Handlers |-> tagCall'[g]] /\ DOMAIN cached' = Tags
    BY <1>1 DEF ClearCache
  <2>2. \A g \in Handlers : Tagged(tagCall'[g])
    BY <1>2, <1>3, <1>4 DEF Tagged, TagCallsOK, Tag
  <2> QED
    BY <2>1, <2>2 DEF Tagged, TagCallsOK, Tag
<1>6. \A g \in Handlers : ReadingTag(g)' => ReadingTag(g) /\ g # h /\ Tag(g)' = Tag(g)
  BY <1>2, <1>3, <1>4 DEF ReadingTag, Reads, Tag
<1>7. WritersAreSeen'
  <2> SUFFICES ASSUME NEW w \in Handlers, WritingTag(w)',
                      NEW r \in Handlers, ReadingTag(r)', Tag(r)' = Tag(w)'
               PROVE  tagCall'[r].raced
    BY <1>1, <1>5 DEF WritersAreSeen, TagCallsOK, WritingTag
  <2>1. CASE w = h
    BY <2>1, <1>2, <1>3, <1>4, <1>6 DEF WritingTag, Writes, Tag
  <2>2. CASE w # h
    <3>1. WritingTag(w) /\ Tag(w)' = Tag(w)
      BY <2>2, <1>4 DEF WritingTag, Tag
    <3>2. ReadingTag(r) /\ r # h /\ Tag(r) = Tag(w)
      BY <3>1, <1>6
    <3>3. tagCall[r].raced
      BY <3>1, <3>2 DEF WritersAreSeen
    <3> QED
      BY <3>2, <3>3, <1>4
  <2> QED
    BY <2>1, <2>2
<1>8. ReadersAreCurrent'
  BY <1>1, <1>4, <1>6 DEF ReadersAreCurrent, Related, Tag
<1>9. EntriesAreCurrent'
  BY <1>1 DEF EntriesAreCurrent
<1> QED
  BY <1>5, <1>7, <1>8, <1>9

\* The writer's own writing: whatever is cached or held of its tag is marked already.
LEMMA WriteInv ==
  ASSUME TagInv, NEW h \in Handlers, CreateTagRelation(h) \/ DeleteTagRelation(h)
  PROVE  TagInv'
<1> USE DEF TagInv
<1>1. /\ tagCall[h].todo # <<>> /\ Head(tagCall[h].todo) \in {"relate", "unrelate"} /\ WritingTag(h)
      /\ tagCall' = [tagCall EXCEPT ![h] = TagRest(tagCall[h])] /\ UNCHANGED <<liveFolders, cached, racedTags>>
      /\ \/ relations' = relations \cup {<<Tag(h), tagCall[h].folder>>}
         \/ relations' = relations \ {<<Tag(h), tagCall[h].folder>>}
  BY DEF CreateTagRelation, DeleteTagRelation, TagAt, TagContinue, TagGo, WritingTag, Writes
<1>2. Harmless(TagRest(tagCall[h]))
  BY <1>1, RestIsHarmless
<1>3. /\ tagCall' \in [Handlers -> TagCalls] /\ tagCall'[h] = TagRest(tagCall[h])
      /\ \A g \in Handlers : g # h => tagCall'[g] = tagCall[g]
  BY <1>1, <1>2 DEF TagCallsOK, Harmless, Tagged
<1>4. TagCallsOK'
  BY <1>1, <1>2, <1>3 DEF TagCallsOK, Harmless, Tagged, Tag
<1>5. \A t \in Tags : t # Tag(h) => Related(t)' = Related(t)
  BY <1>1 DEF Related
<1>6. \A g \in Handlers : WritingTag(g)' => WritingTag(g) /\ Tag(g)' = Tag(g)
  BY <1>2, <1>3 DEF WritingTag, Writes, Harmless, Tag
<1>7. \A g \in Handlers : ReadingTag(g)' => ReadingTag(g) /\ tagCall'[g] = tagCall[g] /\ Tag(g) \in Tags
  BY <1>2, <1>3 DEF ReadingTag, Reads, Harmless, TagCallsOK
<1>8. WritersAreSeen'
  BY <1>1, <1>6, <1>7 DEF WritersAreSeen, Tag
<1>9. ReadersAreCurrent'
  BY <1>1, <1>5, <1>7 DEF ReadersAreCurrent, WritersAreSeen, Tag
<1>10. EntriesAreCurrent'
  BY <1>1, <1>5 DEF EntriesAreCurrent, WritersAreSeen
<1> QED
  BY <1>4, <1>8, <1>9, <1>10

\* A read of the relations finds out whether a writer is about to write.
LEMMA ReadRelationsInv ==
  ASSUME TagInv, NEW h \in Handlers, GetTagRelationsByTagID(h)
  PROVE  TagInv'
<1> USE DEF TagInv
<1> DEFINE c == [tagCall[h] EXCEPT !.found = Related(Tag(h)),
                                !.raced = \E g \in Handlers : WritingTag(g) /\ Tag(g) = Tag(h)]
<1>1. /\ tagCall[h].todo # <<>> /\ Head(tagCall[h].todo) = "readRelations"
      /\ tagCall' = [tagCall EXCEPT ![h] = TagRest(c)] /\ UNCHANGED <<liveFolders, relations, cached, racedTags>>
  BY DEF GetTagRelationsByTagID, TagAt, TagGo, tagTables
<1>2. /\ tagCall[h] \in TagCalls /\ c \in TagCalls /\ c.todo = tagCall[h].todo /\ c.tag = tagCall[h].tag
      /\ c.found = Related(Tag(h))
      /\ c.raced = (\E g \in Handlers : WritingTag(g) /\ Tag(g) = Tag(h))
  BY DEF TagCallsOK, TagCalls, Related
<1> HIDE DEF c
<1>3. /\ Tagged(TagRest(c)) /\ (TagRest(c).todo # <<>> => Head(TagRest(c).todo) \notin Writes)
      /\ TagRest(c).todo # <<>> =>
           TagRest(c).tag = c.tag /\ TagRest(c).found = c.found /\ TagRest(c).raced = c.raced
  <2>1. c.todo # <<>> /\ Head(c.todo) = "readRelations"
    BY <1>1, <1>2
  <2> QED
    BY <1>2, <2>1, TagRestFacts
<1>4. /\ tagCall' \in [Handlers -> TagCalls] /\ tagCall'[h] = TagRest(c)
      /\ \A g \in Handlers : g # h => tagCall'[g] = tagCall[g]
  BY <1>1, <1>3 DEF TagCallsOK, Tagged
<1>5. TagCallsOK'
  BY <1>1, <1>3, <1>4 DEF TagCallsOK, Tagged, Tag
<1>6. \A g \in Handlers : WritingTag(g)' => WritingTag(g) /\ Tag(g)' = Tag(g)
  BY <1>3, <1>4 DEF WritingTag, Writes, Tag
<1>7. WritersAreSeen'
  <2> SUFFICES ASSUME NEW w \in Handlers, WritingTag(w)',
                      NEW r \in Handlers, ReadingTag(r)', Tag(r)' = Tag(w)'
               PROVE  tagCall'[r].raced
    BY <1>1, <1>6 DEF WritersAreSeen
  <2>1. CASE r = h
    BY <2>1, <1>2, <1>3, <1>4, <1>6 DEF ReadingTag, Tag
  <2>2. CASE r # h
    BY <2>2, <1>4, <1>6 DEF ReadingTag, Tag, WritersAreSeen
  <2> QED
    BY <2>1, <2>2
<1>8. ReadersAreCurrent'
  <2> SUFFICES ASSUME NEW r \in Handlers, ReadingTag(r)', ~tagCall'[r].raced
               PROVE  /\ tagCall'[r].found \subseteq Related(Tag(r)')
                      /\ Related(Tag(r)') \cap liveFolders \subseteq tagCall'[r].found
    BY <1>1 DEF ReadersAreCurrent, Related
  <2>1. CASE r = h
    BY <2>1, <1>2, <1>3, <1>4 DEF ReadingTag, Tag
  <2>2. CASE r # h
    BY <2>2, <1>4 DEF ReadingTag, Tag, ReadersAreCurrent
  <2> QED
    BY <2>1, <2>2
<1>9. EntriesAreCurrent'
  BY <1>1 DEF EntriesAreCurrent, Related
<1> QED
  BY <1>5, <1>7, <1>8, <1>9

LEMMA ReadFoldersInv ==
  ASSUME TagInv, NEW h \in Handlers, GetVirtualFoldersByIDs(h)
  PROVE  TagInv'
<1> USE DEF TagInv
<1> DEFINE c == [tagCall[h] EXCEPT !.found = @ \cap liveFolders]
<1>1. /\ tagCall[h].todo # <<>> /\ Head(tagCall[h].todo) = "readFolders" /\ ReadingTag(h)
      /\ tagCall' = [tagCall EXCEPT ![h] = TagRest(c)] /\ UNCHANGED <<liveFolders, relations, cached, racedTags>>
  BY DEF GetVirtualFoldersByIDs, TagAt, TagGo, tagTables, ReadingTag, Reads
<1>2. /\ tagCall[h] \in TagCalls /\ c \in TagCalls /\ c.todo = tagCall[h].todo /\ c.tag = tagCall[h].tag
      /\ c.found = tagCall[h].found \cap liveFolders /\ c.raced = tagCall[h].raced
  BY DEF TagCallsOK, TagCalls
<1> HIDE DEF c
<1>3. /\ Tagged(TagRest(c)) /\ (TagRest(c).todo # <<>> => Head(TagRest(c).todo) \notin Writes)
      /\ TagRest(c).todo # <<>> =>
           TagRest(c).tag = c.tag /\ TagRest(c).found = c.found /\ TagRest(c).raced = c.raced
  BY <1>1, <1>2, TagRestFacts
<1>4. /\ tagCall' \in [Handlers -> TagCalls] /\ tagCall'[h] = TagRest(c)
      /\ \A g \in Handlers : g # h => tagCall'[g] = tagCall[g]
  BY <1>1, <1>3 DEF TagCallsOK, Tagged
<1>5. TagCallsOK'
  BY <1>1, <1>3, <1>4 DEF TagCallsOK, Tagged, Tag
<1>6. \A g \in Handlers : WritingTag(g)' => WritingTag(g) /\ Tag(g)' = Tag(g)
  BY <1>3, <1>4 DEF WritingTag, Writes, Tag
<1>7. \A g \in Handlers : ReadingTag(g)' =>
        /\ ReadingTag(g) /\ Tag(g)' = Tag(g) /\ tagCall'[g].raced = tagCall[g].raced
        /\ tagCall'[g].found \in {tagCall[g].found, tagCall[g].found \cap liveFolders}
  BY <1>1, <1>2, <1>3, <1>4 DEF ReadingTag, Tag
<1>8. WritersAreSeen'
  BY <1>1, <1>6, <1>7 DEF WritersAreSeen
<1>9. ReadersAreCurrent'
  BY <1>1, <1>7 DEF ReadersAreCurrent, Related
<1>10. EntriesAreCurrent'
  BY <1>1 DEF EntriesAreCurrent, Related
<1> QED
  BY <1>5, <1>8, <1>9, <1>10

LEMMA FillInv ==
  ASSUME TagInv, NEW h \in Handlers, SetVirtualFolderCache(h)
  PROVE  TagInv'
<1> USE DEF TagInv
<1>1. /\ tagCall[h].todo # <<>> /\ Head(tagCall[h].todo) = "fill" /\ ReadingTag(h) /\ Tag(h) \in Tags
      /\ tagCall' = [tagCall EXCEPT ![h] = TagRest(tagCall[h])] /\ UNCHANGED <<liveFolders, relations>>
      /\ cached' = [cached EXCEPT ![Tag(h)] = tagCall[h].found]
      /\ racedTags' = IF tagCall[h].raced THEN racedTags \cup {Tag(h)} ELSE racedTags \ {Tag(h)}
  BY DEF SetVirtualFolderCache, TagAt, TagContinue, TagGo, tagTables, ReadingTag, Reads, TagCallsOK
<1>2. Harmless(TagRest(tagCall[h]))
  BY <1>1, RestIsHarmless
<1>3. /\ tagCall' \in [Handlers -> TagCalls] /\ tagCall'[h] = TagRest(tagCall[h])
      /\ \A g \in Handlers : g # h => tagCall'[g] = tagCall[g]
  BY <1>1, <1>2 DEF TagCallsOK, Harmless, Tagged
<1>4. TagCallsOK'
  BY <1>1, <1>2, <1>3 DEF TagCallsOK, Harmless, Tagged, Tag
<1>5. \A g \in Handlers : WritingTag(g)' => WritingTag(g) /\ Tag(g)' = Tag(g)
  BY <1>2, <1>3 DEF WritingTag, Writes, Harmless, Tag
<1>6. \A g \in Handlers : ReadingTag(g)' => ReadingTag(g) /\ tagCall'[g] = tagCall[g]
  BY <1>2, <1>3 DEF ReadingTag, Reads, Harmless
<1>7. /\ cached'[Tag(h)] = tagCall[h].found
      /\ \A t \in Tags : t # Tag(h) => cached'[t] = cached[t] /\ (t \in racedTags' <=> t \in racedTags)
  BY <1>1 DEF TagCallsOK
<1>8. WritersAreSeen'
  <2> SUFFICES ASSUME NEW w \in Handlers, WritingTag(w)'
               PROVE  /\ cached'[Tag(w)'] # None => Tag(w)' \in racedTags'
                      /\ \A r \in Handlers : ReadingTag(r)' /\ Tag(r)' = Tag(w)' => tagCall'[r].raced
    BY DEF WritersAreSeen
  <2>1. WritingTag(w) /\ Tag(w)' = Tag(w) /\ Tag(w) \in Tags
    BY <1>5 DEF TagCallsOK, WritingTag
  <2>2. CASE Tag(w) = Tag(h)
    BY <2>1, <2>2, <1>1, <1>6 DEF WritersAreSeen, Tag
  <2>3. CASE Tag(w) # Tag(h)
    BY <2>1, <2>3, <1>6, <1>7 DEF WritersAreSeen, Tag
  <2> QED
    BY <2>2, <2>3
<1>9. ReadersAreCurrent'
  BY <1>1, <1>6 DEF ReadersAreCurrent, Related, Tag
<1>10. EntriesAreCurrent'
  BY <1>1, <1>7 DEF EntriesAreCurrent, ReadersAreCurrent, Related
<1> QED
  BY <1>4, <1>8, <1>9, <1>10

-----------------------------------------------------------------------------
LEMMA EnvironmentInv ==
  ASSUME TagInv,
         \/ \E t \in Tags : Expire(t)
         \/ \E f \in Folders : DeleteTaggedFolder(f) \/ ReviveTaggedFolder(f)
         \/ TagRestart
  PROVE  TagInv'
<1> USE DEF TagInv
<1>1. ASSUME NEW t \in Tags, Expire(t) PROVE TagInv'
  <2>1. /\ cached' = [cached EXCEPT ![t] = None] /\ racedTags' = racedTags \ {t}
        /\ UNCHANGED <<liveFolders, relations, tagCall>>
    BY <1>1 DEF Expire, tagTables
  <2>2. TagCallsOK'
    BY <2>1 DEF TagCallsOK, Tag
  <2>3. \A x \in Tags : cached'[x] # None => cached'[x] = cached[x] /\ (x \in racedTags' <=> x \in racedTags)
    BY <2>1 DEF TagCallsOK
  <2>4. WritersAreSeen'
    BY <2>1, <2>3 DEF WritersAreSeen, TagCallsOK, WritingTag, ReadingTag, Tag
  <2>5. ReadersAreCurrent'
    BY <2>1 DEF ReadersAreCurrent, ReadingTag, Related, Tag
  <2>6. EntriesAreCurrent'
    BY <2>1, <2>3 DEF EntriesAreCurrent, Related
  <2> QED
    BY <2>2, <2>4, <2>5, <2>6
<1>2. ASSUME NEW f \in Folders, DeleteTaggedFolder(f) PROVE TagInv'
  <2>1. liveFolders' = liveFolders \ {f} /\ UNCHANGED <<relations, cached, tagCall, racedTags>>
    BY <1>2 DEF DeleteTaggedFolder
  <2>2. TagCallsOK'
    BY <2>1 DEF TagCallsOK, Tag
  <2>3. WritersAreSeen'
    BY <2>1 DEF WritersAreSeen, WritingTag, ReadingTag, Tag
  <2>4. ReadersAreCurrent'
    BY <2>1 DEF ReadersAreCurrent, ReadingTag, Related, Tag
  <2>5. EntriesAreCurrent'
    BY <2>1 DEF EntriesAreCurrent, Related
  <2> QED
    BY <2>2, <2>3, <2>4, <2>5
<1>3. ASSUME NEW f \in Folders, ReviveTaggedFolder(f) PROVE TagInv'
  <2>1. /\ liveFolders' = liveFolders \cup {f} /\ UNCHANGED <<relations, cached>>
        /\ racedTags' = racedTags \cup {t \in Tags : cached[t] # None /\ LacksFolder(cached[t], t, f)}
    BY <1>3 DEF ReviveTaggedFolder
  <2>2. ASSUME NEW h \in Handlers
        PROVE  /\ tagCall'[h] \in TagCalls /\ tagCall'[h].todo = tagCall[h].todo /\ Tag(h)' = Tag(h)
               /\ tagCall'[h].found = tagCall[h].found
               /\ tagCall'[h].raced
                    = (tagCall[h].raced \/ (ReadingTag(h) /\ LacksFolder(tagCall[h].found, Tag(h), f)))
    <3>1. tagCall'[h] = [tagCall[h] EXCEPT !.raced =
                           @ \/ (ReadingTag(h) /\ LacksFolder(tagCall[h].found, Tag(h), f))]
      BY <1>3 DEF ReviveTaggedFolder
    <3>2. tagCall[h] \in TagCalls
      BY DEF TagCallsOK
    <3> QED
      BY <3>1, <3>2 DEF TagCalls, Tag
  <2>3. TagCallsOK'
    <3>1. DOMAIN tagCall' = Handlers /\ tagCall' = [h \in Handlers |-> tagCall'[h]]
      BY <1>3 DEF ReviveTaggedFolder
    <3> QED
      BY <2>1, <2>2, <3>1 DEF TagCallsOK
  <2>4. \A h \in Handlers : /\ (ReadingTag(h)' <=> ReadingTag(h)) /\ (WritingTag(h)' <=> WritingTag(h))
                            /\ Related(Tag(h)') = Related(Tag(h)) /\ Related(Tag(h))' = Related(Tag(h))
    BY <2>1, <2>2 DEF ReadingTag, WritingTag, Related
  <2>5. WritersAreSeen'
    <3> SUFFICES ASSUME NEW g \in Handlers, WritingTag(g)'
                 PROVE  /\ cached[Tag(g)] # None => Tag(g) \in racedTags'
                        /\ \A h \in Handlers : ReadingTag(h)' /\ Tag(h)' = Tag(g) => tagCall'[h].raced
      BY <2>1, <2>2 DEF WritersAreSeen
    <3>1. WritingTag(g)
      BY <2>4
    <3>2. ASSUME NEW h \in Handlers, ReadingTag(h)', Tag(h)' = Tag(g) PROVE tagCall'[h].raced
      <4>1. ReadingTag(h) /\ Tag(h) = Tag(g)
        BY <2>2, <2>4, <3>2
      <4>2. tagCall[h].raced
        BY <3>1, <4>1 DEF WritersAreSeen
      <4> QED
        BY <2>2, <4>2
    <3> QED
      BY <2>1, <3>1, <3>2 DEF WritersAreSeen
  <2>6. ReadersAreCurrent'
    BY <2>1, <2>2, <2>4 DEF ReadersAreCurrent, LacksFolder
  <2>7. EntriesAreCurrent'
    BY <2>1 DEF EntriesAreCurrent, LacksFolder, Related
  <2> QED
    BY <2>3, <2>5, <2>6, <2>7 DEF TagInv
<1>4. ASSUME TagRestart PROVE TagInv'
  <2>1. /\ cached' = [t \in Tags |-> None] /\ tagCall' = [h \in Handlers |-> NoTagCall]
    BY <1>4 DEF TagRestart
  <2>2. TagCallsOK'
    BY <2>1, IdleIsHarmless DEF TagCallsOK, Tag, Harmless, Tagged, NoTagCall
  <2>3. WritersAreSeen' /\ ReadersAreCurrent'
    BY <2>1 DEF WritersAreSeen, ReadersAreCurrent, WritingTag, ReadingTag, NoTagCall
  <2>4. EntriesAreCurrent'
    BY <2>1 DEF EntriesAreCurrent
  <2> QED
    BY <2>2, <2>3, <2>4
<1> QED
  BY <1>1, <1>2, <1>3, <1>4

LEMMA TagInitInv == TagInit => TagInv
<1> SUFFICES ASSUME TagInit PROVE TagInv
  OBVIOUS
<1>1. TagCallsOK
  BY IdleIsHarmless DEF TagInit, TagCallsOK, Tag, Harmless, Tagged, NoTagCall
<1>2. WritersAreSeen /\ ReadersAreCurrent
  BY DEF TagInit, WritersAreSeen, ReadersAreCurrent, WritingTag, ReadingTag, NoTagCall
<1>3. EntriesAreCurrent
  BY DEF TagInit, EntriesAreCurrent
<1> QED
  BY <1>1, <1>2, <1>3 DEF TagInv

LEMMA TagNextInv == TagInv /\ [TagNext]_tagVars => TagInv'
<1> SUFFICES ASSUME TagInv, [TagNext]_tagVars PROVE TagInv'
  OBVIOUS
<1>1. ASSUME NEW h \in Handlers, TagStep(h) PROVE TagInv'
  BY <1>1, RequestsInv, QuietCallsInv, ClearCacheInv, WriteInv, ReadRelationsInv, ReadFoldersInv,
     FillInv DEF TagStep
<1>2. CASE UNCHANGED tagVars
  BY <1>2 DEF tagVars, tagTables, TagInv, TagCallsOK, WritersAreSeen, ReadersAreCurrent,
     EntriesAreCurrent,
     WritingTag, ReadingTag, Related, Tag
<1> QED
  BY <1>1, <1>2, EnvironmentInv DEF TagNext

-----------------------------------------------------------------------------
\* However many readers and writers of a project's tags overlap and whatever fails or is
\* restarted: an entry of the cache (service/tag.go:154-156, 258-280) that no overlapped reader has
\* filled, and that lacks no folder inserted again since, lists folders that carry the tag and all
\* of those that are not deleted.
THEOREM CurrentEntries == TagSpec => []EntriesAreCurrent
<1>1. TagInv => EntriesAreCurrent
  BY DEF TagInv
<1> QED
  BY <1>1, TagInitInv, TagNextInv, PTL DEF TagSpec
=============================================================================
