------------------------------ MODULE TagCache ------------------------------
(***************************************************************************)
(* The tags of one project and the folders that carry them (service/tag.go)*)
(* with the cache in the process: folders by tag.  The cache of tags by    *)
(* folder is never filled, no route leads to GetTagsByVirtualFolderID.  A  *)
(* request is a list of calls, one per step.  Names and colours are left   *)
(* out, and two rows of one relation count as one: they are read with IN   *)
(* and deleted together.                                                   *)
(***************************************************************************)
EXTENDS CacheRequests

CONSTANT Tags

VARIABLES
  tags,       \* tags[t]: "none" before the tag has a row, "live", "deleted"
  liveFolders,    \* folders that are not deleted
  relations,  \* pairs of a tag and a folder in tag_relations
  cached,     \* cached[t]: folders in virtualFolderCache, None if there is no entry
  timers,     \* timers[t]: goroutines that will delete the entry of t
  tagCall, tagCalls, tagFaults,
  racedTags       \* history: tags whose entry was filled by a reader that a writer overlapped, or
                  \* lacks a folder that carries the tag and has come back

tagTables == <<tags, liveFolders, relations>>
tagVars == <<tagTables, cached, timers, tagCall, tagCalls, tagFaults, racedTags>>

NoTagCall == [tag |-> None, folder |-> None, found |-> {}, raced |-> FALSE, todo |-> <<>>]

TagInit ==
  /\ tags \in [Tags -> {"none", "live"}]
  /\ liveFolders = Folders /\ relations = {}
  /\ cached = [t \in Tags |-> None] /\ timers = [t \in Tags |-> 0]
  /\ tagCall = [h \in Handlers |-> NoTagCall] /\ tagCalls = 0 /\ tagFaults = 0
  /\ racedTags = {}

-----------------------------------------------------------------------------
(* The requests and the calls each of them makes: every writer clears the  *)
(* whole cache, then writes.                                               *)

CreateTagCalls == <<"clear", "create">>
UpdateTagCalls == <<"getTag", "clear", "save">>
DeleteTagCalls == <<"getTag", "clear", "delete">>
AddTagCalls == <<"getTag", "getFolder", "clear", "relate">>
KeepingCache ==     \* Mutant of RemoveTagCalls: the cache is not cleared
  <<"getTag", "getFolder", "unrelate">>
RemoveTagCalls == <<"getTag", "getFolder", "clear", "unrelate">>
GetVirtualFoldersCalls == <<"getTag", "lookup", "readRelations", "readFolders", "fill">>

BeginTagCall(h, t, f, todo) ==
  /\ tagCall[h] = NoTagCall /\ tagCalls < MaxCalls
  /\ tagCalls' = tagCalls + 1
  /\ tagCall' = [tagCall EXCEPT ![h] = [NoTagCall EXCEPT !.tag = t, !.folder = f, !.todo = todo]]
  /\ UNCHANGED <<tagTables, cached, timers, tagFaults, racedTags>>

CreateTag(h) ==
  \E t \in Tags :
    /\ tags[t] = "none" /\ \A g \in Handlers : tagCall[g].tag # t
    /\ BeginTagCall(h, t, None, CreateTagCalls)
UpdateTag(h) == \E t \in Tags : BeginTagCall(h, t, None, UpdateTagCalls)
DeleteTag(h) == \E t \in Tags : BeginTagCall(h, t, None, DeleteTagCalls)
AddTagToVirtualFolder(h) == \E t \in Tags, f \in Folders : BeginTagCall(h, t, f, AddTagCalls)
RemoveTagFromVirtualFolder(h) == \E t \in Tags, f \in Folders : BeginTagCall(h, t, f, RemoveTagCalls)
GetVirtualFoldersByTagID(h) == \E t \in Tags : BeginTagCall(h, t, None, GetVirtualFoldersCalls)

-----------------------------------------------------------------------------
(* The calls                                                               *)

TagAt(h, step) == tagCall[h].todo # <<>> /\ Head(tagCall[h].todo) = step
TagRest(c) == IF Len(c.todo) = 1 THEN NoTagCall ELSE [c EXCEPT !.todo = Tail(@)]
TagGo(h, c) == tagCall' = [tagCall EXCEPT ![h] = TagRest(c)]
TagContinue(h) == TagGo(h, tagCall[h])
TagReturn(h) == tagCall' = [tagCall EXCEPT ![h] = NoTagCall]
TagContinueIf(h, accepted) == IF accepted THEN TagContinue(h) ELSE TagReturn(h)
Tag(h) == tagCall[h].tag

GetTagByID(h) ==
  /\ TagAt(h, "getTag")
  /\ TagContinueIf(h, tags[Tag(h)] = "live")
  /\ UNCHANGED <<tagTables, cached, timers, tagCalls, tagFaults, racedTags>>

GetVirtualFolderByID(h) ==
  /\ TagAt(h, "getFolder")
  /\ TagContinueIf(h, tagCall[h].folder \in liveFolders)
  /\ UNCHANGED <<tagTables, cached, timers, tagCalls, tagFaults, racedTags>>

Writes == {"create", "save", "delete", "relate", "unrelate"}
Reads == {"readFolders", "fill"}
WritingTag(h) == tagCall[h].todo # <<>> /\ Head(tagCall[h].todo) \in Writes
ReadingTag(h) == tagCall[h].todo # <<>> /\ Head(tagCall[h].todo) \in Reads

\* Timers go on: they will delete an entry that is younger than they are.
ClearCache(h) ==
  /\ TagAt(h, "clear")
  /\ cached' = [t \in Tags |-> None]
  /\ racedTags' = {}
  /\ tagCall' = [g \in Handlers |->
                IF g = h THEN TagRest(tagCall[h])
                ELSE [tagCall[g] EXCEPT !.raced = @ \/ (ReadingTag(g) /\ Tag(g) = Tag(h))]]
  /\ UNCHANGED <<tagTables, timers, tagCalls, tagFaults>>

InsertTag(h) ==
  /\ TagAt(h, "create")
  /\ tags' = [tags EXCEPT ![Tag(h)] = "live"]
  /\ TagContinue(h)
  /\ UNCHANGED <<liveFolders, relations, cached, timers, tagCalls, tagFaults, racedTags>>

\* Save writes the whole row, and puts back one that was deleted in between.
SaveTag(h) ==
  /\ TagAt(h, "save")
  /\ tags' = [tags EXCEPT ![Tag(h)] = "live"]
  /\ TagContinue(h)
  /\ UNCHANGED <<liveFolders, relations, cached, timers, tagCalls, tagFaults, racedTags>>

\* Its relations stay.
DropTag(h) ==
  /\ TagAt(h, "delete")
  /\ tags' = [tags EXCEPT ![Tag(h)] = "deleted"]
  /\ TagContinue(h)
  /\ UNCHANGED <<liveFolders, relations, cached, timers, tagCalls, tagFaults, racedTags>>

CreateTagRelation(h) ==
  /\ TagAt(h, "relate")
  /\ relations' = relations \cup {<<Tag(h), tagCall[h].folder>>}
  /\ TagContinue(h)
  /\ UNCHANGED <<tags, liveFolders, cached, timers, tagCalls, tagFaults, racedTags>>

DeleteTagRelation(h) ==
  /\ TagAt(h, "unrelate")
  /\ relations' = relations \ {<<Tag(h), tagCall[h].folder>>}
  /\ TagContinue(h)
  /\ UNCHANGED <<tags, liveFolders, cached, timers, tagCalls, tagFaults, racedTags>>

GetVirtualFolderFromCache(h) ==
  /\ TagAt(h, "lookup")
  /\ TagContinueIf(h, cached[Tag(h)] = None)
  /\ UNCHANGED <<tagTables, cached, timers, tagCalls, tagFaults, racedTags>>

Related(t) == {f \in Folders : <<t, f>> \in relations}

GetTagRelationsByTagID(h) ==
  /\ TagAt(h, "readRelations")
  /\ TagGo(h, [tagCall[h] EXCEPT !.found = Related(Tag(h)),
                           !.raced = \E g \in Handlers : WritingTag(g) /\ Tag(g) = Tag(h)])
  /\ UNCHANGED <<tagTables, cached, timers, tagCalls, tagFaults, racedTags>>

GetVirtualFoldersByIDs(h) ==
  /\ TagAt(h, "readFolders")
  /\ TagGo(h, [tagCall[h] EXCEPT !.found = @ \cap liveFolders])
  /\ UNCHANGED <<tagTables, cached, timers, tagCalls, tagFaults, racedTags>>

WithoutTimer(t) ==     \* Mutant of StartTimer: the entry is not timed
  timers' = timers
StartTimer(t) == timers' = [timers EXCEPT ![t] = @ + 1]

SetVirtualFolderCache(h) ==
  /\ TagAt(h, "fill")
  /\ cached' = [cached EXCEPT ![Tag(h)] = tagCall[h].found]
  /\ StartTimer(Tag(h))
  /\ racedTags' = IF tagCall[h].raced THEN racedTags \cup {Tag(h)} ELSE racedTags \ {Tag(h)}
  /\ TagContinue(h)
  /\ UNCHANGED <<tagTables, tagCalls, tagFaults>>

-----------------------------------------------------------------------------
(* Timers, folders that go and come back, and failures                     *)

Expire(t) ==
  /\ timers[t] > 0
  /\ timers' = [timers EXCEPT ![t] = @ - 1]
  /\ cached' = [cached EXCEPT ![t] = None]
  /\ racedTags' = racedTags \ {t}
  /\ UNCHANGED <<tagTables, tagCall, tagCalls, tagFaults>>

\* FolderEdits; the cache is not told.
DeleteTaggedFolder(f) ==
  /\ f \in liveFolders /\ tagCalls < MaxCalls
  /\ tagCalls' = tagCalls + 1
  /\ liveFolders' = liveFolders \ {f}
  /\ UNCHANGED <<tags, relations, cached, timers, tagCall, tagFaults, racedTags>>

\* FolderEdits: a rename that read the row before it was deleted saves it, and so inserts it again
\* with the tags it carries.  The cache is not told.
LacksFolder(found, t, f) == f \in Related(t) \ found
ReviveTaggedFolder(f) ==
  /\ f \in Folders \ liveFolders /\ tagCalls < MaxCalls
  /\ tagCalls' = tagCalls + 1
  /\ liveFolders' = liveFolders \cup {f}
  /\ racedTags' = racedTags \cup {t \in Tags : cached[t] # None /\ LacksFolder(cached[t], t, f)}
  /\ tagCall' = [h \in Handlers |->
                [tagCall[h] EXCEPT !.raced =
                   @ \/ (ReadingTag(h) /\ LacksFolder(tagCall[h].found, Tag(h), f))]]
  /\ UNCHANGED <<tags, relations, cached, timers, tagFaults>>

\* The lock and the maps in the process do not fail.
FailingTagCall(h) ==
  /\ tagCall[h].todo # <<>> /\ Head(tagCall[h].todo) \notin {"clear", "lookup", "fill"}
  /\ tagFaults < MaxFaults /\ tagFaults' = tagFaults + 1
  /\ TagReturn(h)
  /\ UNCHANGED <<tagTables, cached, timers, tagCalls, racedTags>>

TagRestart ==
  /\ tagFaults < MaxFaults /\ tagFaults' = tagFaults + 1
  /\ cached' = [t \in Tags |-> None] /\ timers' = [t \in Tags |-> 0]
  /\ tagCall' = [h \in Handlers |-> NoTagCall] /\ racedTags' = {}
  /\ UNCHANGED <<tagTables, tagCalls>>

TagStep(h) ==
  \/ CreateTag(h) \/ UpdateTag(h) \/ DeleteTag(h)
  \/ AddTagToVirtualFolder(h) \/ RemoveTagFromVirtualFolder(h) \/ GetVirtualFoldersByTagID(h)
  \/ GetTagByID(h) \/ GetVirtualFolderByID(h) \/ ClearCache(h)
  \/ InsertTag(h) \/ SaveTag(h) \/ DropTag(h) \/ CreateTagRelation(h) \/ DeleteTagRelation(h)
  \/ GetVirtualFolderFromCache(h) \/ GetTagRelationsByTagID(h) \/ GetVirtualFoldersByIDs(h)
  \/ SetVirtualFolderCache(h) \/ FailingTagCall(h)

TagNext ==
  \/ \E h \in Handlers : TagStep(h)
  \/ \E t \in Tags : Expire(t)
  \/ \E f \in Folders : DeleteTaggedFolder(f) \/ ReviveTaggedFolder(f)
  \/ TagRestart

\* A goroutine that sleeps ten minutes wakes up; requests need not be made, nor go on.
TagSpec == TagInit /\ [][TagNext]_tagVars /\ \A t \in Tags : WF_tagVars(Expire(t))

-----------------------------------------------------------------------------
(* What the cache promises                                                 *)

\* An entry lists folders that carry the tag, and all of those that are not deleted, in two cases
\* excepted: the reader that filled it read the relations before a writer of the tag wrote and
\* filled the cache after that writer had cleared it, for the cache is cleared before the write
\* (service/tag.go:154-156, 185-188, 258-280); or the reader found a folder deleted that a slow
\* rename has inserted again since (service/virtual_folder.go:156-176, approval_pg.go:211-223).
EntriesAreCurrent ==
  \A t \in Tags \ racedTags : cached[t] # None =>
    /\ cached[t] \subseteq Related(t)
    /\ Related(t) \cap liveFolders \subseteq cached[t]

\* An entry that no longer lists the folders that carry the tag, whether a reader put it back
\* after a writer had cleared it or a folder was deleted or came back, does not stay: some timer is left that
\* deletes it, even one of an older entry (service/tag.go:324-346).
StaleEntriesEnd ==
  \A t \in Tags :
    (cached[t] # None /\ cached[t] # Related(t) \cap liveFolders)
      ~> (cached[t] = None \/ cached[t] = Related(t) \cap liveFolders)
=============================================================================
