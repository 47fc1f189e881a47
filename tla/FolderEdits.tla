---------------------------- MODULE FolderEdits ----------------------------
(***************************************************************************)
(* The direct edits of folders and files: virtual_folder.go,               *)
(* mount_relation.go, call_relation.go, new_file_service.go and their      *)
(* repositories, one database statement per step, beside the requests on   *)
(* members (ProjectMembers).  Nothing is locked and nothing runs in a      *)
(* transaction.  What the handlers tell the cache is in FolderCache.       *)
(***************************************************************************)
EXTENDS ProjectMembers

CONSTANTS
  FolderIds, FileIds,  \* numbers of folders and files; both tables count from 1
  InitialHome,         \* the project of each folder that exists at first, None for the others
  InitialFiles,        \* files registered at first, with their registrar
  InitialMounts,       \* mount relations at first
  InitialOwner, InitialMembers

VARIABLES
  home,       \* home[f]: project of folder f, None before it is created
  folders,    \* undeleted rows of virtual_folders
  registrar,  \* registrar[x]: user_id of file x, None before it is registered
  files,      \* undeleted rows of new_real_files
  mounts,     \* undeleted rows of mount_relations; two equal rows act as one
  callRows,   \* callRows[c]: number of rows of call_relations for the pair c
  placed,     \* history: folders that have been mounted
  strayed,    \* history: folders whose move ended early after it had begun to delete,
              \* or that lost a mount to the unmounting of a file of the same number
  contested,  \* history: subjects on which two requests were under way at a time
  revived     \* history: rows that were deleted and came back

editVars == <<home, folders, registrar, files, mounts, callRows>>
history == <<placed, strayed, contested, revived>>
vars == <<memberVars, call, calls, faults, editVars, history>>

FolderItem(f) == [type |-> "folder", id |-> f]
FileItem(x) == [type |-> "file", id |-> x]
FolderItems == {FolderItem(f) : f \in FolderIds}
FileItems == {FileItem(x) : x \in FileIds}
RootRef(p) == [type |-> "root", id |-> p]
Refs == [type : {"folder"}, id : FolderIds] \cup [type : {"root"}, id : Projects]
CallPairs == FolderItems \X FolderItems

\* What a request is about: the ids of one table or of the other.
ASSUME MenuAssumption ==
  /\ None \notin FolderItems \cup FileItems
  /\ \A c \in Menu :
       /\ c.op \in {"createFolder", "login"} => c.item = None
       /\ c.op \in {"renameFolder", "deleteFolder", "moveFolder", "call"} => c.item \in FolderItems
       /\ c.op = "call" => c.parent \in FolderItems /\ c.project = c.path
       /\ c.op \in {"mountFile", "unmountFile", "logout", "renameFile"} => c.item \in FileItems

\* The first row of a project is its owner's, a folder that is mounted exists and
\* has one father.
ASSUME InitialAssumption ==
  /\ InitialOwner \in [Projects -> Users \cup {None}]
  /\ InitialMembers \in [Projects -> Seq([user : Users, role : DOMAIN Level])]
  /\ \A p \in Projects :
       InitialMembers[p] # <<>> =>
         InitialOwner[p] # None /\ InitialMembers[p][1] = [user |-> InitialOwner[p], role |-> "owner"]
  /\ InitialHome \in [FolderIds -> Projects \cup {None}]
  /\ \A m \in InitialMounts :
       m.child \in FileItems \/ (m.child \in FolderItems /\ InitialHome[m.child.id] # None)
  /\ \A m, n \in InitialMounts : m.child = n.child /\ m.child.type = "folder" => m = n

Init ==
  /\ owner = InitialOwner /\ members = InitialMembers
  /\ roots = {p \in Projects : InitialOwner[p] # None}
  /\ call = [h \in Handlers |-> Idle] /\ calls = 0 /\ faults = 0
  /\ home = InitialHome /\ folders = {f \in FolderIds : InitialHome[f] # None}
  /\ registrar = InitialFiles /\ files = {x \in FileIds : InitialFiles[x] # None}
  /\ mounts = InitialMounts /\ callRows = [c \in CallPairs |-> 0]
  /\ placed = {m.child.id : m \in {n \in InitialMounts : n.child.type = "folder"}}
  /\ strayed = {} /\ contested = {} /\ revived = {} /\ early = {}

-----------------------------------------------------------------------------
(* What the tables say                                                     *)

MountsOfChild(child) == {m \in mounts : m.child = child}
MountsOfPair(parent, child) == {m \in mounts : m.parent.id = parent /\ m.child.id = child}

RootExists(ref) == ref.id \in roots
Exists(ref) == IF ref.type = "root" THEN RootExists(ref) ELSE ref.id \in folders
ProjectOf(ref) == IF ref.type = "root" THEN ref.id ELSE home[ref.id]

\* The checks of CreateMountRelation, MoveVirtualFolder and the others: the parent
\* is there, and so is its root, which the user may enter.
MayMountIn(u, ref) ==
  Exists(ref) /\ ProjectOf(ref) \in roots /\ CheckRootAccess(ProjectOf(ref), u)

MayEditOnceMade(u, f) ==                 \* Mutant of MayEdit: a deleted row is found, too
  home[f] # None /\ home[f] \in roots /\ CheckRootAccess(home[f], u)
MayEdit(u, f) == f \in folders /\ home[f] \in roots /\ CheckRootAccess(home[f], u)

-----------------------------------------------------------------------------
(* The requests.  Folders are the owner's business, files the members'.    *)

Subject(c) == <<c.item, IF c.op = "call" THEN c.parent ELSE c.item>>
SubjectsInWork == {Subject(call[h]) : h \in {g \in Handlers : call[g].item # None}}
Contest(c) == contested' = contested \cup (SubjectsInWork \cap {Subject(c)})

Accept(h, op, required, stage) ==
  /\ Free(h)
  /\ \E c \in Menu : c.op = op /\ Admit(h, c, required, stage) /\ Contest(c)
  /\ UNCHANGED <<memberVars, faults, editVars, placed, strayed, revived>>

CreateVirtualFolder(h) == Accept(h, "createFolder", "owner", "checkRoot")
UpdateVirtualFolder(h) == Accept(h, "renameFolder", "owner", "readFolder")
DeleteVirtualFolder(h) == Accept(h, "deleteFolder", "owner", "findFolder")
MoveVirtualFolder(h) == Accept(h, "moveFolder", "owner", "checkMove")
CreateCallRelation(h) == Accept(h, "call", "admin", "checkCall")
LoginFile(h) == Accept(h, "login", "member", "insertFile")
NewMount(h) == Accept(h, "mountFile", "member", "checkFile")
DeleteMount(h) == Accept(h, "unmountFile", "member", "checkFile")
LogoutFile(h) == Accept(h, "logout", "member", "findFile")
NewRename(h) == Accept(h, "renameFile", "admin", "readFile")

-----------------------------------------------------------------------------
(* Ends of a request                                                       *)

\* A refusal, an error or a failing statement.  A move that has started to delete
\* leaves the folder where it happens to be.
Abandon(h) ==
  /\ Return(h)
  /\ strayed' = IF call[h].op = "moveFolder" /\ call[h].stage \notin {"checkMove", "readOld"}
                THEN strayed \cup {call[h].item.id} ELSE strayed

Decide(h, condition, stage) ==
  \/ condition /\ Goto(h, stage) /\ UNCHANGED strayed
  \/ ~condition /\ Abandon(h)

Fail(h) ==
  /\ call[h].stage \notin {"idle", "addOwner", "createRoot"}
  /\ faults < MaxFaults /\ faults' = faults + 1
  /\ Abandon(h)
  /\ UNCHANGED <<memberVars, calls, editVars, placed, contested, revived>>

Read(h, stage, condition, next) ==
  /\ call[h].stage = stage
  /\ Decide(h, condition, next)
  /\ UNCHANGED <<memberVars, calls, faults, editVars, placed, contested, revived>>

-----------------------------------------------------------------------------
(* Folders                                                                 *)

CheckRoot(h) ==
  Read(h, "checkRoot", call[h].project \in roots /\ CheckRootAccess(call[h].project, call[h].user), "insertFolder")

\* Without a parent the folder gets no mount relation at all.
InsertFolder(h) ==
  /\ call[h].stage = "insertFolder"
  /\ \E f \in FolderIds :
       /\ home[f] = None
       /\ home' = [home EXCEPT ![f] = call[h].project]
       /\ folders' = folders \cup {f}
       /\ Contest([op |-> "createFolder", item |-> FolderItem(f)])
       /\ IF call[h].parent = None THEN Return(h)
          ELSE call' = [call EXCEPT ![h].item = FolderItem(f), ![h].stage = "checkParent"]
  /\ UNCHANGED <<memberVars, calls, faults, registrar, files, mounts, callRows,
                 placed, strayed, revived>>

CheckParent(h) ==
  Read(h, "checkParent", Exists(call[h].parent) /\ ProjectOf(call[h].parent) = call[h].project, "checkMount")

CheckMount(h) == Read(h, "checkMount", MayMountIn(call[h].user, call[h].parent), "insertMount")

InsertMount(h) ==
  /\ call[h].stage = "insertMount"
  /\ mounts' = mounts \cup {[parent |-> call[h].parent, child |-> call[h].item]}
  /\ placed' = IF call[h].item.type = "folder" THEN placed \cup {call[h].item.id} ELSE placed
  /\ Return(h)
  /\ UNCHANGED <<memberVars, calls, faults, home, folders, registrar, files, callRows, strayed, contested, revived>>

CheckMove(h) ==
  LET f == call[h].item.id  parent == call[h].parent IN
  Read(h, "checkMove", MayEdit(call[h].user, f) /\ Exists(parent) /\ ProjectOf(parent) = home[f], "readOld")

\* GetMountRelationsByChildID checks the folder once more.
ReadOldRelations(h) ==
  /\ call[h].stage = "readOld"
  /\ LET old == MountsOfChild(call[h].item) IN
     IF MayEdit(call[h].user, call[h].item.id)
     THEN /\ call' = [call EXCEPT ![h].olds = old, ![h].stage = IF old = {} THEN "checkMount" ELSE "findRelation"]
          /\ UNCHANGED strayed
     ELSE Abandon(h)
  /\ UNCHANGED <<memberVars, calls, faults, editVars, placed, contested, revived>>

\* DeleteMountRelation looks for the pair of numbers, first under a folder, then
\* under a root.  What is gone already is no error; a parent that is gone is one.
ReturnAfterRemoval(h, m) == Idle    \* Mutant of AfterRemoval: a move returns from its loop
AfterRemoval(h, m) ==
  IF call[h].op = "unmountFile" THEN Idle
  ELSE [call[h] EXCEPT !.olds = @ \ {m}, !.stage = IF call[h].olds = {m} THEN "checkMount" ELSE "findRelation"]

FindRelation(h) ==
  /\ call[h].stage = "findRelation"
  /\ \E m \in call[h].olds :
       LET found == MountsOfPair(m.parent.id, m.child.id)
           underFolder == {n \in found : n.parent.type = "folder"}
           reachable == MayMountIn(call[h].user, IF underFolder # {} THEN FolderItem(m.parent.id) ELSE RootRef(m.parent.id))
       IN \/ /\ found = {}
             /\ call' = [call EXCEPT ![h] = AfterRemoval(h, m)] /\ UNCHANGED strayed
          \/ /\ found # {} /\ reachable
             /\ call' = [call EXCEPT ![h].target = m, ![h].stage = "dropRelation"] /\ UNCHANGED strayed
          \/ /\ found # {} /\ ~reachable
             /\ Abandon(h)
  /\ UNCHANGED <<memberVars, calls, faults, editVars, placed, contested, revived>>

DropRelation(h) ==
  /\ call[h].stage = "dropRelation"
  /\ LET m == call[h].target
         dropped == MountsOfPair(m.parent.id, m.child.id)
     IN /\ mounts' = mounts \ dropped
        /\ strayed' = strayed \cup {n.child.id : n \in {k \in dropped : k.child \in FolderItems \ {m.child}}}
        /\ call' = [call EXCEPT ![h] = [AfterRemoval(h, m) EXCEPT !.target = None]]
  /\ UNCHANGED <<memberVars, calls, faults, home, folders, registrar, files, callRows, placed, contested, revived>>

ReadFolder(h) == Read(h, "readFolder", MayEdit(call[h].user, call[h].item.id), "saveFolder")

\* Save writes the row as it was read, DeletedAt included: a row deleted in
\* between is updated nowhere and then inserted again (gorm's upsert).
SaveFolder(h) ==
  /\ call[h].stage = "saveFolder"
  /\ folders' = folders \cup {call[h].item.id}
  /\ revived' = IF call[h].item.id \in folders THEN revived ELSE revived \cup {Subject(call[h])}
  /\ Return(h)
  /\ UNCHANGED <<memberVars, calls, faults, home, registrar, files, mounts, callRows, placed, strayed, contested>>

FindFolder(h) == Read(h, "findFolder", MayEdit(call[h].user, call[h].item.id), "dropFolder")

\* The row alone: relations from and to the folder stay.
DropFolder(h) ==
  /\ call[h].stage = "dropFolder"
  /\ folders' = folders \ {call[h].item.id}
  /\ Return(h)
  /\ UNCHANGED <<memberVars, calls, faults, home, registrar, files, mounts, callRows, history>>

-----------------------------------------------------------------------------
(* Calls: item is the caller, parent the called folder.                    *)

CheckCall(h) ==
  LET inProject(f) == f \in folders /\ home[f] = call[h].project
  IN Read(h, "checkCall", inProject(call[h].item.id) /\ inProject(call[h].parent.id), "findCall")

FindNoCall(h) == Read(h, "findCall", TRUE, "insertCall")   \* Mutant of FindCall: what exists is not looked for
FindCall(h) == Read(h, "findCall", callRows[Subject(call[h])] = 0, "insertCall")

InsertCall(h) ==
  /\ call[h].stage = "insertCall"
  /\ callRows' = [callRows EXCEPT ![Subject(call[h])] = @ + 1]
  /\ Return(h)
  /\ UNCHANGED <<memberVars, calls, faults, home, folders, registrar, files, mounts, history>>

-----------------------------------------------------------------------------
(* Files                                                                   *)

InsertFile(h) ==
  /\ call[h].stage = "insertFile"
  /\ \E x \in FileIds :
       /\ registrar[x] = None
       /\ registrar' = [registrar EXCEPT ![x] = call[h].user]
       /\ files' = files \cup {x}
  /\ Return(h)
  /\ UNCHANGED <<memberVars, calls, faults, home, folders, mounts, callRows, history>>

\* Anybody's file may be mounted and unmounted.
CheckFile(h) ==
  /\ call[h].stage = "checkFile"
  /\ IF call[h].item.id \notin files THEN Return(h)
     ELSE IF call[h].op = "mountFile" THEN Goto(h, "checkMount")
     ELSE call' = [call EXCEPT ![h].olds = {[parent |-> call[h].parent, child |-> call[h].item]},
                               ![h].stage = "findRelation"]
  /\ UNCHANGED <<memberVars, calls, faults, editVars, history>>

FindFile(h) ==
  Read(h, "findFile", call[h].item.id \in files /\ registrar[call[h].item.id] = call[h].user, "dropFile")

DropFile(h) ==
  /\ call[h].stage = "dropFile"
  /\ files' = files \ {call[h].item.id}
  /\ Return(h)
  /\ UNCHANGED <<memberVars, calls, faults, home, folders, registrar, mounts, callRows, history>>

ReadFile(h) == Read(h, "readFile", call[h].item.id \in files, "saveFile")

SaveFile(h) ==
  /\ call[h].stage = "saveFile"
  /\ files' = files \cup {call[h].item.id}
  /\ revived' = IF call[h].item.id \in files THEN revived ELSE revived \cup {Subject(call[h])}
  /\ Return(h)
  /\ UNCHANGED <<memberVars, calls, faults, home, folders, registrar, mounts, callRows, placed, strayed, contested>>

-----------------------------------------------------------------------------
EditStep(h) ==
  \/ CreateVirtualFolder(h) \/ UpdateVirtualFolder(h) \/ DeleteVirtualFolder(h) \/ MoveVirtualFolder(h)
  \/ CreateCallRelation(h) \/ LoginFile(h) \/ NewMount(h) \/ DeleteMount(h) \/ LogoutFile(h) \/ NewRename(h)
  \/ CheckRoot(h) \/ InsertFolder(h) \/ CheckParent(h) \/ CheckMount(h) \/ InsertMount(h)
  \/ CheckMove(h) \/ ReadOldRelations(h) \/ FindRelation(h) \/ DropRelation(h)
  \/ ReadFolder(h) \/ SaveFolder(h) \/ FindFolder(h) \/ DropFolder(h)
  \/ CheckCall(h) \/ FindCall(h) \/ InsertCall(h)
  \/ InsertFile(h) \/ CheckFile(h) \/ FindFile(h) \/ DropFile(h) \/ ReadFile(h) \/ SaveFile(h)
  \/ Fail(h)

Next == \E h \in Handlers : EditStep(h) \/ (MemberStep(h) /\ UNCHANGED <<editVars, history>>)

Spec == Init /\ [][Next]_vars

-----------------------------------------------------------------------------
(* Properties                                                              *)

FolderMounts(f) == MountsOfChild(FolderItem(f))
BeingMoved(f) == \E h \in Handlers : call[h].op = "moveFolder" /\ call[h].item = FolderItem(f)

\* A folder that was mounted once is mounted whenever no move of it is under way,
\* however many moves of it overlapped (each deletes what it has read and then
\* inserts), but for two cases: a move of it ended early, or a file of the same
\* number was unmounted from the same parent (DeleteMountRelation selects by the
\* two numbers alone, and folders and files are both numbered from 1).
FoldersKeepAPlace ==
  \A f \in placed \ strayed : BeingMoved(f) \/ FolderMounts(f) # {}

\* Two fathers for one folder, or two rows for one call, come only from requests
\* on the same folder or call that overlapped: every single request, and any
\* sequence of them with failures, leaves one.
DuplicatesAreContested ==
  /\ \A f \in FolderIds : Cardinality(FolderMounts(f)) > 1 => <<FolderItem(f), FolderItem(f)>> \in contested
  /\ \A c \in CallPairs : callRows[c] > 1 => c \in contested

\* A folder or file that was deleted is there again only when a request on it
\* overlapped with another: a rename that had read it before it was deleted.
RevivedWereContested == revived \subseteq contested
=============================================================================
