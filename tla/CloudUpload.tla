---------------------------- MODULE CloudUpload ----------------------------
(***************************************************************************)
(* Uploads to the object store (cloud_file_service.go,                     *)
(* cloud_file_approval_service.go and their repositories) in one project:  *)
(* a member asks for an upload, an admin decides, the member fetches a     *)
(* presigned URL, puts the object and reports it; other members download   *)
(* it and report what they have.  A handler makes one call to Redis, the   *)
(* database or the store per step.                                         *)
(***************************************************************************)
EXTENDS Naturals, Sequences, FiniteSets

CONSTANTS
  Users, Admins, Files,
  Handlers,                  \* goroutines that serve requests
  None,
  Days,                      \* an object's key holds the day and the file
  MaxApprovals, MaxPuts,     \* bounds on approval numbers and on uploads to a key
  MaxCalls, MaxFaults        \* bounds on requests and on failing calls

ASSUME BoundsAssumption == {MaxApprovals, MaxPuts, MaxCalls, MaxFaults} \subseteq Nat
ASSUME DaysAssumption == Days \subseteq Nat /\ 1 \in Days

VARIABLES
  approvals,    \* approvals[i]: the approval stored under number i, None if there is none
  userIndex,    \* approvals in user:{u}:cloudfile_approvals
  projectIndex, \* approvals in project:{p}:cloudfile_approvals
  lastId,       \* cloudfile:approval:id
  day,          \* today
  urls,         \* presigned URLs handed out
  objects,      \* objects[k]: how often key k was uploaded; stands for its ETag, 0 if absent
  rows,         \* rows of new_cloud_files, in the order of their ids
  locals,       \* rows of new_cloud_file_locals, in the order of their ids
  call, calls, faults,
  contested,    \* history: subjects on which two requests were under way at a time,
                \* or one went on without the approvals that it could not read
  completed     \* history: completed[f]: key of the upload of f reported last, None at first

approvalVars == <<approvals, userIndex, projectIndex, lastId>>
storeVars == <<day, urls, objects>>
fileVars == <<rows, locals>>
history == <<contested, completed>>
vars == <<approvalVars, storeVars, fileVars, call, calls, faults, history>>

Ids == 1..MaxApprovals
Keys == [day : Days, file : Files]

Idle == [op |-> "none", stage |-> "idle", user |-> None, subject |-> None, file |-> None,
         id |-> 0, key |-> None, etag |-> 0, row |-> 0]

Init ==
  /\ approvals = [i \in Ids |-> None] /\ userIndex = {} /\ projectIndex = {} /\ lastId = 0
  /\ day = 1 /\ urls = {} /\ objects = [k \in Keys |-> 0]
  /\ rows = <<>> /\ locals = <<>>
  /\ call = [h \in Handlers |-> Idle] /\ calls = 0 /\ faults = 0
  /\ contested = {} /\ completed = [f \in Files |-> None]

\* What a request may come too late for.
Subjects == ({"prepare"} \X Users \X Files) \cup ({"approve"} \X {None} \X Ids)
              \cup ({"complete"} \X {None} \X Files)
ASSUME NoneAssumption == None \notin Subjects

Begin(h, c) ==
  /\ call[h] = Idle /\ calls < MaxCalls
  /\ calls' = calls + 1
  /\ call' = [call EXCEPT ![h] = c]
  /\ contested' = contested \cup (({call[g].subject : g \in Handlers} \cap {c.subject}) \ {None})
  /\ UNCHANGED <<approvalVars, storeVars, fileVars, faults, completed>>

Goto(h, stage) == call' = [call EXCEPT ![h].stage = stage]
Return(h) == call' = [call EXCEPT ![h] = Idle]

Fail(h) ==
  /\ call[h].stage \notin {"idle", "createLocal"}
  /\ faults < MaxFaults /\ faults' = faults + 1
  /\ Return(h)
  /\ UNCHANGED <<approvalVars, storeVars, fileVars, calls, history>>

-----------------------------------------------------------------------------
(* PrepareUpload: reading a user's approvals (the index, then each of      *)
(* them) is one step.  A failing read of the index ends the request        *)
(* (Fail), one of an approval hides that approval.                         *)

PrepareUpload(h) ==
  \E u \in Users, f \in Files :
    Begin(h, [Idle EXCEPT !.op = "prepare", !.stage = "findWaiting", !.user = u, !.file = f,
                          !.subject = <<"prepare", u, f>>])

Stored(i) == i \in Ids /\ approvals[i] # None
ApprovalsOf(u, f) == {i \in userIndex : Stored(i) /\ approvals[i].user = u /\ approvals[i].file = f}
DecidedApprovals(u, f) ==     \* Mutant of WaitingApprovals: another status is looked for
  {i \in ApprovalsOf(u, f) : approvals[i].status = "approved"}
WaitingApprovals(u, f) == {i \in ApprovalsOf(u, f) : approvals[i].status = "waiting"}

FindWaiting(h) ==
  /\ call[h].stage = "findWaiting"
  /\ IF WaitingApprovals(call[h].user, call[h].file) # {} THEN Return(h) ELSE Goto(h, "takeId")
  /\ UNCHANGED <<approvalVars, storeVars, fileVars, calls, faults, history>>

\* GetApprovalsByUserID continues past the approvals whose GET fails, here all that wait.
OverlookWaiting(h) ==
  /\ call[h].stage = "findWaiting" /\ WaitingApprovals(call[h].user, call[h].file) # {}
  /\ faults < MaxFaults /\ faults' = faults + 1
  /\ contested' = contested \cup {call[h].subject}
  /\ Goto(h, "takeId")
  /\ UNCHANGED <<approvalVars, storeVars, fileVars, calls, completed>>

TakeId(h) ==
  /\ call[h].stage = "takeId" /\ lastId < MaxApprovals
  /\ lastId' = lastId + 1
  /\ call' = [call EXCEPT ![h].id = lastId + 1, ![h].stage = "storeApproval"]
  /\ UNCHANGED <<approvals, userIndex, projectIndex, storeVars, fileVars, calls, faults, history>>

StoreApproval(h) ==
  /\ call[h].stage = "storeApproval"
  /\ approvals' = [approvals EXCEPT ![call[h].id] =
                     [user |-> call[h].user, file |-> call[h].file, status |-> "waiting", by |-> None]]
  /\ Goto(h, "indexProject")
  /\ UNCHANGED <<userIndex, projectIndex, lastId, storeVars, fileVars, calls, faults, history>>

IndexByProject(h) ==
  /\ call[h].stage = "indexProject"
  /\ projectIndex' = projectIndex \cup {call[h].id}
  /\ Goto(h, "indexUser")
  /\ UNCHANGED <<approvals, userIndex, lastId, storeVars, fileVars, calls, faults, history>>

IndexByUser(h) ==
  /\ call[h].stage = "indexUser"
  /\ userIndex' = userIndex \cup {call[h].id}
  /\ Return(h)
  /\ UNCHANGED <<approvals, projectIndex, lastId, storeVars, fileVars, calls, faults, history>>

\* The keys of approvals live seven days, the indexes for ever.
ExpireApproval ==
  /\ \E i \in Ids : approvals[i] # None /\ approvals' = [approvals EXCEPT ![i] = None]
  /\ UNCHANGED <<userIndex, projectIndex, lastId, storeVars, fileVars, call, calls, faults, history>>

-----------------------------------------------------------------------------
(* ApproveApproval.  An admin picks from a list read some time ago; the    *)
(* handler's binding lets only approvals pass, never a refusal.            *)

ApproveApproval(h) ==
  \E a \in Admins, i \in projectIndex :
    Begin(h, [Idle EXCEPT !.op = "approve", !.stage = "checkWaiting", !.user = a, !.id = i,
                          !.subject = <<"approve", None, i>>])

IsStored(i) == Stored(i)    \* Mutant of MayBeDecided: it is not asked whether it still waits
MayBeDecided(i) == Stored(i) /\ approvals[i].status = "waiting"

CheckWaiting(h) ==
  /\ call[h].stage = "checkWaiting"
  /\ IF MayBeDecided(call[h].id) THEN Goto(h, "readAgain") ELSE Return(h)
  /\ UNCHANGED <<approvalVars, storeVars, fileVars, calls, faults, history>>

\* UpdateApprovalStatus reads the approval again, without a check, and stores it whole.
ReadAgain(h) ==
  /\ call[h].stage = "readAgain"
  /\ IF Stored(call[h].id)
     THEN call' = [call EXCEPT ![h].stage = "storeStatus", ![h].file = approvals[call[h].id]]
     ELSE Return(h)
  /\ UNCHANGED <<approvalVars, storeVars, fileVars, calls, faults, history>>

StoreStatus(h) ==
  /\ call[h].stage = "storeStatus"
  /\ approvals' = [approvals EXCEPT ![call[h].id] =
                     [call[h].file EXCEPT !.status = "approved", !.by = call[h].user]]
  /\ Return(h)
  /\ UNCHANGED <<userIndex, projectIndex, lastId, storeVars, fileVars, calls, faults, history>>

-----------------------------------------------------------------------------
(* The URL and the object                                                  *)

GetUploadURL(h) ==
  \E i \in userIndex :
    /\ Stored(i)
    /\ Begin(h, [Idle EXCEPT !.op = "url", !.stage = "checkApproved", !.user = approvals[i].user, !.id = i])

\* An approval stays approved: it serves any number of uploads until it expires.
CheckApproved(h) ==
  /\ call[h].stage = "checkApproved"
  /\ LET i == call[h].id IN
     IF Stored(i) /\ approvals[i].user = call[h].user /\ approvals[i].status = "approved"
     THEN call' = [call EXCEPT ![h].stage = "presign", ![h].file = approvals[i].file]
     ELSE Return(h)
  /\ UNCHANGED <<approvalVars, storeVars, fileVars, calls, faults, history>>

GenerateKey(f) == [day |-> day, file |-> f]

Presign(h) ==
  /\ call[h].stage = "presign"
  /\ urls' = urls \cup {[user |-> call[h].user, key |-> GenerateKey(call[h].file)]}
  /\ Return(h)
  /\ UNCHANGED <<approvalVars, day, objects, fileVars, calls, faults, history>>

\* The client and the store.
PutObject ==
  /\ \E url \in urls :
       objects[url.key] < MaxPuts /\ objects' = [objects EXCEPT ![url.key] = @ + 1]
  /\ UNCHANGED <<approvalVars, day, urls, fileVars, call, calls, faults, history>>

NextDay ==
  /\ day + 1 \in Days /\ day' = day + 1
  /\ UNCHANGED <<approvalVars, urls, objects, fileVars, call, calls, faults, history>>

-----------------------------------------------------------------------------
(* CompleteUpload: the client reports a key that it was given.  No         *)
(* approval is asked for here.                                             *)

CompleteUpload(h) ==
  \E url \in urls :
    Begin(h, [Idle EXCEPT !.op = "complete", !.stage = "verify", !.user = url.user, !.key = url.key,
                          !.file = url.key.file, !.subject = <<"complete", None, url.key.file>>])

VerifyUpload(h) ==
  /\ call[h].stage = "verify"
  /\ IF objects[call[h].key] = 0 THEN Return(h)
     ELSE call' = [call EXCEPT ![h].etag = objects[call[h].key], ![h].stage = "findRow"]
  /\ UNCHANGED <<approvalVars, storeVars, fileVars, calls, faults, history>>

First(S) == IF S = {} THEN 0 ELSE CHOOSE i \in S : \A j \in S : i <= j
NoRow(f) == 0                 \* Mutant of RowOf: the existing record is not found
RowOf(f) == First({i \in DOMAIN rows : rows[i].file = f})

\* ExistsByNewRealFileID and GetByNewRealFileID; rows are never deleted.
FindRow(h) ==
  /\ call[h].stage = "findRow"
  /\ call' = [call EXCEPT ![h].row = RowOf(call[h].file), ![h].stage = "writeRow"]
  /\ UNCHANGED <<approvalVars, storeVars, fileVars, calls, faults, history>>

KeyKept(row, h) == row     \* Mutant of Updated: the record keeps the key it had
Updated(row, h) == [file |-> call[h].file, key |-> call[h].key]

\* cloud_storage_key is unique.
WriteRow(h) ==
  /\ call[h].stage = "writeRow"
  /\ LET r == call[h].row
         taken == \E i \in DOMAIN rows : i # r /\ rows[i].key = call[h].key
     IN \/ /\ taken
           /\ Return(h) /\ UNCHANGED rows
        \/ /\ ~taken
           /\ IF r = 0
              THEN /\ rows' = Append(rows, [file |-> call[h].file, key |-> call[h].key])
                   /\ call' = [call EXCEPT ![h].row = Len(rows) + 1, ![h].stage = "createLocal"]
              ELSE rows' = [rows EXCEPT ![r] = Updated(@, h)] /\ Goto(h, "createLocal")
  /\ UNCHANGED <<approvalVars, storeVars, locals, calls, faults, history>>

LocalRow(h) == [user |-> call[h].user, row |-> call[h].row, etag |-> call[h].etag]

\* Without a look for an earlier record; an error here is ignored.
CreateLocal(h) ==
  /\ call[h].stage = "createLocal"
  /\ completed' = [completed EXCEPT ![call[h].file] = call[h].key]
  /\ \/ locals' = Append(locals, LocalRow(h)) /\ UNCHANGED faults
     \/ faults < MaxFaults /\ faults' = faults + 1 /\ UNCHANGED locals
  /\ Return(h)
  /\ UNCHANGED <<approvalVars, storeVars, rows, calls, contested>>

-----------------------------------------------------------------------------
(* SyncCloudFile: a member has downloaded the object some time ago.        *)

Downloadable(r) == {e \in 1..MaxPuts : e <= objects[rows[r].key]}

SyncCloudFile(h) ==
  \E u \in Users, r \in DOMAIN rows : \E e \in Downloadable(r) :
    Begin(h, [Idle EXCEPT !.op = "sync", !.stage = "readRow", !.user = u, !.row = r, !.etag = e,
                          !.subject = <<"sync", u, r>>])

ReadRow(h) ==
  /\ call[h].stage = "readRow"
  /\ call' = [call EXCEPT ![h].key = rows[call[h].row].key, ![h].stage = "compare"]
  /\ UNCHANGED <<approvalVars, storeVars, fileVars, calls, faults, history>>

CompareETag(h) ==
  /\ call[h].stage = "compare"
  /\ IF objects[call[h].key] = call[h].etag THEN Goto(h, "findLocal") ELSE Return(h)
  /\ UNCHANGED <<approvalVars, storeVars, fileVars, calls, faults, history>>

LocalOf(u, r) == First({i \in DOMAIN locals : locals[i].user = u /\ locals[i].row = r})

FindLocal(h) ==
  /\ call[h].stage = "findLocal"
  /\ call' = [call EXCEPT ![h].id = LocalOf(call[h].user, call[h].row), ![h].stage = "writeLocal"]
  /\ UNCHANGED <<approvalVars, storeVars, fileVars, calls, faults, history>>

WriteLocal(h) ==
  /\ call[h].stage = "writeLocal"
  /\ locals' = IF call[h].id = 0 THEN Append(locals, LocalRow(h))
               ELSE [locals EXCEPT ![call[h].id] = LocalRow(h)]
  /\ Return(h)
  /\ UNCHANGED <<approvalVars, storeVars, rows, calls, faults, contested, completed>>

-----------------------------------------------------------------------------
Next ==
  \/ \E h \in Handlers :
       \/ PrepareUpload(h) \/ FindWaiting(h) \/ OverlookWaiting(h)
       \/ TakeId(h) \/ StoreApproval(h) \/ IndexByProject(h) \/ IndexByUser(h)
       \/ ApproveApproval(h) \/ CheckWaiting(h) \/ ReadAgain(h) \/ StoreStatus(h)
       \/ GetUploadURL(h) \/ CheckApproved(h) \/ Presign(h)
       \/ CompleteUpload(h) \/ VerifyUpload(h) \/ FindRow(h) \/ WriteRow(h) \/ CreateLocal(h)
       \/ SyncCloudFile(h) \/ ReadRow(h) \/ CompareETag(h) \/ FindLocal(h) \/ WriteLocal(h)
       \/ Fail(h)
  \/ ExpireApproval \/ PutObject \/ NextDay

Spec == Init /\ [][Next]_vars

-----------------------------------------------------------------------------
(* Properties                                                              *)

\* A member's file has two approvals that wait in the user's index only when two
\* requests for it overlapped, or one could not read an approval that waited and
\* took it for absent (GetApprovalsByUserID); no other failure brings a second one.
OneApprovalWaits ==
  \A u \in Users, f \in Files :
    Cardinality({i \in ApprovalsOf(u, f) : approvals[i].status = "waiting"}) > 1
      => <<"prepare", u, f>> \in contested

\* A decision stands: who approved is changed only by two decisions on one
\* approval that overlapped, each having seen it wait.  An approval that expires
\* under a decision comes back decided, never waiting.
DecisionsStand ==
  [][\A i \in Ids :
       approvals[i] # None /\ approvals'[i] # None /\ approvals[i].status # "waiting"
         => approvals'[i] = approvals[i] \/ <<"approve", None, i>> \in contested]_vars

\* The database holds two records of one file only when two reports of its upload
\* overlapped and the day had changed between their keys.
SecondRowIsContested ==
  \A i, j \in DOMAIN rows : i < j /\ rows[i].file = rows[j].file =>
    rows[i].key # rows[j].key /\ <<"complete", None, rows[i].file>> \in contested

\* The record by which a file is found leads to the object whose upload was
\* reported last, if no two reports of it overlapped.
CompletedUploadsAreServed ==
  \A f \in Files :
    \/ completed[f] = None
    \/ <<"complete", None, f>> \in contested
    \/ \E h \in Handlers : call[h].op = "complete" /\ call[h].file = f
    \/ rows[RowOf(f)].key = completed[f]
=============================================================================
