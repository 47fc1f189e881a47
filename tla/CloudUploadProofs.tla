------------------------ MODULE CloudUploadProofs ------------------------
(* Proofs about CloudUpload, for every value of its constants.             *)
EXTENDS CloudUpload, FiniteSetTheorems, WellFoundedInduction, TLAPS

(***************************************************************************)
(* The inductive invariant: what a request knows at its stage.             *)
(***************************************************************************)

Prepared(u, f) == <<"prepare", u, f>>
Decided(i) == <<"approve", None, i>>
Reported(f) == <<"complete", None, f>>

Holding == {"storeApproval", "indexProject", "indexUser"}
PrepareStages == {"findWaiting", "takeId"} \cup Holding
ApproveStages == {"checkWaiting", "readAgain", "storeStatus"}
UrlStages == {"checkApproved", "presign"}
CompleteStages == {"verify", "findRow", "writeRow", "createLocal"}
SyncStages == {"readRow", "compare", "findLocal", "writeLocal"}

Approvals == [user : Users, file : Files, status : {"waiting", "approved"}, by : Admins \cup {None}]
Rows == [file : Files, key : Keys]

Shaped(c) == DOMAIN c = {"op", "stage", "user", "subject", "file", "id", "key", "etag", "row"}
WellFormed(c) ==
  /\ Shaped(c)
  /\ c.stage \in {"idle"} \cup PrepareStages \cup ApproveStages \cup UrlStages \cup CompleteStages \cup SyncStages
  /\ c.stage \in PrepareStages =>
       c.user \in Users /\ c.file \in Files /\ c.subject = Prepared(c.user, c.file)
  /\ c.stage \in ApproveStages => c.user \in Admins /\ c.id \in Ids /\ c.subject = Decided(c.id)
  /\ c.stage = "storeStatus" => c.file \in Approvals
  /\ c.stage \in UrlStages => c.user \in Users
  /\ c.stage = "presign" => c.file \in Files
  /\ c.stage \in CompleteStages =>
       c.op = "complete" /\ c.key \in Keys /\ c.file = c.key.file /\ c.subject = Reported(c.file)

TypesOK ==
  /\ DOMAIN call = Handlers /\ \A h \in Handlers : WellFormed(call[h])
  /\ approvals \in [Ids -> Approvals \cup {None}]
  /\ lastId \in Nat /\ lastId <= MaxApprovals
  /\ userIndex \subseteq 1..lastId /\ projectIndex \subseteq 1..lastId
  /\ day \in Days /\ urls \subseteq [user : Users, key : Keys]
  /\ rows \in Seq(Rows) /\ completed \in [Files -> Keys \cup {None}]

\* Requests that overlap on a subject are known.
OverlapsAreKnown ==
  \A h, g \in Handlers : h # g /\ call[h].subject = call[g].subject /\ call[h].subject # None
    => call[h].subject \in contested

\* A key is stored once; so is a file, unless two reports of it overlapped.
RowsAreKnown ==
  /\ \A i, j \in DOMAIN rows : rows[i].key = rows[j].key => i = j
  /\ \A i \in DOMAIN rows : rows[i].key.file = rows[i].file
  /\ \A i, j \in DOMAIN rows : i # j /\ rows[i].file = rows[j].file => Reported(rows[i].file) \in contested

\* The row that a report has found, or has written.
FoundRow(c) ==
  c.stage = "writeRow" =>
    \/ c.row \in DOMAIN rows /\ rows[c.row].file = c.file
    \/ c.row = 0 /\ (Reported(c.file) \in contested \/ \A i \in DOMAIN rows : rows[i].file # c.file)
WroteRow(c) ==
  c.stage = "createLocal" /\ Reported(c.file) \notin contested =>
    c.row \in DOMAIN rows /\ rows[c.row].file = c.file /\ rows[c.row].key = c.key
ReportsAreKnown == \A h \in Handlers : FoundRow(call[h]) /\ WroteRow(call[h])

\* The row of a file has the key that was reported last, or the next one.
Reporting(c, f) == c.stage = "createLocal" /\ c.file = f
Served(f) == \E i \in DOMAIN rows : rows[i].file = f /\ rows[i].key = completed[f]
FilesAreServed ==
  \A f \in Files : Reported(f) \notin contested =>
    completed[f] = None \/ Served(f) \/ \E h \in Handlers : Reporting(call[h], f)

\* A number belongs to the request that took it, and to nobody else until it is indexed.
Fresh(c) ==
  /\ c.stage \in Holding => c.id \in 1..lastId /\ c.id \notin userIndex
  /\ c.stage \in {"storeApproval", "indexProject"} => c.id \notin projectIndex
  /\ c.stage = "storeApproval" => approvals[c.id] = None
  /\ c.stage \in Holding /\ Stored(c.id) => approvals[c.id].user = c.user /\ approvals[c.id].file = c.file
NumbersAreFresh ==
  /\ \A h \in Handlers : Fresh(call[h])
  /\ \A i \in Ids : i > lastId => approvals[i] = None
  /\ \A h, g \in Handlers : h # g /\ call[h].stage \in Holding /\ call[g].stage \in Holding
       => call[h].id # call[g].id

\* A decision is about an approval of the project's list, and that waits unless another
\* decision on it overlapped.
Deciding(c) ==
  /\ c.stage \in ApproveStages => c.id \in projectIndex
  /\ c.stage \in {"readAgain", "storeStatus"} /\ Decided(c.id) \notin contested =>
       approvals[c.id] = None \/ approvals[c.id].status = "waiting"
DecidesWhatWasPrepared(c, d) ==
  c.stage \in Holding /\ d.stage = "storeStatus" /\ c.id = d.id =>
    d.file.user = c.user /\ d.file.file = c.file
DecisionsAreKnown ==
  /\ \A h \in Handlers : Deciding(call[h])
  /\ \A h, g \in Handlers : DecidesWhatWasPrepared(call[h], call[g])

\* One approval waits for a member and a file, and none while another is being stored.
Waits(u, f, i) == i \in userIndex /\ Stored(i) /\ approvals[i].user = u /\ approvals[i].file = f
                    /\ approvals[i].status = "waiting"
NoneWaits(c) ==
  c.stage \in {"takeId"} \cup Holding /\ c.subject \notin contested =>
    \A i \in Ids : ~Waits(c.user, c.file, i)
OneWaits ==
  /\ \A h \in Handlers : NoneWaits(call[h])
  /\ \A u \in Users, f \in Files : Prepared(u, f) \notin contested =>
       \A i, j \in Ids : Waits(u, f, i) /\ Waits(u, f, j) => i = j

FileInv == RowsAreKnown /\ ReportsAreKnown /\ FilesAreServed
ApprovalInv == NumbersAreFresh /\ DecisionsAreKnown /\ OneWaits
Inv == TypesOK /\ OverlapsAreKnown /\ FileInv /\ ApprovalInv

-----------------------------------------------------------------------------
(* Requests, and steps that change no more than a request.                 *)

LEMMA FirstFacts ==
  ASSUME NEW S \in SUBSET Nat, S # {}
  PROVE  First(S) \in S
<1> DEFINE R == OpToRel(<, Nat)
<1>1. IsWellFoundedOn(R, Nat)
  BY NatLessThanWellFounded
<1>2. \A x, y \in Nat : y < x => <<y, x>> \in R
  BY DEF OpToRel
<1> HIDE DEF R
<1>3. PICK i \in S : \A j \in S : <<j, i>> \notin R
  BY <1>1, WFMin
<1>4. \A j \in S : i <= j
  <2> TAKE j \in S
  <2>1. i \in Nat /\ j \in Nat /\ ~(j < i)
    BY <1>2, <1>3
  <2> QED
    BY <2>1
<1> QED
  BY <1>4 DEF First

LEMMA IdleFacts == WellFormed(Idle) /\ Idle.stage = "idle" /\ Idle.subject = None
BY DEF Idle, WellFormed, Shaped, PrepareStages, Holding, ApproveStages, UrlStages, CompleteStages, SyncStages

LEMMA Staged ==
  ASSUME NEW c, Shaped(c), NEW s
  PROVE  /\ Shaped([c EXCEPT !.stage = s]) /\ [c EXCEPT !.stage = s].stage = s
         /\ [c EXCEPT !.stage = s].op = c.op /\ [c EXCEPT !.stage = s].user = c.user
         /\ [c EXCEPT !.stage = s].subject = c.subject /\ [c EXCEPT !.stage = s].file = c.file
         /\ [c EXCEPT !.stage = s].id = c.id /\ [c EXCEPT !.stage = s].key = c.key
         /\ [c EXCEPT !.stage = s].row = c.row
BY DEF Shaped

LEMMA CallChange ==
  ASSUME Inv, NEW h \in Handlers, NEW c, call' = [call EXCEPT ![h] = c]
  PROVE  /\ call'[h] = c /\ DOMAIN call' = Handlers
         /\ \A g \in Handlers : g # h => call'[g] = call[g]
BY DEF Inv, TypesOK

LEMMA OverlapStep ==
  ASSUME Inv, NEW h \in Handlers, NEW c, call' = [call EXCEPT ![h] = c], contested \subseteq contested',
         \A g \in Handlers : g # h /\ c.subject = call[g].subject /\ c.subject # None => c.subject \in contested'
  PROVE  OverlapsAreKnown'
BY CallChange DEF Inv, OverlapsAreKnown

\* A subject that two requests share was disturbed.
LEMMA Shared ==
  ASSUME Inv, NEW h \in Handlers, NEW g \in Handlers, h # g, call[h].subject = call[g].subject,
         call[h].subject \in Subjects
  PROVE  call[h].subject \in contested
BY NoneAssumption DEF Inv, OverlapsAreKnown

LEMMA FilesQuiet ==
  ASSUME Inv, NEW h \in Handlers, NEW c, call' = [call EXCEPT ![h] = c],
         UNCHANGED <<rows, completed>>, contested \subseteq contested',
         FoundRow(c), WroteRow(c), call[h].stage # "createLocal"
  PROVE  FileInv'
<1>1. /\ call'[h] = c /\ DOMAIN call' = Handlers
      /\ \A g \in Handlers : g # h => call'[g] = call[g]
  BY CallChange
<1>2. RowsAreKnown'
  BY DEF Inv, FileInv, RowsAreKnown
<1>3. ReportsAreKnown'
  BY <1>1 DEF Inv, FileInv, ReportsAreKnown, FoundRow, WroteRow
<1>4. FilesAreServed'
  <2>1. \A f \in Files : Served(f)' <=> Served(f)
    BY DEF Served
  <2>2. \A f \in Files, g \in Handlers : Reporting(call[g], f) => Reporting(call[g], f)'
    BY <1>1 DEF Reporting
  <2> QED
    BY <2>1, <2>2 DEF Inv, FileInv, FilesAreServed
<1> QED
  BY <1>2, <1>3, <1>4 DEF FileInv

LEMMA ApprovalsQuiet ==
  ASSUME Inv, NEW h \in Handlers, NEW c, call' = [call EXCEPT ![h] = c],
         UNCHANGED approvalVars, contested \subseteq contested',
         c.stage \notin Holding, Deciding(c), NoneWaits(c) \/ c.subject \in contested',
         \A g \in Handlers : DecidesWhatWasPrepared(call[g], c)
  PROVE  ApprovalInv'
<1> USE DEF Inv, ApprovalInv, approvalVars
<1>1. /\ call'[h] = c /\ DOMAIN call' = Handlers
      /\ \A g \in Handlers : g # h => call'[g] = call[g]
  BY CallChange
<1>2. NumbersAreFresh'
  <2>1. Fresh(c)
    BY DEF Fresh, Holding
  <2> QED
    BY <1>1, <2>1 DEF NumbersAreFresh, Fresh, Stored
<1>3. DecisionsAreKnown'
  <2>1. \A x : DecidesWhatWasPrepared(c, x)
    BY DEF DecidesWhatWasPrepared
  <2>2. \A g \in Handlers : Deciding(call[g])'
    BY <1>1 DEF DecisionsAreKnown, Deciding
  <2>3. ASSUME NEW f \in Handlers, NEW g \in Handlers PROVE DecidesWhatWasPrepared(call'[f], call'[g])
    BY <1>1, <2>1 DEF DecisionsAreKnown
  <2> QED
    BY <2>2, <2>3 DEF DecisionsAreKnown
<1>4. OneWaits'
  <2>1. \A u, f, i : Waits(u, f, i)' <=> Waits(u, f, i)
    BY DEF Waits, Stored
  <2>2. \A g \in Handlers : NoneWaits(call[g])'
    BY <1>1, <2>1 DEF OneWaits, NoneWaits
  <2> QED
    BY <2>1, <2>2 DEF OneWaits
<1> QED
  BY <1>2, <1>3, <1>4

LEMMA TypesQuiet ==
  ASSUME Inv, NEW h \in Handlers, NEW c, call' = [call EXCEPT ![h] = c], WellFormed(c),
         UNCHANGED <<approvalVars, rows, completed>>, day' \in Days, urls' \subseteq [user : Users, key : Keys]
  PROVE  TypesOK'
BY CallChange DEF Inv, TypesOK, approvalVars

LEMMA QuietInv ==
  ASSUME Inv, NEW h \in Handlers, NEW c, call' = [call EXCEPT ![h] = c], WellFormed(c),
         UNCHANGED <<approvalVars, rows, completed>>, contested \subseteq contested',
         day' \in Days, urls' \subseteq [user : Users, key : Keys],
         c.subject \in {call[h].subject, None}, FoundRow(c), WroteRow(c), call[h].stage # "createLocal",
         c.stage \notin Holding, Deciding(c), NoneWaits(c) \/ c.subject \in contested',
         \A g \in Handlers : DecidesWhatWasPrepared(call[g], c)
  PROVE  Inv'
<1>1. \A g \in Handlers : g # h /\ c.subject = call[g].subject /\ c.subject # None => c.subject \in contested'
  BY DEF Inv, OverlapsAreKnown
<1>2. FileInv'
  BY FilesQuiet
<1>3. ApprovalInv'
  BY ApprovalsQuiet
<1>4. TypesOK' /\ OverlapsAreKnown'
  BY <1>1, TypesQuiet, OverlapStep
<1> QED
  BY <1>2, <1>3, <1>4 DEF Inv

LEMMA IdleOwesNothing ==
  /\ FoundRow(Idle) /\ WroteRow(Idle) /\ Deciding(Idle) /\ NoneWaits(Idle) /\ Idle.stage \notin Holding
  /\ \A c : DecidesWhatWasPrepared(c, Idle) /\ DecidesWhatWasPrepared(Idle, c)
BY IdleFacts DEF FoundRow, WroteRow, Deciding, NoneWaits, Holding, DecidesWhatWasPrepared, ApproveStages

LEMMA ReturnInv ==
  ASSUME Inv, NEW h \in Handlers, Return(h), call[h].stage # "createLocal",
         UNCHANGED <<approvalVars, rows, completed, contested>>,
         day' \in Days, urls' \subseteq [user : Users, key : Keys]
  PROVE  Inv'
<1>1. call' = [call EXCEPT ![h] = Idle]
  BY DEF Return
<1> QED
  BY <1>1, IdleFacts, IdleOwesNothing, QuietInv

-----------------------------------------------------------------------------
(* Requests that begin.                                                    *)

LEMMA BeginInv ==
  ASSUME Inv, NEW h \in Handlers, NEW c, WellFormed(c), Begin(h, c),
         c.stage \in {"findWaiting", "checkWaiting", "checkApproved", "verify", "readRow"},
         c.stage = "checkWaiting" => c.id \in projectIndex
  PROVE  Inv'
<1>1. /\ call[h] = Idle /\ call' = [call EXCEPT ![h] = c]
      /\ contested' = contested \cup (({call[g].subject : g \in Handlers} \cap {c.subject}) \ {None})
      /\ UNCHANGED <<approvalVars, rows, completed, day, urls>>
  BY DEF Begin, storeVars, fileVars
<1>2. \A g \in Handlers : g # h /\ c.subject = call[g].subject /\ c.subject # None => c.subject \in contested'
  BY <1>1
<1>3. /\ FoundRow(c) /\ WroteRow(c) /\ Deciding(c) /\ NoneWaits(c) /\ c.stage \notin Holding
      /\ \A g \in Handlers : DecidesWhatWasPrepared(call[g], c)
  BY DEF FoundRow, WroteRow, Deciding, NoneWaits, Holding, DecidesWhatWasPrepared, ApproveStages
<1>4. contested \subseteq contested' /\ call[h].stage # "createLocal"
  BY <1>1, IdleFacts
<1>5. FileInv' /\ ApprovalInv'
  BY <1>1, <1>3, <1>4, FilesQuiet, ApprovalsQuiet
<1>6. day' \in Days /\ urls' \subseteq [user : Users, key : Keys]
  BY <1>1 DEF Inv, TypesOK
<1>7. TypesOK' /\ OverlapsAreKnown'
  BY <1>1, <1>2, <1>4, <1>6, TypesQuiet, OverlapStep
<1> QED
  BY <1>5, <1>7 DEF Inv

LEMMA RequestsInv ==
  ASSUME Inv, NEW h \in Handlers,
         PrepareUpload(h) \/ ApproveApproval(h) \/ GetUploadURL(h) \/ CompleteUpload(h) \/ SyncCloudFile(h)
  PROVE  Inv'
<1> USE DEF WellFormed, PrepareStages, Holding, ApproveStages, UrlStages, CompleteStages, SyncStages
<1>1. CASE PrepareUpload(h)
  <2>1. PICK u \in Users, f \in Files :
          Begin(h, [Idle EXCEPT !.op = "prepare", !.stage = "findWaiting", !.user = u, !.file = f,
                                !.subject = <<"prepare", u, f>>])
    BY <1>1 DEF PrepareUpload
  <2> DEFINE c == [Idle EXCEPT !.op = "prepare", !.stage = "findWaiting", !.user = u, !.file = f,
                               !.subject = <<"prepare", u, f>>]
  <2>5. /\ Shaped(c) /\ c.op = "prepare" /\ c.stage = "findWaiting" /\ c.user = u
        /\ c.subject = <<"prepare", u, f>> /\ c.file = f /\ c.id = 0 /\ c.key = None
    BY DEF Idle, Shaped
  <2> HIDE DEF c
  <2>2. WellFormed(c) /\ c.stage = "findWaiting"
    BY <2>5 DEF Prepared
  <2>3. Begin(h, c)
    BY <2>1 DEF c
  <2> QED
    BY <2>2, <2>3, BeginInv
<1>2. CASE ApproveApproval(h)
  <2>1. PICK a \in Admins, i \in projectIndex :
          Begin(h, [Idle EXCEPT !.op = "approve", !.stage = "checkWaiting", !.user = a, !.id = i,
                                !.subject = <<"approve", None, i>>])
    BY <1>2 DEF ApproveApproval
  <2> DEFINE c == [Idle EXCEPT !.op = "approve", !.stage = "checkWaiting", !.user = a, !.id = i,
                               !.subject = <<"approve", None, i>>]
  <2>2. i \in Ids
    BY BoundsAssumption DEF Inv, TypesOK, Ids
  <2>5. /\ Shaped(c) /\ c.op = "approve" /\ c.stage = "checkWaiting" /\ c.user = a
        /\ c.subject = <<"approve", None, i>> /\ c.file = None /\ c.id = i /\ c.key = None
    BY DEF Idle, Shaped
  <2> HIDE DEF c
  <2>3. WellFormed(c) /\ c.stage = "checkWaiting" /\ c.id \in projectIndex
    BY <2>2, <2>5 DEF Decided
  <2>4. Begin(h, c)
    BY <2>1 DEF c
  <2> QED
    BY <2>3, <2>4, BeginInv
<1>3. CASE GetUploadURL(h)
  <2>1. PICK i \in userIndex :
          /\ Stored(i)
          /\ Begin(h, [Idle EXCEPT !.op = "url", !.stage = "checkApproved", !.user = approvals[i].user, !.id = i])
    BY <1>3 DEF GetUploadURL
  <2> DEFINE c == [Idle EXCEPT !.op = "url", !.stage = "checkApproved", !.user = approvals[i].user, !.id = i]
  <2>2. approvals[i].user \in Users
    BY <2>1 DEF Stored, Inv, TypesOK, Approvals
  <2>5. /\ Shaped(c) /\ c.op = "url" /\ c.stage = "checkApproved" /\ c.user = approvals[i].user
        /\ c.subject = None /\ c.file = None /\ c.id = i /\ c.key = None
    BY DEF Idle, Shaped
  <2> HIDE DEF c
  <2>3. WellFormed(c) /\ c.stage = "checkApproved"
    BY <2>2, <2>5
  <2>4. Begin(h, c)
    BY <2>1 DEF c
  <2> QED
    BY <2>3, <2>4, BeginInv
<1>4. CASE CompleteUpload(h)
  <2>1. PICK url \in urls :
          Begin(h, [Idle EXCEPT !.op = "complete", !.stage = "verify", !.user = url.user, !.key = url.key,
                                !.file = url.key.file, !.subject = <<"complete", None, url.key.file>>])
    BY <1>4 DEF CompleteUpload
  <2> DEFINE c == [Idle EXCEPT !.op = "complete", !.stage = "verify", !.user = url.user, !.key = url.key,
                               !.file = url.key.file, !.subject = <<"complete", None, url.key.file>>]
  <2>2. url.key \in Keys
    BY DEF Inv, TypesOK
  <2>5. /\ Shaped(c) /\ c.op = "complete" /\ c.stage = "verify" /\ c.user = url.user
        /\ c.subject = <<"complete", None, url.key.file>> /\ c.file = url.key.file /\ c.id = 0 /\ c.key = url.key
    BY DEF Idle, Shaped
  <2> HIDE DEF c
  <2>3. WellFormed(c) /\ c.stage = "verify"
    BY <2>2, <2>5 DEF Reported
  <2>4. Begin(h, c)
    BY <2>1 DEF c
  <2> QED
    BY <2>3, <2>4, BeginInv
<1>5. CASE SyncCloudFile(h)
  <2>1. PICK u \in Users, r \in DOMAIN rows, e \in 1..MaxPuts :
          Begin(h, [Idle EXCEPT !.op = "sync", !.stage = "readRow", !.user = u, !.row = r, !.etag = e,
                                !.subject = <<"sync", u, r>>])
    BY <1>5 DEF SyncCloudFile, Downloadable
  <2> DEFINE c == [Idle EXCEPT !.op = "sync", !.stage = "readRow", !.user = u, !.row = r, !.etag = e,
                               !.subject = <<"sync", u, r>>]
  <2>5. /\ Shaped(c) /\ c.op = "sync" /\ c.stage = "readRow" /\ c.user = u
        /\ c.subject = <<"sync", u, r>> /\ c.file = None /\ c.id = 0 /\ c.key = None
    BY DEF Idle, Shaped
  <2> HIDE DEF c
  <2>2. WellFormed(c) /\ c.stage = "readRow"
    BY <2>5
  <2>3. Begin(h, c)
    BY <2>1 DEF c
  <2> QED
    BY <2>2, <2>3, BeginInv
<1> QED
  BY <1>1, <1>2, <1>3, <1>4, <1>5

-----------------------------------------------------------------------------
(* Calls that read.                                                        *)

\* A request that only takes note of something.
LEMMA NoteInv ==
  ASSUME Inv, NEW h \in Handlers, NEW c, call' = [call EXCEPT ![h] = c], WellFormed(c),
         UNCHANGED <<approvalVars, rows, completed, contested, day, urls>>,
         c.subject = call[h].subject, call[h].stage # "createLocal",
         c.stage \in {"presign", "findRow", "compare", "findLocal", "writeLocal"}
  PROVE  Inv'
<1>1. /\ FoundRow(c) /\ WroteRow(c) /\ Deciding(c) /\ NoneWaits(c) /\ c.stage \notin Holding
      /\ \A g \in Handlers : DecidesWhatWasPrepared(call[g], c)
  BY DEF FoundRow, WroteRow, Deciding, NoneWaits, Holding, DecidesWhatWasPrepared, ApproveStages
<1>2. day' \in Days /\ urls' \subseteq [user : Users, key : Keys]
  BY DEF Inv, TypesOK
<1> QED
  BY <1>1, <1>2, QuietInv

LEMMA FindWaitingInv ==
  ASSUME Inv, NEW h \in Handlers, FindWaiting(h) \/ OverlookWaiting(h)
  PROVE  Inv'
<1> DEFINE c == [call[h] EXCEPT !.stage = "takeId"]
<1>1. /\ call[h].stage = "findWaiting" /\ WellFormed(call[h])
      /\ UNCHANGED <<approvalVars, rows, completed, day, urls>> /\ contested \subseteq contested'
  BY DEF FindWaiting, OverlookWaiting, storeVars, fileVars, history, Inv, TypesOK
<1>2. day' \in Days /\ urls' \subseteq [user : Users, key : Keys]
  BY <1>1 DEF Inv, TypesOK
<1>3. CASE Return(h) /\ UNCHANGED contested
  BY <1>1, <1>2, <1>3, ReturnInv
<1>4. CASE /\ Goto(h, "takeId")
           /\ WaitingApprovals(call[h].user, call[h].file) = {} \/ call[h].subject \in contested'
  <2>1. /\ Shaped(c) /\ c.stage = "takeId" /\ c.user = call[h].user /\ c.file = call[h].file
        /\ c.subject = call[h].subject
    BY <1>1, Staged DEF WellFormed
  <2>2. call' = [call EXCEPT ![h] = c]
    BY <1>4 DEF Goto
  <2> HIDE DEF c
  <2>3. WellFormed(c) /\ c.stage \notin Holding
    BY <1>1, <2>1 DEF WellFormed, PrepareStages, Holding, ApproveStages, UrlStages, CompleteStages
  <2>4. NoneWaits(c) \/ c.subject \in contested'
    BY <1>4, <2>1 DEF NoneWaits, Waits, WaitingApprovals, ApprovalsOf
  <2>5. /\ FoundRow(c) /\ WroteRow(c) /\ Deciding(c)
        /\ \A g \in Handlers : DecidesWhatWasPrepared(call[g], c)
    BY <2>1 DEF FoundRow, WroteRow, Deciding, DecidesWhatWasPrepared, ApproveStages
  <2> QED
    BY <1>1, <1>2, <2>1, <2>2, <2>3, <2>4, <2>5, QuietInv
<1> QED
  BY <1>3, <1>4 DEF FindWaiting, OverlookWaiting, history

LEMMA CheckWaitingInv ==
  ASSUME Inv, NEW h \in Handlers, CheckWaiting(h)
  PROVE  Inv'
<1> DEFINE c == [call[h] EXCEPT !.stage = "readAgain"]
<1>1. /\ call[h].stage = "checkWaiting" /\ WellFormed(call[h])
      /\ UNCHANGED <<approvalVars, rows, completed, contested, day, urls>>
  BY DEF CheckWaiting, storeVars, fileVars, history, Inv, TypesOK
<1>2. day' \in Days /\ urls' \subseteq [user : Users, key : Keys]
  BY <1>1 DEF Inv, TypesOK
<1>3. CASE Return(h)
  BY <1>1, <1>2, <1>3, ReturnInv
<1>4. CASE Goto(h, "readAgain") /\ MayBeDecided(call[h].id)
  <2>1. /\ Shaped(c) /\ c.stage = "readAgain" /\ c.user = call[h].user /\ c.id = call[h].id
        /\ c.subject = call[h].subject
    BY <1>1, Staged DEF WellFormed
  <2>2. call' = [call EXCEPT ![h] = c]
    BY <1>4 DEF Goto
  <2> HIDE DEF c
  <2>3. WellFormed(c) /\ c.stage \notin Holding
    BY <1>1, <2>1 DEF WellFormed, PrepareStages, Holding, ApproveStages, UrlStages, CompleteStages
  <2>4. Deciding(c)
    BY <1>1, <1>4, <2>1 DEF Inv, ApprovalInv, DecisionsAreKnown, Deciding, MayBeDecided, ApproveStages
  <2>5. /\ FoundRow(c) /\ WroteRow(c) /\ NoneWaits(c)
        /\ \A g \in Handlers : DecidesWhatWasPrepared(call[g], c)
    BY <2>1 DEF FoundRow, WroteRow, NoneWaits, DecidesWhatWasPrepared, Holding
  <2> QED
    BY <1>1, <1>2, <2>1, <2>2, <2>3, <2>4, <2>5, QuietInv
<1> QED
  BY <1>3, <1>4 DEF CheckWaiting

LEMMA ReadAgainInv ==
  ASSUME Inv, NEW h \in Handlers, ReadAgain(h)
  PROVE  Inv'
<1> DEFINE a == approvals[call[h].id]
           c == [call[h] EXCEPT !.stage = "storeStatus", !.file = a]
<1>1. /\ call[h].stage = "readAgain" /\ WellFormed(call[h])
      /\ UNCHANGED <<approvalVars, rows, completed, contested, day, urls>>
  BY DEF ReadAgain, storeVars, fileVars, history, Inv, TypesOK
<1>2. day' \in Days /\ urls' \subseteq [user : Users, key : Keys]
  BY <1>1 DEF Inv, TypesOK
<1>3. CASE Return(h)
  BY <1>1, <1>2, <1>3, ReturnInv
<1>4. CASE Stored(call[h].id) /\ call' = [call EXCEPT ![h].stage = "storeStatus", ![h].file = a]
  <2>1. a \in Approvals
    BY <1>4 DEF Stored, Inv, TypesOK
  <2>2. /\ Shaped(c) /\ c.stage = "storeStatus" /\ c.user = call[h].user /\ c.id = call[h].id
        /\ c.subject = call[h].subject /\ c.file = a
    BY <1>1 DEF WellFormed, Shaped
  <2>3. call' = [call EXCEPT ![h] = c]
    BY <1>4
  <2> HIDE DEF c, a
  <2>4. WellFormed(c) /\ c.stage \notin Holding
    BY <1>1, <2>1, <2>2 DEF WellFormed, PrepareStages, Holding, ApproveStages, UrlStages, CompleteStages
  <2>5. Deciding(c)
    BY <1>1, <2>2 DEF Inv, ApprovalInv, DecisionsAreKnown, Deciding, ApproveStages
  <2>6. \A g \in Handlers : DecidesWhatWasPrepared(call[g], c)
    BY <1>4, <2>2 DEF Inv, ApprovalInv, NumbersAreFresh, Fresh, DecidesWhatWasPrepared, a
  <2>7. FoundRow(c) /\ WroteRow(c) /\ NoneWaits(c)
    BY <2>2 DEF FoundRow, WroteRow, NoneWaits, Holding
  <2> QED
    BY <1>1, <1>2, <2>2, <2>3, <2>4, <2>5, <2>6, <2>7, QuietInv
<1> QED
  BY <1>3, <1>4 DEF ReadAgain

LEMMA CheckApprovedInv ==
  ASSUME Inv, NEW h \in Handlers, CheckApproved(h)
  PROVE  Inv'
<1> DEFINE f == approvals[call[h].id].file
           c == [call[h] EXCEPT !.stage = "presign", !.file = f]
<1>1. /\ call[h].stage = "checkApproved" /\ WellFormed(call[h])
      /\ UNCHANGED <<approvalVars, rows, completed, contested, day, urls>>
  BY DEF CheckApproved, storeVars, fileVars, history, Inv, TypesOK
<1>2. day' \in Days /\ urls' \subseteq [user : Users, key : Keys]
  BY <1>1 DEF Inv, TypesOK
<1>3. CASE Return(h)
  BY <1>1, <1>2, <1>3, ReturnInv
<1>4. CASE Stored(call[h].id) /\ call' = [call EXCEPT ![h].stage = "presign", ![h].file = f]
  <2>1. f \in Files
    BY <1>4 DEF Stored, Inv, TypesOK, Approvals
  <2>2. /\ Shaped(c) /\ c.stage = "presign" /\ c.user = call[h].user
        /\ c.subject = call[h].subject /\ c.file = f
    BY <1>1 DEF WellFormed, Shaped
  <2>3. call' = [call EXCEPT ![h] = c]
    BY <1>4
  <2> HIDE DEF c, f
  <2>4. WellFormed(c)
    BY <1>1, <2>1, <2>2 DEF WellFormed, PrepareStages, Holding, ApproveStages, UrlStages, CompleteStages
  <2> QED
    BY <1>1, <2>2, <2>3, <2>4, NoteInv
<1> QED
  BY <1>3, <1>4 DEF CheckApproved

LEMMA PresignInv ==
  ASSUME Inv, NEW h \in Handlers, Presign(h)
  PROVE  Inv'
<1>1. /\ call[h].stage = "presign" /\ Return(h)
      /\ urls' = urls \cup {[user |-> call[h].user, key |-> GenerateKey(call[h].file)]}
      /\ UNCHANGED <<approvalVars, rows, completed, contested, day>>
  BY DEF Presign, fileVars, history
<1>2. call[h].user \in Users /\ call[h].file \in Files /\ day \in Days
  BY <1>1 DEF Inv, TypesOK, WellFormed, UrlStages
<1>3. urls' \subseteq [user : Users, key : Keys] /\ day' \in Days
  BY <1>1, <1>2 DEF Inv, TypesOK, GenerateKey, Keys
<1> QED
  BY <1>1, <1>3, ReturnInv

LEMMA VerifyUploadInv ==
  ASSUME Inv, NEW h \in Handlers, VerifyUpload(h)
  PROVE  Inv'
<1> DEFINE n == objects[call[h].key]
           c == [call[h] EXCEPT !.etag = n, !.stage = "findRow"]
<1>1. /\ call[h].stage = "verify" /\ WellFormed(call[h])
      /\ UNCHANGED <<approvalVars, rows, completed, contested, day, urls>>
  BY DEF VerifyUpload, storeVars, fileVars, history, Inv, TypesOK
<1>2. day' \in Days /\ urls' \subseteq [user : Users, key : Keys]
  BY <1>1 DEF Inv, TypesOK
<1>3. CASE Return(h)
  BY <1>1, <1>2, <1>3, ReturnInv
<1>4. CASE call' = [call EXCEPT ![h].etag = n, ![h].stage = "findRow"]
  <2>1. /\ Shaped(c) /\ c.stage = "findRow" /\ c.op = call[h].op /\ c.key = call[h].key
        /\ c.subject = call[h].subject /\ c.file = call[h].file
    BY <1>1 DEF WellFormed, Shaped
  <2>2. call' = [call EXCEPT ![h] = c]
    BY <1>4
  <2> HIDE DEF c, n
  <2>3. WellFormed(c)
    BY <1>1, <2>1 DEF WellFormed, PrepareStages, Holding, ApproveStages, UrlStages, CompleteStages
  <2> QED
    BY <1>1, <2>1, <2>2, <2>3, NoteInv
<1> QED
  BY <1>3, <1>4 DEF VerifyUpload

\* A member's report of a download touches no file's record.
LEMMA SyncInv ==
  ASSUME Inv, NEW h \in Handlers, ReadRow(h) \/ CompareETag(h) \/ FindLocal(h) \/ WriteLocal(h)
  PROVE  Inv'
<1>1. /\ call[h].stage \in SyncStages /\ WellFormed(call[h])
      /\ UNCHANGED <<approvalVars, rows, completed, contested, day, urls>>
  BY DEF ReadRow, CompareETag, FindLocal, WriteLocal, storeVars, fileVars, history, Inv, TypesOK, SyncStages
<1>2. day' \in Days /\ urls' \subseteq [user : Users, key : Keys]
  BY <1>1 DEF Inv, TypesOK
<1>3. CASE Return(h)
  BY <1>1, <1>2, <1>3, ReturnInv DEF SyncStages
<1>4. ASSUME NEW c, call' = [call EXCEPT ![h] = c], Shaped(c), c.subject = call[h].subject,
             c.stage \in {"compare", "findLocal", "writeLocal"}
      PROVE  Inv'
  <2>1. WellFormed(c)
    BY <1>4 DEF WellFormed, PrepareStages, Holding, ApproveStages, UrlStages, CompleteStages, SyncStages
  <2> QED
    BY <1>1, <1>4, <2>1, NoteInv DEF SyncStages
<1>5. CASE ReadRow(h)
  <2> DEFINE k == rows[call[h].row].key
             c == [call[h] EXCEPT !.key = k, !.stage = "compare"]
  <2>1. Shaped(c) /\ c.stage = "compare" /\ c.subject = call[h].subject
    BY <1>1 DEF WellFormed, Shaped
  <2>2. call' = [call EXCEPT ![h] = c]
    BY <1>5 DEF ReadRow
  <2> HIDE DEF c
  <2> QED
    BY <1>4, <2>1, <2>2
<1>6. CASE CompareETag(h) /\ Goto(h, "findLocal")
  <2> DEFINE c == [call[h] EXCEPT !.stage = "findLocal"]
  <2>1. Shaped(c) /\ c.stage = "findLocal" /\ c.subject = call[h].subject
    BY <1>1 DEF WellFormed, Shaped
  <2>2. call' = [call EXCEPT ![h] = c]
    BY <1>6 DEF Goto
  <2> HIDE DEF c
  <2> QED
    BY <1>4, <2>1, <2>2
<1>7. CASE FindLocal(h)
  <2> DEFINE i == LocalOf(call[h].user, call[h].row)
             c == [call[h] EXCEPT !.id = i, !.stage = "writeLocal"]
  <2>1. Shaped(c) /\ c.stage = "writeLocal" /\ c.subject = call[h].subject
    BY <1>1 DEF WellFormed, Shaped
  <2>2. call' = [call EXCEPT ![h] = c]
    BY <1>7 DEF FindLocal
  <2> HIDE DEF c
  <2> QED
    BY <1>4, <2>1, <2>2
<1> QED
  BY <1>3, <1>5, <1>6, <1>7 DEF CompareETag, WriteLocal

LEMMA FailInv ==
  ASSUME Inv, NEW h \in Handlers, Fail(h)
  PROVE  Inv'
<1>1. /\ call[h].stage # "createLocal" /\ Return(h)
      /\ UNCHANGED <<approvalVars, rows, completed, contested, day, urls>>
  BY DEF Fail, storeVars, fileVars, history
<1>2. day' \in Days /\ urls' \subseteq [user : Users, key : Keys]
  BY <1>1 DEF Inv, TypesOK
<1> QED
  BY <1>1, <1>2, ReturnInv

LEMMA FindRowInv ==
  ASSUME Inv, NEW h \in Handlers, FindRow(h)
  PROVE  Inv'
<1> DEFINE r == RowOf(call[h].file)
           c == [call[h] EXCEPT !.row = r, !.stage = "writeRow"]
           S == {i \in DOMAIN rows : rows[i].file = call[h].file}
<1>1. /\ call[h].stage = "findRow" /\ WellFormed(call[h])
      /\ UNCHANGED <<approvalVars, rows, completed, contested, day, urls>>
      /\ call' = [call EXCEPT ![h] = c]
  BY DEF FindRow, storeVars, fileVars, history, Inv, TypesOK
<1>2. day' \in Days /\ urls' \subseteq [user : Users, key : Keys]
  BY <1>1 DEF Inv, TypesOK
<1>3. /\ Shaped(c) /\ c.stage = "writeRow" /\ c.op = call[h].op /\ c.key = call[h].key
      /\ c.subject = call[h].subject /\ c.file = call[h].file /\ c.row = r
  BY <1>1 DEF WellFormed, Shaped
<1>4. r = First(S)
  BY DEF RowOf
<1>5. S \in SUBSET Nat
  BY DEF Inv, TypesOK
<1> HIDE DEF r, c
<1>6. S # {} => r \in S
  <2> HIDE DEF S
  <2> QED
    BY <1>4, <1>5, FirstFacts
<1>7. S = {} => r = 0
  BY <1>4 DEF First
<1>8. FoundRow(c)
  BY <1>3, <1>6, <1>7 DEF FoundRow
<1>9. WellFormed(c)
  BY <1>1, <1>3 DEF WellFormed, PrepareStages, Holding, ApproveStages, UrlStages, CompleteStages
<1>10. /\ WroteRow(c) /\ Deciding(c) /\ NoneWaits(c) /\ c.stage \notin Holding
       /\ \A g \in Handlers : DecidesWhatWasPrepared(call[g], c)
  BY <1>3 DEF WroteRow, Deciding, NoneWaits, Holding, DecidesWhatWasPrepared, ApproveStages
<1> QED
  BY <1>1, <1>2, <1>3, <1>8, <1>9, <1>10, QuietInv

-----------------------------------------------------------------------------
(* Calls that change the approvals.                                        *)

\* A request for an approval owes nothing about files.
LEMMA NoFile ==
  ASSUME NEW c, c.stage \notin CompleteStages
  PROVE  FoundRow(c) /\ WroteRow(c)
BY DEF FoundRow, WroteRow, CompleteStages

LEMMA SameSubject ==
  ASSUME Inv, NEW h \in Handlers, NEW c, call' = [call EXCEPT ![h] = c], contested' = contested,
         c.subject = call[h].subject \/ c.subject = None
  PROVE  OverlapsAreKnown'
<1>1. \A g \in Handlers : g # h /\ c.subject = call[g].subject /\ c.subject # None => c.subject \in contested'
  BY DEF Inv, OverlapsAreKnown
<1> QED
  BY <1>1, OverlapStep

LEMMA TakeIdInv ==
  ASSUME Inv, NEW h \in Handlers, TakeId(h)
  PROVE  Inv'
<1> DEFINE n == lastId + 1
           c == [call[h] EXCEPT !.id = n, !.stage = "storeApproval"]
<1> USE DEF Inv, ApprovalInv
<1>1. /\ call[h].stage = "takeId" /\ WellFormed(call[h]) /\ lastId < MaxApprovals
      /\ lastId' = n /\ call' = [call EXCEPT ![h] = c]
      /\ UNCHANGED <<approvals, userIndex, projectIndex, rows, completed, contested, day, urls>>
  BY DEF TakeId, storeVars, fileVars, history, TypesOK
<1>2. /\ Shaped(c) /\ c.stage = "storeApproval" /\ c.user = call[h].user /\ c.file = call[h].file
      /\ c.subject = call[h].subject /\ c.id = n
  BY <1>1 DEF WellFormed, Shaped
<1> HIDE DEF c
<1>3. lastId \in Nat /\ MaxApprovals \in Nat /\ n \in Ids /\ n \in Nat /\ n > lastId
  BY <1>1, BoundsAssumption DEF TypesOK, Ids
<1>4. /\ call'[h] = c /\ DOMAIN call' = Handlers
      /\ \A g \in Handlers : g # h => call'[g] = call[g]
  BY <1>1, CallChange
<1>5. WellFormed(c)
  BY <1>1, <1>2 DEF WellFormed, PrepareStages, Holding, ApproveStages, UrlStages, CompleteStages
<1>6. TypesOK'
  <2>1. 1..lastId \subseteq 1..n
    BY <1>3
  <2>2. lastId' \in Nat /\ lastId' <= MaxApprovals
    BY <1>1, <1>3
  <2> QED
    BY <1>1, <1>4, <1>5, <2>1, <2>2 DEF TypesOK
<1>7. OverlapsAreKnown' /\ FileInv'
  BY <1>1, <1>2, NoFile, SameSubject, FilesQuiet DEF CompleteStages
<1>8. /\ n \notin userIndex /\ n \notin projectIndex /\ approvals[n] = None
      /\ \A g \in Handlers : call[g].stage \in Holding => call[g].id # n
  BY <1>3 DEF TypesOK, NumbersAreFresh, Fresh
<1>9. NumbersAreFresh'
  <2>1. ASSUME NEW g \in Handlers PROVE Fresh(call[g])'
    <3>1. CASE g = h
      BY <3>1, <1>1, <1>2, <1>3, <1>4, <1>8 DEF Fresh, Stored
    <3>2. CASE g # h
      <4>1. Fresh(call[g]) /\ call'[g] = call[g]
        BY <3>2, <1>4 DEF NumbersAreFresh
      <4>2. 1..lastId \subseteq 1..lastId'
        BY <1>1, <1>3
      <4> QED
        BY <4>1, <4>2, <1>1 DEF Fresh, Stored
    <3> QED
      BY <3>1, <3>2
  <2>2. \A i \in Ids : i > lastId' => approvals'[i] = None
    BY <1>1, <1>3 DEF NumbersAreFresh, Ids
  <2>3. \A f, g \in Handlers : f # g /\ call'[f].stage \in Holding /\ call'[g].stage \in Holding
          => call'[f].id # call'[g].id
    BY <1>2, <1>4, <1>8 DEF NumbersAreFresh
  <2> QED
    BY <2>1, <2>2, <2>3 DEF NumbersAreFresh
<1>10. DecisionsAreKnown'
  <2>1. ASSUME NEW g \in Handlers PROVE Deciding(call[g])'
    BY <1>1, <1>2, <1>4 DEF DecisionsAreKnown, Deciding, ApproveStages
  <2>2. ASSUME NEW f \in Handlers, NEW g \in Handlers PROVE DecidesWhatWasPrepared(call'[f], call'[g])
    <3>1. ASSUME f = h, call'[g].stage = "storeStatus" PROVE call'[g].id # n
      BY <3>1, <1>2, <1>4, <1>8 DEF DecisionsAreKnown, Deciding, ApproveStages
    <3> QED
      BY <3>1, <1>2, <1>4 DEF DecisionsAreKnown, DecidesWhatWasPrepared
  <2> QED
    BY <2>1, <2>2 DEF DecisionsAreKnown
<1>11. OneWaits'
  <2>1. \A u, f, i : Waits(u, f, i)' <=> Waits(u, f, i)
    BY <1>1 DEF Waits, Stored
  <2>2. ASSUME NEW g \in Handlers PROVE NoneWaits(call[g])'
    BY <2>1, <1>1, <1>2, <1>4 DEF OneWaits, NoneWaits
  <2> QED
    BY <2>1, <2>2, <1>1 DEF OneWaits
<1> QED
  BY <1>6, <1>7, <1>9, <1>10, <1>11

LEMMA StoreApprovalInv ==
  ASSUME Inv, NEW h \in Handlers, StoreApproval(h)
  PROVE  Inv'
<1> USE DEF Inv, ApprovalInv
<1>1. PICK n, a, c : /\ n = call[h].id /\ c = [call[h] EXCEPT !.stage = "indexProject"]
                     /\ a = [user |-> call[h].user, file |-> call[h].file, status |-> "waiting", by |-> None]
  OBVIOUS
<1>2. /\ call[h].stage = "storeApproval" /\ WellFormed(call[h])
      /\ approvals' = [approvals EXCEPT ![n] = a] /\ call' = [call EXCEPT ![h] = c]
      /\ UNCHANGED <<lastId, userIndex, projectIndex, rows, completed, contested, day, urls>>
  BY <1>1 DEF StoreApproval, Goto, storeVars, fileVars, history, TypesOK
<1>3. /\ Shaped(c) /\ c.stage = "indexProject" /\ c.user = call[h].user /\ c.file = call[h].file
      /\ c.subject = call[h].subject /\ c.id = n
  BY <1>1, <1>2, Staged DEF WellFormed
<1>4. a \in Approvals /\ a.user = c.user /\ a.file = c.file
  BY <1>1, <1>2, <1>3 DEF WellFormed, PrepareStages, Holding, Approvals
<1>5. /\ n \in 1..lastId /\ n \notin userIndex /\ n \notin projectIndex
  BY <1>1, <1>2 DEF NumbersAreFresh, Fresh, Holding
<1>6. n \in Ids
  BY <1>5, BoundsAssumption DEF TypesOK, Ids
<1>7. /\ call'[h] = c /\ DOMAIN call' = Handlers
      /\ \A g \in Handlers : g # h => call'[g] = call[g]
  BY <1>2, CallChange
<1>8. WellFormed(c)
  BY <1>2, <1>3 DEF WellFormed, PrepareStages, Holding, ApproveStages, UrlStages, CompleteStages
<1>9. /\ approvals' \in [Ids -> Approvals \cup {None}] /\ approvals'[n] = a
      /\ \A i \in Ids : i # n => approvals'[i] = approvals[i]
  BY <1>2, <1>4, <1>6 DEF TypesOK
<1>10. TypesOK'
  BY <1>2, <1>7, <1>8, <1>9 DEF TypesOK
<1>11. OverlapsAreKnown' /\ FileInv'
  BY <1>2, <1>3, NoFile, SameSubject, FilesQuiet DEF CompleteStages
<1>12. \A g \in Handlers : g # h /\ call[g].stage \in Holding => call[g].id # n /\ call[g].id \in Ids
  BY <1>1, <1>2, BoundsAssumption DEF NumbersAreFresh, Fresh, Holding, TypesOK, Ids
<1>13. NumbersAreFresh'
  <2>1. ASSUME NEW g \in Handlers PROVE Fresh(call[g])'
    <3>1. CASE g = h
      BY <3>1, <1>2, <1>3, <1>4, <1>5, <1>7, <1>9 DEF Fresh, Holding
    <3>2. CASE g # h
      <4>1. Fresh(call[g]) /\ call'[g] = call[g]
        BY <3>2, <1>7 DEF NumbersAreFresh
      <4> QED
        BY <4>1, <3>2, <1>2, <1>9, <1>12 DEF Fresh, Stored, Holding
    <3> QED
      BY <3>1, <3>2
  <2>2. \A i \in Ids : i > lastId' => approvals'[i] = None
    BY <1>2, <1>5, <1>9 DEF NumbersAreFresh, TypesOK
  <2>3. \A f, g \in Handlers : f # g /\ call'[f].stage \in Holding /\ call'[g].stage \in Holding
          => call'[f].id # call'[g].id
    BY <1>3, <1>7, <1>12 DEF NumbersAreFresh
  <2> QED
    BY <2>1, <2>2, <2>3 DEF NumbersAreFresh
<1>14. DecisionsAreKnown'
  <2>1. ASSUME NEW g \in Handlers, call'[g].stage \in ApproveStages
        PROVE  call'[g] = call[g] /\ call[g].id # n /\ call[g].id \in Ids
    <3>1. g # h
      BY <2>1, <1>3, <1>7 DEF ApproveStages
    <3>2. call'[g] = call[g] /\ call[g].id \in projectIndex
      BY <2>1, <3>1, <1>7 DEF DecisionsAreKnown, Deciding
    <3> QED
      BY <2>1, <3>2, <1>5 DEF TypesOK, WellFormed
  <2>2. ASSUME NEW g \in Handlers PROVE Deciding(call[g])'
    BY <2>1, <1>2, <1>9 DEF DecisionsAreKnown, Deciding, ApproveStages
  <2>3. ASSUME NEW f \in Handlers, NEW g \in Handlers PROVE DecidesWhatWasPrepared(call'[f], call'[g])
    BY <2>1, <1>3, <1>7 DEF DecisionsAreKnown, DecidesWhatWasPrepared, ApproveStages
  <2> QED
    BY <2>2, <2>3 DEF DecisionsAreKnown
<1>15. OneWaits'
  <2>1. \A u, f : \A i \in Ids : Waits(u, f, i)' <=> Waits(u, f, i)
    BY <1>2, <1>5, <1>9 DEF Waits, Stored
  <2>2. ASSUME NEW g \in Handlers PROVE NoneWaits(call[g])'
    BY <2>1, <1>2, <1>3, <1>7 DEF OneWaits, NoneWaits, Holding
  <2> QED
    BY <2>1, <2>2, <1>2 DEF OneWaits
<1> QED
  BY <1>10, <1>11, <1>13, <1>14, <1>15

LEMMA IndexByProjectInv ==
  ASSUME Inv, NEW h \in Handlers, IndexByProject(h)
  PROVE  Inv'
<1> USE DEF Inv, ApprovalInv
<1>1. PICK n, c : n = call[h].id /\ c = [call[h] EXCEPT !.stage = "indexUser"]
  OBVIOUS
<1>2. /\ call[h].stage = "indexProject" /\ WellFormed(call[h])
      /\ projectIndex' = projectIndex \cup {n} /\ call' = [call EXCEPT ![h] = c]
      /\ UNCHANGED <<approvals, lastId, userIndex, rows, completed, contested, day, urls>>
  BY <1>1 DEF IndexByProject, Goto, storeVars, fileVars, history, TypesOK
<1>3. /\ Shaped(c) /\ c.stage = "indexUser" /\ c.user = call[h].user /\ c.file = call[h].file
      /\ c.subject = call[h].subject /\ c.id = n
  BY <1>1, <1>2, Staged DEF WellFormed
<1>4. n \in 1..lastId /\ n \notin userIndex /\ n \notin projectIndex
  BY <1>1, <1>2 DEF NumbersAreFresh, Fresh, Holding
<1>5. /\ call'[h] = c /\ DOMAIN call' = Handlers
      /\ \A g \in Handlers : g # h => call'[g] = call[g]
  BY <1>2, CallChange
<1>6. WellFormed(c)
  BY <1>2, <1>3 DEF WellFormed, PrepareStages, Holding, ApproveStages, UrlStages, CompleteStages
<1>7. TypesOK'
  BY <1>2, <1>4, <1>5, <1>6 DEF TypesOK
<1>8. OverlapsAreKnown' /\ FileInv'
  BY <1>2, <1>3, NoFile, SameSubject, FilesQuiet DEF CompleteStages
<1>9. \A g \in Handlers : g # h /\ call[g].stage \in Holding => call[g].id # n
  BY <1>1, <1>2 DEF NumbersAreFresh, Holding
<1>10. NumbersAreFresh'
  <2>1. ASSUME NEW g \in Handlers PROVE Fresh(call[g])'
    <3>1. Fresh(call[g]) /\ Fresh(call[h])
      BY DEF NumbersAreFresh
    <3>2. CASE g = h
      BY <3>1, <3>2, <1>1, <1>2, <1>3, <1>5 DEF Fresh, Holding, Stored
    <3>3. CASE g # h
      BY <3>1, <3>3, <1>2, <1>5, <1>9 DEF Fresh, Stored, Holding
    <3> QED
      BY <3>2, <3>3
  <2>2. \A f, g \in Handlers : f # g /\ call'[f].stage \in Holding /\ call'[g].stage \in Holding
          => call'[f].id # call'[g].id
    BY <1>3, <1>5, <1>9 DEF NumbersAreFresh
  <2> QED
    BY <2>1, <2>2, <1>2 DEF NumbersAreFresh
<1>11. DecisionsAreKnown'
  <2>1. ASSUME NEW g \in Handlers, call'[g].stage \in ApproveStages
        PROVE  call'[g] = call[g] /\ call[g].id # n
    <3>1. g # h
      BY <2>1, <1>3, <1>5 DEF ApproveStages
    <3> QED
      BY <2>1, <3>1, <1>4, <1>5 DEF DecisionsAreKnown, Deciding
  <2>2. ASSUME NEW g \in Handlers PROVE Deciding(call[g])'
    BY <2>1, <1>2 DEF DecisionsAreKnown, Deciding, ApproveStages
  <2>3. ASSUME NEW f \in Handlers, NEW g \in Handlers PROVE DecidesWhatWasPrepared(call'[f], call'[g])
    BY <2>1, <1>3, <1>5 DEF DecisionsAreKnown, DecidesWhatWasPrepared, ApproveStages
  <2> QED
    BY <2>2, <2>3 DEF DecisionsAreKnown
<1>12. OneWaits'
  <2>1. \A u, f, i : Waits(u, f, i)' <=> Waits(u, f, i)
    BY <1>2 DEF Waits, Stored
  <2>2. ASSUME NEW g \in Handlers PROVE NoneWaits(call[g])'
    BY <2>1, <1>2, <1>3, <1>5 DEF OneWaits, NoneWaits, Holding
  <2> QED
    BY <2>1, <2>2, <1>2 DEF OneWaits
<1> QED
  BY <1>7, <1>8, <1>10, <1>11, <1>12

LEMMA IndexByUserInv ==
  ASSUME Inv, NEW h \in Handlers, IndexByUser(h)
  PROVE  Inv'
<1> USE DEF Inv, ApprovalInv
<1>1. PICK n, c : n = call[h].id /\ c = call[h]
  OBVIOUS
<1>2. /\ c.stage = "indexUser" /\ WellFormed(c)
      /\ userIndex' = userIndex \cup {n} /\ call' = [call EXCEPT ![h] = Idle]
      /\ UNCHANGED <<approvals, lastId, projectIndex, rows, completed, contested, day, urls>>
  BY <1>1 DEF IndexByUser, Return, storeVars, fileVars, history, TypesOK
<1>3. c.user \in Users /\ c.file \in Files /\ c.subject = Prepared(c.user, c.file)
  BY <1>2 DEF WellFormed, PrepareStages, Holding
<1>4. /\ n \in 1..lastId /\ n \notin userIndex
      /\ Stored(n) => approvals[n].user = c.user /\ approvals[n].file = c.file
  BY <1>1, <1>2 DEF NumbersAreFresh, Fresh, Holding
<1>5. /\ call'[h] = Idle /\ DOMAIN call' = Handlers
      /\ \A g \in Handlers : g # h => call'[g] = call[g]
  BY <1>2, CallChange
<1>6. TypesOK'
  BY <1>2, <1>4, <1>5, IdleFacts DEF TypesOK
<1>7. OverlapsAreKnown' /\ FileInv'
  BY <1>1, <1>2, IdleFacts, IdleOwesNothing, SameSubject, FilesQuiet
<1>8. Idle.stage \notin Holding /\ Idle.stage \notin ApproveStages
  BY IdleFacts DEF Holding, ApproveStages
<1>9. \A g \in Handlers : g # h /\ call[g].stage \in Holding => call[g].id # n
  BY <1>1, <1>2 DEF NumbersAreFresh, Holding
<1>10. NumbersAreFresh'
  <2>1. ASSUME NEW g \in Handlers PROVE Fresh(call[g])'
    <3>1. Fresh(call[g])
      BY DEF NumbersAreFresh
    <3>2. CASE g = h
      BY <3>2, <1>5, <1>8 DEF Fresh, Holding
    <3>3. CASE g # h
      BY <3>1, <3>3, <1>2, <1>5, <1>9 DEF Fresh, Stored, Holding
    <3> QED
      BY <3>2, <3>3
  <2> QED
    BY <2>1, <1>2, <1>5, <1>8 DEF NumbersAreFresh
<1>11. DecisionsAreKnown'
  <2>1. ASSUME NEW g \in Handlers PROVE Deciding(call[g])'
    BY <1>2, <1>5, <1>8 DEF DecisionsAreKnown, Deciding, ApproveStages
  <2>2. ASSUME NEW f \in Handlers, NEW g \in Handlers PROVE DecidesWhatWasPrepared(call'[f], call'[g])
    BY <1>5, IdleOwesNothing DEF DecisionsAreKnown
  <2> QED
    BY <2>1, <2>2 DEF DecisionsAreKnown
<1>12. OneWaits'
  <2>1. \A u, f : \A i \in Ids : Waits(u, f, i)' <=> Waits(u, f, i) \/ (i = n /\ Waits(u, f, n)')
    BY <1>2, <1>4 DEF Waits, Stored
  <2>2. \A u, f : Waits(u, f, n)' => u = c.user /\ f = c.file
    BY <1>2, <1>4 DEF Waits, Stored
  <2>3. ASSUME NEW g \in Handlers PROVE NoneWaits(call[g])'
    <3>1. CASE g = h
      BY <3>1, <1>5, IdleFacts DEF NoneWaits, Holding
    <3>2. CASE g # h
      <4>1. call'[g] = call[g] /\ NoneWaits(call[g])
        BY <3>2, <1>5 DEF OneWaits
      <4>2. ASSUME call[g].stage \in {"takeId"} \cup Holding, call[g].subject \notin contested,
                   call[g].user = c.user, call[g].file = c.file
            PROVE  FALSE
        <5>1. call[g].subject = c.subject /\ c.subject \in Subjects
          BY <4>2, <1>3 DEF TypesOK, WellFormed, PrepareStages, Prepared, Subjects
        <5> QED
          BY <5>1, <4>2, <3>2, <1>1, Shared
      <4> QED
        BY <4>1, <4>2, <2>1, <2>2, <1>2 DEF NoneWaits
    <3> QED
      BY <3>1, <3>2
  <2>4. ASSUME NEW u \in Users, NEW f \in Files, Prepared(u, f) \notin contested,
               NEW i \in Ids, NEW j \in Ids, Waits(u, f, i)', Waits(u, f, j)'
        PROVE  i = j
    <3>1. NoneWaits(call[h])
      BY DEF OneWaits
    <3>2. ~(Waits(u, f, n)' /\ (Waits(u, f, i) \/ Waits(u, f, j)))
      BY <3>1, <2>2, <2>4, <1>1, <1>2, <1>3 DEF NoneWaits, Holding
    <3> QED
      BY <3>2, <2>1, <2>4 DEF OneWaits
  <2> QED
    BY <2>3, <2>4, <1>2 DEF OneWaits
<1> QED
  BY <1>6, <1>7, <1>10, <1>11, <1>12

LEMMA StoreStatusInv ==
  ASSUME Inv, NEW h \in Handlers, StoreStatus(h)
  PROVE  Inv'
<1> USE DEF Inv, ApprovalInv
<1>1. PICK n, c, a : /\ n = call[h].id /\ c = call[h]
                     /\ a = [c.file EXCEPT !.status = "approved", !.by = c.user]
  OBVIOUS
<1>2. /\ c.stage = "storeStatus" /\ WellFormed(c)
      /\ approvals' = [approvals EXCEPT ![n] = a] /\ call' = [call EXCEPT ![h] = Idle]
      /\ UNCHANGED <<userIndex, lastId, projectIndex, rows, completed, contested, day, urls>>
  BY <1>1 DEF StoreStatus, Return, storeVars, fileVars, history, TypesOK
<1>3. c.user \in Admins /\ n \in Ids /\ c.subject = Decided(n) /\ c.file \in Approvals
  BY <1>1, <1>2 DEF WellFormed, ApproveStages
<1>4. a \in Approvals /\ a.status = "approved" /\ a.user = c.file.user /\ a.file = c.file.file
  BY <1>1, <1>3 DEF Approvals
<1>5. n \in projectIndex /\ n \in 1..lastId
  BY <1>1, <1>2 DEF DecisionsAreKnown, Deciding, ApproveStages, TypesOK
<1>6. /\ call'[h] = Idle /\ DOMAIN call' = Handlers
      /\ \A g \in Handlers : g # h => call'[g] = call[g]
  BY <1>2, CallChange
<1>7. /\ approvals' \in [Ids -> Approvals \cup {None}] /\ approvals'[n] = a
      /\ \A i \in Ids : i # n => approvals'[i] = approvals[i]
  BY <1>2, <1>3, <1>4 DEF TypesOK
<1>8. TypesOK'
  BY <1>2, <1>6, <1>7, IdleFacts DEF TypesOK
<1>9. OverlapsAreKnown' /\ FileInv'
  BY <1>1, <1>2, IdleFacts, IdleOwesNothing, SameSubject, FilesQuiet
<1>10. Idle.stage \notin Holding /\ Idle.stage \notin ApproveStages
  BY IdleFacts DEF Holding, ApproveStages
<1>11. NumbersAreFresh'
  <2>1. ASSUME NEW g \in Handlers PROVE Fresh(call[g])'
    <3>1. CASE g = h
      BY <3>1, <1>6, <1>10 DEF Fresh, Holding
    <3>2. CASE g # h
      <4>1. Fresh(call[g]) /\ call'[g] = call[g] /\ DecidesWhatWasPrepared(call[g], c)
        BY <3>2, <1>1, <1>6 DEF NumbersAreFresh, DecisionsAreKnown
      <4>2. call[g].stage \in Holding => call[g].id \in Ids
        BY <4>1, BoundsAssumption DEF Fresh, TypesOK, Ids
      <4>3. call[g].stage \in Holding /\ call[g].id = n => a.user = call[g].user /\ a.file = call[g].file
        BY <4>1, <1>1, <1>2, <1>4 DEF DecidesWhatWasPrepared
      <4>4. call[g].stage = "storeApproval" => call[g].id # n
        BY <4>1, <1>5 DEF Fresh
      <4> QED
        BY <4>1, <4>2, <4>3, <4>4, <1>2, <1>7 DEF Fresh, Stored, Holding
    <3> QED
      BY <3>1, <3>2
  <2>2. \A i \in Ids : i > lastId => approvals'[i] = None
    BY <1>5, <1>7 DEF NumbersAreFresh, TypesOK
  <2> QED
    BY <2>1, <2>2, <1>2, <1>6, <1>10 DEF NumbersAreFresh
<1>12. DecisionsAreKnown'
  <2>1. ASSUME NEW g \in Handlers PROVE Deciding(call[g])'
    <3>1. CASE g = h
      BY <3>1, <1>6, <1>10 DEF Deciding, ApproveStages
    <3>2. CASE g # h
      <4>1. call'[g] = call[g] /\ Deciding(call[g])
        BY <3>2, <1>6 DEF DecisionsAreKnown
      <4>2. call[g].stage \in ApproveStages => call[g].id \in Ids /\ call[g].subject = Decided(call[g].id)
        BY DEF TypesOK, WellFormed
      <4>3. ASSUME call[g].stage \in ApproveStages, call[g].id = n
            PROVE  Decided(n) \in contested
        <5>1. call[g].subject = call[h].subject /\ call[g].subject \in Subjects /\ call[g].subject = Decided(n)
          BY <4>2, <4>3, <1>1, <1>3 DEF Decided, Subjects
        <5> QED
          BY <5>1, <3>2, Shared
      <4> QED
        BY <4>1, <4>2, <4>3, <1>2, <1>7 DEF Deciding, ApproveStages
    <3> QED
      BY <3>1, <3>2
  <2>2. ASSUME NEW f \in Handlers, NEW g \in Handlers PROVE DecidesWhatWasPrepared(call'[f], call'[g])
    BY <1>6, IdleOwesNothing DEF DecisionsAreKnown
  <2> QED
    BY <2>1, <2>2 DEF DecisionsAreKnown
<1>13. OneWaits'
  <2>1. \A u, f : \A i \in Ids : Waits(u, f, i)' => Waits(u, f, i)
    BY <1>2, <1>4, <1>7 DEF Waits, Stored
  <2>2. ASSUME NEW g \in Handlers PROVE NoneWaits(call[g])'
    <3>1. CASE g = h
      BY <3>1, <1>6, IdleFacts DEF NoneWaits, Holding
    <3>2. CASE g # h
      BY <3>2, <2>1, <1>2, <1>6 DEF OneWaits, NoneWaits
    <3> QED
      BY <3>1, <3>2
  <2> QED
    BY <2>1, <2>2, <1>2 DEF OneWaits
<1> QED
  BY <1>8, <1>9, <1>11, <1>12, <1>13

LEMMA ExpireApprovalInv ==
  ASSUME Inv, ExpireApproval
  PROVE  Inv'
<1> USE DEF Inv, ApprovalInv
<1>1. PICK n \in Ids : approvals' = [approvals EXCEPT ![n] = None]
  BY DEF ExpireApproval
<1>2. UNCHANGED <<call, userIndex, projectIndex, lastId, rows, completed, contested, day, urls>>
  BY DEF ExpireApproval, storeVars, fileVars, history
<1>3. /\ approvals' \in [Ids -> Approvals \cup {None}] /\ approvals'[n] = None
      /\ \A i \in Ids : i # n => approvals'[i] = approvals[i]
  BY <1>1 DEF TypesOK
<1>4. TypesOK' /\ OverlapsAreKnown'
  BY <1>2, <1>3 DEF TypesOK, OverlapsAreKnown
<1>5. FileInv'
  BY <1>2 DEF FileInv, RowsAreKnown, ReportsAreKnown, FoundRow, WroteRow, FilesAreServed, Served, Reporting
<1>6. \A i \in Ids : Stored(i)' => Stored(i) /\ i # n
  BY <1>3 DEF Stored
<1>7. \A g \in Handlers : call[g].stage \in Holding => call[g].id \in Ids
  BY BoundsAssumption DEF NumbersAreFresh, Fresh, TypesOK, Ids
<1>8. \A g \in Handlers : call[g].stage \in ApproveStages => call[g].id \in Ids
  BY DEF TypesOK, WellFormed
<1>9. NumbersAreFresh'
  <2>1. \A g \in Handlers : Fresh(call[g])'
    BY <1>2, <1>3, <1>6, <1>7 DEF NumbersAreFresh, Fresh, Holding
  <2> QED
    BY <2>1, <1>2, <1>3 DEF NumbersAreFresh
<1>10. DecisionsAreKnown'
  <2>1. \A g \in Handlers : Deciding(call[g])'
    BY <1>2, <1>3, <1>8 DEF DecisionsAreKnown, Deciding, ApproveStages
  <2> QED
    BY <2>1, <1>2 DEF DecisionsAreKnown, DecidesWhatWasPrepared
<1>11. OneWaits'
  <2>1. \A u, f : \A i \in Ids : Waits(u, f, i)' => Waits(u, f, i)
    BY <1>2, <1>3, <1>6 DEF Waits
  <2> QED
    BY <2>1, <1>2 DEF OneWaits, NoneWaits
<1> QED
  BY <1>4, <1>5, <1>9, <1>10, <1>11

-----------------------------------------------------------------------------
(* Calls that change the files.                                            *)

\* A report owes nothing about approvals.
LEMMA NoApproval ==
  ASSUME NEW c, c.stage \in CompleteStages
  PROVE  /\ c.stage \notin Holding /\ Deciding(c) /\ NoneWaits(c)
         /\ \A d : DecidesWhatWasPrepared(d, c)
BY DEF Holding, Deciding, NoneWaits, DecidesWhatWasPrepared, CompleteStages, ApproveStages

LEMMA WriteRowInv ==
  ASSUME Inv, NEW h \in Handlers, WriteRow(h)
  PROVE  Inv'
<1> USE DEF Inv, FileInv
<1>1. PICK c, r, f, row : /\ c = call[h] /\ r = c.row /\ f = c.file /\ row = [file |-> c.file, key |-> c.key]
  OBVIOUS
<1>2. /\ c.stage = "writeRow" /\ WellFormed(c)
      /\ UNCHANGED <<approvalVars, completed, contested, day, urls>>
  BY <1>1 DEF WriteRow, storeVars, history, TypesOK
<1>3. /\ c.op = "complete" /\ c.key \in Keys /\ f = c.key.file /\ f \in Files
      /\ c.subject = Reported(f) /\ c.subject \in Subjects
      /\ row \in Rows /\ row.file = f /\ row.key = c.key
  BY <1>1, <1>2 DEF WellFormed, CompleteStages, Keys, Rows, Reported, Subjects
<1>4. FoundRow(c)
  BY <1>1 DEF ReportsAreKnown
<1>5. CASE Return(h) /\ UNCHANGED rows
  <2>1. day' \in Days /\ urls' \subseteq [user : Users, key : Keys]
    BY <1>2 DEF TypesOK
  <2> QED
    BY <1>1, <1>2, <1>5, <2>1, ReturnInv
<1>6. ASSUME NEW m, NEW d,
             m \in DOMAIN rows', rows' \in Seq(Rows), DOMAIN rows \subseteq DOMAIN rows',
             DOMAIN rows' \subseteq DOMAIN rows \cup {m},
             rows'[m] = row, \A i \in DOMAIN rows : i # m => rows'[i] = rows[i],
             m \in DOMAIN rows => rows[m].file = f,
             m \notin DOMAIN rows => Reported(f) \in contested \/ \A i \in DOMAIN rows : rows[i].file # f,
             \A i \in DOMAIN rows : i # m => rows[i].key # c.key,
             call' = [call EXCEPT ![h] = d], Shaped(d), d.stage = "createLocal", d.row = m,
             d.op = c.op, d.key = c.key, d.file = c.file, d.subject = c.subject
      PROVE  Inv'
  <2>1. /\ call'[h] = d /\ DOMAIN call' = Handlers
        /\ \A g \in Handlers : g # h => call'[g] = call[g]
    BY <1>6, CallChange
  <2>2. WellFormed(d)
    BY <1>1, <1>3, <1>6 DEF WellFormed, PrepareStages, Holding, ApproveStages, UrlStages, CompleteStages
  <2>3. TypesOK'
    BY <1>2, <1>6, <2>1, <2>2 DEF TypesOK, approvalVars
  <2>4. OverlapsAreKnown'
    BY <1>1, <1>2, <1>6, SameSubject
  <2>5. ApprovalInv'
    <3>1. /\ d.stage \notin Holding /\ Deciding(d) /\ NoneWaits(d)
          /\ \A g \in Handlers : DecidesWhatWasPrepared(call[g], d)
      BY <1>6, NoApproval DEF CompleteStages
    <3> HIDE DEF Inv, FileInv
    <3> QED
      BY <3>1, <1>2, <1>6, ApprovalsQuiet
  <2>6. RowsAreKnown'
    <3>1. \A i, j \in DOMAIN rows' : rows'[i].key = rows'[j].key => i = j
      BY <1>3, <1>6 DEF RowsAreKnown
    <3>2. \A i \in DOMAIN rows' : rows'[i].key.file = rows'[i].file
      BY <1>3, <1>6 DEF RowsAreKnown
    <3>3. ASSUME NEW i \in DOMAIN rows', NEW j \in DOMAIN rows', i # j, rows'[i].file = rows'[j].file
          PROVE  Reported(rows'[i].file) \in contested'
      <4>1. CASE m \in DOMAIN rows
        BY <3>3, <4>1, <1>2, <1>3, <1>6 DEF RowsAreKnown
      <4>2. CASE m \notin DOMAIN rows
        BY <3>3, <4>2, <1>2, <1>3, <1>6 DEF RowsAreKnown
      <4> QED
        BY <4>1, <4>2
    <3> QED
      BY <3>1, <3>2, <3>3 DEF RowsAreKnown
  <2>7. ASSUME NEW g \in Handlers, g # h, call[g].stage \in CompleteStages, call[g].file = f
        PROVE  Reported(f) \in contested
    <3>1. call[g].subject = call[h].subject /\ call[h].subject \in Subjects
      BY <2>7, <1>1, <1>3 DEF TypesOK, WellFormed
    <3> QED
      BY <3>1, <2>7, <1>1, <1>3, Shared
  <2>8. ReportsAreKnown'
    <3>1. ASSUME NEW g \in Handlers PROVE FoundRow(call[g])' /\ WroteRow(call[g])'
      <4>1. CASE g = h
        BY <4>1, <2>1, <1>1, <1>3, <1>6 DEF FoundRow, WroteRow
      <4>2. CASE g # h
        <5>1. call'[g] = call[g] /\ FoundRow(call[g]) /\ WroteRow(call[g])
          BY <4>2, <2>1 DEF ReportsAreKnown
        <5>2. FoundRow(call[g])'
          BY <5>1, <4>2, <2>7, <1>2, <1>3, <1>6 DEF FoundRow, CompleteStages
        <5>3. WroteRow(call[g])'
          BY <5>1, <4>2, <2>7, <1>2, <1>3, <1>6 DEF WroteRow, CompleteStages
        <5> QED
          BY <5>2, <5>3
      <4> QED
        BY <4>1, <4>2
    <3> QED
      BY <3>1 DEF ReportsAreKnown
  <2>9. FilesAreServed'
    <3> SUFFICES ASSUME NEW x \in Files, Reported(x) \notin contested
                 PROVE  completed[x] = None \/ Served(x)' \/ \E g \in Handlers : Reporting(call'[g], x)
      BY <1>2 DEF FilesAreServed, Reporting
    <3>1. CASE x = f
      BY <3>1, <1>1, <1>6, <2>1 DEF Reporting
    <3>2. CASE x # f
      <4>1. Served(x) => Served(x)'
        BY <3>2, <1>2, <1>6 DEF Served
      <4>2. \A g \in Handlers : Reporting(call[g], x) => Reporting(call'[g], x)
        BY <1>1, <1>2, <2>1 DEF Reporting
      <4> QED
        BY <4>1, <4>2 DEF FilesAreServed
    <3> QED
      BY <3>1, <3>2
  <2> QED
    BY <2>3, <2>4, <2>5, <2>6, <2>8, <2>9
<1>7. rows \in Seq(Rows) /\ Len(rows) \in Nat /\ DOMAIN rows = 1..Len(rows)
  BY DEF TypesOK
<1>8. CASE /\ ~\E i \in DOMAIN rows : i # r /\ rows[i].key = c.key
           /\ r = 0
           /\ rows' = Append(rows, row)
           /\ call' = [call EXCEPT ![h].row = Len(rows) + 1, ![h].stage = "createLocal"]
  <2> DEFINE d == [c EXCEPT !.row = Len(rows) + 1, !.stage = "createLocal"]
  <2>1. /\ Shaped(d) /\ d.stage = "createLocal" /\ d.row = Len(rows) + 1
        /\ d.op = c.op /\ d.key = c.key /\ d.file = c.file /\ d.subject = c.subject
    BY <1>2 DEF WellFormed, Shaped
  <2>2. call' = [call EXCEPT ![h] = d]
    BY <1>1, <1>8
  <2> HIDE DEF d
  <2>3. /\ Len(rows) + 1 \in DOMAIN rows' /\ rows' \in Seq(Rows) /\ DOMAIN rows \subseteq DOMAIN rows'
        /\ DOMAIN rows' \subseteq DOMAIN rows \cup {Len(rows) + 1} /\ Len(rows) + 1 \notin DOMAIN rows
        /\ rows'[Len(rows) + 1] = row /\ \A i \in DOMAIN rows : rows'[i] = rows[i]
    <3> HIDE DEF Inv, FileInv
    <3> QED
      BY <1>3, <1>7, <1>8
  <2>4. Reported(f) \in contested \/ \A i \in DOMAIN rows : rows[i].file # f
    BY <1>1, <1>2, <1>4, <1>7, <1>8 DEF FoundRow
  <2>5. \A i \in DOMAIN rows : rows[i].key # c.key
    BY <1>7, <1>8
  <2> QED
    BY <1>6, <2>1, <2>2, <2>3, <2>4, <2>5
<1>9. CASE /\ ~\E i \in DOMAIN rows : i # r /\ rows[i].key = c.key
           /\ r # 0
           /\ rows' = [rows EXCEPT ![r] = row]
           /\ Goto(h, "createLocal")
  <2> DEFINE d == [c EXCEPT !.stage = "createLocal"]
  <2>1. /\ Shaped(d) /\ d.stage = "createLocal" /\ d.row = r
        /\ d.op = c.op /\ d.key = c.key /\ d.file = c.file /\ d.subject = c.subject
    BY <1>1, <1>2 DEF WellFormed, Shaped
  <2>2. call' = [call EXCEPT ![h] = d]
    BY <1>1, <1>9 DEF Goto
  <2> HIDE DEF d
  <2>3. r \in DOMAIN rows /\ rows[r].file = f
    BY <1>1, <1>2, <1>4, <1>9 DEF FoundRow
  <2>4. /\ rows' \in Seq(Rows) /\ DOMAIN rows' = DOMAIN rows
        /\ rows'[r] = row /\ \A i \in DOMAIN rows : i # r => rows'[i] = rows[i]
    <3> HIDE DEF Inv, FileInv
    <3> QED
      BY <1>3, <1>7, <1>9, <2>3
  <2> QED
    BY <1>6, <1>9, <2>1, <2>2, <2>3, <2>4
<1> QED
  BY <1>1, <1>5, <1>8, <1>9 DEF WriteRow, Updated

LEMMA CreateLocalInv ==
  ASSUME Inv, NEW h \in Handlers, CreateLocal(h)
  PROVE  Inv'
<1> USE DEF Inv, FileInv
<1>1. PICK c, f : c = call[h] /\ f = c.file
  OBVIOUS
<1>2. /\ c.stage = "createLocal" /\ WellFormed(c)
      /\ completed' = [completed EXCEPT ![f] = c.key] /\ call' = [call EXCEPT ![h] = Idle]
      /\ UNCHANGED <<approvalVars, rows, contested, day, urls>>
  BY <1>1 DEF CreateLocal, Return, storeVars, TypesOK
<1>3. c.key \in Keys /\ f \in Files
  BY <1>1, <1>2 DEF WellFormed, CompleteStages, Keys
<1>4. /\ call'[h] = Idle /\ DOMAIN call' = Handlers
      /\ \A g \in Handlers : g # h => call'[g] = call[g]
  BY <1>2, CallChange
<1>5. /\ completed' \in [Files -> Keys \cup {None}] /\ completed'[f] = c.key
      /\ \A x \in Files : x # f => completed'[x] = completed[x]
  BY <1>2, <1>3 DEF TypesOK
<1>6. TypesOK'
  BY <1>2, <1>4, <1>5, IdleFacts DEF TypesOK, approvalVars
<1>7. OverlapsAreKnown' /\ ApprovalInv'
  BY <1>1, <1>2, IdleFacts, IdleOwesNothing, SameSubject, ApprovalsQuiet
<1>8. RowsAreKnown'
  BY <1>2 DEF RowsAreKnown
<1>9. ReportsAreKnown'
  <2>1. ASSUME NEW g \in Handlers PROVE FoundRow(call[g])' /\ WroteRow(call[g])'
    <3>1. CASE g = h
      BY <3>1, <1>4, IdleFacts DEF FoundRow, WroteRow
    <3>2. CASE g # h
      BY <3>2, <1>2, <1>4 DEF ReportsAreKnown, FoundRow, WroteRow
    <3> QED
      BY <3>1, <3>2
  <2> QED
    BY <2>1 DEF ReportsAreKnown
<1>10. FilesAreServed'
  <2> SUFFICES ASSUME NEW x \in Files, Reported(x) \notin contested
               PROVE  completed'[x] = None \/ Served(x)' \/ \E g \in Handlers : Reporting(call'[g], x)
    BY <1>2 DEF FilesAreServed, Reporting
  <2>1. CASE x = f
    <3>1. c.row \in DOMAIN rows /\ rows[c.row].file = f /\ rows[c.row].key = c.key
      BY <2>1, <1>1, <1>2 DEF ReportsAreKnown, WroteRow
    <3> QED
      BY <2>1, <3>1, <1>2, <1>5 DEF Served
  <2>2. CASE x # f
    <3>1. Served(x) => Served(x)'
      BY <2>2, <1>2, <1>5 DEF Served
    <3>2. \A g \in Handlers : Reporting(call[g], x) => Reporting(call'[g], x)
      BY <2>2, <1>1, <1>4 DEF Reporting
    <3> QED
      BY <3>1, <3>2, <2>2, <1>5 DEF FilesAreServed
  <2> QED
    BY <2>1, <2>2
<1> QED
  BY <1>6, <1>7, <1>8, <1>9, <1>10

-----------------------------------------------------------------------------
(* The invariant holds.                                                    *)

LEMMA StoreInv ==
  ASSUME Inv, PutObject \/ NextDay \/ UNCHANGED vars
  PROVE  Inv'
<1>1. /\ UNCHANGED <<call, approvals, userIndex, projectIndex, lastId, rows, completed, contested, urls>>
      /\ day' \in Days
  BY DEF Inv, TypesOK, PutObject, NextDay, vars, approvalVars, fileVars, storeVars, history
<1>2. TypesOK' /\ OverlapsAreKnown'
  BY <1>1 DEF Inv, TypesOK, OverlapsAreKnown
<1>3. FileInv'
  BY <1>1 DEF Inv, FileInv, RowsAreKnown, ReportsAreKnown, FoundRow, WroteRow, FilesAreServed, Served, Reporting
<1>4. /\ \A i : Stored(i)' <=> Stored(i)
      /\ \A u, f, i : Waits(u, f, i)' <=> Waits(u, f, i)
  BY <1>1 DEF Stored, Waits
<1>5. ApprovalInv'
  BY <1>1, <1>4 DEF Inv, ApprovalInv, NumbersAreFresh, Fresh, DecisionsAreKnown, Deciding, DecidesWhatWasPrepared,
                    OneWaits, NoneWaits
<1> QED
  BY <1>2, <1>3, <1>5 DEF Inv

LEMMA InitInv == Init => Inv
<1> SUFFICES ASSUME Init PROVE Inv
  OBVIOUS
<1>1. /\ DOMAIN call = Handlers /\ \A h \in Handlers : call[h] = Idle
      /\ rows = <<>> /\ DOMAIN rows = {} /\ userIndex = {} /\ projectIndex = {} /\ lastId = 0 /\ urls = {}
      /\ day = 1 /\ contested = {} /\ approvals = [i \in Ids |-> None] /\ completed = [f \in Files |-> None]
  BY DEF Init
<1>2. TypesOK
  BY <1>1, IdleFacts, BoundsAssumption, DaysAssumption DEF TypesOK
<1>3. OverlapsAreKnown
  BY <1>1, IdleFacts DEF OverlapsAreKnown
<1>4. FileInv
  BY <1>1, IdleOwesNothing DEF FileInv, RowsAreKnown, ReportsAreKnown, FilesAreServed
<1>5. Fresh(Idle)
  BY IdleFacts DEF Fresh, Holding
<1>6. ApprovalInv
  BY <1>1, <1>5, IdleFacts, IdleOwesNothing
     DEF ApprovalInv, NumbersAreFresh, DecisionsAreKnown, OneWaits, Waits, Stored
<1> QED
  BY <1>2, <1>3, <1>4, <1>6 DEF Inv

LEMMA NextInv == Inv /\ [Next]_vars => Inv'
<1> SUFFICES ASSUME Inv, [Next]_vars PROVE Inv'
  OBVIOUS
<1> QED
  BY RequestsInv, FindWaitingInv, TakeIdInv, StoreApprovalInv, IndexByProjectInv, IndexByUserInv,
     CheckWaitingInv, ReadAgainInv, StoreStatusInv, CheckApprovedInv, PresignInv, VerifyUploadInv, FindRowInv,
     WriteRowInv, CreateLocalInv, SyncInv, FailInv, ExpireApprovalInv, StoreInv DEF Next

LEMMA Invariance == Spec => []Inv
BY InitInv, NextInv, PTL DEF Spec

\* At most one approval waits for a member's file, unless two requests for it overlapped or one went on
\* without an approval it could not read, however many handlers and failures there are (PrepareUpload, cloud_file_service.go:62; CreateApproval,
\* cloud_file_approval_service.go:31, cloud_file_approval_redis.go:63).
THEOREM OneWaitsAtMost == Spec => []OneApprovalWaits
<1>1. Inv => OneApprovalWaits
  <2> SUFFICES ASSUME Inv, NEW u \in Users, NEW f \in Files, Prepared(u, f) \notin contested
               PROVE  ~(Cardinality({i \in ApprovalsOf(u, f) : approvals[i].status = "waiting"}) > 1)
    BY DEF OneApprovalWaits, Prepared
  <2> DEFINE W == {i \in ApprovalsOf(u, f) : approvals[i].status = "waiting"}
  <2>1. \A i \in W : i \in Ids /\ Waits(u, f, i)
    BY DEF Waits, ApprovalsOf, Stored
  <2>2. \A i, j \in W : i = j
    BY <2>1 DEF Inv, ApprovalInv, OneWaits
  <2>3. W = {} \/ \E i : W = {i}
    BY <2>2
  <2>4. Cardinality(W) \in {0, 1}
    <3> HIDE DEF W
    <3> QED
      BY <2>3, FS_EmptySet, FS_Singleton
  <2> QED
    BY <2>4
<1> QED
  BY <1>1, Invariance, PTL

\* Two records of one file have different keys, and two reports of its upload overlapped
\* (cloud_file_service.go: CompleteUpload).
THEOREM SecondRowsAreContested == Spec => []SecondRowIsContested
<1>1. Inv => SecondRowIsContested
  <2> SUFFICES ASSUME Inv, NEW i \in DOMAIN rows, NEW j \in DOMAIN rows, i < j, rows[i].file = rows[j].file
               PROVE  rows[i].key # rows[j].key /\ Reported(rows[i].file) \in contested
    BY DEF SecondRowIsContested, Reported
  <2>1. i # j
    BY DEF Inv, TypesOK
  <2> QED
    BY <2>1 DEF Inv, FileInv, RowsAreKnown
<1> QED
  BY <1>1, Invariance, PTL

\* The record by which a file is found has the key that was reported last, unless two reports of
\* it overlapped or one is under way.
THEOREM UploadsAreServed == Spec => []CompletedUploadsAreServed
<1>1. Inv => CompletedUploadsAreServed
  <2> SUFFICES ASSUME Inv, NEW f \in Files, completed[f] # None, Reported(f) \notin contested,
                      ~\E h \in Handlers : call[h].op = "complete" /\ call[h].file = f
               PROVE  rows[RowOf(f)].key = completed[f]
    BY DEF CompletedUploadsAreServed, Reported
  <2>1. ~\E h \in Handlers : Reporting(call[h], f)
    BY DEF Reporting, Inv, TypesOK, WellFormed, CompleteStages
  <2>2. PICK i \in DOMAIN rows : rows[i].file = f /\ rows[i].key = completed[f]
    BY <2>1 DEF Inv, FileInv, FilesAreServed, Served
  <2>3. {j \in DOMAIN rows : rows[j].file = f} = {i}
    BY <2>2 DEF Inv, FileInv, RowsAreKnown
  <2>4. i \in Nat
    BY DEF Inv, TypesOK
  <2>5. RowOf(f) = i
    BY <2>3, <2>4, FirstFacts DEF RowOf
  <2> QED
    BY <2>2, <2>5
<1> QED
  BY <1>1, Invariance, PTL

\* A decision is changed only by another that overlapped with it on the same approval
\* (cloud_file_approval_service.go: ApproveApproval; its repository: UpdateApprovalStatus).
THEOREM DecisionsAreFinal == Spec => DecisionsStand
<1> DEFINE Stands == \A i \in Ids :
             approvals[i] # None /\ approvals'[i] # None /\ approvals[i].status # "waiting"
               => approvals'[i] = approvals[i] \/ <<"approve", None, i>> \in contested
<1>1. Inv /\ [Next]_vars => [Stands]_vars
  <2> SUFFICES ASSUME Inv, Next PROVE Stands
    OBVIOUS
  <2>1. CASE UNCHANGED approvals
    BY <2>1
  <2>2. ASSUME NEW h \in Handlers, StoreApproval(h) PROVE Stands
    <3>1. approvals[call[h].id] = None
      BY <2>2 DEF StoreApproval, Inv, ApprovalInv, NumbersAreFresh, Fresh
    <3>2. \A i \in Ids : i # call[h].id => approvals'[i] = approvals[i]
      BY <2>2 DEF StoreApproval, Inv, TypesOK
    <3> QED
      BY <3>1, <3>2
  <2>3. ASSUME NEW h \in Handlers, StoreStatus(h) PROVE Stands
    <3>1. \/ Decided(call[h].id) \in contested
          \/ approvals[call[h].id] = None \/ approvals[call[h].id].status = "waiting"
      BY <2>3 DEF StoreStatus, Inv, ApprovalInv, DecisionsAreKnown, Deciding
    <3>2. \A i \in Ids : i # call[h].id => approvals'[i] = approvals[i]
      BY <2>3 DEF StoreStatus, Inv, TypesOK
    <3> QED
      BY <3>1, <3>2 DEF Decided
  <2>4. ASSUME ExpireApproval PROVE Stands
    BY <2>4 DEF ExpireApproval, Inv, TypesOK
  <2> USE DEF approvalVars
  <2>5. ASSUME NEW h \in Handlers,
               \/ PrepareUpload(h) \/ ApproveApproval(h) \/ GetUploadURL(h) \/ CompleteUpload(h) \/ SyncCloudFile(h)
        PROVE  UNCHANGED approvals
    BY <2>5 DEF PrepareUpload, ApproveApproval, GetUploadURL, CompleteUpload, SyncCloudFile, Begin
  <2>6. ASSUME NEW h \in Handlers,
               \/ FindWaiting(h) \/ OverlookWaiting(h) \/ TakeId(h) \/ IndexByProject(h) \/ IndexByUser(h)
               \/ CheckWaiting(h) \/ ReadAgain(h) \/ CheckApproved(h) \/ Presign(h) \/ VerifyUpload(h) \/ FindRow(h) \/ WriteRow(h) \/ CreateLocal(h)
               \/ ReadRow(h) \/ CompareETag(h) \/ FindLocal(h) \/ WriteLocal(h) \/ Fail(h)
        PROVE  UNCHANGED approvals
    BY <2>6 DEF FindWaiting, OverlookWaiting, TakeId, IndexByProject, IndexByUser, CheckWaiting, ReadAgain, CheckApproved, Presign,
                VerifyUpload, FindRow, WriteRow, CreateLocal, ReadRow, CompareETag, FindLocal, WriteLocal, Fail
  <2>7. ASSUME PutObject \/ NextDay PROVE UNCHANGED approvals
    BY <2>7 DEF PutObject, NextDay
  <2> QED
    BY <2>1, <2>2, <2>3, <2>4, <2>5, <2>6, <2>7 DEF Next
<1> QED
  BY <1>1, Invariance, PTL DEF Spec, DecisionsStand
=============================================================================
