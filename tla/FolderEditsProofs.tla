------------------------- MODULE FolderEditsProofs -------------------------
(* Proofs about ProjectMembers and FolderEdits, for every value of their    *)
(* constants.                                                              *)
EXTENDS FolderEdits, FiniteSetTheorems, WellFoundedInduction, TLAPS

(***************************************************************************)
(* The inductive invariant: what a request knows at its stage.             *)
(***************************************************************************)

Fields == {"op", "stage", "user", "project", "item", "parent", "role", "olds", "target"}

CreateStages == {"insertProject", "addOwner", "createRoot"}
AdmittedStages == {"checkAdder", "insertMember", "checkUpdater", "ownerUpdates", "adminUpdates", "updateRole"}
MemberStages == CreateStages \cup AdmittedStages

Rows == [user : Users \cup {c.item : c \in Menu}, role : DOMAIN Level \cup {c.role : c \in Menu}]

\* The projects and their members: what is first of the owner's rows says "owner".
Leads(p, i) == i \in RowsOf(p, owner[p]) /\ \A j \in RowsOf(p, owner[p]) : i <= j
OwnerLeads(p) ==
  /\ members[p] # <<>> => owner[p] # None
  /\ p \notin early => \A i \in DOMAIN members[p] : Leads(p, i) => members[p][i].role = "owner"
MemberCallOK(c) ==
  /\ c.stage \in CreateStages \cup AdmittedStages => c.user \in Users
  /\ c.stage = "addOwner" => c.project \in Projects /\ owner[c.project] = c.user
  /\ c.stage \in AdmittedStages => c.project \in Projects /\ [user |-> c.item, role |-> c.role] \in Rows
  /\ c.stage \in {"insertMember", "ownerUpdates", "adminUpdates", "updateRole"} => owner[c.project] # None
  /\ c.stage \in {"ownerUpdates", "adminUpdates", "updateRole"} => c.item # owner[c.project]
MembersInv ==
  /\ owner \in [Projects -> Users \cup {None}]
  /\ members \in [Projects -> Seq(Rows)]
  /\ \A p \in Projects : OwnerLeads(p)
  /\ \A h \in Handlers : MemberCallOK(call[h])

\* The requests on folders and files and the stages of each.
Stages ==
  [createFolder |-> {"checkRoot", "insertFolder", "checkParent", "checkMount", "insertMount"},
   renameFolder |-> {"readFolder", "saveFolder"},
   deleteFolder |-> {"findFolder", "dropFolder"},
   moveFolder |-> {"checkMove", "readOld", "findRelation", "dropRelation", "checkMount", "insertMount"},
   call |-> {"checkCall", "findCall", "insertCall"},
   login |-> {"insertFile"},
   mountFile |-> {"checkFile", "checkMount", "insertMount"},
   unmountFile |-> {"checkFile", "findRelation", "dropRelation"},
   logout |-> {"findFile", "dropFile"},
   renameFile |-> {"readFile", "saveFile"}]
EditOps == DOMAIN Stages

ItemOK(c) ==
  /\ c.op = "login" => c.item = None
  /\ c.op = "createFolder" =>
       c.project \in Projects /\ c.item \in IF c.stage \in {"checkRoot", "insertFolder"} THEN {None} ELSE FolderItems
  /\ c.op \in {"renameFolder", "deleteFolder", "moveFolder", "call"} => c.item \in FolderItems
  /\ c.op = "call" => c.parent \in FolderItems
  /\ c.op \in {"mountFile", "unmountFile", "logout", "renameFile"} => c.item \in FileItems

WellFormed(c) ==
  /\ DOMAIN c = Fields
  /\ \/ c.op \notin EditOps /\ c.stage \in {"idle"} \cup MemberStages
     \/ c.op \in EditOps /\ c.stage \in Stages[c.op] /\ ItemOK(c)

\* What is read of a folder before it is used still holds, but for a contest.
LateMove(c) == c.op = "moveFolder" /\ c.stage \notin {"checkMove", "readOld"}
Homed(c) ==
  (c.op = "createFolder" /\ c.item # None) \/ LateMove(c) \/ c.stage = "saveFolder" => home[c.item.id] # None
OldsOK(c) ==
  /\ c.stage = "findRelation" => \A m \in c.olds : m.child = c.item
  /\ c.stage = "dropRelation" => c.target.child = c.item /\ \A m \in c.olds : m.child = c.item
Unplaced(c) ==
  Subject(c) \notin contested =>
    /\ (c.op = "createFolder" /\ c.item # None) \/ (LateMove(c) /\ c.stage \in {"checkMount", "insertMount"})
         => MountsOfChild(c.item) = {}
    /\ LateMove(c) => MountsOfChild(c.item) \subseteq c.olds
CallFound(c) == c.stage = "insertCall" /\ Subject(c) \notin contested => callRows[Subject(c)] = 0
SavesWhatIsThere(c) ==
  /\ c.stage = "saveFolder" /\ c.item.id \notin folders => Subject(c) \in contested
  /\ c.stage = "saveFile" /\ c.item.id \notin files => Subject(c) \in contested
EditCallOK(c) == WellFormed(c) /\ Homed(c) /\ OldsOK(c) /\ Unplaced(c) /\ CallFound(c) /\ SavesWhatIsThere(c)

\* Two requests on one subject.
Clash(c, d) ==
  c.op \in EditOps /\ d.op \in EditOps /\ c.item # None /\ d.item # None /\ Subject(c) = Subject(d)
OverlapsAreKnown ==
  \A h, g \in Handlers : h # g /\ Clash(call[h], call[g]) => Subject(call[h]) \in contested

TablesOK ==
  /\ home \in [FolderIds -> Projects \cup {None}]
  /\ \A f \in folders : home[f] # None
  /\ \A m \in mounts : m.child \in FileItems \/ (m.child \in FolderItems /\ home[m.child.id] # None)
  /\ callRows \in [CallPairs -> Nat]
OneFather ==
  \A m, n \in mounts : m.child = n.child /\ m.child \in FolderItems /\ m # n => <<m.child, m.child>> \in contested
OneRow == \A c \in CallPairs : callRows[c] > 1 => c \in contested
EditsInv ==
  /\ DOMAIN call = Handlers /\ \A h \in Handlers : EditCallOK(call[h])
  /\ OverlapsAreKnown /\ TablesOK /\ OneFather /\ OneRow /\ RevivedWereContested

\* A folder that has been mounted is, or a move of it has still to mount it.
InWork(f) == \E h \in Handlers : LateMove(call[h]) /\ call[h].item = FolderItem(f)
PlacesInv == \A f \in placed \ strayed : FolderMounts(f) # {} \/ InWork(f)

(***************************************************************************)
(* Steps that change one request                                           *)
(***************************************************************************)

Frame(h) == DOMAIN call' = Handlers /\ \A g \in Handlers \ {h} : call'[g] = call[g]

\* Goto changes the stage and nothing else.
LEMMA GotoFields ==
  ASSUME NEW h \in Handlers, NEW s, DOMAIN call = Handlers, DOMAIN call[h] = Fields, Goto(h, s)
  PROVE  /\ Frame(h) /\ DOMAIN call'[h] = Fields
         /\ call'[h].stage = s /\ call'[h].op = call[h].op /\ call'[h].user = call[h].user
         /\ call'[h].project = call[h].project /\ call'[h].item = call[h].item
         /\ call'[h].parent = call[h].parent /\ call'[h].role = call[h].role
         /\ call'[h].olds = call[h].olds /\ call'[h].target = call[h].target
BY DEF Goto, Frame, Fields

\* Return leaves no request.
LEMMA ReturnFields ==
  ASSUME NEW h \in Handlers, DOMAIN call = Handlers, Return(h)
  PROVE  Frame(h) /\ call'[h] = Idle
BY DEF Return, Frame

\* Begin takes the fields of what the client sent.
LEMMA BeginFields ==
  ASSUME NEW h \in Handlers, NEW s, NEW c, DOMAIN call = Handlers, Begin(h, c, s)
  PROVE  /\ Frame(h) /\ DOMAIN call'[h] = Fields
         /\ call'[h].stage = s /\ call'[h].op = c.op /\ call'[h].user = c.user
         /\ call'[h].project = c.project /\ call'[h].item = c.item
         /\ call'[h].parent = c.parent /\ call'[h].role = c.role
BY DEF Begin, Frame, Fields

LEMMA IdleFields ==
  /\ DOMAIN Idle = Fields /\ Idle.stage = "idle" /\ Idle.op = "none" /\ Idle.item = None
  /\ "none" \notin EditOps /\ "idle" \notin MemberStages
BY DEF Idle, Fields, EditOps, Stages, MemberStages, CreateStages, AdmittedStages

(***************************************************************************)
(* Projects and members                                                    *)
(***************************************************************************)

\* A step that leaves the rows of projects alone and knows what its stage needs.
LEMMA MembersStep ==
  ASSUME NEW h \in Handlers, MembersInv, Frame(h), owner' = owner, members' = members, early' = early,
         MemberCallOK(call[h])'
  PROVE  MembersInv'
<1> USE DEF MembersInv
<1>1. \A p \in Projects : OwnerLeads(p)'
  BY DEF OwnerLeads, Leads, RowsOf
<1>2. ASSUME NEW g \in Handlers PROVE MemberCallOK(call[g])'
  <2>1. CASE g = h
    BY <2>1
  <2>2. CASE g # h
    BY <2>2, MemberCallOK(call[g]), call'[g] = call[g] DEF MemberCallOK, Frame
  <2> QED BY <2>1, <2>2
<1> QED BY <1>1, <1>2

\* A step to a stage that has nothing to do with members.
LEMMA MembersQuiet ==
  ASSUME NEW h \in Handlers, MembersInv, Frame(h), owner' = owner, members' = members, early' = early,
         call'[h].stage \notin MemberStages
  PROVE  MembersInv'
<1>1. MemberCallOK(call[h])'
  BY DEF MemberCallOK, MemberStages, CreateStages, AdmittedStages
<1> QED BY <1>1, MembersStep

\* A project in which somebody acts has an owner.
LEMMA MembersHaveOwner ==
  ASSUME MembersInv, NEW p \in Projects, NEW u, IsProjectMember(p, u)
  PROVE  owner[p] # None
BY DEF IsProjectMember, RowsOf, MembersInv, OwnerLeads

LEMMA MenuRows ==
  ASSUME NEW c \in Menu
  PROVE  [user |-> c.item, role |-> c.role] \in Rows
BY DEF Rows

\* A row at the end is first of its user's rows only if there was none.
LEMMA AddRowKeepsMembers ==
  ASSUME NEW h \in Handlers, MembersInv, Frame(h), owner' = owner, early \subseteq early',
         NEW p \in Projects, NEW u, NEW r, [user |-> u, role |-> r] \in Rows, AddRow(p, u, r),
         owner[p] # None,
         u # owner[p] \/ r = "owner" \/ RowsOf(p, u) # {} \/ p \in early',
         MemberCallOK(call[h])'
  PROVE  MembersInv'
<1> USE DEF MembersInv
<1> DEFINE row == [user |-> u, role |-> r]
<1> DEFINE R == Rows
<1>1. row \in R /\ members[p] \in Seq(R) /\ members \in [Projects -> Seq(R)]
  OBVIOUS
<1>2. members' = [members EXCEPT ![p] = Append(members[p], row)]
  BY DEF AddRow
<1>3. row.user = u /\ row.role = r
  OBVIOUS
<1>4. PICK n \in Nat : n = Len(members[p]) /\ DOMAIN members[p] = 1..n
  BY <1>1
<1> HIDE DEF R, row
<1>5. members' \in [Projects -> Seq(R)]
  BY <1>1, <1>2
<1>6. \A q \in Projects : OwnerLeads(q)'
  <2> SUFFICES ASSUME NEW q \in Projects PROVE OwnerLeads(q)'
    OBVIOUS
  <2>1. CASE q # p
    BY <2>1, <1>2, OwnerLeads(q) DEF OwnerLeads, Leads, RowsOf
  <2>2. CASE q = p
    <3>1. /\ DOMAIN members'[p] = 1..(n + 1) /\ members'[p][n + 1] = row
          /\ \A i \in 1..n : members'[p][i] = members[p][i]
      BY <1>1, <1>2, <1>4
    <3> SUFFICES ASSUME p \notin early', NEW i \in 1..(n + 1), Leads(p, i)' PROVE members'[p][i].role = "owner"
      BY <2>2, <3>1 DEF OwnerLeads
    <3>2. \A j \in 1..n : j \in RowsOf(p, owner[p]) => j \in RowsOf(p, owner[p])'
      BY <3>1, <1>4 DEF RowsOf
    <3>3. CASE i \in 1..n
      <4>1. i \in RowsOf(p, owner[p])
        BY <3>1, <3>3, <1>4 DEF Leads, RowsOf
      <4>2. \A j \in RowsOf(p, owner[p]) : j \in 1..n /\ i <= j
        BY <3>2, <1>4 DEF Leads, RowsOf
      <4>3. Leads(p, i)
        BY <4>1, <4>2 DEF Leads
      <4> QED BY <3>1, <3>3, <4>3, <1>4, OwnerLeads(p) DEF OwnerLeads
    <3>4. CASE i = n + 1
      <4>1. members'[p][i] = row
        BY <3>1, <3>4
      <4>2. row.user = owner[p]
        BY <4>1 DEF Leads, RowsOf
      <4>3. RowsOf(p, owner[p]) = {}
        <5> SUFFICES ASSUME NEW j \in RowsOf(p, owner[p]) PROVE FALSE
          OBVIOUS
        <5>1. j \in 1..n
          BY <1>4 DEF RowsOf
        <5>2. i <= j
          BY <3>2, <5>1 DEF Leads
        <5> QED BY <5>1, <5>2, <3>4
      <4> QED BY <4>1, <4>2, <4>3, <1>3
    <3> QED BY <3>3, <3>4
  <2> QED BY <2>1, <2>2
<1>7. ASSUME NEW g \in Handlers PROVE MemberCallOK(call[g])'
  BY MemberCallOK(call[g]) DEF MemberCallOK, Frame
<1> QED BY <1>5, <1>6, <1>7 DEF R

LEMMA ReturnKeepsMembers ==
  ASSUME NEW h \in Handlers, MembersInv, DOMAIN call = Handlers, Return(h),
         owner' = owner, members' = members, early' = early
  PROVE  MembersInv'
BY ReturnFields, IdleFields, MembersQuiet

LEMMA CreateProjectKeepsMembers ==
  ASSUME NEW h \in Handlers, MembersInv, DOMAIN call = Handlers, CreateProject(h)
  PROVE  MembersInv'
<1>1. PICK c \in Menu : Begin(h, c, "insertProject")
  BY DEF CreateProject
<1>2. Frame(h) /\ call'[h].stage = "insertProject" /\ call'[h].user = c.user
  BY <1>1, BeginFields
<1>3. MemberCallOK(call[h])'
  BY <1>2, UsersAssumption DEF MemberCallOK, CreateStages, AdmittedStages
<1> QED BY <1>2, <1>3, MembersStep DEF CreateProject, memberVars

\* The middleware lets pass whoever has the role in the project of the path.
LEMMA AdmissionKeepsMembers ==
  ASSUME NEW h \in Handlers, MembersInv, DOMAIN call = Handlers, NEW c \in Menu, c.op # "createProject",
         NEW required, NEW s, Admit(h, c, required, s), s \notin CreateStages,
         s \notin {"insertMember", "ownerUpdates", "adminUpdates", "updateRole"}, UNCHANGED memberVars
  PROVE  MembersInv'
<1>1. c.user \in Users /\ c.project \in Projects /\ [user |-> c.item, role |-> c.role] \in Rows
  BY UsersAssumption, MenuRows
<1>2. /\ Frame(h) /\ call'[h].stage = s /\ call'[h].user = c.user /\ call'[h].project = c.project
      /\ call'[h].item = c.item /\ call'[h].role = c.role
  BY BeginFields DEF Admit
<1>3. MemberCallOK(call[h])'
  BY <1>1, <1>2 DEF MemberCallOK, CreateStages, memberVars, Rows
<1> QED BY <1>2, <1>3, MembersStep DEF memberVars

\* The project is new: it has no owner yet, so no rows and nobody acts in it.
LEMMA InsertProjectKeepsMembers ==
  ASSUME NEW h \in Handlers, MembersInv, DOMAIN call = Handlers, DOMAIN call[h] = Fields, InsertProject(h)
  PROVE  MembersInv'
<1> USE DEF MembersInv
<1>1. PICK p \in Projects :
        /\ owner[p] = None
        /\ owner' = [owner EXCEPT ![p] = call[h].user]
        /\ call' = [call EXCEPT ![h].project = p, ![h].stage = "addOwner"]
  BY DEF InsertProject
<1>2. /\ Frame(h) /\ call'[h].stage = "addOwner" /\ call'[h].project = p
      /\ call'[h].user = call[h].user
  BY <1>1 DEF Frame, Fields
<1>3. call[h].user \in Users /\ call[h].user # None /\ members' = members /\ early' = early
  BY UsersAssumption, MemberCallOK(call[h]) DEF MemberCallOK, InsertProject, CreateStages
<1>4. owner' \in [Projects -> Users \cup {None}] /\ owner'[p] = call[h].user
  BY <1>1, <1>3
<1>5. members[p] = <<>>
  BY <1>1, OwnerLeads(p) DEF OwnerLeads
<1>6. ASSUME NEW q \in Projects PROVE OwnerLeads(q)'
  BY <1>1, <1>3, <1>5, OwnerLeads(q) DEF OwnerLeads, Leads, RowsOf
<1>7. ASSUME NEW g \in Handlers PROVE MemberCallOK(call[g])'
  <2>1. CASE g = h
    BY <2>1, <1>2, <1>3, <1>4 DEF MemberCallOK, CreateStages, AdmittedStages
  <2>2. CASE g # h
    <3>1. MemberCallOK(call[g]) /\ call'[g] = call[g]
      BY <2>2, <1>2 DEF Frame
    <3>2. call[g].stage \in {"insertMember", "ownerUpdates", "adminUpdates", "updateRole"} => call[g].project # p
      BY <3>1, <1>1 DEF MemberCallOK
    <3>3. call[g].stage = "addOwner" => call[g].project # p
      BY <3>1, <1>1, UsersAssumption DEF MemberCallOK, CreateStages
    <3> QED BY <3>1, <3>2, <3>3, <1>1, <1>3 DEF MemberCallOK
  <2> QED BY <2>1, <2>2
<1> QED BY <1>3, <1>4, <1>6, <1>7

LEMMA AddOwnerKeepsMembers ==
  ASSUME NEW h \in Handlers, MembersInv, DOMAIN call = Handlers, DOMAIN call[h] = Fields, AddOwner(h)
  PROVE  MembersInv'
<1>1. PICK q, v : q = call[h].project /\ v = call[h].user
  OBVIOUS
<1>2. q \in Projects /\ v \in Users /\ v # None /\ owner[q] = v
  BY <1>1, UsersAssumption DEF MembersInv, MemberCallOK, AddOwner, CreateStages
<1>3. Goto(h, "createRoot") /\ owner' = owner /\ early' = early
  BY DEF AddOwner
<1>4. Frame(h) /\ call'[h].stage = "createRoot" /\ call'[h].user = v
  BY <1>1, <1>3, GotoFields
<1>5. MemberCallOK(call[h])'
  BY <1>2, <1>4 DEF MemberCallOK, CreateStages, AdmittedStages
<1>6. CASE AddRow(q, v, "owner")
  <2>1. [user |-> v, role |-> "owner"] \in Rows
    BY <1>2 DEF Rows, Level
  <2> QED BY <1>2, <1>3, <1>4, <1>5, <1>6, <2>1, AddRowKeepsMembers
<1>7. CASE members' = members
  BY <1>3, <1>4, <1>5, <1>7, MembersStep
<1> QED BY <1>1, <1>6, <1>7 DEF AddOwner

LEMMA InsertMemberKeepsMembers ==
  ASSUME NEW h \in Handlers, MembersInv, DOMAIN call = Handlers, InsertMember(h)
  PROVE  MembersInv'
<1>1. PICK p, u, r : p = call[h].project /\ u = call[h].item /\ r = call[h].role
  OBVIOUS
<1>2. p \in Projects /\ owner[p] # None /\ [user |-> u, role |-> r] \in Rows
  BY <1>1 DEF MembersInv, MemberCallOK, InsertMember, AdmittedStages
<1>3. /\ Frame(h) /\ call'[h].stage = "idle" /\ owner' = owner /\ AddRow(p, u, r)
      /\ early \subseteq early' /\ (u # owner[p] \/ RowsOf(p, u) # {} \/ p \in early')
  BY <1>1, ReturnFields, IdleFields DEF InsertMember, IsProjectMember
<1>4. MemberCallOK(call[h])'
  BY <1>3 DEF MemberCallOK, CreateStages, AdmittedStages
<1> QED BY <1>2, <1>3, <1>4, AddRowKeepsMembers

\* Checks of a member request go on to a stage of the same project and item.
LEMMA MemberChecksKeepMembers ==
  ASSUME NEW h \in Handlers, MembersInv, DOMAIN call = Handlers, DOMAIN call[h] = Fields,
         CheckAdder(h) \/ CheckUpdater(h) \/ CheckTarget(h)
  PROVE  MembersInv'
<1>1. owner' = owner /\ members' = members /\ early' = early
  BY DEF CheckAdder, CheckUpdater, CheckTarget, memberVars
<1>2. MemberCallOK(call[h])
  BY DEF MembersInv
<1>3. CASE Return(h)
  BY <1>1, <1>3, ReturnKeepsMembers
<1>4. ASSUME NEW s, s \in {"insertMember", "ownerUpdates", "adminUpdates", "updateRole"}, Goto(h, s),
             call[h].stage \in AdmittedStages, owner[call[h].project] # None,
             s # "insertMember" => call[h].item # owner[call[h].project]
      PROVE  MembersInv'
  <2>1. /\ Frame(h) /\ call'[h].stage = s /\ call'[h].project = call[h].project
        /\ call'[h].item = call[h].item /\ call'[h].role = call[h].role /\ call'[h].user = call[h].user
    BY <1>4, GotoFields
  <2>2. MemberCallOK(call[h])'
    BY <1>1, <1>2, <1>4, <2>1 DEF MemberCallOK, CreateStages, AdmittedStages, Rows
  <2> QED BY <1>1, <2>1, <2>2, MembersStep
<1>5. CASE CheckAdder(h)
  <2>1. call[h].stage \in AdmittedStages /\ call[h].project \in Projects /\ call[h].user \in Users
    BY <1>2, <1>5 DEF CheckAdder, MemberCallOK, AdmittedStages
  <2>2. CASE Goto(h, "insertMember") /\ owner[call[h].project] # None
    BY <1>4, <2>1, <2>2
  <2>3. ASSUME owner[call[h].project] = None PROVE Return(h)
    <3>1. owner[call[h].project] # call[h].user
      BY <2>1, <2>3, UsersAssumption
    <3>2. ~IsProjectMember(call[h].project, call[h].user)
      BY <2>1, <2>3, MembersHaveOwner
    <3> QED BY <1>5, <2>3, <3>1, <3>2 DEF CheckAdder
  <2> QED BY <1>3, <1>5, <2>2, <2>3 DEF CheckAdder
<1>6. CASE CheckUpdater(h)
  <2>1. call[h].stage \in AdmittedStages /\ call[h].project \in Projects
    BY <1>2, <1>6 DEF CheckUpdater, MemberCallOK, AdmittedStages
  <2>2. \/ Return(h)
        \/ /\ Goto(h, "ownerUpdates") \/ Goto(h, "adminUpdates")
           /\ IsProjectMember(call[h].project, call[h].user) /\ call[h].item # owner[call[h].project]
    BY <1>6 DEF CheckUpdater, MayBeUpdated
  <2> QED BY <1>3, <1>4, <2>1, <2>2, MembersHaveOwner
<1>7. CASE CheckTarget(h)
  <2>1. /\ call[h].stage \in AdmittedStages /\ owner[call[h].project] # None
        /\ call[h].item # owner[call[h].project]
    BY <1>2, <1>7 DEF CheckTarget, MemberCallOK, AdmittedStages
  <2> QED BY <1>3, <1>4, <1>7, <2>1 DEF CheckTarget
<1> QED BY <1>5, <1>6, <1>7

\* The rows of the member alone are written, none of the owner's.
LEMMA UpdateRoleKeepsMembers ==
  ASSUME NEW h \in Handlers, MembersInv, DOMAIN call = Handlers, UpdateProjectMemberRole(h)
  PROVE  MembersInv'
<1>1. PICK p, u, r : p = call[h].project /\ u = call[h].item /\ r = call[h].role
  OBVIOUS
<1>2. p \in Projects /\ owner[p] # None /\ u # owner[p] /\ [user |-> u, role |-> r] \in Rows
  BY <1>1 DEF MembersInv, MemberCallOK, UpdateProjectMemberRole, AdmittedStages
<1> DEFINE rows == [i \in DOMAIN members[p] |->
                      IF members[p][i].user = u THEN [members[p][i] EXCEPT !.role = r] ELSE members[p][i]]
<1>3. members' = [members EXCEPT ![p] = rows]
  BY <1>1 DEF UpdateProjectMemberRole
<1>4. members \in [Projects -> Seq(Rows)] /\ members[p] \in Seq(Rows)
  BY <1>2 DEF MembersInv
<1>5. PICK n \in Nat : n = Len(members[p]) /\ DOMAIN members[p] = 1..n
  BY <1>4
<1>6. /\ rows \in Seq(Rows) /\ DOMAIN rows = 1..n
      /\ \A i \in 1..n : /\ rows[i].user = members[p][i].user
                         /\ members[p][i].user # u => rows[i] = members[p][i]
  <2>1. r \in DOMAIN Level \cup {c.role : c \in Menu}
    BY <1>2 DEF Rows
  <2>2. ASSUME NEW i \in 1..n
        PROVE  rows[i] \in Rows /\ rows[i].user = members[p][i].user
                 /\ (members[p][i].user # u => rows[i] = members[p][i])
    <3>1. members[p][i] \in Rows
      BY <1>4, <1>5
    <3> QED BY <1>5, <2>1, <3>1 DEF Rows
  <2>3. DOMAIN rows = 1..n /\ rows \in [1..n -> Rows]
    BY <1>5, <2>2
  <2> HIDE DEF rows
  <2> QED BY <2>2, <2>3
<1> HIDE DEF rows
<1>7. members' \in [Projects -> Seq(Rows)] /\ members'[p] = rows
  <2> DEFINE R == Rows
  <2>1. members' = [members EXCEPT ![p] = rows] /\ members \in [Projects -> Seq(R)] /\ rows \in Seq(R)
    BY <1>3, <1>4, <1>6
  <2> HIDE DEF R
  <2>2. members' \in [Projects -> Seq(R)] /\ members'[p] = rows
    BY <1>2, <2>1
  <2> QED BY <2>2 DEF R
<1>8. Frame(h) /\ call'[h].stage = "idle" /\ owner' = owner /\ early' = early
  BY ReturnFields, IdleFields DEF UpdateProjectMemberRole
<1>9. ASSUME NEW q \in Projects PROVE OwnerLeads(q)'
  <2>1. CASE q # p
    BY <2>1, <1>3, <1>8, OwnerLeads(q) DEF MembersInv, OwnerLeads, Leads, RowsOf
  <2>2. CASE q = p
    <3>1. RowsOf(p, owner[p])' = RowsOf(p, owner[p])
      BY <1>5, <1>6, <1>7, <1>8 DEF RowsOf
    <3>2. \A i \in RowsOf(p, owner[p]) : members'[p][i] = members[p][i]
      BY <1>2, <1>5, <1>6, <1>7 DEF RowsOf
    <3> QED BY <2>2, <3>1, <3>2, <1>2, <1>5, <1>6, <1>7, <1>8, OwnerLeads(p) DEF MembersInv, OwnerLeads, Leads
  <2> QED BY <2>1, <2>2
<1>10. MemberCallOK(call[h])'
  BY <1>8 DEF MemberCallOK, CreateStages, AdmittedStages
<1>11. ASSUME NEW g \in Handlers PROVE MemberCallOK(call[g])'
  BY <1>8, <1>10, MemberCallOK(call[g]) DEF MembersInv, MemberCallOK, Frame
<1> QED BY <1>7, <1>8, <1>9, <1>11 DEF MembersInv

LEMMA MemberStepKeepsMembers ==
  ASSUME NEW h \in Handlers, MembersInv, DOMAIN call = Handlers, DOMAIN call[h] = Fields, MemberStep(h)
  PROVE  MembersInv'
<1>1. CASE AddProjectMember(h)
  BY <1>1, AdmissionKeepsMembers DEF AddProjectMember, CreateStages
<1>2. CASE UpdateProjectMember(h)
  BY <1>2, AdmissionKeepsMembers DEF UpdateProjectMember, CreateStages
<1>3. CASE CreateProjectVirtualRoot(h)
  BY <1>3, ReturnKeepsMembers DEF CreateProjectVirtualRoot
<1> QED BY <1>1, <1>2, <1>3, CreateProjectKeepsMembers, InsertProjectKeepsMembers, AddOwnerKeepsMembers,
           MemberChecksKeepMembers, InsertMemberKeepsMembers, UpdateRoleKeepsMembers DEF MemberStep

(***************************************************************************)
(* Folders and files                                                       *)
(***************************************************************************)

\* The stage tells the operation, but for the stages that several share.
LEMMA OpOfStage ==
  ASSUME NEW c, WellFormed(c)
  PROVE  /\ c.stage \in {"checkRoot", "insertFolder", "checkParent"} => c.op = "createFolder"
         /\ c.stage \in {"readFolder", "saveFolder"} => c.op = "renameFolder"
         /\ c.stage \in {"findFolder", "dropFolder"} => c.op = "deleteFolder"
         /\ c.stage \in {"checkMove", "readOld"} => c.op = "moveFolder"
         /\ c.stage \in {"checkCall", "findCall", "insertCall"} => c.op = "call"
         /\ c.stage = "insertFile" => c.op = "login"
         /\ c.stage = "checkFile" => c.op \in {"mountFile", "unmountFile"}
         /\ c.stage \in {"findFile", "dropFile"} => c.op = "logout"
         /\ c.stage \in {"readFile", "saveFile"} => c.op = "renameFile"
         /\ c.stage \in {"checkMount", "insertMount"} => c.op \in {"createFolder", "moveFolder", "mountFile"}
         /\ c.stage \in {"findRelation", "dropRelation"} => c.op \in {"moveFolder", "unmountFile"}
         /\ c.stage \in {"idle"} \cup MemberStages <=> c.op \notin EditOps
         /\ c.op \notin EditOps => c.op # "moveFolder" /\ c.op # "createFolder"
BY DEF WellFormed, EditOps, Stages, MemberStages, CreateStages, AdmittedStages

LEMMA ItemsAreTyped ==
  /\ None \notin FolderItems \cup FileItems
  /\ \A i \in FolderItems : i.type = "folder" /\ i.id \in FolderIds /\ i = FolderItem(i.id)
  /\ \A x \in FileItems : x.type = "file" /\ x.id \in FileIds /\ x = FileItem(x.id)
  /\ \A f \in FolderIds : FolderItem(f) \in FolderItems /\ FolderItem(f).id = f /\ FolderItem(f).type = "folder"
  /\ FolderItems \cap FileItems = {}
  /\ \A i, j \in FolderItems : i.id = j.id => i = j
  /\ \A i, j \in FileItems : i.id = j.id => i = j
<1>1. \A i \in FolderItems : i.type = "folder" /\ i.id \in FolderIds /\ i = FolderItem(i.id)
  BY DEF FolderItems, FolderItem
<1>2. \A x \in FileItems : x.type = "file" /\ x.id \in FileIds /\ x = FileItem(x.id)
  BY DEF FileItems, FileItem
<1>3. \A f \in FolderIds : FolderItem(f) \in FolderItems /\ FolderItem(f).id = f /\ FolderItem(f).type = "folder"
  BY DEF FolderItems, FolderItem
<1>4. \A i, j \in FolderItems : i.id = j.id => i = j
  BY <1>1
<1>5. \A i, j \in FileItems : i.id = j.id => i = j
  BY <1>2
<1> QED BY <1>1, <1>2, <1>3, <1>4, <1>5, MenuAssumption

\* A step of h that leaves the tables in order and what every request knows true.
LEMMA EditsStep ==
  ASSUME NEW h \in Handlers, EditsInv, Frame(h), contested \subseteq contested',
         TablesOK', OneFather', OneRow', RevivedWereContested', EditCallOK(call[h])',
         \A g \in Handlers \ {h} : EditCallOK(call[g])',
         \A g \in Handlers \ {h} : Clash(call'[h], call[g]) => Subject(call'[h]) \in contested'
  PROVE  EditsInv'
<1>1. DOMAIN call' = Handlers /\ (\A g \in Handlers : EditCallOK(call[g]))'
  BY DEF Frame
<1>2. OverlapsAreKnown'
  <2> SUFFICES ASSUME NEW k \in Handlers, NEW g \in Handlers, k # g, Clash(call[k], call[g])'
               PROVE  Subject(call'[k]) \in contested'
    BY DEF OverlapsAreKnown, Subject
  <2>0. Clash(call'[k], call'[g])
    BY DEF Clash, Subject
  <2>1. CASE k = h
    BY <2>0, <2>1 DEF Frame
  <2>2. CASE g = h
    <3>1. Clash(call'[h], call[k]) /\ Subject(call'[k]) = Subject(call'[h])
      BY <2>0, <2>2 DEF Clash, Frame
    <3> QED BY <3>1, <2>2
  <2>3. CASE k # h /\ g # h
    <3>1. call'[k] = call[k] /\ call'[g] = call[g]
      BY <2>3 DEF Frame
    <3>2. Subject(call[k]) \in contested
      BY <2>0, <3>1 DEF EditsInv, OverlapsAreKnown
    <3> QED BY <3>1, <3>2
  <2> QED BY <2>1, <2>2, <2>3
<1> QED BY <1>1, <1>2 DEF EditsInv

\* What a request knows survives whatever it does not read: more contests at least.
LEMMA StillOK ==
  ASSUME NEW g \in Handlers, EditCallOK(call[g]), call'[g] = call[g], UNCHANGED editVars,
         contested \subseteq contested'
  PROVE  EditCallOK(call[g])'
<1>1. WellFormed(call[g])' /\ Homed(call[g])' /\ OldsOK(call[g])'
  BY DEF EditCallOK, WellFormed, ItemOK, Homed, OldsOK, LateMove, editVars
<1>2. Subject(call[g])' = Subject(call[g]) /\ LateMove(call[g])' = LateMove(call[g])
  BY DEF Subject, LateMove
<1>3. Unplaced(call[g])'
  BY <1>2 DEF EditCallOK, Unplaced, MountsOfChild, editVars
<1>4. CallFound(call[g])' /\ SavesWhatIsThere(call[g])'
  BY <1>2 DEF EditCallOK, CallFound, SavesWhatIsThere, editVars
<1> QED BY <1>1, <1>3, <1>4 DEF EditCallOK

\* A step that leaves the tables alone.
LEMMA EditsQuiet ==
  ASSUME NEW h \in Handlers, EditsInv, Frame(h), UNCHANGED editVars, revived' = revived,
         contested \subseteq contested', EditCallOK(call[h])',
         \A g \in Handlers \ {h} : Clash(call'[h], call[g]) => Subject(call'[h]) \in contested'
  PROVE  EditsInv'
<1>1. \A g \in Handlers \ {h} : EditCallOK(call[g])'
  BY StillOK DEF EditsInv, Frame
<1>2. TablesOK' /\ OneFather' /\ OneRow' /\ RevivedWereContested'
  BY DEF EditsInv, TablesOK, OneFather, OneRow, RevivedWereContested, editVars
<1> QED BY <1>1, <1>2, EditsStep

\* A step to the same request's next stage; the tables stay as they are.
LEMMA SameRequest ==
  ASSUME NEW h \in Handlers, EditsInv, Frame(h), contested' = contested,
         call'[h].op = call[h].op, call'[h].item = call[h].item, call'[h].parent = call[h].parent
  PROVE  /\ Subject(call'[h]) = Subject(call[h])
         /\ \A g \in Handlers \ {h} : Clash(call'[h], call[g]) => Subject(call'[h]) \in contested'
<1>1. Subject(call'[h]) = Subject(call[h])
  BY DEF Subject
<1>2. \A g \in Handlers \ {h} : Clash(call'[h], call[g]) => Clash(call[h], call[g])
  BY <1>1 DEF Clash
<1> QED BY <1>1, <1>2 DEF EditsInv, OverlapsAreKnown

\* Nothing is known of an idle handler, nor of a request on members.
LEMMA NoEditOK ==
  ASSUME NEW h \in Handlers, call'[h].op \notin EditOps, DOMAIN call'[h] = Fields,
         call'[h].stage \in {"idle"} \cup MemberStages
  PROVE  EditCallOK(call[h])' /\ \A g \in Handlers \ {h} : ~Clash(call'[h], call[g])
<1>1. /\ call'[h].op \notin {"createFolder", "moveFolder"}
      /\ call'[h].stage \notin {"saveFolder", "saveFile", "insertCall", "findRelation", "dropRelation"}
  BY DEF EditOps, Stages, MemberStages, CreateStages, AdmittedStages
<1>2. WellFormed(call[h])' /\ ~LateMove(call[h])'
  BY <1>1 DEF WellFormed, LateMove
<1> QED BY <1>1, <1>2 DEF EditCallOK, Homed, OldsOK, Unplaced, CallFound, SavesWhatIsThere, Clash

LEMMA ReturnKeepsEdits ==
  ASSUME NEW h \in Handlers, EditsInv, Return(h), UNCHANGED editVars, contested' = contested, revived' = revived
  PROVE  EditsInv'
<1>1. Frame(h) /\ call'[h] = Idle
  BY ReturnFields DEF EditsInv
<1>2. EditCallOK(call[h])' /\ \A g \in Handlers \ {h} : ~Clash(call'[h], call[g])
  BY <1>1, IdleFields, NoEditOK
<1> QED BY <1>1, <1>2, EditsQuiet

LEMMA MemberStepKeepsEdits ==
  ASSUME NEW h \in Handlers, EditsInv, MemberStep(h), UNCHANGED <<editVars, history>>
  PROVE  EditsInv'
<1>0. /\ DOMAIN call = Handlers /\ WellFormed(call[h]) /\ DOMAIN call[h] = Fields
      /\ UNCHANGED editVars /\ contested' = contested /\ revived' = revived
  BY DEF EditsInv, EditCallOK, WellFormed, history
<1>1. ASSUME Frame(h), call'[h].op \notin EditOps, DOMAIN call'[h] = Fields, call'[h].stage \in MemberStages
      PROVE  EditsInv'
  <2>1. EditCallOK(call[h])' /\ \A g \in Handlers \ {h} : ~Clash(call'[h], call[g])
    BY <1>1, NoEditOK
  <2> QED BY <1>0, <1>1, <2>1, EditsQuiet
<1>2. ASSUME NEW c, NEW s, Begin(h, c, s), c.op \in {"createProject", "addMember", "updateMember"},
             s \in MemberStages
      PROVE  EditsInv'
  BY <1>0, <1>1, <1>2, BeginFields DEF EditOps, Stages
<1>3. ASSUME NEW s, Goto(h, s), call[h].stage \in MemberStages, s \in MemberStages
      PROVE  EditsInv'
  BY <1>0, <1>1, <1>3, GotoFields, OpOfStage
<1>4. CASE Return(h)
  BY <1>0, <1>4, ReturnKeepsEdits
<1>5. CASE CreateProject(h) \/ AddProjectMember(h) \/ UpdateProjectMember(h)
  BY <1>2, <1>5 DEF CreateProject, AddProjectMember, UpdateProjectMember, Admit, MemberStages, CreateStages,
                    AdmittedStages
<1>6. CASE InsertProject(h)
  <2>1. Frame(h) /\ DOMAIN call'[h] = Fields /\ call'[h].op = call[h].op /\ call'[h].stage = "addOwner"
    BY <1>0, <1>6 DEF InsertProject, Frame, Fields
  <2> QED BY <1>0, <1>1, <1>6, <2>1, OpOfStage DEF InsertProject, MemberStages, CreateStages
<1>7. CASE AddOwner(h)
  BY <1>3, <1>7 DEF AddOwner, MemberStages, CreateStages
<1>8. CASE CheckAdder(h) \/ CheckUpdater(h) \/ CheckTarget(h)
  BY <1>3, <1>4, <1>8 DEF CheckAdder, CheckUpdater, CheckTarget, MemberStages, AdmittedStages
<1>9. CASE CreateProjectVirtualRoot(h) \/ InsertMember(h) \/ UpdateProjectMemberRole(h)
  BY <1>4, <1>9 DEF CreateProjectVirtualRoot, InsertMember, UpdateProjectMemberRole
<1> QED BY <1>5, <1>6, <1>7, <1>8, <1>9 DEF MemberStep

FirstStages ==
  [createFolder |-> "checkRoot", renameFolder |-> "readFolder", deleteFolder |-> "findFolder",
   moveFolder |-> "checkMove", call |-> "checkCall", login |-> "insertFile", mountFile |-> "checkFile",
   unmountFile |-> "checkFile", logout |-> "findFile", renameFile |-> "readFile"]

\* A request that begins contests what is in work on its subject.
LEMMA AcceptKeepsEdits ==
  ASSUME NEW h \in Handlers, EditsInv, NEW op \in EditOps, NEW required, Accept(h, op, required, FirstStages[op])
  PROVE  EditsInv' /\ Frame(h) /\ call'[h].stage \notin MemberStages
<1>1. PICK c \in Menu : c.op = op /\ Admit(h, c, required, FirstStages[op]) /\ Contest(c)
  BY DEF Accept
<1>2. /\ Frame(h) /\ DOMAIN call'[h] = Fields
      /\ call'[h].stage = FirstStages[op] /\ call'[h].op = op /\ call'[h].item = c.item
      /\ call'[h].parent = c.parent /\ call'[h].project = c.project
  BY <1>1, BeginFields DEF Admit, EditsInv
<1>3. /\ FirstStages[op] \in Stages[op]
      /\ FirstStages[op] \notin {"idle", "saveFolder", "saveFile", "insertCall", "findRelation", "dropRelation"}
      /\ FirstStages[op] \notin MemberStages
      /\ op = "moveFolder" => FirstStages[op] = "checkMove"
      /\ op = "createFolder" => FirstStages[op] = "checkRoot"
  BY DEF FirstStages, Stages, EditOps, MemberStages, CreateStages, AdmittedStages
<1>4. WellFormed(call[h])' /\ ~LateMove(call'[h]) /\ ~(call'[h].op = "createFolder" /\ call'[h].item # None)
  <2>1. c.op # "createProject"
    BY <1>1 DEF EditOps, Stages
  <2>2. ItemOK(call[h])'
    BY <1>1, <1>2, <1>3, <2>1, MenuAssumption, UsersAssumption DEF ItemOK
  <2>3. op = "createFolder" => call'[h].item = None
    BY <1>1, <1>2, MenuAssumption
  <2> QED BY <1>2, <1>3, <2>2, <2>3 DEF WellFormed, LateMove
<1>5. EditCallOK(call[h])'
  BY <1>2, <1>3, <1>4 DEF EditCallOK, Homed, OldsOK, Unplaced, CallFound, SavesWhatIsThere, LateMove
<1>6. ASSUME NEW g \in Handlers \ {h}, Clash(call'[h], call[g]) PROVE Subject(call'[h]) \in contested'
  <2>1. Subject(call'[h]) = Subject(c)
    BY <1>1, <1>2 DEF Subject
  <2>2. Subject(call[g]) \in SubjectsInWork /\ Subject(call[g]) = Subject(call'[h])
    BY <1>6 DEF SubjectsInWork, Clash
  <2> QED BY <1>1, <2>1, <2>2 DEF Contest
<1>7. contested \subseteq contested'
  BY <1>1 DEF Contest
<1>8. UNCHANGED editVars /\ revived' = revived
  BY DEF Accept
<1> QED BY <1>2, <1>3, <1>5, <1>6, <1>7, <1>8, EditsQuiet

\* A check that lets a request go on: it has read what the next stage relies on.
LEMMA GotoKeepsEdits ==
  ASSUME NEW h \in Handlers, EditsInv, NEW s, Goto(h, s),
         UNCHANGED editVars, contested' = contested, revived' = revived,
         call[h].op \in EditOps, s \in Stages[call[h].op], s \notin {"findRelation", "dropRelation"},
         s \in {"checkRoot", "insertFolder"} <=> call[h].stage \in {"checkRoot", "insertFolder"},
         call[h].op = "moveFolder" =>
           s \in {"checkMove", "readOld"} \/ (s = "insertMount" /\ call[h].stage = "checkMount"),
         s = "saveFolder" => call[h].item.id \in folders,
         s = "saveFile" => call[h].item.id \in files,
         s = "insertCall" => callRows[Subject(call[h])] = 0
  PROVE  EditsInv'
<1>0. DOMAIN call = Handlers /\ EditCallOK(call[h]) /\ DOMAIN call[h] = Fields /\ TablesOK
  BY DEF EditsInv, EditCallOK, WellFormed
<1>1. /\ Frame(h) /\ DOMAIN call'[h] = Fields
      /\ call'[h].stage = s /\ call'[h].op = call[h].op /\ call'[h].item = call[h].item
      /\ call'[h].parent = call[h].parent /\ call'[h].project = call[h].project
      /\ call'[h].olds = call[h].olds
  BY <1>0, GotoFields
<1>2. /\ Subject(call'[h]) = Subject(call[h])
      /\ \A g \in Handlers \ {h} : Clash(call'[h], call[g]) => Subject(call'[h]) \in contested'
  BY <1>1, SameRequest
<1>3. WellFormed(call[h])'
  <2>1. ItemOK(call[h])
    BY <1>0 DEF EditCallOK, WellFormed
  <2>2. ItemOK(call[h])'
    BY <1>1, <2>1 DEF ItemOK
  <2> QED BY <1>1, <2>2 DEF WellFormed
<1>4. /\ LateMove(call'[h]) => LateMove(call[h]) /\ s = "insertMount" /\ call[h].stage = "checkMount"
      /\ call'[h].op = "createFolder" /\ call'[h].item # None => call[h].op = "createFolder" /\ call[h].item # None
  BY <1>1 DEF LateMove
<1>5. Homed(call[h])'
  <2>1. s = "saveFolder" => home[call[h].item.id] # None
    BY <1>0 DEF TablesOK
  <2> QED BY <1>0, <1>1, <1>4, <2>1 DEF EditCallOK, Homed, editVars, LateMove
<1>6. OldsOK(call[h])'
  BY <1>1 DEF OldsOK
<1>7. Unplaced(call[h])'
  BY <1>0, <1>1, <1>2, <1>4 DEF EditCallOK, Unplaced, MountsOfChild, editVars, LateMove
<1>8. CallFound(call[h])' /\ SavesWhatIsThere(call[h])'
  BY <1>1, <1>2 DEF CallFound, SavesWhatIsThere, editVars
<1> QED BY <1>1, <1>2, <1>3, <1>5, <1>6, <1>7, <1>8, EditsQuiet DEF EditCallOK

LEMMA ReadsKeepEdits ==
  ASSUME NEW h \in Handlers, EditsInv,
         \/ CheckRoot(h) \/ CheckParent(h) \/ CheckMount(h) \/ CheckMove(h) \/ ReadFolder(h) \/ FindFolder(h)
         \/ CheckCall(h) \/ FindCall(h) \/ FindFile(h) \/ ReadFile(h)
  PROVE  EditsInv'
<1>0. UNCHANGED editVars /\ contested' = contested /\ revived' = revived
  BY DEF CheckRoot, CheckParent, CheckMount, CheckMove, ReadFolder, FindFolder, CheckCall, FindCall, FindFile,
         ReadFile, Read
<1>1. CASE Return(h)
  BY <1>0, <1>1, ReturnKeepsEdits
<1>2. WellFormed(call[h])
  BY DEF EditsInv, EditCallOK
<1> USE <1>0, <1>2, OpOfStage, GotoKeepsEdits
<1>3. CASE CheckRoot(h)
  BY <1>1, <1>3 DEF CheckRoot, Read, Decide, Abandon, Stages, EditOps
<1>4. CASE CheckParent(h)
  BY <1>1, <1>4 DEF CheckParent, Read, Decide, Abandon, Stages, EditOps
<1>5. CASE CheckMount(h)
  BY <1>1, <1>5 DEF CheckMount, Read, Decide, Abandon, Stages, EditOps
<1>6. CASE CheckMove(h)
  BY <1>1, <1>6 DEF CheckMove, Read, Decide, Abandon, Stages, EditOps
<1>7. CASE ReadFolder(h)
  BY <1>1, <1>7 DEF ReadFolder, Read, Decide, Abandon, Stages, EditOps, MayEdit
<1>8. CASE FindFolder(h)
  BY <1>1, <1>8 DEF FindFolder, Read, Decide, Abandon, Stages, EditOps
<1>9. CASE CheckCall(h)
  BY <1>1, <1>9 DEF CheckCall, Read, Decide, Abandon, Stages, EditOps
<1>10. CASE FindCall(h)
  BY <1>1, <1>10 DEF FindCall, Read, Decide, Abandon, Stages, EditOps
<1>11. CASE FindFile(h)
  BY <1>1, <1>11 DEF FindFile, Read, Decide, Abandon, Stages, EditOps
<1>12. CASE ReadFile(h)
  BY <1>1, <1>12 DEF ReadFile, Read, Decide, Abandon, Stages, EditOps
<1> QED BY <1>3, <1>4, <1>5, <1>6, <1>7, <1>8, <1>9, <1>10, <1>11, <1>12

\* What a request g knows survives a step of h that touches a row it has read
\* only when the two are on one subject.
LEMMA OthersOK ==
  ASSUME NEW g \in Handlers, EditCallOK(call[g]), call'[g] = call[g], contested \subseteq contested',
         \A f : home[f] # None => home'[f] # None,
         call[g].op \in {"createFolder", "moveFolder"} /\ call[g].item # None =>
           Subject(call[g]) \in contested' \/ MountsOfChild(call[g].item)' \subseteq MountsOfChild(call[g].item),
         call[g].stage = "insertCall" =>
           Subject(call[g]) \in contested' \/ callRows'[Subject(call[g])] = callRows[Subject(call[g])],
         call[g].stage = "saveFolder" =>
           Subject(call[g]) \in contested' \/ (call[g].item.id \in folders => call[g].item.id \in folders'),
         call[g].stage = "saveFile" =>
           Subject(call[g]) \in contested' \/ (call[g].item.id \in files => call[g].item.id \in files')
  PROVE  EditCallOK(call[g])'
<1>1. WellFormed(call[g])' /\ OldsOK(call[g])'
  BY DEF EditCallOK, WellFormed, ItemOK, OldsOK
<1>2. Subject(call[g])' = Subject(call[g]) /\ LateMove(call[g])' = LateMove(call[g])
  BY DEF Subject, LateMove
<1>3. Homed(call[g])'
  BY <1>2 DEF EditCallOK, Homed
<1>4. LateMove(call[g]) => call[g].op = "moveFolder" /\ call[g].item # None
  BY ItemsAreTyped DEF LateMove, EditCallOK, WellFormed, ItemOK, EditOps, Stages
<1>5. Unplaced(call[g])'
  <2>1. SUFFICES ASSUME Subject(call[g]) \notin contested', LateMove(call[g]) \/ (call[g].op = "createFolder" /\ call[g].item # None)
                 PROVE  Unplaced(call[g])'
    BY <1>2 DEF Unplaced
  <2>2. MountsOfChild(call[g].item)' \subseteq MountsOfChild(call[g].item)
    BY <1>4, <2>1
  <2> DEFINE M == MountsOfChild(call[g].item)
  <2>3. Unplaced(call[g])' <=>
          (/\ (call[g].op = "createFolder" /\ call[g].item # None) \/ (LateMove(call[g]) /\ call[g].stage \in {"checkMount", "insertMount"})
                => M' = {}
           /\ LateMove(call[g]) => M' \subseteq call[g].olds)
    BY <1>2, <2>1 DEF Unplaced
  <2>4. /\ (call[g].op = "createFolder" /\ call[g].item # None) \/ (LateMove(call[g]) /\ call[g].stage \in {"checkMount", "insertMount"})
             => M = {}
        /\ LateMove(call[g]) => M \subseteq call[g].olds
    BY <2>1 DEF EditCallOK, Unplaced
  <2>5. M' \subseteq M
    BY <2>2
  <2> HIDE DEF M
  <2> QED BY <2>3, <2>4, <2>5
<1>6. CallFound(call[g])' /\ SavesWhatIsThere(call[g])'
  BY <1>2 DEF EditCallOK, CallFound, SavesWhatIsThere
<1> QED BY <1>1, <1>3, <1>5, <1>6 DEF EditCallOK

\* Requests of other handlers on the subject of h are contested with it.
LEMMA ClashIsKnown ==
  ASSUME NEW h \in Handlers, NEW g \in Handlers \ {h}, EditsInv, call[h].op \in EditOps, call[g].op \in EditOps,
         call[h].item # None, call[g].item # None, Subject(call[g]) = Subject(call[h])
  PROVE  Subject(call[g]) \in contested
BY DEF EditsInv, OverlapsAreKnown, Clash

LEMMA InsertFolderKeepsEdits ==
  ASSUME NEW h \in Handlers, EditsInv, InsertFolder(h)
  PROVE  EditsInv' /\ Frame(h) /\ call'[h].stage \notin MemberStages
<1>0. /\ DOMAIN call = Handlers /\ WellFormed(call[h]) /\ DOMAIN call[h] = Fields /\ TablesOK
      /\ \A g \in Handlers : EditCallOK(call[g])
  BY DEF EditsInv, EditCallOK, WellFormed
<1>1. call[h].op = "createFolder" /\ call[h].project \in Projects /\ call[h].project # None
  BY <1>0, OpOfStage, UsersAssumption DEF InsertFolder, WellFormed, ItemOK, EditOps, Stages
<1>2. PICK f \in FolderIds :
        /\ home[f] = None
        /\ home' = [home EXCEPT ![f] = call[h].project]
        /\ folders' = folders \cup {f}
        /\ Contest([op |-> "createFolder", item |-> FolderItem(f)])
        /\ IF call[h].parent = None THEN Return(h)
           ELSE call' = [call EXCEPT ![h].item = FolderItem(f), ![h].stage = "checkParent"]
  BY DEF InsertFolder
<1>3. mounts' = mounts /\ callRows' = callRows /\ files' = files /\ revived' = revived
  BY DEF InsertFolder
<1>4. contested' = contested \cup (SubjectsInWork \cap {<<FolderItem(f), FolderItem(f)>>})
  BY <1>2 DEF Contest, Subject
<1>5. home' \in [FolderIds -> Projects \cup {None}] /\ home'[f] # None /\ \A k : home[k] # None => home'[k] # None
  BY <1>0, <1>1, <1>2 DEF TablesOK
<1>6. TablesOK' /\ OneFather' /\ OneRow' /\ RevivedWereContested'
  BY <1>0, <1>2, <1>3, <1>4, <1>5 DEF EditsInv, TablesOK, OneFather, OneRow, RevivedWereContested
<1>7. Frame(h)
  BY <1>0, <1>2, ReturnFields DEF Frame
<1>8. \A g \in Handlers \ {h} : EditCallOK(call[g])'
  <2> SUFFICES ASSUME NEW g \in Handlers \ {h} PROVE EditCallOK(call[g])'
    OBVIOUS
  <2>1. call'[g] = call[g] /\ MountsOfChild(call[g].item)' = MountsOfChild(call[g].item)
    BY <1>3, <1>7 DEF Frame, MountsOfChild
  <2> QED BY <1>0, <1>2, <1>3, <1>4, <1>5, <2>1, OthersOK
<1>9. CASE call[h].parent = None
  <2>1. EditCallOK(call[h])' /\ (\A g \in Handlers \ {h} : ~Clash(call'[h], call[g])) /\ call'[h].stage = "idle"
    BY <1>0, <1>2, <1>9, ReturnFields, IdleFields, NoEditOK
  <2> QED BY <1>4, <1>6, <1>7, <1>8, <2>1, EditsStep, IdleFields
<1>10. CASE call[h].parent # None
  <2>1. /\ DOMAIN call'[h] = Fields /\ call'[h].op = "createFolder" /\ call'[h].stage = "checkParent"
        /\ call'[h].item = FolderItem(f) /\ call'[h].project = call[h].project
    BY <1>0, <1>1, <1>2, <1>10 DEF Fields
  <2>2. WellFormed(call[h])'
    BY <1>1, <2>1, ItemsAreTyped DEF WellFormed, ItemOK, EditOps, Stages
  <2>3. MountsOfChild(FolderItem(f)) = {}
    BY <1>0, <1>2, ItemsAreTyped DEF TablesOK, MountsOfChild
  <2>4. MountsOfChild(call[h].item)' = {}
    BY <1>3, <2>1, <2>3 DEF MountsOfChild
  <2>5. EditCallOK(call[h])'
    BY <1>5, <2>1, <2>2, <2>4, ItemsAreTyped
       DEF EditCallOK, Homed, OldsOK, Unplaced, LateMove, CallFound, SavesWhatIsThere
  <2>6. Subject(call'[h]) = <<FolderItem(f), FolderItem(f)>>
    BY <2>1 DEF Subject
  <2>7. \A g \in Handlers \ {h} : Clash(call'[h], call[g]) => Subject(call'[h]) \in contested'
    BY <1>4, <2>6 DEF Clash, SubjectsInWork
  <2> QED BY <1>4, <1>6, <1>7, <1>8, <2>1, <2>5, <2>7, EditsStep DEF MemberStages, CreateStages, AdmittedStages
<1> QED BY <1>9, <1>10

LEMMA InsertMountKeepsEdits ==
  ASSUME NEW h \in Handlers, EditsInv, InsertMount(h)
  PROVE  EditsInv'
<1>0. /\ DOMAIN call = Handlers /\ WellFormed(call[h]) /\ DOMAIN call[h] = Fields /\ TablesOK
      /\ \A g \in Handlers : EditCallOK(call[g])
  BY DEF EditsInv, EditCallOK, WellFormed
<1>1. /\ call[h].op \in {"createFolder", "moveFolder", "mountFile"} /\ call[h].op \in EditOps
      /\ call[h].op = "mountFile" => call[h].item \in FileItems
      /\ call[h].op # "mountFile" => call[h].item \in FolderItems
      /\ call[h].item # None /\ call[h].stage = "insertMount"
  BY <1>0, OpOfStage, ItemsAreTyped DEF InsertMount, WellFormed, ItemOK, EditOps, Stages
<1>2. Subject(call[h]) = <<call[h].item, call[h].item>>
  BY <1>1 DEF Subject
<1>3. /\ UNCHANGED <<home, folders, files, callRows>> /\ contested' = contested /\ revived' = revived
      /\ Return(h) /\ mounts' = mounts \cup {[parent |-> call[h].parent, child |-> call[h].item]}
  BY DEF InsertMount
<1>4. call[h].item \in FileItems \/ (call[h].item \in FolderItems /\ home[call[h].item.id] # None)
  BY <1>0, <1>1 DEF EditCallOK, Homed, LateMove
<1>5. TablesOK' /\ OneRow' /\ RevivedWereContested'
  BY <1>0, <1>3, <1>4 DEF EditsInv, TablesOK, OneRow, RevivedWereContested
<1>6. call[h].item \in FolderItems =>
        MountsOfChild(call[h].item) = {} \/ <<call[h].item, call[h].item>> \in contested
  BY <1>0, <1>1, <1>2, ItemsAreTyped DEF EditCallOK, Unplaced, LateMove
<1>7. OneFather'
  BY <1>3, <1>6 DEF EditsInv, OneFather, MountsOfChild
<1>8. Frame(h) /\ EditCallOK(call[h])' /\ \A g \in Handlers \ {h} : ~Clash(call'[h], call[g])
  BY <1>0, <1>3, ReturnFields, IdleFields, NoEditOK
<1>9. \A g \in Handlers \ {h} : EditCallOK(call[g])'
  <2> SUFFICES ASSUME NEW g \in Handlers \ {h} PROVE EditCallOK(call[g])'
    OBVIOUS
  <2>1. call'[g] = call[g]
    BY <1>8 DEF Frame
  <2>2. ASSUME call[g].op \in {"createFolder", "moveFolder"}, call[g].item # None
        PROVE  Subject(call[g]) \in contested' \/ MountsOfChild(call[g].item)' \subseteq MountsOfChild(call[g].item)
    <3>1. CASE call[g].item = call[h].item
      <4>1. Subject(call[g]) = Subject(call[h]) /\ call[g].op \in EditOps
        BY <1>2, <2>2, <3>1 DEF Subject, EditOps, Stages
      <4> QED BY <1>1, <1>3, <2>2, <4>1, ClashIsKnown
    <3>2. CASE call[g].item # call[h].item
      BY <1>3, <2>1, <3>2 DEF MountsOfChild
    <3> QED BY <3>1, <3>2
  <2> QED BY <1>0, <1>3, <2>1, <2>2, OthersOK
<1> QED BY <1>3, <1>5, <1>7, <1>8, <1>9, EditsStep

\* The folder is looked at again; what mounts it is read in the same step.
LEMMA ReadOldKeepsEdits ==
  ASSUME NEW h \in Handlers, EditsInv, ReadOldRelations(h)
  PROVE  EditsInv' /\ Frame(h) /\ call'[h].stage \notin MemberStages
<1>0. /\ DOMAIN call = Handlers /\ WellFormed(call[h]) /\ DOMAIN call[h] = Fields /\ TablesOK
      /\ UNCHANGED editVars /\ contested' = contested /\ revived' = revived
  BY DEF EditsInv, EditCallOK, WellFormed, ReadOldRelations
<1>1. call[h].op = "moveFolder" /\ call[h].item \in FolderItems
  BY <1>0, OpOfStage DEF ReadOldRelations, WellFormed, ItemOK, EditOps, Stages
<1>2. CASE Return(h)
  BY <1>0, <1>2, ReturnKeepsEdits, ReturnFields, IdleFields
<1>3. ASSUME MayEdit(call[h].user, call[h].item.id),
             call' = [call EXCEPT ![h].olds = MountsOfChild(call[h].item),
                                  ![h].stage = IF MountsOfChild(call[h].item) = {} THEN "checkMount" ELSE "findRelation"]
      PROVE  EditsInv' /\ Frame(h) /\ call'[h].stage \notin MemberStages
  <2> DEFINE s == IF MountsOfChild(call[h].item) = {} THEN "checkMount" ELSE "findRelation"
  <2>1. /\ Frame(h) /\ DOMAIN call'[h] = Fields
        /\ call'[h].stage = s /\ call'[h].op = call[h].op /\ call'[h].item = call[h].item
        /\ call'[h].parent = call[h].parent /\ call'[h].olds = MountsOfChild(call[h].item)
    BY <1>0, <1>3 DEF Frame, Fields
  <2>2. WellFormed(call[h])'
    BY <1>1, <2>1 DEF WellFormed, ItemOK, EditOps, Stages
  <2>3. Homed(call[h])'
    BY <1>0, <1>3, <2>1 DEF Homed, MayEdit, TablesOK, editVars
  <2>4. OldsOK(call[h])'
    BY <2>1 DEF OldsOK, MountsOfChild
  <2>5. MountsOfChild(call[h].item)' = MountsOfChild(call[h].item)
    BY <1>0, <2>1 DEF MountsOfChild, editVars
  <2>6. Unplaced(call[h])'
    BY <1>1, <2>1, <2>5 DEF Unplaced
  <2>7. CallFound(call[h])' /\ SavesWhatIsThere(call[h])'
    BY <2>1 DEF CallFound, SavesWhatIsThere
  <2>8. \A g \in Handlers \ {h} : Clash(call'[h], call[g]) => Subject(call'[h]) \in contested'
    BY <1>0, <2>1, SameRequest
  <2>9. EditsInv'
    BY <1>0, <2>1, <2>2, <2>3, <2>4, <2>6, <2>7, <2>8, EditsQuiet DEF EditCallOK
  <2> QED BY <2>1, <2>9 DEF MemberStages, CreateStages, AdmittedStages
<1> QED BY <1>2, <1>3 DEF ReadOldRelations, Abandon

\* After a removal a move goes on with what is left; an unmounting is over.
LEMMA AfterRemovalFields ==
  ASSUME NEW h \in Handlers, NEW m, DOMAIN call[h] = Fields
  PROVE  /\ call[h].op = "unmountFile" => AfterRemoval(h, m) = Idle
         /\ call[h].op # "unmountFile" =>
              /\ DOMAIN AfterRemoval(h, m) = Fields
              /\ AfterRemoval(h, m).op = call[h].op /\ AfterRemoval(h, m).item = call[h].item
              /\ AfterRemoval(h, m).parent = call[h].parent
              /\ AfterRemoval(h, m).olds = call[h].olds \ {m}
              /\ AfterRemoval(h, m).stage = IF call[h].olds = {m} THEN "checkMount" ELSE "findRelation"
BY DEF AfterRemoval, Fields

\* The relation m of a move is gone: the others it has read may still mount the folder.
LEMMA RemovalOK ==
  ASSUME NEW h \in Handlers, NEW m, EditsInv, call[h].stage \in {"findRelation", "dropRelation"},
         call[h].op = "moveFolder", home' = home, contested' = contested,
         mounts' \subseteq mounts \ {m}, DOMAIN call'[h] = Fields,
         call'[h].op = call[h].op, call'[h].item = call[h].item, call'[h].parent = call[h].parent,
         call'[h].olds = call[h].olds \ {m},
         call'[h].stage = IF call[h].olds = {m} THEN "checkMount" ELSE "findRelation"
  PROVE  EditCallOK(call[h])'
<1>0. EditCallOK(call[h]) /\ LateMove(call[h]) /\ LateMove(call'[h])
  BY DEF EditsInv, LateMove
<1>1. WellFormed(call[h])'
  BY <1>0 DEF EditCallOK, WellFormed, ItemOK, EditOps, Stages
<1>2. Homed(call[h])'
  BY <1>0 DEF EditCallOK, Homed
<1>3. \A k \in call[h].olds : k.child = call[h].item
  BY <1>0 DEF EditCallOK, OldsOK
<1>4. OldsOK(call[h])'
  BY <1>3 DEF OldsOK
<1>5. Subject(call'[h]) = Subject(call[h])
  BY DEF Subject
<1>6. Unplaced(call[h])'
  <2> SUFFICES ASSUME Subject(call[h]) \notin contested PROVE Unplaced(call[h])'
    BY <1>5 DEF Unplaced
  <2>1. MountsOfChild(call[h].item) \subseteq call[h].olds
    BY <1>0 DEF EditCallOK, Unplaced
  <2>2. MountsOfChild(call[h].item)' \subseteq call[h].olds \ {m}
    BY <2>1 DEF MountsOfChild
  <2>3. call'[h].stage \in {"checkMount", "insertMount"} => MountsOfChild(call[h].item)' = {}
    BY <2>2
  <2> QED BY <2>2, <2>3 DEF Unplaced
<1>7. CallFound(call[h])' /\ SavesWhatIsThere(call[h])'
  BY DEF CallFound, SavesWhatIsThere
<1> QED BY <1>1, <1>2, <1>4, <1>6, <1>7 DEF EditCallOK

\* A relation that is looked for and not there is none of the mounts.
LEMMA NotFound ==
  ASSUME NEW m, MountsOfPair(m.parent.id, m.child.id) = {}
  PROVE  m \notin mounts
BY DEF MountsOfPair

LEMMA FindRelationKeepsEdits ==
  ASSUME NEW h \in Handlers, EditsInv, FindRelation(h)
  PROVE  EditsInv' /\ Frame(h) /\ call'[h].stage \notin MemberStages
<1>0. /\ DOMAIN call = Handlers /\ WellFormed(call[h]) /\ DOMAIN call[h] = Fields /\ EditCallOK(call[h])
      /\ UNCHANGED editVars /\ contested' = contested /\ revived' = revived /\ call[h].stage = "findRelation"
  BY DEF EditsInv, EditCallOK, WellFormed, FindRelation
<1>1. call[h].op \in {"moveFolder", "unmountFile"} /\ call[h].op \in EditOps
  BY <1>0, OpOfStage DEF EditOps, Stages
<1>2. CASE Return(h)
  BY <1>0, <1>2, ReturnKeepsEdits, ReturnFields, IdleFields
<1>3. ASSUME NEW m \in call[h].olds, MountsOfPair(m.parent.id, m.child.id) = {},
             call' = [call EXCEPT ![h] = AfterRemoval(h, m)]
      PROVE  EditsInv' /\ Frame(h) /\ call'[h].stage \notin MemberStages
  <2>1. CASE call[h].op = "unmountFile"
    BY <1>0, <1>2, <1>3, <2>1, AfterRemovalFields DEF Return
  <2>2. CASE call[h].op = "moveFolder"
    <3>1. Frame(h) /\ call'[h] = AfterRemoval(h, m)
      BY <1>0, <1>3 DEF Frame
    <3>2. mounts' \subseteq mounts \ {m}
      BY <1>0, <1>3, NotFound DEF editVars
    <3>3. /\ DOMAIN call'[h] = Fields /\ call'[h].op = call[h].op /\ call'[h].item = call[h].item
          /\ call'[h].parent = call[h].parent /\ call'[h].olds = call[h].olds \ {m}
          /\ call'[h].stage = IF call[h].olds = {m} THEN "checkMount" ELSE "findRelation"
      BY <1>0, <2>2, <3>1, AfterRemovalFields
    <3>4. EditCallOK(call[h])'
      BY <1>0, <2>2, <3>2, <3>3, RemovalOK DEF editVars
    <3>5. EditsInv'
      BY <1>0, <3>1, <3>3, <3>4, SameRequest, EditsQuiet
    <3> QED BY <3>1, <3>3, <3>5 DEF MemberStages, CreateStages, AdmittedStages
  <2> QED BY <1>1, <2>1, <2>2
<1>4. ASSUME NEW m \in call[h].olds, call' = [call EXCEPT ![h].target = m, ![h].stage = "dropRelation"]
      PROVE  EditsInv' /\ Frame(h) /\ call'[h].stage \notin MemberStages
  <2>1. /\ Frame(h) /\ DOMAIN call'[h] = Fields
        /\ call'[h].stage = "dropRelation" /\ call'[h].op = call[h].op /\ call'[h].item = call[h].item
        /\ call'[h].parent = call[h].parent /\ call'[h].olds = call[h].olds /\ call'[h].target = m
    BY <1>0, <1>4 DEF Frame, Fields
  <2>2. WellFormed(call[h])'
    BY <1>0, <1>1, <2>1 DEF WellFormed, ItemOK, EditOps, Stages
  <2>3. Homed(call[h])'
    BY <1>0, <1>1, <2>1 DEF EditCallOK, Homed, LateMove, editVars
  <2>4. OldsOK(call[h])'
    BY <1>0, <1>4, <2>1 DEF EditCallOK, OldsOK
  <2>5. /\ Subject(call'[h]) = Subject(call[h]) /\ LateMove(call'[h]) = LateMove(call[h])
        /\ MountsOfChild(call[h].item)' = MountsOfChild(call[h].item)
    BY <1>0, <2>1 DEF Subject, LateMove, MountsOfChild, editVars
  <2>6. Unplaced(call[h])'
    BY <1>0, <1>1, <2>1, <2>5 DEF EditCallOK, Unplaced
  <2>7. CallFound(call[h])' /\ SavesWhatIsThere(call[h])'
    BY <2>1 DEF CallFound, SavesWhatIsThere
  <2>8. EditsInv'
    BY <1>0, <2>1, <2>2, <2>3, <2>4, <2>6, <2>7, SameRequest, EditsQuiet DEF EditCallOK
  <2> QED BY <2>1, <2>8 DEF MemberStages, CreateStages, AdmittedStages
<1> QED BY <1>2, <1>3, <1>4 DEF FindRelation, Abandon

LEMMA DropRelationKeepsEdits ==
  ASSUME NEW h \in Handlers, EditsInv, DropRelation(h)
  PROVE  EditsInv' /\ Frame(h) /\ call'[h].stage \notin MemberStages
<1>0. /\ DOMAIN call = Handlers /\ WellFormed(call[h]) /\ DOMAIN call[h] = Fields /\ EditCallOK(call[h])
      /\ TablesOK /\ \A g \in Handlers : EditCallOK(call[g])
      /\ UNCHANGED <<home, folders, files, callRows>> /\ contested' = contested /\ revived' = revived
      /\ call[h].stage = "dropRelation"
  BY DEF EditsInv, EditCallOK, WellFormed, DropRelation, history
<1>1. call[h].op \in {"moveFolder", "unmountFile"} /\ call[h].op \in EditOps
  BY <1>0, OpOfStage DEF EditOps, Stages
<1>2. PICK m : m = call[h].target
  OBVIOUS
<1>3. /\ mounts' = mounts \ MountsOfPair(m.parent.id, m.child.id)
      /\ call' = [call EXCEPT ![h] = [AfterRemoval(h, m) EXCEPT !.target = None]]
  BY <1>2 DEF DropRelation
<1>4. mounts' \subseteq mounts \ {m}
  BY <1>3 DEF MountsOfPair
<1>5. Frame(h) /\ call'[h] = [AfterRemoval(h, m) EXCEPT !.target = None]
  BY <1>0, <1>3 DEF Frame
<1>6. TablesOK' /\ OneFather' /\ OneRow' /\ RevivedWereContested'
  BY <1>0, <1>4 DEF EditsInv, TablesOK, OneFather, OneRow, RevivedWereContested
<1>7. \A g \in Handlers \ {h} : EditCallOK(call[g])'
  <2> SUFFICES ASSUME NEW g \in Handlers \ {h} PROVE EditCallOK(call[g])'
    OBVIOUS
  <2>1. call'[g] = call[g]
    BY <1>5 DEF Frame
  <2>2. MountsOfChild(call[g].item)' \subseteq MountsOfChild(call[g].item)
    BY <1>4, <2>1 DEF MountsOfChild
  <2> QED BY <1>0, <2>1, <2>2, OthersOK
<1>8. CASE call[h].op = "unmountFile"
  <2>1. DOMAIN call'[h] = Fields /\ call'[h].op = "none" /\ call'[h].stage = "idle"
    BY <1>0, <1>5, <1>8, AfterRemovalFields, IdleFields DEF Fields
  <2>2. EditCallOK(call[h])' /\ \A g \in Handlers \ {h} : ~Clash(call'[h], call[g])
    BY <2>1, IdleFields, NoEditOK
  <2> QED BY <1>0, <1>5, <1>6, <1>7, <2>1, <2>2, IdleFields, EditsStep
<1>9. CASE call[h].op = "moveFolder"
  <2>1. /\ DOMAIN call'[h] = Fields /\ call'[h].op = call[h].op /\ call'[h].item = call[h].item
        /\ call'[h].parent = call[h].parent /\ call'[h].olds = call[h].olds \ {m}
        /\ call'[h].stage = IF call[h].olds = {m} THEN "checkMount" ELSE "findRelation"
    BY <1>0, <1>5, <1>9, AfterRemovalFields DEF Fields
  <2>2. EditCallOK(call[h])'
    BY <1>0, <1>4, <1>9, <2>1, RemovalOK
  <2>3. EditsInv'
    BY <1>0, <1>5, <1>6, <1>7, <2>1, <2>2, SameRequest, EditsStep
  <2> QED BY <1>5, <2>1, <2>3 DEF MemberStages, CreateStages, AdmittedStages
<1> QED BY <1>1, <1>8, <1>9

\* A request that ends with a change of its rows: what the others know is left to show.
LEMMA EndsKeepEdits ==
  ASSUME NEW h \in Handlers, EditsInv, Return(h), contested' = contested,
         TablesOK', OneRow', RevivedWereContested', mounts' = mounts,
         \A g \in Handlers \ {h} : call'[g] = call[g] => EditCallOK(call[g])'
  PROVE  EditsInv'
<1>1. Frame(h) /\ EditCallOK(call[h])' /\ \A g \in Handlers \ {h} : ~Clash(call'[h], call[g])
  BY ReturnFields, IdleFields, NoEditOK DEF EditsInv
<1>2. OneFather'
  BY DEF EditsInv, OneFather
<1> QED BY <1>1, <1>2, EditsStep DEF Frame

LEMMA SavesKeepEdits ==
  ASSUME NEW h \in Handlers, EditsInv, SaveFolder(h) \/ SaveFile(h)
  PROVE  EditsInv'
<1>0. /\ WellFormed(call[h]) /\ EditCallOK(call[h]) /\ TablesOK
      /\ UNCHANGED <<home, mounts, callRows>> /\ contested' = contested /\ Return(h)
      /\ folders \subseteq folders' /\ files \subseteq files'
      /\ \A g \in Handlers : EditCallOK(call[g])
  BY DEF EditsInv, EditCallOK, SaveFolder, SaveFile
<1>1. \A f \in folders' : home[f] # None
  BY <1>0 DEF EditCallOK, Homed, TablesOK, SaveFolder, SaveFile
<1>2. RevivedWereContested'
  BY <1>0 DEF EditsInv, RevivedWereContested, EditCallOK, SavesWhatIsThere, SaveFolder, SaveFile
<1>3. TablesOK' /\ OneRow'
  BY <1>0, <1>1 DEF EditsInv, TablesOK, OneRow
<1>4. \A g \in Handlers \ {h} : call'[g] = call[g] => EditCallOK(call[g])'
  <2> SUFFICES ASSUME NEW g \in Handlers \ {h}, call'[g] = call[g] PROVE EditCallOK(call[g])'
    OBVIOUS
  <2>1. MountsOfChild(call[g].item)' = MountsOfChild(call[g].item)
    BY <1>0 DEF MountsOfChild
  <2> QED BY <1>0, <2>1, OthersOK
<1> QED BY <1>0, <1>2, <1>3, <1>4, EndsKeepEdits

\* A request on the same row that has read it overlaps with the one that deletes it.
LEMMA DropsKeepEdits ==
  ASSUME NEW h \in Handlers, EditsInv, DropFolder(h) \/ DropFile(h)
  PROVE  EditsInv'
<1>0. /\ UNCHANGED <<home, mounts, callRows>> /\ contested' = contested /\ Return(h) /\ revived' = revived
      /\ \A g \in Handlers : EditCallOK(call[g]) /\ WellFormed(call[g])
      /\ folders' \subseteq folders
  BY DEF EditsInv, EditCallOK, DropFolder, DropFile, history
<1>1. TablesOK' /\ OneRow' /\ RevivedWereContested'
  BY <1>0 DEF EditsInv, TablesOK, OneRow, RevivedWereContested
<1>2. \A g \in Handlers \ {h} : call'[g] = call[g] => EditCallOK(call[g])'
  <2> SUFFICES ASSUME NEW g \in Handlers \ {h}, call'[g] = call[g] PROVE EditCallOK(call[g])'
    OBVIOUS
  <2>1. MountsOfChild(call[g].item)' = MountsOfChild(call[g].item)
    BY <1>0 DEF MountsOfChild
  <2>2. ASSUME call[g].stage = "saveFolder", call[g].item.id \in folders, call[g].item.id \notin folders'
        PROVE  Subject(call[g]) \in contested
    <3>1. DropFolder(h) /\ call[h].item.id = call[g].item.id
      BY <2>2 DEF DropFolder, DropFile
    <3>2. call[h].op = "deleteFolder" /\ call[g].op = "renameFolder"
      BY <1>0, <2>2, <3>1, OpOfStage DEF DropFolder
    <3>3. call[h].item \in FolderItems /\ call[g].item \in FolderItems
      BY <1>0, <3>2 DEF WellFormed, ItemOK, EditOps, Stages
    <3>4. call[h].item = call[g].item /\ call[h].item # None
      BY <3>1, <3>3, ItemsAreTyped
    <3>5. Subject(call[g]) = Subject(call[h]) /\ call[h].op \in EditOps /\ call[g].op \in EditOps
      BY <3>2, <3>4 DEF Subject, EditOps, Stages
    <3> QED BY <3>4, <3>5, ClashIsKnown
  <2>3. ASSUME call[g].stage = "saveFile", call[g].item.id \in files, call[g].item.id \notin files'
        PROVE  Subject(call[g]) \in contested
    <3>1. DropFile(h) /\ call[h].item.id = call[g].item.id
      BY <2>3 DEF DropFolder, DropFile
    <3>2. call[h].op = "logout" /\ call[g].op = "renameFile"
      BY <1>0, <2>3, <3>1, OpOfStage DEF DropFile
    <3>3. call[h].item \in FileItems /\ call[g].item \in FileItems
      BY <1>0, <3>2 DEF WellFormed, ItemOK, EditOps, Stages
    <3>4. call[h].item = call[g].item /\ call[h].item # None
      BY <3>1, <3>3, ItemsAreTyped
    <3>5. Subject(call[g]) = Subject(call[h]) /\ call[h].op \in EditOps /\ call[g].op \in EditOps
      BY <3>2, <3>4 DEF Subject, EditOps, Stages
    <3> QED BY <3>4, <3>5, ClashIsKnown
  <2> QED BY <1>0, <2>1, <2>2, <2>3, OthersOK
<1> QED BY <1>0, <1>1, <1>2, EndsKeepEdits

LEMMA InsertCallKeepsEdits ==
  ASSUME NEW h \in Handlers, EditsInv, InsertCall(h)
  PROVE  EditsInv'
<1>0. /\ UNCHANGED <<home, folders, files, mounts>> /\ contested' = contested /\ Return(h) /\ revived' = revived
      /\ \A g \in Handlers : EditCallOK(call[g]) /\ WellFormed(call[g])
  BY DEF EditsInv, EditCallOK, InsertCall, history
<1>1. PICK k : k = Subject(call[h])
  OBVIOUS
<1>2. call[h].op = "call" /\ call[h].op \in EditOps
  BY <1>0, OpOfStage DEF InsertCall, EditOps, Stages
<1>3. k \in CallPairs /\ call[h].item # None /\ k = <<call[h].item, call[h].parent>>
  BY <1>0, <1>1, <1>2, ItemsAreTyped DEF WellFormed, ItemOK, Subject, CallPairs
<1>4. callRows' = [callRows EXCEPT ![k] = callRows[k] + 1]
  BY <1>1 DEF InsertCall
<1>5. callRows \in [CallPairs -> Nat] /\ (callRows[k] = 0 \/ k \in contested)
  BY <1>0, <1>1 DEF EditsInv, TablesOK, EditCallOK, CallFound, InsertCall
<1>6. TablesOK' /\ RevivedWereContested'
  BY <1>0, <1>3, <1>4, <1>5 DEF EditsInv, TablesOK, RevivedWereContested
<1>7. OneRow'
  <2> SUFFICES ASSUME NEW c \in CallPairs, callRows'[c] > 1 PROVE c \in contested
    BY <1>0 DEF OneRow
  <2>1. CASE c = k
    BY <1>3, <1>4, <1>5, <2>1
  <2>2. CASE c # k
    BY <1>4, <1>5, <2>2 DEF EditsInv, OneRow
  <2> QED BY <2>1, <2>2
<1>8. \A g \in Handlers \ {h} : call'[g] = call[g] => EditCallOK(call[g])'
  <2> SUFFICES ASSUME NEW g \in Handlers \ {h}, call'[g] = call[g] PROVE EditCallOK(call[g])'
    OBVIOUS
  <2>1. MountsOfChild(call[g].item)' = MountsOfChild(call[g].item)
    BY <1>0 DEF MountsOfChild
  <2>2. ASSUME call[g].stage = "insertCall", callRows'[Subject(call[g])] # callRows[Subject(call[g])]
        PROVE  Subject(call[g]) \in contested
    <3>1. call[g].op = "call" /\ call[g].op \in EditOps
      BY <1>0, <2>2, OpOfStage DEF EditOps, Stages
    <3>2. call[g].item # None /\ Subject(call[g]) \in CallPairs
      BY <1>0, <3>1, ItemsAreTyped DEF WellFormed, ItemOK, Subject, CallPairs
    <3>3. Subject(call[g]) = k
      BY <1>4, <1>5, <2>2, <3>2
    <3> QED BY <1>1, <1>2, <1>3, <3>1, <3>2, <3>3, ClashIsKnown
  <2> QED BY <1>0, <2>1, <2>2, OthersOK
<1> QED BY <1>0, <1>6, <1>7, <1>8, EndsKeepEdits

LEMMA FilesKeepEdits ==
  ASSUME NEW h \in Handlers, EditsInv, InsertFile(h) \/ CheckFile(h)
  PROVE  EditsInv' /\ Frame(h) /\ call'[h].stage \notin MemberStages
<1>0. /\ DOMAIN call = Handlers /\ WellFormed(call[h]) /\ DOMAIN call[h] = Fields /\ EditCallOK(call[h])
      /\ TablesOK /\ \A g \in Handlers : EditCallOK(call[g])
      /\ UNCHANGED <<home, folders, mounts, callRows>> /\ contested' = contested /\ revived' = revived
  BY DEF EditsInv, EditCallOK, WellFormed, InsertFile, CheckFile, history, editVars
<1>1. CASE InsertFile(h)
  <2>1. files \subseteq files' /\ Return(h)
    BY <1>1 DEF InsertFile
  <2>2. TablesOK' /\ OneRow' /\ RevivedWereContested'
    BY <1>0 DEF EditsInv, TablesOK, OneRow, RevivedWereContested
  <2>3. \A g \in Handlers \ {h} : call'[g] = call[g] => EditCallOK(call[g])'
    <3> SUFFICES ASSUME NEW g \in Handlers \ {h}, call'[g] = call[g] PROVE EditCallOK(call[g])'
      OBVIOUS
    <3>1. MountsOfChild(call[g].item)' = MountsOfChild(call[g].item)
      BY <1>0 DEF MountsOfChild
    <3> QED BY <1>0, <2>1, <3>1, OthersOK
  <2> QED BY <1>0, <2>1, <2>2, <2>3, EndsKeepEdits, ReturnFields, IdleFields
<1>2. CASE CheckFile(h)
  <2>1. call[h].op \in {"mountFile", "unmountFile"} /\ call[h].op \in EditOps /\ call[h].item \in FileItems
    BY <1>0, <1>2, OpOfStage DEF CheckFile, WellFormed, ItemOK, EditOps, Stages
  <2>2. UNCHANGED editVars
    BY <1>2 DEF CheckFile
  <2>3. CASE Return(h)
    BY <1>0, <2>2, <2>3, ReturnKeepsEdits, ReturnFields, IdleFields
  <2>4. CASE call[h].op = "mountFile" /\ Goto(h, "checkMount")
    <3>1. EditsInv'
      BY <1>0, <1>2, <2>1, <2>2, <2>4, GotoKeepsEdits DEF CheckFile, Stages
    <3> QED BY <1>0, <2>4, <3>1, GotoFields DEF MemberStages, CreateStages, AdmittedStages
  <2>5. ASSUME call[h].op = "unmountFile",
               call' = [call EXCEPT ![h].olds = {[parent |-> call[h].parent, child |-> call[h].item]},
                                    ![h].stage = "findRelation"]
        PROVE  EditsInv' /\ Frame(h) /\ call'[h].stage \notin MemberStages
    <3>1. /\ Frame(h) /\ DOMAIN call'[h] = Fields
          /\ call'[h].stage = "findRelation" /\ call'[h].op = "unmountFile" /\ call'[h].item = call[h].item
          /\ call'[h].parent = call[h].parent
          /\ call'[h].olds = {[parent |-> call[h].parent, child |-> call[h].item]}
      BY <1>0, <2>5 DEF Frame, Fields
    <3>2. WellFormed(call[h])'
      BY <2>1, <3>1 DEF WellFormed, ItemOK, EditOps, Stages
    <3>3. EditCallOK(call[h])'
      BY <3>1, <3>2 DEF EditCallOK, Homed, OldsOK, Unplaced, LateMove, CallFound, SavesWhatIsThere
    <3>4. EditsInv'
      BY <1>0, <2>2, <2>5, <3>1, <3>3, SameRequest, EditsQuiet
    <3> QED BY <3>1, <3>4 DEF MemberStages, CreateStages, AdmittedStages
  <2> QED BY <1>2, <2>1, <2>3, <2>4, <2>5 DEF CheckFile
<1> QED BY <1>1, <1>2

LEMMA AcceptsKeepEdits ==
  ASSUME NEW h \in Handlers, EditsInv,
         \/ CreateVirtualFolder(h) \/ UpdateVirtualFolder(h) \/ DeleteVirtualFolder(h) \/ MoveVirtualFolder(h)
         \/ CreateCallRelation(h) \/ LoginFile(h) \/ NewMount(h) \/ DeleteMount(h) \/ LogoutFile(h) \/ NewRename(h)
  PROVE  EditsInv' /\ Frame(h) /\ call'[h].stage \notin MemberStages
<1>1. /\ {"createFolder", "renameFolder", "deleteFolder", "moveFolder", "call", "login", "mountFile",
          "unmountFile", "logout", "renameFile"} \subseteq EditOps
      /\ FirstStages["createFolder"] = "checkRoot" /\ FirstStages["renameFolder"] = "readFolder"
      /\ FirstStages["deleteFolder"] = "findFolder" /\ FirstStages["moveFolder"] = "checkMove"
      /\ FirstStages["call"] = "checkCall" /\ FirstStages["login"] = "insertFile"
      /\ FirstStages["mountFile"] = "checkFile" /\ FirstStages["unmountFile"] = "checkFile"
      /\ FirstStages["logout"] = "findFile" /\ FirstStages["renameFile"] = "readFile"
  BY DEF EditOps, Stages, FirstStages
<1>2. PICK op \in EditOps, required \in {"owner", "admin", "member"} : Accept(h, op, required, FirstStages[op])
  BY <1>1 DEF CreateVirtualFolder, UpdateVirtualFolder, DeleteVirtualFolder, MoveVirtualFolder,
              CreateCallRelation, LoginFile, NewMount, DeleteMount, LogoutFile, NewRename
<1> QED BY <1>2, AcceptKeepsEdits

LEMMA EditStepKeepsEdits ==
  ASSUME NEW h \in Handlers, EditsInv, EditStep(h)
  PROVE  EditsInv' /\ Frame(h) /\ call'[h].stage \notin MemberStages
<1>0. DOMAIN call = Handlers /\ DOMAIN call[h] = Fields
  BY DEF EditsInv, EditCallOK, WellFormed
<1>1. ASSUME Return(h) PROVE Frame(h) /\ call'[h].stage \notin MemberStages
  BY <1>0, <1>1, ReturnFields, IdleFields
<1>2. CASE \/ CheckRoot(h) \/ CheckParent(h) \/ CheckMount(h) \/ CheckMove(h) \/ ReadFolder(h) \/ FindFolder(h)
           \/ CheckCall(h) \/ FindCall(h) \/ FindFile(h) \/ ReadFile(h)
  <2>1. PICK s : /\ Goto(h, s) \/ Return(h)
                 /\ s \in {"insertFolder", "checkMount", "insertMount", "readOld", "saveFolder", "dropFolder",
                           "findCall", "insertCall", "dropFile", "saveFile"}
    BY <1>2 DEF CheckRoot, CheckParent, CheckMount, CheckMove, ReadFolder, FindFolder, CheckCall, FindCall,
                FindFile, ReadFile, Read, Decide, Abandon
  <2>2. s \notin MemberStages
    BY <2>1 DEF MemberStages, CreateStages, AdmittedStages
  <2>3. Frame(h) /\ call'[h].stage \notin MemberStages
    BY <1>0, <1>1, <2>1, <2>2, GotoFields
  <2> QED BY <1>2, <2>3, ReadsKeepEdits
<1>3. CASE InsertMount(h)
  BY <1>1, <1>3, InsertMountKeepsEdits DEF InsertMount
<1>4. CASE SaveFolder(h) \/ SaveFile(h)
  BY <1>1, <1>4, SavesKeepEdits DEF SaveFolder, SaveFile
<1>5. CASE DropFolder(h) \/ DropFile(h)
  BY <1>1, <1>5, DropsKeepEdits DEF DropFolder, DropFile
<1>6. CASE InsertCall(h)
  BY <1>1, <1>6, InsertCallKeepsEdits DEF InsertCall
<1>7. CASE Fail(h)
  BY <1>1, <1>7, ReturnKeepsEdits DEF Fail, Abandon
<1> QED BY <1>2, <1>3, <1>4, <1>5, <1>6, <1>7, AcceptsKeepEdits, InsertFolderKeepsEdits, ReadOldKeepsEdits,
           FindRelationKeepsEdits, DropRelationKeepsEdits, FilesKeepEdits DEF EditStep

LEMMA EditStepLeavesMembers ==
  ASSUME NEW h \in Handlers, EditStep(h)
  PROVE  owner' = owner /\ members' = members /\ early' = early
<1>1. CASE \/ CreateVirtualFolder(h) \/ UpdateVirtualFolder(h) \/ DeleteVirtualFolder(h) \/ MoveVirtualFolder(h)
           \/ CreateCallRelation(h) \/ LoginFile(h) \/ NewMount(h) \/ DeleteMount(h) \/ LogoutFile(h) \/ NewRename(h)
  BY <1>1 DEF CreateVirtualFolder, UpdateVirtualFolder, DeleteVirtualFolder, MoveVirtualFolder,
              CreateCallRelation, LoginFile, NewMount, DeleteMount, LogoutFile, NewRename, Accept, memberVars
<1>2. CASE \/ CheckRoot(h) \/ CheckParent(h) \/ CheckMount(h) \/ CheckMove(h) \/ ReadFolder(h) \/ FindFolder(h)
           \/ CheckCall(h) \/ FindCall(h) \/ FindFile(h) \/ ReadFile(h)
  BY <1>2 DEF CheckRoot, CheckParent, CheckMount, CheckMove, ReadFolder, FindFolder, CheckCall, FindCall,
              FindFile, ReadFile, Read, memberVars
<1>3. CASE InsertFolder(h) \/ InsertMount(h) \/ ReadOldRelations(h) \/ FindRelation(h) \/ DropRelation(h)
           \/ SaveFolder(h) \/ DropFolder(h) \/ InsertCall(h)
  BY <1>3 DEF InsertFolder, InsertMount, ReadOldRelations, FindRelation, DropRelation, SaveFolder, DropFolder,
              InsertCall, memberVars
<1>4. CASE InsertFile(h) \/ CheckFile(h) \/ DropFile(h) \/ SaveFile(h) \/ Fail(h)
  BY <1>4 DEF InsertFile, CheckFile, DropFile, SaveFile, Fail, memberVars
<1> QED BY <1>1, <1>2, <1>3, <1>4 DEF EditStep

(***************************************************************************)
(* The invariant                                                           *)
(***************************************************************************)

Inv == MembersInv /\ EditsInv

LEMMA Initially == Init => Inv
<1> SUFFICES ASSUME Init PROVE Inv
  OBVIOUS
<1> USE DEF Init
<1>1. \A h \in Handlers : call[h] = Idle
  OBVIOUS
<1>2. MembersInv
  <2>1. \A p \in Projects : members[p] \in Seq(Rows)
    <3> SUFFICES ASSUME NEW p \in Projects PROVE members[p] \in Seq(Rows)
      OBVIOUS
    <3> DEFINE A == Seq([user : Users, role : DOMAIN Level])
    <3>0. InitialMembers \in [Projects -> A]
      BY InitialAssumption
    <3> HIDE DEF A
    <3>1. members[p] \in A
      BY <3>0
    <3>2. \A r \in [user : Users, role : DOMAIN Level] : r \in Rows
      BY DEF Rows
    <3> DEFINE R == [user : Users, role : DOMAIN Level]
    <3> DEFINE T == Rows
    <3>3. members[p] \in Seq(R) /\ \A r \in R : r \in T
      BY <3>1, <3>2 DEF A
    <3> HIDE DEF R, T
    <3>4. members[p] \in Seq(T)
      BY <3>3
    <3> QED BY <3>4 DEF T
  <2>2. members \in [Projects -> Seq(Rows)]
    <3> DEFINE S == Seq(Rows)
    <3>1. \A p \in Projects : members[p] \in S
      BY <2>1
    <3> DEFINE A == Seq([user : Users, role : DOMAIN Level])
    <3>2. members \in [Projects -> A]
      BY InitialAssumption
    <3> HIDE DEF A, S
    <3>3. members \in [Projects -> S]
      BY <3>1, <3>2
    <3> QED BY <3>3 DEF S
  <2>3. ASSUME NEW p \in Projects PROVE OwnerLeads(p)
    <3>1. PICK n \in Nat : DOMAIN members[p] = 1..n
      BY <2>1
    <3>2. members[p] # <<>> =>
            1 \in 1..n /\ owner[p] # None /\ members[p][1] = [user |-> owner[p], role |-> "owner"]
      BY <2>1, <3>1, InitialAssumption
    <3>3. ASSUME NEW i \in 1..n, Leads(p, i) PROVE members[p][i].role = "owner"
      <4>1. 1 \in RowsOf(p, owner[p]) /\ members[p] # <<>>
        BY <3>1, <3>2 DEF RowsOf
      <4>2. i = 1
        BY <4>1, <3>1, <3>3 DEF Leads
      <4> QED BY <3>2, <4>1, <4>2
    <3> QED BY <3>1, <3>2, <3>3 DEF OwnerLeads
  <2>4. \A h \in Handlers : MemberCallOK(call[h])
    BY <1>1, IdleFields DEF MemberCallOK, CreateStages, AdmittedStages
  <2> QED BY <2>2, <2>3, <2>4, InitialAssumption DEF MembersInv
<1>3. \A h \in Handlers : EditCallOK(call[h]) /\ call[h].item = None
  <2> SUFFICES ASSUME NEW h \in Handlers PROVE EditCallOK(call[h]) /\ call[h].item = None
    OBVIOUS
  <2>1. WellFormed(call[h]) /\ call[h].item = None /\ call[h].op = "none" /\ call[h].stage = "idle"
    BY <1>1, IdleFields DEF WellFormed
  <2> QED BY <2>1 DEF EditCallOK, Homed, OldsOK, Unplaced, LateMove, CallFound, SavesWhatIsThere
<1>4. TablesOK
  BY InitialAssumption DEF TablesOK
<1>5. OneFather
  BY InitialAssumption, ItemsAreTyped DEF OneFather
<1>6. OneRow /\ RevivedWereContested
  BY DEF OneRow, RevivedWereContested
<1>7. OverlapsAreKnown
  BY <1>3 DEF OverlapsAreKnown, Clash
<1> QED BY <1>2, <1>3, <1>4, <1>5, <1>6, <1>7 DEF Inv, EditsInv

LEMMA Preserved == Inv /\ [Next]_vars => Inv'
<1> SUFFICES ASSUME Inv, [Next]_vars PROVE Inv'
  OBVIOUS
<1> USE DEF Inv
<1>1. ASSUME NEW h \in Handlers, EditStep(h) PROVE Inv'
  BY <1>1, EditStepKeepsEdits, EditStepLeavesMembers, MembersQuiet
<1>2. ASSUME NEW h \in Handlers, MemberStep(h), UNCHANGED <<editVars, history>> PROVE Inv'
  <2>1. DOMAIN call = Handlers /\ DOMAIN call[h] = Fields
    BY DEF EditsInv, EditCallOK, WellFormed
  <2> QED BY <1>2, <2>1, MemberStepKeepsEdits, MemberStepKeepsMembers
<1>3. CASE UNCHANGED vars
  <2>1. MembersInv'
    BY <1>3 DEF vars, memberVars, MembersInv, OwnerLeads, Leads, RowsOf, MemberCallOK
  <2>2. /\ UNCHANGED editVars /\ call' = call /\ contested' = contested /\ revived' = revived
    BY <1>3 DEF vars, history
  <2>3. \A g \in Handlers : EditCallOK(call[g])'
    BY <2>2, StillOK DEF EditsInv
  <2>4. OverlapsAreKnown' /\ TablesOK' /\ OneFather' /\ OneRow' /\ RevivedWereContested'
    BY <2>2 DEF EditsInv, OverlapsAreKnown, Clash, Subject, TablesOK, OneFather, OneRow, RevivedWereContested, editVars
  <2> QED BY <2>1, <2>2, <2>3, <2>4 DEF EditsInv
<1> QED BY <1>1, <1>2, <1>3 DEF Next

LEMMA Invariance == Spec => []Inv
BY Initially, Preserved, PTL DEF Spec

(***************************************************************************)
(* A folder keeps a place                                                  *)
(***************************************************************************)

\* No move that has begun to delete ends without a trace.
LEMMA PlacesQuiet ==
  ASSUME NEW h \in Handlers, PlacesInv, Frame(h), mounts' = mounts, placed' = placed, strayed \subseteq strayed',
         LateMove(call[h]) =>
           (LateMove(call'[h]) /\ call'[h].item = call[h].item) \/ call[h].item.id \in strayed'
  PROVE  PlacesInv'
<1> SUFFICES ASSUME NEW f \in placed \ strayed, f \notin strayed' PROVE FolderMounts(f)' # {} \/ InWork(f)'
  BY DEF PlacesInv
<1>1. CASE FolderMounts(f) # {}
  BY <1>1 DEF FolderMounts, MountsOfChild, FolderItem
<1>2. CASE InWork(f)
  <2>1. PICK g \in Handlers : LateMove(call[g]) /\ call[g].item = FolderItem(f)
    BY <1>2 DEF InWork
  <2>2. call[g].item.id = f
    BY <2>1 DEF FolderItem
  <2>3. LateMove(call'[g]) /\ call'[g].item = FolderItem(f)
    BY <2>1, <2>2 DEF Frame
  <2> QED BY <2>3 DEF InWork, LateMove
<1> QED BY <1>1, <1>2 DEF PlacesInv

LEMMA AbandonKeepsPlaces ==
  ASSUME NEW h \in Handlers, EditsInv, PlacesInv, Abandon(h), mounts' = mounts, placed' = placed
  PROVE  PlacesInv'
<1>1. Frame(h)
  BY ReturnFields DEF Abandon, EditsInv
<1> QED BY <1>1, PlacesQuiet DEF Abandon, LateMove

\* A request that is no move leaves every folder where it is.
LEMMA OthersKeepPlaces ==
  ASSUME NEW h \in Handlers, PlacesInv, Frame(h), mounts' = mounts, placed' = placed, strayed' = strayed,
         ~LateMove(call[h])
  PROVE  PlacesInv'
BY PlacesQuiet

LEMMA GotoKeepsPlaces ==
  ASSUME NEW h \in Handlers, EditsInv, PlacesInv, NEW next, Goto(h, next),
         mounts' = mounts, placed' = placed, strayed' = strayed,
         next # "checkMove", next = "readOld" => call[h].stage = "checkMove"
  PROVE  PlacesInv'
<1>1. Frame(h) /\ call'[h].op = call[h].op /\ call'[h].item = call[h].item /\ call'[h].stage = next
  BY GotoFields DEF EditsInv, EditCallOK, WellFormed
<1>2. LateMove(call[h]) => LateMove(call'[h])
  BY <1>1 DEF LateMove
<1> QED BY <1>1, <1>2, PlacesQuiet

LEMMA InsertMountKeepsPlaces ==
  ASSUME NEW h \in Handlers, EditsInv, PlacesInv, InsertMount(h)
  PROVE  PlacesInv'
<1> DEFINE new == [parent |-> call[h].parent, child |-> call[h].item]
<1>0. /\ DOMAIN call = Handlers /\ WellFormed(call[h]) /\ mounts' = mounts \cup {new} /\ strayed' = strayed
      /\ call[h].op \in {"createFolder", "moveFolder", "mountFile"} /\ call[h].stage = "insertMount"
      /\ call[h].item \in FileItems \cup FolderItems
  BY OpOfStage DEF EditsInv, EditCallOK, InsertMount, WellFormed, ItemOK, EditOps, Stages
<1>1. Frame(h)
  BY <1>0, ReturnFields DEF InsertMount
<1>2. \A f : FolderMounts(f) \subseteq FolderMounts(f)'
  BY <1>0 DEF FolderMounts, MountsOfChild, FolderItem
<1>3. ASSUME NEW f, call[h].item = FolderItem(f) PROVE FolderMounts(f)' # {}
  <2>1. PICK n : n = new
    OBVIOUS
  <2>2. n \in mounts' /\ n.child = FolderItem(f)
    BY <1>0, <1>3, <2>1
  <2>3. n \in FolderMounts(f)'
    BY <2>2 DEF FolderMounts, MountsOfChild, FolderItem
  <2> QED BY <2>3
<1> SUFFICES ASSUME NEW f \in placed' \ strayed PROVE FolderMounts(f)' # {} \/ InWork(f)'
  BY <1>0 DEF PlacesInv
<1>4. CASE call[h].item = FolderItem(f)
  BY <1>3, <1>4
<1>5. CASE call[h].item # FolderItem(f)
  <2>1. f \in placed
    BY <1>0, <1>5, ItemsAreTyped DEF InsertMount
  <2>2. CASE FolderMounts(f) # {}
    BY <1>2, <2>2
  <2>3. CASE InWork(f)
    <3>1. PICK g \in Handlers : LateMove(call[g]) /\ call[g].item = FolderItem(f)
      BY <2>3 DEF InWork
    <3>2. call'[g] = call[g]
      BY <1>1, <1>5, <3>1 DEF Frame
    <3> QED BY <3>1, <3>2 DEF InWork, LateMove
  <2> QED BY <2>1, <2>2, <2>3 DEF PlacesInv
<1> QED BY <1>4, <1>5

\* What is deleted is the child that is moved, or a folder that goes astray.
LEMMA DropRelationKeepsPlaces ==
  ASSUME NEW h \in Handlers, EditsInv, PlacesInv, DropRelation(h)
  PROVE  PlacesInv'
<1>0. /\ DOMAIN call = Handlers /\ WellFormed(call[h]) /\ DOMAIN call[h] = Fields /\ EditCallOK(call[h])
      /\ TablesOK /\ call[h].stage = "dropRelation" /\ placed' = placed
  BY DEF EditsInv, EditCallOK, WellFormed, DropRelation, history
<1>1. /\ call[h].op \in {"moveFolder", "unmountFile"}
      /\ call[h].op = "moveFolder" => call[h].item \in FolderItems
      /\ call[h].op = "unmountFile" => call[h].item \in FileItems
  BY <1>0, OpOfStage DEF WellFormed, ItemOK, EditOps, Stages
<1>2. PICK m : m = call[h].target /\ m.child = call[h].item
  BY <1>0 DEF EditCallOK, OldsOK
<1>3. /\ mounts' = mounts \ MountsOfPair(m.parent.id, m.child.id)
      /\ strayed' = strayed \cup {n.child.id : n \in {k \in MountsOfPair(m.parent.id, m.child.id) :
                                                       k.child \in FolderItems \ {m.child}}}
      /\ Frame(h) /\ call'[h] = [AfterRemoval(h, m) EXCEPT !.target = None]
  BY <1>0, <1>2 DEF DropRelation, Frame
<1>4. call[h].op = "moveFolder" => LateMove(call'[h]) /\ call'[h].item = call[h].item
  BY <1>0, <1>3, AfterRemovalFields DEF LateMove, Fields
<1> SUFFICES ASSUME NEW f \in placed \ strayed, f \notin strayed' PROVE FolderMounts(f)' # {} \/ InWork(f)'
  BY <1>0, <1>3 DEF PlacesInv
<1>5. CASE InWork(f)
  <2>1. PICK g \in Handlers : LateMove(call[g]) /\ call[g].item = FolderItem(f)
    BY <1>5 DEF InWork
  <2>2. LateMove(call'[g]) /\ call'[g].item = FolderItem(f)
    BY <1>3, <1>4, <2>1 DEF Frame, LateMove
  <2> QED BY <2>2 DEF InWork, LateMove
<1>6. CASE FolderMounts(f) # {}
  <2>1. PICK n \in mounts : n.child = FolderItem(f)
    BY <1>6 DEF FolderMounts, MountsOfChild
  <2>2. FolderItem(f) \in FolderItems /\ f \in FolderIds /\ n.child.id = f
    BY <1>0, <2>1, ItemsAreTyped DEF TablesOK, FolderItem
  <2>3. CASE call[h].item = FolderItem(f)
    <3>1. call[h].op = "moveFolder"
      BY <1>1, <2>2, <2>3, ItemsAreTyped
    <3> QED BY <1>4, <2>3, <3>1 DEF InWork, LateMove
  <2>4. CASE call[h].item # FolderItem(f)
    <3>1. n.child \in FolderItems \ {m.child}
      BY <1>2, <2>1, <2>2, <2>4
    <3>2. n \in mounts'
      BY <1>3, <2>1, <2>2, <3>1
    <3> QED BY <2>1, <3>2 DEF FolderMounts, MountsOfChild, FolderItem
  <2> QED BY <2>3, <2>4
<1> QED BY <1>5, <1>6 DEF PlacesInv

LEMMA EditStepKeepsPlaces ==
  ASSUME NEW h \in Handlers, EditsInv, PlacesInv, EditStep(h)
  PROVE  PlacesInv'
<1>0. DOMAIN call = Handlers /\ DOMAIN call[h] = Fields /\ WellFormed(call[h])
  BY DEF EditsInv, EditCallOK, WellFormed
<1>1. Frame(h)
  BY EditStepKeepsEdits
<1>2. CASE \/ CreateVirtualFolder(h) \/ UpdateVirtualFolder(h) \/ DeleteVirtualFolder(h) \/ MoveVirtualFolder(h)
           \/ CreateCallRelation(h) \/ LoginFile(h) \/ NewMount(h) \/ DeleteMount(h) \/ LogoutFile(h) \/ NewRename(h)
  <2>1. call[h] = Idle /\ mounts' = mounts /\ placed' = placed /\ strayed' = strayed
    BY <1>2 DEF CreateVirtualFolder, UpdateVirtualFolder, DeleteVirtualFolder, MoveVirtualFolder,
                CreateCallRelation, LoginFile, NewMount, DeleteMount, LogoutFile, NewRename, Accept, Admit,
                Free, Begin, editVars
  <2> QED BY <1>1, <2>1, IdleFields, OthersKeepPlaces DEF LateMove
<1>3. CASE \/ CheckRoot(h) \/ CheckParent(h) \/ CheckMount(h) \/ CheckMove(h) \/ ReadFolder(h) \/ FindFolder(h)
           \/ CheckCall(h) \/ FindCall(h) \/ FindFile(h) \/ ReadFile(h)
  <2>1. mounts' = mounts /\ placed' = placed
    BY <1>3 DEF CheckRoot, CheckParent, CheckMount, CheckMove, ReadFolder, FindFolder, CheckCall, FindCall,
                FindFile, ReadFile, Read, editVars
  <2>2. PICK next :
          /\ Abandon(h) \/ (Goto(h, next) /\ strayed' = strayed)
          /\ next # "checkMove" /\ (next = "readOld" => call[h].stage = "checkMove")
    BY <1>3 DEF CheckRoot, CheckParent, CheckMount, CheckMove, ReadFolder, FindFolder, CheckCall, FindCall,
                FindFile, ReadFile, Read, Decide
  <2> QED BY <2>1, <2>2, AbandonKeepsPlaces, GotoKeepsPlaces
<1>4. CASE InsertFolder(h)
  <2>1. ~LateMove(call[h])
    BY <1>0, <1>4, OpOfStage DEF InsertFolder, LateMove
  <2> QED BY <1>1, <1>4, <2>1, OthersKeepPlaces DEF InsertFolder
<1>5. CASE ReadOldRelations(h)
  <2>1. ~LateMove(call[h]) /\ mounts' = mounts /\ placed' = placed /\ strayed \subseteq strayed'
    BY <1>5 DEF ReadOldRelations, LateMove, editVars, Abandon
  <2> QED BY <1>1, <2>1, PlacesQuiet
<1>6. CASE FindRelation(h)
  <2>0. mounts' = mounts /\ placed' = placed /\ call[h].stage = "findRelation"
    BY <1>6 DEF FindRelation, editVars
  <2>1. CASE Abandon(h)
    BY <2>0, <2>1, AbandonKeepsPlaces
  <2>2. ASSUME NEW m, call' = [call EXCEPT ![h] = AfterRemoval(h, m)], strayed' = strayed PROVE PlacesInv'
    <3>1. LateMove(call[h]) => LateMove(call'[h]) /\ call'[h].item = call[h].item
      BY <1>0, <2>0, <2>2, AfterRemovalFields DEF LateMove
    <3> QED BY <1>1, <2>0, <2>2, <3>1, PlacesQuiet
  <2>3. ASSUME NEW m, call' = [call EXCEPT ![h].target = m, ![h].stage = "dropRelation"], strayed' = strayed
        PROVE  PlacesInv'
    <3>1. LateMove(call[h]) => LateMove(call'[h]) /\ call'[h].item = call[h].item
      BY <1>0, <2>0, <2>3 DEF LateMove, Fields
    <3> QED BY <1>1, <2>0, <2>3, <3>1, PlacesQuiet
  <2> QED BY <1>6, <2>1, <2>2, <2>3 DEF FindRelation
<1>7. CASE SaveFolder(h) \/ SaveFile(h) \/ DropFolder(h) \/ DropFile(h) \/ InsertCall(h) \/ InsertFile(h) \/ CheckFile(h)
  <2>1. ~LateMove(call[h])
    BY <1>0, <1>7, OpOfStage
       DEF LateMove, SaveFolder, SaveFile, DropFolder, DropFile, InsertCall, InsertFile, CheckFile
  <2>2. mounts' = mounts /\ placed' = placed /\ strayed' = strayed
    BY <1>7 DEF SaveFolder, SaveFile, DropFolder, DropFile, InsertCall, InsertFile, CheckFile, history, editVars
  <2> QED BY <1>1, <2>1, <2>2, OthersKeepPlaces
<1>8. CASE Fail(h)
  BY <1>8, AbandonKeepsPlaces DEF Fail, editVars
<1> QED BY <1>2, <1>3, <1>4, <1>5, <1>6, <1>7, <1>8, InsertMountKeepsPlaces, DropRelationKeepsPlaces DEF EditStep

LEMMA MemberStepKeepsPlaces ==
  ASSUME NEW h \in Handlers, EditsInv, PlacesInv, MemberStep(h), UNCHANGED <<editVars, history>>
  PROVE  PlacesInv'
<1>0. DOMAIN call = Handlers /\ WellFormed(call[h]) /\ mounts' = mounts /\ placed' = placed /\ strayed' = strayed
  BY DEF EditsInv, EditCallOK, editVars, history
<1>1. Frame(h)
  BY <1>0 DEF MemberStep, CreateProject, AddProjectMember, UpdateProjectMember, Admit, Begin, InsertProject,
              AddOwner, CreateProjectVirtualRoot, CheckAdder, InsertMember, CheckUpdater, CheckTarget,
              UpdateProjectMemberRole, Goto, Return, Frame
<1>2. ~LateMove(call[h])
  <2>1. call[h] = Idle \/ call[h].stage \in MemberStages
    BY DEF MemberStep, CreateProject, AddProjectMember, UpdateProjectMember, Free, Admit, Begin, InsertProject,
           AddOwner, CreateProjectVirtualRoot, CheckAdder, InsertMember, CheckUpdater, CheckTarget,
           UpdateProjectMemberRole, MemberStages, CreateStages, AdmittedStages
  <2> QED BY <1>0, <2>1, OpOfStage, IdleFields DEF LateMove
<1> QED BY <1>0, <1>1, <1>2, OthersKeepPlaces

(***************************************************************************)
(* Theorems                                                                *)
(***************************************************************************)

\* A set of row numbers has a first one.
LEMMA FirstRowFacts ==
  ASSUME NEW S \in SUBSET Nat, S # {}
  PROVE  FirstRow(S) \in S /\ \A j \in S : FirstRow(S) <= j
<1> DEFINE R == OpToRel(<, Nat)
<1>1. IsWellFoundedOn(R, Nat)
  BY NatLessThanWellFounded
<1>2. \A x, y \in Nat : y < x => <<y, x>> \in R
  BY DEF OpToRel
<1> HIDE DEF R
<1>3. PICK i \in S : \A j \in S : <<j, i>> \notin R
  BY <1>1, WFMin
<1>4. \A j \in S : i <= j
  <2> TAKE j \in S
  <2>1. i \in Nat /\ j \in Nat /\ ~(j < i)
    BY <1>2, <1>3
  <2> QED BY <2>1
<1> QED BY <1>4 DEF FirstRow

\* Whoever adds members or changes roles meanwhile, and whichever project admits them, the
\* first of the owner's rows says "owner", but where another request entered the owner before
\* the one that created the project (GetProjectMemberRole and UpdateProjectMemberRole,
\* repository/project.go; CreateProjectService, service/project.go).
THEOREM OwnersKeepTheirRole == Spec => []OwnerKeepsRole
<1>1. Inv => OwnerKeepsRole
  <2> SUFFICES ASSUME Inv, NEW p \in Projects \ early, NEW i \in DOMAIN members[p],
                      members[p][i] = [user |-> owner[p], role |-> "owner"]
               PROVE  RoleOf(p, owner[p]) = "owner"
    BY DEF OwnerKeepsRole
  <2>1. members[p] \in Seq(Rows) /\ OwnerLeads(p)
    BY DEF Inv, MembersInv
  <2>2. PICK n \in Nat : DOMAIN members[p] = 1..n
    BY <2>1
  <2> DEFINE S == RowsOf(p, owner[p])
  <2>3. i \in S /\ S \subseteq 1..n
    BY <2>2 DEF RowsOf
  <2>4. Leads(p, FirstRow(S)) /\ FirstRow(S) \in DOMAIN members[p]
    <3> HIDE DEF S
    <3>1. S \in SUBSET Nat /\ S # {}
      BY <2>3
    <3>2. FirstRow(S) \in S /\ \A j \in S : FirstRow(S) <= j
      BY <3>1, FirstRowFacts
    <3> QED BY <2>2, <2>3, <3>2 DEF Leads, S
  <2> QED BY <2>1, <2>4 DEF RoleOf, OwnerLeads
<1> QED BY <1>1, Invariance, PTL

\* A deleted folder or file comes back only through a request that overlapped with
\* another on it: the save of a rename that had read the row before
\* (UpdateVirtualFolder, service/virtual_folder.go; NewRename, service/new_file_service.go).
THEOREM RevivalsAreContested == Spec => []RevivedWereContested
<1>1. Inv => RevivedWereContested
  BY DEF Inv, EditsInv
<1> QED BY <1>1, Invariance, PTL

\* A folder gets a second father, and a call a second row, only when two requests
\* on it overlapped: each looks before it inserts (MoveVirtualFolder,
\* service/virtual_folder.go; CreateCallRelation, service/call_relation.go).
THEOREM DuplicatesComeFromOverlaps == Spec => []DuplicatesAreContested
<1>1. Inv => DuplicatesAreContested
  <2> SUFFICES ASSUME Inv PROVE DuplicatesAreContested
    OBVIOUS
  <2>1. \A c \in CallPairs : callRows[c] > 1 => c \in contested
    BY DEF Inv, EditsInv, OneRow
  <2>2. ASSUME NEW f \in FolderIds, Cardinality(FolderMounts(f)) > 1
        PROVE  <<FolderItem(f), FolderItem(f)>> \in contested
    <3> DEFINE M == FolderMounts(f)
    <3>1. PICK m \in M, n \in M : m # n
      <4> SUFFICES ASSUME \A m, n \in M : m = n PROVE FALSE
        OBVIOUS
      <4>1. CASE M = {}
        BY <2>2, <4>1, FS_EmptySet
      <4>2. ASSUME NEW m \in M PROVE FALSE
        <5>1. M = {m}
          BY <4>2
        <5> HIDE DEF M
        <5>2. Cardinality(M) = 1
          BY <5>1, FS_Singleton
        <5> QED BY <2>2, <5>2 DEF M
      <4> QED BY <4>1, <4>2
    <3>2. m \in mounts /\ n \in mounts /\ m.child = FolderItem(f) /\ n.child = FolderItem(f)
      BY DEF FolderMounts, MountsOfChild
    <3> QED BY <3>1, <3>2, ItemsAreTyped DEF Inv, EditsInv, OneFather
  <2> QED BY <2>1, <2>2 DEF DuplicatesAreContested
<1> QED BY <1>1, Invariance, PTL

\* A folder that was mounted once is mounted whenever no move of it is under way,
\* unless a move of it ended early or a file of the same number was unmounted from the
\* same parent (MoveVirtualFolder, service/virtual_folder.go; DeleteMountRelation,
\* service/mount_relation.go, which goes by the two numbers).
THEOREM FoldersStayMounted == Spec => []FoldersKeepAPlace
<1>1. Init => PlacesInv
  <2> SUFFICES ASSUME Init, NEW f \in placed PROVE FolderMounts(f) # {}
    BY DEF PlacesInv
  <2>1. PICK m \in InitialMounts : m.child.type = "folder" /\ m.child.id = f
    BY DEF Init
  <2>2. m \in mounts /\ m.child = FolderItem(f)
    BY <2>1, InitialAssumption, ItemsAreTyped DEF Init
  <2> QED BY <2>2 DEF FolderMounts, MountsOfChild
<1>2. Inv /\ PlacesInv /\ [Next]_vars => PlacesInv'
  <2> SUFFICES ASSUME Inv, PlacesInv, [Next]_vars PROVE PlacesInv'
    OBVIOUS
  <2>1. CASE UNCHANGED vars
    BY <2>1 DEF vars, history, editVars, PlacesInv, FolderMounts, MountsOfChild, InWork, LateMove, FolderItem
  <2> QED BY <2>1, EditStepKeepsPlaces, MemberStepKeepsPlaces DEF Next, Inv
<1>3. PlacesInv => FoldersKeepAPlace
  BY DEF PlacesInv, FoldersKeepAPlace, BeingMoved, InWork, LateMove
<1> QED BY <1>1, <1>2, <1>3, Invariance, PTL DEF Spec
=============================================================================
