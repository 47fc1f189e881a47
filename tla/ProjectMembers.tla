-------------------------- MODULE ProjectMembers --------------------------
(***************************************************************************)
(* Projects, their members and the roles that admit a request             *)
(* (service/project.go, repository/project.go, middleware/auth.go).        *)
(*                                                                         *)
(* A handler is a goroutine that serves one request at a time, one read   *)
(* or write of the database per step.  The requests on folders and files  *)
(* are in FolderEdits, which extends this module.                          *)
(***************************************************************************)
EXTENDS Naturals, Sequences, FiniteSets

CONSTANTS
  Users,
  Projects,      \* ids of projects; the root of a project is named by it
  Handlers,      \* goroutines that serve requests
  Menu,          \* requests that clients send
  None,
  MaxCalls,      \* bound on the number of requests
  MaxFaults      \* bound on the number of failing statements

\* A request carries the user of its token; all but those that create a project name
\* the project of their path, whose roles admit them, and the one they act on.
ASSUME UsersAssumption ==
  /\ None \notin Users \cup Projects
  /\ \A c \in Menu : c.user \in Users /\ (c.op # "createProject" => {c.path, c.project} \subseteq Projects)

VARIABLES
  owner,         \* owner[p]: owner_id of project p, None before it is created
  members,       \* members[p]: rows of project_members of p, in the order of their ids
  roots,         \* projects that have their row in virtual_roots
  call,          \* call[h]: the request that h serves and how far it has come
  calls,         \* requests begun so far
  faults,        \* statements failed so far
  early          \* history: projects whose owner was first entered by another request
                 \* than the one that created the project

memberVars == <<owner, members, roots, early>>

Level == [owner |-> 4, admin |-> 3, member |-> 2, viewer |-> 1, ban |-> 0]

Idle == [op |-> "none", stage |-> "idle", user |-> None, project |-> None, item |-> None,
         parent |-> None, role |-> None, olds |-> {}, target |-> None]

\* What a client sends; a field that an operation does not have is None.
Template(op, u, path, p, item, parent, role) ==
  [op |-> op, user |-> u, path |-> path, project |-> p, item |-> item, parent |-> parent, role |-> role]

-----------------------------------------------------------------------------
RowsOf(p, u) == {i \in DOMAIN members[p] : members[p][i].user = u}
LastRow(S) == CHOOSE i \in S : \A j \in S : i >= j     \* Mutant of FirstRow: the latest row counts
FirstRow(S) == CHOOSE i \in S : \A j \in S : i <= j

IsProjectMember(p, u) == RowsOf(p, u) # {}
RoleOf(p, u) == members[p][FirstRow(RowsOf(p, u))].role

CheckUserProjectRole(p, u, required) ==
  IsProjectMember(p, u) /\ Level[RoleOf(p, u)] >= Level[required]

CheckRootAccess(p, u) == owner[p] = u \/ IsProjectMember(p, u)

-----------------------------------------------------------------------------
(* Handlers                                                                *)

\* A goroutine that can take a request.
Free(h) == call[h] = Idle /\ calls < MaxCalls

Begin(h, c, stage) ==
  /\ calls' = calls + 1
  /\ call' = [call EXCEPT ![h] = [op |-> c.op, stage |-> stage, user |-> c.user, project |-> c.project,
                                  item |-> c.item, parent |-> c.parent, role |-> c.role, olds |-> {},
                                  target |-> None]]

\* ProjectAuthMiddleware has let the request pass: the role is that in the project of
\* the path, which nobody compares with the project of the body.
Admit(h, c, required, stage) ==
  CheckUserProjectRole(c.path, c.user, required) /\ Begin(h, c, stage)

Goto(h, stage) == call' = [call EXCEPT ![h].stage = stage]
Return(h) == call' = [call EXCEPT ![h] = Idle]

CreateProject(h) ==
  /\ Free(h)
  /\ \E c \in Menu : c.op = "createProject" /\ Begin(h, c, "insertProject")
  /\ UNCHANGED <<memberVars, faults>>

AddProjectMember(h) ==
  /\ Free(h)
  /\ \E c \in Menu : c.op = "addMember" /\ Admit(h, c, "member", "checkAdder")
  /\ UNCHANGED <<memberVars, faults>>

UpdateProjectMember(h) ==
  /\ Free(h)
  /\ \E c \in Menu : c.op = "updateMember" /\ Admit(h, c, "admin", "checkUpdater")
  /\ UNCHANGED <<memberVars, faults>>

-----------------------------------------------------------------------------
(* CreateProjectService: only the first statement's failure ends it.       *)

InsertProject(h) ==
  /\ call[h].stage = "insertProject"
  /\ \E p \in Projects :
       /\ owner[p] = None
       /\ owner' = [owner EXCEPT ![p] = call[h].user]
       /\ call' = [call EXCEPT ![h].project = p, ![h].stage = "addOwner"]
  /\ UNCHANGED <<members, roots, early, calls, faults>>

AddRow(p, u, role) == members' = [members EXCEPT ![p] = Append(@, [user |-> u, role |-> role])]

AddOwner(h) ==
  /\ call[h].stage = "addOwner"
  /\ \/ AddRow(call[h].project, call[h].user, "owner") /\ UNCHANGED faults
     \/ faults < MaxFaults /\ faults' = faults + 1 /\ UNCHANGED members
  /\ Goto(h, "createRoot")
  /\ UNCHANGED <<owner, roots, early, calls>>

CreateProjectVirtualRoot(h) ==
  /\ call[h].stage = "createRoot"
  /\ \/ roots' = roots \cup {call[h].project} /\ UNCHANGED faults
     \/ faults < MaxFaults /\ faults' = faults + 1 /\ UNCHANGED roots
  /\ Return(h)
  /\ UNCHANGED <<owner, members, early, calls>>

(* AddProjectMemberService: item is the user to be added.                  *)

CheckAdder(h) ==
  /\ call[h].stage = "checkAdder"
  /\ LET p == call[h].project  u == call[h].user IN
     IF owner[p] = u \/ (IsProjectMember(p, u) /\ RoleOf(p, u) = "admin") THEN Goto(h, "insertMember") ELSE Return(h)
  /\ UNCHANGED <<memberVars, calls, faults>>

InsertMember(h) ==
  /\ call[h].stage = "insertMember"
  /\ LET p == call[h].project IN
     /\ AddRow(p, call[h].item, call[h].role)
     /\ early' = IF call[h].item = owner[p] /\ ~IsProjectMember(p, owner[p]) THEN early \cup {p} ELSE early
  /\ Return(h)
  /\ UNCHANGED <<owner, roots, calls, faults>>

(* UpdateProjectMemberRoleService: item is the member.                     *)

MayBeUpdated(h) == call[h].item # call[h].user /\ call[h].item # owner[call[h].project]

CheckUpdater(h) ==
  /\ call[h].stage = "checkUpdater"
  /\ LET p == call[h].project  u == call[h].user
         acts(role) == IsProjectMember(p, u) /\ RoleOf(p, u) = role
     IN \/ MayBeUpdated(h) /\ acts("owner") /\ Goto(h, "ownerUpdates")
        \/ MayBeUpdated(h) /\ acts("admin") /\ Goto(h, "adminUpdates")
        \/ ~(MayBeUpdated(h) /\ (acts("owner") \/ acts("admin"))) /\ Return(h)
  /\ UNCHANGED <<memberVars, calls, faults>>

Below(role) == Level[role] < Level["admin"]

CheckTarget(h) ==
  /\ call[h].stage \in {"ownerUpdates", "adminUpdates"}
  /\ LET p == call[h].project
         allowed == /\ IsProjectMember(p, call[h].item)
                    /\ \/ call[h].stage = "ownerUpdates"
                       \/ Below(RoleOf(p, call[h].item)) /\ Below(call[h].role)
     IN IF allowed THEN Goto(h, "updateRole") ELSE Return(h)
  /\ UNCHANGED <<memberVars, calls, faults>>

UpdateProjectMemberRole(h) ==
  /\ call[h].stage = "updateRole"
  /\ members' = [members EXCEPT ![call[h].project] =
       [i \in DOMAIN @ |-> IF @[i].user = call[h].item THEN [@[i] EXCEPT !.role = call[h].role] ELSE @[i]]]
  /\ Return(h)
  /\ UNCHANGED <<owner, roots, early, calls, faults>>

MemberStep(h) ==
  \/ CreateProject(h) \/ AddProjectMember(h) \/ UpdateProjectMember(h)
  \/ InsertProject(h) \/ AddOwner(h) \/ CreateProjectVirtualRoot(h)
  \/ CheckAdder(h) \/ InsertMember(h)
  \/ CheckUpdater(h) \/ CheckTarget(h) \/ UpdateProjectMemberRole(h)

-----------------------------------------------------------------------------
(* Properties                                                              *)

\* The owner of a project acts as its owner whoever adds members, or the owner
\* once more, or updates roles meanwhile, whatever project admits them
\* (GetProjectMemberRole takes the first of a user's rows, UpdateProjectMemberRole
\* writes all of them).  A project whose owner could not be entered has none, and
\* one case is exempt: the owner, admitted by another project, is entered as a
\* member between the two statements of CreateProjectService.
OwnerKeepsRole ==
  \A p \in Projects \ early :
    (\E i \in DOMAIN members[p] : members[p][i] = [user |-> owner[p], role |-> "owner"])
      => RoleOf(p, owner[p]) = "owner"
=============================================================================
