--------------------------- MODULE MCFolderEdits ---------------------------
(* Instances of FolderEdits for TLC.                                       *)
EXTENDS FolderEdits, TLC

CONSTANTS u1, u2, p1, p2

Symmetry == Permutations(Handlers)

Owners == p1 :> u1 @@ p2 :> None
Members == p1 :> <<[user |-> u1, role |-> "owner"], [user |-> u2, role |-> "member"]>> @@ p2 :> <<>>

\* Folder 2 in folder 1, folder 3 beside it.
Homes == [f \in FolderIds |-> IF f \in {1, 2, 3} THEN p1 ELSE None]
Tree == {[parent |-> RootRef(p1), child |-> FolderItem(1)], [parent |-> FolderItem(1), child |-> FolderItem(2)],
         [parent |-> RootRef(p1), child |-> FolderItem(3)]}
Registered == [x \in FileIds |-> IF x = CHOOSE y \in FileIds : \A z \in FileIds : y <= z THEN u2 ELSE None]

OfOwner(op, item, parent) == Template(op, u1, p1, p1, item, parent, None)
OfMember(op, x, f) == Template(op, u2, p1, p1, FileItem(x), FolderItem(f), None)

FolderMenu ==
  {OfOwner("createFolder", None, None), OfOwner("createFolder", None, FolderItem(3)),
   OfOwner("renameFolder", FolderItem(3), None), OfOwner("deleteFolder", FolderItem(3), None),
   OfOwner("deleteFolder", FolderItem(1), None),
   OfOwner("moveFolder", FolderItem(2), FolderItem(3)), OfOwner("moveFolder", FolderItem(2), FolderItem(1)),
   OfOwner("moveFolder", FolderItem(2), RootRef(p1)), OfOwner("moveFolder", FolderItem(4), RootRef(p1)),
   OfOwner("call", FolderItem(2), FolderItem(3))}

FileMenu ==
  LET x == CHOOSE y \in FileIds : \A z \in FileIds : y <= z IN
  {Template("login", u2, p1, p1, None, None, None), OfMember("mountFile", x, 1), OfMember("unmountFile", x, 1),
   OfMember("logout", x, 1), OfOwner("renameFile", FileItem(x), None)}

\* The last three are admitted by another project than the one they act on.
MemberMenu ==
  {Template("createProject", u2, None, None, None, None, None),
   Template("addMember", u2, p1, p1, u1, None, "viewer"), Template("addMember", u1, p1, p1, u1, None, "admin"),
   Template("addMember", u2, p2, p2, u1, None, "admin"), Template("addMember", u1, p2, p2, u2, None, "viewer"),
   Template("updateMember", u1, p1, p1, u2, None, "admin"), Template("updateMember", u2, p1, p1, u1, None, "member"),
   Template("addMember", u2, p1, p2, u2, None, "viewer"), Template("updateMember", u1, p1, p2, u2, None, "ban"),
   Template("moveFolder", u2, p2, p1, FolderItem(2), RootRef(p1), None)}

Everything == FolderMenu \cup FileMenu \cup MemberMenu
=============================================================================
