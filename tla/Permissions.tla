---------------------------- MODULE Permissions ----------------------------
(***************************************************************************)
(* Who may see and change what: owners and members of projects, users of   *)
(* storages, the storages of a project, and the checks the handlers make   *)
(* before they list, read or write (src/api/auth.rs, src/api/projects.rs,  *)
(* src/api/files.rs, src/api/storages.rs, src/api/shared_links.rs,         *)
(* src/api/uploads.rs).                                                    *)
(*                                                                         *)
(* The same rule is written several times, in SQL and in Rust; each place  *)
(* is a definition here. One file, which projects refer to. A write is     *)
(* checked in one step and made in a later one.                            *)
(***************************************************************************)
EXTENDS Integers, FiniteSets

CONSTANTS
    Callers, Admins,    \* accounts, and those whose token says admin
    Spaces, Disks,      \* projects and storages
    Calls,              \* writes under way at the same time
    MaxChanges          \* bound: changes of members, projects and storages

ASSUME PermissionsAssumption ==
    Admins \subseteq Callers /\ IsFiniteSet(Disks) /\ MaxChanges \in Nat

VARIABLES
    ownerOf,    \* projects.owner_id
    removed,    \* the projects with deleted_at
    member,     \* user_projects.role
    keeper,     \* user_storages
    enabled,    \* storages.enabled
    assigned,   \* project_storages.is_active
    copies,     \* file_locations.status of the file
    filed,      \* the projects with a file_reference
    call,       \* the write of each call that has been checked
    sessions,   \* upload_sessions
    topic,      \* what changes in this behaviour: members or storages
    changes

memberVars == <<ownerOf, removed, member>>
diskVars == <<keeper, enabled, assigned>>
writeVars == <<filed, call, sessions>>
permVars == <<memberVars, diskVars, writeVars, copies, topic, changes>>

MemberRoles == {"none", "member", "writer"}
Writes == [what : {"upload", "session", "link", "delete"}, by : Callers, space : Spaces,
           late : BOOLEAN]  \* late, history: the permission was withdrawn meanwhile
NoWrite == [what |-> "none"]

PermissionsTypeOK ==
    /\ ownerOf \in [Spaces -> Callers \cup {"nobody"}]
    /\ removed \subseteq Spaces
    /\ member \in [Callers -> [Spaces -> MemberRoles]]
    /\ keeper \subseteq Callers \X Disks
    /\ enabled \subseteq Disks
    /\ assigned \in [Spaces -> [Disks -> {"none", "active", "inactive"}]]
    /\ copies \in [Disks -> {"none", "pending", "synced", "archived"}]
    /\ filed \subseteq Spaces
    /\ call \in [Calls -> Writes \cup {NoWrite}]
    /\ sessions \subseteq Writes
    /\ topic \in {"members", "storages"}
    /\ changes \in 0 .. MaxChanges

\* A file with copies somewhere, which no project refers to yet.
PermInit ==
    /\ topic \in {"members", "storages"}
    /\ \/ topic = "members" /\ ownerOf = [p \in Spaces |-> "nobody"]
       \/ topic = "storages" /\ ownerOf \in [Spaces -> Callers]
    /\ removed = {} /\ filed = {} /\ sessions = {} /\ keeper = {}
    /\ member = [u \in Callers |-> [p \in Spaces |-> "none"]]
    /\ assigned = [p \in Spaces |-> [d \in Disks |-> "none"]]
    /\ enabled = Disks
    /\ copies \in [Disks -> {"none", "pending", "synced", "archived"}]
    /\ topic = "members" => copies = [d \in Disks |-> "synced"]
    /\ call = [c \in Calls |-> NoWrite]
    /\ changes = 0

-----------------------------------------------------------------------------
(* The checks                                                              *)

IsAdmin(u) == u \in Admins
IsOwner(u, p) == ownerOf[p] = u
RequireOwnerOrAdmin(u, p) == IsAdmin(u) \/ IsOwner(u, p)

FindProject(p) == ownerOf[p] # "nobody" /\ p \notin removed
GetRole(u, p) == member[u][p]
IsMember(u, p) == member[u][p] # "none"

GetProject(u, p) == FindProject(p) /\ (IsAdmin(u) \/ IsOwner(u, p) \/ IsMember(u, p))
CheckProjectAccess(u, p) == FindProject(p) /\ (RequireOwnerOrAdmin(u, p) \/ IsMember(u, p))

RequireProjectWriteAccess(u, p) ==
    FindProject(p) /\ (IsAdmin(u) \/ IsOwner(u, p) \/ GetRole(u, p) = "writer")

\* The copy of it that shared links use.
RequireLinkWriteAccess(u, p) ==
    FindProject(p) /\ (IsAdmin(u) \/ IsOwner(u, p) \/ GetRole(u, p) = "writer")

\* The file has a reference in a project of the caller.
CheckFileAccess(u) ==
    \/ IsAdmin(u)
    \/ \E p \in filed \ removed : ownerOf[p] = u \/ member[u][p] # "none"

\* Mutant of CheckFileWriteAccess: a project that was deleted counts.
CheckFileWriteAccess_Deleted(u) ==
    \/ IsAdmin(u)
    \/ \E p \in filed : ownerOf[p] = u \/ member[u][p] = "writer"

CheckFileWriteAccess(u) ==
    \/ IsAdmin(u)
    \/ \E p \in filed \ removed : ownerOf[p] = u \/ member[u][p] = "writer"

ListAccessible(u) ==
    {p \in Spaces \ removed : ownerOf[p] # "nobody" /\ (ownerOf[p] = u \/ member[u][p] # "none")}
ProjectList == {p \in Spaces : ownerOf[p] # "nobody" /\ p \notin removed}
ListProjects(u) == IF IsAdmin(u) THEN ProjectList ELSE ListAccessible(u)

\* The projects a user is assigned to, for the administration, and the members.
AssignedTo(u) == {p \in Spaces \ removed : member[u][p] # "none"}
ListMembers(p) == {u \in Callers : member[u][p] # "none"}

KeepsDisk(u, d) == <<u, d>> \in keeper
DisksOf(u) == {d \in Disks : <<u, d>> \in keeper}
UsersOfDisk(d) == {u \in Callers : <<u, d>> \in keeper}
ListStorages(u) == IF IsAdmin(u) THEN Disks ELSE DisksOf(u)
GetStorage(u, d) == IsAdmin(u) \/ KeepsDisk(u, d)

\* The assignments of a project, the storages it may still be given, and the
\* ones its files are kept on.
ListAssignments(p) == {d \in Disks : assigned[p][d] # "none"}
ListAvailable(p) == {d \in enabled : assigned[p][d] = "none"}
StoragesOf(p) == {d \in enabled : assigned[p][d] = "active"}

\* enrich_file_references
SyncStatus(p) ==
    LET total == Cardinality(StoragesOf(p))
        synced == Cardinality({d \in StoragesOf(p) : copies[d] = "synced"})
    IN IF total = 0 THEN "no_storage"
       ELSE IF synced >= total THEN "synced"
       ELSE IF synced > 0 THEN "partial" ELSE "pending"

-----------------------------------------------------------------------------
(* Writes: one step checks, a later one writes                             *)

\* Who is meant to write: the rule the checks above spell out.
MayWrite(owners, gone, roles, u, p) ==
    /\ owners[p] # "nobody" /\ p \notin gone
    /\ u \in Admins \/ owners[p] = u \/ roles[u][p] = "writer"
Entitled(u, p) == MayWrite(ownerOf, removed, member, u, p)

Idles(c) == call[c] = NoWrite
Begin(c, what, u, p) ==
    /\ topic = "members" /\ Idles(c)
    /\ call' = [call EXCEPT ![c] = [what |-> what, by |-> u, space |-> p, late |-> FALSE]]
    /\ UNCHANGED <<memberVars, diskVars, filed, sessions, copies, topic, changes>>
Ends(c) == call' = [call EXCEPT ![c] = NoWrite]

\* Mutant of UploadFile: to read the project is enough.
UploadFile_Reader(c, u, p) == CheckProjectAccess(u, p) /\ Begin(c, "upload", u, p)

UploadFile(c, u, p) == RequireProjectWriteAccess(u, p) /\ Begin(c, "upload", u, p)
DeleteFileReference(c, u, p) == RequireProjectWriteAccess(u, p) /\ Begin(c, "delete", u, p)
CreateSession(c, u, p) == RequireProjectWriteAccess(u, p) /\ Begin(c, "session", u, p)
CreateSharedLink(c, u, p) ==
    RequireLinkWriteAccess(u, p) /\ p \in filed /\ Begin(c, "link", u, p)

\* The write itself, whatever has changed since, or its failure. A link changes
\* nothing that is kept here.
Write(c) ==
    LET w == call[c] IN
    /\ ~Idles(c) /\ Ends(c)
    /\ filed' = IF w.what = "upload" THEN filed \cup {w.space}
                ELSE IF w.what = "delete" THEN filed \ {w.space} ELSE filed
    /\ sessions' = IF w.what = "session" THEN sessions \cup {w} ELSE sessions
    /\ UNCHANGED <<memberVars, diskVars, copies, topic, changes>>
WriteFails(c) ==
    /\ ~Idles(c) /\ Ends(c)
    /\ UNCHANGED <<memberVars, diskVars, filed, sessions, copies, topic, changes>>

\* Its creator or an admin goes on with a session: the last chunk makes the
\* reference. The permission is not checked again.
LoadOwnedSession(u, s) == s \in sessions /\ (IsAdmin(u) \/ s.by = u)
FinishSession(u, s) ==
    /\ LoadOwnedSession(u, s)
    /\ filed' = filed \cup {s.space}
    /\ sessions' = sessions \ {s}
    /\ UNCHANGED <<memberVars, diskVars, call, copies, topic, changes>>
TerminateSession(u, s) ==
    /\ LoadOwnedSession(u, s)
    /\ sessions' = sessions \ {s}
    /\ UNCHANGED <<memberVars, diskVars, filed, call, copies, topic, changes>>

-----------------------------------------------------------------------------
(* Changes                                                                 *)

Change(t) == topic = t /\ changes < MaxChanges /\ changes' = changes + 1

\* A change of members or projects, and what it takes from writes under way.
Noted(w) == [w EXCEPT !.late = @ \/ ~MayWrite(ownerOf', removed', member', w.by, w.space)]
ChangeMembers ==
    /\ Change("members")
    /\ call' = [c \in Calls |-> IF Idles(c) THEN NoWrite ELSE Noted(call[c])]
    /\ sessions' = {Noted(s) : s \in sessions}
    /\ UNCHANGED <<diskVars, filed, copies, topic>>

NewProject(u, p) ==
    /\ ownerOf[p] = "nobody"
    /\ ownerOf' = [ownerOf EXCEPT ![p] = u]
    /\ UNCHANGED <<removed, member>> /\ ChangeMembers
RemoveProject(u, p) ==
    /\ FindProject(p) /\ RequireOwnerOrAdmin(u, p)
    /\ removed' = removed \cup {p}
    /\ UNCHANGED <<ownerOf, member>> /\ ChangeMembers

ValidateMemberRole(role) == role \in {"member", "writer"}
AddProjectMember(a, u, p, role) ==
    /\ IsAdmin(a) /\ FindProject(p) /\ ValidateMemberRole(role)
    /\ ~IsMember(u, p)      \* unique
    /\ member' = [member EXCEPT ![u][p] = role]
    /\ UNCHANGED <<ownerOf, removed>> /\ ChangeMembers
\* The row of a member, of a project that was deleted, too.
UpdateRole(u, p, role) == IsMember(u, p) /\ member' = [member EXCEPT ![u][p] = role]
UpdateProjectMember(a, u, p, role) ==
    /\ IsAdmin(a) /\ ValidateMemberRole(role)
    /\ UpdateRole(u, p, role)
    /\ UNCHANGED <<ownerOf, removed>> /\ ChangeMembers
RemoveProjectMember(a, u, p) ==
    /\ IsAdmin(a) /\ IsMember(u, p)
    /\ member' = [member EXCEPT ![u][p] = "none"]
    /\ UNCHANGED <<ownerOf, removed>> /\ ChangeMembers

ChangeDisks == Change("storages") /\ UNCHANGED <<memberVars, writeVars, copies, topic>>

InsertKeeper(u, d) == ~KeepsDisk(u, d) /\ keeper' = keeper \cup {<<u, d>>}  \* unique
AddStorageMember(a, u, d) ==
    /\ IsAdmin(a) /\ InsertKeeper(u, d)
    /\ UNCHANGED <<enabled, assigned>> /\ ChangeDisks
DeleteKeeper(u, d) == KeepsDisk(u, d) /\ keeper' = keeper \ {<<u, d>>}
RemoveStorageMember(a, u, d) ==
    /\ IsAdmin(a) /\ DeleteKeeper(u, d)
    /\ UNCHANGED <<enabled, assigned>> /\ ChangeDisks
UpdateEnabled(a, d) ==
    /\ IsAdmin(a)
    /\ enabled' = enabled \ {d}
    /\ UNCHANGED <<keeper, assigned>> /\ ChangeDisks
\* The storage need not be enabled; an assignment starts active.
InsertAssignment(p, d) ==
    assigned[p][d] = "none" /\ assigned' = [assigned EXCEPT ![p][d] = "active"]
AssignStorage(u, p, d) ==
    /\ FindProject(p) /\ RequireOwnerOrAdmin(u, p)
    /\ InsertAssignment(p, d)
    /\ UNCHANGED <<keeper, enabled>> /\ ChangeDisks
UpdateProjectStorage(u, p, d, to) ==
    /\ FindProject(p) /\ RequireOwnerOrAdmin(u, p) /\ assigned[p][d] # "none"
    /\ assigned' = [assigned EXCEPT ![p][d] = to]
    /\ UNCHANGED <<keeper, enabled>> /\ ChangeDisks
RemoveStorageAssignment(u, p, d) ==
    /\ FindProject(p) /\ RequireOwnerOrAdmin(u, p) /\ assigned[p][d] # "none"
    /\ assigned' = [assigned EXCEPT ![p][d] = "none"]
    /\ UNCHANGED <<keeper, enabled>> /\ ChangeDisks

-----------------------------------------------------------------------------
WriteStep(u) ==
    \/ \E c \in Calls, p \in Spaces :
         \/ UploadFile(c, u, p) \/ CreateSession(c, u, p)
         \/ CreateSharedLink(c, u, p) \/ DeleteFileReference(c, u, p)
    \/ \E s \in sessions : FinishSession(u, s) \/ TerminateSession(u, s)

ProjectStep(u) ==
    \E p \in Spaces :
      \/ NewProject(u, p) \/ RemoveProject(u, p)
      \/ \E v \in Callers : \/ RemoveProjectMember(u, v, p)
                            \/ \E role \in {"member", "writer", "owner"} :
                                 \/ AddProjectMember(u, v, p, role)
                                 \/ UpdateProjectMember(u, v, p, role)

DiskStep(u) ==
    \E d \in Disks :
      \/ UpdateEnabled(u, d)
      \/ \E v \in Callers : AddStorageMember(u, v, d) \/ RemoveStorageMember(u, v, d)
      \/ \E p \in Spaces : \/ AssignStorage(u, p, d) \/ RemoveStorageAssignment(u, p, d)
                           \/ \E to \in {"active", "inactive"} : UpdateProjectStorage(u, p, d, to)

PermNext ==
    \/ \E u \in Callers : WriteStep(u) \/ ProjectStep(u) \/ DiskStep(u)
    \/ \E c \in Calls : Write(c) \/ WriteFails(c)

PermSpec == PermInit /\ [][PermNext]_permVars

-----------------------------------------------------------------------------
\* A list shows a caller exactly what the caller may open: projects, the file
\* of one of them, storages. A project's storages are assigned or available,
\* never both, and nobody is shown a file of a project that was deleted
\* (list_projects, get_project, check_project_access, check_file_access,
\* list_storages, get_storage, list_available_storages).
ListsAgree ==
    /\ \A u \in Callers :
         /\ ListProjects(u) = {p \in Spaces : GetProject(u, p)}
         /\ \A p \in Spaces : CheckProjectAccess(u, p) = GetProject(u, p)
         /\ CheckFileAccess(u) <=> IsAdmin(u) \/ ListProjects(u) \cap filed # {}
         /\ AssignedTo(u) = {p \in Spaces \ removed : u \in ListMembers(p)}
         /\ ListStorages(u) = {d \in Disks : GetStorage(u, d)}
         /\ \A d \in DisksOf(u) : u \in UsersOfDisk(d)
    /\ \A p \in Spaces :
         /\ ListAvailable(p) \cap ListAssignments(p) = {}
         /\ enabled \subseteq ListAvailable(p) \cup ListAssignments(p)
         /\ StoragesOf(p) \subseteq ListAssignments(p)

\* Who may write a project may read it and share from it; who may write the
\* file by its id may read it so, and may write a project that refers to it
\* (require_project_write_access in two places, check_file_write_access).
WriteIsRead ==
    \A u \in Callers :
       /\ \A p \in Spaces : /\ RequireProjectWriteAccess(u, p) => GetProject(u, p)
                            /\ RequireLinkWriteAccess(u, p) = RequireProjectWriteAccess(u, p)
       /\ CheckFileWriteAccess(u) => CheckFileAccess(u)
       /\ CheckFileWriteAccess(u) <=>
            IsAdmin(u) \/ \E p \in filed : RequireProjectWriteAccess(u, p)

\* Every write under way, upload sessions too, is one its caller was entitled
\* to when it was checked: only a change of the members or the deletion of the
\* project while it ran makes it the write of a stranger.
WritesEntitled ==
    /\ \A c \in Calls : ~Idles(c) => call[c].late \/ Entitled(call[c].by, call[c].space)
    /\ \A s \in sessions : s.late \/ Entitled(s.by, s.space)

\* A file that a project shows as synced has a synced copy on every storage the
\* project uses, and there is one; one shown as pending has none
\* (enrich_file_references).
StatusHonest ==
    \A p \in Spaces :
       LET status == SyncStatus(p)
           good(d) == assigned[p][d] = "active" /\ d \in enabled /\ copies[d] = "synced"
       IN /\ status = "synced" => /\ \E d \in Disks : good(d)
                                  /\ \A d \in enabled : assigned[p][d] = "active" => good(d)
          /\ status \in {"pending", "no_storage"} => ~\E d \in Disks : good(d)
          /\ status = "partial" => \E d \in Disks : good(d)

\* The checks of the handlers, the lists and the status they show agree with one
\* another, whatever members, projects, storages and assignments became.
ChecksAgree == ListsAgree /\ WriteIsRead /\ StatusHonest
=============================================================================
