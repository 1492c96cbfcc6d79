--------------------------- MODULE SpaceMembership ---------------------------
(***************************************************************************)
(* Members of workspaces: their roles, the profiles of users, the          *)
(* subscriptions to workspaces on request, the deletion of workspaces.  A  *)
(* request reads the database and evaluates the guards of its handler      *)
(* (authorization included), then writes and commits; what commits between *)
(* is not seen, only the primary keys of the tables are checked again.     *)
(* The limits on the number of users of the instance are left out.         *)
(***************************************************************************)
EXTENDS Naturals, FiniteSets

CONSTANTS
    Session,            \* concurrent requests
    User,
    Workspace,
    OpenSpace,          \* workspaces of access type OPEN
    OnRequestSpace,     \* workspaces of access type ON_REQUEST
    RoleLevel,          \* role levels in use
    Profile,            \* profile ids in use
    DefaultRole,        \* default_user_role of the workspaces
    MaxGuestSpaces,     \* LIMITATION__MAX_GUEST_USER_SPACE_NB
    Operation,          \* the handlers that may be called
    None

Reader == 1
Contributor == 2
ContentManager == 4
WorkspaceManager == 8

GuestProfile == 1
UserProfile == 2
TrustedProfile == 3
AdminProfile == 4

AllOperations ==
    {"add_member", "join", "submit", "resubmit", "accept", "reject", "update_role",
     "remove_member", "set_profile", "delete_space", "undelete_space"}

SubscriptionState == {"pending", "accepted", "rejected"}

ASSUME RoleAssumption ==
    /\ RoleLevel \subseteq {Reader, Contributor, ContentManager, WorkspaceManager}
    /\ DefaultRole \in RoleLevel
    /\ WorkspaceManager \in RoleLevel
ASSUME ProfileAssumption ==
    Profile \subseteq {GuestProfile, UserProfile, TrustedProfile, AdminProfile}
ASSUME SpaceAssumption == OpenSpace \cup OnRequestSpace \subseteq Workspace
ASSUME NoneAssumption ==
    None \notin RoleLevel /\ None \notin SubscriptionState /\ None \notin Profile

VARIABLES
    role,           \* user_workspace.role of each user and workspace, None without a row
    profile,        \* users.profile
    deleted,        \* workspaces.is_deleted
    subscription,   \* workspace_subscriptions.state, None without a row
    write           \* what each session is about to write, None when it has no request

vars == <<role, profile, deleted, subscription, write>>

\* Workspaces as create_workspace leaves them: the owner is their only member, a manager.
Init ==
    /\ profile \in [User -> Profile]
    /\ \E u \in User : profile[u] = AdminProfile
    /\ \E owner \in [Workspace -> User] :
          /\ \A w \in Workspace : profile[owner[w]] # GuestProfile
          /\ role = [u \in User |-> [w \in Workspace |->
                        IF owner[w] = u THEN WorkspaceManager ELSE None]]
    /\ deleted = [w \in Workspace |-> FALSE]
    /\ subscription = [u \in User |-> [w \in Workspace |-> None]]
    /\ write = [s \in Session |-> None]
-----------------------------------------------------------------------------
IsMember(u, w) == role[u][w] # None

\* get_user_role compared with the level of a manager.
IsManager(u, w) == role[u][w] = WorkspaceManager

IsAdministrator(u) == profile[u] = AdminProfile

CanModifyWorkspace(actor, w) ==
    IsAdministrator(actor) \/ (IsManager(actor, w) /\ profile[actor] >= UserProfile)

CanDeleteWorkspace(actor, w) ==
    IsAdministrator(actor) \/ (IsManager(actor, w) /\ profile[actor] >= TrustedProfile)

CanLeaveWorkspace(actor, u, w) == actor = u \/ CanModifyWorkspace(actor, w)

SpacesOf(u) == {w \in Workspace : IsMember(u, w)}

\* get_user_workspaces_ids does not count the deleted workspaces.
ActiveSpacesOf(u) == {w \in SpacesOf(u) : ~ deleted[w]}

\* Mutants: every member counts as another manager; the guest limit is off by one.
NeverLastWorkspaceManager(u, w) == FALSE
HasRoomForOneMore(u) == Cardinality(ActiveSpacesOf(u)) <= MaxGuestSpaces

\* _is_last_workspace_manager: disabled and deleted users count as managers too.
IsLastWorkspaceManager(u, w) ==
    IsManager(u, w) /\ \A v \in User \ {u} : ~ IsManager(v, w)

HasRoom(u) == Cardinality(ActiveSpacesOf(u)) < MaxGuestSpaces

\* create_one
MayGetRole(u, w, level) ==
    /\ ~ IsMember(u, w)
    /\ profile[u] = GuestProfile => level <= Contributor /\ HasRoom(u)

\* Mutant: the roles of the future guest are not looked at.
MayBeGuestWithAnyRole(u) == Cardinality(SpacesOf(u)) <= MaxGuestSpaces

\* _check_if_allowed_as_guest
MayBeGuest(u) ==
    /\ Cardinality(SpacesOf(u)) <= MaxGuestSpaces
    /\ \A w \in SpacesOf(u) : role[u][w] <= Contributor

Idle(s) == write[s] = None

Plan(s, op, u, w, value) ==
    /\ Idle(s)
    /\ op \in Operation
    /\ write' = [write EXCEPT ![s] = [op |-> op, user |-> u, workspace |-> w, value |-> value]]
    /\ UNCHANGED <<role, profile, deleted, subscription>>
-----------------------------------------------------------------------------
(***************************************************************************)
(* The first half of the handlers: the guards.                             *)
(***************************************************************************)
CreateWorkspacesMembersRole(s, actor, u, w, level) ==
    /\ CanModifyWorkspace(actor, w)
    /\ MayGetRole(u, w, level)
    /\ Plan(s, "add_member", u, w, level)

JoinWorkspace(s, u, w) ==
    /\ w \in OpenSpace
    /\ ~ deleted[w]
    /\ MayGetRole(u, w, DefaultRole)
    /\ Plan(s, "join", u, w, DefaultRole)

\* A new row, or the one get_one has found, answered or not.
SubmitSubscription(s, u, w) ==
    /\ w \in OnRequestSpace
    /\ ~ deleted[w]
    /\ Plan(s, IF subscription[u][w] = None THEN "submit" ELSE "resubmit", u, w, None)

AcceptSubscription(s, actor, u, w, level) ==
    /\ CanModifyWorkspace(actor, w)
    /\ subscription[u][w] # None
    /\ MayGetRole(u, w, level)
    /\ Plan(s, "accept", u, w, level)

RejectSubscription(s, actor, u, w) ==
    /\ CanModifyWorkspace(actor, w)
    /\ subscription[u][w] # None
    /\ Plan(s, "reject", u, w, None)

UpdateWorkspacesMembersRole(s, actor, u, w, level) ==
    /\ CanModifyWorkspace(actor, w)
    /\ IsMember(u, w)
    /\ level > Contributor => profile[u] # GuestProfile
    /\ ~ IsLastWorkspaceManager(u, w)
    /\ Plan(s, "update_role", u, w, level)

DeleteWorkspacesMembersRole(s, actor, u, w) ==
    /\ CanLeaveWorkspace(actor, u, w)
    /\ IsMember(u, w)
    /\ ~ IsLastWorkspaceManager(u, w)
    /\ Plan(s, "remove_member", u, w, None)

SetProfile(s, actor, u, p) ==
    /\ IsAdministrator(actor)
    /\ actor # u
    /\ p = GuestProfile /\ profile[u] # GuestProfile => MayBeGuest(u)
    /\ Plan(s, "set_profile", u, None, p)

DeleteWorkspace(s, actor, w) ==
    /\ CanDeleteWorkspace(actor, w)
    /\ Plan(s, "delete_space", None, w, None)

UndeleteWorkspace(s, actor, w) ==
    /\ CanDeleteWorkspace(actor, w)
    /\ Plan(s, "undelete_space", None, w, None)

Check(s, actor) ==
    \/ \E p \in Profile, u \in User : SetProfile(s, actor, u, p)
    \/ \E w \in Workspace :
          \/ JoinWorkspace(s, actor, w)
          \/ SubmitSubscription(s, actor, w)
          \/ DeleteWorkspace(s, actor, w)
          \/ UndeleteWorkspace(s, actor, w)
          \/ \E u \in User :
                \/ RejectSubscription(s, actor, u, w)
                \/ DeleteWorkspacesMembersRole(s, actor, u, w)
                \/ \E level \in RoleLevel :
                      \/ CreateWorkspacesMembersRole(s, actor, u, w, level)
                      \/ AcceptSubscription(s, actor, u, w, level)
                      \/ UpdateWorkspacesMembersRole(s, actor, u, w, level)
-----------------------------------------------------------------------------
(***************************************************************************)
(* The second half: the statements of the flush and the commit.            *)
(***************************************************************************)
Done(s) == write' = [write EXCEPT ![s] = None]

\* Duplicate primary key: the INSERT fails and the transaction with it.
CommitNewRole(s) ==
    LET t == write[s] IN
    /\ t.op \in {"add_member", "join", "accept"}
    /\ ~ IsMember(t.user, t.workspace)
    /\ role' = [role EXCEPT ![t.user][t.workspace] = t.value]
    /\ subscription' = IF t.op = "accept"
                       THEN [subscription EXCEPT ![t.user][t.workspace] = "accepted"]
                       ELSE subscription
    /\ Done(s)
    /\ UNCHANGED <<profile, deleted>>

\* An UPDATE that finds no row raises StaleDataError.
CommitRoleUpdate(s) ==
    LET t == write[s] IN
    /\ t.op = "update_role"
    /\ IsMember(t.user, t.workspace)
    /\ role' = [role EXCEPT ![t.user][t.workspace] = t.value]
    /\ Done(s)
    /\ UNCHANGED <<profile, deleted, subscription>>

\* Mutant: the row is kept with the level of no role.
CommitRoleRemovalAsLevel(s) ==
    LET t == write[s] IN
    /\ t.op = "remove_member"
    /\ role' = [role EXCEPT ![t.user][t.workspace] = 0]
    /\ Done(s)
    /\ UNCHANGED <<profile, deleted, subscription>>

\* A DELETE that finds no row is only warned of.
CommitRoleRemoval(s) ==
    LET t == write[s] IN
    /\ t.op = "remove_member"
    /\ role' = [role EXCEPT ![t.user][t.workspace] = None]
    /\ Done(s)
    /\ UNCHANGED <<profile, deleted, subscription>>

CommitSubscription(s) ==
    LET t == write[s] IN
    /\ t.op \in {"submit", "resubmit", "reject"}
    /\ t.op = "submit" => subscription[t.user][t.workspace] = None
    /\ subscription' = [subscription EXCEPT ![t.user][t.workspace] =
                            IF t.op = "reject" THEN "rejected" ELSE "pending"]
    /\ Done(s)
    /\ UNCHANGED <<role, profile, deleted>>

CommitProfile(s) ==
    /\ write[s].op = "set_profile"
    /\ profile' = [profile EXCEPT ![write[s].user] = write[s].value]
    /\ Done(s)
    /\ UNCHANGED <<role, deleted, subscription>>

CommitDeletion(s) ==
    /\ write[s].op \in {"delete_space", "undelete_space"}
    /\ deleted' = [deleted EXCEPT ![write[s].workspace] = (write[s].op = "delete_space")]
    /\ Done(s)
    /\ UNCHANGED <<role, profile, subscription>>

Commit(s) ==
    /\ ~ Idle(s)
    /\ \/ CommitNewRole(s)
       \/ CommitRoleUpdate(s)
       \/ CommitRoleRemoval(s)
       \/ CommitSubscription(s)
       \/ CommitProfile(s)
       \/ CommitDeletion(s)

\* A failed statement, an exception, a killed process.
Abort(s) ==
    /\ ~ Idle(s)
    /\ Done(s)
    /\ UNCHANGED <<role, profile, deleted, subscription>>

Next ==
    \E s \in Session :
       \/ \E actor \in User : Check(s, actor)
       \/ Commit(s)
       \/ Abort(s)

Spec == Init /\ [][Next]_vars
-----------------------------------------------------------------------------
Planned ==
    [op : AllOperations, user : User \cup {None}, workspace : Workspace \cup {None},
     value : RoleLevel \cup Profile \cup {None}]

(***************************************************************************)
(* The columns hold a role level, a profile, a state or nothing.           *)
(***************************************************************************)
TypeOK ==
    /\ role \in [User -> [Workspace -> RoleLevel \cup {None}]]
    /\ profile \in [User -> Profile]
    /\ deleted \in [Workspace -> BOOLEAN]
    /\ subscription \in [User -> [Workspace -> SubscriptionState \cup {None}]]
    /\ write \in [Session -> Planned \cup {None}]

(***************************************************************************)
(* Every workspace keeps a manager, whoever leaves, is removed or changes  *)
(* role (LastWorkspaceManagerRoleCantBeModified), deleted ones included.   *)
(***************************************************************************)
SpaceHasManager == \A w \in Workspace : \E u \in User : IsManager(u, w)

(***************************************************************************)
(* "Guest users aren't allowed to be more than contributor" (create_one),  *)
(* through invitations, subscriptions, changes of role and of profile.     *)
(***************************************************************************)
GuestsAreContributors ==
    \A u \in User, w \in Workspace :
       profile[u] = GuestProfile /\ IsMember(u, w) => role[u][w] <= Contributor

(***************************************************************************)
(* "The user has reached N workspace subscriptions (this is the max        *)
(* subscription nb for guest users)" (create_one): whoever is given a role *)
(* as a guest, or becomes a guest with the roles they have, is within the  *)
(* limit, though one check counts the deleted workspaces and the other     *)
(* does not.  Restoring a workspace is no such step: it checks nothing.    *)
(***************************************************************************)
GainsAccess(u) ==
    \/ profile[u] # GuestProfile
    \/ \E w \in Workspace : ~ IsMember(u, w) /\ IsMember(u, w)'

GuestSpacesAreLimited ==
    [][\A u \in User :
          profile'[u] = GuestProfile /\ GainsAccess(u)
             => Cardinality(ActiveSpacesOf(u)') <= MaxGuestSpaces]_vars
=============================================================================
