----------------------- MODULE SpaceMembershipProofs -----------------------
(***************************************************************************)
(* Proofs about SpaceMembership: the types, and what the checks of the     *)
(* handlers guarantee when no request runs beside another.                 *)
(***************************************************************************)
EXTENDS SpaceMembership, FiniteSetTheorems, TLAPS

GivesRole == {"add_member", "join", "accept"}

(* What is about to be written has the type of its column.                 *)
PlansAreTyped ==
    \A s \in Session : write[s] # None =>
        /\ write[s].op \in GivesRole \cup {"update_role"} => write[s].value \in RoleLevel
        /\ write[s].op = "set_profile" => write[s].value \in Profile

TypeInv == TypeOK /\ PlansAreTyped

LEMMA InitType == Init => TypeInv
BY RoleAssumption, ProfileAssumption DEF Init, TypeInv, TypeOK, PlansAreTyped

(* A plan: the state of the other sessions is left alone.                  *)
LEMMA PlanKeepsType ==
    ASSUME TypeInv, NEW s \in Session, NEW op \in AllOperations,
           NEW u \in User \cup {None}, NEW w \in Workspace \cup {None},
           NEW value \in RoleLevel \cup Profile \cup {None},
           Plan(s, op, u, w, value),
           op \in GivesRole \cup {"update_role"} => value \in RoleLevel,
           op = "set_profile" => value \in Profile
    PROVE  TypeInv'
<1> DEFINE plan == [op |-> op, user |-> u, workspace |-> w, value |-> value]
<1>1. plan \in Planned
      BY DEF Planned
<1>2. /\ write' = [write EXCEPT ![s] = plan]
      /\ UNCHANGED <<role, profile, deleted, subscription>>
      BY DEF Plan
<1>3. plan.op = op /\ plan.value = value
      OBVIOUS
<1> HIDE DEF plan
<1>4. TypeOK'
      BY <1>1, <1>2 DEF TypeInv, TypeOK
<1>5. PlansAreTyped'
      BY <1>2, <1>3 DEF TypeInv, TypeOK, PlansAreTyped
<1>6. QED BY <1>4, <1>5 DEF TypeInv

LEMMA CheckKeepsType ==
    ASSUME TypeInv, NEW s \in Session, NEW actor \in User, Check(s, actor)
    PROVE  TypeInv'
<1>1. ASSUME NEW p \in Profile, NEW u \in User, SetProfile(s, actor, u, p)
      PROVE  TypeInv'
      BY <1>1, PlanKeepsType DEF SetProfile, AllOperations, GivesRole
<1>2. ASSUME NEW w \in Workspace,
             \/ JoinWorkspace(s, actor, w)
             \/ SubmitSubscription(s, actor, w)
             \/ DeleteWorkspace(s, actor, w)
             \/ UndeleteWorkspace(s, actor, w)
      PROVE  TypeInv'
      <2>1. CASE JoinWorkspace(s, actor, w)
            BY <2>1, PlanKeepsType, RoleAssumption DEF JoinWorkspace, AllOperations, GivesRole
      <2>2. CASE SubmitSubscription(s, actor, w)
            BY <2>2, PlanKeepsType DEF SubmitSubscription, AllOperations, GivesRole
      <2>3. CASE DeleteWorkspace(s, actor, w)
            BY <2>3, PlanKeepsType DEF DeleteWorkspace, AllOperations, GivesRole
      <2>4. CASE UndeleteWorkspace(s, actor, w)
            BY <2>4, PlanKeepsType DEF UndeleteWorkspace, AllOperations, GivesRole
      <2>5. QED BY <1>2, <2>1, <2>2, <2>3, <2>4
<1>3. ASSUME NEW w \in Workspace, NEW u \in User,
             RejectSubscription(s, actor, u, w) \/ DeleteWorkspacesMembersRole(s, actor, u, w)
      PROVE  TypeInv'
      BY <1>3, PlanKeepsType
         DEF RejectSubscription, DeleteWorkspacesMembersRole, AllOperations, GivesRole
<1>4. ASSUME NEW w \in Workspace, NEW u \in User, NEW level \in RoleLevel,
             \/ CreateWorkspacesMembersRole(s, actor, u, w, level)
             \/ AcceptSubscription(s, actor, u, w, level)
             \/ UpdateWorkspacesMembersRole(s, actor, u, w, level)
      PROVE  TypeInv'
      BY <1>4, PlanKeepsType
         DEF CreateWorkspacesMembersRole, AcceptSubscription, UpdateWorkspacesMembersRole,
             AllOperations, GivesRole
<1>5. QED BY <1>1, <1>2, <1>3, <1>4 DEF Check

LEMMA CommitKeepsType ==
    ASSUME TypeInv, NEW s \in Session, Commit(s) \/ Abort(s)
    PROVE  TypeInv'
<1> DEFINE t == write[s]
<1>1. /\ t # None /\ Done(s) /\ t \in Planned
      /\ t.op \in GivesRole \cup {"update_role"} => t.value \in RoleLevel
      /\ t.op = "set_profile" => t.value \in Profile
      BY DEF Commit, CommitNewRole, CommitRoleUpdate, CommitRoleRemoval, CommitSubscription,
             CommitProfile, CommitDeletion, Abort, Idle, TypeInv, TypeOK, PlansAreTyped
<1>2. PlansAreTyped' /\ write' \in [Session -> Planned \cup {None}]
      BY <1>1 DEF Done, TypeInv, TypeOK, PlansAreTyped
<1>3. CASE CommitNewRole(s)
      BY <1>1, <1>2, <1>3 DEF CommitNewRole, TypeInv, TypeOK, GivesRole, SubscriptionState
<1>4. CASE CommitRoleUpdate(s)
      BY <1>1, <1>2, <1>4 DEF CommitRoleUpdate, TypeInv, TypeOK, GivesRole
<1>5. CASE CommitRoleRemoval(s)
      BY <1>1, <1>2, <1>5 DEF CommitRoleRemoval, TypeInv, TypeOK
<1>6. CASE CommitSubscription(s)
      BY <1>1, <1>2, <1>6 DEF CommitSubscription, TypeInv, TypeOK, SubscriptionState
<1>7. CASE CommitProfile(s)
      BY <1>1, <1>2, <1>7 DEF CommitProfile, TypeInv, TypeOK
<1>8. CASE CommitDeletion(s)
      BY <1>1, <1>2, <1>8 DEF CommitDeletion, TypeInv, TypeOK
<1>9. CASE Abort(s)
      BY <1>1, <1>2, <1>9 DEF Abort, TypeInv, TypeOK
<1>10. QED BY <1>3, <1>4, <1>5, <1>6, <1>7, <1>8, <1>9 DEF Commit

LEMMA TypeStep == TypeInv /\ [Next]_vars => TypeInv'
<1> SUFFICES ASSUME TypeInv, [Next]_vars PROVE TypeInv'
    OBVIOUS
<1>1. CASE Next
      BY <1>1, CheckKeepsType, CommitKeepsType DEF Next
<1>2. CASE UNCHANGED vars
      BY <1>2 DEF vars, TypeInv, TypeOK, PlansAreTyped
<1>3. QED BY <1>1, <1>2

(* The columns hold a role level, a profile, a state or nothing, with any  *)
(* number of requests at once.                                             *)
THEOREM TypeCorrect == Spec => []TypeOK
<1>1. TypeInv => TypeOK
      BY DEF TypeInv
<1>2. QED BY <1>1, InitType, TypeStep, PTL DEF Spec

-----------------------------------------------------------------------------
(* What the guards of a handler have established is still so when it       *)
(* commits, if no other request has committed meanwhile.                   *)
PlansAreSafe ==
    \A s \in Session : write[s] # None =>
        LET t == write[s] IN
        /\ t.op \in {"update_role", "remove_member"} =>
              /\ t.user \in User /\ t.workspace \in Workspace
              /\ ~IsLastWorkspaceManager(t.user, t.workspace)
        /\ t.op \in GivesRole \cup {"update_role"} =>
              t.user \in User /\ (profile[t.user] = GuestProfile => t.value <= Contributor)
        /\ t.op = "set_profile" =>
              /\ t.user \in User
              /\ t.value = GuestProfile /\ profile[t.user] # GuestProfile =>
                    \A w \in SpacesOf(t.user) : role[t.user][w] <= Contributor

Inv == TypeInv /\ PlansAreSafe /\ SpaceHasManager /\ GuestsAreContributors

LEMMA InitInv == Init => Inv
<1> SUFFICES ASSUME Init PROVE Inv
    OBVIOUS
<1>1. PICK owner \in [Workspace -> User] :
        /\ \A w \in Workspace : profile[owner[w]] # GuestProfile
        /\ role = [u \in User |-> [w \in Workspace |-> IF owner[w] = u THEN WorkspaceManager ELSE None]]
      BY DEF Init
<1>2. SpaceHasManager
      BY <1>1 DEF SpaceHasManager, IsManager
<1>3. GuestsAreContributors
      BY <1>1 DEF GuestsAreContributors, IsMember
<1>4. PlansAreSafe
      BY DEF Init, PlansAreSafe
<1>5. QED BY <1>2, <1>3, <1>4, InitType DEF Inv
(* Requests are served one after the other.                                *)
Alone == \A s, t \in Session : s = t

LEMMA PlanIsSafe ==
    ASSUME Inv, Alone, NEW s \in Session, NEW op, NEW u, NEW w, NEW value, Plan(s, op, u, w, value),
           op \in {"update_role", "remove_member"} =>
              u \in User /\ w \in Workspace /\ ~IsLastWorkspaceManager(u, w),
           op \in GivesRole \cup {"update_role"} =>
              u \in User /\ (profile[u] = GuestProfile => value <= Contributor),
           op = "set_profile" =>
              /\ u \in User
              /\ value = GuestProfile /\ profile[u] # GuestProfile =>
                    \A v \in SpacesOf(u) : role[u][v] <= Contributor
    PROVE  PlansAreSafe' /\ SpaceHasManager' /\ GuestsAreContributors'
<1> DEFINE plan == [op |-> op, user |-> u, workspace |-> w, value |-> value]
<1>1. /\ write' = [write EXCEPT ![s] = plan]
      /\ UNCHANGED <<role, profile, deleted, subscription>>
      BY DEF Plan
<1>2. /\ plan.op = op /\ plan.user = u /\ plan.workspace = w /\ plan.value = value
      OBVIOUS
<1> HIDE DEF plan
<1>3. \A t \in Session : write'[t] = plan
      BY <1>1 DEF Inv, TypeInv, TypeOK, Alone
<1>4. PlansAreSafe'
      BY <1>1, <1>2, <1>3
         DEF PlansAreSafe, IsLastWorkspaceManager, IsManager, SpacesOf, IsMember
<1>5. SpaceHasManager' /\ GuestsAreContributors'
      BY <1>1 DEF Inv, SpaceHasManager, GuestsAreContributors, IsManager, IsMember
<1>6. QED BY <1>4, <1>5

LEMMA CheckIsSafe ==
    ASSUME Inv, Alone, NEW s \in Session, NEW actor \in User, Check(s, actor)
    PROVE  PlansAreSafe' /\ SpaceHasManager' /\ GuestsAreContributors'
<1> DEFINE Goal == PlansAreSafe' /\ SpaceHasManager' /\ GuestsAreContributors'
<1>1. ASSUME NEW p \in Profile, NEW u \in User, SetProfile(s, actor, u, p)
      PROVE  Goal
      <2>1. /\ Plan(s, "set_profile", u, None, p)
            /\ p = GuestProfile /\ profile[u] # GuestProfile =>
                  \A v \in SpacesOf(u) : role[u][v] <= Contributor
            BY <1>1 DEF SetProfile, MayBeGuest
      <2>2. QED BY <2>1, PlanIsSafe DEF GivesRole
<1>2. ASSUME NEW w \in Workspace, JoinWorkspace(s, actor, w)
      PROVE  Goal
      <2>1. /\ Plan(s, "join", actor, w, DefaultRole)
            /\ profile[actor] = GuestProfile => DefaultRole <= Contributor
            BY <1>2 DEF JoinWorkspace, MayGetRole
      <2>2. QED BY <2>1, PlanIsSafe
<1>3. ASSUME NEW w \in Workspace,
             \/ SubmitSubscription(s, actor, w)
             \/ DeleteWorkspace(s, actor, w)
             \/ UndeleteWorkspace(s, actor, w)
             \/ \E u \in User : RejectSubscription(s, actor, u, w)
      PROVE  Goal
      <2>1. PICK op \in {"submit", "resubmit", "delete_space", "undelete_space", "reject"},
                 u \in User \cup {None} : Plan(s, op, u, w, None)
            BY <1>3 DEF SubmitSubscription, DeleteWorkspace, UndeleteWorkspace, RejectSubscription
      <2>2. QED BY <2>1, PlanIsSafe DEF GivesRole
<1>4. ASSUME NEW w \in Workspace, NEW u \in User, DeleteWorkspacesMembersRole(s, actor, u, w)
      PROVE  Goal
      BY <1>4, PlanIsSafe DEF DeleteWorkspacesMembersRole, GivesRole
<1>5. ASSUME NEW w \in Workspace, NEW u \in User, NEW level \in RoleLevel,
             \/ CreateWorkspacesMembersRole(s, actor, u, w, level)
             \/ AcceptSubscription(s, actor, u, w, level)
      PROVE  Goal
      <2>1. PICK op \in {"add_member", "accept"} : Plan(s, op, u, w, level)
            BY <1>5 DEF CreateWorkspacesMembersRole, AcceptSubscription
      <2>2. profile[u] = GuestProfile => level <= Contributor
            BY <1>5 DEF CreateWorkspacesMembersRole, AcceptSubscription, MayGetRole
      <2>3. QED BY <2>1, <2>2, PlanIsSafe
<1>6. ASSUME NEW w \in Workspace, NEW u \in User, NEW level \in RoleLevel,
             UpdateWorkspacesMembersRole(s, actor, u, w, level)
      PROVE  Goal
      <2>1. level <= Contributor \/ level > Contributor
            BY RoleAssumption DEF Reader, Contributor, ContentManager, WorkspaceManager
      <2>2. /\ Plan(s, "update_role", u, w, level) /\ ~IsLastWorkspaceManager(u, w)
            /\ profile[u] = GuestProfile => level <= Contributor
            BY <1>6, <2>1 DEF UpdateWorkspacesMembersRole
      <2>3. QED BY <2>2, PlanIsSafe
<1>7. QED BY <1>1, <1>2, <1>3, <1>4, <1>5, <1>6 DEF Check

(* A role changes for one user of one workspace.                           *)
LEMMA RoleChange ==
    ASSUME Inv, NEW u \in User, NEW w \in Workspace, NEW value,
           role' = [role EXCEPT ![u][w] = value], UNCHANGED profile,
           ~IsLastWorkspaceManager(u, w),
           value # None /\ profile[u] = GuestProfile => value <= Contributor
    PROVE  SpaceHasManager' /\ GuestsAreContributors'
<1>1. \A v \in User, x \in Workspace :
         role'[v][x] = IF v = u /\ x = w THEN value ELSE role[v][x]
      BY DEF Inv, TypeInv, TypeOK
<1>2. ASSUME NEW x \in Workspace
      PROVE  \E v \in User : IsManager(v, x)'
      <2>1. PICK v \in User : IsManager(v, x) /\ ~(v = u /\ x = w)
            BY DEF Inv, SpaceHasManager, IsLastWorkspaceManager
      <2>2. QED BY <1>1, <2>1 DEF IsManager
<1>3. GuestsAreContributors'
      BY <1>1 DEF Inv, GuestsAreContributors, IsMember
<1>4. QED BY <1>2, <1>3 DEF SpaceHasManager

LEMMA CommitIsSafe ==
    ASSUME Inv, Alone, NEW s \in Session, Commit(s) \/ Abort(s)
    PROVE  PlansAreSafe' /\ SpaceHasManager' /\ GuestsAreContributors'
<1> DEFINE t == write[s]
<1>1. Done(s) /\ t # None
      BY DEF Commit, CommitNewRole, CommitRoleUpdate, CommitRoleRemoval, CommitSubscription,
             CommitProfile, CommitDeletion, Abort, Idle
<1>2. PlansAreSafe'
      <2>1. \A q \in Session : write'[q] = None
            BY <1>1 DEF Done, Alone, Inv, TypeInv, TypeOK
      <2>2. QED BY <2>1 DEF PlansAreSafe
<1>3. /\ t.op \in {"update_role", "remove_member"} =>
            /\ t.user \in User /\ t.workspace \in Workspace
            /\ ~IsLastWorkspaceManager(t.user, t.workspace)
      /\ t.op \in GivesRole \cup {"update_role"} =>
            t.user \in User /\ (profile[t.user] = GuestProfile => t.value <= Contributor)
      /\ t.op = "set_profile" =>
            /\ t.user \in User
            /\ t.value = GuestProfile /\ profile[t.user] # GuestProfile =>
                  \A w \in SpacesOf(t.user) : role[t.user][w] <= Contributor
      BY <1>1 DEF Inv, PlansAreSafe
<1>4. CASE CommitNewRole(s)
      <2>1. /\ t.user \in User /\ ~IsMember(t.user, t.workspace) /\ UNCHANGED profile
            /\ role' = [role EXCEPT ![t.user][t.workspace] = t.value]
            /\ profile[t.user] = GuestProfile => t.value <= Contributor
            BY <1>3, <1>4 DEF CommitNewRole, GivesRole
      <2>2. CASE t.workspace \in Workspace
            <3>1. ~IsLastWorkspaceManager(t.user, t.workspace)
                  BY <2>1, NoneAssumption, RoleAssumption
                     DEF IsLastWorkspaceManager, IsManager, IsMember
            <3>2. QED BY <1>2, <2>1, <2>2, <3>1, RoleChange
      <2>3. CASE t.workspace \notin Workspace
            <3>1. role' = role
                  BY <2>1, <2>3 DEF Inv, TypeInv, TypeOK
            <3>2. QED BY <1>2, <2>1, <3>1
                      DEF Inv, SpaceHasManager, GuestsAreContributors, IsManager, IsMember
      <2>4. QED BY <2>2, <2>3
<1>5. CASE CommitRoleUpdate(s)
      BY <1>2, <1>3, <1>5, RoleChange DEF CommitRoleUpdate
<1>6. CASE CommitRoleRemoval(s)
      BY <1>2, <1>3, <1>6, RoleChange DEF CommitRoleRemoval
<1>7. CASE CommitProfile(s)
      <2>1. /\ t.user \in User /\ profile' = [profile EXCEPT ![t.user] = t.value] /\ UNCHANGED role
            BY <1>3, <1>7 DEF CommitProfile
      <2>2. ASSUME NEW u \in User, NEW w \in Workspace, profile'[u] = GuestProfile, IsMember(u, w)
            PROVE  role[u][w] <= Contributor
            <3>1. CASE profile[u] = GuestProfile
                  BY <2>2, <3>1 DEF Inv, GuestsAreContributors
            <3>2. CASE profile[u] # GuestProfile
                  <4>1. u = t.user /\ t.value = GuestProfile
                        BY <2>1, <2>2, <3>2 DEF Inv, TypeInv, TypeOK
                  <4>2. t.op = "set_profile" /\ w \in SpacesOf(u)
                        BY <1>7, <2>2 DEF CommitProfile, SpacesOf
                  <4>3. QED BY <1>3, <3>2, <4>1, <4>2
            <3>3. QED BY <3>1, <3>2
      <2>3. QED BY <1>2, <2>1, <2>2
                DEF Inv, SpaceHasManager, GuestsAreContributors, IsManager, IsMember
<1>8. CASE CommitSubscription(s) \/ CommitDeletion(s) \/ Abort(s)
      <2>1. UNCHANGED <<role, profile>>
            BY <1>8 DEF CommitSubscription, CommitDeletion, Abort
      <2>2. QED BY <1>2, <2>1 DEF Inv, SpaceHasManager, GuestsAreContributors, IsManager, IsMember
<1>9. QED BY <1>2, <1>4, <1>5, <1>6, <1>7, <1>8 DEF Commit

LEMMA InvStep == ASSUME Alone PROVE Inv /\ [Next]_vars => Inv'
<1> SUFFICES ASSUME Inv, [Next]_vars PROVE Inv'
    OBVIOUS
<1>1. TypeInv'
      BY TypeStep DEF Inv
<1>2. CASE Next
      BY <1>1, <1>2, CheckIsSafe, CommitIsSafe DEF Next, Inv
<1>3. CASE UNCHANGED vars
      BY <1>1, <1>3 DEF vars, Inv, PlansAreSafe, SpaceHasManager, GuestsAreContributors,
                        IsManager, IsMember, IsLastWorkspaceManager, SpacesOf
<1>4. QED BY <1>2, <1>3

(* When requests are served one after the other, every workspace keeps a   *)
(* manager, whoever leaves, is removed or is given another role.           *)
THEOREM SpacesKeepAManager == ASSUME Alone PROVE Spec => []SpaceHasManager
<1>1. Inv => SpaceHasManager
      BY DEF Inv
<1>2. Inv /\ [Next]_vars => Inv'
      BY InvStep
<1>3. QED BY <1>1, <1>2, InitInv, PTL DEF Spec

(* When requests are served one after the other, no guest has more rights  *)
(* than a contributor, however the role and the profile were obtained.     *)
THEOREM GuestsOnlyContribute == ASSUME Alone PROVE Spec => []GuestsAreContributors
<1>1. Inv => GuestsAreContributors
      BY DEF Inv
<1>2. Inv /\ [Next]_vars => Inv'
      BY InvStep
<1>3. QED BY <1>1, <1>2, InitInv, PTL DEF Spec
-----------------------------------------------------------------------------
(* The counts of the guards, once they have been read.                     *)
PlansAreLimited ==
    \A s \in Session : write[s] # None =>
        LET t == write[s] IN
        /\ t.op \in GivesRole /\ profile[t.user] = GuestProfile => HasRoom(t.user)
        /\ t.op = "set_profile" /\ t.value = GuestProfile /\ profile[t.user] # GuestProfile =>
              Cardinality(SpacesOf(t.user)) <= MaxGuestSpaces

LimitInv == Inv /\ PlansAreLimited

LEMMA PlanIsLimited ==
    ASSUME Inv, Alone, NEW s \in Session, NEW actor \in User, Check(s, actor)
    PROVE  PlansAreLimited'
<1>1. PICK op, u, w, value :
        /\ Plan(s, op, u, w, value)
        /\ op \in GivesRole /\ profile[u] = GuestProfile => HasRoom(u)
        /\ op = "set_profile" /\ value = GuestProfile /\ profile[u] # GuestProfile =>
              Cardinality(SpacesOf(u)) <= MaxGuestSpaces
      <2> DEFINE Is(op, u, w, value) ==
                    /\ Plan(s, op, u, w, value)
                    /\ op \in GivesRole /\ profile[u] = GuestProfile => HasRoom(u)
                    /\ op = "set_profile" /\ value = GuestProfile /\ profile[u] # GuestProfile =>
                          Cardinality(SpacesOf(u)) <= MaxGuestSpaces
      <2>1. ASSUME NEW p \in Profile, NEW u \in User, SetProfile(s, actor, u, p)
            PROVE  Is("set_profile", u, None, p)
            BY <2>1 DEF SetProfile, MayBeGuest, GivesRole
      <2>2. ASSUME NEW w \in Workspace, JoinWorkspace(s, actor, w)
            PROVE  Is("join", actor, w, DefaultRole)
            BY <2>2 DEF JoinWorkspace, MayGetRole
      <2>3. ASSUME NEW w \in Workspace,
                   \/ SubmitSubscription(s, actor, w)
                   \/ DeleteWorkspace(s, actor, w)
                   \/ UndeleteWorkspace(s, actor, w)
                   \/ \E u \in User : RejectSubscription(s, actor, u, w)
                                      \/ DeleteWorkspacesMembersRole(s, actor, u, w)
            PROVE  \E op, u : Is(op, u, w, None)
            <3>1. PICK op \in {"submit", "resubmit", "delete_space", "undelete_space", "reject",
                               "remove_member"},
                       u \in User \cup {None} : Plan(s, op, u, w, None)
                  BY <2>3 DEF SubmitSubscription, DeleteWorkspace, UndeleteWorkspace,
                              RejectSubscription, DeleteWorkspacesMembersRole
            <3>2. QED BY <3>1 DEF GivesRole
      <2>4. ASSUME NEW w \in Workspace, NEW u \in User, NEW level \in RoleLevel,
                   \/ CreateWorkspacesMembersRole(s, actor, u, w, level)
                   \/ AcceptSubscription(s, actor, u, w, level)
                   \/ UpdateWorkspacesMembersRole(s, actor, u, w, level)
            PROVE  \E op : Is(op, u, w, level)
            BY <2>4 DEF CreateWorkspacesMembersRole, AcceptSubscription,
                        UpdateWorkspacesMembersRole, MayGetRole, GivesRole
      <2> HIDE DEF Is
      <2>5. \E op, u, w, value : Is(op, u, w, value)
            BY <2>1, <2>2, <2>3, <2>4 DEF Check
      <2>6. QED BY <2>5 DEF Is
<1> DEFINE plan == [op |-> op, user |-> u, workspace |-> w, value |-> value]
<1>2. write' = [write EXCEPT ![s] = plan] /\ UNCHANGED <<role, profile, deleted>>
      BY <1>1 DEF Plan
<1>3. plan.op = op /\ plan.user = u /\ plan.value = value
      OBVIOUS
<1> HIDE DEF plan
<1>4. \A t \in Session : write'[t] = plan
      BY <1>2 DEF Inv, TypeInv, TypeOK, Alone
<1>5. SpacesOf(u)' = SpacesOf(u) /\ (HasRoom(u) => HasRoom(u)')
      BY <1>2 DEF SpacesOf, IsMember, HasRoom, ActiveSpacesOf
<1>6. QED BY <1>1, <1>2, <1>3, <1>4, <1>5 DEF PlansAreLimited

LEMMA LimitInvStep == ASSUME Alone PROVE LimitInv /\ [Next]_vars => LimitInv'
<1> SUFFICES ASSUME LimitInv, [Next]_vars PROVE PlansAreLimited'
    BY InvStep DEF LimitInv
<1>1. ASSUME NEW s \in Session, NEW actor \in User, Check(s, actor)
      PROVE  PlansAreLimited'
      BY <1>1, PlanIsLimited DEF LimitInv
<1>2. ASSUME NEW s \in Session, Commit(s) \/ Abort(s)
      PROVE  PlansAreLimited'
      <2>1. Done(s)
            BY <1>2 DEF Commit, CommitNewRole, CommitRoleUpdate, CommitRoleRemoval,
                        CommitSubscription, CommitProfile, CommitDeletion, Abort
      <2>2. \A q \in Session : write'[q] = None
            BY <2>1 DEF Done, Alone, LimitInv, Inv, TypeInv, TypeOK
      <2>3. QED BY <2>2 DEF PlansAreLimited
<1>3. CASE UNCHANGED vars
      BY <1>3 DEF vars, LimitInv, PlansAreLimited, HasRoom, ActiveSpacesOf, SpacesOf, IsMember
<1>4. QED BY <1>1, <1>2, <1>3 DEF Next

LEMMA GainIsLimited ==
    ASSUME Alone, IsFiniteSet(Workspace), MaxGuestSpaces \in Nat, LimitInv, [Next]_vars,
           NEW u \in User, profile'[u] = GuestProfile, GainsAccess(u)
    PROVE  Cardinality(ActiveSpacesOf(u)') <= MaxGuestSpaces
<1>1. /\ IsFiniteSet(SpacesOf(u)) /\ IsFiniteSet(ActiveSpacesOf(u))
      /\ ActiveSpacesOf(u) \subseteq SpacesOf(u)
      <2>1. SpacesOf(u) \subseteq Workspace /\ ActiveSpacesOf(u) \subseteq SpacesOf(u)
            BY DEF SpacesOf, ActiveSpacesOf
      <2>2. QED BY <2>1, FS_Subset
<1>2. PICK s \in Session : write[s] # None /\ (CommitProfile(s) \/ CommitNewRole(s))
      <2>1. ASSUME UNCHANGED <<role, profile>>
            PROVE  FALSE
            BY <2>1 DEF GainsAccess, IsMember
      <2>2. ASSUME NEW s \in Session, CommitRoleUpdate(s) \/ CommitRoleRemoval(s)
            PROVE  FALSE
            <3>1. UNCHANGED profile
                  BY <2>2 DEF CommitRoleUpdate, CommitRoleRemoval
            <3>2. PICK w \in Workspace : ~IsMember(u, w) /\ IsMember(u, w)'
                  BY <3>1 DEF GainsAccess
            <3>3. QED BY <2>2, <3>2
                      DEF CommitRoleUpdate, CommitRoleRemoval, IsMember,
                          LimitInv, Inv, TypeInv, TypeOK
      <2>3. PICK s \in Session : Commit(s)
            <3>1. ASSUME NEW s \in Session, NEW actor \in User, Check(s, actor)
                  PROVE  UNCHANGED <<role, profile>>
                  BY <3>1 DEF Check, SetProfile, JoinWorkspace, SubmitSubscription, DeleteWorkspace,
                              UndeleteWorkspace, RejectSubscription, DeleteWorkspacesMembersRole,
                              CreateWorkspacesMembersRole, AcceptSubscription,
                              UpdateWorkspacesMembersRole, Plan
            <3>2. ASSUME NEW s \in Session, Abort(s)
                  PROVE  UNCHANGED <<role, profile>>
                  BY <3>2 DEF Abort
            <3>3. QED BY <2>1, <3>1, <3>2 DEF Next, vars
      <2>4. QED BY <2>1, <2>2, <2>3 DEF Commit, CommitSubscription, CommitDeletion, Idle
<1> DEFINE t == write[s]
<1>3. CASE CommitProfile(s)
      <2>1. /\ t.op = "set_profile" /\ profile' = [profile EXCEPT ![t.user] = t.value]
            /\ UNCHANGED <<role, deleted>>
            BY <1>3 DEF CommitProfile
      <2>2. profile[u] # GuestProfile
            BY <2>1 DEF GainsAccess, IsMember
      <2>3. t.user = u /\ t.value = GuestProfile
            BY <2>1, <2>2 DEF LimitInv, Inv, TypeInv, TypeOK
      <2>4. Cardinality(SpacesOf(u)) <= MaxGuestSpaces
            BY <1>2, <2>1, <2>2, <2>3 DEF LimitInv, PlansAreLimited
      <2>5. ActiveSpacesOf(u)' = ActiveSpacesOf(u)
            BY <2>1 DEF ActiveSpacesOf, SpacesOf, IsMember
      <2>6. /\ Cardinality(ActiveSpacesOf(u)) \in Nat /\ Cardinality(SpacesOf(u)) \in Nat
            /\ Cardinality(ActiveSpacesOf(u)) <= Cardinality(SpacesOf(u))
            BY <1>1, FS_Subset, FS_CardinalityType
      <2>7. QED BY <2>4, <2>5, <2>6
<1>4. CASE CommitNewRole(s)
      <2>1. /\ t.op \in GivesRole /\ UNCHANGED <<profile, deleted>>
            /\ role' = [role EXCEPT ![t.user][t.workspace] = t.value]
            BY <1>4 DEF CommitNewRole, GivesRole
      <2>2. PICK w \in Workspace : ~IsMember(u, w) /\ IsMember(u, w)'
            BY <2>1 DEF GainsAccess
      <2>3. t.user = u /\ t.workspace = w
            BY <2>1, <2>2 DEF IsMember, LimitInv, Inv, TypeInv, TypeOK
      <2>4. Cardinality(ActiveSpacesOf(u)) < MaxGuestSpaces
            BY <1>2, <2>1, <2>3 DEF LimitInv, PlansAreLimited, HasRoom
      <2>5. ActiveSpacesOf(u)' \subseteq ActiveSpacesOf(u) \cup {w}
            BY <2>1, <2>3 DEF ActiveSpacesOf, SpacesOf, IsMember, LimitInv, Inv, TypeInv, TypeOK
      <2>6. /\ IsFiniteSet(ActiveSpacesOf(u) \cup {w}) /\ Cardinality(ActiveSpacesOf(u)) \in Nat
            /\ Cardinality(ActiveSpacesOf(u) \cup {w}) <= Cardinality(ActiveSpacesOf(u)) + 1
            <3>1. Cardinality(ActiveSpacesOf(u)) \in Nat
                  BY <1>1, FS_CardinalityType
            <3>2. /\ IsFiniteSet(ActiveSpacesOf(u) \cup {w})
                  /\ \/ Cardinality(ActiveSpacesOf(u) \cup {w}) = Cardinality(ActiveSpacesOf(u))
                     \/ Cardinality(ActiveSpacesOf(u) \cup {w}) = Cardinality(ActiveSpacesOf(u)) + 1
                  BY <1>1, FS_AddElement
            <3>3. QED BY <3>1, <3>2
      <2>7. /\ Cardinality(ActiveSpacesOf(u)') \in Nat
            /\ Cardinality(ActiveSpacesOf(u)') <= Cardinality(ActiveSpacesOf(u) \cup {w})
            /\ Cardinality(ActiveSpacesOf(u) \cup {w}) \in Nat
            BY <2>5, <2>6, FS_Subset, FS_CardinalityType
      <2>8. QED BY <2>4, <2>6, <2>7
<1>5. QED BY <1>2, <1>3, <1>4

(* When requests are served one after the other, a user who is given a     *)
(* role as a guest, or who becomes a guest with the roles they have, is in *)
(* no more workspaces than the limit, though the two checks do not count   *)
(* the same workspaces.                                                    *)
THEOREM GuestsGainNoMoreThanTheLimit ==
    ASSUME Alone, IsFiniteSet(Workspace), MaxGuestSpaces \in Nat
    PROVE  Spec => GuestSpacesAreLimited
<1>1. Init => LimitInv
      BY InitInv DEF LimitInv, PlansAreLimited, Init
<1>2. LimitInv /\ [Next]_vars => LimitInv'
      BY LimitInvStep
<1>3. LimitInv /\ [Next]_vars =>
         [\A u \in User : profile'[u] = GuestProfile /\ GainsAccess(u)
             => Cardinality(ActiveSpacesOf(u)') <= MaxGuestSpaces]_vars
      BY GainIsLimited
<1>4. QED BY <1>1, <1>2, <1>3, PTL DEF Spec, GuestSpacesAreLimited
=============================================================================
