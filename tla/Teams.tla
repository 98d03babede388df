------------------------------- MODULE Teams -------------------------------
(***************************************************************************)
(* Teams, their members and their groups, as web/src/lib/teams/service.ts  *)
(* changes them in the tables of web/src/lib/db/schema.ts.                 *)
(*                                                                         *)
(* Every handler first authorises its caller with plain reads              *)
(* (requireAdmin, requireAdminOrSub) and only then runs its statements or  *)
(* its transaction, so a request that has passed that check is state of    *)
(* its own here: request[p] holds what it will do, and any number of other *)
(* steps may come in between.  A transaction whose row locks cover what it *)
(* reads is one step.  addGroupMember reads the group without a lock, so   *)
(* its transaction is two steps and keeps the member's row locked between  *)
(* them; deleteTeam and deleteGroup use no transaction and are split where *)
(* they first act on what they read.                                       *)
(*                                                                         *)
(* A pending invitation is a free choice of AcceptInvitation: any user may *)
(* hold one for any team, with or without an auto-assign group.  Names,    *)
(* avatars, visibility and cache tags are left out: nothing here reads     *)
(* them but the error a refused caller gets.                               *)
(***************************************************************************)
EXTENDS Naturals, FiniteSets

CONSTANTS
  Users,        \* rows of users
  TeamIds,      \* primary keys of teams; a deleted team's id may be reused
  GroupIds,     \* primary keys of groups
  Requests,     \* requests the server can have in flight at once
  SubadminCap,  \* SUBADMIN_CAP
  None          \* SQL NULL, or no row

ASSUME UsersFinite == IsFiniteSet(Users)
ASSUME CapIsNat == SubadminCap \in Nat
ASSUME NoneIsNoId == None \notin Users \cup TeamIds \cup GroupIds

VARIABLES
  teamStatus,   \* teams.status, "none" where there is no row
  createdBy,    \* teams.created_by
  memberOf,     \* team_members.team_id of each user (user_id is UNIQUE)
  role,         \* team_members.role of each user
  groupStatus,  \* groups.status
  groupTeam,    \* groups.team_id
  groupOf,      \* group_members.group_id of each user (user_id is UNIQUE)
  request       \* what each in-flight request has been authorised to do

memberVars == <<memberOf, role>>
teamVars   == <<teamStatus, createdBy>>
groupVars  == <<groupStatus, groupTeam>>
tables     == <<teamVars, memberVars, groupVars, groupOf>>
vars       == <<tables, request>>

Roles    == {"admin", "subadmin", "member"}
Statuses == {"none", "active", "disbanded"}

\* Stages of a request.  "insertGroupMember" and "deleteGroupRow" are the
\* second halves of addGroupMember and deleteGroup.
Ops == {"idle", "disbandTeam", "deleteTeam", "patchMemberRole",
        "removeMember", "createGroup", "disbandGroup", "deleteGroup",
        "deleteGroupRow", "addGroupMember", "insertGroupMember",
        "removeGroupMember"}

Request == [op: Ops, actor: Users \cup {None}, team: TeamIds \cup {None},
            target: Users \cup {None}, group: GroupIds \cup {None},
            role: Roles \cup {"none"}]

\* The path parameters each route passes on.
HasTarget == {"patchMemberRole", "removeMember", "addGroupMember",
              "insertGroupMember", "removeGroupMember"}

HasGroup == {"disbandGroup", "deleteGroup", "deleteGroupRow",
             "addGroupMember", "insertGroupMember", "removeGroupMember"}

WellFormed(r) ==
  /\ r.op # "idle" => r.actor \in Users /\ r.team \in TeamIds
  /\ r.op \in HasTarget => r.target \in Users
  /\ r.op \in HasGroup => r.group \in GroupIds

Idle == [op |-> "idle", actor |-> None, team |-> None, target |-> None,
         group |-> None, role |-> "none"]

Init ==
  /\ teamStatus = [t \in TeamIds |-> "none"]
  /\ createdBy = [t \in TeamIds |-> None]
  /\ memberOf = [u \in Users |-> None]
  /\ role = [u \in Users |-> "none"]
  /\ groupStatus = [g \in GroupIds |-> "none"]
  /\ groupTeam = [g \in GroupIds |-> None]
  /\ groupOf = [u \in Users |-> None]
  /\ request = [p \in Requests |-> Idle]

-----------------------------------------------------------------------------
(* Reads *)

Members(t) == {u \in Users : memberOf[u] = t}

Subadmins(t) == {u \in Users : memberOf[u] = t /\ role[u] = "subadmin"}

HasRole(t, u, roles) == memberOf[u] = t /\ role[u] \in roles

requireAdmin(t, u) ==
  teamStatus[t] = "active" /\ HasRole(t, u, {"admin"})

requireAdminOrSub(t, u) ==
  teamStatus[t] = "active" /\ HasRole(t, u, {"admin", "subadmin"})

\* Slip: the FOR UPDATE is forgotten.
RowLockedNever(u) == FALSE

\* addGroupMember holds FOR UPDATE on its target's team_members row.
RowLocked(u) ==
  \E p \in Requests :
    request[p].op = "insertGroupMember" /\ request[p].target = u

\* A handler that locks every member row of t waits while this holds.
RowsLocked(t) == \E u \in Members(t) : RowLocked(u)

\* A uuid is never handed out twice: an id is reused here only when no row
\* and no request in flight mentions it.
FreshTeam(t) ==
  teamStatus[t] = "none" /\ \A p \in Requests : request[p].team # t

FreshGroup(g) ==
  groupStatus[g] = "none" /\ \A p \in Requests : request[p].group # g

-----------------------------------------------------------------------------
(* Handlers whose transaction repeats all that they read before it *)

createTeam(u, t) ==
  /\ FreshTeam(t)
  /\ memberOf[u] = None
  /\ teamStatus' = [teamStatus EXCEPT ![t] = "active"]
  /\ createdBy' = [createdBy EXCEPT ![t] = u]
  /\ memberOf' = [memberOf EXCEPT ![u] = t]
  /\ role' = [role EXCEPT ![u] = "admin"]
  /\ UNCHANGED <<groupVars, groupOf, request>>

\* The group an invitation names is joined only if, under its row lock, it is
\* still an active group of the team.
Joinable(g, t) ==
  g \in GroupIds /\ groupTeam[g] = t /\ groupStatus[g] = "active"

\* Slip: the team's status is not read again under its lock.
acceptIntoAnyTeam(u, t, g) ==
  /\ teamStatus[t] # "none"
  /\ memberOf[u] = None
  /\ memberOf' = [memberOf EXCEPT ![u] = t]
  /\ role' = [role EXCEPT ![u] = "member"]
  /\ groupOf' = [groupOf EXCEPT ![u] = IF Joinable(g, t) THEN g ELSE @]
  /\ UNCHANGED <<teamVars, groupVars, request>>

acceptInvitation(u, t, g) ==
  /\ teamStatus[t] = "active"
  /\ memberOf[u] = None
  /\ memberOf' = [memberOf EXCEPT ![u] = t]
  /\ role' = [role EXCEPT ![u] = "member"]
  /\ groupOf' = [groupOf EXCEPT ![u] = IF Joinable(g, t) THEN g ELSE @]
  /\ UNCHANGED <<teamVars, groupVars, request>>

\* Slip: the admin may leave like anybody else.
leaveTeamAsAdmin(u, t) ==
  /\ memberOf[u] = t
  /\ teamStatus[t] = "active"
  /\ ~RowsLocked(t)
  /\ groupOf' = [groupOf EXCEPT ![u] = None]
  /\ memberOf' = [memberOf EXCEPT ![u] = None]
  /\ role' = [role EXCEPT ![u] = "none"]
  /\ UNCHANGED <<teamVars, groupVars, request>>

\* Slip: the group_members row is left behind.
leaveTeamKeepingGroup(u, t) ==
  /\ memberOf[u] = t
  /\ teamStatus[t] = "active"
  /\ ~RowsLocked(t)
  /\ role[u] # "admin"
  /\ memberOf' = [memberOf EXCEPT ![u] = None]
  /\ role' = [role EXCEPT ![u] = "none"]
  /\ UNCHANGED <<teamVars, groupVars, groupOf, request>>

leaveTeam(u, t) ==
  /\ memberOf[u] = t
  /\ teamStatus[t] = "active"
  /\ ~RowsLocked(t)
  /\ role[u] # "admin"
  /\ groupOf' = [groupOf EXCEPT ![u] = None]
  /\ memberOf' = [memberOf EXCEPT ![u] = None]
  /\ role' = [role EXCEPT ![u] = "none"]
  /\ UNCHANGED <<teamVars, groupVars, request>>

leaveGroup(u, g) ==
  /\ groupOf[u] = g
  /\ groupOf' = [groupOf EXCEPT ![u] = None]
  /\ UNCHANGED <<teamVars, memberVars, groupVars, request>>

-----------------------------------------------------------------------------
(* Authorisation: the reads before a handler's transaction *)

Receive(p, op, u, t, v, g, r) ==
  /\ request[p] = Idle
  /\ request' = [request EXCEPT ![p] =
       [op |-> op, actor |-> u, team |-> t, target |-> v, group |-> g,
        role |-> r]]
  /\ UNCHANGED tables

ReceiveDisbandTeam(p, u, t) ==
  /\ requireAdmin(t, u)
  /\ Receive(p, "disbandTeam", u, t, None, None, "none")

\* Slip: an empty team counts as disbanded.
ReceiveDeleteEmptyTeam(p, u, t) ==
  /\ createdBy[t] = u
  /\ Members(t) = {}
  /\ Receive(p, "deleteTeam", u, t, None, None, "none")

\* Deletion is the creator's, and reads the status and the member count with
\* statements of their own.
ReceiveDeleteTeam(p, u, t) ==
  /\ createdBy[t] = u
  /\ teamStatus[t] = "disbanded"
  /\ Members(t) = {}
  /\ Receive(p, "deleteTeam", u, t, None, None, "none")

ReceivePatchMemberRole(p, u, t, v, r) ==
  /\ requireAdmin(t, u)
  /\ v = u => r = "admin"
  /\ Receive(p, "patchMemberRole", u, t, v, None, r)

ReceiveRemoveMember(p, u, t, v) ==
  /\ requireAdminOrSub(t, u)
  /\ Receive(p, "removeMember", u, t, v, None, "none")

ReceiveCreateGroup(p, u, t) ==
  /\ requireAdminOrSub(t, u)
  /\ Receive(p, "createGroup", u, t, None, None, "none")

ReceiveGroupLifecycle(p, u, t, g) ==
  /\ requireAdminOrSub(t, u)
  /\ groupStatus[g] # "none"
  /\ \/ Receive(p, "disbandGroup", u, t, None, g, "none")
     \/ Receive(p, "deleteGroup", u, t, None, g, "none")

ReceiveGroupMembership(p, u, t, v, g) ==
  /\ requireAdminOrSub(t, u)
  /\ groupStatus[g] # "none"
  /\ \/ Receive(p, "addGroupMember", u, t, v, g, "none")
     \/ Receive(p, "removeGroupMember", u, t, v, g, "none")

-----------------------------------------------------------------------------
(* What an authorised request then does *)

Serving(p, op) == request[p].op = op

Finish(p) == request' = [request EXCEPT ![p] = Idle]

\* A refused check, a failed statement, a deadlock victim or a crash of the
\* server: the transaction rolls back and the request is gone.
Abort(p) ==
  /\ request[p] # Idle
  /\ Finish(p)
  /\ UNCHANGED tables

disbandTeam(p) ==
  LET t == request[p].team
  IN  /\ Serving(p, "disbandTeam")
      /\ teamStatus[t] = "active"
      /\ ~RowsLocked(t)
      /\ HasRole(t, request[p].actor, {"admin"})
      /\ groupOf' = [u \in Users |->
           IF \E g \in GroupIds : groupOf[u] = g /\ groupTeam[g] = t
           THEN None ELSE groupOf[u]]
      /\ memberOf' = [u \in Users |->
           IF memberOf[u] = t THEN None ELSE memberOf[u]]
      /\ role' = [u \in Users |->
           IF memberOf[u] = t THEN "none" ELSE role[u]]
      /\ teamStatus' = [teamStatus EXCEPT ![t] = "disbanded"]
      /\ Finish(p)
      /\ UNCHANGED <<createdBy, groupVars>>

\* DELETE FROM teams for the teams in T, with its ON DELETE CASCADEs; the users
\* in V lose their member rows too.
CascadeTeams(T, V) ==
  LET gone(u) == memberOf[u] \in T \/ u \in V
  IN  /\ teamStatus' = [t \in TeamIds |-> IF t \in T THEN "none" ELSE teamStatus[t]]
      /\ createdBy' = [t \in TeamIds |-> IF t \in T THEN None ELSE createdBy[t]]
      /\ memberOf' = [u \in Users |-> IF gone(u) THEN None ELSE memberOf[u]]
      /\ role' = [u \in Users |-> IF gone(u) THEN "none" ELSE role[u]]

\* DELETE FROM groups for the groups in G, likewise.
CascadeGroups(G, V) ==
  LET gone(u) == groupOf[u] \in G \/ u \in V
  IN  /\ groupStatus' = [g \in GroupIds |-> IF g \in G THEN "none" ELSE groupStatus[g]]
      /\ groupTeam' = [g \in GroupIds |-> IF g \in G THEN None ELSE groupTeam[g]]
      /\ groupOf' = [u \in Users |-> IF gone(u) THEN None ELSE groupOf[u]]

GroupsOf(T) == {g \in GroupIds : groupTeam[g] \in T}

deleteTeam(p) ==
  LET t == request[p].team
  IN  /\ Serving(p, "deleteTeam")
      /\ ~RowsLocked(t)
      /\ CascadeTeams({t}, {})
      /\ CascadeGroups(GroupsOf({t}), {})
      /\ Finish(p)

\* The three branches of patchMemberRole, under the locks on the team's rows.
\* The target is looked up again; the caller's own role is not.
RoleChange(p, r) ==
  LET t == request[p].team
      v == request[p].target
  IN  /\ Serving(p, "patchMemberRole")
      /\ request[p].role = r
      /\ ~RowsLocked(t)
      /\ memberOf[v] = t
      /\ role[v] # r
      /\ Finish(p)
      /\ UNCHANGED <<teamVars, memberOf, groupVars, groupOf>>

\* Slip: the caller steps down, not whoever is admin by now.
transferFromCaller(p) ==
  /\ RoleChange(p, "admin")
  /\ role' = [u \in Users |->
       IF u = request[p].target THEN "admin"
       ELSE IF u = request[p].actor /\ memberOf[u] = request[p].team THEN "member"
       ELSE role[u]]

transferAdmin(p) ==
  /\ RoleChange(p, "admin")
  /\ role' = [u \in Users |->
       IF u = request[p].target THEN "admin"
       ELSE IF HasRole(request[p].team, u, {"admin"}) THEN "member"
       ELSE role[u]]

\* Slip: off by one at the cap.
assignOneTooMany(p) ==
  /\ RoleChange(p, "subadmin")
  /\ Cardinality(Subadmins(request[p].team)) <= SubadminCap
  /\ role' = [role EXCEPT ![request[p].target] = "subadmin"]

assignSubadmin(p) ==
  /\ RoleChange(p, "subadmin")
  /\ Cardinality(Subadmins(request[p].team)) < SubadminCap
  /\ role' = [role EXCEPT ![request[p].target] = "subadmin"]

demoteToMember(p) ==
  /\ RoleChange(p, "member")
  /\ role' = [role EXCEPT ![request[p].target] = "member"]

patchMemberRole(p) == transferAdmin(p) \/ assignSubadmin(p) \/ demoteToMember(p)

\* What removeMember does once its checks have passed.
RemoveTarget(p) ==
  LET v == request[p].target
  IN  /\ groupOf' = [groupOf EXCEPT ![v] = None]
      /\ memberOf' = [memberOf EXCEPT ![v] = None]
      /\ role' = [role EXCEPT ![v] = "none"]
      /\ Finish(p)
      /\ UNCHANGED <<teamVars, groupVars>>

\* Slip: the target's role is not read again.
removeWhoeverItIs(p) ==
  /\ Serving(p, "removeMember")
  /\ ~RowsLocked(request[p].team)
  /\ HasRole(request[p].team, request[p].actor, {"admin", "subadmin"})
  /\ memberOf[request[p].target] = request[p].team
  /\ RemoveTarget(p)

\* Slip: the caller's role is not read again.
removeOnOldAuthority(p) ==
  /\ Serving(p, "removeMember")
  /\ ~RowsLocked(request[p].team)
  /\ memberOf[request[p].target] = request[p].team
  /\ role[request[p].target] # "admin"
  /\ RemoveTarget(p)

\* The locked rows decide: the caller's role is read again.
removeMember(p) ==
  LET t == request[p].team
      v == request[p].target
      a == request[p].actor
  IN  /\ Serving(p, "removeMember")
      /\ ~RowsLocked(t)
      /\ HasRole(t, a, {"admin", "subadmin"})
      /\ memberOf[v] = t
      /\ role[v] # "admin"
      /\ ~(role[a] = "subadmin" /\ role[v] = "subadmin")
      /\ RemoveTarget(p)

\* The foreign key asks for the team's row, not for its status.
createGroup(p, g) ==
  /\ Serving(p, "createGroup")
  /\ FreshGroup(g)
  /\ teamStatus[request[p].team] # "none"
  /\ groupStatus' = [groupStatus EXCEPT ![g] = "active"]
  /\ groupTeam' = [groupTeam EXCEPT ![g] = request[p].team]
  /\ Finish(p)
  /\ UNCHANGED <<teamVars, memberVars, groupOf>>

disbandGroup(p) ==
  LET g == request[p].group
  IN  /\ Serving(p, "disbandGroup")
      /\ groupTeam[g] = request[p].team
      /\ groupOf' = [u \in Users |-> IF groupOf[u] = g THEN None ELSE groupOf[u]]
      /\ groupStatus' = [groupStatus EXCEPT ![g] = "disbanded"]
      /\ Finish(p)
      /\ UNCHANGED <<teamVars, memberVars, groupTeam>>

\* The status and the member count, read before the DELETE.
deleteGroup(p) ==
  LET g == request[p].group
  IN  /\ Serving(p, "deleteGroup")
      /\ groupTeam[g] = request[p].team
      /\ groupStatus[g] = "disbanded"
      /\ \A u \in Users : groupOf[u] # g
      /\ request' = [request EXCEPT ![p].op = "deleteGroupRow"]
      /\ UNCHANGED tables

deleteGroupRow(p) ==
  /\ Serving(p, "deleteGroupRow")
  /\ CascadeGroups({request[p].group}, {})
  /\ Finish(p)
  /\ UNCHANGED <<teamVars, memberVars>>

\* Locks the target's member row, then reads the group without a lock.
addGroupMember(p) ==
  LET g == request[p].group
      v == request[p].target
  IN  /\ Serving(p, "addGroupMember")
      /\ memberOf[v] = request[p].team
      /\ ~RowLocked(v)
      /\ groupTeam[g] = request[p].team
      /\ groupStatus[g] = "active"
      /\ request' = [request EXCEPT ![p].op = "insertGroupMember"]
      /\ UNCHANGED tables

\* The foreign key asks for the group's row, not for its status.
insertGroupMember(p) ==
  /\ Serving(p, "insertGroupMember")
  /\ groupStatus[request[p].group] # "none"
  /\ groupOf' = [groupOf EXCEPT ![request[p].target] = request[p].group]
  /\ Finish(p)
  /\ UNCHANGED <<teamVars, memberVars, groupVars>>

removeGroupMember(p) ==
  LET g == request[p].group
      v == request[p].target
  IN  /\ Serving(p, "removeGroupMember")
      /\ groupTeam[g] = request[p].team
      /\ groupOf' = [groupOf EXCEPT ![v] = IF @ = g THEN None ELSE @]
      /\ Finish(p)
      /\ UNCHANGED <<teamVars, memberVars, groupVars>>

-----------------------------------------------------------------------------
(* Next-state relation *)

\* What a signed-in user starts.
UserStep(u) ==
  \/ \E t \in TeamIds :
       \/ createTeam(u, t)
       \/ \E g \in GroupIds \cup {None} : acceptInvitation(u, t, g)
       \/ leaveTeam(u, t)
  \/ \E g \in GroupIds : leaveGroup(u, g)
  \/ \E p \in Requests, t \in TeamIds :
       \/ ReceiveDisbandTeam(p, u, t)
       \/ ReceiveDeleteTeam(p, u, t)
       \/ ReceiveCreateGroup(p, u, t)
       \/ \E v \in Users :
            \/ \E r \in Roles : ReceivePatchMemberRole(p, u, t, v, r)
            \/ ReceiveRemoveMember(p, u, t, v)
            \/ \E g \in GroupIds : ReceiveGroupMembership(p, u, t, v, g)
       \/ \E g \in GroupIds : ReceiveGroupLifecycle(p, u, t, g)

\* What the server does next for request p.
RequestStep(p) ==
  \/ Abort(p)
  \/ disbandTeam(p)
  \/ deleteTeam(p)
  \/ patchMemberRole(p)
  \/ removeMember(p)
  \/ disbandGroup(p)
  \/ deleteGroup(p)
  \/ deleteGroupRow(p)
  \/ addGroupMember(p)
  \/ insertGroupMember(p)
  \/ removeGroupMember(p)

Next ==
  \/ \E u \in Users : UserStep(u)
  \/ \E p \in Requests : RequestStep(p)
  \/ \E p \in Requests, g \in GroupIds : createGroup(p, g)

Spec == Init /\ [][Next]_vars

-----------------------------------------------------------------------------
(* Properties *)

\* Every column holds a value of its domain; a member has a role and only a
\* member has one; a group row always names its team (NOT NULL), and no row
\* that is gone still names one.
TypeOK ==
  /\ teamStatus \in [TeamIds -> Statuses]
  /\ createdBy \in [TeamIds -> Users \cup {None}]
  /\ memberOf \in [Users -> TeamIds \cup {None}]
  /\ role \in [Users -> Roles \cup {"none"}]
  /\ groupStatus \in [GroupIds -> Statuses]
  /\ groupTeam \in [GroupIds -> TeamIds \cup {None}]
  /\ groupOf \in [Users -> GroupIds \cup {None}]
  /\ request \in [Requests -> Request]
  /\ \A p \in Requests : WellFormed(request[p])
  /\ \A u \in Users : memberOf[u] = None <=> role[u] = "none"
  /\ \A g \in GroupIds : groupTeam[g] = None <=> groupStatus[g] = "none"

\* INV-2 and INV-8: whoever is in a group is a member of that group's team,
\* however leaving, removal, disbanding and group assignment interleave
\* (addGroupMember locks the member row that the others lock and delete).
GroupMemberOnTeam ==
  \A u \in Users : groupOf[u] # None =>
    /\ groupStatus[groupOf[u]] # "none"
    /\ memberOf[u] = groupTeam[groupOf[u]]

\* INV-4, the half that holds: a team never has two admins, even when two
\* transfers authorised by the same admin run one after the other.
AtMostOneAdmin ==
  \A u, v \in Users :
    memberOf[u] = memberOf[v] /\ role[u] = "admin" /\ role[v] = "admin" => u = v

\* INV-4 as written: an active team has exactly one admin.  Requests that
\* were authorised earlier break it (see README).
ActiveTeamHasOneAdmin ==
  \A t \in TeamIds : teamStatus[t] = "active" =>
    Cardinality({u \in Users : HasRole(t, u, {"admin"})}) = 1

\* INV-5: concurrent assignments and transfers never exceed the cap.
SubadminCapRespected ==
  \A t \in TeamIds : Cardinality(Subadmins(t)) <= SubadminCap

\* INV-7: only an active team has members; disbanding loses none of them in a
\* race with an accepted invitation, a promotion or a group assignment.
MembersOnlyInActiveTeams ==
  \A u \in Users : memberOf[u] # None => teamStatus[memberOf[u]] = "active"

\* group-management.feature: a disbanded group has no members.  A request
\* that read the group before it was disbanded breaks it (see README).
DisbandedGroupEmpty ==
  \A u \in Users : groupOf[u] # None => groupStatus[groupOf[u]] # "disbanded"

\* What a request read before its last statement is still true when that
\* statement runs, where the code relies on it: the user about to be put into a
\* group is still on the team and the group, if it is still there, is the
\* team's; a team about to be deleted is not active again.
RequestsStayValid ==
  \A p \in Requests :
    /\ Serving(p, "insertGroupMember") =>
         /\ memberOf[request[p].target] = request[p].team
         /\ groupStatus[request[p].group] # "none" =>
              groupTeam[request[p].group] = request[p].team
    /\ Serving(p, "deleteTeam") => teamStatus[request[p].team] # "active"

LifecycleStep ==
  \A t \in TeamIds :
    /\ teamStatus[t] = "active" => teamStatus'[t] # "none"
    /\ teamStatus[t] = "disbanded" =>
         teamStatus'[t] # "active" /\ Members(t) = {}

\* INV-6 and the team state machine: a team row only ever goes from active to
\* disbanded to gone, and when it goes nobody is a member of it, although
\* deleteTeam counts the members in one statement and deletes in another.
TeamLifecycle == [][LifecycleStep]_vars

AdminStays ==
  \A u \in Users :
    role[u] = "admin" /\ memberOf'[u] = None =>
      teamStatus'[memberOf[u]] = "disbanded"

\* Nobody who is admin when the step is taken loses the membership by it,
\* unless the step disbands the team: not by a removal that was authorised
\* when the target was still a member.
AdminLeavesOnlyByDisband == [][AdminStays]_vars

RemoverHasAuthority ==
  \A p \in Requests, u \in Users :
    Serving(p, "removeMember") /\ request'[p] = Idle
      /\ memberOf[u] # None /\ memberOf'[u] = None =>
        LET a == request[p].actor
        IN  /\ memberOf[a] = memberOf[u]
            /\ \/ role[a] = "admin"
               \/ role[a] = "subadmin" /\ role[u] = "member"

\* A user who is thrown out alone is thrown out by somebody who at that very
\* moment is admin of the team, or subadmin and the user is not: removeMember
\* does not act on the authority its caller had when the request came in.
RemovalIsAuthorised == [][RemoverHasAuthority]_vars

\* Requests, locks and groups put aside, the team tables behave as module
\* Membership says.
Seats ==
  INSTANCE Membership WITH
    status <- teamStatus,
    seat <- [u \in Users |-> [team |-> memberOf[u], role |-> role[u]]]

ImplementsMembership == Seats!Spec
=============================================================================
