---------------------------- MODULE TeamsProofs ----------------------------
(***************************************************************************)
(* Proofs about modules Teams and TeamAccounts, for every number of users, *)
(* teams, groups, requests in flight and every subadmin cap.  With account *)
(* deletion the cascades leave the tables as whole as the handlers do, and *)
(* nothing of a deleted account remains.                                   *)
(***************************************************************************)
EXTENDS TeamAccounts, FiniteSetTheorems, TLAPS

-----------------------------------------------------------------------------
(* Type correctness *)

\* The tables part of TypeOK, for the steps that only admit or drop requests.
LEMMA TypeRequestOnly ==
  ASSUME TypeOK, UNCHANGED tables, NEW p \in Requests, NEW r \in Request,
         WellFormed(r), request' = [request EXCEPT ![p] = r]
  PROVE  TypeOK'
BY DEF TypeOK, tables, teamVars, memberVars, groupVars, WellFormed

\* A request slot that is free is well typed.
LEMMA IdleIsRequest == Idle \in Request /\ WellFormed(Idle)
BY DEF Idle, Request, WellFormed, Ops, HasTarget, HasGroup

\* Finishing a request keeps the request variable well typed.
LEMMA FinishType ==
  ASSUME TypeOK, NEW p \in Requests, Finish(p)
  PROVE  /\ request' \in [Requests -> Request]
         /\ \A q \in Requests : WellFormed(request'[q])
BY IdleIsRequest DEF TypeOK, Finish, WellFormed

\* An authorised request is well typed.
LEMMA ReceiveType ==
  ASSUME TypeOK, NEW p \in Requests, NEW op \in Ops, NEW u \in Users,
         NEW t \in TeamIds, NEW v \in Users \cup {None},
         NEW g \in GroupIds \cup {None}, NEW r \in Roles \cup {"none"},
         op \in HasTarget => v \in Users, op \in HasGroup => g \in GroupIds,
         Receive(p, op, u, t, v, g, r)
  PROVE  TypeOK'
<1> DEFINE q == [op |-> op, actor |-> u, team |-> t, target |-> v,
                 group |-> g, role |-> r]
<1>1. q \in Request /\ WellFormed(q)
  BY DEF Request, WellFormed
<1>2. request' = [request EXCEPT ![p] = q] /\ UNCHANGED tables
  BY DEF Receive
<1> QED
  BY <1>1, <1>2, TypeRequestOnly

\* What users start keeps every column in its domain.
LEMMA UserStepType ==
  ASSUME TypeOK, NEW u \in Users, UserStep(u)
  PROVE  TypeOK'
<1>1. ASSUME NEW t \in TeamIds, createTeam(u, t)
      PROVE  TypeOK'
  BY <1>1, NoneIsNoId
  DEF TypeOK, createTeam, groupVars, Statuses, Roles
<1>2. ASSUME NEW t \in TeamIds, NEW g \in GroupIds \cup {None},
             acceptInvitation(u, t, g)
      PROVE  TypeOK'
  BY <1>2, NoneIsNoId
  DEF TypeOK, acceptInvitation, Joinable, teamVars, groupVars, Roles
<1>3. ASSUME NEW t \in TeamIds, leaveTeam(u, t)
      PROVE  TypeOK'
  BY <1>3 DEF TypeOK, leaveTeam, teamVars, groupVars
<1>4. ASSUME NEW g \in GroupIds, leaveGroup(u, g)
      PROVE  TypeOK'
  BY <1>4 DEF TypeOK, leaveGroup, teamVars, groupVars, memberVars
<1>5. ASSUME NEW p \in Requests, NEW t \in TeamIds,
             \/ ReceiveDisbandTeam(p, u, t)
             \/ ReceiveDeleteTeam(p, u, t)
             \/ ReceiveCreateGroup(p, u, t)
      PROVE  TypeOK'
  BY <1>5, ReceiveType
  DEF ReceiveDisbandTeam, ReceiveDeleteTeam, ReceiveCreateGroup, Ops,
      HasTarget, HasGroup
<1>6. ASSUME NEW p \in Requests, NEW t \in TeamIds, NEW v \in Users,
             NEW r \in Roles, ReceivePatchMemberRole(p, u, t, v, r)
      PROVE  TypeOK'
  BY <1>6, ReceiveType DEF ReceivePatchMemberRole, Ops, HasTarget, HasGroup
<1>7. ASSUME NEW p \in Requests, NEW t \in TeamIds, NEW v \in Users,
             ReceiveRemoveMember(p, u, t, v)
      PROVE  TypeOK'
  BY <1>7, ReceiveType DEF ReceiveRemoveMember, Ops, HasTarget, HasGroup
<1>8. ASSUME NEW p \in Requests, NEW t \in TeamIds, NEW v \in Users,
             NEW g \in GroupIds, ReceiveGroupMembership(p, u, t, v, g)
      PROVE  TypeOK'
  BY <1>8, ReceiveType DEF ReceiveGroupMembership, Ops, HasTarget, HasGroup
<1>9. ASSUME NEW p \in Requests, NEW t \in TeamIds, NEW g \in GroupIds,
             ReceiveGroupLifecycle(p, u, t, g)
      PROVE  TypeOK'
  BY <1>9, ReceiveType DEF ReceiveGroupLifecycle, Ops, HasTarget, HasGroup
<1> QED
  BY <1>1, <1>2, <1>3, <1>4, <1>5, <1>6, <1>7, <1>8, <1>9 DEF UserStep

\* So does what the server then does for a request, cascades included.
LEMMA RequestStepType ==
  ASSUME TypeOK, NEW p \in Requests, RequestStep(p)
  PROVE  TypeOK'
<1>0. WellFormed(request[p]) /\ request[p] \in Request
  BY DEF TypeOK
<1>1. CASE Abort(p)
  BY <1>1, IdleIsRequest, TypeRequestOnly DEF Abort, Finish
<1>2. CASE disbandTeam(p)
  BY <1>2, FinishType DEF TypeOK, disbandTeam, groupVars, Statuses
<1>3. CASE deleteTeam(p)
  BY <1>3, FinishType
  DEF TypeOK, deleteTeam, CascadeTeams, CascadeGroups, GroupsOf, Statuses
<1>4. CASE patchMemberRole(p)
  <2>1. UNCHANGED <<teamVars, memberOf, groupVars, groupOf>> /\ Finish(p)
    BY <1>4 DEF patchMemberRole, transferAdmin, assignSubadmin,
                demoteToMember, RoleChange
  <2>2. /\ request[p].target \in Users
        /\ memberOf[request[p].target] = request[p].team
        /\ request[p].team \in TeamIds
    BY <1>0, <1>4 DEF patchMemberRole, transferAdmin, assignSubadmin,
       demoteToMember, RoleChange, Serving, WellFormed, HasTarget
  <2>3. /\ role' \in [Users -> Roles \cup {"none"}]
        /\ \A u \in Users : memberOf[u] = None <=> role'[u] = "none"
    <3>1. CASE transferAdmin(p)
      BY <2>2, <3>1, NoneIsNoId DEF TypeOK, transferAdmin, HasRole, Roles
    <3>2. CASE assignSubadmin(p)
      BY <2>2, <3>2, NoneIsNoId DEF TypeOK, assignSubadmin, Roles
    <3>3. CASE demoteToMember(p)
      BY <2>2, <3>3, NoneIsNoId DEF TypeOK, demoteToMember, Roles
    <3> QED
      BY <1>4, <3>1, <3>2, <3>3 DEF patchMemberRole
  <2> QED
    BY <2>1, <2>3, FinishType DEF TypeOK, teamVars, groupVars
<1>5. CASE removeMember(p)
  BY <1>5, FinishType DEF TypeOK, removeMember, RemoveTarget, teamVars, groupVars
<1>6. CASE disbandGroup(p)
  BY <1>0, <1>6, FinishType, NoneIsNoId
  DEF TypeOK, disbandGroup, Serving, WellFormed, HasGroup, teamVars,
      memberVars, Statuses
<1>7. CASE deleteGroup(p)
  <2>1. [request[p] EXCEPT !.op = "deleteGroupRow"] \in Request
    BY <1>0 DEF Request, Ops
  <2>2. WellFormed([request[p] EXCEPT !.op = "deleteGroupRow"])
    BY <1>0, <1>7
    DEF deleteGroup, Serving, WellFormed, HasTarget, HasGroup, Request
  <2>3. /\ request' = [request EXCEPT ![p] =
             [request[p] EXCEPT !.op = "deleteGroupRow"]]
        /\ UNCHANGED tables
    BY <1>7 DEF deleteGroup, TypeOK
  <2> QED
    BY <2>1, <2>2, <2>3, TypeRequestOnly
<1>8. CASE deleteGroupRow(p)
  BY <1>8, FinishType
  DEF TypeOK, deleteGroupRow, CascadeGroups, teamVars, memberVars, Statuses
<1>9. CASE addGroupMember(p)
  <2>1. [request[p] EXCEPT !.op = "insertGroupMember"] \in Request
    BY <1>0 DEF Request, Ops
  <2>2. WellFormed([request[p] EXCEPT !.op = "insertGroupMember"])
    BY <1>0, <1>9
    DEF addGroupMember, Serving, WellFormed, HasTarget, HasGroup, Request
  <2>3. /\ request' = [request EXCEPT ![p] =
             [request[p] EXCEPT !.op = "insertGroupMember"]]
        /\ UNCHANGED tables
    BY <1>9 DEF addGroupMember, TypeOK
  <2> QED
    BY <2>1, <2>2, <2>3, TypeRequestOnly
<1>10. CASE insertGroupMember(p)
  BY <1>0, <1>10, FinishType
  DEF TypeOK, insertGroupMember, Serving, WellFormed, HasTarget, HasGroup,
      teamVars, memberVars, groupVars
<1>11. CASE removeGroupMember(p)
  BY <1>11, FinishType
  DEF TypeOK, removeGroupMember, teamVars, memberVars, groupVars
<1> QED
  BY <1>1, <1>2, <1>3, <1>4, <1>5, <1>6, <1>7, <1>8, <1>9, <1>10, <1>11
  DEF RequestStep

\* A new group row names its team.
LEMMA CreateGroupType ==
  ASSUME TypeOK, NEW p \in Requests, NEW g \in GroupIds, createGroup(p, g)
  PROVE  TypeOK'
<1>1. request[p].team \in TeamIds
  BY DEF TypeOK, createGroup, Serving, WellFormed
<1> QED
  BY <1>1, FinishType, NoneIsNoId
  DEF TypeOK, createGroup, teamVars, memberVars, Statuses

\* The empty tables are well typed.
LEMMA InitType == Init => TypeOK
BY IdleIsRequest DEF Init, TypeOK, Statuses, Roles

\* Type correctness is inductive.
LEMMA NextType == TypeOK /\ [Next]_vars => TypeOK'
<1> SUFFICES ASSUME TypeOK, [Next]_vars PROVE TypeOK'
  OBVIOUS
<1>1. CASE UNCHANGED vars
  BY <1>1 DEF TypeOK, vars, tables, teamVars, memberVars, groupVars
<1>2. CASE Next
  BY <1>2, UserStepType, RequestStepType, CreateGroupType DEF Next
<1> QED
  BY <1>1, <1>2

\* Type correctness, including that a user has a role exactly while having a
\* team and that a group row names a team exactly while it exists.
THEOREM TypeCorrect == Spec => []TypeOK
BY InitType, NextType, PTL DEF Spec

-----------------------------------------------------------------------------
(* Members, groups and the requests that are about to touch them *)

\* Inductive: the member row that addGroupMember keeps locked until it inserts
\* is what makes its insertion safe, so what is known of a request in flight
\* is part of the invariant.
Integrity ==
  /\ TypeOK
  /\ MembersOnlyInActiveTeams
  /\ GroupMemberOnTeam
  /\ RequestsStayValid

\* The empty tables have nobody out of place.
LEMMA InitIntegrity == Init => Integrity
BY InitType
DEF Init, Integrity, MembersOnlyInActiveTeams, GroupMemberOnTeam,
    RequestsStayValid, Serving, Idle

\* Steps that leave the tables alone only have their own request to account for.
LEMMA TablesUnchangedIntegrity ==
  ASSUME Integrity, TypeOK', UNCHANGED tables, NEW p \in Requests,
         NEW r \in Request, request' = [request EXCEPT ![p] = r],
         r.op = "insertGroupMember" =>
           /\ memberOf[r.target] = r.team
           /\ groupStatus[r.group] # "none" => groupTeam[r.group] = r.team,
         r.op = "deleteTeam" => teamStatus[r.team] # "active"
  PROVE  Integrity'
<1>1. MembersOnlyInActiveTeams' /\ GroupMemberOnTeam'
  BY DEF Integrity, MembersOnlyInActiveTeams, GroupMemberOnTeam, tables,
         teamVars, memberVars, groupVars
<1>2. RequestsStayValid'
  BY DEF Integrity, TypeOK, RequestsStayValid, Serving, tables, teamVars,
         memberVars, groupVars
<1> QED
  BY <1>1, <1>2 DEF Integrity

\* An authorisation relies on nothing that its own read did not show.
LEMMA ReceiveIntegrity ==
  ASSUME Integrity, TypeOK', NEW p \in Requests,
         NEW op \in Ops \ {"insertGroupMember"}, NEW u, NEW t, NEW v, NEW g,
         NEW r, op = "deleteTeam" => teamStatus[t] # "active",
         Receive(p, op, u, t, v, g, r)
  PROVE  Integrity'
<1> DEFINE q == [op |-> op, actor |-> u, team |-> t, target |-> v,
                 group |-> g, role |-> r]
<1>1. request' = [request EXCEPT ![p] = q] /\ UNCHANGED tables
  BY DEF Receive
<1>2. q \in Request
  <2>1. request'[p] = q
    BY <1>1 DEF Integrity, TypeOK
  <2> QED
    BY <2>1 DEF TypeOK
<1> QED
  BY <1>1, <1>2, TablesUnchangedIntegrity

\* Creating, joining and leaving teams, and leaving groups, keep the integrity
\* of the tables and of what other requests rely on.
LEMMA UserStepIntegrity ==
  ASSUME Integrity, TypeOK', NEW u \in Users, UserStep(u)
  PROVE  Integrity'
<1>1. ASSUME NEW t \in TeamIds, createTeam(u, t)
      PROVE  Integrity'
  <2>1. groupOf[u] = None
    BY <1>1 DEF Integrity, TypeOK, GroupMemberOnTeam, createTeam
  <2>2. MembersOnlyInActiveTeams'
    BY <1>1, NoneIsNoId
    DEF Integrity, TypeOK, createTeam, MembersOnlyInActiveTeams
  <2>3. GroupMemberOnTeam'
    BY <1>1, <2>1
    DEF Integrity, TypeOK, createTeam, GroupMemberOnTeam, groupVars
  <2>4. RequestsStayValid'
    BY <1>1, NoneIsNoId
    DEF Integrity, TypeOK, createTeam, FreshTeam, RequestsStayValid, Serving,
        WellFormed, HasTarget, groupVars
  <2> QED
    BY <2>2, <2>3, <2>4 DEF Integrity
<1>2. ASSUME NEW t \in TeamIds, NEW g \in GroupIds \cup {None},
             acceptInvitation(u, t, g)
      PROVE  Integrity'
  BY <1>2, NoneIsNoId
  DEF Integrity, TypeOK, acceptInvitation, Joinable,
      MembersOnlyInActiveTeams, GroupMemberOnTeam, RequestsStayValid,
      Serving, WellFormed, teamVars, groupVars
<1>3. ASSUME NEW t \in TeamIds, leaveTeam(u, t)
      PROVE  Integrity'
  BY <1>3, NoneIsNoId
  DEF Integrity, TypeOK, leaveTeam, RowsLocked, RowLocked, Members,
      MembersOnlyInActiveTeams, GroupMemberOnTeam, RequestsStayValid,
      Serving, teamVars, groupVars
<1>4. ASSUME NEW g \in GroupIds, leaveGroup(u, g)
      PROVE  Integrity'
  BY <1>4
  DEF Integrity, TypeOK, leaveGroup, MembersOnlyInActiveTeams,
      GroupMemberOnTeam, RequestsStayValid, Serving, teamVars, memberVars,
      groupVars
<1>5. ASSUME NEW p \in Requests, NEW t \in TeamIds,
             \/ ReceiveDisbandTeam(p, u, t)
             \/ ReceiveDeleteTeam(p, u, t)
             \/ ReceiveCreateGroup(p, u, t)
      PROVE  Integrity'
  BY <1>5, ReceiveIntegrity
  DEF ReceiveDisbandTeam, ReceiveDeleteTeam, ReceiveCreateGroup, Ops
<1>6. ASSUME NEW p \in Requests, NEW t \in TeamIds, NEW v \in Users,
             \/ \E r \in Roles : ReceivePatchMemberRole(p, u, t, v, r)
             \/ ReceiveRemoveMember(p, u, t, v)
             \/ \E g \in GroupIds : ReceiveGroupMembership(p, u, t, v, g)
      PROVE  Integrity'
  BY <1>6, ReceiveIntegrity
  DEF ReceivePatchMemberRole, ReceiveRemoveMember, ReceiveGroupMembership, Ops
<1>7. ASSUME NEW p \in Requests, NEW t \in TeamIds, NEW g \in GroupIds,
             ReceiveGroupLifecycle(p, u, t, g)
      PROVE  Integrity'
  BY <1>7, ReceiveIntegrity DEF ReceiveGroupLifecycle, Ops
<1> QED
  BY <1>1, <1>2, <1>3, <1>4, <1>5, <1>6, <1>7 DEF UserStep

\* So does every transaction of an authorised request; the locked member row
\* and the two-step deletions are the cases that need the other requests.
LEMMA RequestStepIntegrity ==
  ASSUME Integrity, TypeOK', NEW p \in Requests, RequestStep(p)
  PROVE  Integrity'
<1>0. WellFormed(request[p]) /\ request[p] \in Request
  BY DEF Integrity, TypeOK
<1>1. CASE Abort(p)
  BY <1>1, IdleIsRequest, TablesUnchangedIntegrity DEF Abort, Finish, Idle
<1>2. CASE disbandTeam(p)
  <2>1. MembersOnlyInActiveTeams'
    BY <1>2, NoneIsNoId
    DEF Integrity, TypeOK, disbandTeam, MembersOnlyInActiveTeams
  <2>2. GroupMemberOnTeam'
    BY <1>2, NoneIsNoId
    DEF Integrity, TypeOK, disbandTeam, GroupMemberOnTeam, groupVars
  <2>3. RequestsStayValid'
    BY <1>2
    DEF Integrity, TypeOK, disbandTeam, RequestsStayValid, RowsLocked,
        RowLocked, Members, Serving, WellFormed, HasTarget, Finish, Idle,
        groupVars
  <2> QED
    BY <2>1, <2>2, <2>3 DEF Integrity
<1>3. CASE deleteTeam(p)
  <2>1. \A u \in Users : memberOf[u] # request[p].team
    BY <1>0, <1>3, NoneIsNoId
    DEF Integrity, TypeOK, deleteTeam, MembersOnlyInActiveTeams,
        RequestsStayValid, Serving, WellFormed
  <2>2. UNCHANGED <<memberOf, role>>
    BY <1>3, <2>1 DEF Integrity, TypeOK, deleteTeam, CascadeTeams
  <2>3. MembersOnlyInActiveTeams'
    BY <1>3, <2>1, <2>2
    DEF Integrity, TypeOK, deleteTeam, CascadeTeams, MembersOnlyInActiveTeams
  <2>4. GroupMemberOnTeam'
    BY <1>3, <2>1, <2>2, NoneIsNoId
    DEF Integrity, TypeOK, deleteTeam, CascadeGroups, GroupsOf,
        GroupMemberOnTeam
  <2>5. RequestsStayValid'
    BY <1>3, <2>2, NoneIsNoId
    DEF Integrity, TypeOK, deleteTeam, CascadeTeams, CascadeGroups, GroupsOf,
        RequestsStayValid, Serving, WellFormed, HasGroup, Finish, Idle
  <2> QED
    BY <2>3, <2>4, <2>5 DEF Integrity
<1>4. CASE patchMemberRole(p)
  <2>1. UNCHANGED <<teamVars, memberOf, groupVars, groupOf>> /\ Finish(p)
    BY <1>4 DEF patchMemberRole, transferAdmin, assignSubadmin,
                demoteToMember, RoleChange
  <2> QED
    BY <2>1 DEF Integrity, TypeOK, MembersOnlyInActiveTeams,
      GroupMemberOnTeam, RequestsStayValid, Serving, Finish, Idle, teamVars,
      groupVars
<1>5. CASE removeMember(p)
  <2>1. MembersOnlyInActiveTeams'
    BY <1>5, NoneIsNoId
    DEF Integrity, TypeOK, removeMember, RemoveTarget, MembersOnlyInActiveTeams, teamVars
  <2>2. GroupMemberOnTeam'
    BY <1>5
    DEF Integrity, TypeOK, removeMember, RemoveTarget, GroupMemberOnTeam, groupVars
  <2>3. RequestsStayValid'
    BY <1>5
    DEF Integrity, TypeOK, removeMember, RemoveTarget, RequestsStayValid, RowsLocked,
        RowLocked, Members, Serving, WellFormed, HasTarget, Finish, Idle,
        teamVars, groupVars
  <2> QED
    BY <2>1, <2>2, <2>3 DEF Integrity
<1>6. CASE disbandGroup(p)
  <2>1. MembersOnlyInActiveTeams'
    BY <1>6 DEF Integrity, disbandGroup, MembersOnlyInActiveTeams, teamVars,
       memberVars
  <2>2. GroupMemberOnTeam'
    BY <1>6, NoneIsNoId
    DEF Integrity, TypeOK, disbandGroup, GroupMemberOnTeam, memberVars
  <2>3. RequestsStayValid'
    BY <1>0, <1>6, NoneIsNoId
    DEF Integrity, TypeOK, disbandGroup, RequestsStayValid, Serving,
        WellFormed, HasGroup, Finish, Idle, teamVars, memberVars
  <2> QED
    BY <2>1, <2>2, <2>3 DEF Integrity
<1>7. CASE deleteGroup(p)
  <2> DEFINE q == [request[p] EXCEPT !.op = "deleteGroupRow"]
  <2>1. request' = [request EXCEPT ![p] = q] /\ UNCHANGED tables
    BY <1>7 DEF deleteGroup
  <2>2. q \in Request /\ q.op = "deleteGroupRow"
    BY <1>0 DEF Request, Ops
  <2> QED
    BY <2>1, <2>2, TablesUnchangedIntegrity
<1>8. CASE deleteGroupRow(p)
  <2>1. MembersOnlyInActiveTeams'
    BY <1>8 DEF Integrity, deleteGroupRow, MembersOnlyInActiveTeams, teamVars,
       memberVars
  <2>2. GroupMemberOnTeam'
    BY <1>8
    DEF Integrity, TypeOK, deleteGroupRow, CascadeGroups, GroupMemberOnTeam,
        memberVars
  <2>3. RequestsStayValid'
    BY <1>8
    DEF Integrity, TypeOK, deleteGroupRow, CascadeGroups, RequestsStayValid,
        Serving, WellFormed, HasGroup, Finish, Idle, teamVars, memberVars
  <2> QED
    BY <2>1, <2>2, <2>3 DEF Integrity
<1>9. CASE addGroupMember(p)
  <2> DEFINE q == [request[p] EXCEPT !.op = "insertGroupMember"]
  <2>1. request' = [request EXCEPT ![p] = q] /\ UNCHANGED tables
    BY <1>9 DEF addGroupMember
  <2>2. q \in Request
    BY <1>0 DEF Request, Ops
  <2>3. /\ q.op = "insertGroupMember"
        /\ memberOf[q.target] = q.team
        /\ groupTeam[q.group] = q.team
    BY <1>0, <1>9 DEF addGroupMember, Request
  <2> QED
    BY <2>1, <2>2, <2>3, TablesUnchangedIntegrity
<1>10. CASE insertGroupMember(p)
  <2>1. MembersOnlyInActiveTeams'
    BY <1>10 DEF Integrity, insertGroupMember, MembersOnlyInActiveTeams,
       teamVars, memberVars
  <2>2. GroupMemberOnTeam'
    BY <1>0, <1>10
    DEF Integrity, TypeOK, insertGroupMember, GroupMemberOnTeam,
        RequestsStayValid, Serving, WellFormed, HasTarget, HasGroup,
        memberVars, groupVars
  <2>3. RequestsStayValid'
    BY <1>10
    DEF Integrity, TypeOK, insertGroupMember, RequestsStayValid, Serving,
        Finish, Idle, teamVars, memberVars, groupVars
  <2> QED
    BY <2>1, <2>2, <2>3 DEF Integrity
<1>11. CASE removeGroupMember(p)
  <2>1. MembersOnlyInActiveTeams' /\ GroupMemberOnTeam'
    BY <1>11
    DEF Integrity, TypeOK, removeGroupMember, MembersOnlyInActiveTeams,
        GroupMemberOnTeam, teamVars, memberVars, groupVars
  <2>2. RequestsStayValid'
    BY <1>11
    DEF Integrity, TypeOK, removeGroupMember, RequestsStayValid, Serving,
        Finish, Idle, teamVars, memberVars, groupVars
  <2> QED
    BY <2>1, <2>2 DEF Integrity
<1> QED
  BY <1>1, <1>2, <1>3, <1>4, <1>5, <1>6, <1>7, <1>8, <1>9, <1>10, <1>11
  DEF RequestStep

\* A new group has no members, so it cannot have a wrong one.
LEMMA CreateGroupIntegrity ==
  ASSUME Integrity, TypeOK', NEW p \in Requests, NEW g \in GroupIds,
         createGroup(p, g)
  PROVE  Integrity'
<1>1. MembersOnlyInActiveTeams'
  BY DEF Integrity, createGroup, MembersOnlyInActiveTeams, teamVars, memberVars
<1>2. GroupMemberOnTeam'
  BY DEF Integrity, TypeOK, createGroup, FreshGroup, GroupMemberOnTeam,
         memberVars
<1>3. RequestsStayValid'
  BY DEF Integrity, TypeOK, createGroup, FreshGroup, RequestsStayValid,
         Serving, Finish, Idle, teamVars, memberVars
<1> QED
  BY <1>1, <1>2, <1>3 DEF Integrity

\* The integrity of the tables is inductive.
LEMMA NextIntegrity == Integrity /\ [Next]_vars => Integrity'
<1> SUFFICES ASSUME Integrity, [Next]_vars PROVE Integrity'
  OBVIOUS
<1>1. TypeOK'
  BY NextType DEF Integrity
<1>2. CASE UNCHANGED vars
  BY <1>1, <1>2
  DEF Integrity, MembersOnlyInActiveTeams, GroupMemberOnTeam,
      RequestsStayValid, Serving, vars, tables, teamVars, memberVars, groupVars
<1>3. CASE Next
  BY <1>1, <1>3, UserStepIntegrity, RequestStepIntegrity,
     CreateGroupIntegrity DEF Next
<1> QED
  BY <1>2, <1>3

\* The inductive invariant: types, members only in active teams (INV-7), group
\* members only on the team of their group (INV-2, INV-8), and what requests in
\* flight rely on.
THEOREM IntegrityHolds == Spec => []Integrity
BY InitIntegrity, NextIntegrity, PTL DEF Spec

\* INV-2 and INV-8 for every instance: nobody is in a group of a team they are
\* not on.
THEOREM GroupMembersStayOnTeam == Spec => []GroupMemberOnTeam
<1>1. Integrity => GroupMemberOnTeam
  BY DEF Integrity
<1> QED
  BY <1>1, IntegrityHolds, PTL

\* INV-7 for every instance: only an active team has members.
THEOREM OnlyActiveTeamsHaveMembers == Spec => []MembersOnlyInActiveTeams
<1>1. Integrity => MembersOnlyInActiveTeams
  BY DEF Integrity
<1> QED
  BY <1>1, IntegrityHolds, PTL

\* What a request in flight relies on stays true until it acts on it.
THEOREM InFlightRequestsStayValid == Spec => []RequestsStayValid
<1>1. Integrity => RequestsStayValid
  BY DEF Integrity
<1> QED
  BY <1>1, IntegrityHolds, PTL

-----------------------------------------------------------------------------
(* One admin at most, and no more subadmins than the cap *)

\* Everybody keeps the seat they had or has none.
SeatsShrink ==
  \A u \in Users :
    \/ memberOf'[u] = None /\ role'[u] = "none"
    \/ memberOf'[u] = memberOf[u] /\ role'[u] = role[u]

\* Only five handlers give anybody a seat or another role.
LEMMA SeatChanges ==
  ASSUME TypeOK, [Next]_vars
  PROVE  \/ SeatsShrink
         \/ \E u \in Users, t \in TeamIds :
              \/ createTeam(u, t)
              \/ \E g \in GroupIds \cup {None} : acceptInvitation(u, t, g)
         \/ \E p \in Requests : patchMemberRole(p)
<1>1. UNCHANGED memberVars => SeatsShrink
  BY DEF SeatsShrink, memberVars
<1>2. CASE \E u \in Users : UserStep(u)
  BY <1>1, <1>2
  DEF UserStep, leaveTeam, SeatsShrink, TypeOK, leaveGroup,
      ReceiveDisbandTeam, ReceiveDeleteTeam, ReceiveCreateGroup,
      ReceivePatchMemberRole, ReceiveRemoveMember, ReceiveGroupMembership,
      ReceiveGroupLifecycle, Receive, tables
<1>3. ASSUME NEW p \in Requests, RequestStep(p), ~patchMemberRole(p)
      PROVE  SeatsShrink
  <2>1. CASE disbandTeam(p)
    BY <2>1 DEF disbandTeam, SeatsShrink, TypeOK
  <2>2. CASE deleteTeam(p)
    BY <2>2 DEF deleteTeam, CascadeTeams, SeatsShrink, TypeOK
  <2>3. CASE removeMember(p)
    BY <2>3 DEF removeMember, RemoveTarget, SeatsShrink, TypeOK
  <2>4. CASE Abort(p) \/ deleteGroup(p) \/ addGroupMember(p)
    BY <1>1, <2>4 DEF Abort, deleteGroup, addGroupMember, tables
  <2>5. CASE disbandGroup(p) \/ deleteGroupRow(p)
    BY <1>1, <2>5 DEF disbandGroup, deleteGroupRow
  <2>6. CASE insertGroupMember(p) \/ removeGroupMember(p)
    BY <1>1, <2>6 DEF insertGroupMember, removeGroupMember
  <2> QED
    BY <1>3, <2>1, <2>2, <2>3, <2>4, <2>5, <2>6 DEF RequestStep
<1>4. CASE \E p \in Requests, g \in GroupIds : createGroup(p, g)
  BY <1>1, <1>4 DEF createGroup
<1> QED
  BY <1>1, <1>2, <1>3, <1>4 DEF Next, vars, tables

\* What a role change finds: its target is on the team it was authorised for.
LEMMA RoleChangeTarget ==
  ASSUME TypeOK, NEW p \in Requests, NEW r, RoleChange(p, r)
  PROVE  /\ request[p].target \in Users
         /\ request[p].team \in TeamIds
         /\ memberOf[request[p].target] = request[p].team
         /\ memberOf' = memberOf
BY DEF TypeOK, RoleChange, Serving, WellFormed, HasTarget

\* One admin at most is inductive: createTeam finds no member and a transfer
\* demotes whoever holds the role by then.
LEMMA NextAtMostOneAdmin ==
  Integrity /\ AtMostOneAdmin /\ [Next]_vars => AtMostOneAdmin'
<1> SUFFICES ASSUME Integrity, AtMostOneAdmin, [Next]_vars
             PROVE  AtMostOneAdmin'
  OBVIOUS
<1>0. TypeOK
  BY DEF Integrity
<1>1. CASE SeatsShrink
  BY <1>1 DEF SeatsShrink, AtMostOneAdmin
<1>2. ASSUME NEW u \in Users, NEW t \in TeamIds, createTeam(u, t)
      PROVE  AtMostOneAdmin'
  <2>1. \A v \in Users : memberOf[v] # t
    BY <1>2, NoneIsNoId
    DEF Integrity, MembersOnlyInActiveTeams, createTeam, FreshTeam
  <2> QED
    BY <1>0, <1>2, <2>1 DEF createTeam, AtMostOneAdmin, TypeOK
<1>3. ASSUME NEW u \in Users, NEW t \in TeamIds,
             NEW g \in GroupIds \cup {None}, acceptInvitation(u, t, g)
      PROVE  AtMostOneAdmin'
  BY <1>0, <1>3 DEF acceptInvitation, AtMostOneAdmin, TypeOK
<1>4. ASSUME NEW p \in Requests, patchMemberRole(p)
      PROVE  AtMostOneAdmin'
  <2>1. CASE transferAdmin(p)
    BY <1>0, <2>1, RoleChangeTarget
    DEF transferAdmin, HasRole, AtMostOneAdmin, TypeOK
  <2>2. CASE assignSubadmin(p) \/ demoteToMember(p)
    BY <1>0, <2>2, RoleChangeTarget
    DEF assignSubadmin, demoteToMember, AtMostOneAdmin, TypeOK
  <2> QED
    BY <1>4, <2>1, <2>2 DEF patchMemberRole
<1> QED
  BY <1>0, <1>1, <1>2, <1>3, <1>4, SeatChanges

\* INV-4, its safe half, for every instance: never two admins, whatever
\* transfers and demotions race.
THEOREM NeverTwoAdmins == Spec => []AtMostOneAdmin
<1>1. Init => AtMostOneAdmin
  BY DEF Init, AtMostOneAdmin
<1> QED
  BY <1>1, NextAtMostOneAdmin, IntegrityHolds, PTL DEF Spec

\* Any set of users is finite.
LEMMA UsersSubset ==
  ASSUME NEW S \in SUBSET Users
  PROVE  IsFiniteSet(S) /\ Cardinality(S) \in Nat
BY UsersFinite, FS_Subset, FS_CardinalityType

\* Fewer subadmins than before cannot exceed the cap.
LEMMA FewerSubadmins ==
  ASSUME SubadminCapRespected, \A t \in TeamIds : Subadmins(t)' \subseteq Subadmins(t)
  PROVE  SubadminCapRespected'
<1> SUFFICES ASSUME NEW t \in TeamIds
             PROVE  Cardinality(Subadmins(t)') <= SubadminCap
  BY DEF SubadminCapRespected
<1>1. Subadmins(t) \in SUBSET Users
  BY DEF Subadmins
<1>2. Cardinality(Subadmins(t)') <= Cardinality(Subadmins(t))
  BY <1>1, UsersSubset, FS_Subset
<1>3. Cardinality(Subadmins(t)') \in Nat /\ Cardinality(Subadmins(t)) \in Nat
  BY <1>1, UsersSubset
<1> QED
  BY <1>2, <1>3, CapIsNat DEF SubadminCapRespected

\* The cap is inductive: only assignSubadmin adds one, below the cap.
LEMMA NextSubadminCap ==
  TypeOK /\ SubadminCapRespected /\ [Next]_vars => SubadminCapRespected'
<1> SUFFICES ASSUME TypeOK, SubadminCapRespected, [Next]_vars
             PROVE  SubadminCapRespected'
  OBVIOUS
<1>1. CASE SeatsShrink
  <2>1. \A t \in TeamIds : Subadmins(t)' \subseteq Subadmins(t)
    BY <1>1 DEF SeatsShrink, Subadmins
  <2> QED
    BY <2>1, FewerSubadmins
<1>2. ASSUME NEW u \in Users, NEW t \in TeamIds,
             \/ createTeam(u, t)
             \/ \E g \in GroupIds \cup {None} : acceptInvitation(u, t, g)
      PROVE  SubadminCapRespected'
  <2>1. \A s \in TeamIds : Subadmins(s)' \subseteq Subadmins(s)
    BY <1>2 DEF createTeam, acceptInvitation, Subadmins, TypeOK
  <2> QED
    BY <2>1, FewerSubadmins
<1>3. ASSUME NEW p \in Requests, transferAdmin(p) \/ demoteToMember(p)
      PROVE  SubadminCapRespected'
  <2>1. \A s \in TeamIds : Subadmins(s)' \subseteq Subadmins(s)
    BY <1>3, RoleChangeTarget
    DEF transferAdmin, demoteToMember, Subadmins, HasRole, TypeOK
  <2> QED
    BY <2>1, FewerSubadmins
<1>4. ASSUME NEW p \in Requests, assignSubadmin(p)
      PROVE  SubadminCapRespected'
  <2>1. PICK v \in Users, s \in TeamIds :
          v = request[p].target /\ s = request[p].team
    BY <1>4, RoleChangeTarget DEF assignSubadmin
  <2>2. /\ memberOf[v] = s /\ memberOf' = memberOf
        /\ role' = [role EXCEPT ![v] = "subadmin"] /\ role[v] # "subadmin"
    BY <1>4, <2>1, RoleChangeTarget DEF assignSubadmin, RoleChange
  <2>3. Cardinality(Subadmins(s)) < SubadminCap
    BY <1>4, <2>1 DEF assignSubadmin
  <2>4. Subadmins(s)' = Subadmins(s) \cup {v} /\ v \notin Subadmins(s)
    BY <2>2 DEF Subadmins, TypeOK
  <2>5. Subadmins(s) \in SUBSET Users
    BY DEF Subadmins
  <2>6. Cardinality(Subadmins(s)') = Cardinality(Subadmins(s)) + 1
    BY <2>4, <2>5, UsersSubset, FS_AddElement
  <2>7. Cardinality(Subadmins(s)') <= SubadminCap
    BY <2>3, <2>5, <2>6, UsersSubset, CapIsNat
  <2>8. \A t \in TeamIds \ {s} : Subadmins(t)' = Subadmins(t)
    BY <2>2 DEF Subadmins, TypeOK
  <2> QED
    BY <2>7, <2>8 DEF SubadminCapRespected
<1> QED
  BY <1>1, <1>2, <1>3, <1>4, SeatChanges DEF patchMemberRole

\* INV-5 for every instance: concurrent promotions never exceed the cap.
THEOREM SubadminCapHolds == Spec => []SubadminCapRespected
<1>1. Init => SubadminCapRespected
  <2> SUFFICES ASSUME Init, NEW t \in TeamIds
               PROVE  Cardinality(Subadmins(t)) <= SubadminCap
    BY DEF SubadminCapRespected
  <2>1. Subadmins(t) = {}
    BY DEF Init, Subadmins
  <2> QED
    BY <2>1, FS_EmptySet, CapIsNat
<1> QED
  BY <1>1, NextSubadminCap, TypeCorrect, PTL DEF Spec

-----------------------------------------------------------------------------
(* What a step may never do *)

\* Every step moves every team along its life, if the tables have integrity.
LEMMA StepIsLifecycle == Integrity /\ [Next]_vars => [LifecycleStep]_vars
<1> SUFFICES ASSUME Integrity, [Next]_vars, ~UNCHANGED vars
             PROVE  LifecycleStep
  OBVIOUS
<1>0. \A t \in TeamIds : teamStatus[t] = "disbanded" => Members(t) = {}
  BY NoneIsNoId DEF Integrity, MembersOnlyInActiveTeams, Members
<1>1. CASE UNCHANGED teamStatus
  BY <1>0, <1>1 DEF LifecycleStep
<1>2. ASSUME NEW u \in Users, UserStep(u)
      PROVE  LifecycleStep
  <2>1. ASSUME NEW t \in TeamIds, createTeam(u, t)
        PROVE  LifecycleStep
    BY <1>0, <2>1
    DEF createTeam, FreshTeam, LifecycleStep, Integrity, TypeOK
  <2>2. UNCHANGED teamStatus \/ \E t \in TeamIds : createTeam(u, t)
    BY <1>2
    DEF UserStep, acceptInvitation, leaveTeam, leaveGroup,
        ReceiveDisbandTeam, ReceiveDeleteTeam, ReceiveCreateGroup,
        ReceivePatchMemberRole, ReceiveRemoveMember, ReceiveGroupMembership,
        ReceiveGroupLifecycle, Receive, tables, teamVars
  <2> QED
    BY <1>1, <2>1, <2>2
<1>3. ASSUME NEW p \in Requests, RequestStep(p)
      PROVE  LifecycleStep
  <2>1. CASE disbandTeam(p)
    BY <1>0, <2>1 DEF disbandTeam, LifecycleStep, Integrity, TypeOK
  <2>2. CASE deleteTeam(p)
    BY <1>0, <2>2
    DEF deleteTeam, CascadeTeams, LifecycleStep, Integrity, TypeOK,
        RequestsStayValid
  <2>3. CASE patchMemberRole(p)
    BY <1>1, <2>3 DEF patchMemberRole, transferAdmin, assignSubadmin,
       demoteToMember, RoleChange, teamVars
  <2>4. CASE Abort(p) \/ deleteGroup(p) \/ addGroupMember(p)
    BY <1>1, <2>4 DEF Abort, deleteGroup, addGroupMember, tables, teamVars
  <2>5. CASE removeMember(p) \/ disbandGroup(p) \/ deleteGroupRow(p)
    BY <1>1, <2>5 DEF removeMember, RemoveTarget, disbandGroup, deleteGroupRow, teamVars
  <2>6. CASE insertGroupMember(p) \/ removeGroupMember(p)
    BY <1>1, <2>6 DEF insertGroupMember, removeGroupMember, teamVars
  <2> QED
    BY <1>3, <2>1, <2>2, <2>3, <2>4, <2>5, <2>6 DEF RequestStep
<1>4. ASSUME NEW p \in Requests, NEW g \in GroupIds, createGroup(p, g)
      PROVE  LifecycleStep
  BY <1>1, <1>4 DEF createGroup, teamVars
<1> QED
  BY <1>2, <1>3, <1>4 DEF Next

\* INV-6 for every instance, as long as no account is deleted.
THEOREM TeamsFollowLifecycle == Spec => TeamLifecycle
BY StepIsLifecycle, IntegrityHolds, PTL DEF Spec, TeamLifecycle

\* Every step that takes a seat from an admin disbands the team.
LEMMA StepKeepsAdmin == Integrity /\ [Next]_vars => [AdminStays]_vars
<1> SUFFICES ASSUME Integrity, [Next]_vars, ~UNCHANGED vars
             PROVE  AdminStays
  OBVIOUS
<1>0. TypeOK /\ \A u \in Users : role[u] = "admin" => memberOf[u] # None
  BY DEF Integrity, TypeOK
<1>1. CASE memberOf' = memberOf
  BY <1>0, <1>1 DEF AdminStays
<1>2. ASSUME NEW u \in Users, UserStep(u)
      PROVE  AdminStays
  <2>1. ASSUME NEW t \in TeamIds, createTeam(u, t)
        PROVE  AdminStays
    BY <1>0, <2>1, NoneIsNoId DEF createTeam, AdminStays, TypeOK
  <2>2. ASSUME NEW t \in TeamIds, NEW g \in GroupIds \cup {None},
               acceptInvitation(u, t, g)
        PROVE  AdminStays
    BY <1>0, <2>2, NoneIsNoId DEF acceptInvitation, AdminStays, TypeOK
  <2>3. ASSUME NEW t \in TeamIds, leaveTeam(u, t)
        PROVE  AdminStays
    BY <1>0, <2>3 DEF leaveTeam, AdminStays, TypeOK
  <2>4. \/ memberOf' = memberOf
        \/ \E t \in TeamIds :
             \/ createTeam(u, t)
             \/ \E g \in GroupIds \cup {None} : acceptInvitation(u, t, g)
             \/ leaveTeam(u, t)
    BY <1>2
    DEF UserStep, leaveGroup, ReceiveDisbandTeam, ReceiveDeleteTeam,
        ReceiveCreateGroup, ReceivePatchMemberRole, ReceiveRemoveMember,
        ReceiveGroupMembership, ReceiveGroupLifecycle, Receive, tables,
        memberVars
  <2> QED
    BY <1>1, <2>1, <2>2, <2>3, <2>4
<1>3. ASSUME NEW p \in Requests, RequestStep(p)
      PROVE  AdminStays
  <2>1. CASE disbandTeam(p)
    BY <1>0, <2>1, NoneIsNoId DEF disbandTeam, AdminStays, TypeOK
  <2>2. CASE deleteTeam(p)
    <3>1. \A u \in Users : memberOf[u] # request[p].team
      BY <2>2, NoneIsNoId
      DEF deleteTeam, Integrity, MembersOnlyInActiveTeams, RequestsStayValid,
          TypeOK, WellFormed, Serving
    <3> QED
      BY <1>0, <2>2, <3>1 DEF deleteTeam, CascadeTeams, AdminStays, TypeOK
  <2>3. CASE patchMemberRole(p)
    BY <1>1, <2>3 DEF patchMemberRole, transferAdmin, assignSubadmin,
       demoteToMember, RoleChange
  <2>4. CASE removeMember(p)
    BY <1>0, <2>4 DEF removeMember, RemoveTarget, AdminStays, TypeOK
  <2>5. CASE Abort(p) \/ deleteGroup(p) \/ addGroupMember(p)
    BY <1>1, <2>5 DEF Abort, deleteGroup, addGroupMember, tables, memberVars
  <2>6. CASE disbandGroup(p) \/ deleteGroupRow(p)
    BY <1>1, <2>6 DEF disbandGroup, deleteGroupRow, memberVars
  <2>7. CASE insertGroupMember(p) \/ removeGroupMember(p)
    BY <1>1, <2>7 DEF insertGroupMember, removeGroupMember, memberVars
  <2> QED
    BY <1>3, <2>1, <2>2, <2>3, <2>4, <2>5, <2>6, <2>7 DEF RequestStep
<1>4. ASSUME NEW p \in Requests, NEW g \in GroupIds, createGroup(p, g)
      PROVE  AdminStays
  BY <1>1, <1>4 DEF createGroup, memberVars
<1> QED
  BY <1>2, <1>3, <1>4 DEF Next

\* For every instance: an admin loses the membership only with the team.
THEOREM AdminsLeaveOnlyByDisband == Spec => AdminLeavesOnlyByDisband
BY StepKeepsAdmin, IntegrityHolds, PTL DEF Spec, AdminLeavesOnlyByDisband

\* Every removal is by somebody with the authority for it in that very state.
LEMMA StepRemovesWithAuthority ==
  TypeOK /\ [Next]_vars => [RemoverHasAuthority]_vars
<1> SUFFICES ASSUME TypeOK, Next,
                    NEW p \in Requests, NEW u \in Users,
                    Serving(p, "removeMember"), request'[p] = Idle,
                    memberOf[u] # None, memberOf'[u] = None
             PROVE  LET a == request[p].actor
                    IN  /\ memberOf[a] = memberOf[u]
                        /\ \/ role[a] = "admin"
                           \/ role[a] = "subadmin" /\ role[u] = "member"
  BY DEF RemoverHasAuthority
<1>1. request[p].op = "removeMember" /\ request[p] # Idle /\ memberOf' # memberOf
  BY DEF Serving, Idle
<1>2. ~ \E v \in Users : UserStep(v)
  BY <1>1
  DEF UserStep, createTeam, acceptInvitation, leaveTeam, leaveGroup,
      ReceiveDisbandTeam, ReceiveDeleteTeam, ReceiveCreateGroup,
      ReceivePatchMemberRole, ReceiveRemoveMember, ReceiveGroupMembership,
      ReceiveGroupLifecycle, Receive, tables, memberVars
<1>3. ~ \E q \in Requests, g \in GroupIds : createGroup(q, g)
  BY <1>1 DEF createGroup, memberVars
<1>4. PICK q \in Requests : RequestStep(q)
  BY <1>2, <1>3 DEF Next
<1>5. \/ removeMember(q)
      \/ (disbandTeam(q) \/ deleteTeam(q)) /\ Finish(q)
  BY <1>1, <1>4
  DEF RequestStep, Abort, patchMemberRole, transferAdmin, assignSubadmin,
      demoteToMember, RoleChange, disbandGroup, deleteGroup, deleteGroupRow,
      addGroupMember, insertGroupMember, removeGroupMember, disbandTeam,
      deleteTeam, tables, memberVars
<1>6. removeMember(q) /\ q = p
  BY <1>1, <1>5
  DEF disbandTeam, deleteTeam, removeMember, RemoveTarget, Serving, Finish, TypeOK
<1> QED
  BY <1>6 DEF removeMember, RemoveTarget, HasRole, TypeOK, Roles

\* For every instance: a removal acts on the authority its caller has then.
THEOREM RemovalsAreAuthorised == Spec => RemovalIsAuthorised
BY StepRemovesWithAuthority, TypeCorrect, PTL DEF Spec, RemovalIsAuthorised

-----------------------------------------------------------------------------
(* Refinement: whatever requests, locks and groups do, each step changes the *)
(* seats as one step of module Membership, or not at all.                    *)


\* Steps that touch neither teams nor members are stutters of Membership.
LEMMA SeatsUnchanged ==
  ASSUME UNCHANGED <<teamStatus, memberOf, role>>
  PROVE  UNCHANGED Seats!seats
BY DEF Seats!seats

\* Membership's holders of a role are the members that have it.
LEMMA HoldersAre ==
  ASSUME NEW t, NEW r
  PROVE  Seats!Holders(t, r) = {u \in Users : memberOf[u] = t /\ role[u] = r}
BY DEF Seats!Holders, Seats!Seat

\* Empty tables are empty seats.
LEMMA InitRefines == Init => Seats!Init
BY DEF Init, Seats!Init, Seats!NoSeat

\* Users' own steps.
LEMMA UserStepRefines ==
  ASSUME Integrity, NEW u \in Users, UserStep(u)
  PROVE  Seats!Next \/ UNCHANGED Seats!seats
<1>0. TypeOK
  BY DEF Integrity
<1>1. ASSUME NEW t \in TeamIds, createTeam(u, t)
      PROVE  Seats!Found(u, t)
  BY <1>0, <1>1
  DEF createTeam, FreshTeam, TypeOK, Seats!Found, Seats!Seat, Seats!NoSeat
<1>2. ASSUME NEW t \in TeamIds, NEW g \in GroupIds \cup {None},
             acceptInvitation(u, t, g)
      PROVE  Seats!Join(u, t)
  BY <1>0, <1>2
  DEF acceptInvitation, teamVars, TypeOK, Seats!Join, Seats!Seat, Seats!NoSeat
<1>3. ASSUME NEW t \in TeamIds, leaveTeam(u, t)
      PROVE  Seats!Depart(u, t)
  <2>1. role[u] \in {"member", "subadmin"}
    BY <1>0, <1>3, NoneIsNoId DEF leaveTeam, TypeOK, Roles
  <2> QED
    BY <1>0, <1>3, <2>1
    DEF leaveTeam, teamVars, TypeOK, Seats!Depart, Seats!Seat, Seats!NoSeat
<1>4. \/ UNCHANGED <<teamStatus, memberOf, role>>
      \/ \E t \in TeamIds :
           \/ createTeam(u, t)
           \/ \E g \in GroupIds \cup {None} : acceptInvitation(u, t, g)
           \/ leaveTeam(u, t)
  BY DEF UserStep, leaveGroup, ReceiveDisbandTeam, ReceiveDeleteTeam,
       ReceiveCreateGroup, ReceivePatchMemberRole, ReceiveRemoveMember,
       ReceiveGroupMembership, ReceiveGroupLifecycle, Receive, tables,
       teamVars, memberVars
<1> QED
  BY <1>1, <1>2, <1>3, <1>4, SeatsUnchanged DEF Seats!Next

\* A role change is a step of Membership: succession, appointment or demotion.
LEMMA RoleChangeRefines ==
  ASSUME Integrity, NEW p \in Requests, patchMemberRole(p)
  PROVE  Seats!Next
<1>0. TypeOK
  BY DEF Integrity
<1>1. PICK u \in Users, t \in TeamIds :
        u = request[p].target /\ t = request[p].team
  BY <1>0, RoleChangeTarget
  DEF patchMemberRole, transferAdmin, assignSubadmin, demoteToMember, Roles
<1>2. memberOf[u] = t /\ UNCHANGED <<teamStatus, memberOf>>
  BY <1>0, <1>1, RoleChangeTarget
  DEF patchMemberRole, transferAdmin, assignSubadmin, demoteToMember,
      RoleChange, teamVars
<1>3. role[u] \in Roles
  BY <1>0, <1>2, NoneIsNoId DEF TypeOK
<1>4. CASE transferAdmin(p)
  <2>1. role[u] # "admin"
    BY <1>1, <1>4 DEF transferAdmin, RoleChange
  <2>2. role' = [v \in Users |-> IF v = u THEN "admin"
                 ELSE IF memberOf[v] = t /\ role[v] = "admin" THEN "member"
                 ELSE role[v]]
    BY <1>1, <1>4 DEF transferAdmin, HasRole
  <2>3. Seats!Succeed(u, t)
    BY <1>0, <1>2, <1>3, <2>1, <2>2, HoldersAre
    DEF TypeOK, Roles, Seats!Succeed, Seats!Seat
  <2> QED
    BY <2>3 DEF Seats!Next
<1>5. CASE assignSubadmin(p)
  <2>1. /\ role[u] # "subadmin"
        /\ role' = [role EXCEPT ![u] = "subadmin"]
        /\ Cardinality(Subadmins(t)) < SubadminCap
    BY <1>1, <1>5 DEF assignSubadmin, RoleChange
  <2>2. Seats!Holders(t, "subadmin") = Subadmins(t)
    BY HoldersAre DEF Subadmins
  <2>3. Seats!Cardinality(Subadmins(t)) = Cardinality(Subadmins(t))
    BY DEF Cardinality, Seats!Cardinality
  <2>4. Seats!Appoint(u, t)
    BY <1>0, <1>2, <1>3, <2>1, <2>2, <2>3
    DEF TypeOK, Roles, Seats!Appoint, Seats!Seat
  <2> QED
    BY <2>4 DEF Seats!Next
<1>6. CASE demoteToMember(p)
  <2>1. role[u] # "member" /\ role' = [role EXCEPT ![u] = "member"]
    BY <1>1, <1>6 DEF demoteToMember, RoleChange
  <2>2. Seats!Demote(u, t)
    BY <1>0, <1>2, <1>3, <2>1 DEF TypeOK, Roles, Seats!Demote, Seats!Seat
  <2> QED
    BY <2>2 DEF Seats!Next
<1> QED
  BY <1>4, <1>5, <1>6 DEF patchMemberRole

\* What the server does for requests.
LEMMA RequestStepRefines ==
  ASSUME Integrity, NEW p \in Requests, RequestStep(p)
  PROVE  Seats!Next \/ UNCHANGED Seats!seats
<1>0. TypeOK
  BY DEF Integrity
<1>1. CASE disbandTeam(p)
  <2>1. PICK t \in TeamIds : t = request[p].team
    BY <1>0, <1>1 DEF TypeOK, disbandTeam, Serving, WellFormed
  <2>2. /\ teamStatus[t] = "active"
        /\ teamStatus' = [teamStatus EXCEPT ![t] = "disbanded"]
        /\ memberOf' = [u \in Users |-> IF memberOf[u] = t THEN None ELSE memberOf[u]]
        /\ role' = [u \in Users |-> IF memberOf[u] = t THEN "none" ELSE role[u]]
    BY <1>1, <2>1 DEF disbandTeam
  <2>3. Seats!Dissolve(t)
    BY <1>0, <2>2 DEF TypeOK, Seats!Dissolve, Seats!NoSeat
  <2> QED
    BY <2>3 DEF Seats!Next
<1>2. CASE deleteTeam(p)
  <2> DEFINE t == request[p].team
  <2>1. t \in TeamIds /\ teamStatus[t] # "active"
    BY <1>0, <1>2
    DEF Integrity, TypeOK, RequestsStayValid, deleteTeam, Serving, WellFormed
  <2>2. \A u \in Users : memberOf[u] # t
    BY <2>1, NoneIsNoId DEF Integrity, MembersOnlyInActiveTeams
  <2>3. UNCHANGED <<memberOf, role>>
    BY <1>0, <1>2, <2>2 DEF TypeOK, deleteTeam, CascadeTeams
  <2>4. teamStatus' = [teamStatus EXCEPT ![t] = "none"]
    BY <1>0, <1>2 DEF TypeOK, deleteTeam, CascadeTeams
  <2>5. CASE teamStatus[t] = "none"
    <3>1. UNCHANGED teamStatus
      BY <1>0, <2>4, <2>5 DEF TypeOK
    <3> QED
      BY <2>3, <3>1, SeatsUnchanged
  <2>6. CASE teamStatus[t] = "disbanded"
    <3>1. Seats!Erase(t)
      BY <2>3, <2>4, <2>6 DEF Seats!Erase
    <3> QED
      BY <2>1, <3>1 DEF Seats!Next
  <2> QED
    BY <1>0, <2>1, <2>5, <2>6 DEF TypeOK, Statuses
<1>3. CASE patchMemberRole(p)
  BY <1>3, RoleChangeRefines
<1>4. CASE removeMember(p)
  <2>1. PICK u \in Users, t \in TeamIds :
          u = request[p].target /\ t = request[p].team
    BY <1>0, <1>4 DEF TypeOK, removeMember, RemoveTarget, Serving, WellFormed, HasTarget
  <2>2. memberOf[u] = t /\ role[u] \in {"member", "subadmin"}
    BY <1>0, <1>4, <2>1, NoneIsNoId DEF TypeOK, removeMember, RemoveTarget, Roles
  <2>3. Seats!Depart(u, t)
    BY <1>0, <1>4, <2>1, <2>2
    DEF TypeOK, removeMember, RemoveTarget, teamVars, Seats!Depart, Seats!Seat, Seats!NoSeat
  <2> QED
    BY <2>3 DEF Seats!Next
<1>5. CASE ~(disbandTeam(p) \/ deleteTeam(p) \/ patchMemberRole(p) \/ removeMember(p))
  <2>1. UNCHANGED <<teamStatus, memberOf, role>>
    BY <1>5
    DEF RequestStep, Abort, disbandGroup, deleteGroup, deleteGroupRow,
        addGroupMember, insertGroupMember, removeGroupMember, tables,
        teamVars, memberVars
  <2> QED
    BY <2>1, SeatsUnchanged
<1> QED
  BY <1>1, <1>2, <1>3, <1>4, <1>5

\* Every step of Teams is a step of Membership or a stutter.
LEMMA NextRefines ==
  Integrity /\ [Next]_vars => [Seats!Next]_(Seats!seats)
<1> SUFFICES ASSUME Integrity, [Next]_vars
             PROVE  Seats!Next \/ UNCHANGED Seats!seats
  OBVIOUS
<1>1. CASE UNCHANGED vars
  BY <1>1, SeatsUnchanged DEF vars, tables, teamVars, memberVars
<1>2. ASSUME NEW p \in Requests, NEW g \in GroupIds, createGroup(p, g)
      PROVE  UNCHANGED Seats!seats
  BY <1>2, SeatsUnchanged DEF createGroup, teamVars, memberVars
<1> QED
  BY <1>1, <1>2, UserStepRefines, RequestStepRefines DEF Next

\* For every instance the team tables implement Membership: seats only change
\* as it says, under any interleaving of requests.
THEOREM TeamsImplementMembership == Spec => ImplementsMembership
BY InitRefines, NextRefines, IntegrityHolds, PTL
DEF Spec, ImplementsMembership, Seats!Spec

-----------------------------------------------------------------------------
(* Teams next to account deletion: module TeamAccounts *)

AccountsType ==
  /\ accounts \in SUBSET Users
  /\ groupCreatedBy \in [GroupIds -> Users \cup {None}]

\* Inductive: a locked member row is that of a member, therefore of an account,
\* so Integrity is what keeps an insertion in flight from writing a row for
\* somebody who is gone.
AccountsInv ==
  /\ Integrity
  /\ AccountsType
  /\ DeletedAccountLeavesNoRows
  /\ GroupMemberOnTeamAfterCascade

-----------------------------------------------------------------------------
(* What the steps of module Teams do to other people's rows *)

\* What a user starts is about that user's own rows, and touches no group row.
LEMMA UserStepIsOwn ==
  ASSUME TypeOK, NEW u \in Users, UserStep(u)
  PROVE  /\ \A v \in Users \ {u} : memberOf'[v] = memberOf[v] /\ groupOf'[v] = groupOf[v]
         /\ \A t \in TeamIds : createdBy'[t] \in {createdBy[t], u}
         /\ \A t \in TeamIds : teamStatus'[t] \in {teamStatus[t], "active"}
         /\ UNCHANGED groupVars
<1>1. ASSUME NEW t \in TeamIds, createTeam(u, t)
      PROVE  /\ \A v \in Users \ {u} : memberOf'[v] = memberOf[v]
             /\ \A s \in TeamIds : createdBy'[s] \in {createdBy[s], u}
             /\ \A s \in TeamIds : teamStatus'[s] \in {teamStatus[s], "active"}
             /\ UNCHANGED <<groupVars, groupOf>>
  BY <1>1 DEF createTeam, TypeOK
<1>2. ASSUME NEW t \in TeamIds,
             \/ \E g \in GroupIds \cup {None} : acceptInvitation(u, t, g)
             \/ leaveTeam(u, t)
      PROVE  /\ \A v \in Users \ {u} :
                  memberOf'[v] = memberOf[v] /\ groupOf'[v] = groupOf[v]
             /\ UNCHANGED <<teamVars, groupVars>>
  BY <1>2 DEF acceptInvitation, leaveTeam, TypeOK
<1>3. \/ UNCHANGED tables
      \/ \E t \in TeamIds :
           \/ createTeam(u, t)
           \/ \E g \in GroupIds \cup {None} : acceptInvitation(u, t, g)
           \/ leaveTeam(u, t)
      \/ \E g \in GroupIds : leaveGroup(u, g)
  BY DEF UserStep, ReceiveDisbandTeam, ReceiveDeleteTeam, ReceiveCreateGroup,
     ReceivePatchMemberRole, ReceiveRemoveMember, ReceiveGroupMembership,
     ReceiveGroupLifecycle, Receive
<1>4. ASSUME NEW g \in GroupIds, leaveGroup(u, g)
      PROVE  /\ \A v \in Users \ {u} :
                  memberOf'[v] = memberOf[v] /\ groupOf'[v] = groupOf[v]
             /\ UNCHANGED <<teamVars, groupVars>>
  BY <1>4 DEF leaveGroup, memberVars, TypeOK
<1> QED
  BY <1>1, <1>2, <1>3, <1>4 DEF tables, teamVars, memberVars

\* No row of groups comes up, and one that stays has its team in place.
GroupsShrink ==
  \A g \in GroupIds : groupStatus'[g] # "none" =>
    /\ groupStatus[g] # "none"
    /\ groupTeam'[g] = groupTeam[g]
    /\ teamStatus[groupTeam[g]] # "none" => teamStatus'[groupTeam[g]] # "none"

\* The server's part of a request gives nobody a team or a group, but for the
\* user whose member row the insertion has locked.
LEMMA RequestStepShrinks ==
  ASSUME TypeOK, NEW p \in Requests, RequestStep(p)
  PROVE  /\ \A v \in Users : memberOf'[v] \in {memberOf[v], None}
         /\ \A v \in Users :
              \/ groupOf'[v] \in {groupOf[v], None}
              \/ Serving(p, "insertGroupMember") /\ v = request[p].target
         /\ \A t \in TeamIds : createdBy'[t] \in {createdBy[t], None}
         /\ GroupsShrink
<1>0. /\ request[p] \in Request /\ WellFormed(request[p])
      /\ \A g \in GroupIds : groupTeam[g] \in TeamIds \cup {None}
  BY DEF TypeOK
<1>1. CASE Abort(p) \/ deleteGroup(p) \/ addGroupMember(p)
  BY <1>1 DEF Abort, deleteGroup, addGroupMember, tables, teamVars, memberVars,
     groupVars, GroupsShrink
<1>2. CASE disbandTeam(p)
  BY <1>0, <1>2 DEF disbandTeam, groupVars, GroupsShrink, TypeOK
<1>3. CASE deleteTeam(p)
  BY <1>0, <1>3, NoneIsNoId DEF deleteTeam, CascadeTeams, CascadeGroups, GroupsOf, GroupsShrink,
     TypeOK
<1>4. CASE patchMemberRole(p)
  BY <1>4 DEF patchMemberRole, transferAdmin, assignSubadmin, demoteToMember,
     RoleChange, teamVars, groupVars, GroupsShrink
<1>5. CASE removeMember(p)
  BY <1>5 DEF removeMember, RemoveTarget, teamVars, groupVars, GroupsShrink, TypeOK
<1>6. CASE disbandGroup(p)
  <2>1. groupStatus[request[p].group] # "none"
    BY <1>0, <1>6, NoneIsNoId
    DEF disbandGroup, Serving, WellFormed, HasGroup, TypeOK
  <2> QED
    BY <1>0, <1>6, <2>1 DEF disbandGroup, teamVars, memberVars, GroupsShrink, TypeOK
<1>7. CASE deleteGroupRow(p)
  BY <1>7 DEF deleteGroupRow, CascadeGroups, teamVars, memberVars, GroupsShrink, TypeOK
<1>8. CASE insertGroupMember(p) \/ removeGroupMember(p)
  BY <1>8 DEF insertGroupMember, removeGroupMember, teamVars, memberVars, groupVars,
     GroupsShrink, TypeOK
<1> QED
  BY <1>1, <1>2, <1>3, <1>4, <1>5, <1>6, <1>7, <1>8 DEF RequestStep

-----------------------------------------------------------------------------
(* The steps of module Teams among accounts *)

LEMMA UserStepAccounts ==
  ASSUME AccountsInv, NEW u \in accounts, UserStep(u),
         UNCHANGED <<accounts, groupCreatedBy>>
  PROVE  AccountsInv'
<1>0. TypeOK /\ u \in Users
  BY DEF AccountsInv, Integrity, AccountsType
<1>1. /\ \A v \in Users \ {u} : memberOf'[v] = memberOf[v] /\ groupOf'[v] = groupOf[v]
      /\ \A t \in TeamIds : createdBy'[t] \in {createdBy[t], u}
      /\ \A t \in TeamIds : teamStatus'[t] \in {teamStatus[t], "active"}
      /\ UNCHANGED groupVars
  BY <1>0, UserStepIsOwn
<1>2. Integrity'
  BY <1>0, NextIntegrity DEF AccountsInv, Next
<1>3. DeletedAccountLeavesNoRows'
  BY <1>0, <1>1 DEF AccountsInv, DeletedAccountLeavesNoRows
<1>4. GroupMemberOnTeamAfterCascade'
  <2>1. \A g \in GroupIds : groupStatus[g] # "none" => groupTeam[g] \in TeamIds
    BY <1>0 DEF TypeOK
  <2> QED
    BY <1>1, <1>2, <2>1 DEF AccountsInv, GroupMemberOnTeamAfterCascade, Integrity, groupVars
<1> QED
  BY <1>2, <1>3, <1>4 DEF AccountsInv, AccountsType

LEMMA RequestStepAccounts ==
  ASSUME AccountsInv, NEW p \in Requests, RequestStep(p), CreatorsFollowRows,
         UNCHANGED accounts
  PROVE  AccountsInv'
<1>0. TypeOK /\ RequestsStayValid /\ WellFormed(request[p])
  BY DEF AccountsInv, Integrity, TypeOK
<1>1. /\ \A v \in Users : memberOf'[v] \in {memberOf[v], None}
      /\ \A v \in Users :
           \/ groupOf'[v] \in {groupOf[v], None}
           \/ Serving(p, "insertGroupMember") /\ v = request[p].target
      /\ \A t \in TeamIds : createdBy'[t] \in {createdBy[t], None}
      /\ GroupsShrink
  BY <1>0, RequestStepShrinks
<1>2. Integrity'
  BY NextIntegrity DEF AccountsInv, Next
<1>3. AccountsType'
  BY DEF AccountsInv, AccountsType, CreatorsFollowRows
<1>4. DeletedAccountLeavesNoRows'
  <2>1. Serving(p, "insertGroupMember") => request[p].target \in accounts
    <3>1. Serving(p, "insertGroupMember") =>
            /\ request[p].target \in Users /\ request[p].team \in TeamIds
            /\ memberOf[request[p].target] = request[p].team
      BY <1>0 DEF RequestsStayValid, Serving, WellFormed, HasTarget
    <3> QED
      BY <3>1, NoneIsNoId DEF AccountsInv, DeletedAccountLeavesNoRows
  <2>2. \A g \in GroupIds : groupCreatedBy'[g] \in {groupCreatedBy[g], None}
    BY DEF CreatorsFollowRows
  <2> QED
    BY <1>1, <2>1, <2>2 DEF AccountsInv, DeletedAccountLeavesNoRows
<1>5. GroupMemberOnTeamAfterCascade'
  BY <1>1, <1>2 DEF AccountsInv, GroupMemberOnTeamAfterCascade, GroupsShrink, Integrity
<1> QED
  BY <1>2, <1>3, <1>4, <1>5 DEF AccountsInv

LEMMA InsertGroupAccounts ==
  ASSUME AccountsInv, NEW p \in Requests, NEW g \in GroupIds, insertOwnedGroup(p, g)
  PROVE  AccountsInv'
<1>0. TypeOK /\ WellFormed(request[p])
  BY DEF AccountsInv, Integrity, TypeOK
<1>1. createGroup(p, g)
  BY DEF insertOwnedGroup
<1>2. Integrity'
  BY <1>1, NextIntegrity DEF AccountsInv, Next
<1>3. AccountsType' /\ DeletedAccountLeavesNoRows'
  BY <1>0, <1>1 DEF AccountsInv, AccountsType, DeletedAccountLeavesNoRows,
     insertOwnedGroup, createGroup, teamVars, memberVars
<1>4. GroupMemberOnTeamAfterCascade'
  BY <1>0, <1>1, <1>2 DEF AccountsInv, GroupMemberOnTeamAfterCascade, Integrity,
     createGroup, teamVars, TypeOK
<1> QED
  BY <1>2, <1>3, <1>4 DEF AccountsInv

\* A new account has no rows yet, its predecessor under that id left none.
LEMMA RegisterAccounts ==
  ASSUME AccountsInv, NEW u \in Users, registerAccount(u)
  PROVE  AccountsInv'
<1>1. UNCHANGED vars /\ UNCHANGED groupCreatedBy /\ accounts' = accounts \cup {u}
  BY DEF registerAccount
<1>2. Integrity'
  BY <1>1, NextIntegrity DEF AccountsInv
<1> QED
  BY <1>1, <1>2 DEF AccountsInv, AccountsType, DeletedAccountLeavesNoRows,
     GroupMemberOnTeamAfterCascade, Integrity, vars, tables, teamVars, memberVars, groupVars

-----------------------------------------------------------------------------
(* The deletion of an account *)

\* The team ids u created, and the group ids that go with them.
Owned(u) == {t \in TeamIds : createdBy[t] = u}

OwnedGroups(u) == GroupsOf(Owned(u)) \cup {g \in GroupIds : groupCreatedBy[g] = u}

\* The cascades, column by column.
Cascaded(u) ==
  /\ u \in accounts /\ accounts' = accounts \ {u}
  /\ ~RowLocked(u) /\ \A t \in Owned(u) : ~RowsLocked(t)
  /\ teamStatus' = [t \in TeamIds |-> IF t \in Owned(u) THEN "none" ELSE teamStatus[t]]
  /\ createdBy' = [t \in TeamIds |-> IF t \in Owned(u) THEN None ELSE createdBy[t]]
  /\ memberOf' = [v \in Users |->
       IF memberOf[v] \in Owned(u) \/ v = u THEN None ELSE memberOf[v]]
  /\ role' = [v \in Users |->
       IF memberOf[v] \in Owned(u) \/ v = u THEN "none" ELSE role[v]]
  /\ groupStatus' = [g \in GroupIds |->
       IF g \in OwnedGroups(u) THEN "none" ELSE groupStatus[g]]
  /\ groupTeam' = [g \in GroupIds |-> IF g \in OwnedGroups(u) THEN None ELSE groupTeam[g]]
  /\ groupOf' = [v \in Users |->
       IF groupOf[v] \in OwnedGroups(u) \/ v = u THEN None ELSE groupOf[v]]
  /\ groupCreatedBy' = [g \in GroupIds |->
       IF groupStatus'[g] = "none" THEN None ELSE groupCreatedBy[g]]
  /\ UNCHANGED request

LEMMA DeletionCascades ==
  ASSUME NEW u, deleteAccount(u)
  PROVE  Cascaded(u)
<1> DEFINE T == Owned(u)
           G == OwnedGroups(u)
<1>1. /\ u \in accounts /\ accounts' = accounts \ {u}
      /\ ~RowLocked(u) /\ \A t \in T : ~RowsLocked(t)
      /\ CascadeTeams(T, {u}) /\ CascadeGroups(G, {u})
      /\ CreatorsFollowRows
      /\ UNCHANGED request
  BY DEF deleteAccount, Owned, OwnedGroups
<1> HIDE DEF T, G
<1>2. /\ teamStatus' = [t \in TeamIds |-> IF t \in T THEN "none" ELSE teamStatus[t]]
      /\ createdBy' = [t \in TeamIds |-> IF t \in T THEN None ELSE createdBy[t]]
      /\ memberOf' = [v \in Users |-> IF memberOf[v] \in T \/ v = u THEN None ELSE memberOf[v]]
      /\ role' = [v \in Users |-> IF memberOf[v] \in T \/ v = u THEN "none" ELSE role[v]]
  BY <1>1 DEF CascadeTeams
<1>3. /\ groupStatus' = [g \in GroupIds |-> IF g \in G THEN "none" ELSE groupStatus[g]]
      /\ groupTeam' = [g \in GroupIds |-> IF g \in G THEN None ELSE groupTeam[g]]
      /\ groupOf' = [v \in Users |-> IF groupOf[v] \in G \/ v = u THEN None ELSE groupOf[v]]
  BY <1>1 DEF CascadeGroups
<1> QED
  BY <1>1, <1>2, <1>3 DEF T, G, Cascaded, CreatorsFollowRows

\* The cascades keep every column in its domain.
LEMMA DeletionType ==
  ASSUME AccountsInv, NEW u \in Users, deleteAccount(u)
  PROVE  TypeOK' /\ AccountsType'
<1>0. TypeOK /\ Cascaded(u)
  BY DeletionCascades DEF AccountsInv, Integrity
<1>1. /\ teamStatus' \in [TeamIds -> Statuses]
      /\ createdBy' \in [TeamIds -> Users \cup {None}]
      /\ memberOf' \in [Users -> TeamIds \cup {None}]
      /\ role' \in [Users -> Roles \cup {"none"}]
      /\ \A v \in Users : memberOf'[v] = None <=> role'[v] = "none"
  BY <1>0 DEF Cascaded, TypeOK, Statuses
<1>2. /\ groupStatus' \in [GroupIds -> Statuses]
      /\ groupTeam' \in [GroupIds -> TeamIds \cup {None}]
      /\ groupOf' \in [Users -> GroupIds \cup {None}]
      /\ \A g \in GroupIds : groupTeam'[g] = None <=> groupStatus'[g] = "none"
  BY <1>0 DEF Cascaded, TypeOK, Statuses
<1>3. TypeOK'
  BY <1>0, <1>1, <1>2 DEF TypeOK, Cascaded
<1>4. AccountsType'
  BY <1>0 DEF Cascaded, AccountsInv, AccountsType
<1> QED
  BY <1>3, <1>4

\* Whoever is in a group that stays has a seat that stays: the group's team is
\* the seat's, and had that gone the group would have gone with it.
LEMMA DeletionIntegrity ==
  ASSUME AccountsInv, NEW u \in Users, deleteAccount(u)
  PROVE  Integrity'
<1>0. /\ TypeOK /\ TypeOK' /\ Cascaded(u)
      /\ MembersOnlyInActiveTeams /\ GroupMemberOnTeam /\ RequestsStayValid
  BY DeletionType, DeletionCascades DEF AccountsInv, Integrity
<1>1. \A v \in Users : memberOf'[v] # None => memberOf'[v] = memberOf[v] /\ memberOf[v] \notin Owned(u)
  BY <1>0 DEF Cascaded
<1>2. \A t \in TeamIds \ Owned(u) : teamStatus'[t] = teamStatus[t]
  BY <1>0 DEF Cascaded
<1>3. \A g \in GroupIds \ OwnedGroups(u) :
        groupStatus'[g] = groupStatus[g] /\ groupTeam'[g] = groupTeam[g]
  BY <1>0 DEF Cascaded
<1>4. MembersOnlyInActiveTeams'
  BY <1>0, <1>1, <1>2 DEF MembersOnlyInActiveTeams, TypeOK
<1>5. GroupMemberOnTeam'
  <2> SUFFICES ASSUME NEW v \in Users, groupOf'[v] # None
               PROVE  /\ groupStatus'[groupOf'[v]] # "none"
                      /\ memberOf'[v] = groupTeam'[groupOf'[v]]
    BY DEF GroupMemberOnTeam
  <2>1. v # u /\ groupOf'[v] = groupOf[v] /\ groupOf[v] \in GroupIds \ OwnedGroups(u)
    BY <1>0 DEF Cascaded, TypeOK
  <2>2. groupStatus[groupOf[v]] # "none" /\ memberOf[v] = groupTeam[groupOf[v]]
    BY <1>0, <2>1, NoneIsNoId DEF GroupMemberOnTeam
  <2>3. memberOf[v] \notin Owned(u)
    BY <2>1, <2>2 DEF OwnedGroups, GroupsOf
  <2>4. memberOf'[v] = memberOf[v]
    BY <1>0, <2>1, <2>3 DEF Cascaded
  <2> QED
    BY <1>3, <2>1, <2>2, <2>4
<1>6. RequestsStayValid'
  <2> SUFFICES ASSUME NEW p \in Requests
               PROVE  /\ Serving(p, "insertGroupMember")' =>
                           /\ memberOf'[request[p].target] = request[p].team
                           /\ groupStatus'[request[p].group] # "none" =>
                                groupTeam'[request[p].group] = request[p].team
                      /\ Serving(p, "deleteTeam")' => teamStatus'[request[p].team] # "active"
    BY <1>0 DEF RequestsStayValid, Serving, Cascaded
  <2>0. request[p] \in Request /\ WellFormed(request[p]) /\ request' = request
    BY <1>0 DEF TypeOK, Cascaded
  <2>1. ASSUME Serving(p, "insertGroupMember")
        PROVE  /\ memberOf'[request[p].target] = request[p].team
               /\ groupStatus'[request[p].group] # "none" =>
                    groupTeam'[request[p].group] = request[p].team
    <3> DEFINE v == request[p].target
               g == request[p].group
    <3>1. v \in Users /\ g \in GroupIds /\ memberOf[v] = request[p].team
          /\ (groupStatus[g] # "none" => groupTeam[g] = request[p].team)
      BY <1>0, <2>0, <2>1 DEF RequestsStayValid, Serving, WellFormed, HasTarget, HasGroup
    <3>2. RowLocked(v)
      BY <2>1 DEF RowLocked, Serving
    <3>3. v # u /\ memberOf[v] \notin Owned(u)
      BY <1>0, <3>1, <3>2 DEF RowsLocked, Members, Cascaded
    <3>4. memberOf'[v] = memberOf[v]
      BY <1>0, <3>1, <3>3 DEF Cascaded
    <3>5. groupStatus'[g] # "none" => groupStatus[g] # "none" /\ groupTeam'[g] = groupTeam[g]
      BY <1>0, <3>1 DEF Cascaded
    <3> QED
      BY <3>1, <3>4, <3>5
  <2>2. ASSUME Serving(p, "deleteTeam")
        PROVE  teamStatus'[request[p].team] # "active"
    <3>1. request[p].team \in TeamIds
      BY <2>0, <2>2 DEF WellFormed, Serving
    <3>2. teamStatus[request[p].team] # "active"
      BY <1>0, <2>2 DEF RequestsStayValid
    <3>3. teamStatus'[request[p].team] \in {teamStatus[request[p].team], "none"}
      BY <1>0, <3>1 DEF Cascaded
    <3> QED
      BY <3>2, <3>3
  <2> QED
    BY <2>0, <2>1, <2>2 DEF Serving
<1> QED
  BY <1>0, <1>4, <1>5, <1>6 DEF Integrity

LEMMA DeletionAccounts ==
  ASSUME AccountsInv, NEW u \in Users, deleteAccount(u)
  PROVE  AccountsInv'
<1>0. TypeOK /\ Cascaded(u) /\ DeletedAccountLeavesNoRows /\ GroupMemberOnTeamAfterCascade
  BY DeletionCascades DEF AccountsInv, Integrity
<1>1. Integrity' /\ AccountsType'
  BY DeletionIntegrity, DeletionType
<1>2. DeletedAccountLeavesNoRows'
  <2>1. \A v \in Users \ accounts' : memberOf'[v] = None /\ groupOf'[v] = None
    BY <1>0 DEF Cascaded, DeletedAccountLeavesNoRows
  <2>2. \A t \in TeamIds : createdBy'[t] \in accounts' \cup {None}
    BY <1>0 DEF Cascaded, Owned, DeletedAccountLeavesNoRows
  <2>3. \A g \in GroupIds : groupCreatedBy'[g] \in accounts' \cup {None}
    <3> SUFFICES ASSUME NEW g \in GroupIds
                 PROVE  groupCreatedBy'[g] \in accounts' \cup {None}
      OBVIOUS
    <3>1. CASE groupCreatedBy[g] = u
      <4>1. groupStatus'[g] = "none"
        BY <1>0, <3>1 DEF Cascaded, OwnedGroups
      <4> QED
        BY <1>0, <4>1 DEF Cascaded
    <3>2. CASE groupCreatedBy[g] # u
      BY <1>0, <3>2 DEF Cascaded, DeletedAccountLeavesNoRows
    <3> QED
      BY <3>1, <3>2
  <2> QED
    BY <2>1, <2>2, <2>3 DEF DeletedAccountLeavesNoRows
<1>3. GroupMemberOnTeamAfterCascade'
  <2>1. ASSUME NEW g \in GroupIds, groupStatus'[g] # "none"
        PROVE  teamStatus'[groupTeam'[g]] # "none"
    <3>1. g \notin OwnedGroups(u) /\ groupStatus'[g] = groupStatus[g] /\ groupTeam'[g] = groupTeam[g]
      BY <1>0, <2>1 DEF Cascaded
    <3>2. groupTeam[g] \in TeamIds \ Owned(u)
      BY <1>0, <2>1, <3>1 DEF TypeOK, OwnedGroups, GroupsOf
    <3>3. teamStatus'[groupTeam[g]] = teamStatus[groupTeam[g]]
      BY <1>0, <3>2 DEF Cascaded
    <3> QED
      BY <1>0, <2>1, <3>1, <3>3 DEF GroupMemberOnTeamAfterCascade
  <2> QED
    BY <1>1, <2>1 DEF GroupMemberOnTeamAfterCascade, Integrity
<1> QED
  BY <1>1, <1>2, <1>3 DEF AccountsInv

-----------------------------------------------------------------------------
LEMMA InitAccounts == AccountsInit => AccountsInv
<1> SUFFICES ASSUME AccountsInit PROVE AccountsInv
  OBVIOUS
<1>1. Init /\ Integrity
  BY InitIntegrity DEF AccountsInit
<1> QED
  BY <1>1 DEF AccountsInit, Init, AccountsInv, AccountsType, DeletedAccountLeavesNoRows,
     GroupMemberOnTeamAfterCascade, Integrity

LEMMA NextAccounts == AccountsInv /\ [AccountsNext]_accountVars => AccountsInv'
<1> SUFFICES ASSUME AccountsInv, [AccountsNext]_accountVars PROVE AccountsInv'
  OBVIOUS
<1>1. CASE UNCHANGED accountVars
  <2>1. Integrity'
    BY <1>1, NextIntegrity DEF AccountsInv, accountVars
  <2> QED
    BY <1>1, <2>1 DEF AccountsInv, AccountsType, DeletedAccountLeavesNoRows,
       GroupMemberOnTeamAfterCascade, Integrity, accountVars, vars, tables, teamVars,
       memberVars, groupVars
<1>2. CASE AccountsNext
  BY <1>2, UserStepAccounts, RequestStepAccounts, InsertGroupAccounts, DeletionAccounts,
     RegisterAccounts DEF AccountsNext
<1> QED
  BY <1>1, <1>2

LEMMA AccountsInvariant == AccountsSpec => []AccountsInv
BY InitAccounts, NextAccounts, PTL DEF AccountsSpec

\* Whatever an account had, created or was about to be given, nothing in the
\* team tables refers to it once it is deleted.
THEOREM DeletionLeavesNoRows == AccountsSpec => []DeletedAccountLeavesNoRows
<1>1. AccountsInv => DeletedAccountLeavesNoRows
  BY DEF AccountsInv
<1> QED
  BY <1>1, AccountsInvariant, PTL

\* A group outlives neither its team nor its members' seats, through the
\* cascades too.
THEOREM GroupsFollowTeams == AccountsSpec => []GroupMemberOnTeamAfterCascade
<1>1. AccountsInv => GroupMemberOnTeamAfterCascade
  BY DEF AccountsInv
<1> QED
  BY <1>1, AccountsInvariant, PTL

\* What module Teams guarantees of its tables and of the requests in flight
\* (members only in active teams, groups on their team, locks and reads still
\* good) survives the deletion of any account at any moment.
THEOREM DeletionKeepsIntegrity == AccountsSpec => []Integrity
<1>1. AccountsInv => Integrity
  BY DEF AccountsInv
<1> QED
  BY <1>1, AccountsInvariant, PTL

\* The deletion of an account only takes seats away; every other step is one of
\* module Teams.
LEMMA AccountStepOnSeats ==
  ASSUME AccountsInv, [AccountsNext]_accountVars
  PROVE  [Next]_vars \/ SeatsShrink
<1>0. accounts \subseteq Users
  BY DEF AccountsInv, AccountsType
<1>1. ASSUME NEW u \in Users, deleteAccount(u)
      PROVE  SeatsShrink
  <2>1. Cascaded(u)
    BY <1>1, DeletionCascades
  <2> QED
    BY <2>1 DEF Cascaded, SeatsShrink
<1>2. ASSUME NEW u \in Users, registerAccount(u)
      PROVE  UNCHANGED vars
  BY <1>2 DEF registerAccount
<1>3. ASSUME NEW p \in Requests, NEW g \in GroupIds, insertOwnedGroup(p, g)
      PROVE  Next
  BY <1>3 DEF insertOwnedGroup, Next
<1>4. UNCHANGED accountVars => UNCHANGED vars
  BY DEF accountVars
<1> QED
  BY <1>0, <1>1, <1>2, <1>3, <1>4 DEF AccountsNext, Next

LEMMA NextRolesAmongAccounts ==
  ASSUME AccountsInv, AtMostOneAdmin, SubadminCapRespected, [AccountsNext]_accountVars
  PROVE  AtMostOneAdmin' /\ SubadminCapRespected'
<1>1. CASE [Next]_vars
  BY <1>1, NextAtMostOneAdmin, NextSubadminCap DEF AccountsInv, Integrity
<1>2. CASE SeatsShrink
  <2>1. AtMostOneAdmin'
    BY <1>2 DEF SeatsShrink, AtMostOneAdmin
  <2>2. \A t \in TeamIds : Subadmins(t)' \subseteq Subadmins(t)
    BY <1>2 DEF SeatsShrink, Subadmins
  <2> QED
    BY <2>1, <2>2, FewerSubadmins
<1> QED
  BY <1>1, <1>2, AccountStepOnSeats

\* INV-4 (its safe half) and INV-5 with account deletion: no deletion makes two
\* admins or a subadmin too many, not even one that comes between a request's
\* authorisation and its update.
THEOREM RolesAmongAccounts == AccountsSpec => [](AtMostOneAdmin /\ SubadminCapRespected)
<1>1. AccountsInit => AtMostOneAdmin /\ SubadminCapRespected
  <2> SUFFICES ASSUME AccountsInit PROVE AtMostOneAdmin /\ SubadminCapRespected
    OBVIOUS
  <2>1. AtMostOneAdmin /\ \A t \in TeamIds : Subadmins(t) = {}
    BY DEF AccountsInit, Init, AtMostOneAdmin, Subadmins
  <2> QED
    BY <2>1, FS_EmptySet, CapIsNat DEF SubadminCapRespected
<1>2. AccountsInv /\ (AtMostOneAdmin /\ SubadminCapRespected) /\ [AccountsNext]_accountVars
        => (AtMostOneAdmin /\ SubadminCapRespected)'
  BY NextRolesAmongAccounts
<1> QED
  BY <1>1, <1>2, AccountsInvariant, PTL DEF AccountsSpec
=============================================================================
