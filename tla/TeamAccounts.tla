---------------------------- MODULE TeamAccounts ----------------------------
(***************************************************************************)
(* Teams together with account deletion (web/src/app/api/settings/account, *)
(* DELETE): one DELETE FROM users whose foreign keys cascade into teams,   *)
(* groups and both member tables (web/src/lib/db/schema.ts).               *)
(***************************************************************************)
EXTENDS Teams

VARIABLES
  accounts,        \* the users that still have a row
  groupCreatedBy   \* groups.created_by

accountVars == <<vars, accounts, groupCreatedBy>>

AccountsInit ==
  /\ Init
  /\ accounts = Users
  /\ groupCreatedBy = [g \in GroupIds |-> None]

\* groups.created_by goes with its row.
CreatorsFollowRows ==
  groupCreatedBy' = [g \in GroupIds |->
    IF groupStatus'[g] = "none" THEN None ELSE groupCreatedBy[g]]

\* Slip: groups.created_by does not cascade.
deleteAccountKeepingGroups(u) ==
  LET T == {t \in TeamIds : createdBy[t] = u}
  IN  /\ u \in accounts
      /\ ~RowLocked(u)
      /\ \A t \in T : ~RowsLocked(t)
      /\ CascadeTeams(T, {u})
      /\ CascadeGroups(GroupsOf(T), {u})
      /\ CreatorsFollowRows
      /\ accounts' = accounts \ {u}
      /\ UNCHANGED request

\* Slip: groups.team_id does not cascade.
deleteAccountKeepingTeamGroups(u) ==
  LET T == {t \in TeamIds : createdBy[t] = u}
  IN  /\ u \in accounts
      /\ ~RowLocked(u)
      /\ \A t \in T : ~RowsLocked(t)
      /\ CascadeTeams(T, {u})
      /\ CascadeGroups({g \in GroupIds : groupCreatedBy[g] = u}, {u})
      /\ CreatorsFollowRows
      /\ accounts' = accounts \ {u}
      /\ UNCHANGED request

\* The cascades: the teams the user created, the groups of those teams, the
\* groups the user created in any team, and the user's own member rows.
deleteAccount(u) ==
  LET T == {t \in TeamIds : createdBy[t] = u}
      G == GroupsOf(T) \cup {g \in GroupIds : groupCreatedBy[g] = u}
  IN  /\ u \in accounts
      /\ ~RowLocked(u)
      /\ \A t \in T : ~RowsLocked(t)
      /\ CascadeTeams(T, {u})
      /\ CascadeGroups(G, {u})
      /\ CreatorsFollowRows
      /\ accounts' = accounts \ {u}
      /\ UNCHANGED request

\* A new account, under an id nothing in flight mentions.
registerAccount(u) ==
  /\ u \notin accounts
  /\ \A p \in Requests : request[p].actor # u /\ request[p].target # u
  /\ accounts' = accounts \cup {u}
  /\ UNCHANGED <<vars, groupCreatedBy>>

\* groups.created_by must reference a user.
insertOwnedGroup(p, g) ==
  /\ createGroup(p, g)
  /\ request[p].actor \in accounts
  /\ groupCreatedBy' = [groupCreatedBy EXCEPT ![g] = request[p].actor]
  /\ UNCHANGED accounts

AccountsNext ==
  \/ \E u \in accounts : UserStep(u) /\ UNCHANGED <<accounts, groupCreatedBy>>
  \/ \E p \in Requests : RequestStep(p) /\ CreatorsFollowRows /\ UNCHANGED accounts
  \/ \E p \in Requests, g \in GroupIds : insertOwnedGroup(p, g)
  \/ \E u \in Users : deleteAccount(u) \/ registerAccount(u)

AccountsSpec == AccountsInit /\ [][AccountsNext]_accountVars

-----------------------------------------------------------------------------
(* Properties *)

\* A deleted account leaves nothing behind in the team tables: no member row,
\* no group member row, no team or group it created, whatever was in flight
\* when it was deleted.
DeletedAccountLeavesNoRows ==
  /\ \A u \in Users \ accounts : memberOf[u] = None /\ groupOf[u] = None
  /\ \A t \in TeamIds : createdBy[t] \in accounts \cup {None}
  /\ \A g \in GroupIds : groupCreatedBy[g] \in accounts \cup {None}

\* A group stays on the team of its members, also through the cascades of an
\* account that created the team or the group.
GroupMemberOnTeamAfterCascade ==
  GroupMemberOnTeam /\ \A g \in GroupIds :
    groupStatus[g] # "none" => teamStatus[groupTeam[g]] # "none"
=============================================================================
