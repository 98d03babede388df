----------------------------- MODULE Invitations -----------------------------
(***************************************************************************)
(* The life of a team invitation: web/src/lib/teams/service.ts on the      *)
(* table team_invitations, and the step of                                 *)
(* web/src/app/api/auth/verify-email/route.ts that links the invitations   *)
(* of an address to the account that has just verified it.                 *)
(*                                                                         *)
(* An invitation is settled by an UPDATE that asks for status 'pending'    *)
(* again, so accepting, declining, revoking and expiring are one step      *)
(* each.  inviteMembers resolves the person in one statement and inserts   *)
(* in another; the backfill locks the rows of one team in one statement    *)
(* and writes them in later ones.  Both are split there.                   *)
(*                                                                         *)
(* A person is identified with their e-mail address; the account may come  *)
(* later.  Who may invite and revoke is the subject of module Teams: here  *)
(* that authority only needs the team to be active.  Groups, mail and the  *)
(* tokens in the links are left out.                                       *)
(***************************************************************************)
EXTENDS Naturals, FiniteSets, FiniteSetsExt

CONSTANTS
  People,      \* e-mail addresses, each with at most one account
  Teams,       \* rows of teams
  MaxRows,     \* how many invitations are ever inserted
  Requests,    \* requests in flight: invitations, revocations, backfills
  None         \* SQL NULL

ASSUME MaxRowsIsNat == MaxRows \in Nat
ASSUME NoneIsNobody == None \notin People \cup Teams

VARIABLES
  team,        \* teams.status: "active" or "disbanded"
  account,     \* of each person: "none", "unverified" or "verified"
  seat,        \* team_members.team_id of each person
  rows,        \* team_invitations, numbered in the order of created_at
  lapsed,      \* the rows whose expires_at has passed
  request      \* what each request is doing

world == <<team, account, seat>>
vars  == <<world, rows, lapsed, request>>

RowIds   == 1 .. MaxRows
Accounts == {"none", "unverified", "verified"}
Statuses == {"pending", "accepted", "declined", "revoked", "expired",
             "superseded"}

\* invited_email and invited_user_id; username invitations have no e-mail.
Row == [status: Statuses, team: Teams, email: People \cup {None},
        user: People \cup {None}]

NoRow == [status |-> "none", team |-> None, email |-> None, user |-> None]

\* inviteMembers: "invite" between two items, "insert" with one resolved.
\* linkPendingInvitationsForEmail: "link" between two teams, "settle" holding
\* one team's rows locked.
Request ==
  [op: {"idle"}] \cup
  [op: {"invite"}, team: Teams] \cup
  [op: {"insert"}, team: Teams, row: Row] \cup
  [op: {"revoke"}, id: RowIds, team: Teams] \cup
  [op: {"link"}, person: People, todo: SUBSET Teams] \cup
  [op: {"settle"}, person: People, todo: SUBSET Teams, locked: SUBSET RowIds]

Idle == [op |-> "idle"]

Init ==
  /\ team = [t \in Teams |-> "active"]
  /\ account = [u \in People |-> "none"]
  /\ seat = [u \in People |-> None]
  /\ rows = [i \in RowIds |-> NoRow]
  /\ lapsed = {}
  /\ request = [p \in Requests |-> Idle]

-----------------------------------------------------------------------------
(* Reads *)

Pending(i) == rows[i].status = "pending"

Serving(p, op) == request[p].op = op

\* Slip: the backfill selects without FOR UPDATE.
NothingLocked == {}

\* Rows that a backfill has selected FOR UPDATE.
Locked == UNION {request[p].locked : p \in {q \in Requests : Serving(q, "settle")}}

\* The filter of the backfill and of listMyInvitations: the rows of this
\* account, and the rows of this address that name no account.
IsFor(i, u) ==
  \/ rows[i].user = u
  \/ rows[i].user = None /\ rows[i].email = u

Open(u, t) ==
  {i \in RowIds : rows[i].team = t /\ Pending(i) /\ i \notin lapsed /\ IsFor(i, u)}

\* assertInvitee and the e-mail check of acceptInvitation.
MayAccept(i, u) ==
  /\ account[u] # "none"
  /\ IsFor(i, u)
  /\ rows[i].email # None => rows[i].email = u /\ account[u] = "verified"

\* The two partial unique indexes on pending rows; an expired row that the
\* sweep has not reached yet is still in them.
Conflicts(i, r) ==
  /\ Pending(i)
  /\ rows[i].team = r.team
  /\ \/ r.user # None /\ rows[i].user = r.user
     \/ r.user = None /\ rows[i].user = None /\ rows[i].email = r.email

Settle(i, status) == rows' = [rows EXCEPT ![i].status = status]

-----------------------------------------------------------------------------
(* The world around: accounts, seats, teams, time *)

register(u) ==
  /\ account[u] = "none"
  /\ account' = [account EXCEPT ![u] = "unverified"]
  /\ UNCHANGED <<team, seat, rows, lapsed, request>>

leaveTeam(u) ==
  /\ seat[u] # None
  /\ seat' = [seat EXCEPT ![u] = None]
  /\ UNCHANGED <<team, account, rows, lapsed, request>>

\* Disbanding a team leaves its invitations as they are.
disbandTeam(t) ==
  /\ team[t] = "active"
  /\ team' = [team EXCEPT ![t] = "disbanded"]
  /\ seat' = [u \in People |-> IF seat[u] = t THEN None ELSE seat[u]]
  /\ UNCHANGED <<account, rows, lapsed, request>>

\* Seven days pass for row i.
Lapse(i) ==
  /\ rows[i] # NoRow
  /\ i \notin lapsed
  /\ lapsed' = lapsed \cup {i}
  /\ UNCHANGED <<world, rows, request>>

-----------------------------------------------------------------------------
(* inviteMembers and revokeInvitation *)

Start(p, r) ==
  /\ request[p] = Idle
  /\ request' = [request EXCEPT ![p] = r]

Finish(p) == request' = [request EXCEPT ![p] = Idle]

\* The request ends: after its last item, at an error, or with the server.
\* Whatever its open transaction had locked is released.
End(p) ==
  /\ request[p] # Idle
  /\ Finish(p)
  /\ UNCHANGED <<world, rows, lapsed>>

\* requireAdminOrSub, once for the whole batch.
ReceiveInvite(p, t) ==
  /\ team[t] = "active"
  /\ Start(p, [op |-> "invite", team |-> t])
  /\ UNCHANGED <<world, rows, lapsed>>

\* One item by user name: there must be such an account.
ByUsername(u) ==
  IF account[u] = "none" THEN {} ELSE {[email |-> None, user |-> u]}

\* Slip: the address is not kept, whether or not there is an account.
ByAccountOnly(u) ==
  {[email |-> None, user |-> IF account[u] = "none" THEN None ELSE u]}

\* One item by e-mail: the account is found now or never.
ByEmail(u) ==
  {[email |-> u, user |-> IF account[u] = "none" THEN None ELSE u]}

resolveInvite(p, u) ==
  /\ Serving(p, "invite")
  /\ account[u] # "none" => seat[u] # request[p].team
  /\ \E who \in ByUsername(u) \cup ByEmail(u) :
       request' = [request EXCEPT ![p] =
         [op |-> "insert", team |-> @.team,
          row |-> [status |-> "pending", team |-> @.team,
                   email |-> who.email, user |-> who.user]]]
  /\ UNCHANGED <<world, rows, lapsed>>

NextItem(p) ==
  request' = [request EXCEPT ![p] = [op |-> "invite", team |-> @.team]]

\* created_at is the time its transaction began, so a row may be older than
\* one that is already there.
insertInvitation(p) ==
  /\ Serving(p, "insert")
  /\ \A i \in RowIds : ~Conflicts(i, request[p].row)
  /\ \E i \in RowIds :
       rows[i] = NoRow /\ rows' = [rows EXCEPT ![i] = request[p].row]
  /\ NextItem(p)
  /\ UNCHANGED <<world, lapsed>>

\* 23505: the item is reported as skipped and the batch goes on.
skipDuplicate(p) ==
  /\ Serving(p, "insert")
  /\ \E i \in RowIds : Conflicts(i, request[p].row)
  /\ NextItem(p)
  /\ UNCHANGED <<world, rows, lapsed>>

ReceiveRevoke(p, t, i) ==
  /\ team[t] = "active"
  /\ Start(p, [op |-> "revoke", id |-> i, team |-> t])
  /\ UNCHANGED <<world, rows, lapsed>>

\* Slip: the UPDATE does not ask for status 'pending'.
revokeWhateverItIs(p) ==
  /\ Serving(p, "revoke")
  /\ rows[request[p].id] # NoRow
  /\ rows[request[p].id].team = request[p].team
  /\ request[p].id \notin Locked
  /\ Settle(request[p].id, "revoked")
  /\ Finish(p)
  /\ UNCHANGED <<world, lapsed>>

revokeInvitation(p) ==
  /\ Serving(p, "revoke")
  /\ Pending(request[p].id)
  /\ rows[request[p].id].team = request[p].team
  /\ request[p].id \notin Locked
  /\ Settle(request[p].id, "revoked")
  /\ Finish(p)
  /\ UNCHANGED <<world, lapsed>>

-----------------------------------------------------------------------------
(* The invitee *)

\* Slip: the UPDATE does not ask for expires_at again.
acceptLate(i, u) ==
  LET t == rows[i].team
  IN  /\ Pending(i)
      /\ i \notin Locked
      /\ MayAccept(i, u)
      /\ team[t] = "active"
      /\ seat[u] = None
      /\ rows' = [rows EXCEPT ![i].status = "accepted", ![i].user = u]
      /\ seat' = [seat EXCEPT ![u] = t]
      /\ UNCHANGED <<team, account, lapsed, request>>

acceptInvitation(i, u) ==
  LET t == rows[i].team
  IN  /\ Pending(i)
      /\ i \notin lapsed
      /\ i \notin Locked
      /\ MayAccept(i, u)
      /\ team[t] = "active"
      /\ seat[u] = None
      /\ rows' = [rows EXCEPT ![i].status = "accepted", ![i].user = u]
      /\ seat' = [seat EXCEPT ![u] = t]
      /\ UNCHANGED <<team, account, lapsed, request>>

\* Neither the expiry nor the verification is asked for.
declineInvitation(i, u) ==
  /\ Pending(i)
  /\ i \notin Locked
  /\ account[u] # "none"
  /\ IsFor(i, u)
  /\ Settle(i, "declined")
  /\ UNCHANGED <<world, lapsed, request>>

-----------------------------------------------------------------------------
(* expireInvitations: the daily sweep waits for rows that are locked *)

\* Slip: only the rows that name no account are swept.
expireUnlinked ==
  LET due == {i \in lapsed : Pending(i) /\ rows[i].user = None}
  IN  /\ due # {}
      /\ due \cap Locked = {}
      /\ rows' = [i \in RowIds |->
           IF i \in due THEN [rows[i] EXCEPT !.status = "expired"] ELSE rows[i]]
      /\ UNCHANGED <<world, lapsed, request>>

expireInvitations ==
  LET due == {i \in lapsed : Pending(i)}
  IN  /\ due # {}
      /\ due \cap Locked = {}
      /\ rows' = [i \in RowIds |->
           IF i \in due THEN [rows[i] EXCEPT !.status = "expired"] ELSE rows[i]]
      /\ UNCHANGED <<world, lapsed, request>>

-----------------------------------------------------------------------------
(* linkPendingInvitationsForEmail *)

\* Go on with the teams that are left, if any.
LinkTeams(u, todo) ==
  IF todo = {} THEN Idle ELSE [op |-> "link", person |-> u, todo |-> todo]

\* The verification commits before the backfill reads which teams have open
\* rows; a replay of a link already consumed only repeats the backfill.
verifyEmail(p, u) ==
  /\ account[u] # "none"
  /\ account' = [account EXCEPT ![u] = "verified"]
  /\ Start(p, LinkTeams(u, {t \in Teams : Open(u, t) # {}}))
  /\ UNCHANGED <<team, seat, rows, lapsed>>

\* SELECT ... FOR UPDATE of one team's rows, which may be settled by now.
lockPending(p) ==
  /\ Serving(p, "link")
  /\ \E t \in request[p].todo :
       LET open == Open(request[p].person, t)
           rest == request[p].todo \ {t}
       IN  /\ open \cap Locked = {}
           /\ request' = [request EXCEPT ![p] =
                IF open = {} THEN LinkTeams(@.person, rest)
                ELSE [op |-> "settle", person |-> @.person, todo |-> rest,
                      locked |-> open]]
  /\ UNCHANGED <<world, rows, lapsed>>

\* Slip: sorted the other way round.
NewestRow(locked) == Max(locked)

\* The oldest row wins.
Winner(locked) == Min(locked)

\* What the winner will be once it names the account.
Backfilled(p) ==
  [rows[Winner(request[p].locked)] EXCEPT !.user = request[p].person]

\* A pending row outside the lock is in the way of the winner's account.
BackfillBlocked(p) ==
  /\ rows[Winner(request[p].locked)].user = None
  /\ \E i \in RowIds \ request[p].locked : Conflicts(i, Backfilled(p))

\* The losers are superseded before the winner gets the account.
settlePending(p) ==
  LET winner == Winner(request[p].locked)
      losers == request[p].locked \ {winner}
  IN  /\ Serving(p, "settle")
      /\ ~BackfillBlocked(p)
      /\ rows' = [i \in RowIds |->
           IF i = winner THEN Backfilled(p)
           ELSE IF i \in losers THEN [rows[i] EXCEPT !.status = "superseded"]
           ELSE rows[i]]
      /\ request' = [request EXCEPT ![p] = LinkTeams(@.person, @.todo)]
      /\ UNCHANGED <<world, lapsed>>

\* 23505: this team's transaction rolls back and the other teams are skipped.
backfillFails(p) ==
  /\ Serving(p, "settle")
  /\ BackfillBlocked(p)
  /\ Finish(p)
  /\ UNCHANGED <<world, rows, lapsed>>

-----------------------------------------------------------------------------
(* Next-state relation *)

PersonStep(u) ==
  \/ register(u)
  \/ leaveTeam(u)
  \/ \E i \in RowIds : acceptInvitation(i, u) \/ declineInvitation(i, u)
  \/ \E p \in Requests : verifyEmail(p, u)

InviterStep(p) ==
  \/ \E t \in Teams :
       ReceiveInvite(p, t) \/ \E i \in RowIds : ReceiveRevoke(p, t, i)
  \/ \E u \in People : resolveInvite(p, u)

ServerStep(p) ==
  \/ insertInvitation(p)
  \/ skipDuplicate(p)
  \/ revokeInvitation(p)
  \/ lockPending(p)
  \/ settlePending(p)
  \/ backfillFails(p)
  \/ End(p)

Next ==
  \/ \E u \in People : PersonStep(u)
  \/ \E p \in Requests : InviterStep(p) \/ ServerStep(p)
  \/ \E t \in Teams : disbandTeam(t)
  \/ \E i \in RowIds : Lapse(i)
  \/ expireInvitations

\* Time passes, the scheduler calls the daily sweep, and a request that holds
\* row locks commits, fails or is rolled back with its connection.  Nobody is
\* obliged to answer an invitation.
Fairness ==
  /\ \A i \in RowIds : WF_vars(Lapse(i))
  /\ WF_vars(expireInvitations)
  /\ \A p \in Requests : WF_vars(Serving(p, "settle") /\ ServerStep(p))

Spec == Init /\ [][Next]_vars /\ Fairness

-----------------------------------------------------------------------------
(* Properties *)

\* Every column holds a value of its domain, and a row names a person (check
\* team_invitations_target_present).
TypeOK ==
  /\ team \in [Teams -> {"active", "disbanded"}]
  /\ account \in [People -> Accounts]
  /\ seat \in [People -> Teams \cup {None}]
  /\ rows \in [RowIds -> Row \cup {NoRow}]
  /\ \A i \in RowIds : rows[i] # NoRow => rows[i].email # None \/ rows[i].user # None
  /\ lapsed \in SUBSET {i \in RowIds : rows[i] # NoRow}
  /\ request \in [Requests -> Request]

\* An answered, revoked, expired or superseded invitation is over: no other
\* request, sweep or backfill that saw it pending changes it any more.
SettledIsFinal ==
  [][\A i \in RowIds :
       rows[i] # NoRow /\ ~Pending(i) => rows'[i] = rows[i]]_vars

\* Whoever gets a seat gets it by exactly one invitation of that team, theirs,
\* pending and unexpired until this step; and an invitation is never accepted
\* without a seat.
SeatsComeFromInvitations ==
  [][LET taken == {i \in RowIds : Pending(i) /\ rows'[i].status = "accepted"}
         seated == {u \in People : seat'[u] \notin {None, seat[u]}}
     IN  /\ Cardinality(taken) = Cardinality(seated)
         /\ \A u \in seated : \E i \in taken :
              /\ i \notin lapsed
              /\ rows[i].team = seat'[u] /\ team[seat'[u]] = "active"
              /\ rows[i].email # None => account[u] = "verified"
              /\ rows[i].email \in {u, None} /\ rows[i].user \in {u, None}]_vars

\* Normalisation keeps the oldest: behind every superseded invitation there is
\* an older one of the same team for the same person, which names the account
\* and was never superseded itself, however backfills and answers interleave.
SupersededHasSurvivor ==
  \A i \in RowIds : rows[i].status = "superseded" =>
    \E j \in 1 .. i - 1 :
      /\ rows[j].team = rows[i].team
      /\ rows[j].status # "superseded"
      /\ rows[j].user # None /\ rows[j].user \in {rows[i].user, rows[i].email}

\* A backfill holds its rows until it writes them: they are still pending, and
\* no two backfills hold the same row.
LockedRowsStayPending ==
  /\ \A i \in Locked : Pending(i)
  /\ \A p, q \in Requests :
       Serving(p, "settle") /\ Serving(q, "settle")
         /\ request[p].locked \cap request[q].locked # {} => p = q

\* No invitation stays pending for ever, answered or not, also when backfills
\* keep locking it.
PendingEndsSometime ==
  \A i \in RowIds : Pending(i) ~> rows[i].status \in Statuses \ {"pending"}

\* team-management.feature: normalising never fails on a unique index.  Another
\* pending row of the account breaks it (see README).
BackfillNeverConflicts ==
  \A p \in Requests : Serving(p, "settle") => ~BackfillBlocked(p)
=============================================================================
