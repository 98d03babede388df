--------------------------- MODULE InvitationsProofs ---------------------------
(* The life of an invitation, for every number of people, teams, rows and requests: what
   a backfill has locked stays as it found it, an answer is final, the oldest row survives
   a normalisation, and every seat comes from one invitation. *)
EXTENDS Invitations, FiniteSetTheorems, WellFoundedInduction, TLAPS

(* An item that is about to be inserted is pending and names a person. *)
InsertsArePending ==
  \A p \in Requests : Serving(p, "insert") =>
    /\ request[p].row.status = "pending"
    /\ request[p].row.email # None \/ request[p].row.user # None

(* A backfill has locked at least one row, and all of them are still the pending rows of
   its person on one team that its SELECT returned. *)
BackfillHolds ==
  \A p \in Requests : Serving(p, "settle") =>
    /\ request[p].locked # {}
    /\ \E t \in Teams : \A i \in request[p].locked :
         rows[i].team = t /\ Pending(i) /\ IsFor(i, request[p].person)

InvitationsInv ==
  /\ TypeOK
  /\ InsertsArePending
  /\ BackfillHolds
  /\ LockedRowsStayPending
  /\ SupersededHasSurvivor

-----------------------------------------------------------------------------
(* The rows *)

(* Min of row ids is what its name says: the CHOOSE of its definition has a witness. *)
LEMMA OldestRow ==
  ASSUME NEW S \in SUBSET RowIds, S # {}
  PROVE  Winner(S) \in S /\ \A i \in S : Winner(S) <= i
<1>1. S \subseteq Nat
  BY MaxRowsIsNat DEF RowIds
<1> DEFINE less == {ss \in Nat \X Nat : ss[1] < ss[2]}
<1>2. IsWellFoundedOn(less, Nat)
  BY NatLessThanWellFounded DEF OpToRel
<1>3. PICK x \in S : \A y \in S : ~ (<<y, x>> \in less)
  <2> HIDE DEF less
  <2> QED
    BY <1>1, <1>2, WFMin
<1>4. \A m \in Nat, n \in Nat : m < n => <<m, n>> \in less
  OBVIOUS
<1>5. \A y \in S : x <= y
  <2> HIDE DEF less
  <2>1. \A y \in S : ~ (y < x)
    BY <1>1, <1>3, <1>4
  <2> QED
    BY <1>1, <2>1
<1> QED
  BY <1>5 DEF Winner, Min

(* Row i is as it was; it was answered; it was inserted.  An answer only concerns a pending
   row that no backfill has locked, and names an account only where there was none. *)
Kept(i) == rows'[i] = rows[i]

Answered(i) ==
  /\ Pending(i)
  /\ i \notin Locked
  /\ rows'[i] \in Row
  /\ rows'[i].status \notin {"pending", "superseded"}
  /\ rows'[i].team = rows[i].team
  /\ rows'[i].email = rows[i].email
  /\ rows[i].user # None => rows'[i].user = rows[i].user

Inserted(i) ==
  /\ rows[i] = NoRow
  /\ rows'[i] \in Row
  /\ rows'[i].status = "pending"
  /\ rows'[i].email # None \/ rows'[i].user # None

(* A step that locks nothing leaves the backfills that hold rows alone, and an item that it
   resolves is pending. *)
NothingNewLocked ==
  \A p \in Requests :
    /\ Serving(p, "settle")' => request'[p] = request[p]
    /\ Serving(p, "insert")' =>
         \/ request'[p] = request[p]
         \/ /\ request'[p].row.status = "pending"
            /\ request'[p].row.email # None \/ request'[p].row.user # None

(* What the two action properties say of one step. *)
AnswersKept ==
  \A i \in RowIds : rows[i] # NoRow /\ ~Pending(i) => rows'[i] = rows[i]

SeatsByInvitation ==
  LET taken == {i \in RowIds : Pending(i) /\ rows'[i].status = "accepted"}
      seated == {u \in People : seat'[u] \notin {None, seat[u]}}
  IN  /\ Cardinality(taken) = Cardinality(seated)
      /\ \A u \in seated : \E i \in taken :
           /\ i \notin lapsed
           /\ rows[i].team = seat'[u] /\ team[seat'[u]] = "active"
           /\ rows[i].email # None => account[u] = "verified"
           /\ rows[i].email \in {u, None} /\ rows[i].user \in {u, None}

(* A step that accepts nothing. *)
NobodySeated ==
  /\ \A i \in RowIds : Pending(i) => rows'[i].status # "accepted"
  /\ \A u \in People : seat'[u] \in {None, seat[u]}

StepKeeps == InvitationsInv' /\ AnswersKept /\ SeatsByInvitation

-----------------------------------------------------------------------------
LEMMA NoRowIsNoRow == NoRow \notin Row
BY DEF NoRow, Row, Statuses

LEMMA RowsAreRows ==
  ASSUME TypeOK, NEW i \in RowIds, rows[i] # NoRow \/ Pending(i)
  PROVE  rows[i] \in Row /\ rows[i] # NoRow
BY NoRowIsNoRow DEF TypeOK, Pending, NoRow

LEMMA LockedByWhom ==
  ASSUME NEW i
  PROVE  i \in Locked <=> \E p \in Requests : Serving(p, "settle") /\ i \in request[p].locked
BY DEF Locked

LEMMA NoneSeatedNoneTaken ==
  ASSUME NobodySeated
  PROVE  SeatsByInvitation
<1> DEFINE taken == {i \in RowIds : Pending(i) /\ rows'[i].status = "accepted"}
           seated == {u \in People : seat'[u] \notin {None, seat[u]}}
<1>1. taken = {} /\ seated = {}
  BY DEF NobodySeated
<1> QED
  BY <1>1 DEF SeatsByInvitation

(* A step that answers, inserts or does nothing to the rows, and locks none. *)
LEMMA PlainStep ==
  ASSUME InvitationsInv, TypeOK', NothingNewLocked,
         \A i \in RowIds : Kept(i) \/ Answered(i) \/ Inserted(i)
  PROVE  InvitationsInv' /\ AnswersKept
<1> USE DEF InvitationsInv
<1>1. \A i \in RowIds : i \in Locked => Pending(i) /\ Kept(i)
  <2> SUFFICES ASSUME NEW i \in RowIds, i \in Locked PROVE Pending(i) /\ Kept(i)
    OBVIOUS
  <2>1. Pending(i)
    BY DEF LockedRowsStayPending
  <2>2. rows[i] # NoRow
    BY <2>1, RowsAreRows
  <2> QED
    BY <2>1, <2>2 DEF Answered, Inserted
<1>2. AnswersKept
  BY DEF AnswersKept, Kept, Answered, Inserted
<1>3. InsertsArePending'
  BY DEF InsertsArePending, NothingNewLocked, Serving
<1>4. BackfillHolds'
  <2> SUFFICES ASSUME NEW p \in Requests, Serving(p, "settle")'
               PROVE  /\ request'[p].locked # {}
                      /\ \E t \in Teams : \A i \in request'[p].locked :
                           rows'[i].team = t /\ Pending(i)' /\ IsFor(i, request[p].person)'
    BY DEF BackfillHolds
  <2>1. Serving(p, "settle") /\ request'[p] = request[p]
    BY DEF NothingNewLocked, Serving
  <2>2. \A i \in request[p].locked : i \in RowIds /\ i \in Locked
    BY <2>1, LockedByWhom DEF TypeOK, Request, Serving
  <2>3. \A i \in request[p].locked : rows'[i] = rows[i]
    BY <1>1, <2>2 DEF Kept
  <2> QED
    BY <2>1, <2>3 DEF BackfillHolds, Pending, IsFor
<1>5. LockedRowsStayPending'
  <2>1. \A p, q \in Requests : Serving(p, "settle")' /\ Serving(q, "settle")'
          /\ request'[p].locked \cap request'[q].locked # {} => p = q
    BY DEF NothingNewLocked, Serving, LockedRowsStayPending
  <2>2. \A i \in Locked' : Pending(i)'
    BY <1>4 DEF Locked, BackfillHolds
  <2> QED
    BY <2>1, <2>2 DEF LockedRowsStayPending
<1>6. SupersededHasSurvivor'
  <2> SUFFICES ASSUME NEW i \in RowIds, rows'[i].status = "superseded"
               PROVE  \E j \in 1 .. i - 1 :
                        /\ rows'[j].team = rows'[i].team
                        /\ rows'[j].status # "superseded"
                        /\ rows'[j].user # None /\ rows'[j].user \in {rows'[i].user, rows'[i].email}
    BY DEF SupersededHasSurvivor
  <2>1. rows'[i] = rows[i]
    BY DEF Kept, Answered, Inserted
  <2>2. PICK j \in 1 .. i - 1 :
          /\ rows[j].team = rows[i].team
          /\ rows[j].status # "superseded"
          /\ rows[j].user # None /\ rows[j].user \in {rows[i].user, rows[i].email}
    BY <2>1 DEF SupersededHasSurvivor
  <2>3. j \in RowIds
    BY MaxRowsIsNat DEF RowIds
  <2>4. ~ Inserted(j)
    BY <2>2 DEF Inserted, NoRow
  <2>5. /\ rows'[j].team = rows[j].team
        /\ rows'[j].status # "superseded"
        /\ rows'[j].user = rows[j].user
    BY <2>2, <2>3, <2>4 DEF Kept, Answered
  <2> QED
    BY <2>1, <2>2, <2>5
<1> QED
  BY <1>2, <1>3, <1>4, <1>5, <1>6

(* A plain step that accepts nothing, and takes seats away at most. *)
LEMMA UnseatingStep ==
  ASSUME InvitationsInv, TypeOK', NothingNewLocked,
         \A i \in RowIds :
           Kept(i) \/ (Answered(i) /\ rows'[i].status # "accepted") \/ Inserted(i),
         \A u \in People : seat'[u] \in {None, seat[u]}
  PROVE  StepKeeps
<1>1. InvitationsInv' /\ AnswersKept
  BY PlainStep
<1>2. NobodySeated
  BY DEF NobodySeated, Kept, Inserted, Pending
<1> QED
  BY <1>1, <1>2, NoneSeatedNoneTaken DEF StepKeeps

(* One that leaves the rows alone altogether. *)
LEMMA QuietStep ==
  ASSUME InvitationsInv, TypeOK', NothingNewLocked, rows' = rows,
         \A u \in People : seat'[u] \in {None, seat[u]}
  PROVE  StepKeeps
<1>1. \A i \in RowIds :
        Kept(i) \/ (Answered(i) /\ rows'[i].status # "accepted") \/ Inserted(i)
  BY DEF Kept
<1> QED
  BY <1>1, UnseatingStep

LEMMA RequestsNext ==
  ASSUME TypeOK, NEW p \in Requests, NEW r \in Request,
         request' = [request EXCEPT ![p] = r]
  PROVE  /\ request' \in [Requests -> Request]
         /\ request'[p] = r
         /\ \A q \in Requests \ {p} : request'[q] = request[q]
BY DEF TypeOK

(* A request that goes on to something that neither locks nor inserts. *)
LEMMA NothingLockedBy ==
  ASSUME TypeOK, NEW p \in Requests, NEW r \in Request,
         r.op \notin {"settle", "insert"},
         request' = [request EXCEPT ![p] = r]
  PROVE  NothingNewLocked
BY RequestsNext DEF NothingNewLocked, Serving

LEMMA NothingLockedAtAll ==
  ASSUME request' = request
  PROVE  NothingNewLocked
BY DEF NothingNewLocked, Serving

-----------------------------------------------------------------------------
(* The world around *)

LEMMA RegisterKeeps ==
  ASSUME InvitationsInv, NEW u \in People, register(u)
  PROVE  StepKeeps
<1> USE DEF InvitationsInv
<1>1. TypeOK'
  BY DEF register, TypeOK, Accounts
<1> QED
  BY <1>1, QuietStep, NothingLockedAtAll DEF register

LEMMA LeaveKeeps ==
  ASSUME InvitationsInv, NEW u \in People, leaveTeam(u)
  PROVE  StepKeeps
<1> USE DEF InvitationsInv
<1>1. TypeOK'
  BY DEF leaveTeam, TypeOK
<1>2. \A v \in People : seat'[v] \in {None, seat[v]}
  BY DEF leaveTeam, TypeOK
<1> QED
  BY <1>1, <1>2, QuietStep, NothingLockedAtAll DEF leaveTeam

LEMMA DisbandKeeps ==
  ASSUME InvitationsInv, NEW t \in Teams, disbandTeam(t)
  PROVE  StepKeeps
<1> USE DEF InvitationsInv
<1>1. TypeOK'
  BY DEF disbandTeam, TypeOK
<1>2. \A v \in People : seat'[v] \in {None, seat[v]}
  BY DEF disbandTeam, TypeOK
<1> QED
  BY <1>1, <1>2, QuietStep, NothingLockedAtAll DEF disbandTeam

LEMMA LapseKeeps ==
  ASSUME InvitationsInv, NEW i \in RowIds, Lapse(i)
  PROVE  StepKeeps
<1> USE DEF InvitationsInv
<1>1. TypeOK'
  BY DEF Lapse, TypeOK, world
<1> QED
  BY <1>1, QuietStep, NothingLockedAtAll DEF Lapse, world

-----------------------------------------------------------------------------
(* Inviting and revoking *)

(* A step of one request that changes nothing but what that request is doing. *)
LEMMA RequestOnly ==
  ASSUME InvitationsInv, NEW p \in Requests, NEW r \in Request,
         r.op \notin {"settle", "insert"},
         request' = [request EXCEPT ![p] = r],
         UNCHANGED <<world, rows, lapsed>>
  PROVE  StepKeeps
<1> USE DEF InvitationsInv
<1>1. request' \in [Requests -> Request]
  BY RequestsNext
<1>2. TypeOK'
  BY <1>1 DEF TypeOK, world
<1>3. NothingNewLocked
  BY NothingLockedBy
<1> QED
  BY <1>2, <1>3, QuietStep DEF world

LEMMA IdleIsRequest == Idle \in Request /\ Idle.op = "idle"
BY DEF Idle, Request

LEMMA EndKeeps ==
  ASSUME InvitationsInv, NEW p \in Requests, End(p)
  PROVE  StepKeeps
BY IdleIsRequest, RequestOnly DEF End, Finish

LEMMA ReceiveInviteKeeps ==
  ASSUME InvitationsInv, NEW p \in Requests, NEW t \in Teams, ReceiveInvite(p, t)
  PROVE  StepKeeps
<1> DEFINE r == [op |-> "invite", team |-> t]
<1>1. r \in Request /\ r.op = "invite"
  BY DEF Request
<1>2. request' = [request EXCEPT ![p] = r] /\ UNCHANGED <<world, rows, lapsed>>
  BY DEF ReceiveInvite, Start
<1> HIDE DEF r
<1> QED
  BY <1>1, <1>2, RequestOnly

LEMMA ReceiveRevokeKeeps ==
  ASSUME InvitationsInv, NEW p \in Requests, NEW t \in Teams, NEW i \in RowIds,
         ReceiveRevoke(p, t, i)
  PROVE  StepKeeps
<1> DEFINE r == [op |-> "revoke", id |-> i, team |-> t]
<1>1. r \in Request /\ r.op = "revoke"
  BY DEF Request
<1>2. request' = [request EXCEPT ![p] = r] /\ UNCHANGED <<world, rows, lapsed>>
  BY DEF ReceiveRevoke, Start
<1> HIDE DEF r
<1> QED
  BY <1>1, <1>2, RequestOnly

LEMMA ResolveKeeps ==
  ASSUME InvitationsInv, NEW p \in Requests, NEW u \in People, resolveInvite(p, u)
  PROVE  StepKeeps
<1> USE DEF InvitationsInv
<1>1. request[p].team \in Teams
  BY DEF resolveInvite, Serving, TypeOK, Request
<1>2. PICK who \in ByUsername(u) \cup ByEmail(u) :
        request' = [request EXCEPT ![p] =
          [op |-> "insert", team |-> request[p].team,
           row |-> [status |-> "pending", team |-> request[p].team,
                    email |-> who.email, user |-> who.user]]]
  BY DEF resolveInvite, TypeOK
<1>3. /\ who.email \in People \cup {None} /\ who.user \in People \cup {None}
      /\ who.email # None \/ who.user # None
  BY NoneIsNobody DEF ByUsername, ByEmail
<1> DEFINE row == [status |-> "pending", team |-> request[p].team,
                   email |-> who.email, user |-> who.user]
           r == [op |-> "insert", team |-> request[p].team, row |-> row]
<1>4. row \in Row /\ row.status = "pending" /\ (row.email # None \/ row.user # None)
  BY <1>1, <1>3 DEF Row, Statuses
<1>5. r \in Request /\ r.row = row
  <2> HIDE DEF row
  <2> QED  BY <1>1, <1>4 DEF Request
<1>6. request' = [request EXCEPT ![p] = r]
  BY <1>2
<1> HIDE DEF row, r
<1>7. /\ request' \in [Requests -> Request]
      /\ request'[p] = r
      /\ \A q \in Requests \ {p} : request'[q] = request[q]
  BY <1>5, <1>6, RequestsNext
<1>8. NothingNewLocked
  <2>1. r.op # "settle"
    BY DEF r
  <2> QED
    BY <1>4, <1>5, <1>7, <2>1 DEF NothingNewLocked, Serving
<1>9. TypeOK'
  BY <1>7 DEF resolveInvite, TypeOK, world
<1> QED
  BY <1>8, <1>9, QuietStep DEF resolveInvite, world

(* Between two items. *)
LEMMA NextItemIsInvite ==
  ASSUME InvitationsInv, NEW p \in Requests, Serving(p, "insert"), NextItem(p)
  PROVE  \E r \in Request : r.op = "invite" /\ request' = [request EXCEPT ![p] = r]
<1> DEFINE r == [op |-> "invite", team |-> request[p].team]
<1>1. r \in Request
  BY DEF Serving, InvitationsInv, TypeOK, Request
<1>2. request' = [request EXCEPT ![p] = r]
  BY DEF NextItem, InvitationsInv, TypeOK
<1> QED
  BY <1>1, <1>2

LEMMA SkipKeeps ==
  ASSUME InvitationsInv, NEW p \in Requests, skipDuplicate(p)
  PROVE  StepKeeps
<1>1. PICK r \in Request : r.op = "invite" /\ request' = [request EXCEPT ![p] = r]
  BY NextItemIsInvite DEF skipDuplicate
<1> QED
  BY <1>1, RequestOnly DEF skipDuplicate

LEMMA InsertKeeps ==
  ASSUME InvitationsInv, NEW p \in Requests, insertInvitation(p)
  PROVE  StepKeeps
<1> USE DEF InvitationsInv
<1>1. PICK r \in Request : r.op = "invite" /\ request' = [request EXCEPT ![p] = r]
  BY NextItemIsInvite DEF insertInvitation
<1> DEFINE new == request[p].row
<1>2. new \in Row /\ new.status = "pending" /\ (new.email # None \/ new.user # None)
  BY DEF insertInvitation, Serving, TypeOK, Request, InsertsArePending
<1>3. PICK i \in RowIds : rows[i] = NoRow /\ rows' = [rows EXCEPT ![i] = new]
  BY DEF insertInvitation
<1> HIDE DEF new
<1>4. /\ rows' \in [RowIds -> Row \cup {NoRow}]
      /\ rows'[i] = new
      /\ \A k \in RowIds \ {i} : rows'[k] = rows[k]
  BY <1>2, <1>3 DEF TypeOK
<1>5. TypeOK'
  <2>1. request' \in [Requests -> Request]
    BY <1>1, RequestsNext
  <2>2. lapsed' \in SUBSET {k \in RowIds : rows'[k] # NoRow}
    BY <1>2, <1>4, NoRowIsNoRow DEF insertInvitation, TypeOK
  <2> QED
    BY <1>2, <1>4, <2>1, <2>2 DEF insertInvitation, TypeOK, world
<1>6. \A k \in RowIds :
        Kept(k) \/ (Answered(k) /\ rows'[k].status # "accepted") \/ Inserted(k)
  BY <1>2, <1>3, <1>4 DEF Kept, Inserted
<1>7. NothingNewLocked
  BY <1>1, NothingLockedBy
<1>8. \A v \in People : seat'[v] \in {None, seat[v]}
  BY DEF insertInvitation, world
<1> QED
  BY <1>5, <1>6, <1>7, <1>8, UnseatingStep

(* The UPDATE that settles one pending row, outside any lock. *)
LEMMA SettleAnswers ==
  ASSUME InvitationsInv, NEW i \in RowIds, Pending(i), i \notin Locked,
         NEW status \in Statuses \ {"pending", "superseded", "accepted"},
         Settle(i, status), lapsed' = lapsed
  PROVE  /\ rows' \in [RowIds -> Row \cup {NoRow}]
         /\ \A k \in RowIds : rows'[k] # NoRow =>
              rows'[k].email # None \/ rows'[k].user # None
         /\ lapsed' \in SUBSET {k \in RowIds : rows'[k] # NoRow}
         /\ \A k \in RowIds :
              Kept(k) \/ (Answered(k) /\ rows'[k].status # "accepted") \/ Inserted(k)
<1> USE DEF InvitationsInv
<1>1. rows[i] \in Row /\ rows[i] # NoRow
  BY RowsAreRows
<1> DEFINE new == [rows[i] EXCEPT !.status = status]
<1>2. /\ new \in Row /\ new.status = status
      /\ new.team = rows[i].team /\ new.email = rows[i].email /\ new.user = rows[i].user
  BY <1>1 DEF Row
<1>3. rows' = [rows EXCEPT ![i] = new]
  BY DEF Settle
<1> HIDE DEF new
<1>4. /\ rows' \in [RowIds -> Row \cup {NoRow}]
      /\ rows'[i] = new
      /\ \A k \in RowIds \ {i} : rows'[k] = rows[k]
  BY <1>2, <1>3 DEF TypeOK
<1>5. \A k \in RowIds : rows'[k] # NoRow =>
        rows'[k].email # None \/ rows'[k].user # None
  BY <1>1, <1>2, <1>4 DEF TypeOK
<1>6. lapsed' \in SUBSET {k \in RowIds : rows'[k] # NoRow}
  BY <1>2, <1>4, NoRowIsNoRow DEF TypeOK
<1>7. \A k \in RowIds :
        Kept(k) \/ (Answered(k) /\ rows'[k].status # "accepted") \/ Inserted(k)
  BY <1>2, <1>4 DEF Kept, Answered
<1> QED
  BY <1>4, <1>5, <1>6, <1>7

LEMMA RevokeKeeps ==
  ASSUME InvitationsInv, NEW p \in Requests, revokeInvitation(p)
  PROVE  StepKeeps
<1> USE DEF InvitationsInv
<1> DEFINE i == request[p].id
<1>1. i \in RowIds
  BY DEF revokeInvitation, Serving, TypeOK, Request
<1>2. Pending(i) /\ i \notin Locked /\ Settle(i, "revoked") /\ lapsed' = lapsed
  BY DEF revokeInvitation
<1> HIDE DEF i
<1>3. "revoked" \in Statuses \ {"pending", "superseded", "accepted"}
  BY DEF Statuses
<1>4. /\ rows' \in [RowIds -> Row \cup {NoRow}]
      /\ \A k \in RowIds : rows'[k] # NoRow =>
           rows'[k].email # None \/ rows'[k].user # None
      /\ lapsed' \in SUBSET {k \in RowIds : rows'[k] # NoRow}
      /\ \A k \in RowIds :
           Kept(k) \/ (Answered(k) /\ rows'[k].status # "accepted") \/ Inserted(k)
  BY <1>1, <1>2, <1>3, SettleAnswers
<1>5. request' = [request EXCEPT ![p] = Idle]
  BY DEF revokeInvitation, Finish
<1>6. request' \in [Requests -> Request] /\ NothingNewLocked
  BY <1>5, IdleIsRequest, RequestsNext, NothingLockedBy
<1>7. TypeOK'
  BY <1>4, <1>6 DEF revokeInvitation, world, TypeOK
<1>8. \A v \in People : seat'[v] \in {None, seat[v]}
  BY DEF revokeInvitation, world
<1> QED
  BY <1>4, <1>6, <1>7, <1>8, UnseatingStep

-----------------------------------------------------------------------------
(* The invitee *)

LEMMA DeclineKeeps ==
  ASSUME InvitationsInv, NEW i \in RowIds, NEW u \in People, declineInvitation(i, u)
  PROVE  StepKeeps
<1> USE DEF InvitationsInv
<1>1. "declined" \in Statuses \ {"pending", "superseded", "accepted"}
  BY DEF Statuses
<1>2. /\ rows' \in [RowIds -> Row \cup {NoRow}]
      /\ \A k \in RowIds : rows'[k] # NoRow =>
           rows'[k].email # None \/ rows'[k].user # None
      /\ lapsed' \in SUBSET {k \in RowIds : rows'[k] # NoRow}
      /\ \A k \in RowIds :
           Kept(k) \/ (Answered(k) /\ rows'[k].status # "accepted") \/ Inserted(k)
  BY <1>1, SettleAnswers DEF declineInvitation
<1>3. TypeOK'
  BY <1>2 DEF declineInvitation, world, TypeOK
<1>4. \A v \in People : seat'[v] \in {None, seat[v]}
  BY DEF declineInvitation, world
<1>5. NothingNewLocked
  BY NothingLockedAtAll DEF declineInvitation
<1> QED
  BY <1>2, <1>3, <1>4, <1>5, UnseatingStep

LEMMA AcceptKeeps ==
  ASSUME InvitationsInv, NEW i \in RowIds, NEW u \in People, acceptInvitation(i, u)
  PROVE  StepKeeps
<1> USE DEF InvitationsInv
<1>1. rows[i] \in Row /\ rows[i] # NoRow /\ Pending(i)
  BY RowsAreRows DEF acceptInvitation
<1> DEFINE t == rows[i].team
           new == [rows[i] EXCEPT !.status = "accepted", !.user = u]
<1>2. /\ new \in Row /\ new.status = "accepted" /\ new.user = u
      /\ new.team = t /\ new.email = rows[i].email
  BY <1>1 DEF Row, Statuses
<1>3. t \in Teams /\ t # None /\ u # None
  BY <1>1, NoneIsNobody DEF Row
<1>4. rows' = [rows EXCEPT ![i] = new]
  BY DEF acceptInvitation
<1>5. seat' = [seat EXCEPT ![u] = t] /\ seat[u] = None /\ team[t] = "active"
  BY DEF acceptInvitation
<1>6. /\ i \notin lapsed /\ i \notin Locked /\ MayAccept(i, u)
      /\ UNCHANGED <<team, account, lapsed, request>>
  BY DEF acceptInvitation
<1> HIDE DEF new, t
<1>7. /\ rows' \in [RowIds -> Row \cup {NoRow}]
      /\ rows'[i] = new
      /\ \A k \in RowIds \ {i} : rows'[k] = rows[k]
  BY <1>2, <1>4 DEF TypeOK
<1>8. /\ seat' \in [People -> Teams \cup {None}]
      /\ seat'[u] = t
      /\ \A v \in People \ {u} : seat'[v] = seat[v]
  BY <1>3, <1>5 DEF TypeOK
<1>9. TypeOK'
  <2>1. \A k \in RowIds : rows'[k] # NoRow =>
          rows'[k].email # None \/ rows'[k].user # None
    BY <1>2, <1>3, <1>7 DEF TypeOK
  <2>2. lapsed' \in SUBSET {k \in RowIds : rows'[k] # NoRow}
    BY <1>2, <1>6, <1>7, NoRowIsNoRow DEF TypeOK
  <2> QED
    BY <1>6, <1>7, <1>8, <2>1, <2>2 DEF TypeOK
<1>10. \A k \in RowIds : Kept(k) \/ Answered(k) \/ Inserted(k)
  <2>1. rows[i].user # None => rows[i].user = u
    BY <1>6 DEF MayAccept, IsFor
  <2>2. rows[i].team = t
    BY DEF t
  <2> QED
    BY <1>1, <1>2, <1>6, <1>7, <2>1, <2>2 DEF Kept, Answered
<1>11. InvitationsInv' /\ AnswersKept
  BY <1>6, <1>9, <1>10, NothingLockedAtAll, PlainStep
<1> DEFINE taken == {k \in RowIds : Pending(k) /\ rows'[k].status = "accepted"}
           seated == {v \in People : seat'[v] \notin {None, seat[v]}}
<1>12. taken = {i}
  BY <1>1, <1>2, <1>7 DEF Pending
<1>13. seated = {u}
  BY <1>3, <1>5, <1>8
<1>14. /\ rows[i].team = seat'[u] /\ team[seat'[u]] = "active"
       /\ rows[i].email # None => account[u] = "verified"
       /\ rows[i].email \in {u, None} /\ rows[i].user \in {u, None}
  BY <1>5, <1>6, <1>8 DEF MayAccept, IsFor, t
<1>15. Cardinality(taken) = Cardinality(seated)
  BY <1>12, <1>13, FS_Singleton
<1>16. SeatsByInvitation
  <2> HIDE DEF taken, seated
  <2>1. \A v \in seated : \E k \in taken :
          /\ k \notin lapsed
          /\ rows[k].team = seat'[v] /\ team[seat'[v]] = "active"
          /\ rows[k].email # None => account[v] = "verified"
          /\ rows[k].email \in {v, None} /\ rows[k].user \in {v, None}
    BY <1>6, <1>12, <1>13, <1>14
  <2> QED
    BY <1>15, <2>1 DEF taken, seated, SeatsByInvitation
<1> QED
  BY <1>11, <1>16 DEF StepKeeps

-----------------------------------------------------------------------------
(* The daily sweep *)

LEMMA ExpireKeeps ==
  ASSUME InvitationsInv, expireInvitations
  PROVE  StepKeeps
<1> USE DEF InvitationsInv
<1> DEFINE due == {i \in lapsed : Pending(i)}
<1>1. /\ due \cap Locked = {}
      /\ rows' = [i \in RowIds |->
           IF i \in due THEN [rows[i] EXCEPT !.status = "expired"] ELSE rows[i]]
      /\ UNCHANGED <<world, lapsed, request>>
  BY DEF expireInvitations
<1>2. ASSUME NEW i \in RowIds
      PROVE  /\ rows'[i] \in Row \cup {NoRow}
             /\ rows'[i] # NoRow <=> rows[i] # NoRow
             /\ rows'[i].email = rows[i].email /\ rows'[i].user = rows[i].user
             /\ Kept(i) \/ (Answered(i) /\ rows'[i].status # "accepted") \/ Inserted(i)
  <2>1. CASE i \notin due
    BY <1>1, <2>1 DEF Kept, TypeOK
  <2>2. CASE i \in due
    <3>1. rows[i] \in Row /\ rows[i] # NoRow /\ Pending(i) /\ i \notin Locked
      BY <1>1, <2>2, RowsAreRows
    <3> DEFINE new == [rows[i] EXCEPT !.status = "expired"]
    <3>2. /\ new \in Row /\ new.status = "expired"
          /\ new.team = rows[i].team /\ new.email = rows[i].email
          /\ new.user = rows[i].user
      BY <3>1 DEF Row, Statuses
    <3>3. rows'[i] = new
      BY <1>1, <2>2
    <3> HIDE DEF new
    <3> QED
      BY <3>1, <3>2, <3>3, NoRowIsNoRow DEF Answered
  <2> QED
    BY <2>1, <2>2
<1>3. TypeOK'
  <2>1. rows' \in [RowIds -> Row \cup {NoRow}]
    BY <1>1, <1>2
  <2>2. \A k \in RowIds : rows'[k] # NoRow =>
          rows'[k].email # None \/ rows'[k].user # None
    BY <1>2 DEF TypeOK
  <2>3. lapsed' \in SUBSET {k \in RowIds : rows'[k] # NoRow}
    BY <1>1, <1>2 DEF TypeOK
  <2> QED
    BY <1>1, <2>1, <2>2, <2>3 DEF TypeOK, world
<1>4. NothingNewLocked
  BY <1>1, NothingLockedAtAll
<1>5. \A v \in People : seat'[v] \in {None, seat[v]}
  BY <1>1 DEF world
<1> QED
  BY <1>2, <1>3, <1>4, <1>5, UnseatingStep

(* The backfill *)

LEMMA LinkTeamsIsRequest ==
  ASSUME NEW u \in People, NEW todo \in SUBSET Teams
  PROVE  LinkTeams(u, todo) \in Request /\ LinkTeams(u, todo).op \in {"idle", "link"}
BY DEF LinkTeams, Idle, Request

LEMMA VerifyKeeps ==
  ASSUME InvitationsInv, NEW u \in People, NEW p \in Requests, verifyEmail(p, u)
  PROVE  StepKeeps
<1> USE DEF InvitationsInv
<1> DEFINE r == LinkTeams(u, {t \in Teams : Open(u, t) # {}})
<1>1. r \in Request /\ r.op \in {"idle", "link"}
  BY LinkTeamsIsRequest
<1>2. request' = [request EXCEPT ![p] = r]
  BY DEF verifyEmail, Start
<1> HIDE DEF r
<1>3. request' \in [Requests -> Request] /\ NothingNewLocked
  BY <1>1, <1>2, RequestsNext, NothingLockedBy
<1>4. TypeOK'
  BY <1>3 DEF verifyEmail, TypeOK, Accounts
<1> QED
  BY <1>3, <1>4, QuietStep DEF verifyEmail

LEMMA BackfillFailsKeeps ==
  ASSUME InvitationsInv, NEW p \in Requests, backfillFails(p)
  PROVE  StepKeeps
BY IdleIsRequest, RequestOnly DEF backfillFails, Finish

(* SELECT ... FOR UPDATE waits for the rows that another backfill holds. *)
LEMMA LockKeeps ==
  ASSUME InvitationsInv, NEW p \in Requests, lockPending(p)
  PROVE  StepKeeps
<1> USE DEF InvitationsInv
<1> DEFINE u == request[p].person
<1>1. u \in People /\ request[p].todo \in SUBSET Teams
  BY DEF lockPending, Serving, TypeOK, Request
<1>2. PICK t \in request[p].todo :
        /\ Open(u, t) \cap Locked = {}
        /\ request' = [request EXCEPT ![p] =
             IF Open(u, t) = {} THEN LinkTeams(u, request[p].todo \ {t})
             ELSE [op |-> "settle", person |-> u, todo |-> request[p].todo \ {t},
                   locked |-> Open(u, t)]]
  BY DEF lockPending, TypeOK
<1> DEFINE open == Open(u, t)
           rest == request[p].todo \ {t}
<1>3. open \in SUBSET RowIds /\ t \in Teams /\ rest \in SUBSET Teams
  BY <1>1 DEF Open
<1>4. \A i \in open : rows[i].team = t /\ Pending(i) /\ IsFor(i, u)
  BY DEF Open
<1>5. UNCHANGED <<world, rows, lapsed>>
  BY DEF lockPending
<1>6. CASE open = {}
  <2>1. request' = [request EXCEPT ![p] = LinkTeams(u, rest)]
    BY <1>2, <1>6
  <2>2. LinkTeams(u, rest) \in Request /\ LinkTeams(u, rest).op \notin {"settle", "insert"}
    BY <1>1, <1>3, LinkTeamsIsRequest
  <2> HIDE DEF u, rest
  <2> QED
    BY <1>5, <2>1, <2>2, RequestOnly
<1>7. CASE open # {}
  <2> DEFINE r == [op |-> "settle", person |-> u, todo |-> rest, locked |-> open]
  <2>1. /\ r \in Request
        /\ r.op = "settle" /\ r.locked = open /\ r.person = u
    <3> HIDE DEF u, open, rest
    <3> QED  BY <1>1, <1>3 DEF Request
  <2>2. request' = [request EXCEPT ![p] = r]
    BY <1>2, <1>7
  <2>3. open \cap Locked = {}
    BY <1>2
  <2> HIDE DEF r, u, open, rest
  <2>4. /\ request' \in [Requests -> Request]
        /\ request'[p] = r
        /\ \A q \in Requests \ {p} : request'[q] = request[q]
    BY <2>1, <2>2, RequestsNext
  <2>5. TypeOK'
    BY <1>5, <2>4 DEF TypeOK, world
  <2>6. rows' = rows
    BY <1>5
  <2>7. InsertsArePending'
    BY <2>1, <2>4 DEF InsertsArePending, Serving
  <2>8. BackfillHolds'
    <3> SUFFICES ASSUME NEW q \in Requests, request'[q].op = "settle"
                 PROVE  /\ request'[q].locked # {}
                        /\ \E s \in Teams : \A i \in request'[q].locked :
                             /\ rows'[i].team = s
                             /\ Pending(i)'
                             /\ IsFor(i, request[q].person)'
      BY DEF BackfillHolds, Serving
    <3>1. CASE q = p
      BY <1>3, <1>4, <1>7, <2>1, <2>4, <2>6, <3>1 DEF Pending, IsFor
    <3>2. CASE q # p
      <4>1. request'[q] = request[q]
        BY <2>4, <3>2
      <4> QED
        BY <2>6, <4>1 DEF BackfillHolds, Serving, Pending, IsFor
    <3> QED
      BY <3>1, <3>2
  <2>9. LockedRowsStayPending'
    <3>1. \A q \in Requests \ {p} : Serving(q, "settle") =>
            request[q].locked \cap open = {}
      BY <2>3 DEF Locked
    <3>2. \A q, s \in Requests : Serving(q, "settle")' /\ Serving(s, "settle")'
            /\ request'[q].locked \cap request'[s].locked # {} => q = s
      BY <2>1, <2>4, <3>1 DEF Serving, LockedRowsStayPending
    <3>3. \A i \in Locked' : Pending(i)'
      BY <2>8 DEF Locked, BackfillHolds
    <3> QED
      BY <3>2, <3>3 DEF LockedRowsStayPending
  <2>10. SupersededHasSurvivor'
    BY <2>6 DEF SupersededHasSurvivor
  <2>11. AnswersKept /\ NobodySeated
    BY <1>5, <2>6 DEF AnswersKept, NobodySeated, Pending, world
  <2> QED
    BY <2>5, <2>7, <2>8, <2>9, <2>10, <2>11, NoneSeatedNoneTaken DEF StepKeeps
<1> QED
  BY <1>6, <1>7

(* The oldest of the locked rows stays behind all the others, which are superseded; where
   one of them was itself what an earlier backfill had left, the winner takes its place. *)
LEMMA SettlePendingKeeps ==
  ASSUME InvitationsInv, NEW p \in Requests, settlePending(p)
  PROVE  StepKeeps
<1> USE DEF InvitationsInv
<1> DEFINE u == request[p].person
           locked == request[p].locked
           winner == Winner(locked)
           r == LinkTeams(u, request[p].todo)
<1>1. /\ Serving(p, "settle") /\ u \in People /\ locked \in SUBSET RowIds
      /\ request[p].todo \in SUBSET Teams
  BY DEF settlePending, Serving, TypeOK, Request
<1>2. locked # {}
  BY <1>1 DEF BackfillHolds
<1>3. winner \in locked /\ winner \in RowIds /\ \A i \in locked : winner <= i
  BY <1>1, <1>2, OldestRow
<1>4. PICK t \in Teams :
        \A i \in locked : rows[i].team = t /\ Pending(i) /\ IsFor(i, u)
  BY <1>1 DEF BackfillHolds
<1>5. rows' = [i \in RowIds |->
        IF i = winner THEN [rows[winner] EXCEPT !.user = u]
        ELSE IF i \in locked \ {winner} THEN [rows[i] EXCEPT !.status = "superseded"]
        ELSE rows[i]]
  BY DEF settlePending, Backfilled
<1>6. request' = [request EXCEPT ![p] = r] /\ UNCHANGED <<world, lapsed>>
  BY DEF settlePending, TypeOK
<1>7. r \in Request /\ r.op \in {"idle", "link"}
  <2> HIDE DEF u
  <2> QED  BY <1>1, LinkTeamsIsRequest
<1>8. u # None
  BY <1>1, NoneIsNobody
<1> HIDE DEF u, locked, winner, r
<1>9. ASSUME NEW i \in locked
      PROVE  rows[i] \in Row /\ rows[i] # NoRow /\ rows[i].status = "pending"
  BY <1>1, <1>4, RowsAreRows DEF Pending
<1>10. /\ rows'[winner] \in Row
       /\ rows'[winner].status = "pending" /\ rows'[winner].team = t
       /\ rows'[winner].user = u
  <2> DEFINE new == [rows[winner] EXCEPT !.user = u]
  <2>1. new \in Row /\ new.status = "pending" /\ new.team = t /\ new.user = u
    BY <1>1, <1>3, <1>4, <1>9 DEF Row
  <2>2. rows'[winner] = new
    BY <1>3, <1>5
  <2> QED
    BY <2>1, <2>2
<1>11. ASSUME NEW i \in locked \ {winner}
       PROVE  /\ rows'[i] \in Row
              /\ rows'[i].status = "superseded" /\ rows'[i].team = t
              /\ rows'[i].user = rows[i].user /\ rows'[i].email = rows[i].email
  <2> DEFINE new == [rows[i] EXCEPT !.status = "superseded"]
  <2>1. /\ new \in Row
        /\ new.status = "superseded" /\ new.team = t
        /\ new.user = rows[i].user /\ new.email = rows[i].email
    BY <1>4, <1>9 DEF Row, Statuses
  <2>2. rows'[i] = new
    BY <1>1, <1>5
  <2> QED
    BY <2>1, <2>2
<1>12. \A i \in RowIds \ locked : rows'[i] = rows[i]
  BY <1>3, <1>5
<1>13. /\ request' \in [Requests -> Request]
       /\ request'[p] = r
       /\ \A q \in Requests \ {p} : request'[q] = request[q]
  BY <1>6, <1>7, RequestsNext
<1>14. TypeOK'
  <2>1. rows' \in [RowIds -> Row \cup {NoRow}]
    <3>1. \A i \in RowIds : rows'[i] \in Row \cup {NoRow}
      BY <1>10, <1>11, <1>12 DEF TypeOK
    <3> QED
      BY <1>5, <3>1
  <2>2. \A i \in RowIds : rows'[i] # NoRow => rows'[i].email # None \/ rows'[i].user # None
    BY <1>8, <1>9, <1>10, <1>11, <1>12 DEF TypeOK
  <2>3. lapsed' \in SUBSET {i \in RowIds : rows'[i] # NoRow}
    BY <1>6, <1>10, <1>11, <1>12, NoRowIsNoRow DEF TypeOK
  <2> QED
    BY <1>6, <1>13, <2>1, <2>2, <2>3 DEF TypeOK, world
<1>15. InsertsArePending'
  BY <1>7, <1>13 DEF InsertsArePending, Serving
<1>16. BackfillHolds'
  <2> SUFFICES ASSUME NEW q \in Requests, request'[q].op = "settle"
               PROVE  /\ request'[q].locked # {}
                      /\ \E s \in Teams : \A i \in request'[q].locked :
                           /\ rows'[i].team = s
                           /\ Pending(i)'
                           /\ IsFor(i, request[q].person)'
    BY DEF BackfillHolds, Serving
  <2>1. q # p /\ request'[q] = request[q]
    BY <1>7, <1>13
  <2>2. request[q].locked \cap locked = {}
    BY <1>1, <2>1 DEF LockedRowsStayPending, Serving, locked
  <2>3. request[q].locked \subseteq RowIds
    BY <2>1 DEF TypeOK, Request
  <2>4. \A i \in request[q].locked : rows'[i] = rows[i]
    BY <1>12, <2>2, <2>3
  <2> QED
    BY <2>1, <2>4 DEF BackfillHolds, Serving, Pending, IsFor
<1>17. LockedRowsStayPending'
  <2>1. \A q, s \in Requests : Serving(q, "settle")' /\ Serving(s, "settle")'
          /\ request'[q].locked \cap request'[s].locked # {} => q = s
    BY <1>7, <1>13 DEF Serving, LockedRowsStayPending
  <2>2. \A i \in Locked' : Pending(i)'
    BY <1>16 DEF Locked, BackfillHolds
  <2> QED
    BY <2>1, <2>2 DEF LockedRowsStayPending
<1>18. SupersededHasSurvivor'
  <2> SUFFICES ASSUME NEW i \in RowIds, rows'[i].status = "superseded"
               PROVE  \E j \in 1 .. i - 1 :
                        /\ rows'[j].team = rows'[i].team
                        /\ rows'[j].status # "superseded"
                        /\ rows'[j].user # None
                        /\ rows'[j].user \in {rows'[i].user, rows'[i].email}
    BY DEF SupersededHasSurvivor
  <2>1. i # winner
    BY <1>10
  <2>2. CASE i \in locked
    <3>1. winner \in 1 .. i - 1
      BY <1>3, <2>1, <2>2, MaxRowsIsNat DEF RowIds
    <3>2. u \in {rows[i].user, rows[i].email}
      BY <1>4, <2>2 DEF IsFor
    <3> QED
      BY <1>8, <1>10, <1>11, <2>1, <2>2, <3>1, <3>2
  <2>3. CASE i \notin locked
    <3>1. rows'[i] = rows[i]
      BY <1>12, <2>3
    <3>2. PICK j \in 1 .. i - 1 :
            /\ rows[j].team = rows[i].team
            /\ rows[j].status # "superseded"
            /\ rows[j].user # None /\ rows[j].user \in {rows[i].user, rows[i].email}
      BY <3>1 DEF SupersededHasSurvivor
    <3>3. j \in RowIds
      BY MaxRowsIsNat DEF RowIds
    <3>4. CASE j \notin locked
      BY <1>12, <3>1, <3>2, <3>3, <3>4
    <3>5. CASE j \in locked
      <4>1. rows[j].user = u /\ rows[i].team = t
        BY <1>4, <3>2, <3>5 DEF IsFor
      <4>2. winner \in 1 .. i - 1
        BY <1>3, <3>5, MaxRowsIsNat DEF RowIds
      <4> QED
        BY <1>8, <1>10, <3>1, <3>2, <4>1, <4>2
    <3> QED
      BY <3>4, <3>5
  <2> QED
    BY <2>2, <2>3
<1>19. AnswersKept
  BY <1>4, <1>12 DEF AnswersKept
<1>20. NobodySeated
  BY <1>6, <1>10, <1>11, <1>12 DEF NobodySeated, Pending, world
<1> QED
  BY <1>14, <1>15, <1>16, <1>17, <1>18, <1>19, <1>20, NoneSeatedNoneTaken DEF StepKeeps

-----------------------------------------------------------------------------
LEMMA InitInvitations == Init => InvitationsInv
<1> SUFFICES ASSUME Init PROVE InvitationsInv
  OBVIOUS
<1>1. \A i \in RowIds : rows[i].status = "none"
  BY DEF Init, NoRow
<1>2. TypeOK
  BY IdleIsRequest DEF Init, TypeOK, Accounts
<1>3. \A p \in Requests : request[p].op = "idle"
  BY DEF Init, Idle
<1>4. Locked = {}
  BY <1>3 DEF Locked, Serving
<1> QED
  BY <1>1, <1>2, <1>3, <1>4 DEF InvitationsInv, InsertsArePending, BackfillHolds,
     LockedRowsStayPending, SupersededHasSurvivor, Serving

(* Every step keeps the invariant, and is one that the two action properties allow. *)
LEMMA EveryStepKeeps ==
  ASSUME InvitationsInv, [Next]_vars
  PROVE  InvitationsInv' /\ [AnswersKept]_vars /\ [SeatsByInvitation]_vars
<1>1. CASE UNCHANGED vars
  BY <1>1 DEF vars, world, InvitationsInv, TypeOK, InsertsArePending, BackfillHolds,
     LockedRowsStayPending, SupersededHasSurvivor, Serving, Pending, IsFor, Locked
<1>2. ASSUME NEW u \in People, PersonStep(u) PROVE StepKeeps
  BY <1>2, RegisterKeeps, LeaveKeeps, AcceptKeeps, DeclineKeeps, VerifyKeeps
  DEF PersonStep
<1>3. ASSUME NEW p \in Requests, InviterStep(p) PROVE StepKeeps
  BY <1>3, ReceiveInviteKeeps, ReceiveRevokeKeeps, ResolveKeeps DEF InviterStep
<1>4. ASSUME NEW p \in Requests, ServerStep(p) PROVE StepKeeps
  BY <1>4, InsertKeeps, SkipKeeps, RevokeKeeps, LockKeeps, SettlePendingKeeps,
     BackfillFailsKeeps, EndKeeps DEF ServerStep
<1> QED
  BY <1>1, <1>2, <1>3, <1>4, DisbandKeeps, LapseKeeps, ExpireKeeps DEF Next, StepKeeps

LEMMA InvitationsInvariant == Spec => []InvitationsInv
<1>1. InvitationsInv /\ [Next]_vars => InvitationsInv'
  BY EveryStepKeeps
<1> QED
  BY <1>1, InitInvitations, PTL DEF Spec

(* The columns keep to their domains, every row names a person, and every request is one
   of those the routes can have in flight. *)
THEOREM InvitationTypes == Spec => []TypeOK
<1>1. InvitationsInv => TypeOK
  BY DEF InvitationsInv
<1> QED
  BY <1>1, InvitationsInvariant, PTL

(* SELECT ... FOR UPDATE does what the backfill relies on: nobody answers, revokes or
   expires a row between its selection and its update, and no two backfills meet on one. *)
THEOREM BackfillLockHolds == Spec => []LockedRowsStayPending
<1>1. InvitationsInv => LockedRowsStayPending
  BY DEF InvitationsInv
<1> QED
  BY <1>1, InvitationsInvariant, PTL

(* Behind every superseded invitation an older one survives, however many rows are
   normalised how often. *)
THEOREM OldestSurvives == Spec => []SupersededHasSurvivor
<1>1. InvitationsInv => SupersededHasSurvivor
  BY DEF InvitationsInv
<1> QED
  BY <1>1, InvitationsInvariant, PTL

(* Asking for status 'pending' again in every UPDATE is enough: an invitation is answered
   once. *)
THEOREM AnswersAreFinal == Spec => SettledIsFinal
<1>1. InvitationsInv /\ [Next]_vars => [AnswersKept]_vars
  BY EveryStepKeeps
<1>2. [][AnswersKept]_vars => SettledIsFinal
  BY DEF AnswersKept, SettledIsFinal
<1> QED
  BY <1>1, <1>2, InvitationsInvariant, PTL DEF Spec

(* A seat and the acceptance of exactly one invitation come together. *)
THEOREM SeatsByOneInvitation == Spec => SeatsComeFromInvitations
<1>1. InvitationsInv /\ [Next]_vars => [SeatsByInvitation]_vars
  BY EveryStepKeeps
<1>2. [][SeatsByInvitation]_vars => SeatsComeFromInvitations
  BY DEF SeatsByInvitation, SeatsComeFromInvitations
<1> QED
  BY <1>1, <1>2, InvitationsInvariant, PTL DEF Spec

=============================================================================
