----------------------------- MODULE Membership -----------------------------
(***************************************************************************)
(* What the team tables promise whoever reads them, with no requests, no   *)
(* locks, no groups and no authority: seats in teams and the life of a     *)
(* team.  Module Teams is shown to implement this specification.           *)
(***************************************************************************)
EXTENDS Naturals, FiniteSets

CONSTANTS Users, TeamIds, SubadminCap, None

VARIABLES
  status,  \* of each team: "none", "active" or "disbanded"
  seat     \* of each user: a team and a role in it, or no seat

seats == <<status, seat>>

NoSeat == [team |-> None, role |-> "none"]

Seat(t, r) == [team |-> t, role |-> r]

Holders(t, r) == {u \in Users : seat[u] = Seat(t, r)}

Init ==
  /\ status = [t \in TeamIds |-> "none"]
  /\ seat = [u \in Users |-> NoSeat]

\* A user without a seat founds a team and is its admin.
Found(u, t) ==
  /\ status[t] = "none"
  /\ seat[u] = NoSeat
  /\ status' = [status EXCEPT ![t] = "active"]
  /\ seat' = [seat EXCEPT ![u] = Seat(t, "admin")]

\* A user without a seat joins an active team as a plain member.
Join(u, t) ==
  /\ status[t] = "active"
  /\ seat[u] = NoSeat
  /\ seat' = [seat EXCEPT ![u] = Seat(t, "member")]
  /\ UNCHANGED status

\* Anyone but an admin gives up the seat, willingly or not.
Depart(u, t) ==
  /\ seat[u] \in {Seat(t, "member"), Seat(t, "subadmin")}
  /\ seat' = [seat EXCEPT ![u] = NoSeat]
  /\ UNCHANGED status

\* The admin's seat passes on: whoever held it becomes a member.
Succeed(u, t) ==
  /\ seat[u] \in {Seat(t, "member"), Seat(t, "subadmin")}
  /\ seat' = [v \in Users |->
       IF v = u THEN Seat(t, "admin")
       ELSE IF v \in Holders(t, "admin") THEN Seat(t, "member")
       ELSE seat[v]]
  /\ UNCHANGED status

\* One more subadmin, within the cap.
Appoint(u, t) ==
  /\ seat[u] \in {Seat(t, "member"), Seat(t, "admin")}
  /\ Cardinality(Holders(t, "subadmin")) < SubadminCap
  /\ seat' = [seat EXCEPT ![u] = Seat(t, "subadmin")]
  /\ UNCHANGED status

Demote(u, t) ==
  /\ seat[u] \in {Seat(t, "subadmin"), Seat(t, "admin")}
  /\ seat' = [seat EXCEPT ![u] = Seat(t, "member")]
  /\ UNCHANGED status

\* Every seat of the team goes at once, and the team never comes back.
Dissolve(t) ==
  /\ status[t] = "active"
  /\ status' = [status EXCEPT ![t] = "disbanded"]
  /\ seat' = [u \in Users |-> IF seat[u].team = t THEN NoSeat ELSE seat[u]]

\* The row goes, and nobody loses a seat by it.
Erase(t) ==
  /\ status[t] = "disbanded"
  /\ status' = [status EXCEPT ![t] = "none"]
  /\ UNCHANGED seat

Next ==
  \E t \in TeamIds :
    \/ Dissolve(t)
    \/ Erase(t)
    \/ \E u \in Users :
         \/ Found(u, t)
         \/ Join(u, t)
         \/ Depart(u, t)
         \/ Succeed(u, t)
         \/ Appoint(u, t)
         \/ Demote(u, t)

Spec == Init /\ [][Next]_seats
=============================================================================
