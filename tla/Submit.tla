-------------------------------- MODULE Submit --------------------------------
(***************************************************************************)
(* How a usage report becomes the account's stored usage: the transaction  *)
(* of POST in web/src/app/api/submit/route.ts with the merge helpers of    *)
(* web/src/lib/db/helpers.ts, next to DELETE in                            *)
(* web/src/app/api/settings/submitted-data/route.ts.                       *)
(*                                                                         *)
(* One account.  Its submits wait for each other at its one row of         *)
(* submissions, so a transaction is three steps at most: it looks for the  *)
(* row, inserts it if there was none, and then, holding it, does all the   *)
(* rest.  The deletion takes no lock before its two statements and is      *)
(* split between them.                                                     *)
(*                                                                         *)
(* A client-day of a device is a cell: its tokens stand for the signature  *)
(* <tokens, input> and for every other count, its revision for the parser  *)
(* that read it.  A daily_breakdown row is there while one of its cells    *)
(* is.  Left out: client-days without tokens, the legacy client alias,     *)
(* imported history's tag, cost, models, speed, MCP servers and dates.     *)
(***************************************************************************)
EXTENDS Naturals, FiniteSets, FiniteSetsExt

CONSTANTS
  Machines,    \* device keys of machines
  Clouds,      \* device keys of cloud sessions
  Legacy,      \* LEGACY_SUBMIT_DEVICE_KEY: reports that name no device
  Days,        \* dates, in their order
  Clients,     \* the agents whose logs are counted
  CloudClient, \* the one agent a cloud session may report
  Tokens,      \* token counts a client-day may have
  Revisions,   \* parser revisions; 1 is the oldest
  ReclaimMin,  \* CROSS_DEVICE_DUP_MIN_TOKENS
  Metrics,     \* values of a session-shape metric, e.g. the session count
  Requests,    \* requests in flight
  None         \* SQL NULL, or nothing there

ASSUME DaysAreOrdered == Days \subseteq Nat
ASSUME CountsAreNat ==
  /\ Tokens \subseteq Nat \ {0} /\ IsFiniteSet(Tokens)
  /\ Metrics \subseteq Nat
  /\ ReclaimMin \in Nat
ASSUME RevisionsAreNat ==
  Revisions \subseteq Nat \ {0} /\ 1 \in Revisions /\ IsFiniteSet(Revisions)
ASSUME DevicesDiffer ==
  Legacy \notin Machines \cup Clouds /\ Machines \cap Clouds = {}
ASSUME NoneIsNoValue ==
  None \notin Nat \cup [tokens: Tokens, revision: Revisions]

VARIABLES
  usage,       \* daily_breakdown: the cell of each device, day and client
  submission,  \* the account's row of submissions: the total and a metric
  request      \* what each request in flight is doing

vars == <<usage, submission, request>>

Devices == Machines \cup Clouds \cup {Legacy}
Cells   == Devices \X Days \X Clients
Cell    == [tokens: Tokens, revision: Revisions]

ASSUME CellsAreFinite == IsFiniteSet(Cells)

NoUsage == [k \in Cells |-> None]

Submission == [total: Nat, metric: Metrics \cup {None}]

-----------------------------------------------------------------------------
(* What a device may report: the rules of validateSubmission *)

\* One client: the days it was used, under one revision, and the days the
\* report replaces (the coverage of its manifest entry), an interval.
Report ==
  {r \in [revision: Revisions, days: [Days -> Tokens \cup {None}],
          replace: {{}} \cup {lo .. hi : lo, hi \in Days}] :
     LET used == {y \in Days : r.days[y] # None}
     IN  used # {} /\ (r.replace = {} \/ used \subseteq r.replace)}

\* A manifest, and so a newer revision or a replacement, needs a device; a
\* cloud session replaces nothing and reports its own agent only.
Allowed(d, c, r) ==
  /\ d = Legacy => r.revision = 1
  /\ d \notin Machines => r.replace = {}
  /\ d \in Clouds => c = CloudClient

Payload ==
  {data \in [device: Devices, reports: [Clients -> Report \cup {None}],
             metric: Metrics \cup {None}] :
     LET reported == {c \in Clients : data.reports[c] # None}
     IN  /\ reported # {}
         /\ \A c \in reported : Allowed(data.device, c, data.reports[c])}

ASSUME NoneIsNoPayload == None \notin Payload

\* "insert" has found no row of submissions; "merge" holds it, and knows the
\* metric it had; "deleteDevices" is the second statement of a deletion, whose
\* first one may have deleted the row of submissions.
Request ==
  [op: {"idle", "insert", "merge", "deleteDevices"},
   data: Payload \cup {None}, metric: Metrics \cup {None}, held: BOOLEAN]

Idle == [op |-> "idle", data |-> None, metric |-> None, held |-> FALSE]

Init ==
  /\ usage = NoUsage
  /\ submission = None
  /\ request = [p \in Requests |-> Idle]

-----------------------------------------------------------------------------
(* The merge *)

HasRows(u, d) == \E y \in Days, c \in Clients : u[<<d, y, c>>] # None

TokensOf(u) == MapThenSumSet(LAMBDA k : IF u[k] = None THEN 0 ELSE u[k].tokens, Cells)

\* The revision below which the account takes no more reports of client c.
Floor(u, c) ==
  Max({1} \cup {u[k].revision : k \in {j \in Cells : u[j] # None /\ j[3] = c}})

\* Slip: cloud sessions may inherit too.
AdoptedByAny(u, d) ==
  IF ~HasRows(u, d) /\ \A e \in Devices \ {Legacy} : ~HasRows(u, e)
  THEN [k \in Cells |->
         IF k[1] = Legacy THEN None ELSE IF k[1] = d THEN u[<<Legacy, k[2], k[3]>>] ELSE u[k]]
  ELSE u

\* The first machine to report continues the legacy history, unless a device
\* has rows of its own.
Adopted(u, d) ==
  IF /\ d \in Machines
     /\ ~HasRows(u, d)
     /\ \A e \in Devices \ {Legacy} : ~HasRows(u, e)
  THEN [k \in Cells |->
         IF k[1] = Legacy THEN None ELSE IF k[1] = d THEN u[<<Legacy, k[2], k[3]>>] ELSE u[k]]
  ELSE u

\* Slip: only rows of the reporting device count for the floor.
IncomingOwnFloor(u, data, y, c) ==
  LET r == data.reports[c]
      own == {u[<<data.device, z, c>>] : z \in Days} \ {None}
  IN  IF r # None /\ r.days[y] # None /\ \A cell \in own : r.revision >= cell.revision
      THEN [tokens |-> r.days[y], revision |-> r.revision] ELSE None

\* What a report says of a client-day, if its revision is not outdated.
Incoming(u, data, y, c) ==
  LET r == data.reports[c]
  IN  IF r # None /\ r.days[y] # None /\ r.revision >= Floor(u, c)
      THEN [tokens |-> r.days[y], revision |-> r.revision] ELSE None

\* Authoritative coverage.
Replaced(u, data, y, c) ==
  LET r == data.reports[c]
  IN  r # None /\ y \in r.replace /\ r.revision >= Floor(u, c)

\* Slip: the regression guard takes the newer report as it comes.
AlwaysNewer(incoming, stored) == FALSE

\* The regression guard keeps what is stored.
Regresses(incoming, stored) ==
  \/ incoming.revision < stored.revision
  \/ incoming.revision = stored.revision /\ incoming.tokens < stored.tokens

\* Slip: a report adds to what is stored, so a repeated one counts again.
AddedUp(u, data, y, c) ==
  LET stored == u[<<data.device, y, c>>]
      incoming == Incoming(u, data, y, c)
  IN  IF incoming = None THEN stored
      ELSE [incoming EXCEPT !.tokens = @ + (IF stored = None THEN 0 ELSE stored.tokens)]

\* mergeClientBreakdownsWithRegressionGuard for the reporting device.
MergedCell(u, data, y, c) ==
  LET stored == IF Replaced(u, data, y, c) THEN None ELSE u[<<data.device, y, c>>]
      incoming == Incoming(u, data, y, c)
  IN  IF incoming = None \/ (stored # None /\ Regresses(incoming, stored))
      THEN stored ELSE incoming

\* Slip: nothing is ever taken back from another device.
NeverReclaimed(u, data, k) == FALSE

\* An identical client-day of another device is a misattributed twin.
Reclaimed(u, data, k) ==
  LET incoming == Incoming(u, data, k[2], k[3])
  IN  /\ u[k] # None /\ incoming # None
      /\ incoming.tokens >= ReclaimMin
      /\ u[k].tokens = incoming.tokens

Merged(u, data) ==
  [k \in Cells |->
    IF k[1] = data.device THEN MergedCell(u, data, k[2], k[3])
    ELSE IF Reclaimed(u, data, k) THEN None
    ELSE u[k]]

\* mergeMonotonic, of two nullable numbers.
MergeMonotonic(existing, incoming) ==
  IF existing = None \/ incoming = None
  THEN IF existing = None THEN incoming ELSE existing
  ELSE Max({existing, incoming})

-----------------------------------------------------------------------------
(* POST /api/submit *)

Serving(p, op) == request[p].op = op

Finish(p) == request' = [request EXCEPT ![p] = Idle]

\* Nobody holds the row of submissions, nor an uncommitted one, nor has
\* deleted it without having committed.
Free ==
  \A p \in Requests : ~Serving(p, "merge") /\ ~request[p].held

Hold(p, data, metric) ==
  request' = [request EXCEPT ![p] =
    [op |-> "merge", data |-> data, metric |-> metric, held |-> FALSE]]

\* SELECT ... FOR UPDATE finds the row, maybe after having waited for it.
findSubmission(p, data) ==
  /\ request[p] = Idle
  /\ submission # None
  /\ Free
  /\ Hold(p, data, submission.metric)
  /\ UNCHANGED <<usage, submission>>

\* It finds none: there is none, or it is not committed.
findNoSubmission(p, data) ==
  /\ request[p] = Idle
  /\ submission = None
  /\ request' = [request EXCEPT ![p] =
       [op |-> "insert", data |-> data, metric |-> None, held |-> FALSE]]
  /\ UNCHANGED <<usage, submission>>

insertSubmission(p) ==
  /\ Serving(p, "insert")
  /\ submission = None
  /\ Free
  /\ Hold(p, request[p].data, None)
  /\ UNCHANGED <<usage, submission>>

\* Slip: the metric of the row that won the race is not taken over.
racedWithoutMetric(p) ==
  /\ Serving(p, "insert")
  /\ submission # None
  /\ Free
  /\ Hold(p, request[p].data, None)
  /\ UNCHANGED <<usage, submission>>

\* 23505: another submit was first, and its row is selected FOR UPDATE.
racedSubmission(p) ==
  /\ Serving(p, "insert")
  /\ submission # None
  /\ Free
  /\ Hold(p, request[p].data, submission.metric)
  /\ UNCHANGED <<usage, submission>>

\* The rest of the transaction, down to the totals recomputed from all rows.
mergeSubmission(p) ==
  LET data == request[p].data
  IN  /\ Serving(p, "merge")
      /\ usage' = Merged(Adopted(usage, data.device), data)
      /\ submission' = [total |-> TokensOf(usage'),
                        metric |-> MergeMonotonic(request[p].metric, data.metric)]
      /\ Finish(p)

\* An error, a lost connection or a crash: the transaction rolls back.
Abort(p) ==
  /\ request[p] # Idle
  /\ Finish(p)
  /\ UNCHANGED <<usage, submission>>

-----------------------------------------------------------------------------
(* DELETE /api/settings/submitted-data *)

\* The first statement deletes the row of submissions it can see.
deleteSubmission(p) ==
  /\ request[p] = Idle
  /\ submission # None => Free
  /\ request' = [request EXCEPT ![p].op = "deleteDevices",
                                ![p].held = (submission # None)]
  /\ UNCHANGED <<usage, submission>>

\* The second deletes the devices it can see, and the rows of usage with them.
deleteDevices(p) ==
  /\ Serving(p, "deleteDevices")
  /\ usage' = NoUsage
  /\ submission' = IF request[p].held THEN None ELSE submission
  /\ Finish(p)

-----------------------------------------------------------------------------
(* Next-state relation *)

SubmitStep(p) ==
  \/ \E data \in Payload : findSubmission(p, data) \/ findNoSubmission(p, data)
  \/ insertSubmission(p)
  \/ racedSubmission(p)
  \/ mergeSubmission(p)

Next ==
  \E p \in Requests :
    \/ SubmitStep(p)
    \/ deleteSubmission(p)
    \/ deleteDevices(p)
    \/ Abort(p)

Spec == Init /\ [][Next]_vars

-----------------------------------------------------------------------------
(* Properties *)

\* Types: every stored client-day is one that some device reported as it is,
\* so a repeated report is not added up, and a request that will write knows
\* what was reported.
TypeOK ==
  /\ usage \in [Cells -> Cell \cup {None}]
  /\ submission \in Submission \cup {None}
  /\ request \in [Requests -> Request]
  /\ \A p \in Requests : Serving(p, "insert") \/ Serving(p, "merge") =>
       request[p].data # None

\* No usage is counted twice: a client-day above the threshold is never stored
\* with the same counts for two devices, whichever of them reported it first
\* and whatever was adopted, kept or replaced meanwhile.
NoUsageTwice ==
  \A y \in Days, c \in Clients, d, e \in Devices :
    /\ usage[<<d, y, c>>] # None /\ usage[<<e, y, c>>] # None
    /\ usage[<<d, y, c>>].tokens = usage[<<e, y, c>>].tokens
    /\ usage[<<d, y, c>>].tokens >= ReclaimMin
    => d = e

Merging(p) == Serving(p, "merge") /\ request'[p] = Idle

Deleting(p) == Serving(p, "deleteDevices") /\ request'[p] = Idle

\* An old parser never gets its numbers back in: until the data is deleted,
\* the revision an account asks for never falls, not even when the rows that
\* set it are replaced, reclaimed or adopted.
FloorNeverFalls ==
  [][\A c \in Clients :
       Floor(usage', c) >= Floor(usage, c) \/ \E p \in Requests : Deleting(p)]_vars

Peak(u, y, c) ==
  Max({0} \cup {u[k].tokens : k \in {j \in Cells : u[j] # None /\ j[2] = y /\ j[3] = c}})

\* Usage is not lost by a smaller report: the most that any device has for a
\* client-day only falls by a deletion, by a newer revision, or where the
\* report says that it replaces the day; moving it to another device or
\* adopting it keeps it.
PeakIsKept ==
  [][\A y \in Days, c \in Clients :
       Peak(usage', y, c) < Peak(usage, y, c) =>
         \E p \in Requests :
           \/ Deleting(p)
           \/ LET r == request[p].data.reports[c]
              IN  /\ Merging(p) /\ r # None
                  /\ \/ y \in r.replace
                     \/ \E d \in Devices : usage[<<d, y, c>>] # None
                          /\ usage[<<d, y, c>>].revision < r.revision]_vars

\* cloud-sessions.md: a cloud session never inherits: what is stored for it is
\* what it reported itself.
CloudKeepsToItself ==
  [][\A d \in Clouds, y \in Days, c \in Clients :
       usage'[<<d, y, c>>] \notin {None, usage[<<d, y, c>>]} =>
         \E p \in Requests :
           /\ Merging(p)
           /\ request[p].data.device = d
           /\ request[p].data.reports[c].days[y] = usage'[<<d, y, c>>].tokens]_vars

\* Session metrics only ever grow, also for the loser of a race to insert the
\* account's first row.
MetricsOnlyGrow ==
  [][submission # None /\ submission' # None /\ submission.metric # None =>
       submission'.metric # None /\ submission'.metric >= submission.metric]_vars

\* The totals are those of the stored days.  A deletion that began before the
\* account's first submit breaks it (see README).
TotalsMatchRows ==
  IF submission = None THEN usage = NoUsage ELSE submission.total = TokensOf(usage)

\* submit/route.ts: a reclaim moves usage between devices and never changes the
\* account total, so a report that replaces nothing and brings no newer
\* revision never lowers it.  The regression guard breaks it (see README).
ReclaimKeepsTotal ==
  [][\A p \in Requests :
       Merging(p) /\ (\A c \in Clients : LET r == request[p].data.reports[c]
                                         IN  r # None => r.replace = {} /\ r.revision = Floor(usage, c))
       => TokensOf(usage') >= TokensOf(usage)]_vars
=============================================================================
