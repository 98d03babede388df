------------------------------ MODULE SubmitProofs ------------------------------
(***************************************************************************)
(* Proofs about Submit, for every set of devices, days, clients, token     *)
(* counts and revisions, and any number of requests in flight.             *)
(***************************************************************************)
EXTENDS Submit, FiniteSetTheorems, WellFoundedInduction, TLAPS

\* NoUsageTwice, of any usage: in particular of one that is about to be stored.
NoneTwice(u) ==
  \A y \in Days, c \in Clients, d, e \in Devices :
    /\ u[<<d, y, c>>] # None /\ u[<<e, y, c>>] # None
    /\ u[<<d, y, c>>].tokens = u[<<e, y, c>>].tokens
    /\ u[<<d, y, c>>].tokens >= ReclaimMin
    => d = e

\* Adopting the legacy history moves it to the only device that will have any.
LEMMA AdoptionKeepsNoneTwice ==
  ASSUME NEW u, NEW d \in Devices, NoneTwice(u)
  PROVE  NoneTwice(Adopted(u, d))
<1> DEFINE a == Adopted(u, d)
<1>1. CASE a = u
  BY <1>1
<1>2. CASE a # u
  <2>1. /\ d \in Machines
        /\ \A e \in Devices \ {Legacy} : ~HasRows(u, e)
        /\ a = [k \in Cells |-> IF k[1] = Legacy THEN None
                                ELSE IF k[1] = d THEN u[<<Legacy, k[2], k[3]>>] ELSE u[k]]
    BY <1>2 DEF Adopted
  <2>2. ASSUME NEW e \in Devices, e # d, NEW y \in Days, NEW c \in Clients
        PROVE  a[<<e, y, c>>] = None
    <3>1. <<e, y, c>> \in Cells
      BY DEF Cells
    <3>2. CASE e = Legacy
      BY <2>1, <3>1, <3>2
    <3>3. CASE e # Legacy
      BY <2>1, <2>2, <3>1, <3>3 DEF HasRows
    <3> QED BY <3>2, <3>3
  <2> QED BY <2>2 DEF NoneTwice
<1> QED BY <1>1, <1>2

\* A merge stores for the reporting device what no other device keeps.
LEMMA MergeKeepsNoneTwice ==
  ASSUME NEW u, NEW data, data.device \in Devices, NoneTwice(u)
  PROVE  NoneTwice(Merged(u, data))
<1> DEFINE m == Merged(u, data)
<1> SUFFICES ASSUME NEW y \in Days, NEW c \in Clients, NEW d \in Devices, NEW e \in Devices,
                    m[<<d, y, c>>] # None, m[<<e, y, c>>] # None,
                    m[<<d, y, c>>].tokens = m[<<e, y, c>>].tokens,
                    m[<<d, y, c>>].tokens >= ReclaimMin,
                    d # e
             PROVE  FALSE
  BY DEF NoneTwice
<1>1. ASSUME NEW f \in Devices
      PROVE  m[<<f, y, c>>] = IF f = data.device THEN MergedCell(u, data, y, c)
                          ELSE IF Reclaimed(u, data, <<f, y, c>>) THEN None
                          ELSE u[<<f, y, c>>]
  <2>1. <<f, y, c>> \in Cells
    BY DEF Cells
  <2> QED BY <2>1 DEF Merged
<1>2. ASSUME NEW f \in Devices, f # data.device, m[<<f, y, c>>] # None
      PROVE  m[<<f, y, c>>] = u[<<f, y, c>>] /\ ~Reclaimed(u, data, <<f, y, c>>)
  BY <1>1, <1>2
\* The reporting device d1 and another one, d2.
<1>3. ASSUME NEW d1 \in Devices, NEW d2 \in Devices, d1 = data.device, d2 # d1,
             m[<<d1, y, c>>] # None, m[<<d2, y, c>>] # None,
             m[<<d1, y, c>>].tokens = m[<<d2, y, c>>].tokens,
             m[<<d1, y, c>>].tokens >= ReclaimMin
      PROVE  FALSE
  <2>1. m[<<d2, y, c>>] = u[<<d2, y, c>>] /\ ~Reclaimed(u, data, <<d2, y, c>>)
    BY <1>2, <1>3
  <2>2. m[<<d1, y, c>>] = MergedCell(u, data, y, c)
    BY <1>1, <1>3
  <2>3. CASE m[<<d1, y, c>>] = u[<<d1, y, c>>]
    BY <1>3, <2>1, <2>3 DEF NoneTwice
  <2>4. CASE m[<<d1, y, c>>] = Incoming(u, data, y, c)
    BY <1>3, <2>1, <2>4 DEF Reclaimed
  <2> QED BY <1>3, <2>2, <2>3, <2>4 DEF MergedCell
<1>4. CASE d = data.device
  BY <1>3, <1>4
<1>5. CASE e = data.device
  BY <1>3, <1>5
<1>6. CASE d # data.device /\ e # data.device
  BY <1>2, <1>6 DEF NoneTwice
<1> QED BY <1>4, <1>5, <1>6


-----------------------------------------------------------------------------
(* The inductive invariant *)

\* Holding the account's row of submissions, or having deleted it.
Holds(p) == Serving(p, "merge") \/ request[p].held

RequestsTyped ==
  /\ request \in [Requests -> Request]
  /\ submission # None => submission.metric \in Metrics \cup {None}

\* Who merges knows what was reported, and the metric that is stored.
MergersKnow ==
  \A p \in Requests :
    /\ Serving(p, "insert") \/ Serving(p, "merge") => request[p].data # None
    /\ Serving(p, "merge") /\ submission # None => request[p].metric = submission.metric

OneHolder == \A p, q \in Requests : Holds(p) /\ Holds(q) => p = q

SubmitInv == RequestsTyped /\ MergersKnow /\ OneHolder /\ NoneTwice(usage)

\* The greater of two numbers, as mergeMonotonic takes it.
LEMMA MaxOfTwo ==
  ASSUME NEW a \in Nat, NEW b \in Nat
  PROVE  Max({a, b}) \in {a, b} /\ Max({a, b}) >= a /\ Max({a, b}) >= b
<1>1. \E x \in {a, b} : \A y \in {a, b} : x >= y
  <2>1. CASE a >= b
    BY <2>1
  <2>2. CASE b >= a
    BY <2>2
  <2> QED BY <2>1, <2>2
<1>2. Max({a, b}) = CHOOSE x \in {a, b} : \A y \in {a, b} : x >= y
  BY DEF Max
<1> QED BY <1>1, <1>2

\* Merging two metrics gives one of them, and never loses or lowers the first.
LEMMA MergeMonotonicGrows ==
  ASSUME NEW a \in Metrics \cup {None}, NEW b \in Metrics \cup {None}
  PROVE  /\ MergeMonotonic(a, b) \in Metrics \cup {None}
         /\ a # None => MergeMonotonic(a, b) # None /\ MergeMonotonic(a, b) >= a
<1>1. Metrics \subseteq Nat /\ None \notin Metrics
  BY CountsAreNat, NoneIsNoValue
<1>2. CASE a # None /\ b # None
  <2>1. a \in Nat /\ b \in Nat
    BY <1>1, <1>2
  <2>2. MergeMonotonic(a, b) = Max({a, b})
    BY <1>2 DEF MergeMonotonic
  <2> QED BY <1>1, <1>2, <2>1, <2>2, MaxOfTwo
<1>3. CASE a = None \/ b = None
  BY <1>1, <1>3 DEF MergeMonotonic
<1> QED BY <1>2, <1>3

\* An account without data has nothing out of place.
LEMMA SubmitInit == Init => SubmitInv
<1> SUFFICES ASSUME Init PROVE SubmitInv
  OBVIOUS
<1>1. RequestsTyped
  BY DEF Init, RequestsTyped, Request, Idle
<1>2. MergersKnow /\ OneHolder
  BY DEF Init, MergersKnow, OneHolder, Holds, Serving, Idle
<1>3. NoneTwice(usage)
  BY DEF Init, NoneTwice, NoUsage, Cells
<1> QED BY <1>1, <1>2, <1>3 DEF SubmitInv

\* Every action gives one request its next state r and leaves the others alone.
LEMMA OneRequestChanges ==
  ASSUME RequestsTyped, NEW p \in Requests, NEW r \in Request,
         request' = [request EXCEPT ![p] = r]
  PROVE  /\ request' \in [Requests -> Request]
         /\ \A q \in Requests : request'[q] = IF q = p THEN r ELSE request[q]
BY DEF RequestsTyped

\* A request that takes hold of the row, with what is stored in it.
LEMMA HoldKeepsInv ==
  ASSUME SubmitInv, NEW p \in Requests, NEW data \in Payload \ {None},
         NEW metric \in Metrics \cup {None},
         Hold(p, data, metric), Free, UNCHANGED <<usage, submission>>,
         submission # None => metric = submission.metric
  PROVE  SubmitInv'
<1> DEFINE r == [op |-> "merge", data |-> data, metric |-> metric, held |-> FALSE]
<1> USE DEF SubmitInv
<1>1. r \in Request
  BY DEF Request
<1>2. /\ request' \in [Requests -> Request]
      /\ \A q \in Requests : request'[q] = IF q = p THEN r ELSE request[q]
  BY <1>1, OneRequestChanges DEF Hold
<1>3. \A q \in Requests : ~Holds(q)
  BY DEF Free, Holds
<1>4. RequestsTyped'
  BY <1>2 DEF RequestsTyped
<1>5. MergersKnow'
  BY <1>2 DEF MergersKnow, Serving
<1>6. OneHolder'
  BY <1>2, <1>3 DEF OneHolder, Holds, Serving
<1>7. NoneTwice(usage)'
  BY DEF NoneTwice
<1> QED BY <1>4, <1>5, <1>6, <1>7

\* A request that ends, or begins without holding the row, changes nothing of
\* what the invariant says of the others.
LEMMA LetGoKeepsRequests ==
  ASSUME SubmitInv, NEW p \in Requests, NEW r \in Request,
         request' = [request EXCEPT ![p] = r],
         r.op # "merge", ~r.held,
         r.op = "insert" => r.data # None
  PROVE  /\ request' \in [Requests -> Request]
         /\ OneHolder'
         /\ submission' = submission => MergersKnow'
         /\ Holds(p) => MergersKnow'
<1> USE DEF SubmitInv
<1>1. /\ request' \in [Requests -> Request]
      /\ \A q \in Requests : request'[q] = IF q = p THEN r ELSE request[q]
  BY OneRequestChanges
<1>2. OneHolder'
  BY <1>1 DEF OneHolder, Holds, Serving
<1>3. ASSUME submission' = submission PROVE MergersKnow'
  BY <1>1, <1>3 DEF MergersKnow, Serving
<1>4. ASSUME Holds(p) PROVE MergersKnow'
  <2>1. \A q \in Requests : ~Serving(q, "merge")'
    BY <1>1, <1>4 DEF OneHolder, Holds, Serving
  <2> QED BY <1>1, <2>1 DEF MergersKnow, Serving
<1> QED BY <1>1, <1>2, <1>3, <1>4

\* The invariant is inductive: one step per action.
LEMMA SubmitNextInv == SubmitInv /\ [Next]_vars => SubmitInv'
<1> SUFFICES ASSUME SubmitInv, [Next]_vars PROVE SubmitInv'
  OBVIOUS
<1> USE DEF SubmitInv
<1>0. Idle \in Request /\ Idle.op = "idle" /\ Idle.held = FALSE
  BY DEF Idle, Request
<1>1. ASSUME NEW p \in Requests, NEW data \in Payload, findSubmission(p, data)
      PROVE  SubmitInv'
  <2>1. submission.metric \in Metrics \cup {None}
    BY <1>1 DEF findSubmission, RequestsTyped
  <2>2. data # None
    BY NoneIsNoPayload
  <2> QED BY <1>1, <2>1, <2>2, HoldKeepsInv DEF findSubmission
<1>2. ASSUME NEW p \in Requests, NEW data \in Payload, findNoSubmission(p, data)
      PROVE  SubmitInv'
  <2> DEFINE r == [op |-> "insert", data |-> data, metric |-> None, held |-> FALSE]
  <2>1. r \in Request /\ data # None
    BY NoneIsNoPayload DEF Request
  <2>2. request' \in [Requests -> Request] /\ OneHolder' /\ MergersKnow'
    BY <1>2, <2>1, LetGoKeepsRequests DEF findNoSubmission
  <2> QED BY <1>2, <2>2 DEF findNoSubmission, RequestsTyped, NoneTwice
<1>3. ASSUME NEW p \in Requests, insertSubmission(p)
      PROVE  SubmitInv'
  <2>1. request[p].data \in Payload \ {None}
    BY <1>3 DEF insertSubmission, MergersKnow, RequestsTyped, Request
  <2> QED BY <1>3, <2>1, HoldKeepsInv DEF insertSubmission
<1>4. ASSUME NEW p \in Requests, racedSubmission(p)
      PROVE  SubmitInv'
  <2>1. request[p].data \in Payload \ {None}
    BY <1>4 DEF racedSubmission, MergersKnow, RequestsTyped, Request
  <2>2. submission.metric \in Metrics \cup {None}
    BY <1>4 DEF racedSubmission, RequestsTyped
  <2> QED BY <1>4, <2>1, <2>2, HoldKeepsInv DEF racedSubmission
<1>5. ASSUME NEW p \in Requests, mergeSubmission(p)
      PROVE  SubmitInv'
  <2> DEFINE data == request[p].data
  <2>1. data \in Payload /\ request[p].metric \in Metrics \cup {None} /\ Holds(p)
    BY <1>5 DEF mergeSubmission, MergersKnow, RequestsTyped, Request, Holds
  <2>2. data.device \in Devices /\ data.metric \in Metrics \cup {None}
    BY <2>1 DEF Payload
  <2>3. request' \in [Requests -> Request] /\ OneHolder' /\ MergersKnow'
    BY <1>0, <1>5, <2>1, LetGoKeepsRequests DEF mergeSubmission, Finish
  <2>4. submission'.metric \in Metrics \cup {None}
    BY <1>5, <2>1, <2>2, MergeMonotonicGrows DEF mergeSubmission
  <2>5. NoneTwice(Merged(Adopted(usage, data.device), data))
    BY <2>2, AdoptionKeepsNoneTwice, MergeKeepsNoneTwice
  <2> QED BY <1>5, <2>3, <2>4, <2>5 DEF mergeSubmission, RequestsTyped, NoneTwice
<1>6. ASSUME NEW p \in Requests, deleteSubmission(p)
      PROVE  SubmitInv'
  <2> DEFINE r == [Idle EXCEPT !.op = "deleteDevices", !.held = (submission # None)]
  <2>1. /\ r \in Request /\ request' = [request EXCEPT ![p] = r]
        /\ r.op = "deleteDevices" /\ r.held = (submission # None)
    BY <1>6 DEF deleteSubmission, Request, Idle, RequestsTyped
  <2>2. /\ request' \in [Requests -> Request]
        /\ \A q \in Requests : request'[q] = IF q = p THEN r ELSE request[q]
    BY <2>1, OneRequestChanges
  <2>3. OneHolder'
    <3>1. CASE submission # None
      <4>1. \A q \in Requests : ~Holds(q)
        BY <1>6, <3>1 DEF deleteSubmission, Free, Holds
      <4> QED BY <2>2, <4>1 DEF OneHolder, Holds, Serving
    <3>2. CASE submission = None
      <4>1. ~r.held /\ r.op # "merge"
        BY <2>1, <3>2
      <4> QED BY <2>2, <4>1 DEF OneHolder, Holds, Serving
    <3> QED BY <3>1, <3>2
  <2>4. MergersKnow'
    BY <1>6, <2>1, <2>2 DEF deleteSubmission, MergersKnow, Serving
  <2> QED BY <1>6, <2>2, <2>3, <2>4 DEF deleteSubmission, RequestsTyped, NoneTwice
<1>7. ASSUME NEW p \in Requests, deleteDevices(p)
      PROVE  SubmitInv'
  <2>1. request' \in [Requests -> Request] /\ OneHolder'
        /\ (submission' = submission => MergersKnow') /\ (Holds(p) => MergersKnow')
    BY <1>0, <1>7, LetGoKeepsRequests DEF deleteDevices, Finish
  <2>2. MergersKnow' /\ (submission' # None => submission'.metric \in Metrics \cup {None})
    BY <1>7, <2>1 DEF deleteDevices, Holds, RequestsTyped
  <2>3. NoneTwice(usage)'
    BY <1>7 DEF deleteDevices, NoneTwice, NoUsage, Cells
  <2> QED BY <2>1, <2>2, <2>3 DEF RequestsTyped
<1>8. ASSUME NEW p \in Requests, Abort(p)
      PROVE  SubmitInv'
  <2>1. request' \in [Requests -> Request] /\ OneHolder' /\ MergersKnow'
    BY <1>0, <1>8, LetGoKeepsRequests DEF Abort, Finish
  <2> QED BY <1>8, <2>1 DEF Abort, RequestsTyped, NoneTwice
<1>9. CASE UNCHANGED vars
  BY <1>9 DEF vars, RequestsTyped, MergersKnow, OneHolder, Holds, Serving, NoneTwice
<1> QED BY <1>1, <1>2, <1>3, <1>4, <1>5, <1>6, <1>7, <1>8, <1>9 DEF Next, SubmitStep

\* The inductive invariant: types, one holder of the row, what it knows, and no
\* usage stored twice.
LEMMA SubmitInvAlways == Spec => []SubmitInv
BY SubmitInit, SubmitNextInv, PTL DEF Spec

\* No client-day above the threshold is ever stored for two devices with the
\* same counts, in any interleaving of submits, aborts and deletions.
THEOREM UsageCountsOnce == Spec => []NoUsageTwice
<1>1. SubmitInv => NoUsageTwice
  BY DEF SubmitInv, NoneTwice, NoUsageTwice
<1> QED BY <1>1, SubmitInvAlways, PTL

-----------------------------------------------------------------------------
(* What a step may never do *)

\* A metric of the account's session shape is never lost nor lowered while its
\* row of submissions lives, whoever wins the race to insert it.
THEOREM MetricsNeverShrink == Spec => MetricsOnlyGrow
<1>1. ASSUME SubmitInv, [Next]_vars, submission # None, submission' # None,
             submission.metric # None
      PROVE  submission'.metric # None /\ submission'.metric >= submission.metric
  <2>0. submission.metric \in Metrics /\ submission.metric \in Nat
    BY <1>1, CountsAreNat DEF SubmitInv, RequestsTyped
  <2>1. CASE submission' = submission
    <3>1. submission'.metric = submission.metric
      BY <2>1
    <3> QED BY <1>1, <2>0, <3>1
  <2>2. ASSUME NEW p \in Requests, mergeSubmission(p)
        PROVE  submission'.metric # None /\ submission'.metric >= submission.metric
    <3>1. /\ request[p].metric = submission.metric
          /\ request[p].data \in Payload
      BY <1>1, <2>2 DEF mergeSubmission, SubmitInv, MergersKnow, RequestsTyped, Request
    <3>2. request[p].data.metric \in Metrics \cup {None}
      BY <3>1 DEF Payload
    <3> QED BY <1>1, <2>0, <2>2, <3>1, <3>2, MergeMonotonicGrows DEF mergeSubmission
  <2>3. submission' = submission \/ \E p \in Requests : mergeSubmission(p)
    BY <1>1 DEF Next, SubmitStep, vars, findSubmission, findNoSubmission, insertSubmission,
                racedSubmission, deleteSubmission, deleteDevices, Abort
  <2> QED BY <2>1, <2>2, <2>3
<1>2. SubmitInv /\ [Next]_vars =>
        [submission # None /\ submission' # None /\ submission.metric # None =>
           submission'.metric # None /\ submission'.metric >= submission.metric]_vars
  BY <1>1
<1> QED BY <1>2, SubmitInvAlways, PTL DEF Spec, MetricsOnlyGrow

\* What is stored for a cloud session is what that session reported.
THEOREM CloudsInheritNothing == Spec => CloudKeepsToItself
<1> DEFINE Own(d, y, c) ==
      usage'[<<d, y, c>>] \notin {None, usage[<<d, y, c>>]} =>
         \E p \in Requests :
           /\ Merging(p)
           /\ request[p].data.device = d
           /\ request[p].data.reports[c].days[y] = usage'[<<d, y, c>>].tokens
<1>1. ASSUME SubmitInv, [Next]_vars, NEW d \in Clouds, NEW y \in Days, NEW c \in Clients
      PROVE  Own(d, y, c)
  <2>0. <<d, y, c>> \in Cells /\ d # Legacy /\ d \notin Machines
    BY DevicesDiffer DEF Cells, Devices
  <2>1. ASSUME NEW p \in Requests, mergeSubmission(p) PROVE Own(d, y, c)
    <3> DEFINE data == request[p].data
               a == Adopted(usage, data.device)
    <3>1. usage' = Merged(a, data) /\ Merging(p)
      BY <1>1, <2>1 DEF mergeSubmission, Finish, Merging, SubmitInv, RequestsTyped
    <3>2. CASE data.device = d
      <4>1. a = usage
        BY <2>0, <3>2 DEF Adopted
      <4>2. usage'[<<d, y, c>>] = MergedCell(usage, data, y, c)
        BY <2>0, <3>1, <3>2, <4>1 DEF Merged
      <4>3. usage'[<<d, y, c>>] \in {None, usage[<<d, y, c>>], Incoming(usage, data, y, c)}
        BY <3>2, <4>2 DEF MergedCell
      <4>4. Incoming(usage, data, y, c) # None =>
              Incoming(usage, data, y, c).tokens = data.reports[c].days[y]
        BY DEF Incoming
      <4> QED BY <3>1, <3>2, <4>3, <4>4
    <3>3. CASE data.device # d
      <4>1. a[<<d, y, c>>] = usage[<<d, y, c>>]
        BY <2>0, <3>3 DEF Adopted
      <4>2. usage'[<<d, y, c>>] \in {None, a[<<d, y, c>>]}
        BY <2>0, <3>1, <3>3 DEF Merged
      <4> QED BY <4>1, <4>2
    <3> QED BY <3>2, <3>3
  <2>2. ASSUME NEW p \in Requests, deleteDevices(p) PROVE Own(d, y, c)
    BY <2>0, <2>2 DEF deleteDevices, NoUsage
  <2>3. CASE usage' = usage
    BY <2>3
  <2>4. \/ usage' = usage
        \/ \E p \in Requests : mergeSubmission(p) \/ deleteDevices(p)
    BY <1>1 DEF Next, SubmitStep, vars, findSubmission, findNoSubmission, insertSubmission,
                racedSubmission, deleteSubmission, Abort
  <2> QED BY <2>1, <2>2, <2>3, <2>4
<1>2. SubmitInv /\ [Next]_vars =>
        [\A d \in Clouds, y \in Days, c \in Clients : Own(d, y, c)]_vars
  BY <1>1
<1> QED BY <1>2, SubmitInvAlways, PTL DEF Spec, CloudKeepsToItself

-----------------------------------------------------------------------------
(* Maxima of stored values *)

\* The least of a set of numbers; with it, what holds of all numbers is proved
\* by looking at the least counterexample.
LEMMA LeastNumber ==
  ASSUME NEW S \in SUBSET Nat, S # {}
  PROVE  \E m \in S : \A x \in S : m <= x
<1> DEFINE less == {ss \in Nat \X Nat : ss[1] < ss[2]}
<1>1. IsWellFoundedOn(less, Nat)
  BY NatLessThanWellFounded DEF OpToRel
<1>2. PICK m \in S : \A x \in S : ~ (<<x, m>> \in less)
  <2> HIDE DEF less
  <2> QED BY <1>1, WFMin
<1>3. \A x \in Nat, y \in Nat : x < y => <<x, y>> \in less
  OBVIOUS
<1>4. \A x \in S : m <= x
  <2> HIDE DEF less
  <2>1. \A x \in S : ~ (x < m)
    BY <1>2, <1>3
  <2> QED BY <2>1
<1> QED BY <1>4

\* A finite set of numbers has a largest one.
LEMMA LargestNumber ==
  ASSUME NEW S \in SUBSET Nat, IsFiniteSet(S), S # {}
  PROVE  Max(S) \in S /\ \A x \in S : Max(S) >= x
<1> DEFINE HasLargest(T) == \E m \in T : \A x \in T : m >= x
           without == {n \in Nat : \E T \in SUBSET Nat :
                         IsFiniteSet(T) /\ T # {} /\ Cardinality(T) = n /\ ~HasLargest(T)}
<1>1. without = {}
  <2> SUFFICES ASSUME without # {} PROVE FALSE
    OBVIOUS
  <2>1. without \in SUBSET Nat
    OBVIOUS
  <2>2. PICK n \in without : \A m \in without : n <= m
    <3> HIDE DEF without
    <3> QED BY <2>1, LeastNumber
  <2>3. PICK T \in SUBSET Nat :
          IsFiniteSet(T) /\ T # {} /\ Cardinality(T) = n /\ ~HasLargest(T)
    BY <2>2
  <2>4. PICK x \in T : TRUE
    BY <2>3
  <2> DEFINE R == T \ {x}
  <2>5. IsFiniteSet(R) /\ Cardinality(R) = n - 1 /\ n \in Nat /\ Cardinality(R) \in Nat
    BY <2>2, <2>3, <2>4, FS_RemoveElement, FS_CardinalityType
  <2>6. n - 1 \notin without
    <3>1. n \in Nat
      BY <2>5
    <3> HIDE DEF without
    <3> QED BY <2>2, <3>1
  <2>7. R = {} \/ HasLargest(R)
    BY <2>5, <2>6
  <2>8. HasLargest(T)
    <3>1. CASE R = {}
      BY <2>4, <3>1
    <3>2. CASE HasLargest(R)
      <4>1. PICK m \in R : \A y \in R : m >= y
        BY <3>2
      <4>2. CASE m >= x
        BY <2>4, <4>1, <4>2
      <4>3. CASE x >= m
        BY <2>4, <4>1, <4>3
      <4> QED BY <2>4, <4>1, <4>2, <4>3
    <3> QED BY <2>7, <3>1, <3>2
  <2> QED BY <2>3, <2>8
<1>2. Cardinality(S) \in Nat
  BY FS_CardinalityType
<1>3. HasLargest(S)
  BY <1>1, <1>2
<1>4. PICK m \in S : \A x \in S : m >= x
  BY <1>3
<1> QED BY <1>4 DEF Max

\* What is stored is client-days.
Usages == [Cells -> Cell \cup {None}]

LEMMA NoneIsNoCell ==
  None \notin Cell /\ None \notin Tokens /\ \A x \in Cell : x.tokens \in Nat /\ x.revision \in Nat
  BY NoneIsNoValue, CountsAreNat, RevisionsAreNat DEF Cell

LEMMA CellParts ==
  /\ \A k \in Cells : /\ k = <<k[1], k[2], k[3]>>
                      /\ k[1] \in Devices /\ k[2] \in Days /\ k[3] \in Clients
  /\ \A d \in Devices, y \in Days, c \in Clients :
       LET k == <<d, y, c>> IN k \in Cells /\ k[1] = d /\ k[2] = y /\ k[3] = c
  BY DEF Cells

\* The floor is 1 or a revision that is stored, and none stored is above it.
LEMMA FloorIsLargest ==
  ASSUME NEW u \in Usages, NEW c \in Clients
  PROVE  /\ Floor(u, c) \in Nat
         /\ Floor(u, c) >= 1
         /\ \A k \in Cells : u[k] # None /\ k[3] = c => Floor(u, c) >= u[k].revision
         /\ Floor(u, c) = 1 \/ \E k \in Cells : /\ u[k] # None /\ k[3] = c
                                                /\ Floor(u, c) = u[k].revision
<1> DEFINE stored == {u[k].revision : k \in {j \in Cells : u[j] # None /\ j[3] = c}}
           S == {1} \cup stored
<1>1. \A k \in Cells : u[k] # None => u[k] \in Cell
  BY DEF Usages
<1>2. stored \subseteq Revisions
  BY <1>1 DEF Cell
<1>3. S \in SUBSET Nat /\ S # {} /\ IsFiniteSet(S)
  <2>1. S \in SUBSET Revisions
    BY <1>2, RevisionsAreNat
  <2> HIDE DEF stored
  <2>2. 1 \in S
    OBVIOUS
  <2> HIDE DEF S
  <2> QED BY <2>1, <2>2, FS_Subset, RevisionsAreNat
<1>4. Floor(u, c) = Max(S)
  BY DEF Floor
<1>5. Max(S) \in S /\ \A x \in S : Max(S) >= x
  <2> HIDE DEF S
  <2> QED BY <1>3, LargestNumber
<1>6. \A k \in Cells : u[k] # None /\ k[3] = c => u[k].revision \in S
  OBVIOUS
<1>7. \A x \in S : x = 1 \/ \E k \in Cells : u[k] # None /\ k[3] = c /\ x = u[k].revision
  OBVIOUS
<1>8. 1 \in S
  OBVIOUS
<1> HIDE DEF S
<1> QED BY <1>3, <1>4, <1>5, <1>6, <1>7, <1>8

LEMMA PeakIsLargest ==
  ASSUME NEW u \in Usages, NEW y \in Days, NEW c \in Clients
  PROVE  /\ Peak(u, y, c) \in Nat
         /\ \A k \in Cells : u[k] # None /\ k[2] = y /\ k[3] = c => Peak(u, y, c) >= u[k].tokens
         /\ Peak(u, y, c) = 0 \/ \E k \in Cells : /\ u[k] # None /\ k[2] = y /\ k[3] = c
                                                  /\ Peak(u, y, c) = u[k].tokens
<1> DEFINE stored == {u[k].tokens : k \in {j \in Cells : u[j] # None /\ j[2] = y /\ j[3] = c}}
           S == {0} \cup stored
<1>1. \A k \in Cells : u[k] # None => u[k] \in Cell
  BY DEF Usages
<1>2. stored \subseteq Tokens
  BY <1>1 DEF Cell
<1>3. S \in SUBSET Nat /\ S # {} /\ IsFiniteSet(S)
  <2>1. stored \in SUBSET Tokens
    BY <1>2
  <2> HIDE DEF stored
  <2>2. IsFiniteSet(stored)
    BY <2>1, FS_Subset, CountsAreNat
  <2>3. IsFiniteSet(stored \cup {0})
    BY <2>2, FS_AddElement
  <2>4. S = stored \cup {0} /\ S # {}
    OBVIOUS
  <2>5. S \subseteq Nat
    BY <2>1, CountsAreNat
  <2> HIDE DEF S
  <2> QED BY <2>3, <2>4, <2>5
<1>4. Peak(u, y, c) = Max(S)
  BY DEF Peak
<1>5. Max(S) \in S /\ \A x \in S : Max(S) >= x
  <2> HIDE DEF S
  <2> QED BY <1>3, LargestNumber
<1>6. \A k \in Cells : u[k] # None /\ k[2] = y /\ k[3] = c => u[k].tokens \in S
  OBVIOUS
<1>7. \A x \in S : x = 0 \/ \E k \in Cells : u[k] # None /\ k[2] = y /\ k[3] = c /\ x = u[k].tokens
  OBVIOUS
<1> HIDE DEF S
<1> QED BY <1>3, <1>4, <1>5, <1>6, <1>7

-----------------------------------------------------------------------------
(* What a report does to the stored client-days *)

LEMMA AdoptedIsUsage ==
  ASSUME NEW u \in Usages, NEW d \in Devices
  PROVE  /\ Adopted(u, d) \in Usages
         /\ \A k \in Cells : Adopted(u, d)[k] # None =>
              \E j \in Cells : j[2] = k[2] /\ j[3] = k[3] /\ u[j] = Adopted(u, d)[k]
         /\ \A k \in Cells : u[k] # None =>
              \E j \in Cells : j[2] = k[2] /\ j[3] = k[3] /\ Adopted(u, d)[j] = u[k]
<1> DEFINE a == Adopted(u, d)
           moved == [k \in Cells |->
             IF k[1] = Legacy THEN None ELSE IF k[1] = d THEN u[<<Legacy, k[2], k[3]>>] ELSE u[k]]
<1>1. CASE a = u
  BY <1>1
<1>2. CASE a # u
  <2>1. /\ d \in Machines
        /\ ~HasRows(u, d)
        /\ \A e \in Devices \ {Legacy} : ~HasRows(u, e)
        /\ a = moved
    BY <1>2 DEF Adopted
  <2>2. d # Legacy /\ Legacy \in Devices
    BY <2>1, DevicesDiffer DEF Devices
  <2>3. \A k \in Cells : <<Legacy, k[2], k[3]>> \in Cells /\ <<d, k[2], k[3]>> \in Cells
    BY <2>2, CellParts
  <2>4. moved \in Usages
    BY <2>3 DEF Usages
  <2>5. ASSUME NEW k \in Cells, moved[k] # None
        PROVE  \E j \in Cells : j[2] = k[2] /\ j[3] = k[3] /\ u[j] = moved[k]
    <3>1. CASE k[1] = d
      <4>1. <<Legacy, k[2], k[3]>> \in Cells /\ moved[k] = u[<<Legacy, k[2], k[3]>>]
        BY <2>2, <2>3, <3>1
      <4> QED BY <4>1
    <3>2. CASE k[1] # d
      BY <2>5, <3>2
    <3> QED BY <3>1, <3>2
  <2>6. ASSUME NEW k \in Cells, u[k] # None
        PROVE  \E j \in Cells : j[2] = k[2] /\ j[3] = k[3] /\ moved[j] = u[k]
    <3>1. k[1] = Legacy
      <4>1. k = <<k[1], k[2], k[3]>> /\ k[1] \in Devices /\ k[2] \in Days /\ k[3] \in Clients
        BY CellParts
      <4>2. HasRows(u, k[1])
        BY <2>6, <4>1 DEF HasRows
      <4> QED BY <2>1, <4>1, <4>2
    <3>2. k = <<Legacy, k[2], k[3]>>
      BY <3>1, CellParts
    <3> DEFINE j == <<d, k[2], k[3]>>
    <3>3. j \in Cells /\ j[1] = d /\ j[2] = k[2] /\ j[3] = k[3]
      BY <2>3
    <3>4. moved[j] = u[k]
      <4> HIDE DEF j
      <4> QED BY <2>2, <3>2, <3>3
    <3> QED BY <3>3, <3>4
  <2> HIDE DEF moved
  <2> QED BY <2>1, <2>4, <2>5, <2>6
<1> QED BY <1>1, <1>2

LEMMA ReportParts ==
  ASSUME NEW r \in Report
  PROVE  /\ r.revision \in Revisions /\ r.revision \in Nat
         /\ r.days \in [Days -> Tokens \cup {None}]
         /\ \E y \in Days : r.days[y] # None
         /\ r.replace = {} \/ \A y \in Days : r.days[y] # None => y \in r.replace
<1> DEFINE Shape == [revision: Revisions, days: [Days -> Tokens \cup {None}],
                     replace: {{}} \cup {lo .. hi : lo, hi \in Days}]
           used == {y \in Days : r.days[y] # None}
<1>1. r \in Shape /\ used # {} /\ (r.replace = {} \/ used \subseteq r.replace)
  BY DEF Report
<1>2. r.revision \in Revisions /\ r.days \in [Days -> Tokens \cup {None}]
  BY <1>1
<1> HIDE DEF Shape
<1>3. \E y \in Days : r.days[y] # None
  BY <1>1
<1>4. r.replace = {} \/ \A y \in Days : r.days[y] # None => y \in r.replace
  BY <1>1
<1> QED BY <1>2, <1>3, <1>4, RevisionsAreNat

LEMMA PayloadParts ==
  ASSUME NEW data \in Payload
  PROVE  /\ data.device \in Devices
         /\ \A c \in Clients : data.reports[c] # None => data.reports[c] \in Report
  BY DEF Payload

\* What a report says of a client-day that it may say something of.
LEMMA IncomingIsReported ==
  ASSUME NEW u \in Usages, NEW data \in Payload, NEW y \in Days, NEW c \in Clients
  PROVE  /\ Incoming(u, data, y, c) \in Cell \cup {None}
         /\ Incoming(u, data, y, c) # None =>
              /\ data.reports[c] # None
              /\ Incoming(u, data, y, c).tokens = data.reports[c].days[y]
              /\ Incoming(u, data, y, c).revision = data.reports[c].revision
              /\ data.reports[c].revision >= Floor(u, c)
         /\ (/\ data.reports[c] # None
             /\ data.reports[c].days[y] # None
             /\ data.reports[c].revision >= Floor(u, c)) => Incoming(u, data, y, c) # None
<1> DEFINE i == Incoming(u, data, y, c)
           r == data.reports[c]
           speaks == r # None /\ r.days[y] # None /\ r.revision >= Floor(u, c)
<1>1. i = IF speaks THEN [tokens |-> r.days[y], revision |-> r.revision] ELSE None
  BY DEF Incoming
<1>2. speaks => r.days[y] \in Tokens /\ r.revision \in Revisions
  <2> SUFFICES ASSUME speaks PROVE r.days[y] \in Tokens /\ r.revision \in Revisions
    OBVIOUS
  <2>1. r \in Report
    BY PayloadParts
  <2> HIDE DEF r
  <2>2. r.days \in [Days -> Tokens \cup {None}] /\ r.revision \in Revisions
    BY <2>1, ReportParts
  <2> QED BY <2>2
<1> HIDE DEF i
<1>3. speaks => i \in Cell /\ i.tokens = r.days[y] /\ i.revision = r.revision /\ i # None
  <2> SUFFICES ASSUME speaks
               PROVE  i \in Cell /\ i.tokens = r.days[y] /\ i.revision = r.revision /\ i # None
    OBVIOUS
  <2>1. i = [tokens |-> r.days[y], revision |-> r.revision]
    BY <1>1
  <2>2. i \in Cell
    BY <1>2, <2>1 DEF Cell
  <2> QED BY <2>1, <2>2, NoneIsNoCell
<1>4. ~speaks => i = None
  BY <1>1
<1> HIDE DEF r
<1>5. /\ i \in Cell \cup {None}
      /\ i # None => r # None /\ i.tokens = r.days[y] /\ i.revision = r.revision
                     /\ r.revision >= Floor(u, c)
      /\ (r # None /\ r.days[y] # None /\ r.revision >= Floor(u, c)) => i # None
  BY <1>3, <1>4
<1> QED BY <1>5 DEF i, r

LEMMA MergedAt ==
  ASSUME NEW u, NEW data \in Payload, NEW k \in Cells
  PROVE  Merged(u, data)[k] = IF k[1] = data.device THEN MergedCell(u, data, k[2], k[3])
                              ELSE IF Reclaimed(u, data, k) THEN None ELSE u[k]
  BY DEF Merged

LEMMA MergedIsUsage ==
  ASSUME NEW u \in Usages, NEW data \in Payload
  PROVE  Merged(u, data) \in Usages
<1>1. data.device \in Devices
  BY PayloadParts
<1>2. ASSUME NEW k \in Cells
      PROVE  Merged(u, data)[k] \in Cell \cup {None}
  <2>1. /\ k[2] \in Days /\ k[3] \in Clients
        /\ <<data.device, k[2], k[3]>> \in Cells
    BY <1>1, CellParts
  <2>2. /\ Incoming(u, data, k[2], k[3]) \in Cell \cup {None}
        /\ u[<<data.device, k[2], k[3]>>] \in Cell \cup {None}
        /\ u[k] \in Cell \cup {None}
    BY <2>1, IncomingIsReported DEF Usages
  <2>3. MergedCell(u, data, k[2], k[3]) \in Cell \cup {None}
    BY <2>2 DEF MergedCell
  <2> QED BY <2>2, <2>3, MergedAt
<1> QED BY <1>2 DEF Usages, Merged

\* Where a report says something of a client-day, the reporting device has the
\* day afterwards, under no older a revision than the account asked for, and
\* with no fewer tokens if what it had was of the report's revision.
LEMMA ReportedDayIsStored ==
  ASSUME NEW u \in Usages, NEW data \in Payload, NEW y \in Days, NEW c \in Clients,
         Incoming(u, data, y, c) # None
  PROVE  /\ MergedCell(u, data, y, c) \in Cell
         /\ MergedCell(u, data, y, c).revision >= Floor(u, c)
         /\ MergedCell(u, data, y, c).tokens >= Incoming(u, data, y, c).tokens
<1> DEFINE i == Incoming(u, data, y, c)
           k == <<data.device, y, c>>
           stored == IF Replaced(u, data, y, c) THEN None ELSE u[k]
           m == MergedCell(u, data, y, c)
<1>1. k \in Cells /\ k[3] = c
  BY CellParts, PayloadParts
<1>2. /\ i \in Cell
      /\ i.revision >= Floor(u, c)
      /\ i.revision \in Nat /\ i.tokens \in Nat
      /\ Floor(u, c) \in Nat
  BY IncomingIsReported, NoneIsNoCell, FloorIsLargest
<1>3. u[k] # None => /\ u[k] \in Cell
                     /\ Floor(u, c) >= u[k].revision
                     /\ u[k].revision \in Nat /\ u[k].tokens \in Nat
  BY <1>1, FloorIsLargest, NoneIsNoCell DEF Usages
<1>4. m = IF stored # None /\ Regresses(i, stored) THEN stored ELSE i
  BY DEF MergedCell
<1> HIDE DEF i, k, m
<1>5. CASE stored # None /\ Regresses(i, stored)
  <2>1. stored = u[k] /\ m = u[k]
    BY <1>4, <1>5
  <2>2. i.revision = u[k].revision /\ i.tokens < u[k].tokens
    BY <1>2, <1>3, <1>5, <2>1 DEF Regresses
  <2> QED BY <1>2, <1>3, <1>5, <2>1, <2>2 DEF i, m
<1>6. CASE ~(stored # None /\ Regresses(i, stored))
  <2>1. m = i
    BY <1>4, <1>6
  <2> QED BY <1>2, <2>1 DEF i, m
<1> QED BY <1>5, <1>6

\* Merging does not lower the floor: a row only goes where the report's own
\* revision, which is not below the floor, is stored.
LEMMA MergeKeepsFloor ==
  ASSUME NEW u \in Usages, NEW data \in Payload, NEW c \in Clients
  PROVE  Floor(Merged(u, data), c) >= Floor(u, c)
<1> DEFINE m == Merged(u, data)
           d == data.device
           r == data.reports[c]
<1>1. m \in Usages /\ d \in Devices
  BY MergedIsUsage, PayloadParts
<1>2. Floor(u, c) \in Nat /\ Floor(m, c) \in Nat /\ Floor(m, c) >= 1
  BY <1>1, FloorIsLargest
<1> SUFFICES ASSUME Floor(u, c) # 1 PROVE Floor(m, c) >= Floor(u, c)
  BY <1>2
<1>3. PICK k \in Cells : u[k] # None /\ k[3] = c /\ Floor(u, c) = u[k].revision
  BY FloorIsLargest
<1>4. k = <<k[1], k[2], c>> /\ k[1] \in Devices /\ k[2] \in Days
  BY <1>3, CellParts
<1>5. ASSUME NEW y \in Days, Incoming(u, data, y, c) # None
      PROVE  Floor(m, c) >= Floor(u, c)
  <2> DEFINE j == <<d, y, c>>
  <2>1. j \in Cells /\ j[1] = d /\ j[2] = y /\ j[3] = c
    BY <1>1, CellParts
  <2>2. m[j] = MergedCell(u, data, y, c)
    BY <2>1, MergedAt
  <2>3. m[j] \in Cell /\ m[j].revision >= Floor(u, c)
    BY <1>5, <2>2, ReportedDayIsStored
  <2> HIDE DEF m, j
  <2>4. Floor(m, c) >= m[j].revision /\ m[j].revision \in Nat
    BY <1>1, <2>1, <2>3, FloorIsLargest, NoneIsNoCell
  <2> QED BY <1>2, <2>3, <2>4
<1>6. CASE m[k] # None /\ m[k] = u[k]
  <2> HIDE DEF m
  <2> QED BY <1>1, <1>3, <1>6, FloorIsLargest
<1>7. CASE k[1] = d /\ Incoming(u, data, k[2], c) = None /\ Replaced(u, data, k[2], c)
  <2>1. r # None /\ k[2] \in r.replace /\ r.revision >= Floor(u, c)
    BY <1>7 DEF Replaced
  <2>2. PICK y \in Days : r.days[y] # None
    BY <2>1, PayloadParts, ReportParts
  <2>3. Incoming(u, data, y, c) # None
    BY <2>1, <2>2, IncomingIsReported
  <2> QED BY <1>5, <2>3
<1>8. CASE k[1] = d /\ Incoming(u, data, k[2], c) = None /\ ~Replaced(u, data, k[2], c)
  <2>1. m[k] = MergedCell(u, data, k[2], c)
    BY <1>3, <1>8, MergedAt
  <2>2. MergedCell(u, data, k[2], c) = u[<<d, k[2], c>>]
    BY <1>8 DEF MergedCell
  <2>3. m[k] = u[k]
    BY <1>4, <1>8, <2>1, <2>2
  <2> QED BY <1>3, <1>6, <2>3
<1>9. CASE k[1] # d /\ ~Reclaimed(u, data, k)
  <2>1. m[k] = u[k]
    BY <1>9, MergedAt
  <2> QED BY <1>3, <1>6, <2>1
<1>10. CASE k[1] # d /\ Reclaimed(u, data, k)
  <2>1. Incoming(u, data, k[2], c) # None
    BY <1>3, <1>10 DEF Reclaimed
  <2> QED BY <1>4, <1>5, <2>1
<1> QED BY <1>4, <1>5, <1>7, <1>8, <1>9, <1>10

LEMMA AdoptionKeepsMaxima ==
  ASSUME NEW u \in Usages, NEW d \in Devices, NEW c \in Clients
  PROVE  /\ Floor(Adopted(u, d), c) >= Floor(u, c)
         /\ \A y \in Days : Peak(Adopted(u, d), y, c) >= Peak(u, y, c)
<1> DEFINE a == Adopted(u, d)
<1>1. a \in Usages
  BY AdoptedIsUsage
<1>2. \A k \in Cells : u[k] # None => \E j \in Cells : j[2] = k[2] /\ j[3] = k[3] /\ a[j] = u[k]
  BY AdoptedIsUsage
<1> HIDE DEF a
<1>3. Floor(a, c) >= Floor(u, c)
  <2>1. Floor(u, c) \in Nat /\ Floor(a, c) \in Nat /\ Floor(a, c) >= 1
    BY <1>1, FloorIsLargest
  <2>2. ASSUME NEW k \in Cells, u[k] # None, k[3] = c, Floor(u, c) = u[k].revision
        PROVE  Floor(a, c) >= Floor(u, c)
    <3>1. PICK j \in Cells : j[3] = c /\ a[j] = u[k]
      BY <1>2, <2>2
    <3>2. Floor(a, c) >= a[j].revision
      BY <1>1, <2>2, <3>1, FloorIsLargest
    <3> QED BY <2>2, <3>1, <3>2
  <2> QED BY <2>1, <2>2, FloorIsLargest
<1>4. ASSUME NEW y \in Days
      PROVE  Peak(a, y, c) >= Peak(u, y, c)
  <2>1. Peak(u, y, c) \in Nat /\ Peak(a, y, c) \in Nat
    BY <1>1, PeakIsLargest
  <2>2. ASSUME NEW k \in Cells, u[k] # None, k[2] = y, k[3] = c, Peak(u, y, c) = u[k].tokens
        PROVE  Peak(a, y, c) >= Peak(u, y, c)
    <3>1. PICK j \in Cells : j[2] = y /\ j[3] = c /\ a[j] = u[k]
      BY <1>2, <2>2
    <3>2. Peak(a, y, c) >= a[j].tokens
      BY <1>1, <2>2, <3>1, PeakIsLargest
    <3> QED BY <2>2, <3>1, <3>2
  <2> QED BY <2>1, <2>2, PeakIsLargest
<1> QED BY <1>3, <1>4 DEF a

\* Merging loses no tokens of a day that the report does not replace and that
\* is stored under revisions at least as new.
LEMMA MergeKeepsPeak ==
  ASSUME NEW u \in Usages, NEW data \in Payload, NEW y \in Days, NEW c \in Clients,
         data.reports[c] # None =>
           /\ y \notin data.reports[c].replace
           /\ \A k \in Cells : u[k] # None /\ k[2] = y /\ k[3] = c =>
                ~(u[k].revision < data.reports[c].revision)
  PROVE  Peak(Merged(u, data), y, c) >= Peak(u, y, c)
<1> DEFINE m == Merged(u, data)
           d == data.device
           i == Incoming(u, data, y, c)
<1>1. m \in Usages /\ d \in Devices
  BY MergedIsUsage, PayloadParts
<1>2. Peak(u, y, c) \in Nat /\ Peak(m, y, c) \in Nat
  BY <1>1, PeakIsLargest
<1> SUFFICES ASSUME Peak(u, y, c) # 0 PROVE Peak(m, y, c) >= Peak(u, y, c)
  BY <1>2
<1>3. PICK k \in Cells : u[k] # None /\ k[2] = y /\ k[3] = c /\ Peak(u, y, c) = u[k].tokens
  BY PeakIsLargest
<1>4. /\ k = <<k[1], y, c>> /\ k[1] \in Devices
      /\ u[k] \in Cell /\ u[k].tokens \in Nat /\ u[k].revision \in Nat
  BY <1>3, CellParts, NoneIsNoCell DEF Usages
<1>5. m[k] = IF k[1] = d THEN MergedCell(u, data, y, c)
             ELSE IF Reclaimed(u, data, k) THEN None ELSE u[k]
  BY <1>3, MergedAt
<1>6. ASSUME NEW j \in Cells, m[j] # None, j[2] = y, j[3] = c, m[j].tokens >= u[k].tokens
      PROVE  Peak(m, y, c) >= Peak(u, y, c)
  <2> HIDE DEF m
  <2>1. m[j] \in Cell /\ m[j].tokens \in Nat
    BY <1>1, <1>6, NoneIsNoCell DEF Usages
  <2>2. Peak(m, y, c) >= m[j].tokens
    BY <1>1, <1>6, PeakIsLargest
  <2> QED BY <1>2, <1>3, <1>4, <1>6, <2>1, <2>2
<1>7. i \in Cell \cup {None} /\ (i # None => /\ data.reports[c] # None
                                             /\ i.revision = data.reports[c].revision
                                             /\ i.revision \in Nat /\ i.tokens \in Nat)
  BY IncomingIsReported, NoneIsNoCell
<1>8. CASE k[1] = d
  <2>1. ~Replaced(u, data, y, c)
    BY DEF Replaced
  <2>2. m[k] = IF i = None \/ Regresses(i, u[k]) THEN u[k] ELSE i
    BY <1>3, <1>4, <1>5, <1>8, <2>1 DEF MergedCell
  <2>3. CASE i = None \/ Regresses(i, u[k])
    <3>1. m[k] = u[k] /\ u[k].tokens >= u[k].tokens
      BY <1>4, <2>2, <2>3
    <3> HIDE DEF m
    <3> QED BY <1>3, <1>6, <3>1
  <2>4. CASE i # None /\ ~Regresses(i, u[k])
    <3>1. ~(u[k].revision < i.revision)
      BY <1>3, <1>7, <2>4
    <3>2. i.tokens >= u[k].tokens
      <4> HIDE DEF i
      <4> QED BY <1>4, <1>7, <2>4, <3>1 DEF Regresses
    <3>3. m[k] = i
      BY <2>2, <2>4
    <3> HIDE DEF m, i
    <3> QED BY <1>3, <1>6, <2>4, <3>2, <3>3
  <2> QED BY <2>3, <2>4
<1>9. CASE k[1] # d /\ ~Reclaimed(u, data, k)
  <2>1. m[k] = u[k] /\ u[k].tokens >= u[k].tokens
    BY <1>4, <1>5, <1>9
  <2> HIDE DEF m
  <2> QED BY <1>3, <1>6, <2>1
<1>10. CASE k[1] # d /\ Reclaimed(u, data, k)
  <2> DEFINE j == <<d, y, c>>
  <2>1. j \in Cells /\ j[1] = d /\ j[2] = y /\ j[3] = c
    BY <1>1, CellParts
  <2>2. i # None /\ u[k].tokens = i.tokens
    BY <1>3, <1>10 DEF Reclaimed
  <2>3. m[j] = MergedCell(u, data, y, c)
    BY <2>1, MergedAt
  <2>4. m[j] \in Cell /\ m[j].tokens >= i.tokens
    BY <2>2, <2>3, ReportedDayIsStored
  <2> HIDE DEF m, j, i
  <2> QED BY <1>6, <2>1, <2>2, <2>4, NoneIsNoCell
<1> QED BY <1>8, <1>9, <1>10

-----------------------------------------------------------------------------
(* The floor and the peaks *)

UsageInv == SubmitInv /\ usage \in Usages

\* What a step can do to the stored client-days.
LEMMA UsageChanges ==
  ASSUME UsageInv, [Next]_vars
  PROVE  \/ usage' = usage
         \/ \E p \in Requests : Deleting(p) /\ usage' = NoUsage
         \/ \E p \in Requests :
              /\ Merging(p)
              /\ request[p].data \in Payload
              /\ usage' = Merged(Adopted(usage, request[p].data.device), request[p].data)
<1>1. ASSUME NEW p \in Requests, mergeSubmission(p)
      PROVE  /\ Merging(p)
             /\ request[p].data \in Payload
             /\ usage' = Merged(Adopted(usage, request[p].data.device), request[p].data)
  BY <1>1 DEF mergeSubmission, Finish, Merging, UsageInv, SubmitInv, MergersKnow,
     RequestsTyped, Request
<1>2. ASSUME NEW p \in Requests, deleteDevices(p)
      PROVE  Deleting(p) /\ usage' = NoUsage
  BY <1>2 DEF deleteDevices, Finish, Deleting, UsageInv, SubmitInv, RequestsTyped
<1>3. \/ usage' = usage
      \/ \E p \in Requests : mergeSubmission(p) \/ deleteDevices(p)
  BY DEF Next, SubmitStep, vars, findSubmission, findNoSubmission, insertSubmission,
     racedSubmission, deleteSubmission, Abort
<1> QED BY <1>1, <1>2, <1>3

LEMMA UsageInvAlways == Spec => []UsageInv
<1>1. Init => UsageInv
  BY SubmitInit DEF UsageInv, Init, NoUsage, Usages
<1>2. ASSUME UsageInv, [Next]_vars
      PROVE  UsageInv'
  <2>1. ASSUME NEW p \in Requests, request[p].data \in Payload,
               usage' = Merged(Adopted(usage, request[p].data.device), request[p].data)
        PROVE  usage' \in Usages
    <3>1. Adopted(usage, request[p].data.device) \in Usages
      BY <1>2, <2>1, PayloadParts, AdoptedIsUsage DEF UsageInv
    <3> QED BY <2>1, <3>1, MergedIsUsage
  <2>2. NoUsage \in Usages
    BY DEF NoUsage, Usages
  <2>3. usage' \in Usages
    BY <1>2, <2>1, <2>2, UsageChanges DEF UsageInv
  <2> QED BY <1>2, <2>3, SubmitNextInv DEF UsageInv, Usages
<1> QED BY <1>1, <1>2, PTL DEF Spec

\* The revision below which the account refuses a client's reports only falls
\* by a deletion: no replacement, reclaim or adoption lets an old parser back.
THEOREM FloorHolds == Spec => FloorNeverFalls
<1> DEFINE FloorStays == \A c \in Clients :
              Floor(usage', c) >= Floor(usage, c) \/ \E p \in Requests : Deleting(p)
<1>1. ASSUME UsageInv, [Next]_vars
      PROVE  FloorStays
  <2> SUFFICES ASSUME NEW c \in Clients
               PROVE  Floor(usage', c) >= Floor(usage, c) \/ \E p \in Requests : Deleting(p)
    OBVIOUS
  <2>1. usage \in Usages /\ Floor(usage, c) \in Nat
    BY <1>1, FloorIsLargest DEF UsageInv
  <2>2. CASE usage' = usage
    BY <2>1, <2>2
  <2>3. ASSUME NEW p \in Requests, request[p].data \in Payload,
               usage' = Merged(Adopted(usage, request[p].data.device), request[p].data)
        PROVE  Floor(usage', c) >= Floor(usage, c)
    <3> DEFINE data == request[p].data
               a == Adopted(usage, data.device)
               m == Merged(a, data)
    <3>1. data.device \in Devices /\ a \in Usages
      BY <2>1, <2>3, PayloadParts, AdoptedIsUsage
    <3>2. Floor(a, c) >= Floor(usage, c)
      BY <2>1, <3>1, AdoptionKeepsMaxima
    <3>3. m \in Usages /\ Floor(m, c) >= Floor(a, c)
      <4> HIDE DEF a
      <4> QED BY <2>3, <3>1, MergedIsUsage, MergeKeepsFloor
    <3>4. Floor(a, c) \in Nat /\ Floor(m, c) \in Nat
      <4> HIDE DEF a, m
      <4> QED BY <3>1, <3>3, FloorIsLargest
    <3>5. Floor(m, c) >= Floor(usage, c)
      <4> HIDE DEF a, m
      <4> QED BY <2>1, <3>2, <3>3, <3>4
    <3> QED BY <2>3, <3>5
  <2> QED BY <1>1, <2>2, <2>3, UsageChanges
<1>2. UsageInv /\ [Next]_vars => [FloorStays]_vars
  BY <1>1
<1> QED BY <1>2, UsageInvAlways, PTL DEF Spec, FloorNeverFalls

\* Tokens of a client-day are only lost by a deletion, by a report that says it
\* replaces the day, or by one of a newer revision than some device has there.
THEOREM PeaksAreKept == Spec => PeakIsKept
<1> DEFINE Excuse(p, y, c) ==
      \/ Deleting(p)
      \/ /\ Merging(p) /\ request[p].data.reports[c] # None
         /\ \/ y \in request[p].data.reports[c].replace
            \/ \E d \in Devices : usage[<<d, y, c>>] # None
                 /\ usage[<<d, y, c>>].revision < request[p].data.reports[c].revision
<1>1. ASSUME UsageInv, [Next]_vars, NEW y \in Days, NEW c \in Clients,
             Peak(usage', y, c) < Peak(usage, y, c)
      PROVE  \E p \in Requests : Excuse(p, y, c)
  <2>1. usage \in Usages /\ Peak(usage, y, c) \in Nat
    BY <1>1, PeakIsLargest DEF UsageInv
  <2>2. usage' # usage
    BY <1>1, <2>1
  <2>3. ASSUME NEW p \in Requests, Merging(p), request[p].data \in Payload,
               usage' = Merged(Adopted(usage, request[p].data.device), request[p].data),
               ~Excuse(p, y, c)
        PROVE  FALSE
    <3> DEFINE data == request[p].data
               r == data.reports[c]
               a == Adopted(usage, data.device)
               m == Merged(a, data)
    <3>1. data.device \in Devices /\ a \in Usages
      BY <2>1, <2>3, PayloadParts, AdoptedIsUsage
    <3>2. Peak(a, y, c) >= Peak(usage, y, c) /\ Peak(a, y, c) \in Nat
      <4>1. Peak(a, y, c) >= Peak(usage, y, c)
        BY <2>1, <3>1, AdoptionKeepsMaxima
      <4> HIDE DEF a
      <4> QED BY <3>1, <4>1, PeakIsLargest
    <3>3. ASSUME r # None, NEW k \in Cells, a[k] # None, k[2] = y, k[3] = c
          PROVE  ~(a[k].revision < r.revision)
      <4>1. PICK j \in Cells : j[2] = y /\ j[3] = c /\ usage[j] = a[k]
        BY <2>1, <3>1, <3>3, AdoptedIsUsage
      <4>2. j = <<j[1], y, c>> /\ j[1] \in Devices
        BY <4>1, CellParts
      <4> HIDE DEF a
      <4> QED BY <2>3, <3>3, <4>1, <4>2
    <3>4. r # None => y \notin r.replace
      BY <2>3
    <3>5. Peak(m, y, c) >= Peak(a, y, c)
      <4> HIDE DEF a
      <4>1. data \in Payload
        BY <2>3
      <4> QED BY <3>1, <3>3, <3>4, <4>1, MergeKeepsPeak
    <3>6. m \in Usages
      <4> HIDE DEF a
      <4> QED BY <2>3, <3>1, MergedIsUsage
    <3>7. usage' = m
      BY <2>3
    <3> HIDE DEF m, a
    <3>8. Peak(m, y, c) \in Nat
      BY <3>6, PeakIsLargest
    <3> QED BY <1>1, <2>1, <3>2, <3>5, <3>7, <3>8
  <2> HIDE DEF Excuse
  <2>4. ASSUME NEW p \in Requests, Deleting(p) PROVE Excuse(p, y, c)
    BY <2>4 DEF Excuse
  <2> QED BY <1>1, <2>2, <2>3, <2>4, UsageChanges
<1>2. UsageInv /\ [Next]_vars =>
        [\A y \in Days, c \in Clients :
           Peak(usage', y, c) < Peak(usage, y, c) => \E p \in Requests : Excuse(p, y, c)]_vars
  <2> HIDE DEF Excuse
  <2> QED BY <1>1
<1> QED BY <1>2, UsageInvAlways, PTL DEF Spec, PeakIsKept

-----------------------------------------------------------------------------
(* The total: summing over a finite set *)

First(s) == CHOOSE x \in s : TRUE

\* g sums the weights w of every subset in D, an element at a time.
Sums(w, D, g) == g = [s \in D |-> IF s = {} THEN 0 ELSE w[First(s)] + g[s \ {First(s)}]]

\* Subsets of S with at most n elements.
UpTo(S, n) == {s \in SUBSET S : Cardinality(s) <= n}

LEMMA FewerElements ==
  ASSUME NEW S, IsFiniteSet(S), NEW n \in Nat, NEW s \in UpTo(S, n), s # {}
  PROVE  /\ n > 0
         /\ First(s) \in S
         /\ s \ {First(s)} \in UpTo(S, n - 1)
         /\ s \ {First(s)} \in UpTo(S, n)
<1>1. First(s) \in s
  BY DEF First
<1>2. s \in SUBSET S /\ IsFiniteSet(s) /\ Cardinality(s) <= n /\ Cardinality(s) \in Nat
  BY FS_Subset, FS_CardinalityType DEF UpTo
<1>3. Cardinality(s) # 0
  BY <1>2, FS_EmptySet
<1>4. Cardinality(s \ {First(s)}) = Cardinality(s) - 1
  BY <1>1, <1>2, FS_RemoveElement
<1> QED BY <1>1, <1>2, <1>3, <1>4 DEF UpTo

\* Such a g exists, and its sums are numbers: no n is the least for which there
\* is none on the subsets of at most n elements.
LEMMA SumsExist ==
  ASSUME NEW S, IsFiniteSet(S), NEW w \in [S -> Nat]
  PROVE  \E g \in [SUBSET S -> Nat] : Sums(w, SUBSET S, g)
<1> DEFINE Summed(n) == \E g \in [UpTo(S, n) -> Nat] : Sums(w, UpTo(S, n), g)
           unsummed == {n \in Nat : ~Summed(n)}
<1>1. unsummed = {}
  <2> SUFFICES ASSUME unsummed # {} PROVE FALSE
    OBVIOUS
  <2>1. unsummed \in SUBSET Nat
    OBVIOUS
  <2>2. PICK n \in unsummed : \A m \in unsummed : n <= m
    <3> HIDE DEF unsummed
    <3> QED BY <2>1, LeastNumber
  <2>3. n \in Nat /\ ~Summed(n)
    BY <2>2
  <2>4. CASE n = 0
    <3> DEFINE g == [s \in UpTo(S, 0) |-> 0]
    <3>1. ASSUME NEW s \in UpTo(S, 0) PROVE s = {}
      <4>1. s # {} => 0 > 0
        BY <3>1, FewerElements
      <4> QED BY <4>1
    <3>2. g = [s \in UpTo(S, 0) |-> IF s = {} THEN 0 ELSE w[First(s)] + g[s \ {First(s)}]]
      BY <3>1
    <3>3. g \in [UpTo(S, 0) -> Nat] /\ Sums(w, UpTo(S, 0), g)
      <4>1. g \in [UpTo(S, 0) -> Nat]
        OBVIOUS
      <4> HIDE DEF g
      <4> QED BY <3>2, <4>1 DEF Sums
    <3> HIDE DEF g
    <3> QED BY <2>3, <2>4, <3>3
  <2>5. CASE n # 0
    <3>1. n - 1 \in Nat /\ n - 1 \notin unsummed
      <4> HIDE DEF unsummed
      <4> QED BY <2>2, <2>3, <2>5
    <3>2. PICK g \in [UpTo(S, n - 1) -> Nat] : Sums(w, UpTo(S, n - 1), g)
      BY <3>1
    <3> DEFINE h == [s \in UpTo(S, n) |->
                       IF s = {} THEN 0 ELSE w[First(s)] + g[s \ {First(s)}]]
    <3>3. ASSUME NEW s \in UpTo(S, n), s # {}
          PROVE  h[s \ {First(s)}] = g[s \ {First(s)}] /\ w[First(s)] + g[s \ {First(s)}] \in Nat
      <4> DEFINE t == s \ {First(s)}
      <4>1. t \in UpTo(S, n - 1) /\ t \in UpTo(S, n) /\ First(s) \in S
        BY <2>3, <3>3, FewerElements
      <4> HIDE DEF t
      <4>2. h[t] = IF t = {} THEN 0 ELSE w[First(t)] + g[t \ {First(t)}]
        BY <4>1
      <4>3. g[t] = IF t = {} THEN 0 ELSE w[First(t)] + g[t \ {First(t)}]
        BY <3>2, <4>1 DEF Sums
      <4>4. g[t] \in Nat /\ w[First(s)] \in Nat
        BY <3>2, <4>1
      <4>5. h[t] = g[t] /\ w[First(s)] + g[t] \in Nat
        BY <4>2, <4>3, <4>4
      <4> QED BY <4>5 DEF t
    <3>4. h \in [UpTo(S, n) -> Nat]
      BY <3>3
    <3>5. h = [s \in UpTo(S, n) |-> IF s = {} THEN 0 ELSE w[First(s)] + h[s \ {First(s)}]]
      BY <3>3
    <3> HIDE DEF h
    <3>6. Sums(w, UpTo(S, n), h)
      BY <3>5 DEF Sums
    <3> QED BY <2>3, <3>4, <3>6
  <2> QED BY <2>4, <2>5
<1>2. Cardinality(S) \in Nat /\ UpTo(S, Cardinality(S)) = SUBSET S
  BY FS_CardinalityType, FS_Subset DEF UpTo
<1>3. Summed(Cardinality(S))
  BY <1>1, <1>2
<1> QED BY <1>2, <1>3

LEMMA SumsAreNat ==
  ASSUME NEW S, IsFiniteSet(S), NEW w \in [S -> Nat], NEW g, Sums(w, SUBSET S, g)
  PROVE  g[S] \in Nat
<1> DEFINE odd == {n \in Nat : \E s \in UpTo(S, n) : g[s] \notin Nat}
<1>1. odd = {}
  <2> SUFFICES ASSUME odd # {} PROVE FALSE
    OBVIOUS
  <2>1. odd \in SUBSET Nat
    OBVIOUS
  <2>2. PICK n \in odd : \A m \in odd : n <= m
    <3> HIDE DEF odd
    <3> QED BY <2>1, LeastNumber
  <2>3. PICK s \in UpTo(S, n) : g[s] \notin Nat
    BY <2>2
  <2>4. n \in Nat /\ s \in SUBSET S
    BY <2>2, <2>3 DEF UpTo
  <2>5. g[s] = IF s = {} THEN 0 ELSE w[First(s)] + g[s \ {First(s)}]
    BY <2>4 DEF Sums
  <2>6. s # {}
    BY <2>3, <2>5
  <2>7. n > 0 /\ First(s) \in S /\ s \ {First(s)} \in UpTo(S, n - 1)
    BY <2>3, <2>4, <2>6, FewerElements
  <2>8. n - 1 \in Nat /\ n - 1 \notin odd
    <3> HIDE DEF odd
    <3> QED BY <2>2, <2>4, <2>7
  <2>9. g[s \ {First(s)}] \in Nat
    BY <2>7, <2>8
  <2> QED BY <2>3, <2>5, <2>6, <2>7, <2>9
<1>2. Cardinality(S) \in Nat /\ S \in UpTo(S, Cardinality(S))
  BY FS_CardinalityType DEF UpTo
<1> QED BY <1>1, <1>2

\* What each cell adds to the account's total.
Weight(u) == [k \in Cells |-> IF u[k] = None THEN 0 ELSE u[k].tokens]

LEMMA TotalIsNumber ==
  ASSUME NEW u \in Usages
  PROVE  TokensOf(u) \in Nat
<1> DEFINE g == CHOOSE h : Sums(Weight(u), SUBSET Cells, h)
<1>1. TokensOf(u) = g[Cells]
  BY Zenon DEF TokensOf, MapThenSumSet, MapThenFoldSet, Sums, Weight, First
<1>2. Weight(u) \in [Cells -> Nat]
  BY NoneIsNoCell DEF Weight, Usages
<1>3. Sums(Weight(u), SUBSET Cells, g)
  BY <1>2, SumsExist, CellsAreFinite
<1> HIDE DEF g
<1> QED BY <1>1, <1>2, <1>3, SumsAreNat, CellsAreFinite

\* Every variable holds a value of its domain: what is stored for a client-day
\* is one of the counts that may be reported, never a sum of them, the stored
\* total is a number, and who will write knows what was reported.
THEOREM SubmitTypes == Spec => []TypeOK
<1> DEFINE Inv == UsageInv /\ submission \in Submission \cup {None}
<1>1. Init => Inv
  BY SubmitInit DEF UsageInv, Init, NoUsage, Usages
<1>2. ASSUME Inv, [Next]_vars, UsageInv'
      PROVE  Inv'
  <2>1. ASSUME NEW p \in Requests, mergeSubmission(p)
        PROVE  submission' \in Submission
    <3>1. usage' \in Usages
      BY <1>2 DEF UsageInv, Usages
    <3>2. request[p].data \in Payload /\ request[p].metric \in Metrics \cup {None}
      BY <1>2, <2>1 DEF mergeSubmission, UsageInv, SubmitInv, MergersKnow, RequestsTyped, Request
    <3>3. MergeMonotonic(request[p].metric, request[p].data.metric) \in Metrics \cup {None}
      BY <3>2, MergeMonotonicGrows DEF Payload
    <3> QED BY <2>1, <3>1, <3>3, TotalIsNumber DEF mergeSubmission, Submission
  <2>2. submission' \in {submission, None} \/ \E p \in Requests : mergeSubmission(p)
    BY <1>2 DEF Next, SubmitStep, vars, findSubmission, findNoSubmission, insertSubmission,
       racedSubmission, deleteSubmission, deleteDevices, Abort
  <2> QED BY <1>2, <2>1, <2>2
<1>3. Inv => TypeOK
  BY DEF UsageInv, SubmitInv, RequestsTyped, MergersKnow, TypeOK, Usages
<1>4. Spec => []Inv
  <2>1. UsageInv /\ UsageInv' /\ Inv /\ [Next]_vars => Inv'
    BY <1>2
  <2> HIDE DEF Inv
  <2> QED BY <1>1, <2>1, UsageInvAlways, PTL DEF Spec
<1> QED BY <1>3, <1>4, PTL
=============================================================================
