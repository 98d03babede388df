------------------------- MODULE AntigravitySyncProofs -------------------------
(***************************************************************************)
(* The Antigravity cache for every number of sessions, connections and     *)
(* processes, every limit and every timeout: one process at a time changes *)
(* it, for less than the budget and one call, and no sync takes away what  *)
(* it recorded.                                                            *)
(***************************************************************************)
EXTENDS AntigravitySync, TLAPS

LEMMA LimitsNat ==
  /\ Budget \in Nat /\ Threshold \in Nat
  /\ Timeout \in Nat \ {0} /\ Deadline \in Nat \ {0} /\ Stalls \in Nat \ {0}
  BY LimitsAreNat, TimesArePositive

\* When the last request of a sync with a deadline is over.
Latest == Deadline + (Stalls - 1) * Timeout

\* What a process works with is bounded: the time that failing calls take after the
\* listing is charged to the budget, and is less than it before each.
Bounded(w) ==
  /\ w.stalled <= w.wasted
  /\ w.wasted < Budget + LongestCall
  /\ ~w.explicit => w.spent <= Latest

\* What no call for a session changes.
SameSessions(w, v) ==
  /\ v.explicit = w.explicit
  /\ v.previous = w.previous
  /\ v.candidates = w.candidates
  /\ v.next = w.next

LEMMA Products ==
  ASSUME NEW n \in Nat, NEW a \in Nat, NEW b \in Nat, a <= b
  PROVE  n * a \in Nat /\ n * a <= n * b
<1>1. n * a \in Nat /\ n * (b - a) >= 0
  OBVIOUS
<1>2. n * b = n * a + n * (b - a)
  OBVIOUS
<1> QED BY <1>1, <1>2

LEMMA LimitsAreLarge ==
  /\ LongestCall \in Nat /\ LongestCall > 0
  /\ Latest \in Nat /\ Latest >= Deadline
<1>1. Stalls * Timeout \in Nat /\ (Stalls - 1) * Timeout \in Nat
  BY LimitsNat, Products
<1> QED BY <1>1, LimitsNat DEF LongestCall, Latest

LEMMA NoWorkIsBounded == NoWork \in Work /\ Bounded(NoWork)
  BY LimitsNat, LimitsAreLarge DEF NoWork, Work, Bounded

\* One request takes no more than its timeouts, which end with the deadline.
LEMMA TakenIsAllowed ==
  ASSUME NEW w \in Work, NEW after \in Nat, NEW times \in Nat, NEW e \in Taken(w, after, times)
  PROVE  /\ e \in Nat
         /\ e <= times * Timeout
         /\ ~CanRequest(w, after) => e = 0
         /\ ~w.explicit /\ CanRequest(w, after) =>
              \E t \in Nat : t <= Timeout /\ t <= Deadline - (w.spent + after) /\ e <= times * t
<1> DEFINE t == remaining_timeout(w, after)
<1>1. w.spent \in Nat /\ w.explicit \in BOOLEAN
  BY DEF Work
<1>2. CASE ~CanRequest(w, after)
  <2>1. e = 0 /\ times * Timeout \in Nat
    BY <1>2, LimitsNat, Products DEF Taken
  <2> QED BY <1>2, <2>1
<1>3. CASE CanRequest(w, after)
  <2>1. /\ t \in Nat /\ t <= Timeout
        /\ ~w.explicit => t <= Deadline - (w.spent + after)
    BY <1>1, <1>3, LimitsNat DEF CanRequest, remaining_timeout
  <2>2. times * t \in Nat /\ times * t <= times * Timeout
    BY <2>1, LimitsNat, Products
  <2>3. e \in 0 .. times * t
    BY <1>3 DEF Taken
  <2>4. times * Timeout \in Nat
    BY LimitsNat, Products
  <2> HIDE DEF t
  <2>5. e \in Nat /\ e <= times * t /\ e <= times * Timeout
    BY <2>2, <2>3, <2>4
  <2> QED BY <1>3, <2>1, <2>5
<1> QED BY <1>2, <1>3

\* A call takes at most LongestCall, and does not pass the deadline by more than its plain
\* request waits again.
LEMMA ElapsedIsAllowed ==
  ASSUME NEW w \in Work, NEW e \in Elapsed(w)
  PROVE  /\ e \in Nat /\ e <= LongestCall
         /\ ~w.explicit /\ w.spent <= Latest => w.spent + e <= Latest
<1>1. w.spent \in Nat /\ w.explicit \in BOOLEAN
  BY DEF Work
<1>p. PICK plain \in Taken(w, 0, Stalls) : \E https \in Taken(w, plain, 1) : e = plain + https
  BY Zenon DEF Elapsed
<1>2. PICK https \in Taken(w, plain, 1) : e = plain + https
  BY <1>p
<1>3. plain \in Nat /\ plain <= Stalls * Timeout /\ Stalls * Timeout \in Nat
  BY <1>1, LimitsNat, TakenIsAllowed, Products
<1>4. https \in Nat /\ https <= Timeout
  BY <1>3, LimitsNat, TakenIsAllowed
<1>5. e \in Nat /\ e <= LongestCall
  BY <1>2, <1>3, <1>4, LimitsNat DEF LongestCall
<1>6. ASSUME ~w.explicit, w.spent <= Latest PROVE w.spent + e <= Latest
  <2>1. CASE ~CanRequest(w, 0)
    <3>1. plain = 0
      BY <2>1, LimitsNat, TakenIsAllowed
    <3>2. https = 0
      BY <2>1, <3>1, TakenIsAllowed
    <3> QED BY <1>1, <1>2, <1>6, <3>1, <3>2, LimitsAreLarge
  <2>2. CASE CanRequest(w, 0)
    <3>1. PICK t \in Nat : t <= Timeout /\ t <= Deadline - w.spent /\ plain <= Stalls * t
      <4>1. \E t \in Nat : t <= Timeout /\ t <= Deadline - (w.spent + 0) /\ plain <= Stalls * t
        BY <1>6, <2>2, LimitsNat, TakenIsAllowed
      <4> QED BY <4>1, <1>1
    <3>2. w.spent + plain <= Latest
      <4>1. /\ Stalls * t = t + (Stalls - 1) * t
            /\ (Stalls - 1) * t \in Nat /\ (Stalls - 1) * Timeout \in Nat
            /\ (Stalls - 1) * t <= (Stalls - 1) * Timeout
        BY LimitsNat, <3>1, Products
      <4> QED BY <1>1, <1>3, <3>1, <4>1, LimitsNat DEF Latest
    <3>3. CASE CanRequest(w, plain)
      <4>1. https <= Deadline - (w.spent + plain)
        BY <1>3, <1>4, <1>1, <1>6, <3>3, LimitsNat, TakenIsAllowed
      <4> QED BY <1>1, <1>2, <1>3, <1>4, <4>1, LimitsNat, LimitsAreLarge
    <3>4. CASE ~CanRequest(w, plain)
      BY <1>1, <1>2, <1>3, <3>2, <3>4, TakenIsAllowed
    <3> QED BY <3>3, <3>4
  <2> QED BY <2>1, <2>2
<1> QED BY <1>5, <1>6

\* It depends on the deadline alone.
LEMMA ElapsedByDeadline ==
  ASSUME NEW u, NEW w, u.explicit = w.explicit, u.spent = w.spent
  PROVE  Elapsed(u) = Elapsed(w)
<1>1. \A after, times : Taken(u, after, times) = Taken(w, after, times)
  BY DEF Taken, CanRequest, remaining_timeout
<1>2. ASSUME NEW v
      PROVE  \A e : e \in Elapsed(v) <=>
               \E plain \in Taken(v, 0, Stalls) : \E https \in Taken(v, plain, 1) : e = plain + https
  <2>1. ASSUME NEW e \in Elapsed(v)
        PROVE  \E plain \in Taken(v, 0, Stalls) : \E https \in Taken(v, plain, 1) : e = plain + https
    BY Zenon DEF Elapsed
  <2>2. ASSUME NEW plain \in Taken(v, 0, Stalls), NEW https \in Taken(v, plain, 1)
        PROVE  plain + https \in Elapsed(v)
    <3>1. plain + https \in {plain + h : h \in Taken(v, plain, 1)}
      OBVIOUS
    <3> QED BY <3>1 DEF Elapsed
  <2> QED BY <2>1, <2>2
<1>3. \A e : e \in Elapsed(u) <=> e \in Elapsed(w)
  BY <1>1, <1>2
<1> QED BY <1>3, Zenon DEF Elapsed

\* A call that succeeds is not charged; it only comes nearer to the deadline.
LEMMA SpentIsBounded ==
  ASSUME NEW w \in Work, Bounded(w), NEW e \in Elapsed(w)
  PROVE  LET v == Spend(w, e)
         IN  v \in Work /\ Bounded(v) /\ SameSessions(w, v)
<1> DEFINE n == IF w.explicit THEN 0 ELSE w.spent + e
           v == [w EXCEPT !.spent = n]
<1>1. w.spent \in Nat /\ w.explicit \in BOOLEAN
  BY DEF Work
<1>2. n \in Nat /\ (~w.explicit => n <= Latest)
  BY <1>1, ElapsedIsAllowed DEF Bounded
<1>3. v = Spend(w, e)
  BY DEF Spend
<1> HIDE DEF n
<1>4. v \in Work /\ Bounded(v) /\ SameSessions(w, v)
  BY <1>2 DEF Work, Bounded, SameSessions
<1> QED BY <1>3, <1>4

\* A call that fails is charged in full, whatever else is noted of it.
LEMMA ChargedIsBounded ==
  ASSUME NEW w \in Work, Bounded(w), w.wasted < Budget, NEW e \in Elapsed(w)
  PROVE  LET v == [Stall(w, e) EXCEPT !.wasted = @ + e]
         IN  v \in Work /\ Bounded(v) /\ SameSessions(w, v)
<1> DEFINE u == Spend(w, e)
           v == [Stall(w, e) EXCEPT !.wasted = @ + e]
<1>1. u \in Work /\ Bounded(u) /\ SameSessions(w, u)
  BY SpentIsBounded
<1>2. u.wasted = w.wasted
  BY DEF Spend, Work
<1>3. v = [u EXCEPT !.stalled = u.stalled + e, !.wasted = u.wasted + e]
  BY DEF Stall, Spend, Work
<1>4. e \in Nat /\ e <= LongestCall
  BY ElapsedIsAllowed
<1> HIDE DEF u, v
<1>5. u.stalled \in Nat /\ u.wasted \in Nat /\ w.wasted \in Nat
  BY <1>1 DEF Work
<1>6. u.stalled + e \in Nat /\ u.wasted + e \in Nat
  BY <1>4, <1>5
<1>7. v \in Work /\ SameSessions(u, v) /\ v.spent = u.spent
  BY <1>1, <1>3, <1>6 DEF Work, SameSessions
<1>8. v.stalled = u.stalled + e /\ v.wasted = u.wasted + e
  BY <1>1, <1>3 DEF Work
<1>9. Bounded(v)
  BY <1>1, <1>2, <1>4, <1>5, <1>7, <1>8, LimitsNat, LimitsAreLarge DEF Bounded, SameSessions
<1> QED BY <1>1, <1>7, <1>9 DEF v, SameSessions

\* The fields that count failures are of no concern to the bounds.
LEMMA CountsAreFree ==
  ASSUME NEW w \in Work, Bounded(w), NEW c \in Connections, NEW n \in Nat, NEW v,
         v = [w EXCEPT !.failures[c] = n] \/ v = [w EXCEPT !.metadata_failures[c] = n]
  PROVE  v \in Work /\ Bounded(v) /\ SameSessions(w, v)
<1>1. CASE v = [w EXCEPT !.failures[c] = n]
  <2>1. v \in Work
    BY <1>1 DEF Work
  <2> QED BY <1>1, <2>1 DEF Work, Bounded, SameSessions
<1>2. CASE v = [w EXCEPT !.metadata_failures[c] = n]
  <2>1. v \in Work
    BY <1>2 DEF Work
  <2> QED BY <1>2, <2>1 DEF Work, Bounded, SameSessions
<1> QED BY <1>1, <1>2

\* So is what is held after an answer.
LEMMA AnsweredIsBounded ==
  ASSUME NEW w \in Work, Bounded(w), NEW c \in Connections, NEW e \in Elapsed(w)
  PROVE  LET v == [Spend(w, e) EXCEPT !.metadata_failures[c] = 0]
         IN  v \in Work /\ Bounded(v) /\ SameSessions(w, v)
<1> DEFINE u == Spend(w, e)
<1>1. u \in Work /\ Bounded(u) /\ SameSessions(w, u)
  BY SpentIsBounded
<1> HIDE DEF u
<1>2. LET v == [u EXCEPT !.metadata_failures[c] = 0]
      IN  v \in Work /\ Bounded(v) /\ SameSessions(u, v)
  BY <1>1, CountsAreFree
<1>3. LET v == [u EXCEPT !.metadata_failures[c] = 0]
      IN  v \in Work /\ Bounded(v) /\ SameSessions(w, v)
  BY <1>1, <1>2 DEF SameSessions
<1> QED BY <1>3 DEF u

LEMMA FetchedIsBounded ==
  ASSUME NEW w \in Work, Bounded(w), NEW c \in Connections, NEW got \in fetch_usage_timestamps(w, c)
  PROVE  got.w \in Work /\ Bounded(got.w) /\ SameSessions(w, got.w)
<1>1. CASE got.w = w
  BY <1>1 DEF SameSessions
<1>2. ASSUME NEW e \in Elapsed(w), got.w = [Spend(w, e) EXCEPT !.failures[c] = 0]
      PROVE  got.w \in Work /\ Bounded(got.w) /\ SameSessions(w, got.w)
  <2> DEFINE v == Spend(w, e)
  <2>1. v \in Work /\ Bounded(v) /\ SameSessions(w, v)
    BY SpentIsBounded
  <2>2. got.w = [v EXCEPT !.failures[c] = 0]
    BY <1>2
  <2> HIDE DEF v
  <2>3. got.w \in Work /\ Bounded(got.w) /\ SameSessions(v, got.w)
    BY <2>1, <2>2, CountsAreFree
  <2> QED BY <2>1, <2>3 DEF SameSessions
<1>3. ASSUME should_attempt(w, w.failures, c), NEW e \in Elapsed(w),
             got.w = record_session_failure(Stall(w, e), e)
      PROVE  got.w \in Work /\ Bounded(got.w) /\ SameSessions(w, got.w)
  BY <1>3, ChargedIsBounded DEF record_session_failure, should_attempt
<1>4. ASSUME should_attempt(w, w.failures, c), NEW e \in Elapsed(w),
             got.w = [Stall(w, e) EXCEPT !.wasted = @ + e, !.failures[c] = @ + 1]
      PROVE  got.w \in Work /\ Bounded(got.w) /\ SameSessions(w, got.w)
  <2> DEFINE v == [Stall(w, e) EXCEPT !.wasted = @ + e]
  <2>1. v \in Work /\ Bounded(v) /\ SameSessions(w, v)
    BY <1>4, ChargedIsBounded DEF should_attempt
  <2>2. v.failures[c] \in Nat
    BY <2>1 DEF Work
  <2>3. got.w = [v EXCEPT !.failures[c] = v.failures[c] + 1]
    BY <1>4 DEF Stall, Spend, Work
  <2> HIDE DEF v
  <2>4. v.failures[c] + 1 \in Nat
    BY <2>2
  <2>5. got.w \in Work /\ Bounded(got.w) /\ SameSessions(v, got.w)
    BY <2>1, <2>3, <2>4, CountsAreFree
  <2> QED BY <2>1, <2>5 DEF SameSessions
<1>5. CASE ~should_attempt(w, w.failures, c)
  BY <1>1, <1>5 DEF fetch_usage_timestamps
<1>6. CASE should_attempt(w, w.failures, c)
  <2> DEFINE large(e) == record_session_failure(Stall(w, e), e)
             failed(e) == [Stall(w, e) EXCEPT !.wasted = @ + e, !.failures[c] = @ + 1]
             fine(e) == [Spend(w, e) EXCEPT !.failures[c] = 0]
  <2>0. fetch_usage_timestamps(w, c) \subseteq
             {[ok |-> FALSE, w |-> failed(e)] : e \in Elapsed(w)}
             \cup ({[ok |-> FALSE, w |-> large(e)] : e \in Elapsed(w)}
                   \cup {[ok |-> TRUE, w |-> fine(e)] : e \in Elapsed(w)})
    BY <1>6, Zenon DEF fetch_usage_timestamps
  <2>1. \/ \E e \in Elapsed(w) : got.w = fine(e)
        \/ \E e \in Elapsed(w) : got.w = large(e)
        \/ \E e \in Elapsed(w) : got.w = failed(e)
    <3> HIDE DEF large, failed, fine
    <3> QED BY <2>0
  <2> QED BY <1>2, <1>3, <1>4, <1>6, <2>1
<1> QED BY <1>5, <1>6

-----------------------------------------------------------------------------
(* The inductive invariant *)

\* Who is in the cache alone has the locks of the operating system and has its
\* record in place; and so has an old release its record.
LockInv ==
  /\ \A p, q \in locked : p = q
  /\ \A p \in Processes : InCache(p) => p \in locked /\ record = {p}
  /\ old = "in" => record = {Old}

\* A sync has each session that the manifest names still ahead of it or already
\* in the manifest to come.
Keeps(p) ==
  /\ pc[p] = "fetch" => work[p].previous \subseteq work[p].candidates \cup work[p].next
  /\ pc[p] \in {"list", "fetch"} /\ manifest.status = "ok" => manifest.sessions = work[p].previous
  /\ pc[p] = "cleanup" => work[p].previous \subseteq work[p].next

KeepInv == \A p \in Processes : Keeps(p)

WorkInv == \A p \in Processes : Bounded(work[p])

RowsInv ==
  \A s \in Sessions :
    /\ artifact[s].stamped \subseteq artifact[s].rows
    /\ artifact[s].rows \subseteq usage[s]

SyncInv == TypeOK /\ LockInv /\ KeepInv /\ WorkInv /\ RowsInv

LEMMA InitIsFine == Init => SyncInv
<1> SUFFICES ASSUME Init PROVE SyncInv
  OBVIOUS
<1>1. TypeOK
  BY NoWorkIsBounded DEF Init, TypeOK, Artifact, NoArtifact, Manifest, NoManifest
<1>2. LockInv
  BY DEF Init, LockInv, InCache
<1>3. KeepInv
  BY DEF Init, KeepInv, Keeps
<1>4. WorkInv
  BY NoWorkIsBounded DEF Init, WorkInv
<1>5. RowsInv
  BY DEF Init, RowsInv, NoArtifact
<1> QED BY <1>1, <1>2, <1>3, <1>4, <1>5 DEF SyncInv

\* Two processes are not in the cache at once.
LEMMA InCacheAlone ==
  ASSUME TypeOK, LockInv, NEW p \in Processes, NEW q \in Processes, InCache(p), InCache(q)
  PROVE  p = q
  BY DEF TypeOK, LockInv

-----------------------------------------------------------------------------
(* Types *)

LEMMA CallKeepsWork ==
  ASSUME TypeOK, WorkInv, NEW p \in Processes, NEW s \in Sessions, NEW c \in Connections,
         try_fetch_session_artifact(p, s, c)
  PROVE  \E v \in Work :
           /\ work' = [work EXCEPT ![p] = v]
           /\ Bounded(v)
           /\ v.previous = work[p].previous
           /\ work[p].candidates \cup work[p].next \subseteq v.candidates \cup v.next
<1> DEFINE w == work[p]
<1>1. w \in Work /\ Bounded(w)
  BY DEF TypeOK, WorkInv
<1>2. 0 \in Nat
  OBVIOUS
<1>3. CASE Refresh(p, s, c)
  <2>0. PICK e \in Elapsed(w) :
          \E got \in IF needs_trajectory(usage[s])
                     THEN fetch_usage_timestamps([Spend(w, e) EXCEPT !.metadata_failures[c] = 0], c)
                     ELSE {[ok |-> TRUE, w |-> [Spend(w, e) EXCEPT !.metadata_failures[c] = 0]]} :
            work' = [work EXCEPT ![p] = [Done(got.w, s) EXCEPT !.next = @ \cup {s}]]
    BY <1>3 DEF Refresh
  <2> DEFINE answered == [Spend(w, e) EXCEPT !.metadata_failures[c] = 0]
  <2>1. answered \in Work /\ Bounded(answered) /\ SameSessions(w, answered)
    BY <1>1, AnsweredIsBounded
  <2>2. PICK got \in IF needs_trajectory(usage[s]) THEN fetch_usage_timestamps(answered, c)
                      ELSE {[ok |-> TRUE, w |-> answered]} :
          work' = [work EXCEPT ![p] = [Done(got.w, s) EXCEPT !.next = @ \cup {s}]]
    BY <2>0
  <2> DEFINE v == [Done(got.w, s) EXCEPT !.next = @ \cup {s}]
  <2>3. got.w \in Work /\ Bounded(got.w) /\ SameSessions(answered, got.w)
    <3> HIDE DEF answered
    <3>1. CASE got \in fetch_usage_timestamps(answered, c)
      BY <2>1, <3>1, FetchedIsBounded
    <3>2. CASE got = [ok |-> TRUE, w |-> answered]
      BY <2>1, <3>2 DEF SameSessions
    <3> QED BY <2>2, <3>1, <3>2
  <2>4. ASSUME NEW g \in Work, Bounded(g), NEW d,
               d = [Done(g, s) EXCEPT !.next = @ \cup {s}]
        PROVE  /\ d \in Work /\ Bounded(d)
               /\ d.previous = g.previous
               /\ d.candidates = g.candidates \ {s}
               /\ d.next = g.next \cup {s}
    <3>1. /\ Done(g, s) \in Work /\ Bounded(Done(g, s))
          /\ Done(g, s).previous = g.previous
          /\ Done(g, s).candidates = g.candidates \ {s}
          /\ Done(g, s).next = g.next
      BY <2>4 DEF Done, Work, Bounded
    <3>2. \A h \in Work : h.next \cup {s} \in SUBSET Sessions
      BY DEF Work
    <3> QED BY <2>4, <3>1, <3>2 DEF Work, Bounded
  <2>5. /\ v \in Work /\ Bounded(v)
        /\ v.previous = got.w.previous
        /\ v.candidates = got.w.candidates \ {s}
        /\ v.next = got.w.next \cup {s}
    BY <2>3, <2>4
  <2>6. /\ v.previous = w.previous
        /\ w.candidates \cup w.next \subseteq v.candidates \cup v.next
    <3> HIDE DEF v, answered
    <3> QED BY <2>1, <2>3, <2>5 DEF SameSessions
  <2> QED BY <2>2, <2>5, <2>6
<1>4. CASE NotKnown(p, s, c)
  <2>0. PICK e \in Elapsed(w) : work' = [work EXCEPT ![p] =
          [Spend(w, e) EXCEPT !.metadata_failures[c] = 0, !.left = @ \ {c}]]
    BY <1>4 DEF NotKnown
  <2> DEFINE u == [Spend(w, e) EXCEPT !.metadata_failures[c] = 0]
             v == [Spend(w, e) EXCEPT !.metadata_failures[c] = 0, !.left = @ \ {c}]
  <2>1. u \in Work /\ Bounded(u) /\ SameSessions(w, u)
    BY <1>1, AnsweredIsBounded
  <2>2. v = [u EXCEPT !.doing = u.doing, !.left = u.left \ {c}]
    BY <1>1 DEF Spend, Work
  <2>3. v \in Work /\ Bounded(v) /\ SameSessions(u, v)
    <3> HIDE DEF u, v
    <3> QED BY <2>1, <2>2 DEF Work, Bounded, SameSessions
  <2>4. work' = [work EXCEPT ![p] = v]
    BY <2>0
  <2> HIDE DEF u, v
  <2> QED BY <2>1, <2>3, <2>4 DEF SameSessions
<1>5. CASE NotAnswered(p, s, c)
  <2> DEFINE skipped == [w EXCEPT !.left = @ \ {c}]
             failed(e) == [Stall(skipped, e) EXCEPT !.wasted = @ + e,
                                                    !.metadata_failures[c] = @ + 1]
  <2>1. skipped \in Work /\ Bounded(skipped) /\ SameSessions(w, skipped)
    BY <1>1 DEF Work, Bounded, SameSessions
  <2>2. CASE work' = [work EXCEPT ![p] = skipped]
    <3> HIDE DEF skipped
    <3> QED BY <2>1, <2>2 DEF SameSessions
  <2>3. ASSUME NEW e \in Elapsed(w), work' = [work EXCEPT ![p] = failed(e)],
               should_attempt(w, w.metadata_failures, c)
        PROVE  failed(e) \in Work /\ Bounded(failed(e)) /\ SameSessions(w, failed(e))
    <3> DEFINE u == [Stall(skipped, e) EXCEPT !.wasted = @ + e]
    <3>1. skipped.wasted < Budget /\ e \in Elapsed(skipped)
      <4>1. /\ skipped.wasted = w.wasted /\ skipped.spent = w.spent
            /\ skipped.explicit = w.explicit
        BY <1>1 DEF Work
      <4>2. Elapsed(skipped) = Elapsed(w)
        <5> HIDE DEF skipped
        <5> QED BY <4>1, ElapsedByDeadline
      <4> QED BY <2>3, <4>1, <4>2 DEF should_attempt
    <3>2. u \in Work /\ Bounded(u) /\ SameSessions(skipped, u)
      <4> HIDE DEF skipped
      <4> QED BY <2>1, <3>1, ChargedIsBounded
    <3>3. u.metadata_failures[c] + 1 \in Nat
      <4>1. u.metadata_failures[c] \in Nat
        <5> HIDE DEF u
        <5> QED BY <3>2 DEF Work
      <4> QED BY <4>1
    <3>4. failed(e) = [u EXCEPT !.metadata_failures[c] = u.metadata_failures[c] + 1]
      BY <1>1 DEF Stall, Spend, Work
    <3>5. failed(e) \in Work /\ Bounded(failed(e)) /\ SameSessions(u, failed(e))
      <4> HIDE DEF u, failed
      <4> QED BY <3>2, <3>3, <3>4, CountsAreFree
    <3> HIDE DEF u, failed, skipped
    <3> QED BY <2>1, <3>2, <3>5 DEF SameSessions
  <2>4. \/ work' = [work EXCEPT ![p] = skipped]
        \/ /\ should_attempt(w, w.metadata_failures, c)
           /\ \E e \in Elapsed(w) : work' = [work EXCEPT ![p] = failed(e)]
    BY <1>5 DEF NotAnswered
  <2> HIDE DEF skipped, failed
  <2> QED BY <2>2, <2>3, <2>4 DEF SameSessions
<1> QED BY <1>3, <1>4, <1>5 DEF try_fetch_session_artifact

LEMMA DropKeepsTypes ==
  ASSUME TypeOK, WorkInv, NEW p \in Processes, Drop(p),
         artifact' \in [Sessions -> Artifact], manifest' \in Manifest
  PROVE  TypeOK' /\ WorkInv'
<1>1. /\ usage' = usage /\ old' = old /\ syncs' = syncs
      /\ record' \subseteq record /\ locked' \subseteq locked
      /\ pc' = [pc EXCEPT ![p] = "idle"]
      /\ work' = [work EXCEPT ![p] = NoWork]
  BY DEF Drop, record_without_own
<1> QED BY <1>1, NoWorkIsBounded DEF TypeOK, WorkInv

LEMMA ListedIsBounded ==
  ASSUME NEW w \in Work, Bounded(w), NEW e \in Elapsed(w), NEW c \in Connections,
         NEW listing \in SUBSET Sessions, NEW better \in SUBSET Sessions,
         NEW v, v = merge_summary(Spend(w, e), c, listing, better)
  PROVE  v \in Work /\ Bounded(v) /\ v.previous = w.previous
<1> DEFINE u == Spend(w, e)
           preferred == [s \in Sessions |-> IF s \in better THEN {c} ELSE u.preferred[s]]
<1>1. u \in Work /\ Bounded(u) /\ SameSessions(w, u)
  BY SpentIsBounded
<1>2. v = [u EXCEPT !.left = u.left \ {c}, !.candidates = u.candidates \cup listing,
                    !.preferred = preferred]
  BY <1>1 DEF Work, merge_summary
<1> HIDE DEF u
<1>3. /\ preferred \in [Sessions -> SUBSET Connections]
      /\ u.left \ {c} \in SUBSET Connections
      /\ u.candidates \cup listing \in SUBSET Sessions
  BY <1>1 DEF Work
<1> HIDE DEF preferred
<1> QED BY <1>1, <1>2, <1>3 DEF Work, Bounded, SameSessions

LEMMA ListingKeepsWork ==
  ASSUME TypeOK, WorkInv, NEW p \in Processes, NEW c \in Connections,
         list_trajectory_summaries(p, c)
  PROVE  \E v : /\ v \in Work /\ Bounded(v) /\ work' = [work EXCEPT ![p] = v]
               /\ v.previous = work[p].previous
<1>1. work[p] \in Work /\ Bounded(work[p])
  BY DEF TypeOK, WorkInv
<1>2. PICK listing \in SUBSET Sessions, e \in Elapsed(work[p]) :
        \E better \in SUBSET listing :
          work' = [work EXCEPT ![p] = merge_summary(Spend(work[p], e), c, listing, better)]
  BY Zenon DEF list_trajectory_summaries
<1>3. PICK better \in SUBSET listing :
        work' = [work EXCEPT ![p] = merge_summary(Spend(work[p], e), c, listing, better)]
  BY <1>2
<1> DEFINE v == merge_summary(Spend(work[p], e), c, listing, better)
<1>4. v \in Work /\ Bounded(v) /\ v.previous = work[p].previous
  <2>1. better \in SUBSET Sessions
    OBVIOUS
  <2> QED BY <1>1, <2>1, ListedIsBounded
<1>5. work' = [work EXCEPT ![p] = v]
  BY <1>3
<1> HIDE DEF v
<1> QED BY <1>4, <1>5

LEMMA TypeStep ==
  ASSUME TypeOK, WorkInv, [Next]_vars
  PROVE  TypeOK' /\ WorkInv'
<1> USE DEF TypeOK, WorkInv
<1>1. CASE UNCHANGED vars
  BY <1>1 DEF vars
<1>2. CASE Outside
  <2>1. ASSUME NEW s \in Sessions, NEW r \in Rows, Grow(s, r) PROVE TypeOK' /\ WorkInv'
    BY <2>1 DEF Grow, cache, locks
  <2>2. CASE Corrupt
    <3>1. \A status \in {"corrupt", "newer"} : [status |-> status, sessions |-> {}] \in Manifest
      BY DEF Manifest
    <3> QED BY <2>2, <3>1 DEF Corrupt, locks
  <2>3. CASE RemoveRecord
    BY <2>3 DEF RemoveRecord, cache
  <2>4. CASE OldEnters
    BY <2>4 DEF OldEnters, cache
  <2>5. CASE OldLeaves
    BY <2>5 DEF OldLeaves, cache
  <2> QED BY <1>2, <2>1, <2>2, <2>3, <2>4, <2>5 DEF Outside
<1>3. ASSUME NEW p \in Processes, Sync(p) PROVE TypeOK' /\ WorkInv'
  <2>1. CASE sync_antigravity_cache(p)
    <3>1. PICK explicit \in BOOLEAN, connections \in SUBSET Connections :
            work' = [work EXCEPT ![p] = [NoWork EXCEPT !.explicit = explicit,
                                                       !.connections = connections]]
      BY <2>1 DEF sync_antigravity_cache
    <3> DEFINE v == [NoWork EXCEPT !.explicit = explicit, !.connections = connections]
    <3>2. v \in Work /\ Bounded(v)
      <4>1. v \in Work
        BY NoWorkIsBounded DEF Work
      <4>2. v.stalled = 0 /\ v.wasted = 0 /\ v.spent = 0
        BY DEF NoWork
      <4> HIDE DEF v, TypeOK, WorkInv
      <4> QED BY <4>1, <4>2, LimitsNat, LimitsAreLarge DEF Bounded
    <3>3. work' = [work EXCEPT ![p] = v]
      BY <3>1
    <3>4. pc' = [pc EXCEPT ![p] = "sync locks"] /\ syncs' \in Nat
          /\ UNCHANGED <<usage, artifact, manifest, record, locked, old>>
      <4>1. syncs \in Nat
        OBVIOUS
      <4> HIDE DEF TypeOK, WorkInv
      <4>2. syncs + 1 \in Nat
        BY <4>1
      <4> QED BY <2>1, <4>2 DEF sync_antigravity_cache, cache, locks
    <3> HIDE DEF v
    <3> QED BY <3>2, <3>3, <3>4
  <2>2. CASE CacheOperationLockGuard(p)
    BY <2>2 DEF CacheOperationLockGuard, cache
  <2>3. CASE publish_legacy_readable_lock(p)
    BY <2>3 DEF publish_legacy_readable_lock, cache
  <2>4. CASE load_antigravity_manifest(p)
    <3> DEFINE previous == IF manifest.status = "ok" THEN manifest.sessions ELSE {}
               v == [work[p] EXCEPT !.previous = previous, !.left = work[p].connections]
    <3>1. previous \in SUBSET Sessions /\ work[p] \in Work /\ Bounded(work[p])
      BY DEF Manifest
    <3>2. v \in Work /\ Bounded(v)
      <4> HIDE DEF TypeOK, WorkInv, previous
      <4> QED BY <3>1 DEF Work, Bounded
    <3>3. /\ work' = [work EXCEPT ![p] = v]
          /\ pc' = [pc EXCEPT ![p] = "list"]
          /\ manifest' \in {manifest, NoManifest}
          /\ UNCHANGED <<usage, artifact, record, locked, old, syncs>>
      BY <2>4 DEF load_antigravity_manifest, locks
    <3>4. NoManifest \in Manifest
      BY DEF NoManifest, Manifest
    <3> HIDE DEF v
    <3> QED BY <3>2, <3>3, <3>4
  <2>l. ASSUME NEW c \in Connections, list_trajectory_summaries(p, c) PROVE TypeOK' /\ WorkInv'
    <3>1. PICK v : v \in Work /\ Bounded(v) /\ work' = [work EXCEPT ![p] = v]
      BY <2>l, ListingKeepsWork
    <3> QED BY <2>l, <3>1 DEF list_trajectory_summaries, cache, locks
  <2>f. CASE scan_filesystem_session_candidates(p)
    <3>1. PICK files \in SUBSET Sessions : work' = [work EXCEPT ![p] = [work[p] EXCEPT
            !.candidates = merge_export_candidates(work[p].candidates, files, work[p].previous)]]
      BY <2>f DEF scan_filesystem_session_candidates
    <3> DEFINE all == merge_export_candidates(work[p].candidates, files, work[p].previous)
               v == [work[p] EXCEPT !.candidates = all]
    <3>2. work[p] \in Work /\ Bounded(work[p])
      OBVIOUS
    <3>3. all \in SUBSET Sessions
      BY <3>2 DEF Work, merge_export_candidates
    <3>4. v \in Work /\ Bounded(v)
      <4> HIDE DEF TypeOK, WorkInv, all
      <4> QED BY <3>2, <3>3 DEF Work, Bounded
    <3>5. work' = [work EXCEPT ![p] = v]
      BY <3>1
    <3> HIDE DEF v
    <3> QED BY <2>f, <3>4, <3>5 DEF scan_filesystem_session_candidates, cache, locks
  <2>5. ASSUME NEW s \in Sessions, fetch_session_artifact(p, s) PROVE TypeOK' /\ WorkInv'
    <3> DEFINE v == [work[p] EXCEPT !.doing = {s}, !.left = work[p].connections]
    <3>1. work' = [work EXCEPT ![p] = v]
      BY <2>5 DEF fetch_session_artifact
    <3>2. v \in Work /\ Bounded(v)
      <4>1. work[p] \in Work /\ Bounded(work[p])
        OBVIOUS
      <4> HIDE DEF TypeOK, WorkInv
      <4> QED BY <4>1 DEF Work, Bounded
    <3> HIDE DEF v
    <3> QED BY <2>5, <3>1, <3>2 DEF fetch_session_artifact, cache, locks
  <2>6. ASSUME NEW s \in Sessions, NEW c \in Connections, try_fetch_session_artifact(p, s, c)
        PROVE  TypeOK' /\ WorkInv'
    <3>1. PICK v \in Work : work' = [work EXCEPT ![p] = v] /\ Bounded(v)
      BY <2>6, CallKeepsWork
    <3>2. artifact' \in [Sessions -> Artifact]
      <4>1. \A t : Stamped(s, usage[s], t) \in SUBSET Rows
        BY DEF Stamped
      <4>2. \/ artifact' = artifact
            \/ \E t : artifact' = [artifact EXCEPT ![s] =
                         [rows |-> usage[s], stamped |-> Stamped(s, usage[s], t)]]
        BY <2>6 DEF try_fetch_session_artifact, Refresh, NotKnown, NotAnswered
      <4>3. \A t : [rows |-> usage[s], stamped |-> Stamped(s, usage[s], t)] \in Artifact
        BY <4>1 DEF Artifact
      <4> QED BY <4>2, <4>3
    <3> QED BY <2>6, <3>1, <3>2 DEF try_fetch_session_artifact, locks
  <2>7. ASSUME NEW s \in Sessions, retain_session(p, s) PROVE TypeOK' /\ WorkInv'
    <3>1. PICK next \in SUBSET Sessions :
            work' = [work EXCEPT ![p] = [Done(work[p], s) EXCEPT !.next = next]]
      <4>1. (IF Retained(p, s) THEN Done(work[p], s).next \cup {s} ELSE Done(work[p], s).next)
              \in SUBSET Sessions
        BY DEF Done, Work
      <4> QED BY <2>7, <4>1 DEF retain_session
    <3> DEFINE v == [Done(work[p], s) EXCEPT !.next = next]
    <3>2. work[p] \in Work /\ Bounded(work[p])
      OBVIOUS
    <3>3. Done(work[p], s) \in Work /\ Bounded(Done(work[p], s))
      <4> HIDE DEF TypeOK, WorkInv
      <4> QED BY <3>2 DEF Done, Work, Bounded
    <3>4. v \in Work /\ Bounded(v)
      <4> HIDE DEF TypeOK, WorkInv
      <4> QED BY <3>3 DEF Work, Bounded
    <3> HIDE DEF v
    <3> QED BY <2>7, <3>1, <3>4 DEF retain_session, cache, locks, v
  <2>8. CASE save_antigravity_manifest(p)
    <3>1. [status |-> "ok", sessions |-> work[p].next] \in Manifest
      BY DEF Manifest, Work
    <3> QED BY <2>8, <3>1 DEF save_antigravity_manifest, locks
  <2>9. CASE cleanup_stale_session_artifacts(p)
    <3>1. artifact' \in [Sessions -> Artifact]
      <4>1. NoArtifact \in Artifact
        BY DEF NoArtifact, Artifact
      <4> QED BY <2>9, <4>1 DEF cleanup_stale_session_artifacts
    <3> QED BY <2>9, <3>1, DropKeepsTypes DEF cleanup_stale_session_artifacts
  <2>10. CASE Fail(p)
    BY <2>10, DropKeepsTypes DEF Fail, cache
  <2>11. CASE Crash(p)
    BY <2>11, NoWorkIsBounded DEF Crash, cache
  <2> QED BY <1>3, <2>1, <2>2, <2>3, <2>4, <2>l, <2>f, <2>5, <2>6, <2>7, <2>8, <2>9, <2>10, <2>11
      DEF Sync
<1>4. ASSUME NEW p \in Processes, Purge(p) PROVE TypeOK' /\ WorkInv'
  <2>1. CASE run_antigravity_purge_cache(p)
    <3>1. pc' = [pc EXCEPT ![p] = "purge locks"] /\ syncs' \in Nat
          /\ UNCHANGED <<usage, artifact, manifest, record, locked, old, work>>
      <4>1. syncs \in Nat
        OBVIOUS
      <4> HIDE DEF TypeOK, WorkInv
      <4>2. syncs + 1 \in Nat
        BY <4>1
      <4> QED BY <2>1, <4>2 DEF run_antigravity_purge_cache, cache, locks
    <3> QED BY <3>1
  <2>2. ASSUME NEW s \in Sessions, PurgeArtifact(p, s) PROVE TypeOK' /\ WorkInv'
    <3>1. NoArtifact \in Artifact
      BY DEF NoArtifact, Artifact
    <3> QED BY <2>2, <3>1 DEF PurgeArtifact, locks
  <2>3. CASE PurgeManifest(p)
    BY <2>3 DEF PurgeManifest, locks, NoManifest, Manifest
  <2>4. CASE PurgeEnds(p)
    BY <2>4, DropKeepsTypes DEF PurgeEnds, cache
  <2> QED BY <1>4, <2>1, <2>2, <2>3, <2>4 DEF Purge
<1> QED BY <1>1, <1>2, <1>3, <1>4 DEF Next

-----------------------------------------------------------------------------
(* One writer *)

\* What a process does in the cache, or before it asks for the locks, leaves
\* them alone.
LEMMA WorkKeepsLocks ==
  ASSUME TypeOK, LockInv, NEW p \in Processes, UNCHANGED <<record, locked, old>>,
         NEW phase \in {"sync locks", "purge locks", "list", "fetch", "cleanup"},
         pc' = [pc EXCEPT ![p] = phase],
         phase \in {"list", "fetch", "cleanup"} => InCache(p)
  PROVE  LockInv'
  BY DEF TypeOK, LockInv, InCache

LEMMA DropKeepsLocks ==
  ASSUME TypeOK, LockInv, NEW p \in Processes, Drop(p)
  PROVE  LockInv'
<1>1. /\ record' = IF InCache(p) THEN record \ {p} ELSE record
      /\ locked' = locked \ {p}
      /\ pc' = [pc EXCEPT ![p] = "idle"]
      /\ old' = old
  BY DEF Drop, record_without_own
<1>2. \A q \in Processes : InCache(q)' => q # p /\ InCache(q)
  BY <1>1 DEF InCache, TypeOK
<1>3. \A q \in Processes : InCache(q)' => q \in locked' /\ record' = {q}
  <2> SUFFICES ASSUME NEW q \in Processes, InCache(q)' PROVE q \in locked' /\ record' = {q}
    OBVIOUS
  <2>1. q # p /\ InCache(q) /\ ~InCache(p)
    BY <1>2, InCacheAlone
  <2> QED BY <1>1, <2>1 DEF LockInv
<1>4. old' = "in" => record' = {Old}
  BY <1>1, OldIsNoProcess DEF LockInv
<1>5. \A q, r \in locked' : q = r
  BY <1>1 DEF LockInv
<1> QED BY <1>3, <1>4, <1>5 DEF LockInv

LEMMA LockStep ==
  ASSUME TypeOK, LockInv, [Next]_vars
  PROVE  LockInv'
<1>1. CASE UNCHANGED vars
  BY <1>1 DEF vars, LockInv, InCache
<1>2. CASE Outside
  <2>1. ASSUME NEW s \in Sessions, NEW r \in Rows, Grow(s, r) PROVE LockInv'
    BY <2>1 DEF Grow, locks, LockInv, InCache
  <2>2. CASE Corrupt
    BY <2>2 DEF Corrupt, locks, LockInv, InCache
  <2>3. CASE RemoveRecord
    <3>1. \A q \in Processes : ~InCache(q)
      BY <2>3, OldIsNoProcess DEF RemoveRecord, LockInv, InCache, Alive
    <3>2. old # "in"
      BY <2>3 DEF RemoveRecord, LockInv, Alive
    <3> QED BY <2>3, <3>1, <3>2 DEF RemoveRecord, LockInv, InCache
  <2>4. CASE OldEnters
    <3>1. \A q \in Processes : ~InCache(q)
      BY <2>4, OldIsNoProcess DEF OldEnters, LockInv, InCache, Alive
    <3> QED BY <2>4, <3>1 DEF OldEnters, LockInv, InCache
  <2>5. CASE OldLeaves
    <3>1. \A q \in Processes : ~InCache(q)
      BY <2>5, OldIsNoProcess DEF OldLeaves, LockInv
    <3> QED BY <2>5, <3>1 DEF OldLeaves, LockInv, InCache
  <2> QED BY <1>2, <2>1, <2>2, <2>3, <2>4, <2>5 DEF Outside
<1>3. ASSUME NEW p \in Processes, Sync(p) PROVE LockInv'
  <2>1. CASE sync_antigravity_cache(p)
    BY <2>1, WorkKeepsLocks DEF sync_antigravity_cache, locks
  <2>2. CASE CacheOperationLockGuard(p)
    BY <2>2 DEF CacheOperationLockGuard, LockInv, InCache
  <2>3. CASE publish_legacy_readable_lock(p)
    <3>1. /\ p \in locked /\ record = {} /\ record' = {p}
          /\ locked' = locked /\ old' = old /\ old # "in"
          /\ \E phase \in {"sync", "purge"} : pc' = [pc EXCEPT ![p] = phase]
      BY <2>3 DEF publish_legacy_readable_lock, LockInv
    <3>2. \A q \in Processes : ~InCache(q)
      BY <3>1 DEF LockInv
    <3>3. \A q \in Processes : InCache(q)' => q = p
      BY <3>1, <3>2 DEF TypeOK, InCache
    <3> QED BY <3>1, <3>3 DEF LockInv
  <2>4. CASE load_antigravity_manifest(p)
    BY <2>4, WorkKeepsLocks DEF load_antigravity_manifest, locks, InCache
  <2>l. ASSUME NEW c \in Connections, list_trajectory_summaries(p, c) PROVE LockInv'
    BY <2>l DEF list_trajectory_summaries, locks, LockInv, InCache
  <2>f. CASE scan_filesystem_session_candidates(p)
    BY <2>f, WorkKeepsLocks DEF scan_filesystem_session_candidates, locks, InCache
  <2>5. ASSUME NEW s \in Sessions, fetch_session_artifact(p, s) PROVE LockInv'
    BY <2>5 DEF fetch_session_artifact, locks, LockInv, InCache
  <2>6. ASSUME NEW s \in Sessions, NEW c \in Connections, try_fetch_session_artifact(p, s, c)
        PROVE  LockInv'
    BY <2>6 DEF try_fetch_session_artifact, locks, LockInv, InCache
  <2>7. ASSUME NEW s \in Sessions, retain_session(p, s) PROVE LockInv'
    BY <2>7 DEF retain_session, locks, LockInv, InCache
  <2>8. CASE save_antigravity_manifest(p)
    BY <2>8, WorkKeepsLocks DEF save_antigravity_manifest, locks, InCache
  <2>9. CASE cleanup_stale_session_artifacts(p)
    BY <2>9, DropKeepsLocks DEF cleanup_stale_session_artifacts
  <2>10. CASE Fail(p)
    BY <2>10, DropKeepsLocks DEF Fail
  <2>11. CASE Crash(p)
    BY <2>11 DEF Crash, LockInv, InCache, TypeOK
  <2> QED BY <1>3, <2>1, <2>2, <2>3, <2>4, <2>l, <2>f, <2>5, <2>6, <2>7, <2>8, <2>9, <2>10, <2>11
      DEF Sync
<1>4. ASSUME NEW p \in Processes, Purge(p) PROVE LockInv'
  <2>1. CASE run_antigravity_purge_cache(p)
    BY <2>1, WorkKeepsLocks DEF run_antigravity_purge_cache, locks
  <2>2. ASSUME NEW s \in Sessions, PurgeArtifact(p, s) PROVE LockInv'
    BY <2>2 DEF PurgeArtifact, locks, LockInv, InCache
  <2>3. CASE PurgeManifest(p)
    BY <2>3 DEF PurgeManifest, locks, LockInv, InCache
  <2>4. CASE PurgeEnds(p)
    BY <2>4, DropKeepsLocks DEF PurgeEnds
  <2> QED BY <1>4, <2>1, <2>2, <2>3, <2>4 DEF Purge
<1> QED BY <1>1, <1>2, <1>3, <1>4 DEF Next

-----------------------------------------------------------------------------
(* What was recorded stays *)

\* A process in the cache, or one that does not get there, leaves the others in
\* peace.
LEMMA OthersKeep ==
  ASSUME TypeOK, LockInv, KeepInv, NEW p \in Processes, NEW phase, NEW v,
         pc' = [pc EXCEPT ![p] = phase], work' = [work EXCEPT ![p] = v],
         InCache(p) \/ manifest' = manifest,
         Keeps(p)'
  PROVE  KeepInv'
<1> SUFFICES ASSUME NEW q \in Processes, q # p PROVE Keeps(q)'
  BY DEF KeepInv
<1>1. pc'[q] = pc[q] /\ work'[q] = work[q]
  BY DEF TypeOK
<1>2. CASE InCache(p)
  <2>1. ~InCache(q)
    BY <1>2, InCacheAlone
  <2> QED BY <1>1, <2>1 DEF Keeps, InCache
<1>3. CASE manifest' = manifest
  BY <1>1, <1>3 DEF Keeps, KeepInv
<1> QED BY <1>2, <1>3

LEMMA IdleKeeps ==
  ASSUME TypeOK, LockInv, KeepInv, NEW p \in Processes, NEW v,
         NEW phase \in {"idle", "sync locks", "purge locks", "sync", "purge"},
         pc' = [pc EXCEPT ![p] = phase], work' = [work EXCEPT ![p] = v],
         InCache(p) \/ manifest' = manifest
  PROVE  KeepInv'
<1>1. Keeps(p)'
  BY DEF Keeps, TypeOK
<1> QED BY <1>1, OthersKeep

LEMMA KeepStep ==
  ASSUME TypeOK, LockInv, WorkInv, KeepInv, [Next]_vars
  PROVE  KeepInv'
<1>1. CASE UNCHANGED vars
  BY <1>1 DEF vars, KeepInv, Keeps
<1>2. CASE Outside
  <2>1. ASSUME NEW s \in Sessions, NEW r \in Rows, Grow(s, r) PROVE KeepInv'
    BY <2>1 DEF Grow, cache, KeepInv, Keeps
  <2>2. CASE Corrupt
    BY <2>2 DEF Corrupt, KeepInv, Keeps
  <2>3. CASE RemoveRecord
    BY <2>3 DEF RemoveRecord, cache, KeepInv, Keeps
  <2>4. CASE OldEnters
    BY <2>4 DEF OldEnters, cache, KeepInv, Keeps
  <2>5. CASE OldLeaves
    BY <2>5 DEF OldLeaves, cache, KeepInv, Keeps
  <2> QED BY <1>2, <2>1, <2>2, <2>3, <2>4, <2>5 DEF Outside
<1>3. ASSUME NEW p \in Processes, Sync(p) PROVE KeepInv'
  <2>0. work = [work EXCEPT ![p] = work[p]] /\ pc = [pc EXCEPT ![p] = pc[p]]
    BY DEF TypeOK
  <2>1. CASE sync_antigravity_cache(p)
    <3>1. PICK explicit \in BOOLEAN, connections \in SUBSET Connections :
            work' = [work EXCEPT ![p] = [NoWork EXCEPT !.explicit = explicit,
                                                       !.connections = connections]]
      BY <2>1 DEF sync_antigravity_cache
    <3> QED BY <2>1, <3>1, IdleKeeps DEF sync_antigravity_cache, cache
  <2>2. CASE CacheOperationLockGuard(p)
    BY <2>2 DEF CacheOperationLockGuard, cache, KeepInv, Keeps
  <2>3. CASE publish_legacy_readable_lock(p)
    <3>1. \E phase \in {"sync", "purge"} : pc' = [pc EXCEPT ![p] = phase]
      BY <2>3 DEF publish_legacy_readable_lock
    <3>2. manifest' = manifest /\ work' = [work EXCEPT ![p] = work[p]]
      BY <2>0, <2>3 DEF publish_legacy_readable_lock, cache
    <3> QED BY <3>1, <3>2, IdleKeeps
  <2>4. CASE load_antigravity_manifest(p)
    <3> DEFINE previous == IF manifest.status = "ok" THEN manifest.sessions ELSE {}
               v == [work[p] EXCEPT !.previous = previous, !.left = work[p].connections]
    <3>1. v.previous = previous
      BY DEF TypeOK, Work
    <3>2. /\ pc[p] = "sync" /\ pc' = [pc EXCEPT ![p] = "list"]
          /\ work' = [work EXCEPT ![p] = v]
          /\ manifest' = IF manifest.status = "corrupt" THEN NoManifest ELSE manifest
      BY <2>4 DEF load_antigravity_manifest
    <3>3. manifest'.status = "ok" => manifest'.sessions = previous
      BY <3>2 DEF NoManifest
    <3> HIDE DEF v, previous
    <3>4. work'[p] = v /\ pc'[p] = "list"
      BY <3>2 DEF TypeOK
    <3>5. Keeps(p)'
      BY <3>1, <3>3, <3>4 DEF Keeps
    <3> QED BY <3>2, <3>5, OthersKeep DEF InCache
  <2>l. ASSUME NEW c \in Connections, list_trajectory_summaries(p, c) PROVE KeepInv'
    <3>1. PICK v : work' = [work EXCEPT ![p] = v] /\ v.previous = work[p].previous
      BY <2>l, ListingKeepsWork
    <3>2. pc' = pc /\ manifest' = manifest /\ pc[p] = "list"
      BY <2>l DEF list_trajectory_summaries, cache
    <3>3. work'[p] = v
      BY <3>1 DEF TypeOK
    <3>4. Keeps(p)'
      BY <3>1, <3>2, <3>3 DEF Keeps, KeepInv
    <3> QED BY <2>0, <3>1, <3>2, <3>4, OthersKeep
  <2>f. CASE scan_filesystem_session_candidates(p)
    <3>1. PICK files \in SUBSET Sessions : work' = [work EXCEPT ![p] = [work[p] EXCEPT
            !.candidates = merge_export_candidates(work[p].candidates, files, work[p].previous)]]
      BY <2>f DEF scan_filesystem_session_candidates
    <3> DEFINE v == [work[p] EXCEPT !.candidates =
                 merge_export_candidates(work[p].candidates, files, work[p].previous)]
    <3>2. v.previous = work[p].previous /\ v.previous \subseteq v.candidates
      BY DEF TypeOK, Work, merge_export_candidates
    <3>3. /\ pc[p] = "list" /\ pc' = [pc EXCEPT ![p] = "fetch"] /\ manifest' = manifest
          /\ work' = [work EXCEPT ![p] = v]
      BY <2>f, <3>1 DEF scan_filesystem_session_candidates, cache
    <3> HIDE DEF v
    <3>4. work'[p] = v /\ pc'[p] = "fetch"
      BY <3>3 DEF TypeOK
    <3>5. Keeps(p)'
      BY <3>2, <3>3, <3>4 DEF Keeps, KeepInv
    <3> QED BY <3>3, <3>5, OthersKeep
  <2>5. ASSUME NEW s \in Sessions, fetch_session_artifact(p, s) PROVE KeepInv'
    <3> DEFINE v == [work[p] EXCEPT !.doing = {s}, !.left = work[p].connections]
    <3>1. /\ v.previous = work[p].previous
          /\ v.candidates = work[p].candidates
          /\ v.next = work[p].next
      BY DEF TypeOK, Work
    <3>2. work' = [work EXCEPT ![p] = v] /\ pc' = pc /\ manifest' = manifest
      BY <2>5 DEF fetch_session_artifact, cache
    <3>3. work'[p] = v
      BY <3>2 DEF TypeOK
    <3> HIDE DEF v
    <3>4. Keeps(p)'
      BY <3>1, <3>2, <3>3 DEF Keeps, KeepInv
    <3> QED BY <2>0, <3>2, <3>4, OthersKeep
  <2>6. ASSUME NEW s \in Sessions, NEW c \in Connections, try_fetch_session_artifact(p, s, c)
        PROVE  KeepInv'
    <3>1. PICK v \in Work :
            /\ work' = [work EXCEPT ![p] = v]
            /\ v.previous = work[p].previous
            /\ work[p].candidates \cup work[p].next \subseteq v.candidates \cup v.next
      BY <2>6, CallKeepsWork
    <3>2. pc' = pc /\ manifest' = manifest /\ pc[p] = "fetch"
      BY <2>6 DEF try_fetch_session_artifact
    <3>3. work'[p] = v
      BY <3>1 DEF TypeOK
    <3>4. Keeps(p)'
      BY <3>1, <3>2, <3>3 DEF Keeps, KeepInv
    <3> QED BY <2>0, <3>1, <3>2, <3>4, OthersKeep
  <2>7. ASSUME NEW s \in Sessions, retain_session(p, s) PROVE KeepInv'
    <3> DEFINE done == Done(work[p], s)
               v == [done EXCEPT !.next = IF Retained(p, s) THEN @ \cup {s} ELSE @]
    <3>1. /\ done.previous = work[p].previous
          /\ done.candidates = work[p].candidates \ {s}
          /\ done.next = work[p].next
          /\ done \in Work
      <4>1. work[p] \in Work
        BY DEF TypeOK
      <4> QED BY <4>1 DEF Work, Done
    <3>2. /\ v.previous = done.previous
          /\ v.candidates = done.candidates
          /\ v.next = IF Retained(p, s) THEN done.next \cup {s} ELSE done.next
      <4> HIDE DEF done
      <4> QED BY <3>1 DEF Work
    <3>3. /\ work' = [work EXCEPT ![p] = v] /\ pc' = pc /\ manifest' = manifest
          /\ pc[p] = "fetch"
      BY <2>7 DEF retain_session, cache
    <3> HIDE DEF v, done
    <3>4. work'[p] = v
      BY <3>3 DEF TypeOK
    <3>5. s \in work[p].previous => Retained(p, s)
      BY DEF Retained
    <3>6. Keeps(p)'
      BY <3>1, <3>2, <3>3, <3>4, <3>5 DEF Keeps, KeepInv
    <3> QED BY <2>0, <3>3, <3>6, OthersKeep
  <2>8. CASE save_antigravity_manifest(p)
    <3>1. /\ pc[p] = "fetch" /\ pc' = [pc EXCEPT ![p] = "cleanup"]
          /\ work[p].candidates = {} /\ work' = work
      BY <2>8 DEF save_antigravity_manifest
    <3>2. pc'[p] = "cleanup"
      BY <3>1 DEF TypeOK
    <3>3. Keeps(p)'
      BY <3>1, <3>2 DEF Keeps, KeepInv
    <3> QED BY <2>0, <3>1, <3>3, OthersKeep DEF InCache
  <2>9. CASE cleanup_stale_session_artifacts(p)
    BY <2>9, IdleKeeps DEF cleanup_stale_session_artifacts, Drop, InCache
  <2>10. CASE Fail(p)
    BY <2>10, IdleKeeps DEF Fail, Drop, cache
  <2>11. CASE Crash(p)
    BY <2>11, IdleKeeps DEF Crash, cache
  <2> QED BY <1>3, <2>1, <2>2, <2>3, <2>4, <2>l, <2>f, <2>5, <2>6, <2>7, <2>8, <2>9, <2>10, <2>11
      DEF Sync
<1>4. ASSUME NEW p \in Processes, Purge(p) PROVE KeepInv'
  <2>0. work = [work EXCEPT ![p] = work[p]] /\ pc = [pc EXCEPT ![p] = pc[p]]
    BY DEF TypeOK
  <2>1. CASE run_antigravity_purge_cache(p)
    BY <2>0, <2>1, IdleKeeps DEF run_antigravity_purge_cache, cache
  <2>2. ASSUME NEW s \in Sessions, PurgeArtifact(p, s) PROVE KeepInv'
    BY <2>2 DEF PurgeArtifact, KeepInv, Keeps
  <2>3. CASE PurgeManifest(p)
    <3>1. manifest' = NoManifest /\ pc[p] = "purge" /\ UNCHANGED <<pc, work>>
      BY <2>3 DEF PurgeManifest
    <3> QED BY <2>0, <3>1, IdleKeeps DEF InCache
  <2>4. CASE PurgeEnds(p)
    BY <2>4, IdleKeeps DEF PurgeEnds, Drop, cache
  <2> QED BY <1>4, <2>1, <2>2, <2>3, <2>4 DEF Purge
<1> QED BY <1>1, <1>2, <1>3, <1>4 DEF Next

\* What a call for session s does to the artifacts: nothing, or it writes what the
\* session has, with the timestamps it got or those it had.
LEMMA CallWrites ==
  ASSUME NEW p \in Processes, NEW s \in Sessions, NEW c \in Connections,
         try_fetch_session_artifact(p, s, c)
  PROVE  \/ artifact' = artifact
         \/ \E timestamps \in {Rows, cached_usage_timestamps(s)} :
              /\ needs_trajectory(usage[s]) \/ timestamps = Rows
              /\ artifact' = [artifact EXCEPT ![s] =
                   [rows |-> usage[s], stamped |-> Stamped(s, usage[s], timestamps)]]
<1>1. CASE Refresh(p, s, c)
  <2>0. PICK e \in Elapsed(work[p]) :
          \E got \in IF needs_trajectory(usage[s])
                     THEN fetch_usage_timestamps([Spend(work[p], e) EXCEPT !.metadata_failures[c] = 0], c)
                     ELSE {[ok |-> TRUE, w |-> [Spend(work[p], e) EXCEPT !.metadata_failures[c] = 0]]} :
            artifact' = [artifact EXCEPT ![s] =
              [rows |-> usage[s],
               stamped |-> Stamped(s, usage[s], IF got.ok THEN Rows ELSE cached_usage_timestamps(s))]]
    BY <1>1 DEF Refresh
  <2> DEFINE answered == [Spend(work[p], e) EXCEPT !.metadata_failures[c] = 0]
  <2>1. PICK got \in IF needs_trajectory(usage[s]) THEN fetch_usage_timestamps(answered, c)
                      ELSE {[ok |-> TRUE, w |-> answered]} :
          artifact' = [artifact EXCEPT ![s] =
            [rows |-> usage[s],
             stamped |-> Stamped(s, usage[s], IF got.ok THEN Rows ELSE cached_usage_timestamps(s))]]
    BY <2>0
  <2>2. needs_trajectory(usage[s]) \/ got.ok
    BY DEF needs_trajectory
  <2> QED BY <2>1, <2>2
<1>2. CASE NotKnown(p, s, c)
  BY <1>2 DEF NotKnown
<1>3. CASE NotAnswered(p, s, c)
  BY <1>3 DEF NotAnswered
<1> QED BY <1>1, <1>2, <1>3 DEF try_fetch_session_artifact

\* The manifest to come names all that the old one names: nothing is stale.
LEMMA NothingIsStale ==
  ASSUME TypeOK, KeepInv, NEW p \in Processes, cleanup_stale_session_artifacts(p)
  PROVE  artifact' = artifact
<1>1. work[p].previous \ work[p].next = {}
  BY DEF cleanup_stale_session_artifacts, KeepInv, Keeps
<1>2. artifact' = [s \in Sessions |-> artifact[s]]
  BY <1>1 DEF cleanup_stale_session_artifacts
<1> QED BY <1>2 DEF TypeOK

\* Whatever writes artifacts is a call, a purge, or changes none.
LEMMA ArtifactStep ==
  ASSUME TypeOK, KeepInv, [Next]_vars
  PROVE  \/ artifact' = artifact /\ \A s \in Sessions : usage[s] \subseteq usage'[s]
         \/ /\ usage' = usage
            /\ \E p \in Processes, s \in Sessions, c \in Connections :
                 try_fetch_session_artifact(p, s, c)
         \/ /\ usage' = usage
            /\ \E p \in Processes, s \in Sessions : PurgeArtifact(p, s)
<1>1. CASE UNCHANGED vars
  BY <1>1 DEF vars
<1>2. CASE Outside
  <2>1. ASSUME NEW s \in Sessions, NEW r \in Rows, Grow(s, r)
        PROVE  artifact' = artifact /\ \A t \in Sessions : usage[t] \subseteq usage'[t]
    BY <2>1 DEF Grow, cache, TypeOK
  <2> QED BY <1>2, <2>1 DEF Outside, Corrupt, RemoveRecord, OldEnters, OldLeaves, cache
<1>3. ASSUME NEW p \in Processes, Sync(p)
      PROVE  \/ artifact' = artifact /\ usage' = usage
             \/ /\ usage' = usage
                /\ \E s \in Sessions, c \in Connections : try_fetch_session_artifact(p, s, c)
  <2>1. CASE \E s \in Sessions, c \in Connections : try_fetch_session_artifact(p, s, c)
    BY <2>1 DEF try_fetch_session_artifact
  <2>2. CASE cleanup_stale_session_artifacts(p)
    BY <2>2, NothingIsStale DEF cleanup_stale_session_artifacts, Drop
  <2>3. CASE Fail(p)
    BY <2>3 DEF Fail, Drop, cache
  <2> QED BY <1>3, <2>1, <2>2, <2>3 DEF Sync, sync_antigravity_cache, CacheOperationLockGuard,
          publish_legacy_readable_lock, load_antigravity_manifest, list_trajectory_summaries,
          scan_filesystem_session_candidates, fetch_session_artifact,
          retain_session, save_antigravity_manifest, Crash, cache, locks
<1>4. ASSUME NEW p \in Processes, Purge(p)
      PROVE  \/ artifact' = artifact /\ usage' = usage
             \/ usage' = usage /\ \E s \in Sessions : PurgeArtifact(p, s)
  BY <1>4 DEF Purge, run_antigravity_purge_cache, PurgeArtifact, PurgeManifest, PurgeEnds, Drop,
     cache, locks
<1> QED BY <1>1, <1>2, <1>3, <1>4 DEF Next

LEMMA RowsStep ==
  ASSUME TypeOK, KeepInv, RowsInv, [Next]_vars
  PROVE  RowsInv'
<1>1. CASE artifact' = artifact /\ \A s \in Sessions : usage[s] \subseteq usage'[s]
  BY <1>1 DEF RowsInv
<1>2. ASSUME usage' = usage, NEW p \in Processes, NEW s \in Sessions, NEW c \in Connections,
             try_fetch_session_artifact(p, s, c)
      PROVE  RowsInv'
  <2>1. \A t : Stamped(s, usage[s], t) \subseteq usage[s]
    BY DEF Stamped
  <2>2. \/ artifact' = artifact
        \/ \E t : artifact' = [artifact EXCEPT ![s] =
                     [rows |-> usage[s], stamped |-> Stamped(s, usage[s], t)]]
    BY <1>2, CallWrites
  <2>3. artifact \in [Sessions -> Artifact]
    BY DEF TypeOK
  <2> QED BY <1>2, <2>1, <2>2, <2>3 DEF RowsInv
<1>3. ASSUME usage' = usage, NEW p \in Processes, NEW s \in Sessions, PurgeArtifact(p, s)
      PROVE  RowsInv'
  BY <1>3 DEF PurgeArtifact, NoArtifact, RowsInv, TypeOK
<1> QED BY <1>1, <1>2, <1>3, ArtifactStep

LEMMA SyncStep ==
  ASSUME SyncInv, [Next]_vars
  PROVE  SyncInv'
  BY TypeStep, LockStep, KeepStep, RowsStep DEF SyncInv

\* What the usage and the timestamps of a step are, a purge apart.
LEMMA StepForgetsNothing ==
  ASSUME SyncInv, [Next]_vars, ~Purging
  PROVE  \A s \in Sessions :
           /\ artifact[s].rows \subseteq artifact'[s].rows
           /\ artifact[s].stamped \ {"anonymous"} \subseteq artifact'[s].stamped
<1> USE DEF SyncInv
<1>1. CASE artifact' = artifact
  BY <1>1
<1>2. ASSUME NEW p \in Processes, NEW s \in Sessions, NEW c \in Connections,
             try_fetch_session_artifact(p, s, c), artifact' # artifact
      PROVE  \A t \in Sessions :
               /\ artifact[t].rows \subseteq artifact'[t].rows
               /\ artifact[t].stamped \ {"anonymous"} \subseteq artifact'[t].stamped
  <2>1. PICK timestamps \in {Rows, cached_usage_timestamps(s)} :
          /\ needs_trajectory(usage[s]) \/ timestamps = Rows
          /\ artifact' = [artifact EXCEPT ![s] =
               [rows |-> usage[s], stamped |-> Stamped(s, usage[s], timestamps)]]
    BY <1>2, CallWrites
  <2>2. artifact[s].stamped \subseteq usage[s] /\ usage[s] \subseteq Rows
    BY DEF RowsInv, TypeOK
  <2>3. \A r \in artifact[s].stamped \ {"anonymous"} : r \in Stamped(s, usage[s], timestamps)
    <3> SUFFICES ASSUME NEW r \in artifact[s].stamped, r # "anonymous", r # "own"
                 PROVE  needs_trajectory(usage[s]) /\ r \in timestamps
      BY <2>2 DEF Stamped
    <3>1. needs_trajectory(usage[s])
      BY <2>2 DEF needs_trajectory
    <3>2. r \in Rows /\ r \in cached_usage_timestamps(s)
      BY <2>2 DEF cached_usage_timestamps
    <3> QED BY <3>1, <3>2
  <2>4. /\ artifact'[s].rows = usage[s]
        /\ artifact'[s].stamped = Stamped(s, usage[s], timestamps)
        /\ \A t \in Sessions \ {s} : artifact'[t] = artifact[t]
    <3>1. artifact \in [Sessions -> Artifact]
      BY DEF TypeOK
    <3> HIDE DEF SyncInv
    <3> QED BY <2>1, <3>1
  <2>5. artifact[s].rows \subseteq usage[s]
    BY DEF RowsInv
  <2> QED BY <2>3, <2>4, <2>5
<1>3. ASSUME NEW p \in Processes, NEW s \in Sessions, PurgeArtifact(p, s)
      PROVE  FALSE
  BY <1>3 DEF PurgeArtifact, Purging
<1> QED BY <1>1, <1>2, <1>3, ArtifactStep

\* The manifest goes on naming what it names.
LEMMA ManifestStep ==
  ASSUME SyncInv, [Next]_vars, ~Purging, manifest.status = "ok", manifest'.status = "ok"
  PROVE  manifest.sessions \subseteq manifest'.sessions
<1>1. CASE manifest' = manifest
  BY <1>1
<1>2. ASSUME NEW p \in Processes, save_antigravity_manifest(p)
      PROVE  manifest.sessions \subseteq manifest'.sessions
  <2>1. /\ pc[p] = "fetch"
        /\ work[p].candidates = {}
        /\ manifest'.sessions = work[p].next
    BY <1>2 DEF save_antigravity_manifest
  <2> QED BY <2>1 DEF SyncInv, KeepInv, Keeps
<1>3. CASE Corrupt
  BY <1>3 DEF Corrupt
<1>4. ASSUME NEW p \in Processes, load_antigravity_manifest(p)
      PROVE  manifest' = manifest
  BY <1>4 DEF load_antigravity_manifest
<1>5. ASSUME NEW p \in Processes, PurgeManifest(p)
      PROVE  FALSE
  BY <1>5 DEF PurgeManifest, Purging
<1>6. CASE UNCHANGED vars
  BY <1>6 DEF vars
<1>7. CASE Outside
  BY <1>1, <1>3, <1>7 DEF Outside, Grow, RemoveRecord, OldEnters, OldLeaves, cache
<1>8. ASSUME NEW p \in Processes, Sync(p) PROVE manifest.sessions \subseteq manifest'.sessions
  BY <1>1, <1>2, <1>4, <1>8 DEF Sync, sync_antigravity_cache, CacheOperationLockGuard,
     publish_legacy_readable_lock, list_trajectory_summaries, scan_filesystem_session_candidates,
     fetch_session_artifact, try_fetch_session_artifact,
     retain_session, cleanup_stale_session_artifacts, Fail, Crash, cache
<1>9. ASSUME NEW p \in Processes, Purge(p) PROVE manifest.sessions \subseteq manifest'.sessions
  BY <1>1, <1>5, <1>9 DEF Purge, run_antigravity_purge_cache, PurgeArtifact, PurgeEnds, cache
<1> QED BY <1>6, <1>7, <1>8, <1>9 DEF Next

-----------------------------------------------------------------------------
(* The theorems *)

\* The inductive invariant holds: the locks, the record and what a sync has in
\* hand fit together in every reachable state.
THEOREM SyncInvariant == Spec => []SyncInv
<1>1. Init => SyncInv
  BY InitIsFine
<1>2. SyncInv /\ [Next]_vars => SyncInv'
  BY SyncStep
<1> QED BY <1>1, <1>2, PTL DEF Spec

\* Every variable keeps to its domain.
THEOREM TypeCorrect == Spec => []TypeOK
<1>1. SyncInv => TypeOK
  BY DEF SyncInv
<1> QED BY <1>1, SyncInvariant, PTL

\* However many processes sync, purge, fail and die among old releases, one at a
\* time is in the cache.
THEOREM OneWriterAlways == Spec => []OneWriter
<1>1. SyncInv => OneWriter
  <2> SUFFICES ASSUME SyncInv PROVE OneWriter
    OBVIOUS
  <2>1. \A p, q \in Processes : InCache(p) /\ InCache(q) => p = q
    BY InCacheAlone DEF SyncInv
  <2>2. old = "in" => \A p \in Processes : ~InCache(p)
    BY OldIsNoProcess DEF SyncInv, LockInv
  <2> QED BY <2>1, <2>2 DEF OneWriter
<1> QED BY <1>1, SyncInvariant, PTL

\* Whatever the number of sick sessions and connections, and whatever the timeouts, the
\* failing calls under the locks take less than the budget and one call, and a sync with a
\* deadline passes it by no more than one plain request waits again.
THEOREM LockTimeIsBounded == Spec => []LockIsHeldBriefly
<1>1. SyncInv => LockIsHeldBriefly
  <2> SUFFICES ASSUME SyncInv, NEW p \in Processes
               PROVE  /\ work[p].stalled < Budget + LongestCall
                      /\ ~work[p].explicit => work[p].spent <= Deadline + (Stalls - 1) * Timeout
    BY DEF LockIsHeldBriefly
  <2>1. work[p] \in Work /\ Bounded(work[p])
    BY DEF SyncInv, TypeOK, WorkInv
  <2>2. work[p].stalled \in Nat /\ work[p].wasted \in Nat
    BY <2>1 DEF Work
  <2> QED BY <2>1, <2>2, LimitsNat, LimitsAreLarge DEF Bounded, Latest
<1> QED BY <1>1, SyncInvariant, PTL

\* No sync takes recorded usage away.
THEOREM NoSyncForgetsUsage == Spec => UsageSurvivesSync
<1>1. SyncInv /\ [Next]_vars =>
        [\/ Purging
         \/ /\ \A s \in Sessions : artifact[s].rows \subseteq artifact'[s].rows
            /\ manifest.status = "ok" /\ manifest'.status = "ok" =>
                 manifest.sessions \subseteq manifest'.sessions]_vars
  BY StepForgetsNothing, ManifestStep
<1> QED BY <1>1, SyncInvariant, PTL DEF Spec, UsageSurvivesSync

\* No sync takes a recorded timestamp away.
THEOREM NoSyncForgetsTimestamps == Spec => TimestampsSurvive
<1>1. SyncInv /\ [Next]_vars =>
        [Purging \/ \A s \in Sessions :
           artifact[s].stamped \ {"anonymous"} \subseteq artifact'[s].stamped]_vars
  BY StepForgetsNothing
<1> QED BY <1>1, SyncInvariant, PTL DEF Spec, TimestampsSurvive
=============================================================================
