---------------------------- MODULE AntigravitySync ----------------------------
(***************************************************************************)
(* The local cache of Antigravity usage: `tokens antigravity sync`, the    *)
(* sync before a submit and `purge-cache`                                  *)
(* (tokens-cli/src/antigravity.rs).                                        *)
(*                                                                         *)
(* A sync asks the running language servers for the usage of every session *)
(* it can learn of, writes one artifact per session and then the manifest. *)
(* Language servers forget sessions, fail and stall, the process may die   *)
(* anywhere, and an old release knows only one of the three locks.         *)
(*                                                                         *)
(* Time passes in calls only, and a call may take any time that its        *)
(* timeouts let it.  What a server answers, lists and has on disk is       *)
(* chosen when it is asked.  The order of sessions is left open.           *)
(***************************************************************************)
EXTENDS Naturals, FiniteSets

CONSTANTS
  Sessions,
  Connections, \* language servers
  Rows,        \* kinds of usage rows, one of a kind per session, see Named
  Processes,   \* tokens processes
  Timeout,     \* DEFAULT_RPC_TIMEOUT, like the next two in ticks
  Deadline,    \* IMPLICIT_SYNC_DEADLINE
  Budget,      \* TRAJECTORY_ENRICHMENT_BUDGET
  Stalls,      \* bound: timeouts that one plain HTTP request can run into
  Threshold,   \* TRAJECTORY_ENRICHMENT_FAILURE_THRESHOLD
  MaxSyncs     \* bound: syncs

\* "own": metadata has its timestamp.  "named": only the trajectory has it, and
\* an id to find it again.  "anonymous": likewise, without an id.
ASSUME RowsAreKinds == Rows \subseteq {"own", "named", "anonymous"}
ASSUME LimitsAreNat == {Budget, Threshold, MaxSyncs} \subseteq Nat
ASSUME TimesArePositive == {Timeout, Deadline, Stalls} \subseteq Nat \ {0}

VARIABLES
  usage,    \* rows each session has at the language servers that know it
  artifact, \* sessions/<id>.jsonl: rows, and which of them have a timestamp
  manifest, \* manifest.json: its status, and the sessions it names
  record,   \* sync.lock: whose record, {} when there is none
  locked,   \* who holds the locks of the operating system, beside the cache and in it
  old,      \* an old release is in the cache: "in", "out"
  pc,       \* where each process is
  work,     \* what a sync holds
  syncs     \* the number of syncs so far

world == <<usage>>
cache == <<artifact, manifest>>
locks == <<record, locked, old>>
vars  == <<usage, artifact, manifest, record, locked, old, pc, work, syncs>>

Artifact   == [rows: SUBSET Rows, stamped: SUBSET Rows]
NoArtifact == [rows |-> {}, stamped |-> {}]
Manifest   == [status: {"none", "ok", "corrupt", "newer"}, sessions: SUBSET Sessions]
NoManifest == [status |-> "none", sessions |-> {}]

\* doing: the session being fetched, if any; left: connections not yet asked for it,
\* or for their list.  wasted, failures, metadata_failures: TrajectoryEnrichmentBudget.
\* spent: the time of a sync that has a deadline; stalled: the time that calls which
\* failed took after the listing.
Work == [explicit: BOOLEAN, connections: SUBSET Connections,
         previous: SUBSET Sessions, candidates: SUBSET Sessions,
         preferred: [Sessions -> SUBSET Connections], next: SUBSET Sessions,
         doing: SUBSET Sessions, left: SUBSET Connections,
         wasted: Nat, failures: [Connections -> Nat],
         metadata_failures: [Connections -> Nat], spent: Nat, stalled: Nat]
NoWork == [explicit |-> TRUE, connections |-> {}, previous |-> {}, candidates |-> {},
           preferred |-> [s \in Sessions |-> {}], next |-> {},
           doing |-> {}, left |-> {},
           wasted |-> 0, failures |-> [c \in Connections |-> 0],
           metadata_failures |-> [c \in Connections |-> 0], spent |-> 0, stalled |-> 0]

Old == "old release" \* the owner in its record

ASSUME OldIsNoProcess == Old \notin Processes

Init ==
  /\ usage \in [Sessions -> SUBSET Rows]
  /\ artifact = [s \in Sessions |-> NoArtifact]
  /\ manifest = NoManifest
  /\ record = {}
  /\ locked = {}
  /\ old = "out"
  /\ pc = [p \in Processes |-> "idle"]
  /\ work = [p \in Processes |-> NoWork]
  /\ syncs = 0

Alive(owner) == IF owner = Old THEN old = "in" ELSE pc[owner] # "idle"

-----------------------------------------------------------------------------
(* Antigravity, the user, and an old release *)

\* Sessions only grow at the servers that know them.  A sync reads one at once:
\* what comes meanwhile is what came before or comes after.
Grow(s, r) ==
  /\ \A p \in Processes : pc[p] = "idle"
  /\ r \notin usage[s]
  /\ usage' = [usage EXCEPT ![s] = @ \cup {r}]
  /\ UNCHANGED <<cache, locks, pc, work, syncs>>

Corrupt ==
  /\ manifest.status = "ok"
  /\ \A p \in Processes : pc[p] = "idle"
  /\ \E status \in {"corrupt", "newer"} : manifest' = [status |-> status, sessions |-> {}]
  /\ UNCHANGED <<usage, artifact, locks, pc, work, syncs>>

\* The user removes the record of a process that is gone, as the error says.
RemoveRecord ==
  /\ \E owner \in record : ~Alive(owner)
  /\ record' = {}
  /\ UNCHANGED <<usage, cache, locked, old, pc, work, syncs>>

\* An old release knows the record only; it takes one over whose owner is gone.
OldEnters ==
  /\ old = "out"
  /\ \A owner \in record : ~Alive(owner)
  /\ record' = {Old}
  /\ old' = "in"
  /\ UNCHANGED <<usage, cache, locked, pc, work, syncs>>

OldLeaves ==
  /\ old = "in"
  /\ old' = "out"
  /\ record' \in {record \ {Old}, record}
  /\ UNCHANGED <<usage, cache, locked, pc, work, syncs>>

-----------------------------------------------------------------------------
(* Locks *)

\* Without a connection a submit does not sync at all.
sync_antigravity_cache(p) ==
  /\ pc[p] = "idle"
  /\ syncs < MaxSyncs
  /\ syncs' = syncs + 1
  /\ \E explicit \in BOOLEAN, connections \in SUBSET Connections :
       /\ explicit \/ connections # {}
       /\ work' = [work EXCEPT ![p] = [NoWork EXCEPT !.explicit = explicit,
                                                     !.connections = connections]]
  /\ pc' = [pc EXCEPT ![p] = "sync locks"]
  /\ UNCHANGED <<usage, cache, locks>>

run_antigravity_purge_cache(p) ==
  /\ pc[p] = "idle"
  /\ syncs < MaxSyncs
  /\ syncs' = syncs + 1
  /\ pc' = [pc EXCEPT ![p] = "purge locks"]
  /\ UNCHANGED <<usage, cache, locks, work>>

\* Both locks of the operating system, one beside the cache and one in it; a
\* process that does not get them gives up, see Fail.
CacheOperationLockGuard(p) ==
  /\ pc[p] \in {"sync locks", "purge locks"}
  /\ p \notin locked
  /\ locked = {}
  /\ locked' = {p}
  /\ UNCHANGED <<usage, cache, record, old, pc, work, syncs>>

\* The record that old releases understand; an existing one is never replaced.
publish_legacy_readable_lock(p) ==
  /\ p \in locked
  /\ record = {}
  /\ record' = {p}
  /\ \/ pc[p] = "sync locks" /\ pc' = [pc EXCEPT ![p] = "sync"]
     \/ pc[p] = "purge locks" /\ pc' = [pc EXCEPT ![p] = "purge"]
  /\ UNCHANGED <<usage, cache, locked, old, work, syncs>>

InCache(p) == pc[p] \in {"sync", "list", "fetch", "cleanup", "purge"}

\* Slip: removes the record without a look at whose it is.
any_record(p) == {}

\* The guard of a process removes the record that it published itself.
record_without_own(p) == IF InCache(p) THEN record \ {p} ELSE record

\* The guard goes: its own record first, then the locks.
Drop(p) ==
  /\ record' = record_without_own(p)
  /\ locked' = locked \ {p}
  /\ pc' = [pc EXCEPT ![p] = "idle"]
  /\ work' = [work EXCEPT ![p] = NoWork]
  /\ UNCHANGED <<usage, old, syncs>>

\* A lock is held by another, or reading or writing failed.
Fail(p) ==
  /\ pc[p] # "idle"
  /\ Drop(p)
  /\ UNCHANGED cache

\* The process dies: its record stays.
Crash(p) ==
  /\ pc[p] # "idle"
  /\ locked' = locked \ {p}
  /\ pc' = [pc EXCEPT ![p] = "idle"]
  /\ work' = [work EXCEPT ![p] = NoWork]
  /\ UNCHANGED <<usage, cache, record, old, syncs>>

-----------------------------------------------------------------------------
(* A sync *)

\* The timeout of a request that a call makes `after` it began; none is made when the
\* deadline has passed.
remaining_timeout(w, after) ==
  IF ~w.explicit /\ Deadline - (w.spent + after) < Timeout
  THEN Deadline - (w.spent + after) ELSE Timeout
CanRequest(w, after) == w.explicit \/ w.spent + after < Deadline

\* What a request may take that can run into its timeout several times.
Taken(w, after, times) ==
  IF CanRequest(w, after) THEN 0 .. times * remaining_timeout(w, after) ELSE {0}

\* A call is a plain request, whose timeout is for connecting, for writing and for each
\* read, and then perhaps one over HTTPS, whose timeout is for all of it.
Elapsed(w) ==
  UNION {{plain + https : https \in Taken(w, plain, 1)} : plain \in Taken(w, 0, Stalls)}
LongestCall == Stalls * Timeout + Timeout

Spend(w, elapsed) == [w EXCEPT !.spent = IF w.explicit THEN 0 ELSE @ + elapsed]
Stall(w, elapsed) == [Spend(w, elapsed) EXCEPT !.stalled = @ + elapsed]

\* A manifest of a newer release ends the sync; a corrupt one is moved aside.
load_antigravity_manifest(p) ==
  /\ pc[p] = "sync"
  /\ manifest.status # "newer"
  /\ work' = [work EXCEPT
       ![p].previous = IF manifest.status = "ok" THEN manifest.sessions ELSE {},
       ![p].left = work[p].connections]
  /\ manifest' = IF manifest.status = "corrupt" THEN NoManifest ELSE manifest
  /\ pc' = [pc EXCEPT ![p] = "list"]
  /\ UNCHANGED <<usage, artifact, locks, syncs>>

\* A connection is done with: of what it lists, the sessions of which its summary is better
\* have it as their preferred one.
merge_summary(w, c, listing, better) ==
  [w EXCEPT !.left = @ \ {c},
            !.candidates = @ \cup listing,
            !.preferred = [s \in Sessions |-> IF s \in better THEN {c} ELSE @[s]]]

\* A connection lists its sessions; one that fails lists none.
list_trajectory_summaries(p, c) ==
  LET w == work[p]
  IN  /\ pc[p] = "list"
      /\ c \in w.left
      /\ \E listing \in SUBSET Sessions, e \in Elapsed(w) : \E better \in SUBSET listing :
           /\ listing = {} \/ CanRequest(w, 0)
           /\ \A s \in listing \ better : w.preferred[s] # {}
           /\ work' = [work EXCEPT ![p] = merge_summary(Spend(w, e), c, listing, better)]
      /\ UNCHANGED <<usage, cache, locks, pc, syncs>>

\* Slip: forgets the sessions only the manifest knows.
candidates_without_manifest(listed, files, previous) == listed \cup files

merge_export_candidates(listed, files, previous) == listed \cup files \cup previous

\* The sync knows what is to be fetched.
scan_filesystem_session_candidates(p) ==
  /\ pc[p] = "list"
  /\ work[p].left = {}
  /\ \E files \in SUBSET Sessions :
       work' = [work EXCEPT ![p].candidates =
                  merge_export_candidates(@, files, work[p].previous)]
  /\ pc' = [pc EXCEPT ![p] = "fetch"]
  /\ UNCHANGED <<usage, cache, locks, syncs>>

fetch_session_artifact(p, s) ==
  /\ pc[p] = "fetch"
  /\ work[p].doing = {}
  /\ s \in work[p].candidates
  /\ work' = [work EXCEPT ![p].doing = {s}, ![p].left = work[p].connections]
  /\ UNCHANGED <<usage, cache, locks, pc, syncs>>

should_attempt(w, failed, c) == w.wasted < Budget /\ failed[c] < Threshold

\* Slip: does not charge an answer that was too large.
session_failure_for_free(w, elapsed) == w

record_session_failure(w, elapsed) == [w EXCEPT !.wasted = @ + elapsed]

\* Every way an optional call for the trajectory ends: not made, failed, too large, or
\* with timestamps.
fetch_usage_timestamps(w, c) ==
  IF ~should_attempt(w, w.failures, c)
  THEN {[ok |-> FALSE, w |-> w]}
  ELSE {[ok |-> FALSE, w |-> [Stall(w, e) EXCEPT !.wasted = @ + e, !.failures[c] = @ + 1]] :
          e \in Elapsed(w)}
       \cup IF ~CanRequest(w, 0) THEN {} ELSE
            {[ok |-> FALSE, w |-> record_session_failure(Stall(w, e), e)] : e \in Elapsed(w)}
            \cup {[ok |-> TRUE, w |-> [Spend(w, e) EXCEPT !.failures[c] = 0]] : e \in Elapsed(w)}

\* Slip: what was recorded is not looked at again.
nothing_cached(s) == {}

\* Timestamps of the cached artifact that can be told to belong to a row.
cached_usage_timestamps(s) == artifact[s].stamped \ {"anonymous"}

needs_trajectory(rows) == rows \ {"own"} # {}

Stamped(s, rows, timestamps) ==
  {r \in rows : r = "own" \/ (needs_trajectory(rows) /\ r \in timestamps)}

\* The next connection is asked: the preferred one first.
Turn(w, s, c) ==
  /\ c \in w.left
  /\ w.preferred[s] \subseteq w.left => w.preferred[s] \subseteq {c}

\* The session stays in the manifest if it was there, or if its artifact has
\* any timestamp.
Retained(p, s) ==
  s \in work[p].previous \/ artifact[s].stamped # {}

Done(w, s) == [w EXCEPT !.doing = {}, !.left = {}, !.candidates = @ \ {s}]

\* The connection answers with usage: the artifact is written.
Refresh(p, s, c) ==
  LET w == work[p]
      answered(e) == [Spend(w, e) EXCEPT !.metadata_failures[c] = 0]
  IN  /\ should_attempt(w, w.metadata_failures, c)
      /\ CanRequest(w, 0)
      /\ usage[s] # {}
      /\ \E e \in Elapsed(w) :
         \E got \in IF needs_trajectory(usage[s]) THEN fetch_usage_timestamps(answered(e), c)
                    ELSE {[ok |-> TRUE, w |-> answered(e)]} :
           /\ artifact' = [artifact EXCEPT ![s] =
                [rows |-> usage[s],
                 stamped |-> Stamped(s, usage[s], IF got.ok THEN Rows
                                                  ELSE cached_usage_timestamps(s))]]
           /\ work' = [work EXCEPT ![p] = [Done(got.w, s) EXCEPT !.next = @ \cup {s}]]

\* The connection does not know the session.
NotKnown(p, s, c) ==
  LET w == work[p]
  IN  /\ should_attempt(w, w.metadata_failures, c)
      /\ CanRequest(w, 0)
      /\ \E e \in Elapsed(w) :
           work' = [work EXCEPT ![p] =
             [Spend(w, e) EXCEPT !.metadata_failures[c] = 0, !.left = @ \ {c}]]
      /\ UNCHANGED artifact

\* The call fails, or is not made any more.
NotAnswered(p, s, c) ==
  LET w == work[p]
      skipped == [w EXCEPT !.left = @ \ {c}]
  IN  /\ work' \in
           IF ~should_attempt(w, w.metadata_failures, c) THEN {[work EXCEPT ![p] = skipped]}
           ELSE {[work EXCEPT ![p] = [Stall(skipped, e) EXCEPT !.wasted = @ + e,
                                                               !.metadata_failures[c] = @ + 1]] :
                   e \in Elapsed(w)}
      /\ UNCHANGED artifact

try_fetch_session_artifact(p, s, c) ==
  /\ pc[p] = "fetch"
  /\ work[p].doing = {s}
  /\ Turn(work[p], s, c)
  /\ Refresh(p, s, c) \/ NotKnown(p, s, c) \/ NotAnswered(p, s, c)
  /\ UNCHANGED <<usage, manifest, locks, pc, syncs>>

\* No connection gave usage.
retain_session(p, s) ==
  LET w == work[p]
  IN  /\ pc[p] = "fetch"
      /\ w.doing = {s}
      /\ w.left = {}
      /\ work' = [work EXCEPT ![p] =
           [Done(w, s) EXCEPT !.next = IF Retained(p, s) THEN @ \cup {s} ELSE @]]
      /\ UNCHANGED <<usage, cache, locks, pc, syncs>>

save_antigravity_manifest(p) ==
  /\ pc[p] = "fetch"
  /\ work[p].doing = {}
  /\ work[p].candidates = {}
  /\ manifest' = [status |-> "ok", sessions |-> work[p].next]
  /\ pc' = [pc EXCEPT ![p] = "cleanup"]
  /\ UNCHANGED <<usage, artifact, locks, work, syncs>>

\* Artifacts that the manifest named and names no more are deleted.
cleanup_stale_session_artifacts(p) ==
  /\ pc[p] = "cleanup"
  /\ \E deleted \in SUBSET (work[p].previous \ work[p].next) :
       artifact' = [s \in Sessions |-> IF s \in deleted THEN NoArtifact ELSE artifact[s]]
  /\ Drop(p)
  /\ UNCHANGED manifest

-----------------------------------------------------------------------------
(* A purge removes what is in the cache, in any order, but not the record *)

PurgeArtifact(p, s) ==
  /\ pc[p] = "purge"
  /\ artifact[s] # NoArtifact
  /\ artifact' = [artifact EXCEPT ![s] = NoArtifact]
  /\ UNCHANGED <<usage, manifest, locks, pc, work, syncs>>

PurgeManifest(p) ==
  /\ pc[p] = "purge"
  /\ manifest # NoManifest
  /\ manifest' = NoManifest
  /\ UNCHANGED <<usage, artifact, locks, pc, work, syncs>>

PurgeEnds(p) ==
  /\ pc[p] = "purge"
  /\ manifest = NoManifest
  /\ \A s \in Sessions : artifact[s] = NoArtifact
  /\ Drop(p)
  /\ UNCHANGED cache

Sync(p) ==
  \/ sync_antigravity_cache(p)
  \/ CacheOperationLockGuard(p)
  \/ publish_legacy_readable_lock(p)
  \/ load_antigravity_manifest(p)
  \/ \E c \in Connections : list_trajectory_summaries(p, c)
  \/ scan_filesystem_session_candidates(p)
  \/ \E s \in Sessions :
       \/ fetch_session_artifact(p, s)
       \/ \E c \in Connections : try_fetch_session_artifact(p, s, c)
       \/ retain_session(p, s)
  \/ save_antigravity_manifest(p)
  \/ cleanup_stale_session_artifacts(p)
  \/ Fail(p)
  \/ Crash(p)

Purge(p) ==
  \/ run_antigravity_purge_cache(p)
  \/ \E s \in Sessions : PurgeArtifact(p, s)
  \/ PurgeManifest(p)
  \/ PurgeEnds(p)

Outside ==
  \/ \E s \in Sessions, r \in Rows : Grow(s, r)
  \/ Corrupt
  \/ RemoveRecord
  \/ OldEnters
  \/ OldLeaves

Next == Outside \/ \E p \in Processes : Sync(p) \/ Purge(p)

Spec == Init /\ [][Next]_vars

-----------------------------------------------------------------------------
(* Properties *)

\* Every variable holds a value of its domain.
TypeOK ==
  /\ usage \in [Sessions -> SUBSET Rows]
  /\ artifact \in [Sessions -> Artifact]
  /\ manifest \in Manifest
  /\ record \subseteq Processes \cup {Old}
  /\ locked \subseteq Processes
  /\ old \in {"in", "out"}
  /\ pc \in [Processes -> {"idle", "sync locks", "purge locks", "sync", "list", "fetch", "cleanup", "purge"}]
  /\ work \in [Processes -> Work]
  /\ syncs \in Nat

\* At most one process changes the cache, old releases and the remains of a
\* crash included.
OneWriter ==
  /\ \A p, q \in Processes : InCache(p) /\ InCache(q) => p = q
  /\ old = "in" => \A p \in Processes : ~InCache(p)

Purging == \E p \in Processes : pc[p] = "purge"

\* Only a purge takes usage away: a sync whose servers fail, stall or forgot a
\* session, that dies half way, or that found the manifest corrupt, keeps every
\* row that was recorded, and the manifest goes on naming its sessions.
UsageSurvivesSync ==
  [][\/ Purging
     \/ /\ \A s \in Sessions : artifact[s].rows \subseteq artifact'[s].rows
        /\ manifest.status = "ok" /\ manifest'.status = "ok" =>
             manifest.sessions \subseteq manifest'.sessions]_vars

\* A timestamp once recorded is not lost when the trajectory cannot be had any
\* more, be it too large, the budget spent or the connection written off.
TimestampsSurvive ==
  [][Purging \/ \A s \in Sessions :
       artifact[s].stamped \ {"anonymous"} \subseteq artifact'[s].stamped]_vars

\* However many sessions and connections are sick, the locks are held for a bounded time.
\* A call is made only while the budget is not spent and the deadline has not passed, so
\* either can be passed by less than one call: the failing calls after the listing
\* take less than the budget and one call together, and a sync before a submit passes its
\* deadline only where its last plain request waits more than once.
LockIsHeldBriefly ==
  \A p \in Processes :
    /\ work[p].stalled < Budget + LongestCall
    /\ ~work[p].explicit => work[p].spent <= Deadline + (Stalls - 1) * Timeout
=============================================================================
