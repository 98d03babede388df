------------------------------ MODULE ClaudeCache ------------------------------
(***************************************************************************)
(* How scans of Claude Code transcripts share the message cache: the       *)
(* history-retaining loader and the Claude lane of tokens-core/src/lib.rs  *)
(* over SourceMessageCache of tokens-core/src/message_cache.rs.            *)
(*                                                                         *)
(* Claude Code rewrites transcripts in place, so the cache may hold the    *)
(* only copy of a response.  Several tokens processes scan at once: each   *)
(* lists the transcripts, reads the cache under a shared lock, looks at    *)
(* the transcripts in parallel, merges what they hold, and saves shard by  *)
(* shard under an exclusive lock; it may die at any point.                 *)
(*                                                                         *)
(* A transcript is the output tokens seen so far per dedup key, and a      *)
(* version that stands for its size, mtime and samples.  Every transcript  *)
(* is alone in its shard.  A row is stale when its attribution is of a     *)
(* parse that the live transcript no longer supports.                      *)
(***************************************************************************)
EXTENDS Naturals, FiniteSets, FiniteSetsExt

CONSTANTS
  NumFiles,   \* transcripts; their numbers are the order of their paths
  Stable,     \* dedup keys messageId:requestId, the same in every transcript
  PathScoped, \* dedup keys of tool results, which embed the transcript's name
  Processes,  \* tokens processes
  MaxTokens,  \* bound: tokens of one response
  MaxWrites   \* bound: writes to transcripts

ASSUME KeysAreDisjoint == Stable \cap PathScoped = {}
ASSUME BoundsArePositive == {NumFiles, MaxTokens, MaxWrites} \subseteq Nat \ {0}

Files == 1 .. NumFiles
Keys  == Stable \cup PathScoped

VARIABLES
  live,    \* tokens per key in each transcript, 0 when it has no such row
  version, \* of each transcript, 0 while there is none
  issued,  \* the responses and tool results there have ever been
  named,   \* the transcripts there have ever been
  clock,   \* the last version given
  disk,    \* the cache entry of each transcript
  lock,    \* who holds the cache lock exclusively
  pc,      \* where each process is
  mem,     \* CacheState.entries of each process
  dirty,   \* CacheState.dirty_keys
  deleted, \* CacheState.deleted_keys, reason Missing
  job,     \* each process's work on each transcript
  result,  \* what the last scan of each process counts
  known    \* what a scan found in the cache for the transcripts it reads

world == <<live, version, issued, named, clock>>
store == <<disk, lock>>
own   == <<pc, mem, dirty, deleted, job, result, known>>
vars  == <<live, version, issued, named, clock, disk, lock,
           pc, mem, dirty, deleted, job, result, known>>

Rows   == [Keys -> 0 .. MaxTokens]
NoRows == [k \in Keys |-> 0]
KeysOf(rows) == {k \in Keys : rows[k] > 0}
Larger(a, b) == [k \in Keys |-> IF a[k] >= b[k] THEN a[k] ELSE b[k]]

\* retained: the rows the transcript no longer had at fp; marked: the entry
\* can tell (CLAUDE_RETENTION_PROVENANCE_MARKER); synthetic: its rows of the
\* placeholder model.  Keys are not known for these.
Entry == [fp: 0 .. MaxWrites, rows: Rows, retained: SUBSET Keys,
          stale: SUBSET Keys, marked: BOOLEAN, synthetic: SUBSET {"<synthetic>"}]
NoEntry == [fp |-> 0, rows |-> NoRows, retained |-> {}, stale |-> {},
            marked |-> FALSE, synthetic |-> {}]

Job == [at: {"none", "todo", "parse", "done"}, fp: 0 .. MaxWrites,
        cached: Entry, out: Entry, entry: Entry]
NoJob == [at |-> "none", fp |-> 0, cached |-> NoEntry, out |-> NoEntry,
          entry |-> NoEntry]

Result   == [rows: Rows, stale: SUBSET Keys]
NoResult == [rows |-> NoRows, stale |-> {}]

Exists(f) == version[f] # 0

\* An entry of a release before the provenance marker, or of an older format,
\* whose migration drops the marker: its attributions may be out of date, its
\* rows are those of a transcript since rewritten or still the same.
Legacy(f, rows, synthetic) ==
  [fp |-> version[f], rows |-> rows, retained |-> {}, stale |-> KeysOf(rows),
   marked |-> FALSE, synthetic |-> synthetic]

Init ==
  /\ version = [f \in Files |-> IF f = 1 THEN 1 ELSE 0]
  /\ clock = 1
  /\ named = {1}
  /\ live \in {[f \in Files |-> IF f = 1 THEN rows ELSE NoRows] :
                 rows \in [Keys -> {0, MaxTokens}]}
  /\ \E known1 \in SUBSET Keys, synthetic \in SUBSET {"<synthetic>"} :
       /\ KeysOf(live[1]) \subseteq known1
       /\ issued = known1
       /\ disk = [f \in Files |->
            IF f = 1 /\ known1 # {}
            THEN Legacy(1, [k \in Keys |-> IF k \in known1 THEN MaxTokens ELSE 0],
                        synthetic)
            ELSE NoEntry]
  /\ lock = {}
  /\ pc = [p \in Processes |-> "idle"]
  /\ mem = [p \in Processes |-> [f \in Files |-> NoEntry]]
  /\ dirty = [p \in Processes |-> {}]
  /\ deleted = [p \in Processes |-> {}]
  /\ job = [p \in Processes |-> [f \in Files |-> NoJob]]
  /\ result = [p \in Processes |-> NoResult]
  /\ known = [p \in Processes |-> [f \in Files |-> NoRows]]

-----------------------------------------------------------------------------
(* Claude Code *)

Write(f, rows) ==
  /\ clock < MaxWrites
  /\ clock' = clock + 1
  /\ version' = [version EXCEPT ![f] = clock + 1]
  /\ live' = [live EXCEPT ![f] = rows]
  /\ named' = named \cup {f}
  /\ UNCHANGED <<store, own>>

\* A new response or tool result, complete or still streaming.
Respond(f, k) ==
  /\ k \notin issued
  /\ issued' = issued \cup {k}
  /\ \E n \in {1, MaxTokens} : Write(f, [live[f] EXCEPT ![k] = n])

\* The response grows: the same key again with larger counts.
Stream(f, k) ==
  /\ live[f][k] \in 1 .. MaxTokens - 1
  /\ Write(f, [live[f] EXCEPT ![k] = @ + 1])
  /\ UNCHANGED issued

\* Resume or compaction rewrites the transcript with fewer rows.
Compact(f) ==
  /\ \E kept \in SUBSET KeysOf(live[f]) :
       /\ kept # KeysOf(live[f])
       /\ Write(f, [k \in Keys |-> IF k \in kept THEN live[f][k] ELSE 0])
  /\ UNCHANGED issued

\* A fork replays the responses under their keys, in a transcript named after
\* a session of its own; its tool results have keys of their own and are left
\* out.
Fork(f, g) ==
  /\ Exists(f) /\ g \notin named
  /\ Write(g, [k \in Keys |-> IF k \in Stable THEN live[f][k] ELSE 0])
  /\ UNCHANGED issued

\* The user deletes the transcript, and with it the claim to its history.
Delete(f) ==
  /\ Exists(f)
  /\ version' = [version EXCEPT ![f] = 0]
  /\ live' = [live EXCEPT ![f] = NoRows]
  /\ known' = [p \in Processes |-> [known[p] EXCEPT ![f] = NoRows]]
  /\ UNCHANGED <<issued, named, clock, store, pc, mem, dirty, deleted, job, result>>

-----------------------------------------------------------------------------
(* CachedSourceEntry *)

\* Slip: serves entries of earlier releases as they are.
NeverMigrates(e) == FALSE

needs_retention_provenance_migration(e) == ~e.marked

\* An entry without provenance has to be assumed to hold retained rows.
holds_retained_history(e) ==
  needs_retention_provenance_migration(e) \/ e.retained # {}

\* What take leaves behind: no messages, and no marker either.
Husk(e) == [NoEntry EXCEPT !.fp = e.fp]

\* Slip: writes the process's own entry over what is stored.
ReplaceStored(e, stored) == e

\* Slip: forgets to say that the rows of the stored entry are not live.
AbsorbAsLive(e, stored) ==
  [e EXCEPT !.rows = [k \in Keys |->
       IF k \in Stable /\ stored.rows[k] > e.rows[k] THEN stored.rows[k]
       ELSE e.rows[k]]]

\* Stable rows only the stored entry has are history relative to this entry's
\* fingerprint; where both have one, counts are joined and this entry's
\* attribution stays.
absorb_retained_history(e, stored) ==
  LET carried == (KeysOf(stored.rows) \cap Stable) \ KeysOf(e.rows)
  IN  [e EXCEPT
        !.rows = [k \in Keys |->
           IF k \in Stable /\ stored.rows[k] > e.rows[k] THEN stored.rows[k]
           ELSE e.rows[k]],
        !.retained = @ \cup carried,
        !.stale = @ \cup (stored.stale \cap carried),
        !.synthetic = @ \cup stored.synthetic]

remove_claude_synthetic_placeholders(e) == [e EXCEPT !.synthetic = {}]

-----------------------------------------------------------------------------
(* A scan *)

StartScan(p) ==
  /\ pc[p] = "idle"
  /\ pc' = [pc EXCEPT ![p] = "load"]
  /\ job' = [job EXCEPT ![p] = [f \in Files |->
       IF Exists(f) THEN [NoJob EXCEPT !.at = "todo"] ELSE NoJob]]
  /\ result' = [result EXCEPT ![p] = NoResult]
  /\ UNCHANGED <<world, store, mem, dirty, deleted, known>>

\* The first lookup reads the whole namespace under the shared lock.  Entries
\* of transcripts that are gone are marked for deletion; placeholder rows are
\* dropped, which makes the entry dirty.
ensure_namespace_loaded(p) ==
  LET stored == {f \in Files : disk[f] # NoEntry}
  IN  /\ pc[p] = "load"
      /\ lock = {}
      /\ mem' = [mem EXCEPT ![p] = [f \in Files |->
           IF f \in stored /\ Exists(f)
           THEN remove_claude_synthetic_placeholders(disk[f]) ELSE NoEntry]]
      /\ dirty' = [dirty EXCEPT ![p] =
           {f \in stored : Exists(f) /\ disk[f].synthetic # {}}]
      /\ deleted' = [deleted EXCEPT ![p] = {f \in stored : ~Exists(f)}]
      /\ known' = [known EXCEPT ![p] = [f \in Files |->
           IF Exists(f) /\ job[p][f].at = "todo" THEN disk[f].rows ELSE NoRows]]
      /\ pc' = [pc EXCEPT ![p] = "scan"]
      /\ UNCHANGED <<world, store, job, result>>

\* The directory or the lock is not usable: the scan goes on without a cache.
LoadFails(p) ==
  /\ pc[p] = "load"
  /\ pc' = [pc EXCEPT ![p] = "scan"]
  /\ UNCHANGED <<world, store, mem, dirty, deleted, job, result, known>>

Outcome(rows, retained, stale) ==
  [NoEntry EXCEPT !.rows = rows, !.retained = retained, !.stale = stale]

Warm(e, f) ==
  e.rows # NoRows /\ ~needs_retention_provenance_migration(e) /\ e.fp = version[f]

\* Dirty entries and entries with history keep their messages.
KeepsPayload(p, f) == f \in dirty[p] \/ holds_retained_history(mem[p][f])

\* take, then the fingerprint check: a warm hit, or a parse to come under the
\* fingerprint of now.  A transcript that cannot be read yields nothing.
check_fingerprint(p, f) ==
  LET e == mem[p][f]
  IN  /\ pc[p] = "scan"
      /\ job[p][f].at = "todo"
      /\ mem' = IF e = NoEntry \/ KeepsPayload(p, f) THEN mem
                ELSE [mem EXCEPT ![p][f] = Husk(e)]
      /\ job' = [job EXCEPT ![p][f] =
           IF ~Exists(f) THEN [@ EXCEPT !.at = "done"]
           ELSE IF Warm(e, f)
           THEN [@ EXCEPT !.at = "done", !.fp = e.fp,
                          !.out = Outcome(e.rows, e.retained, e.stale)]
           ELSE [@ EXCEPT !.at = "parse", !.fp = version[f], !.cached = e]]
      /\ UNCHANGED <<world, store, pc, dirty, deleted, result, known>>

\* Slip: recomputes the history from the live bytes alone.
RetainNothing(cached, parsed) == {}

\* The stable keys of the cached entry that the transcript lacks.
retain_observed_messages(cached, parsed) ==
  (KeysOf(cached.rows) \cap Stable) \ KeysOf(parsed)

\* Reads the transcript as it is by now, and builds the entry to store.
parse_source(p, f) ==
  LET j        == job[p][f]
      parsed   == live[f]
      retained == retain_observed_messages(j.cached, parsed)
      rows     == [k \in Keys |->
                     IF k \in retained THEN j.cached.rows[k] ELSE parsed[k]]
      out      == Outcome(rows, retained, j.cached.stale \cap retained)
  IN  /\ pc[p] = "scan"
      /\ j.at = "parse"
      /\ job' = [job EXCEPT ![p][f] =
           [j EXCEPT !.at = "done", !.out = out, !.cached = NoEntry,
              !.entry = IF rows = NoRows THEN NoEntry
                        ELSE [out EXCEPT !.fp = j.fp, !.marked = TRUE]]]
      /\ UNCHANGED <<world, store, pc, mem, dirty, deleted, result, known>>

-----------------------------------------------------------------------------
(* The end of the lane, and the save *)

LiveIn(p, k)     == {f \in Files : k \in KeysOf(job[p][f].out.rows) \ job[p][f].out.retained}
RetainedIn(p, k) == {f \in Files : k \in job[p][f].out.retained}

\* Whose attribution counts: the first live copy's, or the first copy's.
Authority(p, k) ==
  IF LiveIn(p, k) # {} THEN Min(LiveIn(p, k)) ELSE Min(RetainedIn(p, k))

\* merge_claude_cross_file_duplicate over all outcomes, in the order of paths.
Merged(p) ==
  LET seen == UNION {KeysOf(job[p][f].out.rows) : f \in Files}
  IN  [rows  |-> [k \in Keys |-> Max({job[p][f].out.rows[k] : f \in Files} \cup {0})],
       stale |-> {k \in seen : k \in job[p][Authority(p, k)].out.stale}]

collect_outcomes(p) ==
  LET new == {f \in Files : job[p][f].entry # NoEntry}
  IN  /\ pc[p] = "scan"
      /\ \A f \in Files : job[p][f].at \in {"none", "done"}
      /\ result' = [result EXCEPT ![p] = Merged(p)]
      /\ mem' = [mem EXCEPT ![p] =
           [f \in Files |-> IF f \in new THEN job[p][f].entry ELSE @[f]]]
      /\ dirty' = [dirty EXCEPT ![p] = @ \cup new]
      /\ deleted' = [deleted EXCEPT ![p] = @ \ new]
      /\ job' = [job EXCEPT ![p] = [f \in Files |-> [NoJob EXCEPT !.fp = job[p][f].fp]]]
      /\ pc' = [pc EXCEPT ![p] = "merged"]
      /\ UNCHANGED <<world, store, known>>

\* Slip: saves under the lock that readers share.
lock_shared(p) ==
  /\ pc[p] = "merged"
  /\ dirty[p] \cup deleted[p] # {}
  /\ lock' = {p}
  /\ pc' = [pc EXCEPT ![p] = "save"]
  /\ UNCHANGED <<world, disk, mem, dirty, deleted, job, result, known>>

lock_exclusive(p) ==
  /\ pc[p] = "merged"
  /\ dirty[p] \cup deleted[p] # {}
  /\ lock = {}
  /\ lock' = {p}
  /\ pc' = [pc EXCEPT ![p] = "save"]
  /\ UNCHANGED <<world, disk, mem, dirty, deleted, job, result, known>>

\* One shard: read again, apply deletions, overlay what is dirty, replace the
\* file by rename.  Whether a transcript is missing is asked again here.
save_shard(p, f) ==
  LET stored == IF f \in deleted[p] /\ ~Exists(f) THEN NoEntry ELSE disk[f]
  IN  /\ pc[p] = "save"
      /\ f \in dirty[p] \cup deleted[p]
      /\ disk' = [disk EXCEPT ![f] =
           IF f \in dirty[p]
           THEN remove_claude_synthetic_placeholders(
                  absorb_retained_history(mem[p][f], stored))
           ELSE stored]
      /\ dirty' = [dirty EXCEPT ![p] = @ \ {f}]
      /\ deleted' = [deleted EXCEPT ![p] = @ \ {f}]
      /\ UNCHANGED <<world, lock, pc, mem, job, result, known>>

\* The command ends: everything is saved, saving failed for what is left, the
\* lock could not be had, or the process died.  The lock goes with it.
End(p) ==
  /\ pc[p] # "idle"
  /\ pc' = [pc EXCEPT ![p] = "idle"]
  /\ lock' = lock \ {p}
  /\ mem' = [mem EXCEPT ![p] = [f \in Files |-> NoEntry]]
  /\ dirty' = [dirty EXCEPT ![p] = {}]
  /\ deleted' = [deleted EXCEPT ![p] = {}]
  /\ job' = [job EXCEPT ![p] = [f \in Files |-> NoJob]]
  /\ known' = [known EXCEPT ![p] = [f \in Files |-> NoRows]]
  /\ result' = [result EXCEPT ![p] = NoResult]
  /\ UNCHANGED <<world, disk>>

ClaudeCode ==
  \/ \E f \in Files :
       \/ \E k \in Keys : Respond(f, k) \/ Stream(f, k)
       \/ Compact(f)
       \/ Delete(f)
  \/ \E f, g \in Files : Fork(f, g)

Tokens(p) ==
  \/ StartScan(p)
  \/ ensure_namespace_loaded(p)
  \/ LoadFails(p)
  \/ \E f \in Files : check_fingerprint(p, f) \/ parse_source(p, f) \/ save_shard(p, f)
  \/ collect_outcomes(p)
  \/ lock_exclusive(p)
  \/ End(p)

Next == ClaudeCode \/ \E p \in Processes : Tokens(p)

Spec == Init /\ [][Next]_vars

-----------------------------------------------------------------------------
(* Properties *)

WorldOK ==
  /\ live \in [Files -> Rows]
  /\ version \in [Files -> 0 .. MaxWrites]
  /\ issued \subseteq Keys
  /\ named \subseteq Files
  /\ clock \in 0 .. MaxWrites

StoreOK ==
  /\ disk \in [Files -> Entry]
  /\ mem \in [Processes -> [Files -> Entry]]
  /\ job \in [Processes -> [Files -> Job]]
  /\ dirty \in [Processes -> SUBSET Files]
  /\ deleted \in [Processes -> SUBSET Files]

LockOK ==
  /\ pc \in [Processes -> {"idle", "load", "scan", "merged", "save"}]
  /\ lock = {p \in Processes : pc[p] = "save"}
  /\ \A p, q \in lock : p = q

\* Every variable holds a value of its domain, and exactly the one process
\* that saves holds the cache lock.
TypeOK ==
  /\ WorldOK
  /\ StoreOK
  /\ LockOK
  /\ result \in [Processes -> Result]
  /\ known \in [Processes -> [Files -> Rows]]

\* A response once stored stays stored, with no fewer tokens, while its
\* transcript exists: no save of a process that never saw it, no compaction,
\* no crash and no scan that found the transcript missing for a moment takes
\* it away (message_cache.rs: "the cache is the only copy").
HistoryOutlivesRewrites ==
  [][\A f \in Files, k \in Stable :
       Exists(f) => disk'[f].rows[k] >= disk[f].rows[k]]_vars

SaysWhatIsLive(e, f) ==
  /\ KeysOf(e.rows) \ e.retained = KeysOf(live[f])
  /\ e.retained \subseteq Stable
  /\ \A k \in Keys : e.rows[k] >= live[f][k]

\* An entry that the next scan would serve without reading the transcript
\* says exactly what the transcript says: its rows that are not retained are
\* the transcript's, whoever saved last and whatever was written in between.
WarmEntriesAreTrue ==
  \A f \in Files : Exists(f) /\ Warm(disk[f], f) => SaysWhatIsLive(disk[f], f)

Merges(p) == pc[p] \in {"merged", "save"}

\* A scan counts all of what the cache knew of a transcript it reads, and all
\* the transcript says if it has not been written since.
ScanForgetsNothing ==
  \A p \in Processes : Merges(p) =>
    \A f \in Files :
      /\ \A k \in Stable : result[p].rows[k] >= known[p][f][k]
      /\ Exists(f) /\ job[p][f].fp = version[f] =>
           \A k \in Keys : result[p].rows[k] >= live[f][k]

\* An attribution out of date is never reported for a response that some
\* transcript still holds: a retained copy does not pass for a live one.
LiveAttributionWins ==
  \A p \in Processes : Merges(p) =>
    \A f \in Files, k \in result[p].stale :
      Exists(f) /\ job[p][f].fp = version[f] => live[f][k] = 0
=============================================================================
