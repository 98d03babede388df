--------------------------- MODULE ClaudeCacheProofs ---------------------------
(***************************************************************************)
(* The message cache for every number of transcripts, responses and        *)
(* processes: what is stored is not lost, and what would be served without *)
(* reading the transcript is what the transcript says.                     *)
(***************************************************************************)
EXTENDS ClaudeCache, WellFoundedInduction, TLAPS

LEMMA BoundNats ==
  /\ NumFiles \in Nat \ {0}
  /\ MaxTokens \in Nat \ {0}
  /\ MaxWrites \in Nat \ {0}
  BY BoundsArePositive

LEMMA EmptyValues == NoRows \in Rows /\ NoEntry \in Entry /\ NoJob \in Job
<1>1. NoRows \in Rows
  BY BoundNats DEF NoRows, Rows
<1>2. NoEntry \in Entry
  BY <1>1, BoundNats DEF NoEntry, Entry
<1>3. NoJob \in Job
  BY <1>2, BoundNats DEF NoJob, Job
<1> QED BY <1>1, <1>2, <1>3

\* What take leaves, and what is left of an entry without its placeholders.
LEMMA TakenIsEntry ==
  ASSUME NEW e \in Entry
  PROVE  Husk(e) \in Entry /\ remove_claude_synthetic_placeholders(e) \in Entry
<1>1. Husk(e) \in Entry
  BY EmptyValues DEF Husk, Entry
<1>2. remove_claude_synthetic_placeholders(e) \in Entry
  BY DEF remove_claude_synthetic_placeholders, Entry
<1> QED BY <1>1, <1>2

LEMMA AbsorbedIsEntry ==
  ASSUME NEW e \in Entry, NEW s \in Entry
  PROVE  absorb_retained_history(e, s) \in Entry
<1>1. [k \in Keys |-> IF k \in Stable /\ s.rows[k] > e.rows[k] THEN s.rows[k]
                      ELSE e.rows[k]] \in Rows
  BY DEF Entry, Rows, Keys
<1> QED BY <1>1 DEF absorb_retained_history, Entry, KeysOf, Keys

\* No row is lost in absorbing, and no count shrinks.
LEMMA AbsorbKeeps ==
  ASSUME NEW e \in Entry, NEW s \in Entry, NEW k \in Stable
  PROVE  LET a == remove_claude_synthetic_placeholders(absorb_retained_history(e, s))
         IN  a.rows[k] >= s.rows[k]
  BY BoundNats DEF Rows, Entry, remove_claude_synthetic_placeholders,
     absorb_retained_history, Keys

\* Entry e is of no version after c; and if it is of version v, which holds
\* rows, and can tell its history, it says what these are.
TrueOf(c, v, rows, e) ==
  /\ e.fp <= c
  /\ v # 0 /\ e.marked /\ e.fp = v =>
       /\ KeysOf(e.rows) \ e.retained = KeysOf(rows)
       /\ e.retained \subseteq Stable
       /\ \A k \in Keys : e.rows[k] >= rows[k]

\* Entry e is true of transcript f.
TrueEntry(e, f) == TrueOf(clock, version[f], live[f], e)

\* What the processes hold matters as much as what is stored: either may be
\* saved over the other.
EntriesAreTrue ==
  /\ \A f \in Files : version[f] <= clock /\ TrueEntry(disk[f], f)
  /\ \A p \in Processes, f \in Files :
       /\ TrueEntry(mem[p][f], f)
       /\ TrueEntry(job[p][f].entry, f)
       /\ job[p][f].fp <= clock

CacheInv == WorldOK /\ StoreOK /\ EntriesAreTrue

\* An entry without provenance claims nothing, and so is true.
LEMMA UnmarkedIsTrue ==
  ASSUME NEW c \in Nat, NEW v, NEW rows, NEW e, e.fp <= c, ~e.marked
  PROVE  TrueOf(c, v, rows, e)
  BY DEF TrueOf

\* Absorbing what is stored leaves an entry true: what it adds is retained.
LEMMA AbsorbedIsTrue ==
  ASSUME NEW c \in Nat, NEW v \in Nat, NEW rows \in Rows, NEW e \in Entry, NEW s \in Entry,
         TrueOf(c, v, rows, e)
  PROVE  TrueOf(c, v, rows,
                remove_claude_synthetic_placeholders(absorb_retained_history(e, s)))
<1> DEFINE a == remove_claude_synthetic_placeholders(absorb_retained_history(e, s))
<1>1. /\ a.fp = e.fp
      /\ a.marked = e.marked
      /\ a.retained = e.retained \cup ((KeysOf(s.rows) \cap Stable) \ KeysOf(e.rows))
      /\ \A k \in Keys : a.rows[k] = IF k \in Stable /\ s.rows[k] > e.rows[k]
                                     THEN s.rows[k] ELSE e.rows[k]
  BY DEF remove_claude_synthetic_placeholders, absorb_retained_history, Entry
<1>2. \A k \in Keys : e.rows[k] \in Nat /\ s.rows[k] \in Nat /\ rows[k] \in Nat
  BY BoundNats DEF Entry, Rows
<1>3. KeysOf(a.rows) \ a.retained = KeysOf(e.rows) \ e.retained
  BY <1>1, <1>2 DEF KeysOf
<1>4. TrueOf(c, v, rows, a)
  <2> HIDE DEF a
  <2> QED BY <1>1, <1>2, <1>3 DEF TrueOf
<1> QED BY <1>4

\* A write gives its transcript a version that no entry has.
LEMMA WriteKeepsTruth ==
  ASSUME CacheInv, NEW f \in Files, NEW rows \in Rows, Write(f, rows), issued' \subseteq Keys
  PROVE  CacheInv'
<1>1. /\ clock' = clock + 1
      /\ clock' \in 0 .. MaxWrites
      /\ version' = [version EXCEPT ![f] = clock + 1]
      /\ live' = [live EXCEPT ![f] = rows]
      /\ named' = named \cup {f}
      /\ UNCHANGED <<disk, mem, job, dirty, deleted>>
  BY BoundNats DEF Write, store, own, CacheInv, WorldOK
<1>2. WorldOK'
  BY <1>1, BoundNats DEF CacheInv, WorldOK
<1>3. StoreOK'
  BY <1>1 DEF CacheInv, StoreOK
<1>4. ASSUME NEW g \in Files, NEW e \in Entry, TrueOf(clock, version[g], live[g], e)
      PROVE  TrueOf(clock', version'[g], live'[g], e)
  <2>1. e.fp \in Nat /\ clock \in Nat
    BY BoundNats DEF Entry, CacheInv, WorldOK
  <2>2. CASE g = f
    BY <1>1, <1>4, <2>1, <2>2 DEF TrueOf, CacheInv, WorldOK
  <2>3. CASE g # f
    BY <1>1, <1>4, <2>1, <2>3 DEF TrueOf, CacheInv, WorldOK
  <2> QED BY <2>2, <2>3
<1>5. \A p \in Processes, g \in Files :
        disk[g] \in Entry /\ mem[p][g] \in Entry /\ job[p][g].entry \in Entry
        /\ job[p][g].fp \in Nat
  BY BoundNats DEF CacheInv, StoreOK, Job
<1>6. \A g \in Files : version'[g] <= clock'
  BY <1>1, BoundNats DEF CacheInv, WorldOK, EntriesAreTrue
<1>7. \A p \in Processes, g \in Files : job'[p][g].fp <= clock'
  BY <1>1, <1>5, BoundNats DEF CacheInv, WorldOK, EntriesAreTrue
<1>8. \A g \in Files : TrueEntry(disk[g], g)'
  BY <1>1, <1>4, <1>5 DEF TrueEntry, CacheInv, EntriesAreTrue, StoreOK
<1>9. \A p \in Processes, g \in Files :
        TrueEntry(mem[p][g], g)' /\ TrueEntry(job[p][g].entry, g)'
  BY <1>1, <1>4, <1>5 DEF TrueEntry, CacheInv, EntriesAreTrue
<1> QED BY <1>2, <1>3, <1>6, <1>7, <1>8, <1>9 DEF CacheInv, EntriesAreTrue

\* The actions of Claude Code.
LEMMA WorldStep ==
  ASSUME CacheInv, ClaudeCode
  PROVE  CacheInv'
<1>1. \A f \in Files : live[f] \in Rows
  BY DEF CacheInv, WorldOK
<1>2. ASSUME NEW f \in Files, NEW k \in Keys, Respond(f, k)
      PROVE  CacheInv'
  <2>1. PICK n \in {1, MaxTokens} : Write(f, [live[f] EXCEPT ![k] = n])
    BY <1>2 DEF Respond
  <2>2. [live[f] EXCEPT ![k] = n] \in Rows
    BY <1>1, BoundNats DEF Rows
  <2>3. issued' \subseteq Keys
    BY <1>2 DEF Respond, CacheInv, WorldOK
  <2> QED BY <2>1, <2>2, <2>3, WriteKeepsTruth
<1>3. ASSUME NEW f \in Files, NEW k \in Keys, Stream(f, k)
      PROVE  CacheInv'
  <2>1. Write(f, [live[f] EXCEPT ![k] = @ + 1]) /\ issued' \subseteq Keys
    BY <1>3 DEF Stream, CacheInv, WorldOK
  <2>2. [live[f] EXCEPT ![k] = @ + 1] \in Rows
    BY <1>1, <1>3, BoundNats DEF Rows, Stream
  <2> QED BY <2>1, <2>2, WriteKeepsTruth
<1>4. ASSUME NEW f \in Files, Compact(f)
      PROVE  CacheInv'
  <2>1. PICK kept \in SUBSET KeysOf(live[f]) :
          Write(f, [k \in Keys |-> IF k \in kept THEN live[f][k] ELSE 0])
    BY <1>4 DEF Compact
  <2>2. [k \in Keys |-> IF k \in kept THEN live[f][k] ELSE 0] \in Rows
    BY <1>1, BoundNats DEF Rows
  <2>3. issued' \subseteq Keys
    BY <1>4 DEF Compact, CacheInv, WorldOK
  <2> QED BY <2>1, <2>2, <2>3, WriteKeepsTruth
<1>5. ASSUME NEW f \in Files, NEW g \in Files, Fork(f, g)
      PROVE  CacheInv'
  <2>1. [k \in Keys |-> IF k \in Stable THEN live[f][k] ELSE 0] \in Rows
    BY <1>1, BoundNats DEF Rows
  <2>2. Write(g, [k \in Keys |-> IF k \in Stable THEN live[f][k] ELSE 0])
        /\ issued' \subseteq Keys
    BY <1>5 DEF Fork, CacheInv, WorldOK
  <2> QED BY <2>1, <2>2, WriteKeepsTruth
<1>6. ASSUME NEW f \in Files, Delete(f)
      PROVE  CacheInv'
  <2>1. /\ version' = [version EXCEPT ![f] = 0]
        /\ live' = [live EXCEPT ![f] = NoRows]
        /\ UNCHANGED <<issued, named, clock, disk, mem, dirty, deleted, job>>
    BY <1>6 DEF Delete, store
  <2>2. WorldOK'
    BY <2>1, EmptyValues, BoundNats DEF CacheInv, WorldOK
  <2>3. StoreOK'
    BY <2>1 DEF CacheInv, StoreOK
  <2>4. ASSUME NEW g \in Files, NEW e, TrueOf(clock, version[g], live[g], e)
        PROVE  TrueOf(clock', version'[g], live'[g], e)
    BY <2>1, <2>4 DEF TrueOf, CacheInv, WorldOK
  <2>5. \A g \in Files : version'[g] <= clock' /\ TrueEntry(disk[g], g)'
    BY <2>1, <2>4, BoundNats DEF TrueEntry, CacheInv, EntriesAreTrue, WorldOK
  <2>6. \A p \in Processes, g \in Files :
          TrueEntry(mem[p][g], g)' /\ TrueEntry(job[p][g].entry, g)' /\ job'[p][g].fp <= clock'
    BY <2>1, <2>4 DEF TrueEntry, CacheInv, EntriesAreTrue
  <2> QED BY <2>2, <2>3, <2>5, <2>6 DEF CacheInv, EntriesAreTrue
<1> QED BY <1>2, <1>3, <1>4, <1>5, <1>6 DEF ClaudeCode

\* What a process starts and ends with claims nothing.
LEMMA EmptyIsTrue ==
  ASSUME CacheInv, NEW f \in Files
  PROVE  TrueEntry(NoEntry, f) /\ TrueEntry(NoJob.entry, f) /\ NoJob.fp <= clock
<1>1. clock \in Nat
  BY BoundNats DEF CacheInv, WorldOK
<1> QED BY <1>1, UnmarkedIsTrue DEF TrueEntry, NoEntry, NoJob

\* Steps that change neither the world nor the stored entries: true entries
\* stay true, so it is enough that what the process holds is true.
LEMMA OwnStep ==
  ASSUME CacheInv, UNCHANGED world, UNCHANGED disk, StoreOK',
         \A p \in Processes, f \in Files :
           TrueEntry(mem'[p][f], f) /\ TrueEntry(job'[p][f].entry, f) /\ job'[p][f].fp <= clock
  PROVE  CacheInv'
<1>1. WorldOK'
  BY DEF CacheInv, WorldOK, world
<1>2. EntriesAreTrue'
  BY DEF CacheInv, EntriesAreTrue, TrueEntry, world
<1> QED BY <1>1, <1>2 DEF CacheInv

LEMMA StartScanStep ==
  ASSUME CacheInv, NEW p \in Processes, StartScan(p)
  PROVE  CacheInv'
<1>1. /\ UNCHANGED <<world, disk, mem, dirty, deleted>>
      /\ job' = [job EXCEPT ![p] = [f \in Files |->
           IF Exists(f) THEN [NoJob EXCEPT !.at = "todo"] ELSE NoJob]]
  BY DEF StartScan, store
<1>2. [f \in Files |-> IF Exists(f) THEN [NoJob EXCEPT !.at = "todo"] ELSE NoJob]
        \in [Files -> Job]
  BY EmptyValues DEF Job
<1>3. StoreOK'
  BY <1>1, <1>2 DEF CacheInv, StoreOK
<1>4. \A q \in Processes, f \in Files :
        TrueEntry(job'[q][f].entry, f) /\ job'[q][f].fp <= clock
  BY <1>1, EmptyIsTrue DEF CacheInv, StoreOK, EntriesAreTrue, NoJob
<1> QED BY <1>1, <1>3, <1>4, OwnStep DEF CacheInv, EntriesAreTrue

LEMMA LoadStep ==
  ASSUME CacheInv, NEW p \in Processes, ensure_namespace_loaded(p)
  PROVE  CacheInv'
<1> DEFINE stored == {f \in Files : disk[f] # NoEntry}
           loaded == [f \in Files |->
             IF f \in stored /\ Exists(f)
             THEN remove_claude_synthetic_placeholders(disk[f]) ELSE NoEntry]
<1>1. /\ UNCHANGED <<world, disk, job>>
      /\ mem' = [mem EXCEPT ![p] = loaded]
      /\ dirty' = [dirty EXCEPT ![p] = {f \in stored : Exists(f) /\ disk[f].synthetic # {}}]
      /\ deleted' = [deleted EXCEPT ![p] = {f \in stored : ~Exists(f)}]
  BY DEF ensure_namespace_loaded, store
<1>2. loaded \in [Files -> Entry]
  BY EmptyValues, TakenIsEntry DEF CacheInv, StoreOK
<1>3. StoreOK'
  <2> HIDE DEF loaded
  <2> QED BY <1>1, <1>2 DEF CacheInv, StoreOK
<1>4. ASSUME NEW f \in Files
      PROVE  TrueEntry(loaded[f], f)
  <2>1. disk[f] \in Entry /\ TrueEntry(disk[f], f)
    BY DEF CacheInv, StoreOK, EntriesAreTrue
  <2>2. TrueEntry(remove_claude_synthetic_placeholders(disk[f]), f)
    BY <2>1 DEF TrueEntry, TrueOf, remove_claude_synthetic_placeholders, Entry
  <2> QED BY <2>2, EmptyIsTrue
<1>5. \A q \in Processes, f \in Files : TrueEntry(mem'[q][f], f)
  <2> HIDE DEF loaded
  <2> QED BY <1>1, <1>4 DEF CacheInv, StoreOK, EntriesAreTrue
<1> QED BY <1>1, <1>3, <1>5, OwnStep DEF CacheInv, EntriesAreTrue

LEMMA CheckStep ==
  ASSUME CacheInv, NEW p \in Processes, NEW f \in Files, check_fingerprint(p, f)
  PROVE  CacheInv'
<1> DEFINE e == mem[p][f]
<1>1. e \in Entry /\ TrueEntry(e, f) /\ job[p][f] \in Job /\ version[f] \in 0 .. MaxWrites
      /\ version[f] <= clock /\ TrueEntry(job[p][f].entry, f) /\ job[p][f].fp <= clock
  BY DEF CacheInv, WorldOK, StoreOK, EntriesAreTrue
<1>2. UNCHANGED <<world, disk, dirty, deleted>>
  BY DEF check_fingerprint, store
<1>3. mem' = mem \/ mem' = [mem EXCEPT ![p][f] = Husk(e)]
  BY DEF check_fingerprint
<1>4. TrueEntry(Husk(e), f) /\ Husk(e) \in Entry
  <2>1. clock \in Nat /\ Husk(e).fp <= clock /\ ~Husk(e).marked
    BY <1>1, BoundNats DEF Husk, NoEntry, TrueEntry, TrueOf, CacheInv, WorldOK
  <2> QED BY <1>1, <2>1, UnmarkedIsTrue, TakenIsEntry DEF TrueEntry
<1>5. PICK j \in Job :
        /\ job' = [job EXCEPT ![p][f] = j]
        /\ j.entry = job[p][f].entry
        /\ j.fp \in {job[p][f].fp, e.fp, version[f]}
  <2> DEFINE skipped == [job[p][f] EXCEPT !.at = "done"]
             hit == [job[p][f] EXCEPT !.at = "done", !.fp = e.fp,
                                      !.out = Outcome(e.rows, e.retained, e.stale)]
             miss == [job[p][f] EXCEPT !.at = "parse", !.fp = version[f], !.cached = e]
  <2>1. \E j \in {skipped, hit, miss} : job' = [job EXCEPT ![p][f] = j]
    BY DEF check_fingerprint
  <2>2. Outcome(e.rows, e.retained, e.stale) \in Entry
    BY <1>1, EmptyValues DEF Outcome, Entry
  <2>3. e.fp \in 0 .. MaxWrites
    BY <1>1 DEF Entry
  <2>4. \A j \in {skipped, hit, miss} :
          /\ j \in Job
          /\ j.entry = job[p][f].entry
          /\ j.fp \in {job[p][f].fp, e.fp, version[f]}
    <3> HIDE DEF e
    <3> QED BY <1>1, <2>2, <2>3 DEF Job
  <2> HIDE DEF skipped, hit, miss
  <2> QED BY <2>1, <2>4
<1> HIDE DEF e
<1>6. StoreOK'
  <2>1. mem' \in [Processes -> [Files -> Entry]]
    <3>1. mem \in [Processes -> [Files -> Entry]]
      BY DEF CacheInv, StoreOK
    <3>2. [mem[p] EXCEPT ![f] = Husk(e)] \in [Files -> Entry]
      BY <1>4, <3>1
    <3> QED BY <1>3, <3>1, <3>2
  <2>2. job' \in [Processes -> [Files -> Job]]
    BY <1>5 DEF CacheInv, StoreOK
  <2> QED BY <1>2, <2>1, <2>2 DEF CacheInv, StoreOK
<1>7. \A q \in Processes, g \in Files :
        TrueEntry(mem'[q][g], g) /\ TrueEntry(job'[q][g].entry, g) /\ job'[q][g].fp <= clock
  <2>1. e.fp <= clock
    BY <1>1 DEF TrueEntry, TrueOf
  <2> QED BY <1>1, <1>3, <1>4, <1>5, <2>1 DEF CacheInv, StoreOK, EntriesAreTrue
<1> QED BY <1>2, <1>6, <1>7, OwnStep

LEMMA ParseStep ==
  ASSUME CacheInv, NEW p \in Processes, NEW f \in Files, parse_source(p, f)
  PROVE  CacheInv'
<1> DEFINE j        == job[p][f]
           parsed   == live[f]
           retained == retain_observed_messages(j.cached, parsed)
           rows     == [k \in Keys |-> IF k \in retained THEN j.cached.rows[k] ELSE parsed[k]]
           out      == Outcome(rows, retained, j.cached.stale \cap retained)
           entry    == IF rows = NoRows THEN NoEntry
                       ELSE [out EXCEPT !.fp = j.fp, !.marked = TRUE]
<1>1. j \in Job /\ parsed \in Rows /\ j.fp <= clock /\ clock \in Nat
  BY BoundNats DEF CacheInv, WorldOK, StoreOK, EntriesAreTrue
<1>2. /\ UNCHANGED <<world, disk, mem, dirty, deleted>>
      /\ job' = [job EXCEPT ![p][f] =
           [j EXCEPT !.at = "done", !.out = out, !.cached = NoEntry, !.entry = entry]]
  BY DEF parse_source, store
<1>3. /\ j.cached \in Entry
      /\ retained = (KeysOf(j.cached.rows) \cap Stable) \ KeysOf(parsed)
      /\ retained \subseteq Keys
  BY <1>1 DEF Job, retain_observed_messages, Keys
<1>4. rows \in Rows
  BY <1>1, <1>3 DEF Rows, Entry
<1> HIDE DEF rows, retained
<1>5. out \in Entry /\ out.rows = rows /\ out.retained = retained
  BY <1>3, <1>4, EmptyValues DEF Outcome, Entry, NoEntry
<1>6. /\ [out EXCEPT !.fp = j.fp, !.marked = TRUE] \in Entry
      /\ [out EXCEPT !.fp = j.fp, !.marked = TRUE].rows = rows
      /\ [out EXCEPT !.fp = j.fp, !.marked = TRUE].retained = retained
      /\ [out EXCEPT !.fp = j.fp, !.marked = TRUE].fp = j.fp
  BY <1>1, <1>5 DEF Entry, Job
<1>7. /\ KeysOf(rows) \ retained = KeysOf(live[f])
      /\ retained \subseteq Stable
      /\ \A k \in Keys : rows[k] >= live[f][k]
  <2>1. \A k \in Keys : j.cached.rows[k] \in Nat /\ live[f][k] \in Nat
    BY <1>1, <1>3, BoundNats DEF Entry, Rows
  <2> QED BY <1>3, <2>1 DEF rows, KeysOf
<1>8. entry \in Entry /\ TrueEntry(entry, f)
  BY <1>1, <1>6, <1>7, EmptyValues, EmptyIsTrue DEF TrueEntry, TrueOf
<1> HIDE DEF entry, out
<1>9. [j EXCEPT !.at = "done", !.out = out, !.cached = NoEntry, !.entry = entry] \in Job
  BY <1>1, <1>5, <1>8, EmptyValues DEF Job
<1>10. StoreOK'
  BY <1>2, <1>9 DEF CacheInv, StoreOK
<1>11. \A q \in Processes, g \in Files :
        TrueEntry(job'[q][g].entry, g) /\ job'[q][g].fp <= clock
  BY <1>1, <1>2, <1>8 DEF CacheInv, StoreOK, EntriesAreTrue, Job
<1> QED BY <1>2, <1>10, <1>11, OwnStep DEF CacheInv, EntriesAreTrue

LEMMA CollectStep ==
  ASSUME CacheInv, NEW p \in Processes, collect_outcomes(p)
  PROVE  CacheInv'
<1> DEFINE new  == {f \in Files : job[p][f].entry # NoEntry}
           kept == [f \in Files |-> IF f \in new THEN job[p][f].entry ELSE mem[p][f]]
           rest == [f \in Files |-> [NoJob EXCEPT !.fp = job[p][f].fp]]
<1>1. /\ UNCHANGED <<world, disk>>
      /\ mem' = [mem EXCEPT ![p] = kept]
      /\ job' = [job EXCEPT ![p] = rest]
      /\ dirty' = [dirty EXCEPT ![p] = @ \cup new]
      /\ deleted' = [deleted EXCEPT ![p] = @ \ new]
  BY DEF collect_outcomes, store, CacheInv, StoreOK
<1>2. \A f \in Files : job[p][f] \in Job /\ mem[p][f] \in Entry
  BY DEF CacheInv, StoreOK
<1>3. kept \in [Files -> Entry] /\ rest \in [Files -> Job]
  BY <1>2, EmptyValues DEF Job
<1>4. \A f \in Files : TrueEntry(kept[f], f)
  BY DEF CacheInv, EntriesAreTrue
<1>5. \A f \in Files : TrueEntry(rest[f].entry, f) /\ rest[f].fp <= clock
  BY EmptyIsTrue DEF CacheInv, EntriesAreTrue, NoJob
<1> HIDE DEF kept, rest
<1>6. StoreOK'
  BY <1>1, <1>3 DEF CacheInv, StoreOK
<1>7. \A q \in Processes, f \in Files :
        TrueEntry(mem'[q][f], f) /\ TrueEntry(job'[q][f].entry, f) /\ job'[q][f].fp <= clock
  BY <1>1, <1>4, <1>5 DEF CacheInv, StoreOK, EntriesAreTrue
<1> QED BY <1>1, <1>6, <1>7, OwnStep

LEMMA SaveStep ==
  ASSUME CacheInv, NEW p \in Processes, NEW f \in Files, save_shard(p, f)
  PROVE  CacheInv'
<1> DEFINE stored == IF f \in deleted[p] /\ ~Exists(f) THEN NoEntry ELSE disk[f]
           saved == IF f \in dirty[p]
                    THEN remove_claude_synthetic_placeholders(
                           absorb_retained_history(mem[p][f], stored))
                    ELSE stored
<1>1. /\ UNCHANGED <<world, mem, job>>
      /\ disk' = [disk EXCEPT ![f] = saved]
      /\ dirty' = [dirty EXCEPT ![p] = @ \ {f}]
      /\ deleted' = [deleted EXCEPT ![p] = @ \ {f}]
  BY DEF save_shard
<1>2. stored \in Entry /\ mem[p][f] \in Entry
  BY EmptyValues DEF CacheInv, StoreOK
<1>3. TrueEntry(stored, f) /\ TrueEntry(mem[p][f], f)
  BY EmptyIsTrue DEF CacheInv, EntriesAreTrue
<1>4. clock \in Nat /\ version[f] \in Nat /\ live[f] \in Rows
  BY BoundNats DEF CacheInv, WorldOK
<1>5. saved \in Entry
  BY <1>2, TakenIsEntry, AbsorbedIsEntry
<1>6. TrueEntry(saved, f)
  BY <1>2, <1>3, <1>4, AbsorbedIsTrue DEF TrueEntry
<1> HIDE DEF saved
<1>7. StoreOK'
  BY <1>1, <1>5 DEF CacheInv, StoreOK
<1>8. WorldOK'
  BY <1>1 DEF CacheInv, WorldOK, world
<1>9. EntriesAreTrue'
  BY <1>1, <1>6 DEF CacheInv, EntriesAreTrue, StoreOK, TrueEntry, world
<1> QED BY <1>7, <1>8, <1>9 DEF CacheInv

LEMMA EndStep ==
  ASSUME CacheInv, NEW p \in Processes, End(p)
  PROVE  CacheInv'
<1>1. /\ UNCHANGED <<world, disk>>
      /\ mem' = [mem EXCEPT ![p] = [f \in Files |-> NoEntry]]
      /\ job' = [job EXCEPT ![p] = [f \in Files |-> NoJob]]
      /\ dirty' = [dirty EXCEPT ![p] = {}]
      /\ deleted' = [deleted EXCEPT ![p] = {}]
  BY DEF End
<1>2. StoreOK'
  BY <1>1, EmptyValues DEF CacheInv, StoreOK
<1>3. \A q \in Processes, f \in Files :
        TrueEntry(mem'[q][f], f) /\ TrueEntry(job'[q][f].entry, f) /\ job'[q][f].fp <= clock
  BY <1>1, EmptyIsTrue DEF CacheInv, StoreOK, EntriesAreTrue
<1> QED BY <1>1, <1>2, <1>3, OwnStep

LEMMA CacheStep ==
  ASSUME CacheInv, [Next]_vars
  PROVE  CacheInv'
<1>1. ASSUME UNCHANGED <<world, disk, mem, job, dirty, deleted>>
      PROVE  CacheInv'
  BY <1>1, OwnStep DEF CacheInv, EntriesAreTrue, StoreOK
<1>2. CASE ClaudeCode
  BY <1>2, WorldStep
<1>3. ASSUME NEW p \in Processes, Tokens(p)
      PROVE  CacheInv'
  <2>1. CASE LoadFails(p) \/ lock_exclusive(p)
    BY <1>1, <2>1 DEF LoadFails, lock_exclusive, store
  <2> QED BY <1>3, <2>1, StartScanStep, LoadStep, CheckStep, ParseStep, CollectStep,
          SaveStep, EndStep DEF Tokens
<1>4. CASE UNCHANGED vars
  BY <1>1, <1>4 DEF vars, world
<1> QED BY <1>2, <1>3, <1>4 DEF Next

LEMMA CacheInit ==
  ASSUME Init
  PROVE  CacheInv
<1>1. PICK known1 \in SUBSET Keys, synthetic \in SUBSET {"<synthetic>"} :
        /\ KeysOf(live[1]) \subseteq known1
        /\ issued = known1
        /\ disk = [f \in Files |->
             IF f = 1 /\ known1 # {}
             THEN Legacy(1, [k \in Keys |-> IF k \in known1 THEN MaxTokens ELSE 0], synthetic)
             ELSE NoEntry]
  BY DEF Init
<1> DEFINE all == [k \in Keys |-> IF k \in known1 THEN MaxTokens ELSE 0]
<1>2. WorldOK
  <2>1. live \in [Files -> Rows]
    BY EmptyValues, BoundNats DEF Init, Rows
  <2>2. 1 \in Files
    BY BoundNats DEF Files
  <2> QED BY <1>1, <2>1, <2>2, BoundNats DEF Init, WorldOK
<1>3. /\ 1 \in Files
      /\ version[1] = 1
  BY BoundNats DEF Init, Files
<1>4. Legacy(1, all, synthetic) \in Entry
  <2>1. all \in Rows
    BY BoundNats DEF Rows
  <2>2. KeysOf(all) \subseteq Keys
    BY DEF KeysOf
  <2> HIDE DEF all
  <2> QED BY <1>3, <2>1, <2>2, BoundNats DEF Legacy, Entry
<1>5. ~Legacy(1, all, synthetic).marked /\ Legacy(1, all, synthetic).fp = 1
  BY <1>3 DEF Legacy
<1> HIDE DEF all
<1>6. StoreOK
  BY <1>1, <1>4, EmptyValues DEF Init, StoreOK, all
<1>7. ASSUME NEW f \in Files
      PROVE  version[f] <= clock /\ TrueEntry(disk[f], f)
  <2>1. clock = 1 /\ version[f] <= clock
    BY DEF Init
  <2>2. ~disk[f].marked /\ disk[f].fp <= clock
    BY <1>1, <1>5, <2>1 DEF NoEntry, all
  <2> QED BY <2>1, <2>2, UnmarkedIsTrue DEF TrueEntry
<1>8. ASSUME NEW p \in Processes, NEW f \in Files
      PROVE  TrueEntry(mem[p][f], f) /\ TrueEntry(job[p][f].entry, f) /\ job[p][f].fp <= clock
  <2>1. mem[p][f] = NoEntry /\ job[p][f] = NoJob /\ clock = 1
    BY DEF Init
  <2>2. NoEntry.fp = 0 /\ ~NoEntry.marked /\ NoJob.entry = NoEntry /\ NoJob.fp = 0
    BY DEF NoEntry, NoJob
  <2> QED BY <2>1, <2>2, UnmarkedIsTrue DEF TrueEntry
<1> QED BY <1>2, <1>6, <1>7, <1>8 DEF CacheInv, EntriesAreTrue

\* What is stored, and what each process would store, is well formed and true,
\* for any number of transcripts, keys and processes.
THEOREM CacheInvariant == Spec => []CacheInv
<1>1. Init => CacheInv
  BY CacheInit
<1>2. CacheInv /\ [Next]_vars => CacheInv'
  BY CacheStep
<1> QED BY <1>1, <1>2, PTL DEF Spec

\* An entry the next scan would serve unread says what its transcript says.
THEOREM WarmEntries == Spec => []WarmEntriesAreTrue
<1>1. CacheInv => WarmEntriesAreTrue
  BY DEF CacheInv, EntriesAreTrue, TrueEntry, TrueOf, WarmEntriesAreTrue, Warm, Exists,
     needs_retention_provenance_migration, SaysWhatIsLive
<1> QED BY <1>1, CacheInvariant, PTL

\* No step loses a stored response of a transcript that exists, or its tokens.
THEOREM HistoryKept == Spec => HistoryOutlivesRewrites
<1> DEFINE Keeps == \A f \in Files, k \in Stable :
                      Exists(f) => disk'[f].rows[k] >= disk[f].rows[k]
<1>1. ASSUME CacheInv, [Next]_vars
      PROVE  Keeps
  <2> SUFFICES ASSUME NEW f \in Files, NEW k \in Stable, Exists(f)
               PROVE  disk'[f].rows[k] >= disk[f].rows[k]
    OBVIOUS
  <2>1. disk \in [Files -> Entry] /\ disk[f].rows[k] \in Nat
    <3>1. disk \in [Files -> Entry]
      BY <1>1 DEF CacheInv, StoreOK
    <3>2. disk[f].rows \in [Keys -> 0 .. MaxTokens]
      BY <3>1 DEF Entry, Rows
    <3> QED BY <3>1, <3>2, BoundNats DEF Keys
  <2>2. CASE UNCHANGED disk
    BY <2>1, <2>2
  <2>3. ASSUME NEW p \in Processes, NEW g \in Files, save_shard(p, g)
        PROVE  disk'[f].rows[k] >= disk[f].rows[k]
    <3>1. CASE f # g
      BY <2>1, <2>3, <3>1 DEF save_shard
    <3>2. CASE f = g /\ f \in dirty[p]
      <4>1. disk'[f] = remove_claude_synthetic_placeholders(
                         absorb_retained_history(mem[p][f], disk[f]))
        BY <2>1, <2>3, <3>2 DEF save_shard
      <4>2. mem[p][f] \in Entry /\ disk[f] \in Entry
        BY <1>1 DEF CacheInv, StoreOK
      <4> QED BY <4>1, <4>2, AbsorbKeeps
    <3>3. CASE f = g /\ f \notin dirty[p]
      BY <2>1, <2>3, <3>3 DEF save_shard
    <3> QED BY <3>1, <3>2, <3>3
  <2>4. CASE ClaudeCode
    BY <2>2, <2>4 DEF ClaudeCode, Respond, Stream, Compact, Fork, Delete, Write, store
  <2>5. ASSUME NEW p \in Processes, Tokens(p)
        PROVE  disk'[f].rows[k] >= disk[f].rows[k]
    BY <2>2, <2>3, <2>5 DEF Tokens, StartScan, ensure_namespace_loaded, LoadFails,
       check_fingerprint, parse_source, collect_outcomes, lock_exclusive, End, store
  <2>6. CASE UNCHANGED vars
    BY <2>2, <2>6 DEF vars
  <2> QED BY <1>1, <2>4, <2>5, <2>6 DEF Next
<1>2. CacheInv /\ [Next]_vars => [Keeps]_vars
  BY <1>1
<1> QED BY <1>2, CacheInvariant, PTL DEF Spec, HistoryOutlivesRewrites

-----------------------------------------------------------------------------
(* What an entry may hold: rows of the past of its transcript *)

\* Entry e has rows of responses there have been, none if its transcript has
\* never been there, and no more tokens than the transcript has by now, when
\* this has the row.  If it can tell its history, only this is out of date.
PastOf(seen, there, rows, e) ==
  /\ KeysOf(e.rows) \subseteq seen
  /\ (~there) => KeysOf(e.rows) = {}
  /\ \A k \in Stable : rows[k] > 0 => e.rows[k] <= rows[k]
  /\ e.marked => e.stale \subseteq e.retained

\* Entry e is of the past of transcript f.
Past(e, f) == PastOf(issued, f \in named, live[f], e)

WorldIsPast ==
  \A f \in Files :
    /\ KeysOf(live[f]) \subseteq issued
    /\ Exists(f) \/ KeysOf(live[f]) = {}
    /\ Exists(f) => f \in named

EntriesArePast ==
  /\ WorldIsPast
  /\ \A f \in Files : Past(disk[f], f)
  /\ \A p \in Processes, f \in Files :
       Past(mem[p][f], f) /\ Past(job[p][f].cached, f) /\ Past(job[p][f].entry, f)

LEMMA RowsAreNats ==
  ASSUME NEW rows \in Rows, NEW k \in Keys
  PROVE  rows[k] \in Nat
  BY BoundNats DEF Rows

\* The entry without rows is of every past.
LEMMA EmptyIsPast ==
  ASSUME WorldOK
  PROVE  /\ \A f \in Files : Past(NoEntry, f)
         /\ NoJob.cached = NoEntry /\ NoJob.entry = NoEntry
<1>1. KeysOf(NoRows) = {} /\ \A k \in Stable : NoRows[k] = 0
  BY DEF KeysOf, NoRows, Keys
<1>2. NoEntry.rows = NoRows /\ ~NoEntry.marked
  BY DEF NoEntry
<1>3. ASSUME NEW f \in Files, NEW k \in Stable, live[f][k] > 0
      PROVE  NoRows[k] <= live[f][k]
  <2>1. live[f][k] \in Nat
    BY RowsAreNats DEF WorldOK, Keys
  <2> QED BY <1>1, <2>1
<1> QED BY <1>1, <1>2, <1>3 DEF Past, PastOf, NoJob

\* Versions of responses never seen, or of a transcript never there, cannot be
\* in an entry; other writes drop a row or let it grow.
LEMMA WriteKeepsPast ==
  ASSUME CacheInv, EntriesArePast, NEW f \in Files, NEW rows \in Rows, Write(f, rows),
         issued \subseteq issued', KeysOf(rows) \subseteq issued',
         \A k \in Stable : rows[k] > 0 =>
           rows[k] >= live[f][k] /\ (live[f][k] > 0 \/ k \notin issued \/ f \notin named)
  PROVE  EntriesArePast'
<1>1. /\ version' = [version EXCEPT ![f] = clock + 1]
      /\ live' = [live EXCEPT ![f] = rows]
      /\ named' = named \cup {f}
      /\ UNCHANGED <<disk, mem, job>>
      /\ clock + 1 # 0
  BY BoundNats DEF Write, store, own, CacheInv, WorldOK
<1>2. live \in [Files -> Rows] /\ version \in [Files -> 0 .. MaxWrites]
  BY DEF CacheInv, WorldOK
<1>3. ASSUME NEW g \in Files, NEW e \in Entry, Past(e, g)
      PROVE  Past(e, g)'
  <2>1. KeysOf(e.rows) \subseteq issued'
    BY <1>3 DEF Past, PastOf
  <2>2. g \notin named' => KeysOf(e.rows) = {}
    BY <1>1, <1>3 DEF Past, PastOf
  <2>3. ASSUME NEW k \in Stable, live'[g][k] > 0
        PROVE  e.rows[k] <= live'[g][k]
    <3>1. CASE g # f
      BY <1>1, <1>2, <1>3, <2>3, <3>1 DEF Past, PastOf
    <3>2. CASE g = f
      <4>1. live'[g][k] = rows[k] /\ rows[k] > 0
        BY <1>1, <1>2, <2>3, <3>2
      <4>2. e.rows[k] \in Nat /\ rows[k] \in Nat /\ live[f][k] \in Nat /\ k \in Keys
        BY <1>2, RowsAreNats DEF Entry, Keys
      <4>3. CASE live[f][k] > 0
        BY <1>3, <3>2, <4>1, <4>2, <4>3 DEF Past, PastOf
      <4>4. CASE k \notin issued \/ f \notin named
        <5>1. k \notin KeysOf(e.rows)
          BY <1>3, <3>2, <4>4 DEF Past, PastOf
        <5> QED BY <4>1, <4>2, <5>1 DEF KeysOf
      <4> QED BY <4>1, <4>3, <4>4
    <3> QED BY <3>1, <3>2
  <2> QED BY <1>3, <2>1, <2>2, <2>3 DEF Past, PastOf
<1>4. WorldIsPast'
  <2> SUFFICES ASSUME NEW g \in Files
               PROVE  /\ KeysOf(live'[g]) \subseteq issued'
                      /\ version'[g] # 0 \/ KeysOf(live'[g]) = {}
                      /\ version'[g] # 0 => g \in named'
    BY DEF WorldIsPast, Exists, KeysOf
  <2>1. CASE g = f
    BY <1>1, <1>2, <2>1
  <2>2. CASE g # f
    BY <1>1, <1>2, <2>2 DEF EntriesArePast, WorldIsPast, Exists
  <2> QED BY <2>1, <2>2
<1>5. \A p \in Processes, g \in Files :
        /\ disk[g] \in Entry /\ mem[p][g] \in Entry
        /\ job[p][g].cached \in Entry /\ job[p][g].entry \in Entry
  BY DEF CacheInv, StoreOK, Job
<1>6. \A g \in Files : Past(disk[g], g)'
  <2> SUFFICES ASSUME NEW g \in Files PROVE Past(disk[g], g)'
    OBVIOUS
  <2>1. disk[g] \in Entry /\ Past(disk[g], g)
    BY DEF CacheInv, StoreOK, EntriesArePast
  <2> QED BY <1>1, <1>3, <2>1 DEF Past
<1>7. ASSUME NEW p \in Processes, NEW g \in Files
      PROVE  Past(mem[p][g], g)' /\ Past(job[p][g].cached, g)' /\ Past(job[p][g].entry, g)'
  <2>1. Past(mem[p][g], g) /\ Past(job[p][g].cached, g) /\ Past(job[p][g].entry, g)
    BY DEF EntriesArePast
  <2> QED BY <1>1, <1>3, <1>5, <2>1 DEF Past
<1> QED BY <1>4, <1>6, <1>7 DEF EntriesArePast

\* The actions of Claude Code.
LEMMA WorldKeepsPast ==
  ASSUME CacheInv, EntriesArePast, ClaudeCode
  PROVE  EntriesArePast'
<1>1. \A f \in Files : live[f] \in Rows
  BY DEF CacheInv, WorldOK
<1>2. \A f \in Files, k \in Keys : live[f][k] \in Nat
  BY <1>1, RowsAreNats
<1>3. ASSUME NEW f \in Files, NEW k \in Keys, Respond(f, k)
      PROVE  EntriesArePast'
  <2>1. PICK n \in {1, MaxTokens} : Write(f, [live[f] EXCEPT ![k] = n])
    BY <1>3 DEF Respond
  <2> DEFINE rows == [live[f] EXCEPT ![k] = n]
  <2>2. rows \in Rows /\ n \in Nat \ {0}
    BY <1>1, BoundNats DEF Rows
  <2>3. live[f] \in [Keys -> Nat] /\ live[f][k] = 0 /\ k \notin issued
    BY <1>1, <1>2, <1>3 DEF Respond, EntriesArePast, WorldIsPast, KeysOf, Rows
  <2>4. issued' = issued \cup {k} /\ KeysOf(rows) \subseteq issued'
    BY <1>3, <2>3 DEF Respond, EntriesArePast, WorldIsPast, KeysOf
  <2>5. ASSUME NEW l \in Stable, rows[l] > 0
        PROVE  rows[l] >= live[f][l] /\ (live[f][l] > 0 \/ l \notin issued \/ f \notin named)
    BY <1>2, <2>2, <2>3, <2>5 DEF Keys
  <2> HIDE DEF rows
  <2>6. Write(f, rows)
    BY <2>1 DEF rows
  <2> QED BY <2>2, <2>4, <2>5, <2>6, WriteKeepsPast
<1>4. ASSUME NEW f \in Files, NEW k \in Keys, Stream(f, k)
      PROVE  EntriesArePast'
  <2> DEFINE rows == [live[f] EXCEPT ![k] = @ + 1]
  <2>1. Write(f, rows) /\ issued' = issued
    BY <1>4 DEF Stream
  <2>2. rows \in Rows
    BY <1>1, <1>4, BoundNats DEF Rows, Stream
  <2>3. live[f] \in [Keys -> Nat] /\ live[f][k] > 0
    BY <1>1, <1>2, <1>4, BoundNats DEF Stream, Rows
  <2>4. KeysOf(rows) \subseteq issued'
    BY <2>1, <2>3 DEF EntriesArePast, WorldIsPast, KeysOf
  <2>5. ASSUME NEW l \in Stable, rows[l] > 0
        PROVE  rows[l] >= live[f][l] /\ (live[f][l] > 0 \/ l \notin issued \/ f \notin named)
    BY <1>2, <2>3, <2>5 DEF Keys
  <2> HIDE DEF rows
  <2> QED BY <2>1, <2>2, <2>4, <2>5, WriteKeepsPast
<1>5. ASSUME NEW f \in Files, Compact(f)
      PROVE  EntriesArePast'
  <2>1. PICK kept \in SUBSET KeysOf(live[f]) :
          Write(f, [k \in Keys |-> IF k \in kept THEN live[f][k] ELSE 0])
    BY <1>5 DEF Compact
  <2> DEFINE rows == [k \in Keys |-> IF k \in kept THEN live[f][k] ELSE 0]
  <2>2. rows \in Rows
    BY <1>1, BoundNats DEF Rows
  <2>3. issued' = issued /\ KeysOf(rows) \subseteq issued'
    BY <1>5 DEF Compact, EntriesArePast, WorldIsPast, KeysOf
  <2>4. ASSUME NEW l \in Stable, rows[l] > 0
        PROVE  rows[l] >= live[f][l] /\ (live[f][l] > 0 \/ l \notin issued \/ f \notin named)
    BY <1>2, <2>4 DEF Keys
  <2>5. Write(f, rows)
    BY <2>1
  <2> HIDE DEF rows
  <2> QED BY <2>2, <2>3, <2>4, <2>5, WriteKeepsPast
<1>6. ASSUME NEW f \in Files, NEW g \in Files, Fork(f, g)
      PROVE  EntriesArePast'
  <2> DEFINE rows == [k \in Keys |-> IF k \in Stable THEN live[f][k] ELSE 0]
  <2>1. Write(g, rows) /\ issued' = issued /\ g \notin named
    BY <1>6 DEF Fork
  <2>2. rows \in Rows
    BY <1>1, BoundNats DEF Rows
  <2>3. KeysOf(rows) \subseteq issued'
    BY <2>1 DEF EntriesArePast, WorldIsPast, KeysOf
  <2>4. KeysOf(live[g]) = {}
    BY <2>1 DEF EntriesArePast, WorldIsPast
  <2>5. ASSUME NEW l \in Stable, rows[l] > 0
        PROVE  rows[l] >= live[g][l] /\ (live[g][l] > 0 \/ l \notin issued \/ g \notin named)
    BY <1>2, <2>1, <2>4, <2>5 DEF Keys, KeysOf
  <2> HIDE DEF rows
  <2> QED BY <2>1, <2>2, <2>3, <2>5, WriteKeepsPast
<1>7. ASSUME NEW f \in Files, Delete(f)
      PROVE  EntriesArePast'
  <2>1. /\ version' = [version EXCEPT ![f] = 0]
        /\ live' = [live EXCEPT ![f] = NoRows]
        /\ UNCHANGED <<issued, named, disk, mem, job>>
    BY <1>7 DEF Delete, store
  <2>2. KeysOf(NoRows) = {} /\ \A k \in Stable : ~(NoRows[k] > 0)
    BY DEF KeysOf, NoRows, Keys
  <2>3. ASSUME NEW g \in Files, NEW e, Past(e, g)
        PROVE  PastOf(issued', g \in named', live'[g], e)
    BY <2>1, <2>2, <2>3 DEF Past, PastOf, CacheInv, WorldOK
  <2>4. WorldIsPast'
    <3> SUFFICES ASSUME NEW g \in Files
                 PROVE  /\ KeysOf(live'[g]) \subseteq issued'
                        /\ version'[g] # 0 \/ KeysOf(live'[g]) = {}
                        /\ version'[g] # 0 => g \in named'
      BY DEF WorldIsPast, Exists, KeysOf
    <3> QED BY <2>1, <2>2 DEF EntriesArePast, WorldIsPast, Exists, CacheInv, WorldOK
  <2>5. \A g \in Files : Past(disk[g], g)'
    BY <2>1, <2>3 DEF EntriesArePast, Past
  <2>6. \A p \in Processes, g \in Files :
          Past(mem[p][g], g)' /\ Past(job[p][g].cached, g)' /\ Past(job[p][g].entry, g)'
    BY <2>1, <2>3 DEF EntriesArePast, Past
  <2> QED BY <2>4, <2>5, <2>6 DEF EntriesArePast
<1> QED BY <1>3, <1>4, <1>5, <1>6, <1>7 DEF ClaudeCode

\* Taking an entry, or its placeholders, adds no rows to it.
LEMMA TakenIsPast ==
  ASSUME NEW e \in Entry, NEW f \in Files, WorldOK, Past(e, f)
  PROVE  Past(Husk(e), f) /\ Past(remove_claude_synthetic_placeholders(e), f)
<1>1. Husk(e).rows = NoEntry.rows /\ ~Husk(e).marked
  BY DEF Husk, NoEntry
<1>2. Past(Husk(e), f)
  BY <1>1, EmptyIsPast DEF Past, PastOf
<1>3. Past(remove_claude_synthetic_placeholders(e), f)
  BY DEF remove_claude_synthetic_placeholders, Past, PastOf, Entry
<1> QED BY <1>2, <1>3

\* Nor does absorbing another entry add any that the transcript never had.
LEMMA AbsorbedIsPast ==
  ASSUME NEW e \in Entry, NEW s \in Entry, NEW f \in Files, WorldOK, Past(e, f), Past(s, f)
  PROVE  Past(absorb_retained_history(e, s), f)
<1> DEFINE a == absorb_retained_history(e, s)
           carried == (KeysOf(s.rows) \cap Stable) \ KeysOf(e.rows)
<1>1. /\ a.marked = e.marked
      /\ a.retained = e.retained \cup carried
      /\ a.stale = e.stale \cup (s.stale \cap carried)
      /\ \A k \in Keys : a.rows[k] = IF k \in Stable /\ s.rows[k] > e.rows[k]
                                     THEN s.rows[k] ELSE e.rows[k]
  BY DEF absorb_retained_history, Entry
<1>2. \A k \in Keys : e.rows[k] \in Nat /\ s.rows[k] \in Nat
  BY RowsAreNats DEF Entry
<1> HIDE DEF a
<1>3. KeysOf(a.rows) \subseteq KeysOf(e.rows) \cup KeysOf(s.rows)
  BY <1>1, <1>2 DEF KeysOf
<1>4. \A k \in Stable : live[f][k] > 0 => a.rows[k] <= live[f][k]
  BY <1>1 DEF Past, PastOf, Keys
<1>5. Past(a, f)
  BY <1>1, <1>3, <1>4 DEF Past, PastOf
<1> QED BY <1>5 DEF a

\* Steps that change neither the world nor what is stored.
LEMMA OwnKeepsPast ==
  ASSUME EntriesArePast, UNCHANGED world, UNCHANGED disk,
         \A p \in Processes, f \in Files :
           /\ Past(mem'[p][f], f)
           /\ Past(job'[p][f].cached, f)
           /\ Past(job'[p][f].entry, f)
  PROVE  EntriesArePast'
<1>1. WorldIsPast'
  BY DEF EntriesArePast, WorldIsPast, Exists, KeysOf, world
<1> QED BY <1>1 DEF EntriesArePast, Past, PastOf, KeysOf, world

LEMMA StartScanKeepsPast ==
  ASSUME CacheInv, EntriesArePast, NEW p \in Processes, StartScan(p)
  PROVE  EntriesArePast'
<1>1. /\ UNCHANGED <<world, disk, mem>>
      /\ job' = [job EXCEPT ![p] = [f \in Files |->
           IF Exists(f) THEN [NoJob EXCEPT !.at = "todo"] ELSE NoJob]]
  BY DEF StartScan, store
<1>2. \A q \in Processes, f \in Files :
        Past(job'[q][f].cached, f) /\ Past(job'[q][f].entry, f)
  BY <1>1, EmptyIsPast DEF CacheInv, StoreOK, EntriesArePast, NoJob
<1> QED BY <1>1, <1>2, OwnKeepsPast DEF EntriesArePast

LEMMA LoadKeepsPast ==
  ASSUME CacheInv, EntriesArePast, NEW p \in Processes, ensure_namespace_loaded(p)
  PROVE  EntriesArePast'
<1> DEFINE stored == {f \in Files : disk[f] # NoEntry}
           loaded == [f \in Files |->
             IF f \in stored /\ Exists(f)
             THEN remove_claude_synthetic_placeholders(disk[f]) ELSE NoEntry]
<1>1. UNCHANGED <<world, disk, job>> /\ mem' = [mem EXCEPT ![p] = loaded]
  BY DEF ensure_namespace_loaded, store
<1>2. \A f \in Files : Past(loaded[f], f)
  BY TakenIsPast, EmptyIsPast DEF CacheInv, StoreOK, EntriesArePast
<1> HIDE DEF loaded
<1>3. \A q \in Processes, f \in Files : Past(mem'[q][f], f)
  BY <1>1, <1>2 DEF CacheInv, StoreOK, EntriesArePast
<1> QED BY <1>1, <1>3, OwnKeepsPast DEF EntriesArePast

LEMMA CheckKeepsPast ==
  ASSUME CacheInv, EntriesArePast, NEW p \in Processes, NEW f \in Files,
         check_fingerprint(p, f)
  PROVE  EntriesArePast'
<1> DEFINE e == mem[p][f]
<1>1. e \in Entry /\ job[p][f] \in Job /\ Past(e, f) /\ Past(Husk(e), f)
  BY TakenIsPast DEF CacheInv, StoreOK, EntriesArePast
<1>2. UNCHANGED <<world, disk>> /\ (mem' = mem \/ mem' = [mem EXCEPT ![p][f] = Husk(e)])
  BY DEF check_fingerprint, store
<1>3. PICK j : /\ job' = [job EXCEPT ![p][f] = j]
               /\ j.entry = job[p][f].entry
               /\ j.cached \in {job[p][f].cached, e}
  <2> DEFINE skipped == [job[p][f] EXCEPT !.at = "done"]
             hit == [job[p][f] EXCEPT !.at = "done", !.fp = e.fp,
                                      !.out = Outcome(e.rows, e.retained, e.stale)]
             miss == [job[p][f] EXCEPT !.at = "parse", !.fp = version[f], !.cached = e]
  <2>1. \E j \in {skipped, hit, miss} : job' = [job EXCEPT ![p][f] = j]
    BY DEF check_fingerprint
  <2>2. \A j \in {skipped, hit, miss} :
          j.entry = job[p][f].entry /\ j.cached \in {job[p][f].cached, e}
    <3> HIDE DEF e
    <3> QED BY <1>1 DEF Job
  <2> HIDE DEF skipped, hit, miss
  <2> QED BY <2>1, <2>2
<1> HIDE DEF e
<1>4. \A q \in Processes, g \in Files : Past(mem'[q][g], g)
  BY <1>1, <1>2 DEF CacheInv, StoreOK, EntriesArePast
<1>5. \A q \in Processes, g \in Files :
        Past(job'[q][g].cached, g) /\ Past(job'[q][g].entry, g)
  BY <1>1, <1>3 DEF CacheInv, StoreOK, EntriesArePast
<1> QED BY <1>2, <1>4, <1>5, OwnKeepsPast

LEMMA ParseKeepsPast ==
  ASSUME CacheInv, EntriesArePast, NEW p \in Processes, NEW f \in Files, parse_source(p, f)
  PROVE  EntriesArePast'
<1> DEFINE j        == job[p][f]
           parsed   == live[f]
           retained == retain_observed_messages(j.cached, parsed)
           rows     == [k \in Keys |-> IF k \in retained THEN j.cached.rows[k] ELSE parsed[k]]
           out      == Outcome(rows, retained, j.cached.stale \cap retained)
           entry    == IF rows = NoRows THEN NoEntry
                       ELSE [out EXCEPT !.fp = j.fp, !.marked = TRUE]
<1>1. j \in Job /\ parsed \in Rows /\ Past(j.cached, f)
  BY DEF CacheInv, WorldOK, StoreOK, EntriesArePast
<1>2. /\ UNCHANGED <<world, disk, mem>>
      /\ job' = [job EXCEPT ![p][f] =
           [j EXCEPT !.at = "done", !.out = out, !.cached = NoEntry, !.entry = entry]]
  BY DEF parse_source, store
<1>3. /\ j.cached \in Entry
      /\ retained = (KeysOf(j.cached.rows) \cap Stable) \ KeysOf(parsed)
  BY <1>1 DEF Job, retain_observed_messages
<1>4. \A k \in Keys : j.cached.rows[k] \in Nat /\ parsed[k] \in Nat
  BY <1>1, <1>3, RowsAreNats DEF Entry
<1>5. KeysOf(rows) \subseteq KeysOf(j.cached.rows) \cup KeysOf(parsed)
  BY <1>4 DEF KeysOf
<1>6. KeysOf(parsed) \subseteq issued /\ (f \notin named => KeysOf(parsed) = {})
  BY DEF EntriesArePast, WorldIsPast
<1>7. \A k \in Stable : live[f][k] > 0 => rows[k] <= live[f][k]
  BY <1>3, <1>4 DEF KeysOf, Keys
<1> HIDE DEF rows, retained, parsed
<1>8. LET x == [out EXCEPT !.fp = j.fp, !.marked = TRUE]
      IN  x.rows = rows /\ x.retained = retained /\ x.stale = j.cached.stale \cap retained
  BY DEF Outcome, NoEntry
<1>9. Past(entry, f)
  BY <1>1, <1>5, <1>6, <1>7, <1>8, EmptyIsPast DEF Past, PastOf, CacheInv
<1> HIDE DEF entry, out
<1>10. LET done == [j EXCEPT !.at = "done", !.out = out, !.cached = NoEntry, !.entry = entry]
       IN  done.cached = NoEntry /\ done.entry = entry
  BY <1>1 DEF Job
<1>11. \A q \in Processes, g \in Files :
        Past(job'[q][g].cached, g) /\ Past(job'[q][g].entry, g)
  BY <1>2, <1>9, <1>10, EmptyIsPast DEF CacheInv, StoreOK, EntriesArePast
<1> QED BY <1>2, <1>11, OwnKeepsPast DEF EntriesArePast

LEMMA CollectKeepsPast ==
  ASSUME CacheInv, EntriesArePast, NEW p \in Processes, collect_outcomes(p)
  PROVE  EntriesArePast'
<1> DEFINE new  == {f \in Files : job[p][f].entry # NoEntry}
           kept == [f \in Files |-> IF f \in new THEN job[p][f].entry ELSE mem[p][f]]
           rest == [f \in Files |-> [NoJob EXCEPT !.fp = job[p][f].fp]]
<1>1. /\ UNCHANGED <<world, disk>>
      /\ mem' = [mem EXCEPT ![p] = kept]
      /\ job' = [job EXCEPT ![p] = rest]
  BY DEF collect_outcomes, store, CacheInv, StoreOK
<1>2. \A f \in Files : Past(kept[f], f)
  BY DEF EntriesArePast
<1>3. \A f \in Files : Past(rest[f].cached, f) /\ Past(rest[f].entry, f)
  BY EmptyIsPast DEF CacheInv, NoJob
<1> HIDE DEF kept, rest
<1>4. \A q \in Processes, f \in Files :
        /\ Past(mem'[q][f], f)
        /\ Past(job'[q][f].cached, f)
        /\ Past(job'[q][f].entry, f)
  BY <1>1, <1>2, <1>3 DEF CacheInv, StoreOK, EntriesArePast
<1> QED BY <1>1, <1>4, OwnKeepsPast

LEMMA SaveKeepsPast ==
  ASSUME CacheInv, EntriesArePast, NEW p \in Processes, NEW f \in Files, save_shard(p, f)
  PROVE  EntriesArePast'
<1> DEFINE stored == IF f \in deleted[p] /\ ~Exists(f) THEN NoEntry ELSE disk[f]
           absorbed == absorb_retained_history(mem[p][f], stored)
           saved == IF f \in dirty[p]
                    THEN remove_claude_synthetic_placeholders(absorbed)
                    ELSE stored
<1>1. UNCHANGED <<world, mem, job>> /\ disk' = [disk EXCEPT ![f] = saved]
  BY DEF save_shard
<1>2. stored \in Entry /\ mem[p][f] \in Entry /\ Past(stored, f) /\ Past(mem[p][f], f)
  BY EmptyValues, EmptyIsPast DEF CacheInv, StoreOK, EntriesArePast
<1> HIDE DEF stored
<1>3. absorbed \in Entry /\ Past(absorbed, f)
  BY <1>2, AbsorbedIsEntry, AbsorbedIsPast DEF CacheInv
<1> HIDE DEF absorbed
<1>4. Past(saved, f)
  BY <1>2, <1>3, TakenIsPast DEF CacheInv
<1> HIDE DEF saved
<1>5. WorldIsPast'
  BY <1>1 DEF EntriesArePast, WorldIsPast, Exists, KeysOf, world
<1>6. \A g \in Files : Past(disk'[g], g)
  BY <1>1, <1>4 DEF CacheInv, StoreOK, EntriesArePast
<1> QED BY <1>1, <1>5, <1>6 DEF EntriesArePast, Past, PastOf, KeysOf, world

LEMMA EndKeepsPast ==
  ASSUME CacheInv, EntriesArePast, NEW p \in Processes, End(p)
  PROVE  EntriesArePast'
<1>1. /\ UNCHANGED <<world, disk>>
      /\ mem' = [mem EXCEPT ![p] = [f \in Files |-> NoEntry]]
      /\ job' = [job EXCEPT ![p] = [f \in Files |-> NoJob]]
  BY DEF End
<1>2. \A q \in Processes, f \in Files :
        /\ Past(mem'[q][f], f)
        /\ Past(job'[q][f].cached, f)
        /\ Past(job'[q][f].entry, f)
  BY <1>1, EmptyIsPast DEF CacheInv, StoreOK, EntriesArePast
<1> QED BY <1>1, <1>2, OwnKeepsPast

LEMMA PastStep ==
  ASSUME CacheInv, EntriesArePast, [Next]_vars
  PROVE  EntriesArePast'
<1>1. ASSUME UNCHANGED <<world, disk, mem, job>>
      PROVE  EntriesArePast'
  BY <1>1, OwnKeepsPast DEF EntriesArePast
<1>2. CASE ClaudeCode
  BY <1>2, WorldKeepsPast
<1>3. ASSUME NEW p \in Processes, Tokens(p)
      PROVE  EntriesArePast'
  <2>1. CASE LoadFails(p) \/ lock_exclusive(p)
    BY <1>1, <2>1 DEF LoadFails, lock_exclusive, store
  <2> QED BY <1>3, <2>1, StartScanKeepsPast, LoadKeepsPast, CheckKeepsPast, ParseKeepsPast,
          CollectKeepsPast, SaveKeepsPast, EndKeepsPast DEF Tokens
<1>4. CASE UNCHANGED vars
  BY <1>1, <1>4 DEF vars, world
<1> QED BY <1>2, <1>3, <1>4 DEF Next

LEMMA PastInit ==
  ASSUME Init
  PROVE  EntriesArePast
<1>1. WorldOK /\ 1 \in Files /\ issued \subseteq Keys /\ named = {1}
  BY CacheInit, BoundNats DEF CacheInv, WorldOK, Init, Files
<1>2. PICK known1 \in SUBSET Keys, synthetic \in SUBSET {"<synthetic>"} :
        /\ KeysOf(live[1]) \subseteq known1
        /\ issued = known1
        /\ disk = [f \in Files |->
             IF f = 1 /\ known1 # {}
             THEN Legacy(1, [k \in Keys |-> IF k \in known1 THEN MaxTokens ELSE 0], synthetic)
             ELSE NoEntry]
  BY DEF Init
<1>3. PICK start \in [Keys -> {0, MaxTokens}] :
        live = [f \in Files |-> IF f = 1 THEN start ELSE NoRows]
  BY DEF Init
<1>4. WorldIsPast
  <2>1. KeysOf(NoRows) = {}
    BY DEF KeysOf, NoRows
  <2> QED BY <1>1, <1>2, <1>3, <2>1 DEF WorldIsPast, Exists, Init
<1> DEFINE all == [k \in Keys |-> IF k \in known1 THEN MaxTokens ELSE 0]
<1>5. Past(Legacy(1, all, synthetic), 1)
  <2>1. KeysOf(all) \subseteq issued
    BY <1>2 DEF KeysOf
  <2>2. \A k \in Stable : live[1][k] > 0 => all[k] <= live[1][k]
    BY <1>1, <1>3, BoundNats DEF Keys
  <2>3. Legacy(1, all, synthetic).rows = all /\ ~Legacy(1, all, synthetic).marked
    BY DEF Legacy
  <2> HIDE DEF all
  <2> QED BY <1>1, <2>1, <2>2, <2>3 DEF Past, PastOf
<1>6. \A f \in Files : Past(disk[f], f)
  BY <1>1, <1>2, <1>5, EmptyIsPast
<1>7. \A p \in Processes, f \in Files : mem[p][f] = NoEntry /\ job[p][f] = NoJob
  BY DEF Init
<1> QED BY <1>1, <1>4, <1>6, <1>7, EmptyIsPast DEF EntriesArePast

-----------------------------------------------------------------------------
(* Merging: the numbers that Min and Max choose are there *)

LEMMA LeastElement ==
  ASSUME NEW S \in SUBSET Nat, S # {}
  PROVE  Min(S) \in S /\ \A x \in S : Min(S) <= x
<1> DEFINE less == {ss \in Nat \X Nat : ss[1] < ss[2]}
<1>1. IsWellFoundedOn(less, Nat)
  BY NatLessThanWellFounded DEF OpToRel
<1>2. PICK m \in S : \A x \in S : ~ (<<x, m>> \in less)
  <2> HIDE DEF less
  <2> QED BY <1>1, WFMin
<1>3. \A x \in Nat, y \in Nat : x < y => <<x, y>> \in less
  OBVIOUS
<1>4. \A x \in S : m <= x
  <2> HIDE DEF less
  <2>1. \A x \in S : ~ (x < m)
    BY <1>2, <1>3
  <2> QED BY <2>1
<1> QED BY <1>4 DEF Min

LEMMA LargestElement ==
  ASSUME NEW b \in Nat, NEW S \in SUBSET (0 .. b), S # {}
  PROVE  Max(S) \in S /\ \A x \in S : Max(S) >= x
<1> DEFINE T == {b - x : x \in S}
<1>1. T \in SUBSET Nat /\ T # {}
  <2>1. \A x \in S : b - x \in Nat
    OBVIOUS
  <2>2. \A y \in T : y \in Nat
    BY <2>1
  <2>3. PICK x \in S : TRUE
    OBVIOUS
  <2>4. b - x \in T
    BY <2>3
  <2> HIDE DEF T
  <2> QED BY <2>2, <2>4
<1>2. Min(T) \in T /\ \A y \in T : Min(T) <= y
  <2> HIDE DEF T
  <2> QED BY <1>1, LeastElement
<1>3. PICK m \in S : Min(T) = b - m
  BY <1>2
<1>4. ASSUME NEW x \in S
      PROVE  m >= x
  <2>1. b - m <= b - x
    BY <1>2, <1>3
  <2> QED BY <2>1
<1> QED BY <1>4 DEF Max

\* What a scan counts: at least what each outcome has, and under an attribution
\* out of date only what no outcome has as live.
LEMMA MergedCounts ==
  ASSUME StoreOK, NEW p \in Processes,
         \A f \in Files : job[p][f].out.stale \subseteq job[p][f].out.retained
  PROVE  /\ Merged(p) \in Result
         /\ \A f \in Files, k \in Keys : Merged(p).rows[k] >= job[p][f].out.rows[k]
         /\ \A f \in Files, k \in Merged(p).stale :
              k \notin KeysOf(job[p][f].out.rows) \ job[p][f].out.retained
<1> DEFINE seen == UNION {KeysOf(job[p][f].out.rows) : f \in Files}
           counts(k) == {job[p][f].out.rows[k] : f \in Files} \cup {0}
           rows == [k \in Keys |-> Max(counts(k))]
           stale == {k \in seen : k \in job[p][Authority(p, k)].out.stale}
<1>1. Merged(p).rows = rows /\ Merged(p).stale = stale /\ Merged(p) = [rows |-> rows, stale |-> stale]
  BY DEF Merged
<1>2. \A f \in Files, k \in Keys : job[p][f].out.rows[k] \in 0 .. MaxTokens
  BY DEF StoreOK, Job, Entry, Rows
<1>3. ASSUME NEW k \in Keys
      PROVE  Max(counts(k)) \in 0 .. MaxTokens /\ \A f \in Files : Max(counts(k)) >= job[p][f].out.rows[k]
  <2>1. counts(k) \in SUBSET (0 .. MaxTokens) /\ counts(k) # {}
    BY <1>2, BoundNats
  <2>2. \A f \in Files : job[p][f].out.rows[k] \in counts(k)
    OBVIOUS
  <2> HIDE DEF counts
  <2>3. Max(counts(k)) \in counts(k) /\ \A x \in counts(k) : Max(counts(k)) >= x
    BY <2>1, LargestElement, BoundNats
  <2> QED BY <2>1, <2>2, <2>3
<1>4. rows \in Rows /\ \A f \in Files, k \in Keys : rows[k] >= job[p][f].out.rows[k]
  <2> HIDE DEF counts
  <2> QED BY <1>3 DEF Rows
<1>5. stale \subseteq Keys
  BY DEF KeysOf
<1>6. ASSUME NEW f \in Files, NEW k \in stale,
             k \in KeysOf(job[p][f].out.rows) \ job[p][f].out.retained
      PROVE  FALSE
  <2>1. LiveIn(p, k) # {} /\ LiveIn(p, k) \in SUBSET Nat
    BY <1>6 DEF LiveIn, Files
  <2>2. Authority(p, k) \in LiveIn(p, k)
    BY <2>1, LeastElement DEF Authority
  <2>3. k \notin job[p][Authority(p, k)].out.retained /\ Authority(p, k) \in Files
    BY <2>2 DEF LiveIn
  <2> QED BY <2>3
<1> HIDE DEF rows, stale
<1> QED BY <1>1, <1>4, <1>5, <1>6 DEF Result

-----------------------------------------------------------------------------
(* What a scan knows at each of its stages *)

NoLess(rows, seen) == \A k \in Stable : rows[k] >= seen[k]

\* What an outcome has as live is what the transcript says.
Shows(out, rows) ==
  /\ KeysOf(out.rows) \ out.retained = KeysOf(rows)
  /\ \A k \in Keys : out.rows[k] >= rows[k]

\* The work j on a transcript of version v that says rows, of a process at that
\* stage which holds entry e and found these rows in the cache: they are in e,
\* then in the entry taken, then in the outcome, which is true of its version.
JobTells(stage, j, e, seen, v, rows) ==
  /\ j.out.stale \subseteq j.out.retained
  /\ v = 0 \/ stage \in {"idle", "load"} => seen = NoRows
  /\ stage = "load" => j.at \in {"none", "todo"}
  /\ stage \in {"load", "scan"} /\ j.at \in {"none", "todo"} => j.fp = 0
  /\ stage = "scan" =>
       /\ j.at = "none" => seen = NoRows
       /\ j.at = "todo" => NoLess(e.rows, seen)
       /\ j.at = "parse" => NoLess(j.cached.rows, seen)
       /\ j.at = "done" => NoLess(j.out.rows, seen)
                           /\ (v # 0 /\ j.fp = v => Shows(j.out, rows))

\* The result after the merge, as one transcript sees it.
ResultTells(stage, r, j, seen, v, rows) ==
  stage \in {"merged", "save"} =>
    /\ NoLess(r.rows, seen)
    /\ v # 0 /\ j.fp = v =>
         \A k \in Keys : r.rows[k] >= rows[k] /\ (k \in r.stale => rows[k] = 0)

Tells(p, f) ==
  /\ JobTells(pc[p], job[p][f], mem[p][f], known[p][f], version[f], live[f])
  /\ ResultTells(pc[p], result[p], job[p][f], known[p][f], version[f], live[f])

ScansTell == \A p \in Processes, f \in Files : Tells(p, f)

FlowOK ==
  /\ LockOK
  /\ result \in [Processes -> Result]
  /\ known \in [Processes -> [Files -> Rows]]

ScanInv == CacheInv /\ EntriesArePast /\ FlowOK /\ ScansTell

LEMMA EmptyIsLeast ==
  /\ \A rows \in Rows : NoLess(rows, NoRows)
  /\ NoRows \in Rows /\ NoResult \in Result
<1>1. \A k \in Stable : NoRows[k] = 0
  BY DEF NoRows, Keys
<1>2. ASSUME NEW rows \in Rows PROVE NoLess(rows, NoRows)
  BY <1>1, RowsAreNats DEF NoLess, Keys
<1> QED BY <1>2, EmptyValues DEF NoResult, Result

\* A step of another process is none of this one's business.
LEMMA OthersTell ==
  ASSUME ScansTell, UNCHANGED world, NEW q \in Processes,
         pc'[q] = pc[q], job'[q] = job[q], mem'[q] = mem[q], known'[q] = known[q],
         result'[q] = result[q]
  PROVE  \A f \in Files : Tells(q, f)'
  BY DEF ScansTell, Tells, JobTells, ResultTells, NoLess, Shows, KeysOf, world

\* Claude Code's writes: no job is of the version they give.
LEMMA WorldKeepsTelling ==
  ASSUME ScanInv, ClaudeCode
  PROVE  FlowOK' /\ ScansTell'
<1>1. /\ \A p \in Processes, f \in Files : job[p][f].fp \in Nat /\ job[p][f].fp <= clock
      /\ clock \in Nat
      /\ live \in [Files -> Rows] /\ version \in [Files -> 0 .. MaxWrites]
      /\ known \in [Processes -> [Files -> Rows]]
  BY BoundNats DEF ScanInv, CacheInv, WorldOK, StoreOK, EntriesAreTrue, Job, FlowOK
<1>2. ASSUME NEW f \in Files, NEW rows, Write(f, rows)
      PROVE  FlowOK' /\ ScansTell'
  <2>1. /\ version' = [version EXCEPT ![f] = clock + 1]
        /\ live' = [live EXCEPT ![f] = rows]
        /\ UNCHANGED <<lock, pc, mem, job, result, known>>
    BY <1>2 DEF Write, store, own
  <2>2. FlowOK'
    BY <2>1 DEF ScanInv, FlowOK, LockOK
  <2>3. ASSUME NEW p \in Processes, NEW g \in Files
        PROVE  Tells(p, g)'
    <3>1. Tells(p, g)
      BY DEF ScanInv, ScansTell
    <3>2. CASE g # f
      <4>1. version'[g] = version[g] /\ live'[g] = live[g]
        BY <1>1, <2>1, <3>2
      <4> QED BY <2>1, <3>1, <4>1 DEF Tells, JobTells, ResultTells, NoLess, Shows, KeysOf
    <3>3. CASE g = f
      <4>1. version'[g] # 0 /\ job[p][g].fp # version'[g]
        BY <1>1, <2>1, <3>3
      <4> QED BY <2>1, <3>1, <4>1 DEF Tells, JobTells, ResultTells, NoLess
    <3> QED BY <3>2, <3>3
  <2> QED BY <2>2, <2>3 DEF ScansTell
<1>3. ASSUME NEW f \in Files, Delete(f)
      PROVE  FlowOK' /\ ScansTell'
  <2>1. /\ version' = [version EXCEPT ![f] = 0]
        /\ live' = [live EXCEPT ![f] = NoRows]
        /\ known' = [p \in Processes |-> [known[p] EXCEPT ![f] = NoRows]]
        /\ UNCHANGED <<lock, pc, mem, job, result>>
    BY <1>3 DEF Delete, store
  <2>2. FlowOK'
    BY <1>1, <2>1, EmptyIsLeast DEF ScanInv, FlowOK, LockOK
  <2>3. ASSUME NEW p \in Processes, NEW g \in Files
        PROVE  Tells(p, g)'
    <3>1. Tells(p, g)
      BY DEF ScanInv, ScansTell
    <3>2. CASE g # f
      <4>1. version'[g] = version[g] /\ live'[g] = live[g] /\ known'[p][g] = known[p][g]
        BY <1>1, <2>1, <3>2
      <4> QED BY <2>1, <3>1, <4>1 DEF Tells, JobTells, ResultTells, NoLess, Shows, KeysOf
    <3>3. CASE g = f
      <4>1. version'[g] = 0 /\ known'[p][g] = NoRows
        BY <1>1, <2>1, <3>3
      <4>2. /\ mem[p][g].rows \in Rows /\ job[p][g].cached.rows \in Rows
            /\ job[p][g].out.rows \in Rows /\ result[p].rows \in Rows
        BY DEF ScanInv, CacheInv, StoreOK, FlowOK, Job, Entry, Result
      <4>3. /\ NoLess(mem[p][g].rows, NoRows) /\ NoLess(job[p][g].cached.rows, NoRows)
            /\ NoLess(job[p][g].out.rows, NoRows) /\ NoLess(result[p].rows, NoRows)
        BY <4>2, EmptyIsLeast
      <4>4. JobTells(pc[p], job[p][g], mem[p][g], NoRows, 0, live'[g])
        BY <3>1, <4>3 DEF Tells, JobTells
      <4>5. ResultTells(pc[p], result[p], job[p][g], NoRows, 0, live'[g])
        BY <4>3 DEF ResultTells
      <4> QED BY <2>1, <4>1, <4>4, <4>5 DEF Tells
    <3> QED BY <3>2, <3>3
  <2> QED BY <2>2, <2>3 DEF ScansTell
<1> QED BY <1>2, <1>3 DEF ClaudeCode, Respond, Stream, Compact, Fork

\* A step of process p, which is its own business only.
LEMMA OneTells ==
  ASSUME ScanInv, UNCHANGED world, NEW p \in Processes,
         \A q \in Processes \ {p} :
           /\ pc'[q] = pc[q] /\ job'[q] = job[q] /\ mem'[q] = mem[q]
           /\ known'[q] = known[q] /\ result'[q] = result[q],
         \A f \in Files :
           /\ JobTells(pc'[p], job'[p][f], mem'[p][f], known'[p][f], version[f], live[f])
           /\ ResultTells(pc'[p], result'[p], job'[p][f], known'[p][f], version[f], live[f])
  PROVE  ScansTell'
<1>1. ASSUME NEW q \in Processes \ {p}
      PROVE  \A f \in Files : Tells(q, f)'
  BY OthersTell DEF ScanInv
<1>2. \A f \in Files : Tells(p, f)'
  BY DEF Tells, JobTells, ResultTells, NoLess, Shows, KeysOf, world
<1> QED BY <1>1, <1>2 DEF ScansTell

LEMMA StartScanTells ==
  ASSUME ScanInv, NEW p \in Processes, StartScan(p)
  PROVE  FlowOK' /\ ScansTell'
<1> DEFINE jobs == [f \in Files |-> IF Exists(f) THEN [NoJob EXCEPT !.at = "todo"] ELSE NoJob]
<1>1. /\ UNCHANGED <<world, lock, mem, known>>
      /\ pc[p] = "idle"
      /\ pc' = [pc EXCEPT ![p] = "load"]
      /\ job' = [job EXCEPT ![p] = jobs]
      /\ result' = [result EXCEPT ![p] = NoResult]
  BY DEF StartScan, store
<1>2. /\ job \in [Processes -> [Files -> Job]]
      /\ LockOK /\ result \in [Processes -> Result] /\ known \in [Processes -> [Files -> Rows]]
  BY DEF ScanInv, CacheInv, StoreOK, FlowOK
<1>3. FlowOK'
  <2>1. LockOK'
    BY <1>1, <1>2 DEF LockOK
  <2> QED BY <1>1, <1>2, <2>1, EmptyIsLeast DEF FlowOK
<1>4. ASSUME NEW f \in Files
      PROVE  /\ JobTells("load", jobs[f], mem[p][f], known[p][f], version[f], live[f])
             /\ ResultTells("load", NoResult, jobs[f], known[p][f], version[f], live[f])
  <2>1. known[p][f] = NoRows
    BY <1>1 DEF ScanInv, ScansTell, Tells, JobTells
  <2>2. /\ jobs[f].at \in {"none", "todo"}
        /\ jobs[f].fp = 0
        /\ jobs[f].out.stale \subseteq jobs[f].out.retained
    BY DEF NoJob, NoEntry
  <2> QED BY <2>1, <2>2 DEF JobTells, ResultTells
<1> HIDE DEF jobs
<1>5. /\ pc'[p] = "load" /\ job'[p] = jobs /\ mem'[p] = mem[p] /\ known'[p] = known[p]
      /\ result'[p] = NoResult
      /\ \A q \in Processes \ {p} :
           /\ pc'[q] = pc[q] /\ job'[q] = job[q] /\ mem'[q] = mem[q]
           /\ known'[q] = known[q] /\ result'[q] = result[q]
  BY <1>1, <1>2 DEF LockOK
<1>6. ScansTell'
  BY <1>1, <1>4, <1>5, OneTells
<1> QED BY <1>3, <1>6

LEMMA LoadTells ==
  ASSUME ScanInv, NEW p \in Processes, ensure_namespace_loaded(p)
  PROVE  FlowOK' /\ ScansTell'
<1> DEFINE stored == {f \in Files : disk[f] # NoEntry}
           loaded == [f \in Files |->
             IF f \in stored /\ Exists(f)
             THEN remove_claude_synthetic_placeholders(disk[f]) ELSE NoEntry]
           found == [f \in Files |->
             IF Exists(f) /\ job[p][f].at = "todo" THEN disk[f].rows ELSE NoRows]
<1>1. /\ UNCHANGED <<world, lock, job, result>>
      /\ pc[p] = "load"
      /\ pc' = [pc EXCEPT ![p] = "scan"]
      /\ mem' = [mem EXCEPT ![p] = loaded]
      /\ known' = [known EXCEPT ![p] = found]
  BY DEF ensure_namespace_loaded, store
<1>2. /\ disk \in [Files -> Entry] /\ mem \in [Processes -> [Files -> Entry]]
      /\ LockOK /\ result \in [Processes -> Result] /\ known \in [Processes -> [Files -> Rows]]
  BY DEF ScanInv, CacheInv, StoreOK, FlowOK
<1>3. found \in [Files -> Rows]
  BY <1>2, EmptyIsLeast DEF Entry
<1>4. ASSUME NEW f \in Files
      PROVE  /\ JobTells("scan", job[p][f], loaded[f], found[f], version[f], live[f])
             /\ ResultTells("scan", result[p], job[p][f], found[f], version[f], live[f])
  <2>1. /\ job[p][f].out.stale \subseteq job[p][f].out.retained
        /\ job[p][f].at \in {"none", "todo"}
        /\ job[p][f].fp = 0
    BY <1>1 DEF ScanInv, ScansTell, Tells, JobTells
  <2>2. version[f] = 0 => found[f] = NoRows
    BY DEF Exists
  <2>3. job[p][f].at = "none" => found[f] = NoRows
    OBVIOUS
  <2>4. NoLess(loaded[f].rows, found[f])
    <3>1. remove_claude_synthetic_placeholders(disk[f]).rows = disk[f].rows
      BY <1>2 DEF remove_claude_synthetic_placeholders, Entry
    <3>2. disk[f].rows \in Rows /\ NoEntry.rows = NoRows
      BY <1>2 DEF Entry, NoEntry
    <3>3. NoLess(disk[f].rows, disk[f].rows) /\ NoLess(disk[f].rows, NoRows)
          /\ NoLess(NoRows, NoRows)
      BY <3>2, EmptyIsLeast, RowsAreNats DEF NoLess, Keys
    <3>4. loaded[f].rows = disk[f].rows \/ (~Exists(f) /\ loaded[f].rows = NoRows)
      BY <3>1, <3>2
    <3>5. found[f] = disk[f].rows \/ found[f] = NoRows
      OBVIOUS
    <3>6. ~Exists(f) => found[f] = NoRows
      OBVIOUS
    <3> HIDE DEF loaded, found
    <3> QED BY <3>3, <3>4, <3>5, <3>6
  <2> HIDE DEF loaded, found
  <2> QED BY <2>1, <2>2, <2>3, <2>4 DEF JobTells, ResultTells
<1> HIDE DEF loaded, found
<1>5. FlowOK'
  <2>1. LockOK'
    BY <1>1, <1>2 DEF LockOK
  <2> QED BY <1>1, <1>2, <1>3, <2>1 DEF FlowOK
<1>6. /\ pc'[p] = "scan" /\ job'[p] = job[p] /\ mem'[p] = loaded /\ known'[p] = found
      /\ result'[p] = result[p]
      /\ \A q \in Processes \ {p} :
           /\ pc'[q] = pc[q] /\ job'[q] = job[q] /\ mem'[q] = mem[q]
           /\ known'[q] = known[q] /\ result'[q] = result[q]
  BY <1>1, <1>2 DEF LockOK
<1>7. ScansTell'
  BY <1>1, <1>4, <1>6, OneTells
<1> QED BY <1>5, <1>7

\* Without a cache nothing is known, and nothing can be forgotten.
LEMMA LoadFailsTells ==
  ASSUME ScanInv, NEW p \in Processes, LoadFails(p)
  PROVE  FlowOK' /\ ScansTell'
<1>1. /\ UNCHANGED <<world, lock, mem, job, result, known>>
      /\ pc[p] = "load"
      /\ pc' = [pc EXCEPT ![p] = "scan"]
  BY DEF LoadFails, store
<1>2. /\ mem \in [Processes -> [Files -> Entry]] /\ LockOK
      /\ result \in [Processes -> Result] /\ known \in [Processes -> [Files -> Rows]]
  BY DEF ScanInv, CacheInv, StoreOK, FlowOK
<1>3. FlowOK'
  <2>1. LockOK'
    BY <1>1, <1>2 DEF LockOK
  <2> QED BY <1>1, <1>2, <2>1 DEF FlowOK
<1>4. ASSUME NEW f \in Files
      PROVE  /\ JobTells("scan", job[p][f], mem[p][f], known[p][f], version[f], live[f])
             /\ ResultTells("scan", result[p], job[p][f], known[p][f], version[f], live[f])
  <2>1. /\ job[p][f].out.stale \subseteq job[p][f].out.retained
        /\ job[p][f].at \in {"none", "todo"}
        /\ job[p][f].fp = 0
        /\ known[p][f] = NoRows
    BY <1>1 DEF ScanInv, ScansTell, Tells, JobTells
  <2>2. NoLess(mem[p][f].rows, NoRows)
    BY <1>2, EmptyIsLeast DEF Entry
  <2> QED BY <2>1, <2>2 DEF JobTells, ResultTells
<1>5. /\ pc'[p] = "scan" /\ job'[p] = job[p] /\ mem'[p] = mem[p] /\ known'[p] = known[p]
      /\ result'[p] = result[p]
      /\ \A q \in Processes \ {p} :
           /\ pc'[q] = pc[q] /\ job'[q] = job[q] /\ mem'[q] = mem[q]
           /\ known'[q] = known[q] /\ result'[q] = result[q]
  BY <1>1, <1>2 DEF LockOK
<1>6. ScansTell'
  BY <1>1, <1>4, <1>5, OneTells
<1> QED BY <1>3, <1>6

\* A warm hit tells what the entry tells, which is of the transcript's version.
LEMMA CheckTells ==
  ASSUME ScanInv, NEW p \in Processes, NEW f \in Files, check_fingerprint(p, f)
  PROVE  FlowOK' /\ ScansTell'
<1> DEFINE e == mem[p][f]
           j == job[p][f]
           skipped == [j EXCEPT !.at = "done"]
           hit == [j EXCEPT !.at = "done", !.fp = e.fp,
                            !.out = Outcome(e.rows, e.retained, e.stale)]
           miss == [j EXCEPT !.at = "parse", !.fp = version[f], !.cached = e]
           next == IF ~Exists(f) THEN skipped ELSE IF Warm(e, f) THEN hit ELSE miss
<1>1. /\ UNCHANGED <<world, lock, pc, result, known>>
      /\ pc[p] = "scan"
      /\ j.at = "todo"
      /\ mem' = mem \/ mem' = [mem EXCEPT ![p][f] = Husk(e)]
      /\ job' = [job EXCEPT ![p][f] = next]
  BY DEF check_fingerprint, store
<1>2. /\ mem \in [Processes -> [Files -> Entry]] /\ job \in [Processes -> [Files -> Job]]
      /\ LockOK /\ result \in [Processes -> Result] /\ known \in [Processes -> [Files -> Rows]]
      /\ j \in Job /\ e \in Entry
  BY DEF ScanInv, CacheInv, StoreOK, FlowOK
<1>3. FlowOK'
  BY <1>1, <1>2 DEF FlowOK, LockOK
<1>4. /\ JobTells("scan", j, e, known[p][f], version[f], live[f])
      /\ TrueEntry(e, f) /\ Past(e, f)
  BY <1>1 DEF ScanInv, ScansTell, Tells, CacheInv, EntriesAreTrue, EntriesArePast
<1>5. j.out.stale \subseteq j.out.retained /\ NoLess(e.rows, known[p][f])
  BY <1>1, <1>4 DEF JobTells
<1>6. ASSUME NEW m PROVE JobTells("scan", next, m, known[p][f], version[f], live[f])
  <2>1. CASE ~Exists(f)
    <3>1. next.at = "done" /\ next.out = j.out
      BY <1>2, <2>1 DEF Job
    <3>2. version[f] = 0 /\ known[p][f] = NoRows
      BY <1>4, <2>1 DEF Exists, JobTells
    <3>3. NoLess(j.out.rows, NoRows)
      BY <1>2, EmptyIsLeast DEF Job, Entry
    <3> HIDE DEF next
    <3> QED BY <1>5, <3>1, <3>2, <3>3 DEF JobTells
  <2>2. CASE Exists(f) /\ Warm(e, f)
    <3>1. next = hit
      BY <2>2
    <3>2. /\ hit.at = "done" /\ hit.out.rows = e.rows
          /\ hit.out.retained = e.retained /\ hit.out.stale = e.stale
      <4> HIDE DEF e
      <4> QED BY <1>2 DEF Job, Outcome, NoEntry
    <3>3. version[f] # 0 /\ e.marked /\ e.fp = version[f]
      BY <2>2 DEF Exists, Warm, needs_retention_provenance_migration
    <3>4. e.stale \subseteq e.retained /\ KeysOf(e.rows) \ e.retained = KeysOf(live[f])
          /\ \A k \in Keys : e.rows[k] >= live[f][k]
      BY <1>4, <3>3 DEF Past, PastOf, TrueEntry, TrueOf
    <3> HIDE DEF next, hit, e
    <3>5. Shows(hit.out, live[f]) /\ NoLess(hit.out.rows, known[p][f])
      BY <1>5, <3>2, <3>4 DEF Shows
    <3> QED BY <3>1, <3>2, <3>3, <3>4, <3>5 DEF JobTells
  <2>3. CASE Exists(f) /\ ~Warm(e, f)
    <3>1. next.at = "parse" /\ next.out = j.out /\ next.cached = e
      BY <1>2, <2>3 DEF Job
    <3>2. version[f] # 0
      BY <2>3 DEF Exists
    <3> HIDE DEF next, e
    <3> QED BY <1>5, <3>1, <3>2 DEF JobTells
  <2> QED BY <2>1, <2>2, <2>3
<1> HIDE DEF next, e, j
<1>7. ASSUME NEW g \in Files
      PROVE  /\ JobTells("scan", job'[p][g], mem'[p][g], known[p][g], version[g], live[g])
             /\ ResultTells("scan", result[p], job'[p][g], known[p][g], version[g], live[g])
  <2>1. CASE g = f
    BY <1>1, <1>2, <1>6, <2>1 DEF ResultTells
  <2>2. CASE g # f
    <3>1. job'[p][g] = job[p][g] /\ mem'[p][g] = mem[p][g]
      BY <1>1, <1>2, <2>2
    <3> QED BY <1>1, <3>1 DEF ScanInv, ScansTell, Tells
  <2> QED BY <2>1, <2>2
<1>8. \A q \in Processes \ {p} :
        /\ pc'[q] = pc[q] /\ job'[q] = job[q] /\ mem'[q] = mem[q]
        /\ known'[q] = known[q] /\ result'[q] = result[q]
  BY <1>1, <1>2
<1>9. ScansTell'
  BY <1>1, <1>7, <1>8, OneTells
<1> QED BY <1>3, <1>9

\* A parse keeps what the entry has and the transcript lacks, and where both
\* have a row, the transcript's is at least as large.
LEMMA ParseTells ==
  ASSUME ScanInv, NEW p \in Processes, NEW f \in Files, parse_source(p, f)
  PROVE  FlowOK' /\ ScansTell'
<1> DEFINE j        == job[p][f]
           parsed   == live[f]
           retained == retain_observed_messages(j.cached, parsed)
           rows     == [k \in Keys |-> IF k \in retained THEN j.cached.rows[k] ELSE parsed[k]]
           out      == Outcome(rows, retained, j.cached.stale \cap retained)
           entry    == IF rows = NoRows THEN NoEntry
                       ELSE [out EXCEPT !.fp = j.fp, !.marked = TRUE]
           next     == [j EXCEPT !.at = "done", !.out = out, !.cached = NoEntry, !.entry = entry]
<1>1. /\ UNCHANGED <<world, lock, pc, mem, result, known>>
      /\ pc[p] = "scan"
      /\ j.at = "parse"
      /\ job' = [job EXCEPT ![p][f] = next]
  BY DEF parse_source, store
<1>2. /\ job \in [Processes -> [Files -> Job]] /\ j \in Job /\ j.cached \in Entry
      /\ parsed \in Rows /\ known[p][f] \in Rows
      /\ LockOK /\ result \in [Processes -> Result] /\ known \in [Processes -> [Files -> Rows]]
  BY DEF ScanInv, CacheInv, WorldOK, StoreOK, FlowOK, Job
<1>3. FlowOK'
  BY <1>1, <1>2 DEF FlowOK, LockOK
<1>4. /\ JobTells("scan", j, mem[p][f], known[p][f], version[f], live[f])
      /\ Past(j.cached, f)
  BY <1>1 DEF ScanInv, ScansTell, Tells, EntriesArePast
<1>5. NoLess(j.cached.rows, known[p][f])
  BY <1>1, <1>4 DEF JobTells
<1>6. \A k \in Keys : j.cached.rows[k] \in Nat /\ parsed[k] \in Nat /\ known[p][f][k] \in Nat
  BY <1>2, RowsAreNats DEF Entry
<1>7. retained = (KeysOf(j.cached.rows) \cap Stable) \ KeysOf(parsed)
  BY DEF retain_observed_messages
<1>8. NoLess(rows, known[p][f])
  <2> SUFFICES ASSUME NEW k \in Stable PROVE rows[k] >= known[p][f][k]
    BY DEF NoLess
  <2>1. k \in Keys /\ j.cached.rows[k] >= known[p][f][k]
    BY <1>5 DEF NoLess, Keys
  <2>2. CASE k \in retained
    BY <2>1, <2>2
  <2>3. CASE k \notin retained /\ parsed[k] > 0
    <3>1. j.cached.rows[k] <= parsed[k]
      BY <1>4, <2>3 DEF Past, PastOf
    <3>2. rows[k] = parsed[k]
      BY <2>1, <2>3
    <3> QED BY <1>6, <2>1, <3>1, <3>2
  <2>4. CASE k \notin retained /\ ~(parsed[k] > 0)
    <3>1. j.cached.rows[k] = 0
      BY <1>6, <1>7, <2>1, <2>4 DEF KeysOf
    <3>2. rows[k] = parsed[k]
      BY <2>1, <2>4
    <3> QED BY <1>6, <2>1, <3>1, <3>2
  <2> QED BY <2>2, <2>3, <2>4
<1>9. KeysOf(rows) \ retained = KeysOf(parsed) /\ \A k \in Keys : rows[k] >= parsed[k]
  BY <1>6, <1>7 DEF KeysOf
<1> HIDE DEF rows, retained
<1>10. out.rows = rows /\ out.retained = retained /\ out.stale \subseteq out.retained
  BY DEF Outcome, NoEntry
<1> HIDE DEF out, entry
<1>11. next.at = "done" /\ next.out = out
  BY <1>2 DEF Job
<1>12. version[f] = 0 => known[p][f] = NoRows
  BY <1>4 DEF JobTells
<1> HIDE DEF next
<1>13. JobTells("scan", next, mem[p][f], known[p][f], version[f], live[f])
  BY <1>8, <1>9, <1>10, <1>11, <1>12 DEF JobTells, Shows
<1> HIDE DEF j
<1>14. ASSUME NEW g \in Files
      PROVE  /\ JobTells("scan", job'[p][g], mem[p][g], known[p][g], version[g], live[g])
             /\ ResultTells("scan", result[p], job'[p][g], known[p][g], version[g], live[g])
  <2>1. CASE g = f
    BY <1>1, <1>2, <1>13, <2>1 DEF ResultTells
  <2>2. CASE g # f
    <3>1. job'[p][g] = job[p][g]
      BY <1>1, <1>2, <2>2
    <3> QED BY <1>1, <3>1 DEF ScanInv, ScansTell, Tells
  <2> QED BY <2>1, <2>2
<1>15. \A q \in Processes \ {p} :
        /\ pc'[q] = pc[q] /\ job'[q] = job[q] /\ mem'[q] = mem[q]
        /\ known'[q] = known[q] /\ result'[q] = result[q]
  BY <1>1, <1>2
<1>16. ScansTell'
  BY <1>1, <1>14, <1>15, OneTells
<1> QED BY <1>3, <1>16

\* The merge counts no less than any outcome, and as live what any outcome has
\* as live.
LEMMA CollectTells ==
  ASSUME ScanInv, NEW p \in Processes, collect_outcomes(p)
  PROVE  FlowOK' /\ ScansTell'
<1> DEFINE new  == {f \in Files : job[p][f].entry # NoEntry}
           kept == [f \in Files |-> IF f \in new THEN job[p][f].entry ELSE mem[p][f]]
           rest == [f \in Files |-> [NoJob EXCEPT !.fp = job[p][f].fp]]
<1>1. /\ UNCHANGED <<world, lock, known>>
      /\ pc[p] = "scan"
      /\ \A f \in Files : job[p][f].at \in {"none", "done"}
      /\ pc' = [pc EXCEPT ![p] = "merged"]
      /\ result' = [result EXCEPT ![p] = Merged(p)]
      /\ mem' = [mem EXCEPT ![p] = kept]
      /\ job' = [job EXCEPT ![p] = rest]
  BY DEF collect_outcomes, store, ScanInv, CacheInv, StoreOK
<1>2. /\ mem \in [Processes -> [Files -> Entry]] /\ job \in [Processes -> [Files -> Job]]
      /\ LockOK /\ result \in [Processes -> Result] /\ known \in [Processes -> [Files -> Rows]]
      /\ StoreOK
  BY DEF ScanInv, CacheInv, StoreOK, FlowOK
<1>3. \A f \in Files : JobTells("scan", job[p][f], mem[p][f], known[p][f], version[f], live[f])
  BY <1>1 DEF ScanInv, ScansTell, Tells
<1>4. \A f \in Files : job[p][f].out.stale \subseteq job[p][f].out.retained
  BY <1>3 DEF JobTells
<1>5. /\ Merged(p) \in Result
      /\ \A f \in Files, k \in Keys : Merged(p).rows[k] >= job[p][f].out.rows[k]
      /\ \A f \in Files, k \in Merged(p).stale :
           k \notin KeysOf(job[p][f].out.rows) \ job[p][f].out.retained
  BY <1>2, <1>4, MergedCounts
<1> DEFINE r == Merged(p)
<1> HIDE DEF r
<1>6. FlowOK'
  <2>1. LockOK'
    BY <1>1, <1>2 DEF LockOK
  <2> QED BY <1>1, <1>2, <1>5, <2>1 DEF FlowOK
<1>7. ASSUME NEW f \in Files
      PROVE  /\ JobTells("merged", rest[f], kept[f], known[p][f], version[f], live[f])
             /\ ResultTells("merged", r, rest[f], known[p][f], version[f], live[f])
  <2>1. rest[f].fp = job[p][f].fp /\ rest[f].out.stale = {}
    BY DEF NoJob, NoEntry
  <2> HIDE DEF rest, kept
  <2>2. r.rows \in Rows /\ job[p][f].out.rows \in Rows /\ known[p][f] \in Rows /\ live[f] \in Rows
    BY <1>2, <1>5 DEF r, Result, Job, Entry, ScanInv, CacheInv, WorldOK
  <2>3. version[f] = 0 => known[p][f] = NoRows
    BY <1>3 DEF JobTells
  <2>4. \A k \in Keys : /\ r.rows[k] \in Nat /\ job[p][f].out.rows[k] \in Nat
                        /\ known[p][f][k] \in Nat /\ live[f][k] \in Nat
                        /\ r.rows[k] >= job[p][f].out.rows[k]
    BY <1>5, <2>2, RowsAreNats DEF r
  <2>5. CASE job[p][f].at = "none"
    <3>1. known[p][f] = NoRows /\ job[p][f].fp = 0
      BY <1>3, <2>5 DEF JobTells
    <3>2. NoLess(r.rows, NoRows)
      BY <2>2, EmptyIsLeast
    <3> QED BY <2>1, <2>3, <3>1, <3>2 DEF JobTells, ResultTells
  <2>6. CASE job[p][f].at = "done"
    <3>1. /\ NoLess(job[p][f].out.rows, known[p][f])
          /\ version[f] # 0 /\ job[p][f].fp = version[f] => Shows(job[p][f].out, live[f])
      BY <1>3, <2>6 DEF JobTells
    <3>2. NoLess(r.rows, known[p][f])
      BY <2>4, <3>1 DEF NoLess, Keys
    <3>3. ASSUME version[f] # 0, rest[f].fp = version[f], NEW k \in Keys
          PROVE  r.rows[k] >= live[f][k] /\ (k \in r.stale => live[f][k] = 0)
      <4>1. /\ KeysOf(job[p][f].out.rows) \ job[p][f].out.retained = KeysOf(live[f])
            /\ job[p][f].out.rows[k] >= live[f][k]
        BY <2>1, <3>1, <3>3 DEF Shows
      <4>2. r.rows[k] >= live[f][k]
        BY <2>4, <4>1
      <4>3. ASSUME k \in r.stale PROVE live[f][k] = 0
        <5>1. k \notin KeysOf(live[f])
          BY <1>5, <4>1, <4>3 DEF r
        <5> QED BY <2>4, <5>1 DEF KeysOf
      <4> QED BY <4>2, <4>3
    <3> QED BY <2>1, <2>3, <3>2, <3>3 DEF JobTells, ResultTells
  <2> QED BY <1>1, <2>5, <2>6
<1> HIDE DEF kept, rest
<1>8. /\ pc'[p] = "merged" /\ job'[p] = rest /\ mem'[p] = kept /\ known'[p] = known[p]
      /\ result'[p] = r
      /\ \A q \in Processes \ {p} :
           /\ pc'[q] = pc[q] /\ job'[q] = job[q] /\ mem'[q] = mem[q]
           /\ known'[q] = known[q] /\ result'[q] = result[q]
  BY <1>1, <1>2 DEF LockOK, r
<1>9. ScansTell'
  BY <1>1, <1>7, <1>8, OneTells
<1> QED BY <1>6, <1>9

\* Taking the lock, saving and ending leave the result alone or give it up.
LEMMA LockTells ==
  ASSUME ScanInv, NEW p \in Processes, lock_exclusive(p)
  PROVE  FlowOK' /\ ScansTell'
<1>1. /\ UNCHANGED <<world, mem, job, result, known>>
      /\ pc[p] = "merged" /\ lock = {}
      /\ lock' = {p}
      /\ pc' = [pc EXCEPT ![p] = "save"]
  BY DEF lock_exclusive
<1>2. LockOK /\ result \in [Processes -> Result] /\ known \in [Processes -> [Files -> Rows]]
  BY DEF ScanInv, FlowOK
<1>3. FlowOK'
  <2>1. \A q \in Processes : pc[q] # "save"
    BY <1>1, <1>2 DEF LockOK
  <2>2. lock' = {q \in Processes : pc'[q] = "save"}
    BY <1>1, <1>2, <2>1 DEF LockOK
  <2>3. LockOK'
    BY <1>1, <1>2, <2>2 DEF LockOK
  <2> QED BY <1>1, <1>2, <2>3 DEF FlowOK
<1>4. \A f \in Files :
        /\ JobTells("save", job[p][f], mem[p][f], known[p][f], version[f], live[f])
        /\ ResultTells("save", result[p], job[p][f], known[p][f], version[f], live[f])
  BY <1>1 DEF ScanInv, ScansTell, Tells, JobTells, ResultTells
<1>5. pc'[p] = "save" /\ \A q \in Processes \ {p} : pc'[q] = pc[q]
  BY <1>1, <1>2 DEF LockOK
<1>6. ScansTell'
  BY <1>1, <1>4, <1>5, OneTells
<1> QED BY <1>3, <1>6

LEMMA SaveTells ==
  ASSUME ScanInv, NEW p \in Processes, NEW f \in Files, save_shard(p, f)
  PROVE  FlowOK' /\ ScansTell'
<1>1. UNCHANGED <<world, lock, pc, mem, job, result, known>>
  BY DEF save_shard
<1>2. FlowOK'
  BY <1>1 DEF ScanInv, FlowOK, LockOK
<1>3. \A q \in Processes, g \in Files : Tells(q, g)'
  BY <1>1, OthersTell DEF ScanInv
<1> QED BY <1>2, <1>3 DEF ScansTell

LEMMA EndTells ==
  ASSUME ScanInv, NEW p \in Processes, End(p)
  PROVE  FlowOK' /\ ScansTell'
<1>1. /\ UNCHANGED world
      /\ pc' = [pc EXCEPT ![p] = "idle"]
      /\ lock' = lock \ {p}
      /\ mem' = [mem EXCEPT ![p] = [f \in Files |-> NoEntry]]
      /\ job' = [job EXCEPT ![p] = [f \in Files |-> NoJob]]
      /\ known' = [known EXCEPT ![p] = [f \in Files |-> NoRows]]
      /\ result' = [result EXCEPT ![p] = NoResult]
  BY DEF End
<1>2. /\ mem \in [Processes -> [Files -> Entry]] /\ job \in [Processes -> [Files -> Job]]
      /\ LockOK /\ result \in [Processes -> Result] /\ known \in [Processes -> [Files -> Rows]]
  BY DEF ScanInv, CacheInv, StoreOK, FlowOK
<1>3. FlowOK'
  <2>1. lock' = {q \in Processes : pc'[q] = "save"}
    BY <1>1, <1>2 DEF LockOK
  <2>2. LockOK'
    BY <1>1, <1>2, <2>1 DEF LockOK
  <2> QED BY <1>1, <1>2, <2>2, EmptyIsLeast DEF FlowOK
<1>4. \A f \in Files :
        /\ JobTells("idle", NoJob, NoEntry, NoRows, version[f], live[f])
        /\ ResultTells("idle", NoResult, NoJob, NoRows, version[f], live[f])
  BY DEF JobTells, ResultTells, NoJob, NoEntry
<1>5. /\ pc'[p] = "idle" /\ result'[p] = NoResult
      /\ \A f \in Files : job'[p][f] = NoJob /\ mem'[p][f] = NoEntry /\ known'[p][f] = NoRows
      /\ \A q \in Processes \ {p} :
           /\ pc'[q] = pc[q] /\ job'[q] = job[q] /\ mem'[q] = mem[q]
           /\ known'[q] = known[q] /\ result'[q] = result[q]
  BY <1>1, <1>2 DEF LockOK
<1>6. ScansTell'
  BY <1>1, <1>4, <1>5, OneTells
<1> QED BY <1>3, <1>6

LEMMA ScanStep ==
  ASSUME ScanInv, [Next]_vars
  PROVE  ScanInv'
<1>1. CacheInv' /\ EntriesArePast'
  BY CacheStep, PastStep DEF ScanInv
<1>2. CASE ClaudeCode
  BY <1>1, <1>2, WorldKeepsTelling DEF ScanInv
<1>3. ASSUME NEW p \in Processes, Tokens(p)
      PROVE  FlowOK' /\ ScansTell'
  BY <1>3, StartScanTells, LoadTells, LoadFailsTells, CheckTells, ParseTells, CollectTells,
     LockTells, SaveTells, EndTells DEF Tokens
<1>4. CASE UNCHANGED vars
  <2>1. UNCHANGED <<world, lock, pc, mem, job, result, known>>
    BY <1>4 DEF vars, world
  <2>2. FlowOK'
    BY <2>1 DEF ScanInv, FlowOK, LockOK
  <2>3. \A q \in Processes, g \in Files : Tells(q, g)'
    BY <2>1, OthersTell DEF ScanInv
  <2> QED BY <1>1, <2>2, <2>3 DEF ScanInv, ScansTell
<1> QED BY <1>1, <1>2, <1>3, <1>4 DEF Next, ScanInv

LEMMA ScanInit ==
  ASSUME Init
  PROVE  ScanInv
<1>1. FlowOK
  BY EmptyIsLeast DEF Init, FlowOK, LockOK
<1>2. ASSUME NEW p \in Processes, NEW f \in Files
      PROVE  Tells(p, f)
  <2>1. /\ pc[p] = "idle" /\ job[p][f] = NoJob /\ mem[p][f] = NoEntry
        /\ result[p] = NoResult /\ known[p][f] = NoRows
    BY DEF Init
  <2>2. NoJob.out.stale = {}
    BY DEF NoJob, NoEntry
  <2> QED BY <2>1, <2>2 DEF Tells, JobTells, ResultTells
<1> QED BY <1>1, <1>2, CacheInit, PastInit DEF ScanInv, ScansTell

\* What every scan knows of each transcript at each of its stages, for any
\* number of transcripts, responses and processes.
LEMMA ScanInvariant == Spec => []ScanInv
<1>1. Init => ScanInv
  BY ScanInit
<1>2. ScanInv /\ [Next]_vars => ScanInv'
  BY ScanStep
<1> QED BY <1>1, <1>2, PTL DEF Spec

\* Every variable holds a value of its domain, and the cache lock is held by
\* exactly the process that saves.
THEOREM CacheTypes == Spec => []TypeOK
<1>1. ScanInv => TypeOK
  BY DEF ScanInv, CacheInv, FlowOK, TypeOK
<1> QED BY <1>1, ScanInvariant, PTL

\* A scan counts what the cache knew of the transcripts it reads and what these
\* say, whatever is written, deleted, forked or saved while it runs.
THEOREM NothingForgotten == Spec => []ScanForgetsNothing
<1>1. ScanInv => ScanForgetsNothing
  BY DEF ScanInv, ScansTell, Tells, ResultTells, NoLess, ScanForgetsNothing, Merges, Exists
<1> QED BY <1>1, ScanInvariant, PTL

\* A response that a transcript still holds is reported under its attribution
\* there, never under one that a cached copy has kept.
THEOREM LiveWins == Spec => []LiveAttributionWins
<1>1. ScanInv => LiveAttributionWins
  <2>1. \A p \in Processes : ScanInv => result[p].stale \subseteq Keys
    BY DEF ScanInv, FlowOK, Result
  <2> QED BY <2>1 DEF ScanInv, ScansTell, Tells, ResultTells, LiveAttributionWins, Merges,
          Exists
<1> QED BY <1>1, ScanInvariant, PTL
=============================================================================
