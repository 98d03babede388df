# Formal model of tokens

TLA+ models of this repository, checked with TLC and proved about with TLAPS: of
its web service (`web/`) and of its command line (`cli/`).

The service keeps accounts, teams and usage in PostgreSQL and is one long-lived
Node process with a connection pool of five (`web/src/lib/db/index.ts`), so its
requests really do interleave. What is hard in it is what happens between two
statements: a right that was checked before the transaction that uses it, a row
that was read without a lock, a cascade that takes what another request relies
on, a report that arrives after a newer one.

The command line reads the logs of coding agents, which others write and rewrite
while it reads, and keeps what it read in files that several of its own
processes share: a shell, a scheduled run, a service. It locks some of these
files and not others, and it may be killed anywhere. What is hard in it is that
its caches may hold the only copy of some usage, that it goes on from state it
stored for an earlier part of a log, and that the same response is in several
logs.

## The system

| Component | State | Operations | Interacts with | Correct if |
|---|---|---|---|---|
| Teams service, `web/src/lib/teams/service.ts` | `teams`, `team_members`, `groups`, `group_members` | create, disband, delete a team; role changes, removal, leaving; groups and their members | every handler authorises with plain reads, then runs a transaction with row locks | INV-2, 4..8 of `docs/prd-teamboard-teams-auth.md`: one admin, the subadmin cap, members only in active teams, group members on the team, the life of a team |
| Account deletion, `api/settings/account` | the `users` row and all that cascades from it | one `DELETE` | cascades into teams, groups, members | no orphans; what the others rely on survives |
| Invitations, same service and `api/auth/verify-email` | `team_invitations` | invite in batches, accept, decline, revoke, expire, link to an account at verification | seats (accept), accounts (verify), daily sweep | settled means settled; a seat for an invitation, an invitation for a seat; every one ends |
| Submit and merge, `api/submit`, `lib/db/helpers.ts` | `submissions`, `submitted_devices`, `daily_breakdown` | one transaction per report: adopt, filter, replace, guard, reclaim, total | reports of several machines and cloud sessions; deletion | nothing counted twice, nothing lost by a worse report, totals are those of the days |
| Deletion of submitted data, `api/settings/submitted-data` | the same | two `DELETE`s | submits in flight | all goes, or nothing |
| Registration, login, e-mail links, sessions, `lib/auth` | `users`, `email_verification_tokens`, `sessions` | register, log in, issue and consume links, reset, sweep | verification starts the backfill of invitations | a link works once, one live link per purpose, a reset ends all sessions |
| Personal and read tokens, device login | `api_tokens` | issue under an advisory lock, revoke | the CLI | names are unique per account |
| Rate limit, `lib/auth/rateLimit.ts` | a map of buckets, or Redis | allow or deny | all auth routes | never more than ten per window, fails closed |
| Archive import, `api/archive` | `archived_breakdown`, `archived_window_totals` | replace one origin's days | | an import twice is an import once |
| Private mode, devices, settings | flags and labels | single updates | reads | |
| Leaderboard, teamboard, profiles, embeds | none of their own | queries, rendering | framework cache | |
| Daily sweeps, `api/cron` | | three sweeps side by side | tokens, invitations, links | one failing does not stop the others |
| Autosubmit, `cli/tokens-cli/src/commands/autosubmit.rs`, `settings.rs` | `settings.json`, scheduler entries, run lock | enable, disable, run | the system's scheduler, submit, every command that saves settings | of all runs, scheduled or forced, one at a time submits and records its outcome; they are skipped only after a success, and go on |
| Antigravity sync, `cli/tokens-cli/src/antigravity.rs` | artifacts, manifest, three locks | sync, sync before a submit, purge | language servers, old releases of itself | one writer, a bounded time under the locks, nothing recorded is lost |
| Message cache, `cli/tokens-core/src/message_cache.rs` | entries in shards, a lock file | load, save, remove | several processes scan at once | a cache never changes a result, and loses no history |
| Claude Code logs, `cli/tokens-core/src/lib.rs`, `sessions/claudecode.rs` | transcripts (Claude Code's) | scan, retain, merge by response | message cache | a compacted transcript keeps its usage; live rows decide the attribution |
| Codex and OpenClaw logs, `cli/tokens-core/src/sessions/codex.rs`, `lib.rs` | rollouts (Codex'), parser state | parse, resume, deduplicate over forks and mirrors | message cache | every response is counted once, with its prompt and speed |
| Other parsers, scanner, pricing, `cli/tokens-core` | files of many agents, a price table | read, match | message cache | |
| Other commands, `cli/tokens-cli` | credentials, accounts of providers | login, import, submit, serve | the service | |
| UI, translations, packaging | | | | |

`PROJECT.json` says for each how far it is modelled, and lists the hazards at
their lines.

## Modules

| Module | Models | Extends |
|---|---|---|
| `Membership` | abstract: seats in teams and the life of a team, without requests, locks and groups | |
| `Teams` | the teams service | instantiates `Membership` |
| `TeamAccounts` | `Teams` next to account deletion | `Teams` |
| `Invitations` | the life of an invitation | |
| `Submit` | a report becoming stored usage, and its deletion | |
| `ClaudeCache` | scans of Claude Code transcripts over the message cache | |
| `CodexLog` | the rollout parser, its cache entries, and what is counted | |
| `AntigravitySync` | sync and purge of the Antigravity cache | |
| `Autosubmit` | scheduled runs against the settings file | |
| `MC*` | symmetry sets, and the ways of writing and bounds of the runs | the module they are named for |
| `TeamsProofs` | the theorems about both team modules | `TeamAccounts` |
| `InvitationsProofs`, `SubmitProofs`, `ClaudeCacheProofs`, `CodexLogProofs`, `AntigravitySyncProofs`, `AutosubmitProofs` | the theorems | the module they are named for |
| `CodexCountProofs` | the theorems about what `CodexLog` counts | `CodexLogProofs` |

How a model relates to the code:

* A table is a function from its key (`memberOf`, `groupOf`: `user_id` is unique)
  or a set of rows; SQL `NULL` and a missing row are `None`.
* A handler that reads and writes under locks that cover what it reads is one
  action with the handler's name. A handler that authorises first is two: its
  `Receive...` action has the guard of `requireAdmin` or `requireAdminOrSub` and
  leaves a record in `request[p]`; the action of its name is the transaction, and
  any step may come in between. `addGroupMember`, `deleteTeam`, `deleteGroup`,
  `inviteMembers`, the backfill and the deletion of data read in one statement
  and write in a later one without a lock on what they read: they are split
  there, and hold between the halves the locks that the code holds
  (`RowLocked`, `Locked`, `Free`).
* `Abort` (`End` in `Invitations`) is every way a request ends without effect:
  a refused check, an error, a deadlock victim, a crash of the server.
* `Submit` has one account, because the row of `submissions` is the lock of all
  its submits. A client-day is a cell with its tokens (standing for the signature
  tokens and input that the reclaim compares, and for every other count) and its
  parser revision. The whole merge is one action, `mergeSubmission`, which
  composes the operators `Adopted`, `Incoming`, `Replaced`, `MergedCell` and
  `Reclaimed` in the order of the route.
* On the command line's side a process is a place (`pc`, `proc[p].pc`) and what it
  holds in memory; an action is what it does between two points at which another
  process, the agent that writes the log, or its own death can be noticed: the
  load of a file, the listing, the read and the check of one transcript, the
  save of one shard or file, the answer to one call.
* `ClaudeCache`: a transcript is the output tokens per dedup key and a version
  that stands for its fingerprint; `disk` is the cache, one shard per transcript,
  `mem`, `dirty` and `job` are a process's `SourceMessageCache` and its work.
  Claude Code appends, rewrites, forks and deletes, and a fork has the name of a
  session of its own (`named`: a transcript that is put back with less than the
  cache has of it is not modelled); a scan goes through
  start, load, check, parse, merge, save shard by shard, end.
* `CodexLog`: a rollout is a sequence of lines, a usage the set of responses it
  stands for. `parse_line` folds the parser's state over lines and
  `parse_codex_reader` goes on from any state; a scan may stop at any line, and
  the file may be written between the read and the fingerprint. A turn id carries
  whether it has a time (`v7`), so that the parser depends on nothing but the lines. `Styles` are the
  ways in which Codex and OpenClaw write: ids, totals, models, forks. What is
  counted (`Lanes`) is a function from the place a message comes from, a row of a
  rollout or a row of the mirror.
* `AntigravitySync`: time passes in calls only, and a call takes any time that its
  timeouts let it (`Elapsed`): a plain HTTP request, whose timeout is for
  connecting, for writing and for each read, and then perhaps one over HTTPS,
  whose timeout is for all of it. Since a server that drips bytes may keep a
  plain request waiting as often as it likes, `Stalls` bounds how often one
  request does. As in the code, budget, threshold and deadline are looked at
  before a call, and its time is charged after it. What a server answers, and
  what a connection lists, is chosen when it is asked. The record file, the
  lock beside the cache and the lock in it are apart, because an old release
  knows the record only.
* `Autosubmit`: load and save of `settings.json` are steps of their own, since
  nothing locks it; a point of time is its age, counted up to the interval. A
  process's record says whether it is a run, of the scheduler or of a user
  (`run --force` asks for no interval, but for the lock).
* Definitions commented "Slip" are mistakes one could make in the definition
  that follows; the runs' properties are known to catch them.

Left out, and why: names, avatars, visibility and cache tags (only the error of a
refused caller depends on them); mail and link tokens of invitations; in
`Invitations` the rows that go with a deleted team or account and the question
who may invite (`Teams` is about that authority); in `Submit` costs, models,
speed, MCP servers and dates (they follow the tokens), client-days without
tokens, the legacy alias of a client and the tag of imported history; in
`ClaudeCache` what a line of a transcript means (rows are its input), the binary
format and unreadable shards; in `CodexLog` timestamps, agents, workspaces,
providers, archived and headless rollouts; in `AntigravitySync` the search for
processes and ports and the formats of answers; in `Autosubmit` the text of
scheduler entries, the filters, `last_error`, an unreadable settings file.

## Runs

| Run | Asks | Bounds |
|---|---|---|
| `teams` | do the team invariants hold, and is `Membership` implemented, when two requests authorised earlier race each other and the members' own steps? | 3 users, 1 team, 1 group, 2 requests, cap 1 |
| `team_accounts` | what do the cascades of a deleted account leave? | 2 users, 1 team, 1 group, 2 requests |
| `invitations` | can answers, revocations, expiry and backfills undo or double one another? | 2 people, 1 team, 2 invitations, 2 requests |
| `invitations_end` | does every invitation end? | 1 person, 1 team, 2 invitations, 2 requests |
| `submit` | races of submits and deletions, several kinds of devices | 2 machines, 1 cloud session, legacy, 1 day, tokens 1..3, threshold 2, 2 metric values, 2 requests |
| `submit_days` | floors, replacement, guard and reclaim over several days | 2 machines, 1 cloud session, legacy, 2 days, 2 revisions, tokens 2..3, 1 request |
| `claude_cache` | can a crash, a late save, a compaction or a fork take history away, or make the cache serve what is not so? | 2 transcripts, 1 response, 1 tool result, 2 processes, tokens 1..2, 4 writes, one complication at a time |
| `codex_log` | is each response counted once, however the rollout was written and in whatever pieces it was read? | a rollout, a fork, a mirror; 2 responses, 2 turns, 5 writes, 2 changes of speed per rollout, 12 styles |
| `antigravity_sync` | can sick servers, crashes and old releases cost usage, or the lock's exclusion, or hold it for long? | 2 sessions, 2 servers, 2 kinds of rows, 2 processes, 2 syncs, timeout, deadline and budget 1, 2 stalls, threshold 1 |
| `autosubmit` | do runs exclude each other, are they skipped only when a success excuses it, do they go on? | 2 scheduled processes, 1 user, 1 scheduler, interval 2 |
| `teams_stale_role`, `autosubmit_cadence` | does the code keep what a document or a message says? It does not; see Findings | those of `teams` and `autosubmit` |

Why the bounds are enough: the hazards are races of two requests, so two slots
reach each of them; three users are an admin, one who is promoted meanwhile and
one more to exceed a cap of one; an invitation can only be superseded by one
older row, and two rows of one person are the pair. Two machines, a cloud session
and the legacy bucket are one device of every kind and two of the kind that can
take over from each other; three token counts are one below the reclaim's
threshold and two above it that the regression guard tells apart. What the small numbers of
users, teams and groups could hide in `Teams` and `TeamAccounts`, of people and
invitations in `Invitations`, and of devices, days and counts in `Submit`, the
theorems cover. Users, groups, requests, people, machines
and cloud sessions are interchangeable, so the safety runs use them as symmetry
sets; the liveness runs do not.

In `claude_cache` two processes are the one that saves and the one that is
overtaken, two transcripts a fork and its original, and four writes a response,
its compaction or fork, a deletion and what comes after; a second process, a second transcript and a
tool result are looked at one at a time (`OneComplication`), and the theorems
cover the rest of it. In
`codex_log` a second turn is what a fork or a mirror can be taken for, five
writes are the turn, its usage, the fork, its copies and its own response, or two
changes of speed around a turn;
`OneComplication` in `MCCodexLog` reads rollouts one after another and leaves out
a fork of a rollout that has an entry or an unfinished line. Each style is one a
release of Codex wrote and turns on what the others lack; the theorems cover
their combinations, longer rollouts and forks of any of them, as far as they are
`Readable`, which all twelve are (`StylesAreReadable`). In `antigravity_sync`
two sessions and two servers let one fail and the other answer, and find a server
written off. A call takes up to three ticks where both limits are one, since a
plain request can wait twice: calls find the budget or the deadline spent, and pass
either, and both bounds of `LockIsHeldBriefly` are met exactly (a tick less, and TLC
refutes it). A deadline that leaves a call a part of its timeout, and every other
number, is the theorem's. In `autosubmit` two
processes of one timer overlap as under cron, and an interval of two ticks lets
time pass within a submission and still end before the next firing; the run was
also tried with two schedulers (1.6 million states) and holds.

`TypeOK` of `Teams` and of `AntigravitySync` is not in a run, as a theorem has it.
No run disables the deadlock check: some step is always possible.

## Fairness

`Invitations` and `Autosubmit` need it. In `Invitations` time passes (`Lapse`); the scheduler calls the daily
sweep (`api/cron/refresh-social-links`, whose sweeps are caught one by one, so
one that fails does not stop `expireInvitations`), and the sweep is enabled until
it has run, but for rows a backfill holds; a request that holds row locks commits,
fails, or is rolled back with its connection. All three are weak fairness.
Nobody is obliged to answer an invitation, and no request is obliged to begin.
Backfills may disable the sweep for a while, yet weak fairness is enough: no
backfill picks a row that has lapsed, so a row is locked after its expiry only
until the backfill that held it at that moment ends.

In `Autosubmit` the clock goes on, an entry of the scheduler fires when its time
has come, and a process that was started gets on with its next step: the lock is
only tried, never waited for, and the requests of a submission have timeouts. No
user is obliged to anything, and no process to die or not to; `AutosubmitGoesOn`
therefore excepts behaviours in which processes are killed, or `enable` is
called, again and again (each `enable` sets the timer back).

## Findings

Each is the property of a run that expects a violation; `PROJECT.json` has the
quotations.

1. `teams_stale_role`: an active team without an admin. Admin `a` asks to make
   `v` admin and asks to make `v` a member; both are authorised, the transfer runs
   first, then `v` is demoted. The transaction of `patchMemberRole` asks neither
   whether `a` is still admin nor whether its target is the admin.
2. `autosubmit_cadence`: every second firing of the scheduler does nothing. A run
   is recorded with the time at which it ended, and the next one is due an
   interval after that; but the scheduler fires an interval after the last run
   began. `autosubmit enable --interval 24h` submits every two days. So under
   launchd, systemd, schtasks and a cron below 60 minutes; from 60 minutes on the
   cron entry fires every hour, and a submission slips by about an hour only.

### Known divergences

What follows is likewise true of the code and of the model. The property that
would say otherwise is named where a module states it; as an `INVARIANT` or
`PROPERTY` of the configuration given, TLC refutes it.

* A disbanded group can have a member, because `addGroupMember` reads the group's
  status without `FOR UPDATE` (`Teams.DisbandedGroupEmpty`, `MCTeams.cfg`;
  `web/features/group-management.feature:61`).
* Deleting the account that once created a team deletes the active team, also
  under a new admin (`TeamLifecycle` with `MCTeamAccounts.cfg`;
  `docs/prd-teamboard-teams-auth.md:139`).
* The backfill can fail on the unique index and then skips the teams that are
  left (`Invitations.BackfillNeverConflicts`, `MCInvitations.cfg`;
  `web/features/team-management.feature:227`).
* A deletion that overlaps the account's first submit leaves a total without days
  (`Submit.TotalsMatchRows`, `MCSubmit.cfg`).
* A reclaim can lower the account's total, because the twin is given up whatever
  the reporting device then keeps (`Submit.ReclaimKeepsTotal`, `MCSubmit.cfg`;
  `web/src/app/api/submit/route.ts:719`).
* `settings.json` is loaded, changed and written back without a lock: a run that
  records its result can undo a `disable` that came in between, and any save can
  undo the time zone another process has just pinned.
* `enable` installs before it saves and `disable` removes before it saves: after
  an error, or a crash, or a change of scheduler, an entry may be left that
  `disable` does not remove ("Disable autosubmit and remove its scheduler entry",
  `autosubmit.rs:29`), or settings may say enabled with no entry.
* A fork's copies are told from its own lines by what the copied turns say of
  themselves (`Readable`). Where they say nothing, the parser takes copied usage
  for the fork's own: in a fork that copies whole turns without ids, or a human's
  fork whose turn ids have no time (`forked_child_turn_starts_own_session`). So it
  does where a fork goes on copying in its first turn and the last copy before that
  turn was a snapshot out of order: `remember_forked_child_inherited_baseline`
  keeps the last total it reads and not the largest. Mostly the deduplication still
  drops such a row, by its total and the fork's parent; it cannot if rollouts have
  no totals, or if the original is counted under OpenClaw and the fork under Codex.
  (`CountedOnce` or `PromptsMarkTheirTurn`, `MCCodexLog.cfg`, with such a style in
  `MCStyles`: `ids` off; `user` without `v7`, and `totals = "last"` or `home`;
  `repeats`, `trails` and `home` without `embeds`, and 7 writes.)
* A shard of the message cache that cannot be read at the moment of a save counts
  as empty, and the save replaces it (outside the model).

## Proofs

`TeamsProofs`, from `UsersFinite`, `CapIsNat` and `NoneIsNoId`:

* `TypeCorrect`. `TypeOK` is inductive; it includes that a member has a role and
  only a member has one, and that a group row names its team.
* `IntegrityHolds`, the inductive invariant `Integrity`: `TypeOK`,
  `MembersOnlyInActiveTeams`, `GroupMemberOnTeam` and `RequestsStayValid`. The
  last is the strengthening: that a group member is on the team is not inductive
  by itself, since `insertGroupMember` writes what `addGroupMember` read a step
  earlier; what makes it so is that the target's member row is locked in between,
  hence still there. Likewise `deleteTeam` may only cascade because the status it
  read cannot become active again.
* `NeverTwoAdmins` and `SubadminCapHolds` are inductive next to `Integrity`; the
  lemma `SeatChanges` says which handlers give anyone a seat or role at all.
* `TeamsFollowLifecycle`, `AdminsLeaveOnlyByDisband` and `RemovalsAreAuthorised`
  are action properties that follow step by step from `Integrity`.
* `TeamsImplementMembership`, by the mapping in `Teams` (`Seats`). Admissions, aborts
  and all group handlers are stutters, a role change is `Succeed`, `Appoint` or
  `Demote`, both ways out are `Depart`.

Its second part is about `TeamAccounts`, from the assumptions of `Teams`: every
team step is a step of `Teams` (so what is shown of `Next` is reused) and what
remains is the deletion itself.

* `DeletionKeepsIntegrity`, `DeletionLeavesNoRows`, `GroupsFollowTeams` by the
  inductive invariant `AccountsInv`: `Integrity`, types, and the two properties of
  the run. It holds in between the halves of a request because the half that
  inserts a group member still has the target's member row locked, and a member
  has an account; `deleteAccount` waits for that lock.
* `RolesAmongAccounts`: a deletion gives nobody a role.

`InvitationsProofs`, from the assumptions of `Invitations`; the inductive invariant
`InvitationsInv` is

* `TypeOK` (`InvitationTypes`);
* `InsertsArePending`: what is about to be inserted is pending and names a person;
* `BackfillHolds`: a backfill that has selected has locked at least one row, and
  all it has locked are still pending rows of its person on one team;
* `LockedRowsStayPending` (`BackfillLockHolds`) and `SupersededHasSurvivor`
  (`OldestSurvives`). The latter is not inductive without the former two: the
  survivor of a backfill's write is the oldest row it locked (`OldestRow`, from the
  well-foundedness of the numbers), and must not have been settled in between.

`AnswersAreFinal` and `SeatsByOneInvitation` are action properties that follow from
it, the second by counting: an acceptance takes one row and seats one person.

`SubmitProofs`, from the assumptions of `Submit`. Three of them say that a set is
finite, as the code does: counts are integers up to `MAX_SAFE_INTEGER`
(`lib/validation/submission.ts:44`), revisions have a maximum (`:206`), device ids
are at most 96 characters of an alphabet (`:184`), and days and clients are as
bounded.

* `UsageCountsOnce`. `NoneTwice` is kept by adoption (`AdoptionKeepsNoneTwice`:
  the device that adopts is then the only one with rows) and by the merge
  (`MergeKeepsNoneTwice`: what the reporting device stores is its old cell, which
  had no twin, or the incoming one, whose twins go).
* `MetricsNeverShrink`. Needs the invariant `SubmitInv`: at most one request
  holds the account's row (`OneHolder`) and it knows the stored metric
  (`MergersKnow`).
* `CloudsInheritNothing`.
* `FloorHolds` and `PeaksAreKept`: maxima over the stored cells of a client and of
  a client-day. For each kind of cell the merge can write the proof names the cell
  that carries the maximum afterwards: the old one, the reporting device's, or the
  adopting device's. The invariant `UsageInv` adds the cells' types to `SubmitInv`.
* `SubmitTypes`, with the total a number: the total is a fold over the set of
  cells, and that its recursion exists and yields numbers for every finite set is
  shown by least counterexample (`SumsExist`, `SumsAreNat`, from
  well-foundedness), since an induction rule with an operator cannot be used.

`ClaudeCacheProofs`, from the assumptions of `ClaudeCache`:

* `CacheInvariant`. That a stored entry with a current fingerprint is true of its
  transcript is not inductive by itself: what a process has in memory or is
  working on may be stored later, over a newer entry. `EntriesAreTrue` says it of
  all three, and of the transcript's version against the clock; `AbsorbedIsTrue`
  is the lemma that merging two entries keeps it.
* `CacheTypes`, `WarmEntries` and `HistoryKept` follow; the second is an action property, by
  `AbsorbKeeps`: a save absorbs what is on disk, so no row gets smaller.

* `NothingForgotten` and `LiveWins`, of what a scan counts, need a second invariant,
  `ScanInv`. `EntriesArePast`: an entry, stored or in memory, has rows only of the
  transcript's own past and no more tokens than the transcript has by now, and if
  it can tell its history only retained rows are out of date. `ScansTell`: at each
  stage of a scan what it was found to know is in memory, then in the cached entry
  of the job, then in what the job yields, and at last in the result. That the
  result is no less than each part is `LargestElement` and `MergedCounts`.
  The proof needs that Claude Code never gives a new transcript the name of a
  deleted one.

`CodexLogProofs`, from the assumptions of `CodexLog`, for every set of styles and
rollouts of every length:

* `ResumedParsesAreFull`: the parser may stop after any line and go on from what it
  stored. Its result is a fold over lines, and that a fold over `a \o b` is the fold
  over `b` from the fold over `a` (`ParseOfPieces`) is shown by least counterexample,
  the induction rule being out of reach. That is not enough: the end of a file
  flushes the rows that still wait for a model, so a parse up to there is not one
  that can go on, unless there was nothing to flush (`ResolvedRun`). Hence the
  invariant `CodexInv` says of an entry that it is the fold itself (`EntryOK`), and of
  what a scan is about to store (`OutcomeOK`) that it is a full parse of the lines
  that were read and left no row without a model. `LoadedOutcome` and `BuiltOutcome`
  show it of each outcome of the two steps of a scan. What a single line does to the
  parser's state does not matter to the argument, only that it is a function of
  both: no clock, no map order, no other file.
* `CodexTypes`, with one entry per rollout at most, follows from `CodexInv`.

`CodexCountProofs`, from the same assumptions and `\A st \in Styles : Readable(st)`,
again for every set of styles and rollouts of every length:

* `ResponsesCountedOnce`, `PromptsMarkTurns` and `SpeedsAreTheTurns`. Nothing about
  the messages of a scan is inductive by itself, since a step only adds a line to a
  rollout and the messages are what the whole parse makes of it. The invariant
  `CountInv` therefore speaks of the parser's run over each rollout as it is now:
  * `Counts`: the rows are one response each, of the rollout's thread, with the
    speed and the prompt of its turn; each comes after the rows whose keys it could
    be taken for (`InTurn`); and every response of the thread that a line mentions
    is in a row.
  * `ParentFollows` and `ChildFollows`: the parser is where Codex is. It knows the
    thread, the turn, the speed (of the turn, and the one selected for the next:
    both are Codex' exactly) and the total; a fork's is in the copied history
    until the fork's first turn (`Copying`), and its baseline is then the last
    total that was copied (`ChildTotals`). `Restores` says it of the rollout
    without its last response, to which `RollBack` may go.
  * `ParentSays`: the coverage of a rollout is that of its rows, which is what
    OpenClaw's lane relies on.
  * `PastCounts`: the same of each rollout as it was when it was read. A scan may
    count while Codex goes on, and truth only grows (`TruthGrows`).

  What one line does to the parser is in `CopiedLine`, `OwnLine` and
  `UsageLineComes`; which lines add a row is in `NewUsage`, `OldUsage` and
  `LateUsage`, by what the line carries and what the parser compares it with. Each
  action of Codex has its lemma (`TurnCounts`, `ResponseCounts`, `RepeatCounts`,
  `SettingCounts`, `ForkCounts`, `LateCopyCounts`, `RollBackCounts`,
  `MirrorCounts`). `ForkCounts` is the longest: a fork's copies are read one after
  another (`CopiesComes`), and all of them must be skipped. `CountingIsRight` is the
  step that counts: no row of the two rollouts has the key of another (`AllKept`),
  so the deduplication drops nothing, and a row of the mirror is of a turn that no
  rollout has (`UncoveredRows`).
  `Readable` is needed in `TurnCounts`, `ForkCounts` and `LateCopyCounts` only; see
  Known divergences for what happens without it.

`AntigravitySyncProofs`, from the assumptions of `AntigravitySync` (servers'
sessions only grow, an enriched answer has all timestamps of its session, and
times are positive):

* `SyncInvariant`, the inductive invariant: `LockInv` (who is in the cache holds
  the locks and its record is in place), `KeepInv` (each session the manifest
  names is still ahead of the sync or in the manifest to come), `WorkInv` (the
  time of calls that failed is charged to the budget), `RowsInv`.
* `LockTimeIsBounded`, for every timeout, deadline, budget and number of stalls. A
  limit can be passed, by the call that was begun before it: the calls that fail
  after the listing take less than the budget and one call together
  (`ElapsedIsAllowed`), and a sync with a deadline passes it only where its last
  plain request waits more than once (`TakenIsAllowed`). The time that servers
  which answer may take is not bounded by the budget, in the code neither.
* `OneWriterAlways`, `NoSyncForgetsUsage`, `NoSyncForgetsTimestamps`. On the way `NothingIsStale` shows that the cleanup
  at the end of a sync never finds an artifact to remove: what is not delivered
  is retained.

`AutosubmitProofs`, from `TimesAssumption` and `ProcessesAssumption`:

* `AutosubmitInvariant`: no copy of the settings, in the file or in any process,
  records a run younger than the last success. That of the file alone is not
  inductive, since any process may save what it loaded before. `SkipsAreEarned`
  follows from it.
* `OneRunAlways`: of all runs, those of the scheduler and those a user forces, one
  at most is anywhere between the beginning of its submission and its recorded
  outcome. Inductive with
  `WorkersHoldLock`: whichever process pins, submits or records holds the lock,
  and the lock has one holder.

Only model-checked: liveness (`PendingEndsSometime`, `AutosubmitGoesOn`), which the
proof system does not handle. Every other property of a run that passes has a
theorem. What the runs that expect a violation refute is of course not provable.

## Not modelled

* The other parsers and the scanner: each of some thirty formats is read from
  start to end without state between runs other than the cache. Pricing: a table
  and the matching of names. Both are data; they make up most of the Rust code,
  together with its tests, and a model of them would repeat them line by line.
* Login, tokens, sessions, the archive import, the rate limit, sweeps other than
  that of invitations: see Plan.
* `submit` and `serve` of the command line beyond what autosubmit runs of them:
  a scan, one request, one answer; `serve` keeps no state.
* Queries and rendering of the web service: no state of their own.

## Plan

Done: the modules above. Next, most important first:

1. Convergence of `Submit`: each machine keeps reporting its whole log; whatever
   attribution was stored before, each machine's client-days become those of its
   log. Liveness, strong fairness on finding the row.
2. E-mail links, reset, sessions: links that work once, one live link per purpose
   under concurrent issues, no session older than the password.
3. Concurrent archive imports of one origin; unique token names under the
   advisory lock.
4. Runs whose question a theorem has answered for every instance give way to the
   runs of the new modules.
