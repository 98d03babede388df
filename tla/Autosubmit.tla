------------------------------ MODULE Autosubmit ------------------------------
(***************************************************************************)
(* `tokens autosubmit`: an entry of the operating system's scheduler       *)
(* starts a run every Period; a run submits when the settings say that     *)
(* it is due.  All state is settings.json, which every command loads,      *)
(* changes and writes back whole, without a lock (the write is atomic, the *)
(* update is not), the scheduler's entries, and one lock of the operating  *)
(* system that keeps runs apart and that dies with its process.            *)
(*                                                                         *)
(* Time is discrete.  A point of time is kept as its age, counted up to    *)
(* Interval only: run_decision treats a last run that never was and one at *)
(* least Interval ago alike.  One interval is in use; clients, dates and   *)
(* last_error are left out (no decision reads them), as is a settings file *)
(* that cannot be read.                                                    *)
(***************************************************************************)
EXTENDS Naturals

CONSTANTS
  Background,   \* processes the scheduler can have at work at once
  Users,        \* shells in which the user runs commands
  Schedulers,   \* launchd, systemd, cron: the kinds `enable` can be given
  Interval,     \* interval_minutes, in ticks of the clock
  Period,       \* ticks between two firings (hourly for cron's long intervals)
  None          \* no scheduler, no timer, no holder

Processes == Background \cup Users

ASSUME TimesAssumption == Interval \in Nat \ {0} /\ Period \in 1 .. Interval
ASSUME ProcessesAssumption ==
  Background \cap Users = {} /\ None \notin Processes \cup Schedulers \cup Nat

VARIABLES
  settings,     \* settings.json: enabled, scheduler, age of last_run_at_ms, timezone pinned
  timer,        \* ticks until a scheduler's entry fires, None without an entry
  lock,         \* who holds autosubmit.lock
  proc,         \* where each process is, the settings it has loaded and will save, and
                \* whether it is an `autosubmit run`
  since         \* ages of the last submission that succeeded and of the last run that began

vars == <<settings, timer, lock, proc, since>>

Ages == 0 .. Interval
Settings == [enabled : BOOLEAN, scheduler : Schedulers \cup {None},
             last : Ages, pinned : BOOLEAN]
Places == {"idle", "locking", "pinning", "submitting", "recording", "installing", "saving", "dead"}

Process == [pc : Places, copy : Settings, run : BOOLEAN]

Fresh == [enabled |-> FALSE, scheduler |-> None, last |-> Interval, pinned |-> FALSE]
Idle == [pc |-> "idle", copy |-> Fresh, run |-> FALSE]

Init ==
  /\ settings = Fresh
  /\ timer = [s \in Schedulers |-> None]
  /\ lock = None
  /\ proc = [p \in Processes |-> Idle]
  /\ since = [success |-> Interval, start |-> Interval]

TypeOK ==
  /\ settings \in Settings
  /\ timer \in [Schedulers -> (0 .. Period) \cup {None}]
  /\ lock \in Processes \cup {None}
  /\ proc \in [Processes -> Process]
  /\ since \in [success : Ages, start : Ages]

-----------------------------------------------------------------------------
Goto(p, place, copy) == proc' = [proc EXCEPT ![p] = [@ EXCEPT !.pc = place, !.copy = copy]]
Released(p) == IF lock = p THEN None ELSE lock
Exit(p) == proc' = [proc EXCEPT ![p] = Idle] /\ lock' = Released(p)

(* run_decision with the time that has passed since the recorded run. *)
run_decision(s, force) ==
  IF ~s.enabled THEN "Disabled"
  ELSE IF force \/ s.last >= Interval THEN "Due"
  ELSE "NotDue"

(* `autosubmit run` up to its decision: load_run_config.  The lock comes after, so the
   decision is not taken again by a run that got the lock late. *)
load_run_config(p, force) ==
  /\ proc[p].pc = "idle"
  /\ IF run_decision(settings, force) = "Due"
     THEN proc' = [proc EXCEPT ![p] = [Idle EXCEPT !.pc = "locking", !.run = TRUE]]
     ELSE UNCHANGED proc
  /\ UNCHANGED <<settings, lock, since>>

(* The scheduler's entry fires, Period after it fired last. *)
Fire(s) ==
  /\ timer[s] = 0
  /\ \E p \in Background : load_run_config(p, FALSE)
  /\ timer' = [timer EXCEPT ![s] = Period]

UserRun(p, force) == p \in Users /\ load_run_config(p, force) /\ UNCHANGED timer

(* run_submit_command begins: ensure_pinned loads the settings and will save them with
   the machine's zone when they have none. *)
BeginSubmit(p) ==
  Goto(p, IF settings.pinned THEN "submitting" ELSE "pinning", [settings EXCEPT !.pinned = TRUE])

(* A run that finds the lock held steps aside. *)
try_acquire_run_lock(p) ==
  /\ proc[p].pc = "locking"
  /\ IF lock = None
     THEN lock' = p /\ BeginSubmit(p) /\ since' = [since EXCEPT !.start = 0]
     ELSE Exit(p) /\ UNCHANGED since
  /\ UNCHANGED <<settings, timer>>

(* An interactive `tokens submit` pins the zone too; it neither locks nor records. *)
InteractiveSubmit(p) ==
  /\ p \in Users /\ proc[p].pc = "idle"
  /\ BeginSubmit(p)
  /\ UNCHANGED <<settings, timer, lock, since>>

(* A slip: the lock is let go before the run is recorded. *)
unlocked_before_recording(p) ==
  /\ proc[p].pc = "submitting" /\ proc[p].run
  /\ Goto(p, "recording", [settings EXCEPT !.last = 0])
  /\ since' = [since EXCEPT !.success = 0]
  /\ lock' = Released(p)
  /\ UNCHANGED <<settings, timer>>

(* The submission ends.  A run loads the settings again: with its success they get the
   time, with its failure only the error's text; the save is a step of its own. *)
record_run_success(p) ==
  /\ proc[p].pc = "submitting" /\ proc[p].run
  /\ Goto(p, "recording", [settings EXCEPT !.last = 0])
  /\ since' = [since EXCEPT !.success = 0]
  /\ UNCHANGED <<settings, timer, lock>>

(* A slip: the failed run is recorded like a run. *)
error_recorded_as_run(p) ==
  /\ proc[p].pc = "submitting" /\ proc[p].run
  /\ Goto(p, "recording", [settings EXCEPT !.last = 0])
  /\ UNCHANGED <<settings, timer, lock, since>>

record_run_error(p) ==
  /\ proc[p].pc = "submitting" /\ proc[p].run
  /\ Goto(p, "recording", settings)
  /\ UNCHANGED <<settings, timer, lock, since>>

InteractiveSubmitEnds(p) ==
  /\ proc[p].pc = "submitting" /\ ~proc[p].run
  /\ Exit(p)
  /\ UNCHANGED <<settings, timer, since>>

-----------------------------------------------------------------------------
(* `autosubmit enable`: load, install, save.  The last run is kept. *)
enable(p, s) ==
  /\ p \in Users /\ proc[p].pc = "idle"
  /\ Goto(p, "installing", [settings EXCEPT !.enabled = TRUE, !.scheduler = s])
  /\ UNCHANGED <<settings, timer, lock, since>>

(* The entry is there, and with RunAtLoad it may fire before the settings are saved; or
   a command failed, before or after the entry took effect, and nothing is saved. *)
install_scheduler(p) ==
  /\ proc[p].pc = "installing"
  /\ \/ \E first \in 0 .. Period :
          timer' = [timer EXCEPT ![proc[p].copy.scheduler] = first]
     \/ UNCHANGED timer
  /\ \/ timer'[proc[p].copy.scheduler] # None /\ Goto(p, "saving", proc[p].copy)
     \/ proc' = [proc EXCEPT ![p] = Idle]
  /\ UNCHANGED <<settings, lock, since>>

(* `autosubmit disable` removes the entry of the scheduler it finds in the settings, when
   they say enabled; a removal that fails is ignored. *)
disable(p) ==
  /\ p \in Users /\ proc[p].pc = "idle"
  /\ Goto(p, "saving", [settings EXCEPT !.enabled = FALSE])
  /\ \/ settings.enabled /\ timer' = [timer EXCEPT ![settings.scheduler] = None]
     \/ UNCHANGED timer
  /\ UNCHANGED <<settings, lock, since>>

(* Settings.save: the whole file is replaced by what was loaded, and changed, before. *)
save(p) ==
  /\ proc[p].pc \in {"pinning", "recording", "saving"}
  /\ \/ settings' = proc[p].copy
     \/ UNCHANGED settings
  /\ IF proc[p].pc = "pinning"
     THEN Goto(p, "submitting", Fresh) /\ UNCHANGED lock
     ELSE Exit(p)
  /\ UNCHANGED <<timer, since>>

Dead(p) == proc' = [proc EXCEPT ![p] = [Idle EXCEPT !.pc = "dead"]]

(* A slip: the lock is a file that is there, not the system's lock on it. *)
lock_file_stays_behind(p) ==
  /\ proc[p].pc \notin {"idle", "dead"}
  /\ Dead(p)
  /\ UNCHANGED <<settings, timer, lock, since>>

(* A process may die anywhere; the operating system frees the lock, and then the place
   of the dead one is another's. *)
Crash(p) ==
  /\ proc[p].pc \notin {"idle", "dead"}
  /\ Dead(p) /\ lock' = Released(p)
  /\ UNCHANGED <<settings, timer, since>>

Reaped(p) ==
  /\ proc[p].pc = "dead"
  /\ proc' = [proc EXCEPT ![p] = Idle]
  /\ UNCHANGED <<settings, timer, lock, since>>

(* The clock does not pass an entry that is to fire. *)
Older(age) == IF age = Interval THEN Interval ELSE age + 1
Tick ==
  /\ \A s \in Schedulers : timer[s] # 0
  /\ timer' = [s \in Schedulers |-> IF timer[s] = None THEN None ELSE timer[s] - 1]
  /\ settings' = [settings EXCEPT !.last = Older(@)]
  /\ proc' = [p \in Processes |-> [proc[p] EXCEPT !.copy.last = Older(@)]]
  /\ since' = [success |-> Older(since.success), start |-> Older(since.start)]
  /\ UNCHANGED lock

(* What a process that was started does next by itself. *)
Step(p) ==
  \/ try_acquire_run_lock(p) \/ record_run_success(p) \/ record_run_error(p)
  \/ InteractiveSubmitEnds(p) \/ install_scheduler(p) \/ save(p) \/ Reaped(p)

UserCommand(p) ==
  \/ \E force \in BOOLEAN : UserRun(p, force)
  \/ InteractiveSubmit(p)
  \/ \E s \in Schedulers : enable(p, s)
  \/ disable(p)

Next ==
  \/ Tick
  \/ \E s \in Schedulers : Fire(s)
  \/ \E p \in Processes : Step(p) \/ UserCommand(p) \/ Crash(p)

(* The clock goes on, the scheduler fires its entries, and a process that was started
   gets on: every request of a submission has a timeout. *)
Fairness ==
  /\ WF_vars(Tick)
  /\ \A s \in Schedulers : WF_vars(Fire(s))
  /\ \A p \in Processes : WF_vars(Step(p))

Spec == Init /\ [][Next]_vars /\ Fairness

-----------------------------------------------------------------------------
Skipped == \E s \in Schedulers : Fire(s) /\ run_decision(settings, FALSE) = "NotDue"

(* A background run is skipped as not due only when a submission has really succeeded
   within the interval: no failure, no crash, no lost update and no `enable` in the middle of a
   run ever makes autosubmit believe in a submission that was not. *)
SkippedOnlyAfterSuccess == [][Skipped => since.success < Interval]_vars

(* autosubmit.lock: of all runs, scheduled or forced, one at most is at work, from the
   beginning of its submission until its outcome is in the settings, whatever died
   holding the lock.  An interactive submit is not a run and has no part in it. *)
AtWork(p) == proc[p].run /\ proc[p].pc \in {"pinning", "submitting", "recording"}
OneRunAtATime == \A p, q \in Processes : AtWork(p) /\ AtWork(q) => p = q

(* Autosubmit goes on: as long as it stays enabled and some entry stays installed, and
   neither processes keep dying nor the user keeps installing, runs submit again and
   again; a run that failed or died with the lock never ends it. *)
Submitting == \E p \in Processes : proc[p].run /\ proc[p].pc = "submitting"
Scheduled == settings.enabled /\ \E s \in Schedulers : timer[s] # None
AutosubmitGoesOn ==
  \/ []<>Submitting
  \/ []<>~Scheduled
  \/ []<>(\E p \in Processes : proc[p].pc \in {"dead", "installing"})

(* "Autosubmit enabled: every {} minutes" (autosubmit.rs:151), "Submit interval, e.g. 30m,
   2h, or 1d": an entry that fires a whole interval after the last run began is not
   skipped.  The code records when a run ended, so it is. *)
EveryIntervalSubmits == [][Skipped => since.start < Interval]_vars
=============================================================================
