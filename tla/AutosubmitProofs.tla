--------------------------- MODULE AutosubmitProofs ---------------------------
(* Autosubmit's types, its lock and its record of runs, for every number of processes,
   every scheduler and every interval. *)
EXTENDS Autosubmit, TLAPS

(* No copy of the settings, in the file or loaded by some process, records a run that is
   younger than the last submission that succeeded: this is what survives updates that are
   lost, where settings.last itself may fall back to any older run. *)
NoFalseRecord ==
  /\ settings.last >= since.success
  /\ \A p \in Processes : proc[p].copy.last >= since.success

(* A run that is at work holds the lock; who does nothing is not a run. *)
WorkersHoldLock ==
  \A p \in Processes :
    /\ AtWork(p) => lock = p
    /\ proc[p].pc = "idle" => ~proc[p].run

AutosubmitInv == TypeOK /\ NoFalseRecord /\ WorkersHoldLock

-----------------------------------------------------------------------------
LEMMA AgesAreNumbers == Ages \subseteq Nat /\ Interval \in Ages /\ 0 \in Ages
BY TimesAssumption DEF Ages

LEMMA FreshIsSettings == Fresh \in Settings /\ Fresh.last = Interval
BY AgesAreNumbers DEF Fresh, Settings

(* The clock keeps the order of ages. *)
LEMMA OlderKeepsOrder ==
  ASSUME NEW a \in Ages, NEW b \in Ages
  PROVE  Older(a) \in Ages /\ (a >= b => Older(a) >= Older(b))
BY TimesAssumption DEF Ages, Older

(* Goto changes the place and the copy of one process. *)
LEMMA GotoKeeps ==
  ASSUME TypeOK, NEW p \in Processes, NEW place \in Places, NEW copy \in Settings,
         Goto(p, place, copy)
  PROVE  \E v \in Process :
           /\ proc' = [proc EXCEPT ![p] = v]
           /\ v.pc = place /\ v.copy = copy /\ v.run = proc[p].run
<1> DEFINE v == [proc[p] EXCEPT !.pc = place, !.copy = copy]
<1>1. proc[p] \in Process
  BY DEF TypeOK
<1>2. v \in Process /\ v.pc = place /\ v.copy = copy /\ v.run = proc[p].run
  BY <1>1 DEF Process
<1>3. proc' = [proc EXCEPT ![p] = v]
  BY DEF Goto
<1> QED BY <1>2, <1>3

(* A process with the record v is at work. *)
Working(v) == v.run /\ v.pc \in {"pinning", "submitting", "recording"}

(* What is left to show of a step of one process that records nothing new. *)
LEMMA ProcessStep ==
  ASSUME AutosubmitInv, NEW p \in Processes, NEW v \in Process,
         proc' = [proc EXCEPT ![p] = v],
         v.pc = "idle" => ~v.run,
         v.copy.last >= since'.success,
         settings' \in Settings, settings'.last >= since'.success,
         timer' \in [Schedulers -> (0 .. Period) \cup {None}],
         since' \in [success : Ages, start : Ages],
         since'.success = since.success \/ since'.success = 0,
         \/ lock' = lock /\ (Working(v) => lock = p)
         \/ lock' = Released(p) /\ ~Working(v)
         \/ lock = None /\ lock' = p
  PROVE  AutosubmitInv'
<1>1. /\ proc' \in [Processes -> Process]
      /\ proc'[p] = v
      /\ \A q \in Processes \ {p} : proc'[q] = proc[q]
  BY DEF AutosubmitInv, TypeOK
<1>2. TypeOK'
  BY <1>1 DEF AutosubmitInv, TypeOK, Released
<1>3. since.success \in Nat /\ \A q \in Processes : proc[q].copy.last \in Nat
  BY AgesAreNumbers DEF AutosubmitInv, TypeOK, Process, Settings
<1>4. NoFalseRecord'
  <2>1. ASSUME NEW q \in Processes PROVE proc'[q].copy.last >= since'.success
    <3>1. CASE q = p
      BY <3>1, <1>1
    <3>2. CASE q # p
      <4>1. proc'[q].copy.last >= since.success
        BY <1>1, <3>2 DEF AutosubmitInv, NoFalseRecord
      <4>2. proc'[q].copy.last \in Nat
        BY <1>1, <3>2, <1>3
      <4> QED BY <4>1, <4>2, <1>3
    <3> QED BY <3>1, <3>2
  <2> QED BY <2>1 DEF NoFalseRecord
<1>5. WorkersHoldLock'
  <2>1. ASSUME NEW q \in Processes PROVE (AtWork(q) => lock = q)'
    <3>0. q # None
      BY ProcessesAssumption DEF Processes
    <3>1. CASE q = p
      BY <1>1, <3>0, <3>1 DEF Released, AtWork, Working
    <3>2. CASE q # p
      BY <1>1, <3>0, <3>2 DEF AutosubmitInv, WorkersHoldLock, Released, AtWork
    <3> QED BY <3>1, <3>2
  <2>2. ASSUME NEW q \in Processes PROVE (proc[q].pc = "idle" => ~proc[q].run)'
    BY <1>1 DEF AutosubmitInv, WorkersHoldLock
  <2> QED BY <2>1, <2>2 DEF WorkersHoldLock
<1> QED BY <1>2, <1>4, <1>5 DEF AutosubmitInv

(* The same of a step that leaves a process what it is, a run or not. *)
LEMMA PlaceStep ==
  ASSUME AutosubmitInv, NEW p \in Processes, NEW place \in Places, NEW copy \in Settings,
         Goto(p, place, copy), place # "idle",
         copy.last >= since'.success,
         settings' \in Settings, settings'.last >= since'.success,
         timer' \in [Schedulers -> (0 .. Period) \cup {None}],
         since' \in [success : Ages, start : Ages],
         since'.success = since.success \/ since'.success = 0,
         \/ /\ lock' = lock
            /\ proc[p].run /\ place \in {"pinning", "submitting", "recording"} => lock = p
         \/ lock = None /\ lock' = p
  PROVE  AutosubmitInv'
<1>1. PICK v \in Process :
        /\ proc' = [proc EXCEPT ![p] = v]
        /\ v.pc = place /\ v.copy = copy /\ v.run = proc[p].run
  BY GotoKeeps DEF AutosubmitInv
<1>2. \/ lock' = lock /\ (Working(v) => lock = p)
      \/ lock = None /\ lock' = p
  BY <1>1 DEF Working
<1> QED BY <1>1, <1>2, ProcessStep

-----------------------------------------------------------------------------
LEMMA InitEstablishes == Init => AutosubmitInv
<1> SUFFICES ASSUME Init PROVE AutosubmitInv
  OBVIOUS
<1>1. TypeOK
  BY AgesAreNumbers, FreshIsSettings DEF Init, TypeOK, Idle, Process, Places
<1>2. NoFalseRecord
  BY FreshIsSettings, AgesAreNumbers DEF Init, NoFalseRecord, Idle, Fresh
<1>3. WorkersHoldLock
  BY DEF Init, WorkersHoldLock, AtWork, Idle
<1> QED BY <1>1, <1>2, <1>3 DEF AutosubmitInv

(* A run begins, and has loaded nothing that it will save; or it is not due. *)
LEMMA RunBegins ==
  ASSUME AutosubmitInv, NEW p \in Processes, NEW force \in BOOLEAN, load_run_config(p, force),
         timer' \in [Schedulers -> (0 .. Period) \cup {None}]
  PROVE  AutosubmitInv'
<1>1. UNCHANGED <<settings, lock, since>>
  BY DEF load_run_config
<1>2. CASE run_decision(settings, force) = "Due"
  <2> DEFINE v == [Idle EXCEPT !.pc = "locking", !.run = TRUE]
  <2>1. proc' = [proc EXCEPT ![p] = v]
    BY <1>2 DEF load_run_config
  <2>2. v \in Process /\ v.pc = "locking" /\ v.copy = Fresh /\ ~Working(v)
    BY FreshIsSettings DEF Idle, Process, Places, Working
  <2>3. settings.last >= since.success /\ Fresh.last >= since.success
    BY AgesAreNumbers, FreshIsSettings DEF AutosubmitInv, TypeOK, NoFalseRecord, Ages
  <2> HIDE DEF v
  <2> QED BY <1>1, <2>1, <2>2, <2>3, ProcessStep DEF AutosubmitInv, TypeOK
<1>3. CASE run_decision(settings, force) # "Due"
  <2>1. proc' = proc
    BY <1>3 DEF load_run_config
  <2> QED BY <1>1, <2>1 DEF AutosubmitInv, TypeOK, NoFalseRecord, WorkersHoldLock, AtWork
<1> QED BY <1>2, <1>3

(* One step of one process: what it loads, keeps and saves records no false run. *)
LEMMA ProcessesKeep ==
  ASSUME AutosubmitInv, NEW p \in Processes, Step(p) \/ UserCommand(p) \/ Crash(p)
  PROVE  AutosubmitInv'
<1> USE AgesAreNumbers, FreshIsSettings DEF Places
<1>t. /\ settings \in Settings /\ settings.last \in Ages /\ since \in [success : Ages, start : Ages]
      /\ timer \in [Schedulers -> (0 .. Period) \cup {None}]
      /\ proc[p].pc \in Places /\ proc[p].copy \in Settings /\ lock \in Processes \cup {None}
  BY DEF AutosubmitInv, TypeOK, Process, Settings
<1>r. /\ settings.last >= since.success /\ proc[p].copy.last >= since.success
      /\ Fresh.last >= since.success
  BY <1>t DEF AutosubmitInv, NoFalseRecord, Ages
<1>h. /\ AtWork(p) => lock = p
      /\ proc[p].pc = "idle" => ~proc[p].run
  BY DEF AutosubmitInv, WorkersHoldLock
<1>p. /\ [settings EXCEPT !.pinned = TRUE] \in Settings
      /\ [settings EXCEPT !.pinned = TRUE].last = settings.last
      /\ [settings EXCEPT !.enabled = FALSE] \in Settings
      /\ [settings EXCEPT !.enabled = FALSE].last = settings.last
      /\ [settings EXCEPT !.last = 0] \in Settings
      /\ [settings EXCEPT !.last = 0].last = 0
  BY <1>t DEF Settings
<1>i. ASSUME NEW v \in {Idle, [Idle EXCEPT !.pc = "dead"]}, proc' = [proc EXCEPT ![p] = v],
             lock' = lock \/ lock' = Released(p),
             settings' \in Settings, settings'.last >= since.success,
             timer' \in [Schedulers -> (0 .. Period) \cup {None}], since' = since
      PROVE  AutosubmitInv'
  <2>1. v \in Process /\ v.copy = Fresh /\ ~v.run /\ ~Working(v)
    <3>1. CASE v = Idle
      BY <3>1 DEF Idle, Process, Working
    <3>2. CASE v = [Idle EXCEPT !.pc = "dead"]
      BY <3>2 DEF Idle, Process, Working
    <3> QED BY <3>1, <3>2
  <2>2. v.copy.last >= since'.success /\ settings'.last >= since'.success
    BY <1>i, <1>r, <2>1
  <2>3. since' \in [success : Ages, start : Ages] /\ since'.success = since.success
    BY <1>i, <1>t
  <2>4. \/ lock' = lock /\ (Working(v) => lock = p)
        \/ lock' = Released(p) /\ ~Working(v)
    BY <1>i, <2>1
  <2> HIDE DEF Places
  <2> QED BY <1>i, <2>1, <2>2, <2>3, <2>4, ProcessStep
<1>1. CASE try_acquire_run_lock(p)
  <2>1. CASE lock = None
    <3>1. since' = [since EXCEPT !.start = 0] /\ lock' = p /\ UNCHANGED <<settings, timer>>
      BY <1>1, <2>1 DEF try_acquire_run_lock
    <3>2. since' \in [success : Ages, start : Ages] /\ since'.success = since.success
      BY <3>1, <1>t
    <3>3. PICK place \in {"submitting", "pinning"} :
            Goto(p, place, [settings EXCEPT !.pinned = TRUE])
      BY <1>1, <2>1 DEF try_acquire_run_lock, BeginSubmit
    <3>4. place \in Places /\ place # "idle"
      BY <3>3
    <3>5. /\ settings' \in Settings /\ settings'.last >= since'.success
          /\ [settings EXCEPT !.pinned = TRUE].last >= since'.success
          /\ timer' \in [Schedulers -> (0 .. Period) \cup {None}]
      BY <3>1, <3>2, <1>t, <1>r, <1>p
    <3> HIDE DEF Places
    <3> QED BY <3>1, <3>2, <3>3, <3>4, <3>5, <2>1, <1>p, PlaceStep
  <2>2. CASE lock # None
    BY <1>1, <2>2, <1>t, <1>r, <1>i DEF try_acquire_run_lock, Exit
  <2> QED BY <2>1, <2>2
<1>2. CASE record_run_success(p)
  <2>1. /\ Goto(p, "recording", [settings EXCEPT !.last = 0])
        /\ UNCHANGED <<settings, timer, lock>> /\ since' = [since EXCEPT !.success = 0]
    BY <1>2 DEF record_run_success
  <2>2. since' \in [success : Ages, start : Ages] /\ since'.success = 0
    BY <2>1, <1>t
  <2>3. settings'.last >= since'.success /\ [settings EXCEPT !.last = 0].last >= since'.success
    BY <2>1, <2>2, <1>t, <1>p DEF Ages
  <2>4. lock = p
    BY <1>2, <1>h DEF record_run_success, AtWork
  <2> QED BY <2>1, <2>2, <2>3, <2>4, <1>t, <1>p, PlaceStep
<1>3. CASE record_run_error(p)
  <2>1. lock = p
    BY <1>3, <1>h DEF record_run_error, AtWork
  <2> QED BY <1>3, <2>1, <1>t, <1>r, PlaceStep DEF record_run_error
<1>4. CASE InteractiveSubmitEnds(p)
  BY <1>4, <1>t, <1>r, <1>i DEF InteractiveSubmitEnds, Exit
<1>5. CASE install_scheduler(p)
  <2>1. timer' \in [Schedulers -> (0 .. Period) \cup {None}] /\ UNCHANGED <<settings, lock, since>>
    BY <1>5, <1>t DEF install_scheduler
  <2>2. CASE Goto(p, "saving", proc[p].copy)
    BY <2>1, <2>2, <1>t, <1>r, PlaceStep
  <2>3. CASE proc' = [proc EXCEPT ![p] = Idle]
    BY <2>1, <2>3, <1>t, <1>r, <1>i
  <2> QED BY <1>5, <2>2, <2>3 DEF install_scheduler
<1>6. CASE save(p)
  <2>1. settings' \in Settings /\ settings'.last >= since.success /\ UNCHANGED <<timer, since>>
    BY <1>6, <1>t, <1>r DEF save
  <2>2. CASE proc[p].pc = "pinning"
    <3>1. Goto(p, "submitting", Fresh) /\ lock' = lock
      BY <1>6, <2>2 DEF save
    <3>2. proc[p].run => lock = p
      BY <1>h, <2>2 DEF AtWork
    <3> QED BY <2>1, <3>1, <3>2, <1>t, <1>r, PlaceStep
  <2>3. CASE proc[p].pc # "pinning"
    BY <1>6, <2>1, <2>3, <1>t, <1>i DEF save, Exit
  <2> QED BY <2>2, <2>3
<1>7. CASE Reaped(p)
  BY <1>7, <1>t, <1>r, <1>i DEF Reaped
<1>8. ASSUME NEW force \in BOOLEAN, UserRun(p, force) PROVE AutosubmitInv'
  BY <1>8, <1>t, RunBegins DEF UserRun
<1>9. CASE InteractiveSubmit(p)
  <2>1. PICK place \in {"submitting", "pinning"} :
          Goto(p, place, [settings EXCEPT !.pinned = TRUE])
    BY <1>9 DEF InteractiveSubmit, BeginSubmit
  <2>2. ~proc[p].run /\ UNCHANGED <<settings, timer, lock, since>>
    BY <1>9, <1>h DEF InteractiveSubmit
  <2>3. place \in Places /\ place # "idle"
    BY <2>1
  <2> HIDE DEF Places
  <2> QED BY <2>1, <2>2, <2>3, <1>t, <1>r, <1>p, PlaceStep
<1>10. ASSUME NEW s \in Schedulers, enable(p, s) PROVE AutosubmitInv'
  <2>1. /\ [settings EXCEPT !.enabled = TRUE, !.scheduler = s] \in Settings
        /\ [settings EXCEPT !.enabled = TRUE, !.scheduler = s].last = settings.last
    BY <1>t DEF Settings
  <2> QED BY <1>10, <2>1, <1>t, <1>r, PlaceStep DEF enable
<1>11. CASE disable(p)
  <2>1. timer' \in [Schedulers -> (0 .. Period) \cup {None}]
    BY <1>11, <1>t DEF disable
  <2> QED BY <1>11, <2>1, <1>t, <1>r, <1>p, PlaceStep DEF disable
<1>12. CASE Crash(p)
  BY <1>12, <1>t, <1>r, <1>i DEF Crash, Dead
<1> QED BY <1>1, <1>2, <1>3, <1>4, <1>5, <1>6, <1>7, <1>8, <1>9, <1>10, <1>11, <1>12
        DEF Step, UserCommand

(* The scheduler starts a run. *)
LEMMA FireKeeps ==
  ASSUME AutosubmitInv, NEW s \in Schedulers, Fire(s)
  PROVE  AutosubmitInv'
<1>1. PICK p \in Background : load_run_config(p, FALSE)
  BY DEF Fire
<1>2. timer' \in [Schedulers -> (0 .. Period) \cup {None}] /\ p \in Processes
  BY <1>1, TimesAssumption DEF Fire, AutosubmitInv, TypeOK, Processes
<1> QED BY <1>1, <1>2, RunBegins

(* Everything grows older together. *)
LEMMA TickKeeps == AutosubmitInv /\ Tick => AutosubmitInv'
<1> SUFFICES ASSUME AutosubmitInv, Tick PROVE AutosubmitInv'
  OBVIOUS
<1> USE AgesAreNumbers
<1>1. settings' \in Settings /\ settings'.last = Older(settings.last) /\ settings.last \in Ages
  BY OlderKeepsOrder DEF Tick, AutosubmitInv, TypeOK, Settings
<1>2. since' \in [success : Ages, start : Ages]
      /\ since'.success = Older(since.success) /\ since.success \in Ages
  BY OlderKeepsOrder DEF Tick, AutosubmitInv, TypeOK
<1>3. ASSUME NEW p \in Processes
      PROVE  /\ proc'[p] \in Process
             /\ proc'[p].pc = proc[p].pc /\ proc'[p].run = proc[p].run
             /\ proc'[p].copy.last = Older(proc[p].copy.last)
             /\ proc[p].copy.last \in Ages
  BY OlderKeepsOrder DEF Tick, AutosubmitInv, TypeOK, Process, Settings
<1>4. timer' \in [Schedulers -> (0 .. Period) \cup {None}]
  <2>1. ASSUME NEW s \in Schedulers
        PROVE  (IF timer[s] = None THEN None ELSE timer[s] - 1) \in (0 .. Period) \cup {None}
    <3>1. timer[s] \in (0 .. Period) \cup {None} /\ timer[s] # 0
      BY DEF Tick, AutosubmitInv, TypeOK
    <3> QED BY <3>1, TimesAssumption
  <2> QED BY <2>1 DEF Tick
<1>5. TypeOK'
  BY <1>1, <1>2, <1>3, <1>4 DEF Tick, AutosubmitInv, TypeOK
<1>6. NoFalseRecord'
  BY <1>1, <1>2, <1>3, OlderKeepsOrder DEF AutosubmitInv, NoFalseRecord
<1>7. WorkersHoldLock'
  BY <1>3 DEF Tick, AutosubmitInv, WorkersHoldLock, AtWork
<1> QED BY <1>5, <1>6, <1>7 DEF AutosubmitInv

(* The inductive invariant: types, no false record of a run in any copy of the settings, and
   the lock with every run that is at work. *)
THEOREM AutosubmitInvariant == Spec => []AutosubmitInv
<1>1. Init => AutosubmitInv
  BY InitEstablishes
<1>2. AutosubmitInv /\ [Next]_vars => AutosubmitInv'
  <2> SUFFICES ASSUME AutosubmitInv, [Next]_vars PROVE AutosubmitInv'
    OBVIOUS
  <2>1. CASE Tick
    BY <2>1, TickKeeps
  <2>2. ASSUME NEW s \in Schedulers, Fire(s) PROVE AutosubmitInv'
    BY <2>2, FireKeeps
  <2>3. ASSUME NEW p \in Processes, Step(p) \/ UserCommand(p) \/ Crash(p) PROVE AutosubmitInv'
    BY <2>3, ProcessesKeep
  <2>4. CASE UNCHANGED vars
    BY <2>4 DEF vars, AutosubmitInv, TypeOK, NoFalseRecord, WorkersHoldLock, AtWork
  <2> QED BY <2>1, <2>2, <2>3, <2>4 DEF Next
<1> QED BY <1>1, <1>2, PTL DEF Spec

(* However many run, forced or scheduled, and die, one run at most is at work, until its
   outcome is recorded. *)
THEOREM OneRunAlways == Spec => []OneRunAtATime
<1>1. AutosubmitInv => OneRunAtATime
  BY DEF AutosubmitInv, WorkersHoldLock, OneRunAtATime
<1> QED BY <1>1, AutosubmitInvariant, PTL

(* A background run is skipped only after a submission within the interval succeeded. *)
THEOREM SkipsAreEarned == Spec => SkippedOnlyAfterSuccess
<1>1. AutosubmitInv /\ [Next]_vars => [Skipped => since.success < Interval]_vars
  <2> SUFFICES ASSUME AutosubmitInv, Skipped PROVE since.success < Interval
    OBVIOUS
  <2>1. run_decision(settings, FALSE) = "NotDue"
    BY DEF Skipped
  <2>2. ~(settings.last >= Interval)
    BY <2>1 DEF run_decision
  <2> QED
    BY <2>2, TimesAssumption DEF AutosubmitInv, TypeOK, Settings, Ages, NoFalseRecord
<1> QED BY <1>1, AutosubmitInvariant, PTL DEF Spec, SkippedOnlyAfterSuccess
=============================================================================
