------------------------------- MODULE CodexLog -------------------------------
(***************************************************************************)
(* Codex rollouts: the parser of tokens-core/src/sessions/codex.rs, and    *)
(* which rows of a rollout, of its forks and of OpenClaw's mirror of its   *)
(* turns end up counted (the Codex and OpenClaw lanes of lib.rs).          *)
(*                                                                         *)
(* A rollout is a log of lines; a usage line carries the usage of the last *)
(* response and the running total.  A usage is the set of responses it     *)
(* stands for: a total is at most another when it is a subset of it, and a *)
(* response counted twice is in two messages.  An optional value is a set  *)
(* of at most one element; 0 is no thread and NoTurn is no turn id.        *)
(* Timestamps, agents, workspaces and providers are left out.              *)
(***************************************************************************)
EXTENDS Naturals, Sequences, FiniteSets, SequencesExt

CONSTANTS
  Styles, \* how Codex and OpenClaw write: a set of records, see Style
  MaxResponses, MaxTurns, MaxWrites \* bounds: responses, turns, writes to rollouts

Parent  == 1
Child   == 2 \* a fork of Parent
Threads == {Parent, Child} \* each with a rollout of its own

\* totals: what a usage line has.  model: where a model is named.  ids:
\* turn_context names the turn.  v7: turn ids have a time.  announce:
\* task_started precedes turn_context.  user: a human forks.  embeds: a fork
\* starts with its parent's session_meta and copies turns, not only usage.
\* nested: with their task_started.  originator: OpenClaw announces itself.
\* home: Parent is in OpenClaw's own Codex home.  mirrors: OpenClaw mirrors
\* the turns of Parent.  speeds: the speed is changed.  repeats: a usage comes
\* again, or late.  trails: a fork still copies in its first turn.  restored:
\* Parent is put back to an earlier copy.
Style == [totals: {"both", "total", "last"}, model: {"context", "info", "late"},
          ids: BOOLEAN, v7: BOOLEAN, announce: BOOLEAN, user: BOOLEAN,
          embeds: BOOLEAN, nested: BOOLEAN, originator: BOOLEAN, home: BOOLEAN,
          mirrors: BOOLEAN, speeds: BOOLEAN, repeats: BOOLEAN, trails: BOOLEAN,
          restored: BOOLEAN]

ASSUME StylesAreStyles == Styles \subseteq Style
ASSUME BoundsAreNat == {MaxResponses, MaxTurns, MaxWrites} \subseteq Nat

\* Times are before, in and after the millisecond of the fork; v7: the id of the
\* turn has its time.
ForkMs == 1
Turns  == [n: 0 .. MaxTurns, ms: 0 .. 2, v7: BOOLEAN]
NoTurn == [n |-> 0, ms |-> 0, v7 |-> FALSE]
Usage  == SUBSET (1 .. MaxResponses)

VARIABLES
  style,
  log,     \* the lines of each rollout
  thread,  \* what Codex knows of each thread
  turns,   \* the number of turns so far
  truth,   \* of each response: its turn, and whether it ran fast
  writes,  \* the number of writes to rollouts
  mirror,  \* rows of OpenClaw's transcript for Parent
  cache,   \* the stored entry of each rollout, an optional value
  at,      \* where the scan is
  outcome, \* of each rollout in the last scan
  counted  \* the messages the last scan counted

world == <<style, log, thread, turns, truth, writes, mirror>>
scan  == <<cache, at, outcome, counted>>
vars  == <<style, log, thread, turns, truth, writes, mirror, cache, at, outcome, counted>>

Line == [type |-> "other", id |-> 0, from |-> 0, user |-> FALSE, openclaw |-> FALSE,
         turn |-> NoTurn, model |-> {}, last |-> {}, total |-> {}, fast |-> {}]

-----------------------------------------------------------------------------
(* The parser's state: CodexParseState, and what a run of it holds besides *)

FreshState ==
  [model |-> {}, previous |-> {}, meta |-> 0, from |-> 0, child |-> 0, replay |-> 0,
   waiting |-> FALSE, baseline |-> {}, tasks |-> {}, user |-> FALSE, owned |-> FALSE,
   turn |-> NoTurn, announced |-> FALSE, coverage |-> {}, prompted |-> FALSE,
   selected |-> FALSE, fast |-> FALSE]

Run(state, messages) ==
  [s |-> state, messages |-> messages, pending |-> <<>>, unresolved |-> FALSE]

\* A turn id without a time has no place in the order of turns.
codex_uuid_v7_order_key(t) == IF t.v7 THEN {t.ms} ELSE {}

\* Slip: any turn that names itself is the child's.
AnyTurnIsOwn(s, t) == TRUE

\* Whether a turn_context ends the copied history of a forked child.
forked_child_turn_starts_own_session(s, t) ==
  \/ s.replay = 0
  \/ s.child = 0
  \/ t = NoTurn
  \/ \E key \in codex_uuid_v7_order_key(t) : key > ForkMs
  \/ /\ \A key \in codex_uuid_v7_order_key(t) : key = ForkMs
     /\ s.user \/ t \in s.tasks

\* A task_started of a copied turn is of before the fork; one without a time in
\* its id has started_at.
forked_child_task_starts_own_session(s, t) ==
  t # NoTurn /\ s.child # 0 /\ t.ms >= ForkMs

remember_forked_child_inherited_baseline(s, l) ==
  IF l.total = {} THEN s ELSE [s EXCEPT !.previous = l.total, !.baseline = l.total]

forked_child_should_skip_inherited_snapshot(s, l) ==
  \E total \in l.total, inherited \in s.baseline : total \subseteq inherited

\* A total that regresses by about one response is a snapshot out of order.
looks_like_stale_regression(total, previous, last) ==
  /\ previous # {} /\ total # {} /\ last # {}
  /\ Cardinality(total) + 2 * Cardinality(last) >= Cardinality(previous)

-----------------------------------------------------------------------------
(* One line, in the steps parse_codex_reader takes for it *)

flush_pending_model_messages(r, model) ==
  LET named == [i \in DOMAIN r.pending |-> [r.pending[i] EXCEPT !.model = model]]
  IN  [r EXCEPT !.messages = r.messages \o named, !.pending = <<>>]

flush_pending_model_messages_as_unknown(r) ==
  IF r.pending = <<>> THEN r
  ELSE [flush_pending_model_messages(r, {}) EXCEPT !.unresolved = TRUE]

\* task_started and turn_context set the turn; a turn_context without an id
\* keeps what its own task_started announced.
TurnOf(s, l) ==
  LET kept == IF s.announced THEN s.turn ELSE NoTurn
  IN  CASE l.type = "task_started" ->
             [s EXCEPT !.turn = l.turn, !.announced = l.turn # NoTurn]
        [] l.type = "turn_context" ->
             [s EXCEPT !.turn = IF l.turn # NoTurn THEN l.turn ELSE kept, !.announced = FALSE]
        [] OTHER -> s

OwnsSettings(s, l) ==
  IF l.id # 0 THEN l.id = (IF s.child # 0 THEN s.child ELSE s.meta) ELSE ~s.waiting

\* Slip: a switch back to the standard speed takes hold of the turn under way.
SettingsRelabelTheTurn(s, l) ==
  IF l.type = "settings" /\ OwnsSettings(s, l)
  THEN [s EXCEPT !.selected = l.fast = {TRUE}, !.fast = @ /\ l.fast = {TRUE}] ELSE s

\* A settings snapshot counts for the thread it names, or without a name for
\* the thread whose history is being read once no copy is.
thread_settings_applied(s, l) ==
  IF l.type = "settings" /\ OwnsSettings(s, l) THEN [s EXCEPT !.selected = l.fast = {TRUE}] ELSE s

EndReplay(s) ==
  [s EXCEPT !.waiting = FALSE, !.replay = 0, !.tasks = {}, !.user = FALSE,
            !.meta = IF s.child # 0 THEN s.child ELSE @]

\* A line of the copied history: remembered for what it says about the copy.
Replayed(s, l) ==
  CASE l.type = "task_started" /\ forked_child_task_starts_own_session(s, l.turn) ->
         [s EXCEPT !.tasks = @ \cup {l.turn}]
    [] l.type = "session_meta" /\ l.id # 0 /\ s.child # 0 /\ l.id # s.child ->
         [s EXCEPT !.replay = l.id]
    [] l.type = "token_count" -> remember_forked_child_inherited_baseline(s, l)
    [] OTHER -> s

session_meta(s, l) ==
  LET moved    == s.meta # l.id
      repeated == ~s.waiting /\ s.child = l.id
      named    == [s EXCEPT !.owned = @ \/ l.openclaw,
                            !.selected = @ /\ ~moved, !.fast = @ /\ ~moved, !.meta = l.id]
      forked   == [named EXCEPT !.from = l.from, !.child = l.id]
  IN  IF l.from = 0 THEN named
      ELSE IF repeated THEN forked
      ELSE [forked EXCEPT !.waiting = TRUE, !.replay = 0, !.baseline = {},
                          !.tasks = {}, !.user = l.user]

turn_context(r, l) ==
  LET s  == [r.s EXCEPT !.model = l.model, !.fast = r.s.selected /\ l.model # {}]
      r2 == [r EXCEPT !.s = s]
  IN  IF l.model = {} THEN r2 ELSE flush_pending_model_messages(r2, l.model)

\* What a usage line adds, by what it carries and what came before: nothing,
\* or the tokens of a message.
Increment(s, l) ==
  CASE l.total # {} /\ l.last # {} ->
         {last \in l.last : \A total \in l.total, previous \in s.previous :
            /\ total # previous
            /\ \/ previous \subseteq total
               \/ ~looks_like_stale_regression(total, previous, last)}
    [] l.total # {} /\ l.last = {} ->
         IF s.previous = {} THEN l.total
         ELSE {total \ previous : total \in {t \in l.total : \A p \in s.previous : p \subseteq t},
                                  previous \in s.previous}
    [] OTHER -> l.last

NextTotals(s, l) ==
  IF l.total # {} THEN l.total ELSE {previous \cup last : previous \in s.previous, last \in l.last}

\* A total without last usage that goes back is the new baseline all the same.
GoesBack(s, l) ==
  /\ l.last = {}
  /\ \E total \in l.total, previous \in s.previous : ~(previous \subseteq total)

\* The fork's parent is the scope of the key, so that copies collapse.
codex_token_count_dedup_key(s, l, tokens) ==
  IF l.total # {}
  THEN <<"total", IF s.from # 0 THEN s.from ELSE s.meta, s.model, UNION l.total>>
  ELSE <<"row", s.meta, s.model, tokens>>

Message(s, l, tokens) ==
  [owned |-> s.owned, thread |-> s.meta, model |-> s.model, tokens |-> tokens,
   fast |-> s.fast /\ s.model # {}, prompt |-> s.prompted,
   key |-> codex_token_count_dedup_key(s, l, tokens)]

token_count(r0, l) ==
  LET model == IF l.model # {} THEN l.model ELSE r0.s.model
      r1 == IF model = {} THEN r0
            ELSE flush_pending_model_messages([r0 EXCEPT !.s = [r0.s EXCEPT !.model = model]], model)
      s  == [r1.s EXCEPT !.baseline = {}]
      r  == [r1 EXCEPT !.s = s]
      new == {tokens \in Increment(s, l) : tokens # {}}
  IN  IF forked_child_should_skip_inherited_snapshot(r1.s, l) THEN r1
      ELSE IF new = {}
      THEN IF GoesBack(s, l) THEN [r1 EXCEPT !.s = [s EXCEPT !.previous = l.total]] ELSE r
      ELSE LET m  == Message(s, l, CHOOSE t \in new : TRUE)
               s2 == [s EXCEPT !.previous = NextTotals(s, l),
                               !.coverage = s.coverage \cup {s.turn},
                               !.announced = FALSE,
                               !.prompted = FALSE]
               r2 == [r1 EXCEPT !.s = s2]
           IN  IF model # {} THEN [r2 EXCEPT !.messages = Append(r2.messages, m)]
               ELSE [r2 EXCEPT !.pending = Append(r2.pending, m)]

parse_line(r, l) ==
  LET s    == thread_settings_applied(TurnOf(r.s, l), l)
      ends == /\ s.waiting
              /\ l.type = "turn_context"
              /\ forked_child_turn_starts_own_session(s, l.turn)
      r1   == [r EXCEPT !.s = IF ends THEN EndReplay(s) ELSE s]
      r2   == IF l.model = {} /\ l.type \notin {"token_count", "session_meta"}
              THEN flush_pending_model_messages_as_unknown(r1) ELSE r1
  IN  IF s.waiting /\ ~ends THEN [r EXCEPT !.s = Replayed(s, l)]
      ELSE CASE l.type = "session_meta" -> [r2 EXCEPT !.s = session_meta(r2.s, l)]
             [] l.type = "turn_context" -> turn_context(r2, l)
             [] l.type = "user_message" -> [r2 EXCEPT !.s = [r2.s EXCEPT !.prompted = TRUE]]
             [] l.type = "token_count"  -> token_count(r2, l)
             [] OTHER -> r2

\* The reader from state on; at the end of the file no model comes any more.
parse_codex_reader(state, messages, lines) ==
  flush_pending_model_messages_as_unknown(
    FoldLeft(parse_line, Run(state, messages), lines))

FullParse(lines) == parse_codex_reader(FreshState, <<>>, lines)

-----------------------------------------------------------------------------
(* Codex and OpenClaw *)

Thread == [live: BOOLEAN, turn: Turns, total: Usage, copied: Usage, fast: BOOLEAN,
           runs: BOOLEAN, last: Usage]
NoThread == [live |-> FALSE, turn |-> NoTurn, total |-> {}, copied |-> {},
             fast |-> FALSE, runs |-> FALSE, last |-> {}]

Forked == thread[Child].live

\* A result is looked at before anything else happens.
Write(t, lines) ==
  /\ at # "counted"
  /\ writes < MaxWrites
  /\ writes' = writes + 1
  /\ log' = [log EXCEPT ![t] = @ \o lines]
  /\ UNCHANGED <<style, scan>>

Announces(t) == IF t = Parent THEN style.announce ELSE ~style.user
Named(t, turn) == IF style.ids \/ Announces(t) THEN turn ELSE NoTurn

\* A turn, of a human in Parent and in a human's fork.  In the millisecond of
\* the fork: the child's own turn, or a last turn of Parent that the fork does
\* not announce again.
BeginTurn(t) ==
  /\ thread[t].live
  /\ turns < MaxTurns
  /\ turns' = turns + 1
  /\ \E ms \in IF Forked THEN {1, 2}
                ELSE IF style.user \/ style.nested \/ ~style.v7 THEN {0} ELSE {0, 1} :
       LET turn  == [n |-> turns + 1, ms |-> ms, v7 |-> style.v7]
           named == style.model = "context" \/ (style.model = "late" /\ turns > 0)
       IN  /\ \A i \in DOMAIN log[t] : log[t][i].turn.ms <= ms
           /\ thread' = [thread EXCEPT ![t].turn = turn, ![t].last = {},
                                       ![t].runs = thread[t].fast /\ named]
           /\ Write(t,
                (IF Announces(t) THEN <<[Line EXCEPT !.type = "task_started", !.turn = turn]>>
                                 ELSE <<>>)
                \o <<[Line EXCEPT !.type = "turn_context",
                                  !.turn = IF style.ids THEN turn ELSE NoTurn,
                                  !.model = IF named THEN {"m"} ELSE {}]>>
                \o (IF t = Parent \/ style.user
                    THEN <<[Line EXCEPT !.type = "user_message"]>> ELSE <<>>))
  /\ UNCHANGED <<truth, mirror>>

UsageLine(total, last) ==
  [Line EXCEPT !.type = "token_count",
               !.model = IF style.model = "info" THEN {"m"} ELSE {},
               !.total = IF style.totals = "last" THEN {} ELSE {total},
               !.last = IF style.totals = "total" THEN {} ELSE {last}]

\* A response of the turn; other lines matter to a row whose model is to come.
Respond(t) ==
  LET new   == Len(truth) + 1
      total == thread[t].total \cup {new}
  IN  /\ thread[t].turn # NoTurn
      /\ new <= MaxResponses
      /\ truth' = Append(truth, [thread |-> t, turn |-> thread[t].turn,
                                 fast |-> thread[t].runs])
      /\ thread' = [thread EXCEPT ![t].total = total, ![t].last = {new}]
      /\ \E noise \in IF style.model = "late" THEN {<<>>, <<Line>>} ELSE {<<>>} : Write(t, noise \o <<UsageLine(total, {new})>>)
      /\ UNCHANGED <<turns, mirror>>

\* The same usage again, or the one before it out of order.
Repeat(t) ==
  /\ style.repeats
  /\ thread[t].last # {}
  /\ style.totals # "last"
  /\ \/ Write(t, <<UsageLine(thread[t].total, thread[t].last)>>)
     \/ /\ style.totals = "both"
        /\ \E before \in thread[t].total \ (thread[t].last \cup thread[t].copied) :
             Write(t, <<UsageLine(thread[t].total \ thread[t].last, {before})>>)
  /\ UNCHANGED <<thread, turns, truth, mirror>>

\* The speed selected for the thread; older Codex leaves its name out.
Select(t) ==
  /\ style.speeds
  /\ thread[t].live
  /\ thread[t].turn # NoTurn \/ t = Parent
  /\ thread' = [thread EXCEPT ![t].fast = ~@]
  /\ \E id \in {t, 0} :
       Write(t, <<[Line EXCEPT !.type = "settings", !.id = id, !.fast = {~thread[t].fast}]>>)
  /\ UNCHANGED <<turns, truth, mirror>>

\* Parent's lines at these positions, in their order.
ParentLines(positions) ==
  [n \in 1 .. Cardinality(positions) |->
     log[Parent][CHOOSE i \in positions : Cardinality({j \in positions : j <= i}) = n]]

\* A fork copies what Parent's rollout has, with or without its session_meta.
Fork ==
  LET copied(l) == IF style.embeds THEN l.type # "task_started" \/ style.nested
                   ELSE l.type = "token_count"
      copies == ParentLines({i \in 2 .. Len(log[Parent]) : copied(log[Parent][i])})
  IN  /\ ~Forked
      /\ thread' = [thread EXCEPT ![Child] =
           [NoThread EXCEPT !.live = TRUE, !.total = thread[Parent].total,
                            !.copied = thread[Parent].total]]
      /\ Write(Child, <<[Line EXCEPT !.type = "session_meta", !.id = Child, !.from = Parent,
                                     !.user = style.user]>>
                      \o (IF style.embeds THEN <<log[Parent][1]>> ELSE <<>>)
                      \o copies)
      /\ UNCHANGED <<turns, truth, mirror>>

\* More copies, after the child's first turn_context.
CopyLate ==
  /\ style.trails
  /\ thread[Child].turn # NoTurn
  /\ thread[Child].total = thread[Child].copied
  /\ style.totals # "last"
  /\ \E i \in DOMAIN log[Child] :
       /\ log[Child][i].type = "token_count"
       /\ Write(Child, <<log[Child][i]>>)
  /\ UNCHANGED <<thread, turns, truth, mirror>>

\* The rollout is restored from a copy that lacks its last response.
RollBack ==
  /\ style.restored
  /\ at # "counted"
  /\ ~Forked
  /\ thread[Parent].last # {}
  /\ {i \in DOMAIN log[Parent] : log[Parent][i].type = "token_count"
        /\ thread[Parent].last \subseteq UNION (log[Parent][i].total \cup log[Parent][i].last)}
       = {Len(log[Parent])}
  /\ log' = [log EXCEPT ![Parent] = Front(@)]
  /\ thread' = [thread EXCEPT ![Parent].total = @ \ thread[Parent].last,
                              ![Parent].last = {}]
  /\ writes < MaxWrites
  /\ writes' = writes + 1
  /\ UNCHANGED <<style, turns, truth, mirror, scan>>

\* OpenClaw notes the last response of a turn it drove.
Mirror ==
  LET row == [turn |-> Named(Parent, thread[Parent].turn), tokens |-> thread[Parent].last]
  IN  /\ style.mirrors
      /\ at # "counted"
      /\ thread[Parent].last # {}
      /\ row \notin mirror
      /\ mirror' = mirror \cup {row}
      /\ thread' = [thread EXCEPT ![Parent].last = {}, ![Parent].turn = NoTurn]
      /\ UNCHANGED <<style, log, turns, truth, writes, scan>>

-----------------------------------------------------------------------------
(* A scan: load_or_parse_codex_source for each rollout, then the lanes *)

NoEntry == {}
NotRead == [at |-> "none", lines |-> <<>>, tail |-> "newline", resumed |-> FALSE,
            run |-> Run(FreshState, <<>>), entry |-> NoEntry, drop |-> FALSE, rows |-> {}]

Exists(t) == log[t] # <<>>

StartScan ==
  /\ at = "idle"
  /\ at' = "read"
  /\ outcome' = [t \in Threads |-> IF Exists(t) THEN [NotRead EXCEPT !.at = "todo"] ELSE NotRead]
  /\ counted' = <<>>
  /\ UNCHANGED <<world, cache>>

Resumes(e, lines) == IsStrictPrefix(e.lines, lines)

\* Reads the rollout as it is by now: the entry as it is, its messages and the
\* new lines on top of its state, or the whole file.  The file ends in a line
\* with or without its newline, or in a piece of the next line.
load_or_parse_codex_source(t) ==
  LET lines == log[t]
      o     == outcome[t]
      e     == CHOOSE x \in cache[t] : TRUE
      warm  == o.at = "todo" /\ cache[t] # NoEntry
  IN  /\ at = "read"
      /\ o.at \in {"todo", "again"}
      /\ \E tail \in {"newline", "bare", "cut"} :
           LET more  == IF warm /\ tail # "newline" /\ e.lines = lines THEN TRUE
                        ELSE warm /\ Resumes(e, lines)
               tailRun == parse_codex_reader(e.state, e.messages,
                                             SubSeq(lines, Len(e.lines) + 1, Len(lines)))
               full  == FullParse(lines)
           IN  outcome' = [outcome EXCEPT ![t] =
                 IF warm /\ e.lines = lines /\ tail = "newline"
                 THEN [o EXCEPT !.at = "done", !.lines = lines,
                                !.run = Run(e.state, e.messages)]
                 ELSE IF more /\ tail # "cut" /\ ~tailRun.unresolved
                 THEN [o EXCEPT !.at = "parsed", !.lines = lines, !.tail = tail,
                                !.resumed = TRUE, !.run = tailRun]
                 ELSE IF warm THEN [o EXCEPT !.at = "again"]
                 ELSE [o EXCEPT !.at = IF tail = "cut" \/ full.unresolved THEN "done" ELSE "parsed",
                                !.lines = lines, !.tail = tail, !.resumed = FALSE,
                                !.run = full, !.drop = cache[t] # NoEntry]]
      /\ UNCHANGED <<world, cache, at, counted>>

\* Slip: does not look at the file again.
BuildUnchecked(t) ==
  {[lines |-> log[t], state |-> outcome[t].run.s, messages |-> outcome[t].run.messages]}

\* Only what was read to the end of the file as it is now, and to the end of a
\* line, is stored.  Two contents of one size are taken to be the same.
build_codex_cache_entry(t) ==
  IF log[t] = outcome[t].lines /\ outcome[t].tail = "newline"
  THEN {[lines |-> log[t], state |-> outcome[t].run.s, messages |-> outcome[t].run.messages]}
  ELSE NoEntry

Build(t) ==
  LET o     == outcome[t]
      entry == build_codex_cache_entry(t)
  IN  /\ at = "read"
      /\ o.at = "parsed"
      /\ outcome' = [outcome EXCEPT ![t] =
           IF entry = NoEntry /\ o.resumed THEN [o EXCEPT !.at = "again"]
           ELSE [o EXCEPT !.at = "done", !.entry = entry, !.drop = o.drop /\ entry = NoEntry]]
      /\ UNCHANGED <<world, cache, at, counted>>

\* The messages of a rollout, under OpenClaw if that is where it lies.
MessagesOf(t) ==
  [i \in DOMAIN outcome[t].run.messages |->
     [outcome[t].run.messages[i] EXCEPT !.owned = @ \/ (t = Parent /\ style.home)]]

InOrder == MessagesOf(Parent) \o MessagesOf(Child)

\* The first message with its key is kept, in each lane.
should_keep_deduped_message(i) ==
  \A j \in 1 .. i - 1 :
    InOrder[j].owned = InOrder[i].owned => InOrder[j].key # InOrder[i].key

codex_lane ==
  {i \in DOMAIN InOrder : ~InOrder[i].owned /\ should_keep_deduped_message(i)}
openclaw_owned_rollouts ==
  {i \in DOMAIN InOrder : InOrder[i].owned /\ should_keep_deduped_message(i)}

\* Slip: the thread's rollout stands for each of its turns.
CoversTheThread(turn) == outcome[Parent].run.messages # <<>>

\* Whether the rollout of Parent recorded the turn of a mirror row; without
\* turn ids it stands for the whole thread.
covers(turn) ==
  LET coverage == outcome[Parent].run.s.coverage
  IN  /\ outcome[Parent].run.messages # <<>>
      /\ \/ NoTurn \in coverage \/ coverage = {}
         \/ turn \in coverage

MirrorRows == {row \in mirror : ~covers(row.turn)}

MirrorMessage(row) ==
  [owned |-> TRUE, thread |-> Parent, model |-> {"m"}, tokens |-> row.tokens,
   fast |-> FALSE, prompt |-> FALSE, key |-> <<"mirror", Parent, {"m"}, row.tokens>>]

\* What is counted, by where it comes from.
Lanes ==
  [place \in ({"rollout"} \X (codex_lane \cup openclaw_owned_rollouts))
               \cup ({"mirror"} \X MirrorRows) |->
     IF place[1] = "rollout" THEN InOrder[place[2]] ELSE MirrorMessage(place[2])]

\* Slip: does not wait for the rollouts still being read.
CountEarly ==
  /\ at = "read"
  /\ at' = "counted"
  /\ counted' = Lanes
  /\ UNCHANGED <<world, cache, outcome>>

\* The lanes, and the save, of which any part may fail.
Count ==
  /\ at = "read"
  /\ \A t \in Threads : outcome[t].at \in {"none", "done"}
  /\ at' = "counted"
  /\ counted' = Lanes
  /\ outcome' = [outcome EXCEPT ![Parent].rows = mirror]
  /\ \E saved \in SUBSET Threads :
       cache' = [t \in Threads |->
         IF t \notin saved THEN cache[t]
         ELSE IF outcome[t].entry # NoEntry THEN outcome[t].entry
         ELSE IF outcome[t].drop THEN NoEntry ELSE cache[t]]
  /\ UNCHANGED world

\* The command dies, or is done.
Stop ==
  /\ at # "idle"
  /\ at' = "idle"
  /\ outcome' = [t \in Threads |-> NotRead]
  /\ counted' = <<>>
  /\ UNCHANGED <<world, cache>>

Init ==
  /\ style \in Styles
  /\ log = [t \in Threads |-> IF t = Parent
              THEN <<[Line EXCEPT !.type = "session_meta", !.id = Parent,
                                  !.openclaw = style.originator]>>
              ELSE <<>>]
  /\ thread = [t \in Threads |-> [NoThread EXCEPT !.live = t = Parent]]
  /\ turns = 0
  /\ truth = <<>>
  /\ writes = 0
  /\ mirror = {}
  /\ cache = [t \in Threads |-> NoEntry]
  /\ at = "idle"
  /\ outcome = [t \in Threads |-> NotRead]
  /\ counted = <<>>

Codex ==
  \/ \E t \in Threads : BeginTurn(t) \/ Respond(t) \/ Repeat(t) \/ Select(t)
  \/ Fork
  \/ CopyLate
  \/ RollBack
  \/ Mirror

Scan ==
  \/ StartScan
  \/ \E t \in Threads : load_or_parse_codex_source(t) \/ Build(t)
  \/ Count
  \/ Stop

Next == Codex \/ Scan

Spec == Init /\ [][Next]_vars

-----------------------------------------------------------------------------
(* Properties *)

TypeOK ==
  /\ style \in Styles
  /\ turns \in 0 .. MaxTurns
  /\ thread \in [Threads -> Thread]
  /\ Len(truth) <= MaxResponses
  /\ writes \in 0 .. MaxWrites
  /\ at \in {"idle", "read", "counted"}
  /\ \A t \in Threads :
       /\ Cardinality(cache[t]) <= 1
       /\ outcome[t].at \in {"none", "todo", "again", "parsed", "done"}
       /\ at # "read" => outcome[t].at \in {"none", "done"}

\* However often the reader stopped and went on, a stored entry is what a parse
\* of its lines from the start gives, and so are the messages of a scan and the
\* turns it knows: nothing a row still waited for was lost when the parser
\* stopped, and nothing that was written while it read went unnoticed.
ParsesAreFullParses ==
  /\ \A t \in Threads : \A e \in cache[t] :
       LET full == FullParse(e.lines)
       IN  full.s = e.state /\ full.messages = e.messages
  /\ at = "counted" => \A t \in Threads :
       LET full == FullParse(outcome[t].lines)
       IN  /\ full.messages = outcome[t].run.messages
           /\ full.s.coverage = outcome[t].run.s.coverage

Responses == DOMAIN truth
Counting(r) == {i \in DOMAIN counted : r \in counted[i].tokens}

OwnIn(t) ==
  {r \in Responses : truth[r].thread = t /\ \E i \in DOMAIN outcome[t].lines :
     \E usage \in outcome[t].lines[i].total \cup outcome[t].lines[i].last : r \in usage}

\* Every response a rollout had when it was read is counted, the first of a
\* fork after its copies too; and of every turn OpenClaw mirrors and names,
\* some response is.
NothingLeftOut ==
  /\ \A t \in Threads : \A r \in OwnIn(t) : Counting(r) # {}
  /\ style.ids => \A row \in outcome[Parent].rows :
       \E r \in Responses : truth[r].turn = row.turn /\ Counting(r) # {}

\* The ways of writing in which a fork's copies can be told from its own lines:
\* its copied turns have ids that say when they were, or its own turns are
\* announced; and no copy follows a total that came late.
Readable(st) ==
  /\ st.embeds => st.ids /\ (st.v7 \/ ~st.user)
  /\ ~(st.repeats /\ st.totals = "both" /\ st.trails)

\* Every response is counted once. None is counted twice, by a repeated or
\* stale row, in the copies of a fork or in OpenClaw's mirror of a turn, and
\* none is left out for looking like one of these.
CountedOnce ==
  /\ \A r \in Responses : Cardinality(Counting(r)) <= 1
  /\ at = "counted" => NothingLeftOut

\* A prompt marks one message of its turn at most, and a turn without a prompt
\* has none: the prompts a fork copies do not mark its own work.
PromptsMarkTheirTurn ==
  \A i, j \in DOMAIN counted : counted[i].prompt =>
    \A r \in counted[i].tokens :
      /\ truth[r].thread = Child => style.user
      /\ counted[j].prompt /\ i # j =>
           \A q \in counted[j].tokens : truth[q].turn # truth[r].turn

\* The speed of a message that a rollout records is the one its turn began with, fast or
\* not: no change relabels a turn under way, in either direction, nor do settings of the
\* thread a fork copies.  (OpenClaw's mirror has no speeds.)
SpeedIsTheTurns ==
  \A i \in DOMAIN counted : i[1] = "rollout" =>
    \A r \in counted[i].tokens : counted[i].fast <=> truth[r].fast
=============================================================================
