--------------------------- MODULE CodexCountProofs ---------------------------
(***************************************************************************)
(* What the Codex parser counts: every response once, at the speed and     *)
(* with the prompt of its turn, for every way of writing that the parser   *)
(* can tell the copies of a fork in.                                       *)
(***************************************************************************)
EXTENDS CodexLogProofs

-----------------------------------------------------------------------------
(* The parser's state, and its rows: the messages and those that wait for a *)
(* model, whose order a model that comes does not change                    *)

StateFields ==
  {"model", "previous", "meta", "from", "child", "replay", "waiting", "baseline", "tasks",
   "user", "owned", "turn", "announced", "coverage", "prompted", "selected", "fast"}
IsState(s) == s = [f \in StateFields |-> s[f]] /\ (s.fast => s.model # {})

\* What a step leaves alone.
AllBut(changed, s, q) == IsState(q) /\ \A f \in StateFields \ changed : q[f] = s[f]

RowFields == {"owned", "thread", "model", "tokens", "fast", "prompt", "key"}
IsRow(m) == m = [f \in RowFields |-> m[f]]
AreRows(x) == IsSeq(x) /\ \A i \in 1 .. Len(x) : IsRow(x[i])

RunOK(r) == IsRun(r) /\ IsState(r.s) /\ AreRows(r.messages) /\ AreRows(r.pending)

Size(r) == Len(r.messages) + Len(r.pending)
Row(r, i) ==
  IF i <= Len(r.messages) THEN r.messages[i] ELSE r.pending[i - Len(r.messages)]

SameRow(a, b) ==
  a.tokens = b.tokens /\ a.fast = b.fast /\ a.prompt = b.prompt /\ a.key = b.key

\* q has the rows of r, and then m, but for the models.
Keeps(r, q) ==
  /\ RunOK(q) /\ Size(q) = Size(r)
  /\ \A i \in 1 .. Size(r) : SameRow(Row(r, i), Row(q, i))
Adds(m, r, q) ==
  /\ RunOK(q) /\ Size(q) = Size(r) + 1
  /\ \A i \in 1 .. Size(r) : SameRow(Row(r, i), Row(q, i))
  /\ SameRow(m, Row(q, Size(r) + 1))

LEMMA Lengths ==
  ASSUME NEW x, IsSeq(x)
  PROVE  Len(x) \in Nat /\ DOMAIN x = 1 .. Len(x)
BY DEF IsSeq

LEMMA AppendedRows ==
  ASSUME NEW x, AreRows(x), NEW m, IsRow(m)
  PROVE  /\ AreRows(Append(x, m)) /\ Len(Append(x, m)) = Len(x) + 1
         /\ \A i \in 1 .. Len(x) : Append(x, m)[i] = x[i]
         /\ Append(x, m)[Len(x) + 1] = m
<1>1. PICK T : x \in Seq(T)
  BY DEF AreRows, IsSeq
<1>2. x \in Seq(T \cup {m}) /\ m \in T \cup {m}
  BY <1>1, SeqMonotonic
<1> DEFINE y == Append(x, m)
<1>3. /\ y \in Seq(T \cup {m}) /\ Len(y) = Len(x) + 1
      /\ \A i \in 1 .. Len(x) : y[i] = x[i]
      /\ y[Len(x) + 1] = m
  BY <1>2
<1>4. Len(x) \in Nat
  BY <1>1
<1> HIDE DEF y
<1>5. AreRows(y)
  <2>1. IsSeq(y)
    BY <1>3, Zenon DEF IsSeq
  <2>2. ASSUME NEW i \in 1 .. Len(y) PROVE IsRow(y[i])
    <3>1. i \in 1 .. Len(x) \/ i = Len(x) + 1
      BY <1>3, <1>4
    <3> QED BY <1>3, <3>1 DEF AreRows
  <2> QED BY <2>1, <2>2 DEF AreRows
<1> QED BY <1>3, <1>5 DEF y

LEMMA JoinedRows ==
  ASSUME NEW x, AreRows(x), NEW y, AreRows(y)
  PROVE  /\ AreRows(x \o y) /\ Len(x \o y) = Len(x) + Len(y)
         /\ \A i \in 1 .. Len(x) + Len(y) :
              (x \o y)[i] = IF i <= Len(x) THEN x[i] ELSE y[i - Len(x)]
<1>1. PICK S : x \in Seq(S)
  BY DEF AreRows, IsSeq
<1>2. PICK T : y \in Seq(T)
  BY DEF AreRows, IsSeq
<1>3. x \in Seq(S \cup T) /\ y \in Seq(S \cup T)
  BY <1>1, <1>2, SeqMonotonic
<1> DEFINE z == x \o y
<1>4. /\ z \in Seq(S \cup T) /\ Len(z) = Len(x) + Len(y)
      /\ \A i \in 1 .. Len(x) + Len(y) : z[i] = IF i <= Len(x) THEN x[i] ELSE y[i - Len(x)]
  BY <1>3, ConcatProperties
<1>5. Len(x) \in Nat /\ Len(y) \in Nat
  BY <1>1, <1>2
<1> HIDE DEF z
<1>6. AreRows(z)
  <2>1. IsSeq(z)
    BY <1>4, Zenon DEF IsSeq
  <2>2. ASSUME NEW i \in 1 .. Len(z) PROVE IsRow(z[i])
    <3>1. i \in 1 .. Len(x) \/ (~(i <= Len(x)) /\ i - Len(x) \in 1 .. Len(y))
      BY <1>4, <1>5
    <3>2. i \in 1 .. Len(x) + Len(y)
      BY <1>4, <1>5
    <3>3. z[i] = IF i <= Len(x) THEN x[i] ELSE y[i - Len(x)]
      BY <1>4, <3>2
    <3>4. CASE i \in 1 .. Len(x)
      BY <1>5, <3>3, <3>4 DEF AreRows
    <3>5. CASE ~(i <= Len(x)) /\ i - Len(x) \in 1 .. Len(y)
      BY <3>3, <3>5 DEF AreRows
    <3> QED BY <3>1, <3>4, <3>5
  <2> QED BY <2>1, <2>2 DEF AreRows
<1> QED BY <1>4, <1>6 DEF z

LEMMA NoRows == AreRows(<<>>) /\ Len(<<>>) = 0
BY ShortSeqs DEF AreRows

LEMMA KeepsAll ==
  /\ \A r : RunOK(r) => Keeps(r, r)
  /\ \A r, q, p : Keeps(r, q) /\ Keeps(q, p) => Keeps(r, p)
  /\ \A r, q, p, m : Keeps(r, q) /\ Adds(m, q, p) => Adds(m, r, p)
BY DEF Keeps, Adds, SameRow

LEMMA OtherState ==
  ASSUME NEW r, RunOK(r), NEW s, IsState(s)
  PROVE  Keeps(r, [r EXCEPT !.s = s]) /\ [r EXCEPT !.s = s].s = s
<1> DEFINE q == [r EXCEPT !.s = s]
<1>1. /\ IsRun(q) /\ q.s = s /\ q.messages = r.messages /\ q.pending = r.pending
  BY DEF RunOK, IsRun, RunFields
<1> HIDE DEF q
<1>2. Keeps(r, q)
  BY <1>1 DEF RunOK, Keeps, Size, Row, SameRow
<1> QED BY <1>1, <1>2 DEF q

LEMMA FlushKeeps ==
  ASSUME NEW r, RunOK(r), NEW model
  PROVE  /\ Keeps(r, flush_pending_model_messages(r, model))
         /\ flush_pending_model_messages(r, model).s = r.s
         /\ flush_pending_model_messages(r, model).pending = <<>>
         /\ Keeps(r, flush_pending_model_messages_as_unknown(r))
         /\ flush_pending_model_messages_as_unknown(r).s = r.s
<1>1. ASSUME NEW m
      PROVE  /\ Keeps(r, flush_pending_model_messages(r, m))
             /\ flush_pending_model_messages(r, m).s = r.s
             /\ flush_pending_model_messages(r, m).pending = <<>>
  <2> DEFINE named == [i \in DOMAIN r.pending |-> [r.pending[i] EXCEPT !.model = m]]
             ms == r.messages \o named
             q == [r EXCEPT !.messages = ms, !.pending = <<>>]
  <2>1. flush_pending_model_messages(r, m) = q
    BY Zenon DEF flush_pending_model_messages
  <2>2. AreRows(r.messages) /\ AreRows(r.pending)
    BY DEF RunOK
  <2>3. Len(r.messages) \in Nat /\ Len(r.pending) \in Nat /\ DOMAIN r.pending = 1 .. Len(r.pending)
    BY <2>2, Lengths DEF AreRows
  <2>4. /\ AreRows(named) /\ Len(named) = Len(r.pending)
        /\ \A i \in 1 .. Len(r.pending) : SameRow(r.pending[i], named[i])
    <3>1. named \in Seq({named[i] : i \in 1 .. Len(r.pending)}) /\ Len(named) = Len(r.pending)
      <4> DEFINE f(i) == [r.pending[i] EXCEPT !.model = m]
                 n == Len(r.pending)
      <4>1. named = [i \in 1 .. n |-> f(i)] /\ n \in Nat
        BY <2>3
      <4> HIDE DEF f, n, named
      <4>2. named \in [1 .. n -> {named[i] : i \in 1 .. n}] /\ DOMAIN named = 1 .. n
        BY <4>1
      <4>3. named \in Seq({named[i] : i \in 1 .. n})
        BY <4>1, <4>2, SeqDef
      <4>4. Len(named) = n
        BY <4>1, <4>2, <4>3, LenProperties
      <4> QED BY <4>3, <4>4 DEF n
    <3>2. \A i \in 1 .. Len(r.pending) : IsRow(named[i]) /\ SameRow(r.pending[i], named[i])
      BY <2>2, <2>3 DEF AreRows, IsRow, RowFields, SameRow
    <3> HIDE DEF named
    <3>3. IsSeq(named)
      BY <3>1, Zenon DEF IsSeq
    <3> QED BY <3>1, <3>2, <3>3 DEF AreRows
  <2> HIDE DEF named
  <2>5. /\ AreRows(ms) /\ Len(ms) = Len(r.messages) + Len(r.pending)
        /\ \A i \in 1 .. Len(r.messages) + Len(r.pending) :
             ms[i] = IF i <= Len(r.messages) THEN r.messages[i] ELSE named[i - Len(r.messages)]
    <3>1. /\ AreRows(ms) /\ Len(ms) = Len(r.messages) + Len(named)
          /\ \A i \in 1 .. Len(r.messages) + Len(named) :
               ms[i] = IF i <= Len(r.messages) THEN r.messages[i] ELSE named[i - Len(r.messages)]
      BY <2>2, <2>4, JoinedRows
    <3> HIDE DEF ms
    <3> QED BY <2>4, <3>1
  <2> HIDE DEF ms
  <2>6. IsRun(q) /\ q.s = r.s /\ q.messages = ms /\ q.pending = <<>>
    BY DEF RunOK, IsRun, RunFields
  <2> HIDE DEF q
  <2>7. RunOK(q)
    BY <2>5, <2>6, NoRows DEF RunOK
  <2>8. Size(q) = Size(r)
    <3>1. Len(q.messages) = Len(r.messages) + Len(r.pending) /\ Len(q.pending) = 0
      BY <2>5, <2>6, NoRows
    <3> QED BY <2>3, <3>1 DEF Size
  <2>9. ASSUME NEW i \in 1 .. Size(r) PROVE SameRow(Row(r, i), Row(q, i))
    <3> DEFINE a == Len(r.messages)
               b == Len(r.pending)
    <3>1. i \in 1 .. a + b /\ a \in Nat /\ b \in Nat
      BY <2>3 DEF Size
    <3>2. Len(ms) = a + b /\ ms[i] = IF i <= a THEN r.messages[i] ELSE named[i - a]
      BY <2>5, <3>1
    <3>3. Row(r, i) = IF i <= a THEN r.messages[i] ELSE r.pending[i - a]
      BY DEF Row
    <3>4. SameRow(Row(r, i), ms[i])
      <4>1. i <= a \/ i - a \in 1 .. b
        <5> HIDE DEF a, b
        <5> QED BY <3>1
      <4> HIDE DEF a
      <4> QED BY <2>4, <3>2, <3>3, <4>1 DEF SameRow
    <3>5. Row(q, i) = ms[i]
      <4>1. i <= Len(ms)
        <5> HIDE DEF a, b
        <5> QED BY <3>1, <3>2
      <4> QED BY <2>6, <4>1 DEF Row
    <3> QED BY <3>4, <3>5
  <2>10. Keeps(r, q)
    BY <2>7, <2>8, <2>9 DEF Keeps
  <2> QED BY <2>1, <2>6, <2>10
<1>2. CASE r.pending = <<>>
  <2>1. flush_pending_model_messages_as_unknown(r) = r
    BY <1>2, Zenon DEF flush_pending_model_messages_as_unknown
  <2> QED BY <1>1, <2>1, KeepsAll
<1>3. CASE r.pending # <<>>
  <2> DEFINE f == flush_pending_model_messages(r, {})
             q == [f EXCEPT !.unresolved = TRUE]
  <2>1. flush_pending_model_messages_as_unknown(r) = q
    BY <1>3, Zenon DEF flush_pending_model_messages_as_unknown
  <2>2. Keeps(r, f) /\ f.s = r.s
    BY <1>1
  <2> HIDE DEF f
  <2>3. IsRun(q) /\ q.s = f.s /\ q.messages = f.messages /\ q.pending = f.pending
    BY <2>2 DEF Keeps, RunOK, IsRun, RunFields
  <2> HIDE DEF q
  <2>4. Keeps(r, q)
    BY <2>2, <2>3 DEF Keeps, RunOK, Size, Row
  <2> QED BY <1>1, <2>1, <2>2, <2>3, <2>4
<1> QED BY <1>2, <1>3

-----------------------------------------------------------------------------
(* What a line does to the state and to the rows *)

LEMMA Unchanged ==
  /\ \A s : IsState(s) => AllBut({}, s, s)
  /\ \A c, d, s, q, p : AllBut(c, s, q) /\ AllBut(d, q, p) => AllBut(c \cup d, s, p)
BY DEF AllBut

LEMMA TurnState ==
  ASSUME NEW s, IsState(s), NEW l
  PROVE  /\ AllBut({"turn", "announced"}, s, TurnOf(s, l))
         /\ l.type = "task_started" => /\ TurnOf(s, l).turn = l.turn
                                       /\ TurnOf(s, l).announced <=> l.turn # NoTurn
         /\ l.type = "turn_context" =>
              /\ TurnOf(s, l).turn = IF l.turn # NoTurn THEN l.turn
                                     ELSE IF s.announced THEN s.turn ELSE NoTurn
              /\ ~TurnOf(s, l).announced
         /\ l.type \notin {"task_started", "turn_context"} => TurnOf(s, l) = s
BY DEF TurnOf, AllBut, IsState, StateFields

LEMMA SettingsState ==
  ASSUME NEW s, IsState(s), NEW l
  PROVE  LET q == thread_settings_applied(s, l)
         IN  /\ AllBut({"selected"}, s, q)
             /\ l.type # "settings" => q = s
             /\ s.child # 0 /\ s.child # l.id /\ s.waiting => q = s
             /\ ~s.waiting /\ l.id \in {0, IF s.child # 0 THEN s.child ELSE s.meta}
                  /\ l.type = "settings" => (q.selected <=> l.fast = {TRUE})
BY DEF thread_settings_applied, OwnsSettings, AllBut, IsState, StateFields

\* Of a copied line, the parser keeps what it says about the copies.
IsCopy(s, l) ==
  /\ s.waiting /\ s.child # 0 /\ l.id # s.child
  /\ l.type = "turn_context" => ~forked_child_turn_starts_own_session(s, l.turn)

CopiedLineDoes(r, l, q) ==
  LET marks == l.type = "task_started" /\ forked_child_task_starts_own_session(r.s, l.turn)
      names == l.type = "session_meta" /\ l.id # 0
      totals == l.type = "token_count" /\ l.total # {}
  IN  /\ Keeps(r, q)
      /\ AllBut({"turn", "announced", "tasks", "replay", "previous", "baseline"}, r.s, q.s)
      /\ q.s.tasks = IF marks THEN r.s.tasks \cup {l.turn} ELSE r.s.tasks
      /\ q.s.replay = IF names THEN l.id ELSE r.s.replay
      /\ q.s.previous = IF totals THEN l.total ELSE r.s.previous
      /\ q.s.baseline = IF totals THEN l.total ELSE r.s.baseline

LEMMA CopiedLine ==
  ASSUME NEW r, RunOK(r), NEW l, IsCopy(r.s, l)
  PROVE  CopiedLineDoes(r, l, parse_line(r, l))
<1> USE DEF IsCopy, CopiedLineDoes
<1> DEFINE turned == TurnOf(r.s, l)
           s == thread_settings_applied(turned, l)
           ends == /\ s.waiting
                   /\ l.type = "turn_context"
                   /\ forked_child_turn_starts_own_session(s, l.turn)
           replayed == Replayed(s, l)
           q == [r EXCEPT !.s = replayed]
<1>1. IsState(turned) /\ AllBut({"turn", "announced"}, r.s, turned)
  BY TurnState DEF RunOK, AllBut
<1>2. s = turned
  <2>1. turned.child # 0 /\ turned.child # l.id /\ turned.waiting
    BY <1>1 DEF AllBut, StateFields
  <2> HIDE DEF turned
  <2> QED BY <1>1, <2>1, SettingsState
<1>3. IsState(s) /\ AllBut({"turn", "announced"}, r.s, s)
  BY <1>1, <1>2
<1> HIDE DEF s
<1>4. s.waiting /\ ~ends
  BY <1>3 DEF AllBut, StateFields, forked_child_turn_starts_own_session
<1>5. parse_line(r, l) = q
  <2> HIDE DEF q, replayed
  <2> QED BY <1>4, Zenon DEF parse_line, s, q, replayed
<1> DEFINE marks == l.type = "task_started" /\ forked_child_task_starts_own_session(r.s, l.turn)
           names == l.type = "session_meta" /\ l.id # 0
           totals == l.type = "token_count" /\ l.total # {}
<1>6. /\ AllBut({"tasks", "replay", "previous", "baseline"}, s, replayed)
      /\ replayed.tasks = IF marks THEN s.tasks \cup {l.turn} ELSE s.tasks
      /\ replayed.replay = IF names THEN l.id ELSE s.replay
      /\ replayed.previous = IF totals THEN l.total ELSE s.previous
      /\ replayed.baseline = IF totals THEN l.total ELSE s.baseline
  <2>1. s.child = r.s.child
    BY <1>3 DEF AllBut, StateFields
  <2> QED BY <1>3, <2>1
      DEF Replayed, remember_forked_child_inherited_baseline, AllBut, IsState, StateFields,
          forked_child_task_starts_own_session
<1> HIDE DEF replayed, marks, names, totals
<1>7. Keeps(r, q) /\ q.s = replayed
  <2>1. IsState(replayed)
    BY <1>6 DEF AllBut
  <2> QED BY <2>1, OtherState
<1>8. /\ AllBut({"turn", "announced", "tasks", "replay", "previous", "baseline"}, r.s, replayed)
      /\ replayed.tasks = IF marks THEN r.s.tasks \cup {l.turn} ELSE r.s.tasks
      /\ replayed.replay = IF names THEN l.id ELSE r.s.replay
      /\ replayed.previous = IF totals THEN l.total ELSE r.s.previous
      /\ replayed.baseline = IF totals THEN l.total ELSE r.s.baseline
  BY <1>3, <1>6 DEF AllBut, StateFields
<1> HIDE DEF q
<1> QED BY <1>5, <1>7, <1>8 DEF marks, names, totals

\* A line of the thread's own; a turn_context may end the copies before it.
IsOwn(s, l) ==
  /\ l.type \in {"task_started", "turn_context", "user_message", "settings", "other"}
  /\ s.waiting => /\ l.type = "turn_context"
                  /\ forked_child_turn_starts_own_session(s, l.turn)
  /\ l.type = "settings" => l.id \in {0, IF s.child # 0 THEN s.child ELSE s.meta}

OwnLineDoes(r, l, q) ==
  /\ Keeps(r, q)
  /\ AllBut({"model", "fast", "turn", "announced", "prompted", "selected",
             "waiting", "replay", "tasks", "user", "meta"}, r.s, q.s)
  /\ ~q.s.waiting
  /\ q.s.meta = IF r.s.waiting /\ r.s.child # 0 THEN r.s.child ELSE r.s.meta
  /\ l.type = "task_started" =>
       q.s.turn = l.turn /\ (q.s.announced <=> l.turn # NoTurn)
  /\ l.type = "turn_context" =>
       /\ q.s.turn = IF l.turn # NoTurn THEN l.turn
                     ELSE IF r.s.announced THEN r.s.turn ELSE NoTurn
       /\ ~q.s.announced
       /\ q.s.fast <=> r.s.selected /\ l.model # {}
  /\ l.type \notin {"task_started", "turn_context"} =>
       q.s.turn = r.s.turn /\ q.s.announced = r.s.announced
  /\ l.type # "turn_context" => q.s.fast = r.s.fast
  /\ l.type = "settings" => (q.s.selected <=> l.fast = {TRUE})
  /\ l.type # "settings" => q.s.selected = r.s.selected
  /\ l.type # "user_message" => q.s.prompted = r.s.prompted

LEMMA OwnLine ==
  ASSUME NEW r, RunOK(r), NEW l, IsOwn(r.s, l)
  PROVE  OwnLineDoes(r, l, parse_line(r, l))
<1> USE DEF IsOwn, OwnLineDoes
<1> DEFINE turned == TurnOf(r.s, l)
           s == thread_settings_applied(turned, l)
           ends == /\ s.waiting
                   /\ l.type = "turn_context"
                   /\ forked_child_turn_starts_own_session(s, l.turn)
           own == IF ends THEN EndReplay(s) ELSE s
           r1 == [r EXCEPT !.s = own]
           r2 == IF l.model = {} /\ l.type \notin {"token_count", "session_meta"}
                 THEN flush_pending_model_messages_as_unknown(r1) ELSE r1
           prompt == [r2.s EXCEPT !.prompted = TRUE]
           prompted == [r2 EXCEPT !.s = prompt]
           q == CASE l.type = "turn_context" -> turn_context(r2, l)
                  [] l.type = "user_message" -> prompted
                  [] OTHER -> r2
<1>1. IsState(turned) /\ AllBut({"turn", "announced"}, r.s, turned)
  BY TurnState DEF RunOK, AllBut
<1>2. /\ AllBut({"selected"}, turned, s)
      /\ l.type # "settings" => s = turned
      /\ l.type = "settings" => (s.selected <=> l.fast = {TRUE})
  <2>1. turned.child = r.s.child /\ turned.meta = r.s.meta /\ turned.waiting = r.s.waiting
    BY <1>1 DEF AllBut, StateFields
  <2> HIDE DEF turned
  <2> QED BY <1>1, <2>1, SettingsState
<1> HIDE DEF s, turned
<1>3. /\ IsState(s) /\ AllBut({"turn", "announced", "selected"}, r.s, s)
      /\ ends <=> r.s.waiting
  <2>1. AllBut({"turn", "announced", "selected"}, r.s, s)
    BY <1>1, <1>2 DEF AllBut, StateFields
  <2> QED BY <2>1 DEF AllBut, StateFields, forked_child_turn_starts_own_session
<1>4. parse_line(r, l) = q
  <2>1. ~(s.waiting /\ ~ends)
    BY <1>3 DEF AllBut, StateFields
  <2>2. parse_line(r, l) =
          IF s.waiting /\ ~ends THEN [r EXCEPT !.s = Replayed(s, l)]
          ELSE CASE l.type = "session_meta" -> [r2 EXCEPT !.s = session_meta(r2.s, l)]
                 [] l.type = "turn_context" -> turn_context(r2, l)
                 [] l.type = "user_message" -> prompted
                 [] l.type = "token_count"  -> token_count(r2, l)
                 [] OTHER -> r2
    BY Zenon DEF parse_line, s, turned
  <2> HIDE DEF ends, r2, prompted
  <2> QED BY <2>1, <2>2
<1>5. /\ IsState(own) /\ ~own.waiting
      /\ AllBut({"waiting", "replay", "tasks", "user", "meta"}, s, own)
      /\ own.meta = IF r.s.waiting /\ r.s.child # 0 THEN r.s.child ELSE r.s.meta
  <2>1. s.child = r.s.child /\ s.meta = r.s.meta /\ s.waiting = r.s.waiting
    BY <1>3 DEF AllBut, StateFields
  <2>2. CASE ends
    <3> HIDE DEF ends
    <3> QED BY <1>3, <2>1, <2>2 DEF EndReplay, AllBut, IsState, StateFields
  <2>3. CASE ~ends
    <3> HIDE DEF ends
    <3> QED BY <1>3, <2>1, <2>3 DEF AllBut, IsState, StateFields
  <2> QED BY <2>2, <2>3
<1> HIDE DEF own, ends
<1>6. Keeps(r, r2) /\ r2.s = own
  <2>1. Keeps(r, r1) /\ r1.s = own
    BY <1>5, OtherState
  <2> HIDE DEF r1
  <2>2. RunOK(r1)
    BY <2>1 DEF Keeps
  <2>3. Keeps(r1, r2) /\ r2.s = r1.s
    BY <2>2, FlushKeeps, KeepsAll
  <2> HIDE DEF r2
  <2> QED BY <2>1, <2>3, KeepsAll
<1> HIDE DEF r2
<1>7. RunOK(r2)
  BY <1>6 DEF Keeps
<1>8. CASE l.type = "turn_context"
  <2> DEFINE t == [own EXCEPT !.model = l.model, !.fast = own.selected /\ l.model # {}]
             named == [r2 EXCEPT !.s = t]
  <2>1. /\ AllBut({"model", "fast"}, own, t)
        /\ t.fast <=> own.selected /\ l.model # {}
    BY <1>5 DEF AllBut, IsState, StateFields
  <2>2. q = IF l.model = {} THEN named ELSE flush_pending_model_messages(named, l.model)
    BY <1>6, <1>8, Zenon DEF turn_context
  <2> HIDE DEF t
  <2>3. Keeps(r2, named) /\ named.s = t /\ RunOK(named)
    <3>1. IsState(t)
      BY <2>1 DEF AllBut
    <3> QED BY <1>7, <3>1, OtherState DEF Keeps
  <2> HIDE DEF named, q
  <2>4. Keeps(r2, q) /\ q.s = t
    <3>1. Keeps(named, q) /\ q.s = named.s
      BY <2>2, <2>3, FlushKeeps, KeepsAll
    <3> QED BY <2>3, <3>1, KeepsAll
  <2>5. Keeps(r, q)
    BY <1>6, <2>4, KeepsAll
  <2>6. s = turned
    BY <1>2, <1>8
  <2>7. /\ turned.turn = IF l.turn # NoTurn THEN l.turn
                         ELSE IF r.s.announced THEN r.s.turn ELSE NoTurn
        /\ ~turned.announced
    BY <1>8, TurnState DEF RunOK, turned
  <2> QED BY <1>1, <1>4, <1>5, <1>8, <2>1, <2>4, <2>5, <2>6, <2>7 DEF AllBut, StateFields
<1>9. CASE l.type = "user_message"
  <2>1. AllBut({"prompted"}, own, prompt) /\ q = prompted
    BY <1>5, <1>6, <1>9 DEF AllBut, IsState, StateFields
  <2>2. IsState(prompt)
    BY <2>1 DEF AllBut
  <2> HIDE DEF prompt
  <2>3. Keeps(r2, prompted) /\ prompted.s = prompt
    BY <1>7, <2>2, OtherState
  <2> HIDE DEF prompted, q
  <2>4. Keeps(r, q) /\ q.s = prompt
    BY <1>6, <2>1, <2>3, KeepsAll
  <2>5. s = turned /\ turned = r.s
    BY <1>2, <1>9, TurnState DEF RunOK, turned
  <2> QED BY <1>4, <1>5, <1>9, <2>1, <2>4, <2>5 DEF AllBut, StateFields
<1>10. CASE l.type \in {"task_started", "settings", "other"}
  <2>1. q = r2
    BY <1>10
  <2> HIDE DEF q
  <2>2. Keeps(r, q) /\ q.s = own
    BY <1>6, <2>1
  <2>3. CASE l.type = "task_started"
    <3>1. s = turned /\ turned.turn = l.turn /\ (turned.announced <=> l.turn # NoTurn)
      BY <1>2, <2>3, TurnState DEF RunOK, turned
    <3> QED BY <1>1, <1>4, <1>5, <2>2, <2>3, <3>1 DEF AllBut, StateFields
  <2>4. CASE l.type # "task_started"
    <3>1. turned = r.s
      BY <1>10, <2>4, TurnState DEF RunOK, turned
    <3> QED BY <1>2, <1>4, <1>5, <1>10, <2>2, <2>4, <3>1 DEF AllBut, StateFields
  <2> QED BY <2>3, <2>4
<1> QED BY <1>8, <1>9, <1>10

\* Which of the three ways a usage line takes.
Skips(s, l) == forked_child_should_skip_inherited_snapshot(s, l)
Adding(s, l) == {tokens \in Increment(s, l) : tokens # {}}

\* The message is appended to the rows, whose order is that of the log.
LEMMA RowAdded ==
  ASSUME NEW r, RunOK(r), NEW m, IsRow(m)
  PROVE  /\ r.pending = <<>> => Adds(m, r, [r EXCEPT !.messages = Append(r.messages, m)])
         /\ Adds(m, r, [r EXCEPT !.pending = Append(r.pending, m)])
         /\ [r EXCEPT !.messages = Append(r.messages, m)].s = r.s
         /\ [r EXCEPT !.pending = Append(r.pending, m)].s = r.s
<1> DEFINE a == Len(r.messages)
           b == Len(r.pending)
<1>1. /\ AreRows(r.messages) /\ AreRows(r.pending) /\ IsRun(r) /\ IsState(r.s)
      /\ a \in Nat /\ b \in Nat
  BY Lengths DEF RunOK, AreRows
<1>2. ASSUME r.pending = <<>>
      PROVE  Adds(m, r, [r EXCEPT !.messages = Append(r.messages, m)])
  <2> DEFINE longer == Append(r.messages, m)
             q == [r EXCEPT !.messages = longer]
  <2>1. /\ AreRows(longer) /\ Len(longer) = a + 1
        /\ \A i \in 1 .. a : longer[i] = r.messages[i]
        /\ longer[a + 1] = m
    BY <1>1, AppendedRows
  <2> HIDE DEF longer
  <2>2. IsRun(q) /\ q.s = r.s /\ q.messages = longer /\ q.pending = <<>>
    BY <1>1, <1>2 DEF IsRun, RunFields
  <2>3. b = 0
    BY <1>2, NoRows
  <2> HIDE DEF q
  <2>4. RunOK(q) /\ Size(q) = a + 1 /\ Size(r) = a
    <3>1. Len(q.pending) = 0 /\ Len(q.messages) = a + 1
      BY <2>1, <2>2, NoRows
    <3> HIDE DEF a, b
    <3>2. Size(q) = (a + 1) + 0 /\ Size(r) = a + b
      BY <3>1 DEF Size, a, b
    <3>3. RunOK(q)
      BY <1>1, <2>1, <2>2, NoRows DEF RunOK
    <3> QED BY <1>1, <2>3, <3>2, <3>3
  <2>5. ASSUME NEW i \in 1 .. a PROVE Row(q, i) = r.messages[i] /\ Row(r, i) = r.messages[i]
    <3>1. i <= a /\ i <= a + 1
      <4> HIDE DEF a
      <4> QED BY <1>1
    <3> QED BY <2>1, <2>2, <3>1 DEF Row
  <2>6. Row(q, a + 1) = m
    <3>1. a + 1 <= a + 1
      <4> HIDE DEF a
      <4> QED BY <1>1
    <3> QED BY <2>1, <2>2, <3>1 DEF Row
  <2> HIDE DEF a, b
  <2>7. Adds(m, r, q)
    BY <2>4, <2>5, <2>6 DEF Adds, SameRow
  <2> QED BY <2>7 DEF q, longer
<1>3. Adds(m, r, [r EXCEPT !.pending = Append(r.pending, m)])
  <2> DEFINE longer == Append(r.pending, m)
             q == [r EXCEPT !.pending = longer]
  <2>1. /\ AreRows(longer) /\ Len(longer) = b + 1
        /\ \A i \in 1 .. b : longer[i] = r.pending[i]
        /\ longer[b + 1] = m
    BY <1>1, AppendedRows
  <2> HIDE DEF longer
  <2>2. IsRun(q) /\ q.s = r.s /\ q.messages = r.messages /\ q.pending = longer
    BY <1>1 DEF IsRun, RunFields
  <2> HIDE DEF q
  <2>3. RunOK(q) /\ Size(q) = (a + b) + 1 /\ Size(r) = a + b
    <3>1. Len(q.messages) = a /\ Len(q.pending) = b + 1
      BY <2>1, <2>2
    <3>2. Size(q) = a + (b + 1) /\ Size(r) = a + b
      BY <3>1 DEF Size
    <3>3. RunOK(q)
      BY <1>1, <2>1, <2>2 DEF RunOK
    <3> HIDE DEF a, b
    <3> QED BY <1>1, <3>2, <3>3
  <2>4. ASSUME NEW i \in 1 .. a + b PROVE Row(q, i) = Row(r, i)
    <3>1. i <= a \/ (~(i <= a) /\ i - a \in 1 .. b)
      <4> HIDE DEF a, b
      <4> QED BY <1>1
    <3> QED BY <2>1, <2>2, <3>1 DEF Row
  <2>5. Row(q, (a + b) + 1) = m
    <3>1. ~((a + b) + 1 <= a) /\ ((a + b) + 1) - a = b + 1
      <4> HIDE DEF a, b
      <4> QED BY <1>1
    <3> QED BY <2>1, <2>2, <3>1 DEF Row
  <2> HIDE DEF a, b
  <2>6. Adds(m, r, q)
    BY <2>3, <2>4, <2>5 DEF Adds, SameRow
  <2> QED BY <2>6 DEF q, longer
<1>4. /\ [r EXCEPT !.messages = Append(r.messages, m)].s = r.s
      /\ [r EXCEPT !.pending = Append(r.pending, m)].s = r.s
  BY <1>1 DEF IsRun, RunFields
<1> QED BY <1>2, <1>3, <1>4

\* A usage line of the thread's own.
UsageLineDoes(r, l, q) ==
  /\ AllBut({"model", "previous", "baseline", "coverage", "announced", "prompted"},
            r.s, q.s)
  /\ Skips(r.s, l) => Keeps(r, q) /\ AllBut({"model"}, r.s, q.s)
  /\ ~Skips(r.s, l) => q.s.baseline = {}
  /\ ~Skips(r.s, l) /\ Adding(r.s, l) = {} =>
       /\ Keeps(r, q)
       /\ AllBut({"model", "baseline", "previous"}, r.s, q.s)
       /\ q.s.previous = IF GoesBack(r.s, l) THEN l.total ELSE r.s.previous
  /\ ~Skips(r.s, l) /\ Adding(r.s, l) # {} =>
       /\ q.s.previous = NextTotals(r.s, l)
       /\ q.s.coverage = r.s.coverage \cup {r.s.turn}
       /\ ~q.s.announced
       /\ ~q.s.prompted
       /\ \E m : /\ Adds(m, r, q)
                 /\ m.tokens \in Adding(r.s, l)
                 /\ m.fast <=> r.s.fast
                 /\ m.prompt = r.s.prompted
                 /\ m.key[4] = IF l.total # {} THEN UNION l.total ELSE m.tokens

LEMMA UsageLineComes ==
  ASSUME NEW r, RunOK(r), ~r.s.waiting, NEW l, l.type = "token_count"
  PROVE  UsageLineDoes(r, l, parse_line(r, l))
<1> USE DEF UsageLineDoes
<1> DEFINE q == parse_line(r, l)
           model == IF l.model # {} THEN l.model ELSE r.s.model
           known == [r.s EXCEPT !.model = model]
           named == [r EXCEPT !.s = known]
           r1 == IF model = {} THEN r ELSE flush_pending_model_messages(named, model)
           s == [r1.s EXCEPT !.baseline = {}]
           back == [s EXCEPT !.previous = l.total]
           new == {tokens \in Increment(s, l) : tokens # {}}
           tokens == CHOOSE t \in new : TRUE
           m == Message(s, l, tokens)
           s2 == [s EXCEPT !.previous = NextTotals(s, l), !.coverage = s.coverage \cup {s.turn},
                           !.announced = FALSE, !.prompted = FALSE]
           r2 == [r1 EXCEPT !.s = s2]
<1>1. q = token_count(r, l)
  <2>1. TurnOf(r.s, l) = r.s /\ thread_settings_applied(r.s, l) = r.s
    BY TurnState, SettingsState DEF RunOK
  <2>2. [r EXCEPT !.s = r.s] = r
    BY DEF RunOK, IsRun, RunFields
  <2> DEFINE ends == r.s.waiting /\ l.type = "turn_context"
                     /\ forked_child_turn_starts_own_session(r.s, l.turn)
             o1 == [r EXCEPT !.s = IF ends THEN EndReplay(r.s) ELSE r.s]
             o2 == IF l.model = {} /\ l.type \notin {"token_count", "session_meta"}
                   THEN flush_pending_model_messages_as_unknown(o1) ELSE o1
  <2>3. q = IF r.s.waiting /\ ~ends THEN [r EXCEPT !.s = Replayed(r.s, l)]
            ELSE CASE l.type = "session_meta" -> [o2 EXCEPT !.s = session_meta(o2.s, l)]
                   [] l.type = "turn_context" -> turn_context(o2, l)
                   [] l.type = "user_message" -> [o2 EXCEPT !.s = [o2.s EXCEPT !.prompted = TRUE]]
                   [] l.type = "token_count"  -> token_count(o2, l)
                   [] OTHER -> o2
    BY <2>1, Zenon DEF parse_line
  <2>4. o2 = r
    BY <2>2
  <2> HIDE DEF q, o2, o1, ends
  <2> QED BY <2>3, <2>4
<1>2. /\ Keeps(r, r1) /\ AllBut({"model"}, r.s, r1.s)
      /\ r1.s.model = model
      /\ model # {} => r1.pending = <<>>
  <2>1. CASE model = {}
    <3>1. r1 = r /\ r.s.model = {}
      BY <2>1
    <3> QED BY <2>1, <3>1, KeepsAll, Unchanged DEF RunOK, AllBut
  <2>2. CASE model # {}
    <3>1. AllBut({"model"}, r.s, known) /\ known.model = model
      BY DEF RunOK, AllBut, IsState, StateFields
    <3> HIDE DEF known
    <3>2. Keeps(r, named) /\ named.s = known
      BY <3>1, OtherState DEF AllBut
    <3> HIDE DEF named, model
    <3>3. Keeps(named, r1) /\ r1.s = named.s /\ r1.pending = <<>>
      BY <2>2, <3>2, FlushKeeps DEF Keeps
    <3> QED BY <3>1, <3>2, <3>3, KeepsAll
  <2> QED BY <2>1, <2>2
<1>3. q = IF Skips(r1.s, l) THEN r1
          ELSE IF new = {}
          THEN IF GoesBack(s, l) THEN [r1 EXCEPT !.s = back] ELSE [r1 EXCEPT !.s = s]
          ELSE IF model # {} THEN [r2 EXCEPT !.messages = Append(r2.messages, m)]
          ELSE [r2 EXCEPT !.pending = Append(r2.pending, m)]
  <2> HIDE DEF q
  <2> QED BY <1>1, Zenon DEF token_count, Skips
<1> HIDE DEF r1, q
<1>4. /\ AllBut({"model", "baseline"}, r.s, s) /\ s.baseline = {}
      /\ AllBut({"model", "baseline", "previous"}, r.s, back)
      /\ back.previous = l.total /\ back.baseline = {}
      /\ AllBut({"previous", "coverage", "announced", "prompted"}, s, s2)
      /\ s2.previous = NextTotals(s, l) /\ s2.coverage = s.coverage \cup {s.turn}
      /\ ~s2.announced /\ ~s2.prompted
  BY <1>2 DEF AllBut, IsState, StateFields
<1>5. s.previous = r.s.previous /\ s.coverage = r.s.coverage /\ s.turn = r.s.turn
      /\ s.prompted = r.s.prompted /\ s.fast = r.s.fast /\ r1.s.baseline = r.s.baseline
  BY <1>2, <1>4 DEF AllBut, StateFields
<1> HIDE DEF s, back, s2
<1>6. /\ Skips(r1.s, l) <=> Skips(r.s, l)
      /\ new = Adding(r.s, l)
      /\ GoesBack(s, l) <=> GoesBack(r.s, l)
      /\ NextTotals(s, l) = NextTotals(r.s, l)
  BY <1>5 DEF Skips, Adding, GoesBack, NextTotals, Increment,
              forked_child_should_skip_inherited_snapshot
<1>7. /\ IsRow(m) /\ m.tokens = tokens /\ m.prompt = r.s.prompted
      /\ m.fast <=> r.s.fast
      /\ m.key[4] = IF l.total # {} THEN UNION l.total ELSE m.tokens
  <2> HIDE DEF tokens
  <2>1. /\ IsRow(m) /\ m.tokens = tokens /\ m.prompt = s.prompted
        /\ m.fast <=> s.fast /\ s.model # {}
        /\ m.key[4] = IF l.total # {} THEN UNION l.total ELSE m.tokens
    BY DEF Message, IsRow, RowFields, codex_token_count_dedup_key
  <2>2. s.fast => s.model # {}
    BY <1>4 DEF AllBut, IsState
  <2> HIDE DEF m
  <2> QED BY <1>5, <2>1, <2>2
<1>8. new # {} => tokens \in new
  <2> HIDE DEF new
  <2> QED OBVIOUS
<1> HIDE DEF new, m, tokens
<1>9. RunOK(r1)
  BY <1>2 DEF Keeps
<1>10. CASE Skips(r.s, l)
  <2>1. q = r1
    BY <1>3, <1>6, <1>10
  <2> QED BY <1>2, <1>10, <2>1 DEF AllBut, q
<1>11. CASE ~Skips(r.s, l) /\ Adding(r.s, l) = {}
  <2>1. q = IF GoesBack(s, l) THEN [r1 EXCEPT !.s = back] ELSE [r1 EXCEPT !.s = s]
    BY <1>3, <1>6, <1>11
  <2> DEFINE z == IF GoesBack(s, l) THEN back ELSE s
  <2>2. /\ AllBut({"model", "baseline", "previous"}, r.s, z) /\ z.baseline = {}
        /\ z.previous = IF GoesBack(r.s, l) THEN l.total ELSE r.s.previous
    BY <1>4, <1>5, <1>6 DEF AllBut
  <2>3. q = [r1 EXCEPT !.s = z]
    BY <2>1
  <2> HIDE DEF z
  <2>4. Keeps(r, q) /\ q.s = z
    BY <1>2, <1>9, <2>2, <2>3, OtherState, KeepsAll DEF AllBut
  <2> QED BY <1>11, <2>2, <2>4 DEF AllBut, q
<1>12. CASE ~Skips(r.s, l) /\ Adding(r.s, l) # {}
  <2>1. q = IF model # {} THEN [r2 EXCEPT !.messages = Append(r2.messages, m)]
            ELSE [r2 EXCEPT !.pending = Append(r2.pending, m)]
    BY <1>3, <1>6, <1>12
  <2>2. Keeps(r1, r2) /\ r2.s = s2 /\ r2.pending = r1.pending
    <3>1. IsState(s2)
      BY <1>4 DEF AllBut
    <3>2. r2.pending = r1.pending
      BY <1>9 DEF RunOK, IsRun, RunFields
    <3> QED BY <1>9, <3>1, <3>2, OtherState
  <2> HIDE DEF r2
  <2>3. Adds(m, r2, q) /\ q.s = s2
    <3>1. RunOK(r2)
      BY <2>2 DEF Keeps
    <3>2. model # {} => r2.pending = <<>>
      BY <1>2, <2>2
    <3> HIDE DEF model
    <3> QED BY <1>7, <2>1, <2>2, <3>1, <3>2, RowAdded
  <2>4. Adds(m, r, q)
    BY <1>2, <2>2, <2>3, KeepsAll
  <2>5. AllBut({"model", "previous", "baseline", "coverage", "announced", "prompted"}, r.s, s2)
        /\ s2.baseline = {}
    BY <1>4 DEF AllBut, StateFields
  <2>6. m.tokens \in Adding(r.s, l)
    BY <1>6, <1>7, <1>8, <1>12
  <2> QED BY <1>4, <1>5, <1>6, <1>7, <1>12, <2>3, <2>4, <2>5, <2>6 DEF q
<1> QED BY <1>10, <1>11, <1>12

-----------------------------------------------------------------------------
(* What the rows of a rollout say, for a way st of writing, the responses tr *)
(* and the thread t of the rollout                                           *)

\* The responses in the rows.
Tok(r) == UNION {Row(r, i).tokens : i \in 1 .. Size(r)}

\* The ones that a prompt is marked at.
Prompted(r) == UNION {Row(r, i).tokens : i \in {j \in 1 .. Size(r) : Row(r, j).prompt}}

\* A row is one response of the thread; the usages in its key are of responses
\* there were by then.
RowOK(st, tr, t, m) ==
  \E x \in DOMAIN tr :
    /\ m.tokens = {x} /\ tr[x].thread = t /\ x \in m.key[4]
    /\ m.fast <=> tr[x].fast
    /\ m.prompt => t = Parent \/ st.user
    /\ \A y \in m.key[4] : y \in DOMAIN tr /\ (t = Parent => tr[y].thread = Parent)

\* A response comes once, after the rows whose keys could be taken for its own;
\* and so does the prompt of a turn.
InTurn(tr, m, later) ==
  /\ later.tokens \cap m.key[4] = {}
  /\ m.prompt /\ later.prompt =>
       \A x \in m.tokens, y \in later.tokens : tr[x].turn # tr[y].turn

RowsOK(st, tr, t, r) ==
  /\ \A i \in 1 .. Size(r) : RowOK(st, tr, t, Row(r, i))
  /\ \A j \in 1 .. Size(r) : \A i \in 1 .. j - 1 : InTurn(tr, Row(r, i), Row(r, j))

LEMMA SizeIsNat ==
  ASSUME NEW r, RunOK(r)
  PROVE  Size(r) \in Nat
<1> DEFINE a == Len(r.messages)
           b == Len(r.pending)
<1>1. a \in Nat /\ b \in Nat
  BY Lengths DEF RunOK, AreRows
<1>2. Size(r) = a + b
  BY DEF Size
<1> HIDE DEF a, b
<1> QED BY <1>1, <1>2

LEMMA SameRows ==
  /\ \A st, tr, t, m, n : SameRow(m, n) /\ RowOK(st, tr, t, m) => RowOK(st, tr, t, n)
  /\ \A tr, m, n, a, b :
       SameRow(m, n) /\ SameRow(a, b) /\ InTurn(tr, m, a) => InTurn(tr, n, b)
BY DEF SameRow, RowOK, InTurn

LEMMA KeptRows ==
  ASSUME NEW st, NEW tr, NEW t, NEW r, RunOK(r), NEW q, Keeps(r, q)
  PROVE  /\ Tok(q) = Tok(r) /\ Prompted(q) = Prompted(r)
         /\ RowsOK(st, tr, t, r) => RowsOK(st, tr, t, q)
<1>1. Size(q) = Size(r) /\ \A i \in 1 .. Size(r) : SameRow(Row(r, i), Row(q, i))
  BY DEF Keeps
<1>2. Size(r) \in Nat
  BY SizeIsNat
<1>3. Tok(q) = Tok(r) /\ Prompted(q) = Prompted(r)
  BY <1>1 DEF Tok, Prompted, SameRow
<1>4. ASSUME RowsOK(st, tr, t, r) PROVE RowsOK(st, tr, t, q)
  <2>1. ASSUME NEW i \in 1 .. Size(q) PROVE RowOK(st, tr, t, Row(q, i))
    BY <1>1, <1>4, SameRows DEF RowsOK
  <2>2. ASSUME NEW j \in 1 .. Size(q), NEW i \in 1 .. j - 1 PROVE InTurn(tr, Row(q, i), Row(q, j))
    <3>1. i \in 1 .. Size(r)
      BY <1>1, <1>2
    <3>2. InTurn(tr, Row(r, i), Row(r, j))
      BY <1>1, <1>4 DEF RowsOK
    <3> QED BY <1>1, <3>1, <3>2, SameRows
  <2> QED BY <2>1, <2>2 DEF RowsOK
<1> QED BY <1>3, <1>4

LEMMA AddedRows ==
  ASSUME NEW st, NEW tr, NEW t, NEW r, RunOK(r), NEW q, NEW m, Adds(m, r, q),
         RowsOK(st, tr, t, r), RowOK(st, tr, t, m),
         \A i \in 1 .. Size(r) : InTurn(tr, Row(r, i), m)
  PROVE  /\ Tok(q) = Tok(r) \cup m.tokens
         /\ Prompted(q) = IF m.prompt THEN Prompted(r) \cup m.tokens ELSE Prompted(r)
         /\ RowsOK(st, tr, t, q)
<1> DEFINE n == Size(r)
<1>1. /\ Size(q) = n + 1
      /\ \A i \in 1 .. n : SameRow(Row(r, i), Row(q, i))
      /\ SameRow(m, Row(q, n + 1))
  BY DEF Adds
<1>2. n \in Nat
  BY SizeIsNat
<1>3. Tok(q) = Tok(r) \cup m.tokens
  <2> HIDE DEF n
  <2>1. 1 .. n + 1 = 1 .. n \cup {n + 1}
    BY <1>2
  <2> QED BY <1>1, <2>1 DEF Tok, SameRow, n
<1>6. Prompted(q) = IF m.prompt THEN Prompted(r) \cup m.tokens ELSE Prompted(r)
  <2> HIDE DEF n
  <2>1. 1 .. n + 1 = 1 .. n \cup {n + 1}
    BY <1>2
  <2> QED BY <1>1, <2>1 DEF Prompted, SameRow, n
<1>4. ASSUME NEW i \in 1 .. n + 1 PROVE RowOK(st, tr, t, Row(q, i))
  <2>1. i \in 1 .. n \/ i = n + 1
    <3> HIDE DEF n
    <3> QED BY <1>2
  <2> QED BY <1>1, <2>1, SameRows DEF RowsOK
<1>5. ASSUME NEW j \in 1 .. n + 1, NEW i \in 1 .. j - 1 PROVE InTurn(tr, Row(q, i), Row(q, j))
  <2>1. i \in 1 .. n /\ (j \in 1 .. n \/ j = n + 1)
    <3> HIDE DEF n
    <3> QED BY <1>2
  <2>2. CASE j \in 1 .. n
    <3>1. InTurn(tr, Row(r, i), Row(r, j))
      BY <2>2 DEF RowsOK
    <3>2. SameRow(Row(r, i), Row(q, i)) /\ SameRow(Row(r, j), Row(q, j))
      BY <1>1, <2>1, <2>2
    <3> QED BY <3>1, <3>2, SameRows
  <2>3. CASE j = n + 1
    <3>1. InTurn(tr, Row(r, i), m)
      BY <2>1
    <3> HIDE DEF n
    <3> QED BY <1>1, <2>1, <2>3, <3>1, SameRows
  <2> QED BY <2>1, <2>2, <2>3
<1> QED BY <1>1, <1>3, <1>4, <1>5, <1>6 DEF RowsOK

-----------------------------------------------------------------------------
(* What a rollout says when it is read *)

run(p) == FoldLeft(parse_line, Run(FreshState, <<>>), p)

Mentions(l) == UNION (l.total \cup l.last)
Ordered(st) == st.totals # "last" /\ ~(st.totals = "both" /\ st.repeats)
NameIn(st, turn) == IF st.ids \/ st.announce THEN turn ELSE NoTurn

\* Of Parent's rollout: the turns and the total it gives are those of its rows,
\* and so is the last total in it, if none comes late.
ParentSays(st, tr, p) ==
  LET r == run(p)
  IN  /\ r.s.baseline = {}
      /\ ~st.announce => ~r.s.announced
      /\ r.s.coverage = {NameIn(st, tr[x].turn) : x \in Tok(r)}
      /\ r.s.previous = IF st.totals = "last" \/ Tok(r) = {} THEN {} ELSE {Tok(r)}
      /\ Ordered(st) => \A i \in 1 .. Len(p) :
           p[i].type = "token_count" /\ (\A j \in i + 1 .. Len(p) : p[j].type # "token_count")
             => p[i].total = {Tok(r)}

\* The thread's own responses that a rollout p mentions are those in its rows.
Counts(st, tr, t, p) ==
  LET r == run(p)
  IN  /\ IsSeq(p) /\ RunOK(r)
      /\ RowsOK(st, tr, t, r)
      /\ \A i \in 1 .. Len(p) : \A x \in Mentions(p[i]) :
           /\ x \in DOMAIN tr
           /\ tr[x].thread = t => x \in Tok(r)
           /\ t = Parent => tr[x].thread = Parent
      /\ \A x \in Tok(r) : \E i \in 1 .. Len(p) : x \in Mentions(p[i])
      /\ t = Parent => ParentSays(st, tr, p)

LEMMA AppendedLine ==
  ASSUME NEW p, IsSeq(p), NEW l
  PROVE  /\ IsSeq(Append(p, l)) /\ Len(Append(p, l)) = Len(p) + 1 /\ Len(p) \in Nat
         /\ \A i \in 1 .. Len(p) : Append(p, l)[i] = p[i]
         /\ Append(p, l)[Len(p) + 1] = l
         /\ run(Append(p, l)) = parse_line(run(p), l)
<1>1. PICK T : p \in Seq(T)
  BY DEF IsSeq
<1>2. p \in Seq(T \cup {l}) /\ l \in T \cup {l}
  BY <1>1, SeqMonotonic
<1> DEFINE q == Append(p, l)
<1>3. /\ q \in Seq(T \cup {l}) /\ Len(q) = Len(p) + 1 /\ Len(p) \in Nat
      /\ \A i \in 1 .. Len(p) : q[i] = p[i]
      /\ q[Len(p) + 1] = l
  BY <1>2
<1>4. run(q) = parse_line(run(p), l)
  BY <1>2, ParseOfAppend DEF run
<1> HIDE DEF q
<1>5. IsSeq(q)
  BY <1>3, Zenon DEF IsSeq
<1> QED BY <1>3, <1>4, <1>5 DEF q

LEMMA NothingRead ==
  /\ run(<<>>) = Run(FreshState, <<>>) /\ RunOK(run(<<>>)) /\ run(<<>>).s = FreshState
  /\ Size(run(<<>>)) = 0 /\ Tok(run(<<>>)) = {} /\ Prompted(run(<<>>)) = {}
  /\ \A st, tr, t : Counts(st, tr, t, <<>>)
<1>1. run(<<>>) = Run(FreshState, <<>>)
  BY ParseOfNothing DEF run
<1> DEFINE r == Run(FreshState, <<>>)
<1>2. IsRun(r) /\ r.s = FreshState /\ r.messages = <<>> /\ r.pending = <<>>
  BY StoredRun DEF Run
<1>3. IsState(FreshState)
  BY DEF IsState, StateFields, FreshState
<1> HIDE DEF r
<1>4. RunOK(r) /\ Size(r) = 0
  BY <1>2, <1>3, NoRows DEF RunOK, Size
<1>5. 1 .. 0 = {} /\ IsSeq(<<>>) /\ Len(<<>>) = 0
  BY ShortSeqs
<1>6. Tok(r) = {} /\ Prompted(r) = {}
  BY <1>4, <1>5 DEF Tok, Prompted
<1>7. /\ FreshState.coverage = {} /\ FreshState.previous = {}
      /\ FreshState.baseline = {} /\ ~FreshState.announced
  BY DEF FreshState
<1>8. ASSUME NEW st, NEW tr, NEW t PROVE Counts(st, tr, t, <<>>)
  <2>1. RowsOK(st, tr, t, r)
    BY <1>4, <1>5 DEF RowsOK
  <2>2. ParentSays(st, tr, <<>>)
    BY <1>1, <1>2, <1>5, <1>6, <1>7 DEF ParentSays, r
  <2> QED BY <1>1, <1>4, <1>5, <1>6, <2>1, <2>2 DEF Counts, r
<1> QED BY <1>1, <1>2, <1>4, <1>6, <1>8 DEF r

\* A response that comes changes nothing about the ones before it.
LEMMA TruthGrows ==
  ASSUME NEW tr, IsSeq(tr), NEW fact
  PROVE  LET later == Append(tr, fact)
             new == Len(tr) + 1
         IN  /\ IsSeq(later) /\ Len(later) = new /\ new \in Nat
             /\ DOMAIN later = DOMAIN tr \cup {new} /\ new \notin DOMAIN tr
             /\ later[new] = fact
             /\ \A x \in DOMAIN tr : later[x] = tr[x]
             /\ \A st, t, p : Counts(st, tr, t, p) =>
                  /\ Counts(st, later, t, p)
                  /\ \A i \in 1 .. Size(run(p)) : new \notin Row(run(p), i).key[4]
<1> DEFINE later == Append(tr, fact)
           new == Len(tr) + 1
<1>1. /\ IsSeq(later) /\ Len(later) = new /\ Len(tr) \in Nat
      /\ \A i \in 1 .. Len(tr) : later[i] = tr[i]
      /\ later[new] = fact
  BY AppendedLine
<1>2. DOMAIN tr = 1 .. Len(tr) /\ DOMAIN later = 1 .. Len(later)
  BY <1>1, Lengths
<1>3. new \in Nat /\ DOMAIN later = DOMAIN tr \cup {new} /\ new \notin DOMAIN tr
  BY <1>1, <1>2
<1> HIDE DEF later, new
<1>4. \A x \in DOMAIN tr : x \in DOMAIN later /\ later[x] = tr[x]
  BY <1>1, <1>2, <1>3
<1>5. ASSUME NEW st, NEW t, NEW p, Counts(st, tr, t, p)
      PROVE  /\ Counts(st, later, t, p)
             /\ \A i \in 1 .. Size(run(p)) : new \notin Row(run(p), i).key[4]
  <2> DEFINE r == run(p)
  <2>1. \A m : RowOK(st, tr, t, m) => RowOK(st, later, t, m) /\ new \notin m.key[4]
    BY <1>3, <1>4 DEF RowOK
  <2>2. RowsOK(st, tr, t, r) /\ RunOK(r)
    BY <1>5 DEF Counts
  <2>3. RowsOK(st, later, t, r)
    <3>1. ASSUME NEW j \in 1 .. Size(r), NEW i \in 1 .. j - 1
          PROVE  InTurn(later, Row(r, i), Row(r, j))
      <4>1. Size(r) \in Nat
        BY <2>2, SizeIsNat
      <4>2. i \in 1 .. Size(r)
        BY <4>1
      <4>3. RowOK(st, tr, t, Row(r, i)) /\ RowOK(st, tr, t, Row(r, j))
        BY <2>2, <4>2 DEF RowsOK
      <4>4. InTurn(tr, Row(r, i), Row(r, j))
        BY <2>2 DEF RowsOK
      <4> QED BY <1>4, <4>3, <4>4 DEF RowOK, InTurn
    <3> QED BY <2>1, <2>2, <3>1 DEF RowsOK
  <2>4. \A x \in Tok(r) : x \in DOMAIN tr
    BY <2>2 DEF RowsOK, RowOK, Tok
  <2>5. ParentSays(st, tr, p) => ParentSays(st, later, p)
    <3>1. {NameIn(st, later[x].turn) : x \in Tok(r)} = {NameIn(st, tr[x].turn) : x \in Tok(r)}
      BY <1>4, <2>4
    <3> QED BY <3>1 DEF ParentSays
  <2>6. Counts(st, later, t, p)
    BY <1>4, <1>5, <2>3, <2>5 DEF Counts
  <2> QED BY <2>1, <2>2, <2>6 DEF RowsOK
<1> QED BY <1>1, <1>3, <1>4, <1>5 DEF later, new

\* A line that adds no row mentions nothing that is not in one.
LEMMA LineKeeps ==
  ASSUME NEW st, NEW tr, NEW t, NEW p, Counts(st, tr, t, p), NEW l,
         Keeps(run(p), run(Append(p, l))),
         \A x \in Mentions(l) :
           /\ x \in DOMAIN tr
           /\ tr[x].thread = t => x \in Tok(run(p))
           /\ t = Parent => tr[x].thread = Parent,
         t = Parent => /\ run(Append(p, l)).s.baseline = {}
                       /\ ~st.announce => ~run(Append(p, l)).s.announced
                       /\ run(Append(p, l)).s.coverage = run(p).s.coverage
                       /\ run(Append(p, l)).s.previous = run(p).s.previous
                       /\ Ordered(st) /\ l.type = "token_count" => l.total = {Tok(run(p))}
  PROVE  /\ Counts(st, tr, t, Append(p, l))
         /\ Tok(run(Append(p, l))) = Tok(run(p))
         /\ Prompted(run(Append(p, l))) = Prompted(run(p))
<1> DEFINE r == run(p)
           n == Len(p)
           longer == Append(p, l)
           q == run(longer)
<1>1. /\ IsSeq(longer) /\ Len(longer) = n + 1 /\ n \in Nat
      /\ \A i \in 1 .. n : longer[i] = p[i]
      /\ longer[n + 1] = l
  BY AppendedLine DEF Counts
<1>2. RunOK(q) /\ Tok(q) = Tok(r) /\ Prompted(q) = Prompted(r) /\ RowsOK(st, tr, t, q)
  BY KeptRows DEF Counts, Keeps
<1> HIDE DEF longer, q, r, n
<1>3. \A i \in 1 .. n + 1 : i \in 1 .. n \/ i = n + 1
  BY <1>1
<1>4. ASSUME NEW i \in 1 .. n + 1, NEW x \in Mentions(longer[i])
      PROVE  /\ x \in DOMAIN tr
             /\ tr[x].thread = t => x \in Tok(q)
             /\ t = Parent => tr[x].thread = Parent
  BY <1>1, <1>2, <1>3 DEF Counts, r, n
<1>5. ASSUME NEW x \in Tok(q) PROVE \E i \in 1 .. n + 1 : x \in Mentions(longer[i])
  <2>1. PICK i \in 1 .. n : x \in Mentions(p[i])
    BY <1>2 DEF Counts, r, n
  <2>2. i \in 1 .. n + 1
    BY <1>1
  <2> QED BY <1>1, <2>1, <2>2
<1>6. ASSUME t = Parent PROVE ParentSays(st, tr, longer)
  <2>1. /\ q.s.baseline = {} /\ (~st.announce => ~q.s.announced)
        /\ q.s.coverage = r.s.coverage
        /\ q.s.previous = r.s.previous
        /\ Ordered(st) /\ l.type = "token_count" => l.total = {Tok(r)}
    BY <1>6 DEF q, r, longer
  <2>2. ParentSays(st, tr, p)
    BY <1>6 DEF Counts
  <2>3. ASSUME Ordered(st), NEW i \in 1 .. n + 1, longer[i].type = "token_count",
               \A j \in i + 1 .. n + 1 : longer[j].type # "token_count"
        PROVE  longer[i].total = {Tok(q)}
    <3>1. CASE i = n + 1
      BY <1>1, <1>2, <2>1, <2>3, <3>1
    <3>2. CASE i \in 1 .. n
      <4>1. \A j \in i + 1 .. n : p[j].type # "token_count"
        <5>1. \A j \in i + 1 .. n : j \in i + 1 .. n + 1 /\ j \in 1 .. n
          BY <1>1, <3>2
        <5> QED BY <1>1, <2>3, <5>1
      <4> QED BY <1>1, <1>2, <2>2, <2>3, <3>2, <4>1 DEF ParentSays, r, n
    <3> QED BY <1>3, <3>1, <3>2
  <2> QED BY <1>1, <1>2, <2>1, <2>2, <2>3 DEF ParentSays, q, r
<1>7. Counts(st, tr, t, longer)
  BY <1>1, <1>2, <1>4, <1>5, <1>6 DEF Counts, q
<1> QED BY <1>2, <1>7 DEF q, r, longer

\* The row m of a new response, and the line l it is of.
NewRow(st, tr, t, r, l, m, new) ==
  /\ new \in DOMAIN tr /\ tr[new].thread = t /\ m.tokens = {new} /\ new \in m.key[4]
  /\ \A i \in 1 .. Size(r) : new \notin Row(r, i).key[4]
  /\ m.fast <=> tr[new].fast
  /\ m.prompt => /\ t = Parent \/ st.user
                 /\ \A x \in Prompted(r) : tr[x].turn # tr[new].turn
  /\ \A y \in m.key[4] : y \in DOMAIN tr /\ (t = Parent => tr[y].thread = Parent)
  /\ new \in Mentions(l)
  /\ \A x \in Mentions(l) :
       /\ x \in DOMAIN tr
       /\ tr[x].thread = t => x \in Tok(r) \cup {new}
       /\ t = Parent => tr[x].thread = Parent

\* What the parser of Parent's rollout says after it.
SaysNew(st, tr, r, q, l, new) ==
  /\ q.s.baseline = {}
  /\ ~st.announce => ~q.s.announced
  /\ q.s.coverage = r.s.coverage \cup {NameIn(st, tr[new].turn)}
  /\ q.s.previous = IF st.totals = "last" THEN {} ELSE {Tok(r) \cup {new}}
  /\ Ordered(st) => l.total = {Tok(r) \cup {new}} /\ l.type = "token_count"

\* The line of a response adds its row.
CountsNew(st, tr, t, p, q, m, new) ==
  /\ Counts(st, tr, t, q)
  /\ Tok(run(q)) = Tok(run(p)) \cup {new}
  /\ Prompted(run(q)) = IF m.prompt THEN Prompted(run(p)) \cup {new} ELSE Prompted(run(p))

LEMMA LineAdds ==
  ASSUME NEW st, NEW tr, NEW t, NEW p, Counts(st, tr, t, p), NEW l, NEW m,
         Adds(m, run(p), run(Append(p, l))), NEW new, NewRow(st, tr, t, run(p), l, m, new),
         t = Parent => SaysNew(st, tr, run(p), run(Append(p, l)), l, new)
  PROVE  CountsNew(st, tr, t, p, Append(p, l), m, new)
<1> DEFINE r == run(p)
           n == Len(p)
           longer == Append(p, l)
           q == run(longer)
<1>1. /\ IsSeq(longer) /\ Len(longer) = n + 1 /\ n \in Nat
      /\ \A i \in 1 .. n : longer[i] = p[i]
      /\ longer[n + 1] = l
  BY AppendedLine DEF Counts
<1>2. /\ RunOK(q) /\ Tok(q) = Tok(r) \cup {new} /\ RowsOK(st, tr, t, q)
      /\ Prompted(q) = IF m.prompt THEN Prompted(r) \cup {new} ELSE Prompted(r)
  <2>1. RowOK(st, tr, t, m)
    BY DEF NewRow, RowOK
  <2>2. \A i \in 1 .. Size(r) : InTurn(tr, Row(r, i), m)
    BY DEF NewRow, InTurn, Prompted
  <2>3. m.tokens = {new}
    BY DEF NewRow
  <2> QED BY <2>1, <2>2, <2>3, AddedRows DEF Counts, Adds
<1>a. NewRow(st, tr, t, r, l, m, new)
  OBVIOUS
<1> HIDE DEF longer, q, r, n
<1>3. \A i \in 1 .. n + 1 : i \in 1 .. n \/ i = n + 1
  BY <1>1
<1>4. ASSUME NEW i \in 1 .. n + 1, NEW x \in Mentions(longer[i])
      PROVE  /\ x \in DOMAIN tr
             /\ tr[x].thread = t => x \in Tok(q)
             /\ t = Parent => tr[x].thread = Parent
  BY <1>a, <1>1, <1>2, <1>3 DEF Counts, NewRow, r, n
<1>5. ASSUME NEW x \in Tok(q) PROVE \E i \in 1 .. n + 1 : x \in Mentions(longer[i])
  <2>1. n + 1 \in 1 .. n + 1 /\ \A i \in 1 .. n : i \in 1 .. n + 1
    BY <1>1
  <2> QED BY <1>a, <1>1, <1>2, <2>1 DEF Counts, NewRow, r, n
<1>6. ASSUME t = Parent PROVE ParentSays(st, tr, longer)
  <2>1. /\ q.s.baseline = {} /\ (~st.announce => ~q.s.announced)
        /\ q.s.coverage = r.s.coverage \cup {NameIn(st, tr[new].turn)}
        /\ q.s.previous = IF st.totals = "last" THEN {} ELSE {Tok(r) \cup {new}}
        /\ Ordered(st) => l.total = {Tok(r) \cup {new}} /\ l.type = "token_count"
    BY <1>6 DEF SaysNew, q, r, longer
  <2>2. ParentSays(st, tr, p)
    BY <1>6 DEF Counts
  <2>3. ASSUME Ordered(st), NEW i \in 1 .. n + 1, longer[i].type = "token_count",
               \A j \in i + 1 .. n + 1 : longer[j].type # "token_count"
        PROVE  longer[i].total = {Tok(q)}
    <3>1. CASE i = n + 1
      BY <1>1, <1>2, <2>1, <2>3, <3>1
    <3>2. CASE i \in 1 .. n
      <4>1. n + 1 \in i + 1 .. n + 1
        BY <1>1, <3>2
      <4> QED BY <1>1, <2>1, <2>3, <4>1
    <3> QED BY <1>3, <3>1, <3>2
  <2>4. q.s.coverage = {NameIn(st, tr[x].turn) : x \in Tok(q)}
    <3>1. r.s.coverage = {NameIn(st, tr[x].turn) : x \in Tok(r)}
      BY <2>2 DEF ParentSays, r
    <3> QED BY <1>2, <2>1, <3>1
  <2> QED BY <1>1, <1>2, <2>1, <2>3, <2>4 DEF ParentSays, q
<1>7. Counts(st, tr, t, longer)
  BY <1>1, <1>2, <1>4, <1>5, <1>6 DEF Counts, q
<1> QED BY <1>2, <1>7 DEF CountsNew, q, r, longer

-----------------------------------------------------------------------------
(* What a usage line adds *)

\* A line with these totals, in a way of writing that gives totals and the last
\* usage, or one of them.
Says(st, l, total, last) ==
  /\ l.type = "token_count"
  /\ l.total = IF st.totals = "last" THEN {} ELSE {total}
  /\ l.last = IF st.totals = "total" THEN {} ELSE {last}

\* A new response: it alone is added, whatever there was before.
\* The parser before the line of a new response: the total it knows is an
\* earlier one.
Awaits(st, s, total, new) ==
  /\ new \notin total
  /\ \A inherited \in s.baseline : new \notin inherited
  /\ IF st.totals = "last" \/ total = {} THEN s.previous = {}
     ELSE \E x \in SUBSET total : s.previous = {x} /\ (Ordered(st) => x = total)

AddsNew(st, s, l, total, new) ==
  /\ ~Skips(s, l)
  /\ Adding(s, l) = {{new}}
  /\ NextTotals(s, l) = IF st.totals = "last" THEN {} ELSE {total \cup {new}}

LEMMA NewUsage ==
  ASSUME NEW st, st.totals \in {"both", "total", "last"},
         NEW s, NEW total, NEW new, Awaits(st, s, total, new),
         NEW l, Says(st, l, total \cup {new}, {new})
  PROVE  AddsNew(st, s, l, total, new)
<1> SUFFICES /\ ~Skips(s, l)
             /\ Adding(s, l) = {{new}}
             /\ NextTotals(s, l) = IF st.totals = "last" THEN {} ELSE {total \cup {new}}
  BY DEF AddsNew
<1> USE DEF Awaits
<1>1. ~Skips(s, l)
  BY DEF Skips, forked_child_should_skip_inherited_snapshot, Says
<1>2. CASE st.totals = "last"
  <2>1. l.total = {} /\ l.last = {{new}} /\ s.previous = {}
    BY <1>2 DEF Says
  <2>2. Increment(s, l) = {{new}}
    BY <2>1 DEF Increment
  <2> QED BY <1>1, <1>2, <2>1, <2>2 DEF Adding, NextTotals
<1>3. CASE st.totals = "both"
  <2>1. l.total = {total \cup {new}} /\ l.last = {{new}}
    BY <1>3 DEF Says
  <2>2. \A x \in s.previous : x \subseteq total \cup {new} /\ x # total \cup {new}
    BY <1>3
  <2>3. Increment(s, l) = {{new}}
    BY <2>1, <2>2 DEF Increment
  <2> QED BY <1>1, <1>3, <2>1, <2>3 DEF Adding, NextTotals
<1>4. CASE st.totals = "total"
  <2>1. l.total = {total \cup {new}} /\ l.last = {}
    BY <1>4 DEF Says
  <2>2. (s.previous = {} /\ total = {}) \/ s.previous = {total}
    BY <1>4 DEF Ordered
  <2>3. Increment(s, l) = {{new}}
    <3>1. CASE s.previous = {} /\ total = {}
      BY <2>1, <3>1 DEF Increment
    <3>2. CASE s.previous = {total}
      <4>1. Increment(s, l) = {b \ a : b \in {c \in l.total : \A d \in s.previous : d \subseteq c},
                                       a \in s.previous}
        BY <2>1, <3>2 DEF Increment
      <4>2. {c \in l.total : \A d \in s.previous : d \subseteq c} = {total \cup {new}}
        BY <2>1, <3>2
      <4>3. (total \cup {new}) \ total = {new}
        OBVIOUS
      <4> QED BY <3>2, <4>1, <4>2, <4>3
    <3> QED BY <2>2, <3>1, <3>2
  <2> QED BY <1>1, <1>4, <2>1, <2>3 DEF Adding, NextTotals
<1> QED BY <1>2, <1>3, <1>4

LEMMA LateUsage ==
  ASSUME NEW s, NEW l, NEW rest, NEW total, NEW last,
         l.total = {rest}, l.last = {last}, s.previous = {total},
         rest # total, ~(total \subseteq rest), looks_like_stale_regression(rest, total, last)
  PROVE  Increment(s, l) = {}
<1>1. l.total # {} /\ l.last # {}
  OBVIOUS
<1>2. ASSUME NEW x \in Increment(s, l), NEW y \in l.total, NEW z \in s.previous
      PROVE  x \in l.last /\ (z \subseteq y \/ ~looks_like_stale_regression(y, z, x))
  BY <1>1 DEF Increment
<1>3. Increment(s, l) \subseteq l.last
  BY <1>1 DEF Increment
<1>4. ASSUME NEW x \in Increment(s, l) PROVE FALSE
  <2>1. x = last
    BY <1>3
  <2>2. total \subseteq rest \/ ~looks_like_stale_regression(rest, total, x)
    BY <1>2
  <2> QED BY <2>1, <2>2
<1> QED BY <1>4

\* The same usage again, or one that lacks the last response: nothing is added.
\* The total again, or an earlier one that comes late.
SaysOld(st, l, total) ==
  \/ \E last : Says(st, l, total, last)
  \/ /\ st.totals = "both"
     /\ \E new \in total : \E before \in total \ {new} : Says(st, l, total \ {new}, {before})
AddsNothing(s, l) == ~Skips(s, l) /\ Adding(s, l) = {} /\ ~GoesBack(s, l)

LEMMA OldUsage ==
  ASSUME NEW st, st.totals \in {"both", "total"},
         NEW s, s.baseline = {}, NEW total, IsFiniteSet(total), s.previous = {total},
         NEW l, SaysOld(st, l, total)
  PROVE  AddsNothing(s, l)
<1> SUFFICES ~Skips(s, l) /\ Adding(s, l) = {} /\ ~GoesBack(s, l)
  BY DEF AddsNothing
<1> USE DEF SaysOld
<1>1. ~Skips(s, l)
  BY DEF Skips, forked_child_should_skip_inherited_snapshot
<1>2. CASE \E last : Says(st, l, total, last)
  <2>1. l.total = {total} /\ (st.totals = "both" => l.last # {}) /\ (st.totals = "total" => l.last = {})
    BY <1>2 DEF Says
  <2>2. ~GoesBack(s, l)
    BY <2>1 DEF GoesBack
  <2>3. CASE st.totals = "both"
    BY <1>1, <2>1, <2>2, <2>3 DEF Adding, Increment
  <2>4. CASE st.totals = "total"
    <3>1. Increment(s, l) = {b \ a : b \in {c \in l.total : \A d \in s.previous : d \subseteq c},
                                     a \in s.previous}
      BY <2>1, <2>4 DEF Increment
    <3>2. \A y \in Increment(s, l) : y = {}
      BY <2>1, <3>1
    <3> QED BY <1>1, <2>2, <3>2 DEF Adding
  <2> QED BY <2>3, <2>4
<1>3. ASSUME st.totals = "both", NEW new \in total, NEW before \in total \ {new},
             Says(st, l, total \ {new}, {before})
      PROVE  Adding(s, l) = {} /\ ~GoesBack(s, l)
  <2> DEFINE rest == total \ {new}
  <2>1. l.total = {rest} /\ l.last = {{before}}
    BY <1>3 DEF Says
  <2>2. ~GoesBack(s, l)
    BY <2>1 DEF GoesBack
  <2>3. /\ Cardinality(rest) = Cardinality(total) - 1 /\ Cardinality(total) \in Nat
        /\ Cardinality({before}) = 1
    BY FS_RemoveElement, FS_CardinalityType, FS_Singleton, Zenon
  <2>4. looks_like_stale_regression(rest, total, {before})
    <3>1. Cardinality(rest) + 2 * Cardinality({before}) >= Cardinality(total)
      <4> DEFINE n == Cardinality(total)
      <4> HIDE DEF n, rest
      <4>1. (n - 1) + 2 * 1 >= n
        BY <2>3 DEF n
      <4> QED BY <2>3, <4>1 DEF n
    <3> QED BY <3>1 DEF looks_like_stale_regression
  <2>5. rest # total /\ ~(total \subseteq rest)
    OBVIOUS
  <2> HIDE DEF rest
  <2>6. Increment(s, l) = {}
    BY <2>1, <2>4, <2>5, LateUsage
  <2> QED BY <2>2, <2>6 DEF Adding
<1> QED BY <1>1, <1>2, <1>3

-----------------------------------------------------------------------------
(* What a rollout says of its thread                                        *)

\* The parser is in the turn that the thread th is in.
InTheTurn(st, tr, t, th, r) ==
  /\ r.s.fast <=> th.runs
  /\ t = Parent => r.s.turn = NameIn(st, th.turn)
  /\ r.s.prompted => /\ t = Parent \/ st.user
                     /\ \A x \in Prompted(r) : tr[x].turn # th.turn

Follows(st, tr, t, th, r) ==
  /\ ~r.s.waiting
  /\ r.s.child = IF t = Parent THEN 0 ELSE Child
  /\ r.s.meta = t
  /\ r.s.selected <=> th.fast
  /\ th.total = th.copied \cup Tok(r)
  /\ th.turn # NoTurn => InTheTurn(st, tr, t, th, r)
  /\ th.last # {} => /\ th.turn # NoTurn
                     /\ \E x \in Tok(r) : th.last = {x} /\ tr[x].turn = th.turn

\* The lines a rollout has after the one with its name.
UsageTotal(st, total, l) ==
  IF st.totals = "last" THEN l.total = {} ELSE \E x \in SUBSET total : x # {} /\ l.total = {x}
ThreadLine(st, t, total, l) ==
  /\ l.type \in {"task_started", "turn_context", "user_message", "settings", "token_count", "other"}
  /\ l.id \in {0, t}
  /\ l.type # "token_count" => Mentions(l) = {}
  /\ l.type = "token_count" => UsageTotal(st, total, l)

\* A line from before the fork does not begin a turn of the child.
EarlyTurn(st, turn) ==
  /\ turn.ms = 0 \/ (turn.ms = 1 /\ st.v7 /\ ~st.user /\ ~st.nested)
  /\ turn # NoTurn => turn.v7 = st.v7
EarlyLine(st, l) ==
  l.type \in {"task_started", "turn_context"} =>
    EarlyTurn(st, l.turn) /\ (l.type = "turn_context" /\ st.ids => l.turn # NoTurn)

ParentLinesAre(st, total, p, forked) ==
  /\ IsSeq(p) /\ Len(p) >= 1
  /\ p[1].type = "session_meta" /\ p[1].id = Parent /\ Mentions(p[1]) = {}
  /\ \A i \in 2 .. Len(p) : ThreadLine(st, Parent, total, p[i]) /\ (~forked => EarlyLine(st, p[i]))

ChildLinesAre(st, total, p) ==
  IsSeq(p) /\ \A i \in 1 .. Len(p) : p[i].type = "token_count" => UsageTotal(st, total, p[i])

\* What Codex knows of a thread whose last response is taken back.
BackFrom(th, back) ==
  /\ back.live = th.live /\ back.turn = th.turn /\ back.total = th.total \ th.last
  /\ back.copied = th.copied /\ back.runs = th.runs /\ back.fast = th.fast /\ back.last = {}

\* A rollout without its last line.
Restores(st, tr, th, p) ==
  \E w, l : /\ p = Append(w, l) /\ Counts(st, tr, Parent, w)
            /\ th.last \cap Tok(run(w)) = {} =>
                 \A back : BackFrom(th, back) => Follows(st, tr, Parent, back, run(w))

ParentFollows(st, tr, th, p, forked) ==
  /\ th.live /\ th.copied = {}
  /\ Counts(st, tr, Parent, p)
  /\ Follows(st, tr, Parent, th, run(p))
  /\ ParentLinesAre(st, th.total, p, forked)
  /\ th.last # {} => Restores(st, tr, th, p)

\* The child's history is the copied one until its first turn.
Copying(st, r) ==
  /\ r.s.waiting /\ r.s.replay = (IF st.embeds THEN Parent ELSE 0)
  /\ r.s.child = Child
  /\ r.s.tasks = {} /\ r.s.user = st.user
  /\ ~r.s.prompted /\ ~r.s.selected /\ ~r.s.fast
  /\ Size(r) = 0

\* The total that the next one is compared with: the last of the copies, or
\* the child's own.
ChildTotals(st, th, r) ==
  /\ IF st.totals = "last" \/ th.total = {} THEN r.s.previous = {}
     ELSE \E x \in SUBSET th.total : /\ r.s.previous = {x}
                                     /\ Ordered(st) \/ Tok(r) # {} => x = th.total
  /\ r.s.baseline = IF Tok(r) = {} THEN r.s.previous ELSE {}

ChildFollows(st, tr, th, p) ==
  /\ Counts(st, tr, Child, p)
  /\ IF ~th.live THEN p = <<>> /\ th = NoThread
     ELSE /\ \A x \in th.copied : x \in DOMAIN tr /\ tr[x].thread = Parent
          /\ ChildLinesAre(st, th.total, p)
          /\ ChildTotals(st, th, run(p))
          /\ IF th.turn = NoTurn
             THEN Copying(st, run(p)) /\ th.total = th.copied /\ th.last = {} /\ ~th.fast
             ELSE Follows(st, tr, Child, th, run(p))

\* Turns are of one thread each.
TurnsAre(tr, threads, n) ==
  /\ \A x \in DOMAIN tr : tr[x].turn.n \in 1 .. n
  /\ \A t \in Threads : threads[t].turn = NoTurn \/ threads[t].turn.n \in 1 .. n
  /\ \A x, y \in DOMAIN tr : tr[x].turn = tr[y].turn => tr[x].thread = tr[y].thread
  /\ \A t \in Threads, x \in DOMAIN tr : tr[x].turn = threads[t].turn => tr[x].thread = t
  /\ threads[Parent].turn = threads[Child].turn => threads[Parent].turn = NoTurn

MirrorsAre(st, tr, rows) ==
  \A row \in rows : \E x \in DOMAIN tr :
    tr[x].thread = Parent /\ row = [turn |-> NameIn(st, tr[x].turn), tokens |-> {x}]

\* A line of the thread's own that is not of a usage.
OwnLineKeeps(st, tr, t, p, q, l) ==
  /\ Counts(st, tr, t, q)
  /\ OwnLineDoes(run(p), l, run(q))
  /\ Tok(run(q)) = Tok(run(p)) /\ Prompted(run(q)) = Prompted(run(p))
  /\ run(q).s.child = run(p).s.child
  /\ run(q).s.previous = run(p).s.previous
  /\ run(q).s.baseline = run(p).s.baseline

LEMMA OwnLineComes ==
  ASSUME NEW st, NEW tr, NEW t, NEW p, Counts(st, tr, t, p),
         NEW l, IsOwn(run(p).s, l), Mentions(l) = {},
         t = Parent /\ l.type = "task_started" => st.announce
  PROVE  OwnLineKeeps(st, tr, t, p, Append(p, l), l)
<1> DEFINE r == run(p)
           q == run(Append(p, l))
<1>1. q = parse_line(r, l) /\ RunOK(r)
  BY AppendedLine DEF Counts
<1>2. OwnLineDoes(r, l, q)
  BY <1>1, OwnLine
<1> HIDE DEF r, q
<1>3. /\ q.s.child = r.s.child /\ q.s.previous = r.s.previous
      /\ q.s.baseline = r.s.baseline /\ q.s.coverage = r.s.coverage
  BY <1>2 DEF OwnLineDoes, AllBut, StateFields
<1>4. t = Parent => r.s.baseline = {} /\ (~st.announce => ~r.s.announced)
  BY DEF Counts, ParentSays, r
<1>5. ASSUME t = Parent, ~st.announce PROVE ~q.s.announced
  <2>1. l.type # "task_started" /\ ~r.s.announced
    BY <1>4, <1>5
  <2> QED BY <1>2, <2>1 DEF OwnLineDoes
<1>6. l.type # "token_count"
  BY DEF IsOwn
<1>7. /\ Counts(st, tr, t, Append(p, l))
      /\ Tok(run(Append(p, l))) = Tok(run(p))
      /\ Prompted(run(Append(p, l))) = Prompted(run(p))
  BY <1>2, <1>3, <1>4, <1>5, <1>6, LineKeeps DEF r, q, OwnLineDoes
<1> QED BY <1>2, <1>3, <1>7 DEF OwnLineKeeps, q, r

-----------------------------------------------------------------------------
(* A turn begins                                                            *)

\* The parser when a turn is about to begin, its task_started read.
Beginning(st, tr, t, th, turn, r) ==
  /\ r.s.child = IF t = Parent THEN 0 ELSE Child
  /\ r.s.selected <=> th.fast
  /\ r.s.waiting => /\ t = Child
                    /\ forked_child_turn_starts_own_session(r.s, IF st.ids THEN turn ELSE NoTurn)
  /\ ~r.s.waiting => r.s.meta = t
  /\ t = Parent => IF st.announce THEN r.s.announced /\ r.s.turn = turn ELSE ~r.s.announced
  /\ r.s.prompted => t = Parent \/ st.user

\* What a line that is not of a usage leaves alone.
SameRowsIn(st, tr, t, p, q) ==
  /\ Counts(st, tr, t, q)
  /\ Tok(run(q)) = Tok(run(p)) /\ Prompted(run(q)) = Prompted(run(p))
  /\ run(q).s.previous = run(p).s.previous
  /\ run(q).s.baseline = run(p).s.baseline

ForkTurn(st, turn) == turn # NoTurn /\ turn.ms \in {1, 2} /\ turn.v7 = st.v7

LEMMA TaskStartsInParent ==
  ASSUME NEW st, NEW tr, NEW th, NEW p, Counts(st, tr, Parent, p),
         Follows(st, tr, Parent, th, run(p)), st.announce,
         NEW l, l.type = "task_started", l.turn # NoTurn, Mentions(l) = {}
  PROVE  /\ SameRowsIn(st, tr, Parent, p, Append(p, l))
         /\ Beginning(st, tr, Parent, th, l.turn, run(Append(p, l)))
<1> DEFINE r == run(p)
           q == run(Append(p, l))
<1>1. IsOwn(r.s, l)
  BY DEF IsOwn, Follows
<1>2. OwnLineKeeps(st, tr, Parent, p, Append(p, l), l)
  BY <1>1, OwnLineComes
<1>3. SameRowsIn(st, tr, Parent, p, Append(p, l)) /\ OwnLineDoes(r, l, q) /\ q.s.child = r.s.child
  BY <1>2 DEF OwnLineKeeps, SameRowsIn
<1>4. ~r.s.waiting /\ r.s.child = 0 /\ r.s.meta = Parent /\ (r.s.selected <=> th.fast)
  BY DEF Follows
<1> HIDE DEF r, q
<1>5. /\ ~q.s.waiting /\ q.s.meta = r.s.meta /\ q.s.selected = r.s.selected
      /\ q.s.turn = l.turn /\ q.s.announced
  BY <1>3, <1>4 DEF OwnLineDoes
<1>6. Beginning(st, tr, Parent, th, l.turn, q)
  BY <1>3, <1>4, <1>5 DEF Beginning
<1> QED BY <1>3, <1>6 DEF q

LEMMA TaskStartsInChild ==
  ASSUME NEW st, NEW tr, NEW th, NEW p, Counts(st, tr, Child, p),
         Follows(st, tr, Child, th, run(p)), th.turn # NoTurn,
         NEW l, l.type = "task_started", Mentions(l) = {}
  PROVE  /\ SameRowsIn(st, tr, Child, p, Append(p, l))
         /\ Beginning(st, tr, Child, th, l.turn, run(Append(p, l)))
<1> DEFINE r == run(p)
           q == run(Append(p, l))
<1>0. Child # Parent /\ Child # 0
  BY DEF Child, Parent
<1>1. IsOwn(r.s, l)
  BY DEF IsOwn, Follows
<1>2. OwnLineKeeps(st, tr, Child, p, Append(p, l), l)
  BY <1>0, <1>1, OwnLineComes
<1>3. SameRowsIn(st, tr, Child, p, Append(p, l)) /\ OwnLineDoes(r, l, q) /\ q.s.child = r.s.child
  BY <1>2 DEF OwnLineKeeps, SameRowsIn
<1>4. /\ ~r.s.waiting /\ r.s.child = Child /\ r.s.meta = Child /\ (r.s.selected <=> th.fast)
      /\ r.s.prompted => st.user
  BY <1>0 DEF Follows, InTheTurn
<1> HIDE DEF r, q
<1>5. /\ ~q.s.waiting /\ q.s.meta = r.s.meta /\ q.s.selected = r.s.selected
      /\ q.s.prompted = r.s.prompted
  BY <1>3, <1>4 DEF OwnLineDoes
<1>6. Beginning(st, tr, Child, th, l.turn, q)
  BY <1>0, <1>3, <1>4, <1>5 DEF Beginning
<1> QED BY <1>3, <1>6 DEF q

\* The first task_started of the child's own is told by its time.
LEMMA FirstTaskStarts ==
  ASSUME NEW st, Readable(st), NEW tr, NEW th, NEW p, Counts(st, tr, Child, p),
         Copying(st, run(p)), ~st.user, ~th.fast,
         NEW l, l.type = "task_started", ForkTurn(st, l.turn), l.id = 0, Mentions(l) = {}
  PROVE  /\ SameRowsIn(st, tr, Child, p, Append(p, l))
         /\ Beginning(st, tr, Child, th, l.turn, run(Append(p, l)))
<1> DEFINE r == run(p)
           q == run(Append(p, l))
<1>0. Child # Parent /\ Child # 0
  BY DEF Child, Parent
<1>1. /\ r.s.waiting /\ r.s.child = Child /\ r.s.tasks = {} /\ r.s.user = st.user
      /\ r.s.replay = (IF st.embeds THEN Parent ELSE 0)
      /\ ~r.s.prompted /\ ~r.s.selected
  BY DEF Copying
<1>2. q = parse_line(r, l) /\ RunOK(r)
  BY AppendedLine DEF Counts
<1> HIDE DEF r, q
<1>3. IsCopy(r.s, l)
  BY <1>0, <1>1 DEF IsCopy
<1>4. CopiedLineDoes(r, l, q)
  BY <1>2, <1>3, CopiedLine
<1>5. forked_child_task_starts_own_session(r.s, l.turn)
  BY <1>0, <1>1 DEF forked_child_task_starts_own_session, ForkTurn, ForkMs
<1>6. /\ Keeps(r, q) /\ q.s.tasks = {l.turn} /\ q.s.replay = r.s.replay
      /\ q.s.previous = r.s.previous /\ q.s.baseline = r.s.baseline
      /\ AllBut({"turn", "announced", "tasks", "replay", "previous", "baseline"}, r.s, q.s)
  BY <1>1, <1>4, <1>5 DEF CopiedLineDoes
<1>7. /\ q.s.waiting /\ q.s.child = Child /\ q.s.user = st.user
      /\ ~q.s.prompted /\ ~q.s.selected
  BY <1>1, <1>6 DEF AllBut, StateFields
<1>8. SameRowsIn(st, tr, Child, p, Append(p, l))
  <2>1. /\ Counts(st, tr, Child, Append(p, l))
        /\ Tok(run(Append(p, l))) = Tok(run(p))
        /\ Prompted(run(Append(p, l))) = Prompted(run(p))
    BY <1>0, <1>6, LineKeeps DEF r, q
  <2> QED BY <1>6, <2>1 DEF SameRowsIn, r, q
<1>9. forked_child_turn_starts_own_session(q.s, IF st.ids THEN l.turn ELSE NoTurn)
  <2>1. CASE ~st.embeds
    BY <1>1, <1>6, <2>1 DEF forked_child_turn_starts_own_session
  <2>2. CASE st.embeds
    <3>1. st.ids
      BY <2>2 DEF Readable
    <3>2. codex_uuid_v7_order_key(l.turn) = IF st.v7 THEN {l.turn.ms} ELSE {}
      BY DEF codex_uuid_v7_order_key, ForkTurn
    <3>3. l.turn.ms = ForkMs \/ l.turn.ms > ForkMs
      BY DEF ForkTurn, ForkMs
    <3>4. l.turn \in q.s.tasks
      BY <1>6
    <3> QED BY <3>1, <3>2, <3>3, <3>4 DEF forked_child_turn_starts_own_session
  <2> QED BY <2>1, <2>2
<1>10. Beginning(st, tr, Child, th, l.turn, q)
  BY <1>0, <1>7, <1>9 DEF Beginning
<1> QED BY <1>8, <1>10 DEF q

\* A turn without a task_started.
LEMMA NoTaskStarts ==
  ASSUME NEW st, Readable(st), NEW tr, NEW t \in Threads, NEW th, NEW p, Counts(st, tr, t, p),
         NEW turn,
         \/ /\ Follows(st, tr, t, th, run(p))
            /\ IF t = Parent THEN ~st.announce ELSE th.turn # NoTurn
         \/ t = Child /\ Copying(st, run(p)) /\ st.user /\ ForkTurn(st, turn) /\ ~th.fast
  PROVE  /\ SameRowsIn(st, tr, t, p, p)
         /\ Beginning(st, tr, t, th, turn, run(p))
<1>0. Child # Parent /\ Child # 0 /\ (t = Parent \/ t = Child)
  BY DEF Child, Parent, Threads
<1>1. SameRowsIn(st, tr, t, p, p)
  BY DEF SameRowsIn
<1>2. CASE t = Parent /\ Follows(st, tr, Parent, th, run(p)) /\ ~st.announce
  <2>1. ~run(p).s.announced
    BY <1>2 DEF Counts, ParentSays
  <2> QED BY <1>0, <1>1, <1>2, <2>1 DEF Follows, Beginning
<1>3. CASE t = Child /\ Follows(st, tr, Child, th, run(p)) /\ th.turn # NoTurn
  BY <1>0, <1>1, <1>3 DEF Follows, InTheTurn, Beginning
<1>4. CASE t = Child /\ Copying(st, run(p)) /\ st.user /\ ForkTurn(st, turn) /\ ~th.fast
  <2>1. CASE ~st.embeds
    BY <1>0, <1>1, <1>4, <2>1 DEF Copying, Beginning, forked_child_turn_starts_own_session
  <2>2. CASE st.embeds
    <3>1. codex_uuid_v7_order_key(turn) = {turn.ms}
      BY <1>4, <2>2 DEF codex_uuid_v7_order_key, ForkTurn, Readable
    <3>2. turn.ms = ForkMs \/ turn.ms > ForkMs
      BY <1>4 DEF ForkTurn, ForkMs
    <3>3. forked_child_turn_starts_own_session(run(p).s, turn)
      BY <1>4, <3>1, <3>2 DEF forked_child_turn_starts_own_session, Copying
    <3>4. st.ids
      BY <2>2 DEF Readable
    <3> QED BY <1>0, <1>1, <1>4, <3>3, <3>4 DEF Copying, Beginning
  <2> QED BY <2>1, <2>2
<1> QED BY <1>0, <1>2, <1>3, <1>4

\* The parser when a turn has begun.
Begun(st, t, th, turn, runs, r) ==
  /\ ~r.s.waiting
  /\ r.s.child = IF t = Parent THEN 0 ELSE Child
  /\ r.s.meta = t
  /\ r.s.selected <=> th.fast
  /\ r.s.fast <=> runs
  /\ t = Parent => r.s.turn = NameIn(st, turn)
  /\ r.s.prompted => t = Parent \/ st.user

LEMMA ContextComes ==
  ASSUME NEW st, NEW tr, NEW t \in Threads, NEW th, NEW turn, turn # NoTurn,
         NEW p, Counts(st, tr, t, p), Beginning(st, tr, t, th, turn, run(p)),
         NEW l, l.type = "turn_context", l.turn = (IF st.ids THEN turn ELSE NoTurn),
         Mentions(l) = {},
         NEW runs, runs <=> th.fast /\ l.model # {}
  PROVE  /\ SameRowsIn(st, tr, t, p, Append(p, l))
         /\ Begun(st, t, th, turn, runs, run(Append(p, l)))
<1> DEFINE r == run(p)
           q == run(Append(p, l))
<1>0. Child # Parent /\ Child # 0 /\ (t = Parent \/ t = Child)
  BY DEF Child, Parent, Threads
<1>1. IsOwn(r.s, l)
  BY DEF IsOwn, Beginning
<1>2. OwnLineKeeps(st, tr, t, p, Append(p, l), l)
  BY <1>1, OwnLineComes
<1>3. SameRowsIn(st, tr, t, p, Append(p, l)) /\ OwnLineDoes(r, l, q) /\ q.s.child = r.s.child
  BY <1>2 DEF OwnLineKeeps, SameRowsIn
<1> HIDE DEF r, q
<1>4. Beginning(st, tr, t, th, turn, r)
  BY DEF r
<1>5. /\ ~q.s.waiting /\ q.s.selected = r.s.selected /\ q.s.prompted = r.s.prompted
      /\ q.s.meta = IF r.s.waiting /\ r.s.child # 0 THEN r.s.child ELSE r.s.meta
      /\ q.s.turn = IF l.turn # NoTurn THEN l.turn
                    ELSE IF r.s.announced THEN r.s.turn ELSE NoTurn
      /\ q.s.fast <=> r.s.selected /\ l.model # {}
  BY <1>3 DEF OwnLineDoes
<1>6. q.s.meta = t
  BY <1>0, <1>4, <1>5 DEF Beginning
<1>7. t = Parent => q.s.turn = NameIn(st, turn)
  BY <1>4, <1>5 DEF Beginning, NameIn
<1>8. Begun(st, t, th, turn, runs, q)
  BY <1>3, <1>4, <1>5, <1>6, <1>7 DEF Beginning, Begun
<1> QED BY <1>3, <1>8 DEF q

LEMMA PromptComes ==
  ASSUME NEW st, NEW tr, NEW t \in Threads, t = Parent \/ st.user, NEW th, NEW turn, NEW runs,
         NEW p, Counts(st, tr, t, p), Begun(st, t, th, turn, runs, run(p)),
         NEW l, l.type = "user_message", Mentions(l) = {}
  PROVE  /\ SameRowsIn(st, tr, t, p, Append(p, l))
         /\ Begun(st, t, th, turn, runs, run(Append(p, l)))
<1> DEFINE r == run(p)
           q == run(Append(p, l))
<1>1. IsOwn(r.s, l)
  BY DEF IsOwn, Begun
<1>2. OwnLineKeeps(st, tr, t, p, Append(p, l), l)
  BY <1>1, OwnLineComes
<1>3. SameRowsIn(st, tr, t, p, Append(p, l)) /\ OwnLineDoes(r, l, q) /\ q.s.child = r.s.child
  BY <1>2 DEF OwnLineKeeps, SameRowsIn
<1> HIDE DEF r, q
<1>4. Begun(st, t, th, turn, runs, r)
  BY DEF r
<1>5. /\ ~q.s.waiting /\ q.s.selected = r.s.selected /\ q.s.turn = r.s.turn
      /\ q.s.fast = r.s.fast
      /\ q.s.meta = r.s.meta
  BY <1>3, <1>4 DEF OwnLineDoes, Begun
<1>6. Begun(st, t, th, turn, runs, q)
  BY <1>3, <1>4, <1>5 DEF Begun
<1> QED BY <1>3, <1>6 DEF q

\* With what Codex knows of the thread by then.
LEMMA TurnFollows ==
  ASSUME NEW st, NEW tr, NEW t, NEW th, NEW turn, NEW runs, NEW r,
         Begun(st, t, th, turn, runs, r),
         \A x \in Prompted(r) : tr[x].turn # turn,
         NEW later, later.fast = th.fast, later.copied = th.copied, later.total = th.total,
         later.turn = turn, later.runs = runs, later.last = {},
         th.total = th.copied \cup Tok(r)
  PROVE  Follows(st, tr, t, later, r)
BY DEF Begun, Follows, InTheTurn

LEMMA NoneIn ==
  ASSUME NEW r, RunOK(r), Size(r) = 0
  PROVE  Tok(r) = {} /\ Prompted(r) = {}
<1>1. 1 .. 0 = {}
  OBVIOUS
<1> QED BY <1>1 DEF Tok, Prompted

LEMMA PromptedAreIn == \A r : Prompted(r) \subseteq Tok(r)
BY DEF Prompted, Tok

LEMMA TokAre ==
  ASSUME NEW st, NEW tr, NEW t, NEW p, Counts(st, tr, t, p)
  PROVE  \A x \in Tok(run(p)) : x \in DOMAIN tr /\ tr[x].thread = t
BY DEF Counts, RowsOK, RowOK, Tok

-----------------------------------------------------------------------------
(* Lines are appended                                                       *)

LEMMA JoinedLines ==
  ASSUME NEW p, IsSeq(p)
  PROVE  /\ p \o <<>> = p
         /\ \A a : p \o <<a>> = Append(p, a)
<1>1. PICK T : p \in Seq(T)
  BY DEF IsSeq
<1>2. p \o <<>> = p
  BY <1>1, ConcatEmptySeq
<1>3. ASSUME NEW a PROVE p \o <<a>> = Append(p, a)
  <2>1. p \in Seq(T \cup {a}) /\ a \in T \cup {a}
    BY <1>1, SeqMonotonic
  <2> QED BY <2>1, AppendIsConcat
<1> QED BY <1>2, <1>3

LEMMA JoinedTwice ==
  ASSUME NEW p, IsSeq(p), NEW x, IsSeq(x), NEW y, IsSeq(y)
  PROVE  p \o (x \o y) = (p \o x) \o y
<1>1. PICK T : p \in Seq(T)
  BY DEF IsSeq
<1>2. PICK U : x \in Seq(U)
  BY DEF IsSeq
<1>3. PICK V : y \in Seq(V)
  BY DEF IsSeq
<1> DEFINE W == T \cup (U \cup V)
<1>4. p \in Seq(W) /\ x \in Seq(W) /\ y \in Seq(W)
  <2>1. T \subseteq W /\ U \subseteq W /\ V \subseteq W
    OBVIOUS
  <2> HIDE DEF W
  <2> QED BY <1>1, <1>2, <1>3, <2>1, SeqMonotonic
<1> HIDE DEF W
<1> QED BY <1>4, ConcatAssociative

\* The lines of a turn, written at once and read one by one.
AtOnce(p, x, a, y)   == p \o ((x \o <<a>>) \o y)
OneByOne(p, x, a, y) == Append(p \o x, a) \o y

LEMMA JoinedAround ==
  ASSUME NEW p, IsSeq(p), NEW x, IsSeq(x), NEW y, IsSeq(y), NEW a
  PROVE  AtOnce(p, x, a, y) = OneByOne(p, x, a, y)
<1> DEFINE c == <<a>>
           xc == x \o c
           px == p \o x
<1>1. IsSeq(c)
  BY ShortSeqs
<1> HIDE DEF c
<1>2. IsSeq(xc) /\ IsSeq(px)
  BY <1>1, JoinedSeq
<1>3. p \o xc = px \o c
  BY <1>1, JoinedTwice
<1>4. px \o c = Append(px, a)
  BY <1>2, JoinedLines DEF c
<1> HIDE DEF xc, px
<1>5. p \o (xc \o y) = (p \o xc) \o y
  BY <1>2, JoinedTwice
<1> QED BY <1>3, <1>4, <1>5 DEF xc, px, c, AtOnce, OneByOne

\* q is p and then lines of S.
Extends(p, q, S) ==
  /\ IsSeq(q) /\ Len(q) \in Nat /\ Len(p) \in Nat /\ Len(p) <= Len(q)
  /\ \A i \in 1 .. Len(p) : q[i] = p[i]
  /\ \A i \in 1 .. Len(q) : i \in 1 .. Len(p) \/ q[i] \in S

LEMMA ExtendsItself ==
  ASSUME NEW p, IsSeq(p), NEW S
  PROVE  Extends(p, p, S)
<1>1. Len(p) \in Nat
  BY Lengths
<1> QED BY <1>1 DEF Extends

LEMMA ExtendsMore ==
  ASSUME NEW p, NEW q, NEW S, Extends(p, q, S), NEW l \in S
  PROVE  Extends(p, Append(q, l), S)
<1> DEFINE longer == Append(q, l)
           m == Len(p)
           n == Len(q)
<1>1. /\ IsSeq(longer) /\ Len(longer) = n + 1 /\ n \in Nat
      /\ \A i \in 1 .. n : longer[i] = q[i]
      /\ longer[n + 1] = l
  BY AppendedLine DEF Extends
<1>2. /\ m \in Nat /\ m <= n
      /\ \A i \in 1 .. m : q[i] = p[i]
      /\ \A i \in 1 .. n : i \in 1 .. m \/ q[i] \in S
  BY DEF Extends
<1> HIDE DEF longer, m, n
<1>3. /\ n + 1 \in Nat /\ m <= n + 1
      /\ \A i \in 1 .. m : i \in 1 .. n
      /\ \A i \in 1 .. n + 1 : i \in 1 .. n \/ i = n + 1
  BY <1>1, <1>2
<1>4. \A i \in 1 .. m : longer[i] = p[i]
  BY <1>1, <1>2, <1>3
<1>5. \A i \in 1 .. n + 1 : i \in 1 .. m \/ longer[i] \in S
  BY <1>1, <1>2, <1>3
<1>6. Extends(p, longer, S)
  BY <1>1, <1>2, <1>3, <1>4, <1>5 DEF Extends, m
<1> QED BY <1>6 DEF longer

LEMMA TotalsGrow ==
  /\ \A st, total, more, l :
       total \subseteq more /\ UsageTotal(st, total, l) => UsageTotal(st, more, l)
  /\ \A st, total, more, p, forked :
       total \subseteq more /\ ParentLinesAre(st, total, p, forked)
         => ParentLinesAre(st, more, p, forked) /\ ParentLinesAre(st, more, p, TRUE)
  /\ \A st, total, more, p :
       total \subseteq more /\ ChildLinesAre(st, total, p) => ChildLinesAre(st, more, p)
<1>1. ASSUME NEW st, NEW total, NEW more, NEW l, total \subseteq more, UsageTotal(st, total, l)
      PROVE  UsageTotal(st, more, l)
  BY <1>1 DEF UsageTotal
<1>2. ASSUME NEW st, NEW total, NEW more, NEW l, NEW t, total \subseteq more,
             ThreadLine(st, t, total, l)
      PROVE  ThreadLine(st, t, more, l)
  BY <1>1, <1>2 DEF ThreadLine
<1>3. ASSUME NEW st, NEW total, NEW more, NEW p, NEW forked, total \subseteq more,
             ParentLinesAre(st, total, p, forked)
      PROVE  ParentLinesAre(st, more, p, forked) /\ ParentLinesAre(st, more, p, TRUE)
  BY <1>2, <1>3 DEF ParentLinesAre
<1>4. ASSUME NEW st, NEW total, NEW more, NEW p, total \subseteq more, ChildLinesAre(st, total, p)
      PROVE  ChildLinesAre(st, more, p)
  BY <1>1, <1>4 DEF ChildLinesAre
<1> QED BY <1>1, <1>3, <1>4

LEMMA LinesGrow ==
  ASSUME NEW st, NEW total, NEW p, NEW q, NEW S, Extends(p, q, S)
  PROVE  /\ \A forked : /\ ParentLinesAre(st, total, p, forked)
                        /\ \A l \in S : ThreadLine(st, Parent, total, l)
                                        /\ (~forked => EarlyLine(st, l))
                        => ParentLinesAre(st, total, q, forked)
         /\ /\ ChildLinesAre(st, total, p)
            /\ \A l \in S : l.type = "token_count" => UsageTotal(st, total, l)
            => ChildLinesAre(st, total, q)
<1> DEFINE m == Len(p)
           n == Len(q)
<1>1. /\ IsSeq(q) /\ m \in Nat /\ n \in Nat /\ m <= n
      /\ \A i \in 1 .. m : q[i] = p[i]
      /\ \A i \in 1 .. n : i \in 1 .. m \/ q[i] \in S
  BY DEF Extends
<1> HIDE DEF m, n
<1>2. ASSUME NEW forked, ParentLinesAre(st, total, p, forked),
             \A l \in S : ThreadLine(st, Parent, total, l) /\ (~forked => EarlyLine(st, l))
      PROVE  ParentLinesAre(st, total, q, forked)
  <2>1. m >= 1 /\ \A i \in 2 .. m : /\ ThreadLine(st, Parent, total, p[i])
                                    /\ ~forked => EarlyLine(st, p[i])
    BY <1>2 DEF ParentLinesAre, m
  <2>2. 1 \in 1 .. m /\ n >= 1
    BY <1>1, <2>1
  <2>3. ASSUME NEW i \in 2 .. n
        PROVE  ThreadLine(st, Parent, total, q[i]) /\ (~forked => EarlyLine(st, q[i]))
    <3>1. i \in 1 .. n /\ (i \in 1 .. m => i \in 2 .. m)
      BY <1>1
    <3> QED BY <1>1, <1>2, <2>1, <3>1
  <2> QED BY <1>1, <1>2, <2>2, <2>3 DEF ParentLinesAre, n
<1>3. ASSUME ChildLinesAre(st, total, p),
             \A l \in S : l.type = "token_count" => UsageTotal(st, total, l)
      PROVE  ChildLinesAre(st, total, q)
  <2>1. \A i \in 1 .. m : p[i].type = "token_count" => UsageTotal(st, total, p[i])
    BY <1>3 DEF ChildLinesAre, m
  <2> QED BY <1>1, <1>3, <2>1 DEF ChildLinesAre, n
<1> QED BY <1>2, <1>3

-----------------------------------------------------------------------------
(* What Codex does, step by step                                            *)

WorldCounts ==
  /\ ParentFollows(style, truth, thread[Parent], log[Parent], thread[Child].live)
  /\ ChildFollows(style, truth, thread[Child], log[Child])
  /\ TurnsAre(truth, thread, turns)
  /\ MirrorsAre(style, truth, mirror)

\* The lines that begin a turn: x, context and y.
AnnouncedIn(st, t) == IF t = Parent THEN st.announce ELSE ~st.user
TurnLines(st, t, th, turn, runs, start, context, ask, x, y) ==
  /\ turn # NoTurn
  /\ start.type = "task_started" /\ start.turn = turn /\ start.id = 0 /\ Mentions(start) = {}
  /\ context.type = "turn_context" /\ context.turn = (IF st.ids THEN turn ELSE NoTurn)
  /\ Mentions(context) = {} /\ (runs <=> th.fast /\ context.model # {})
  /\ ask.type = "user_message" /\ Mentions(ask) = {}
  /\ x = IF AnnouncedIn(st, t) THEN <<start>> ELSE <<>>
  /\ y = IF t = Parent \/ st.user THEN <<ask>> ELSE <<>>

\* Where it may begin.
MayBegin(st, tr, t, th, p, turn) ==
  /\ Counts(st, tr, t, p)
  /\ \/ Follows(st, tr, t, th, run(p)) /\ (t = Child => th.turn # NoTurn)
     \/ t = Child /\ Copying(st, run(p)) /\ ForkTurn(st, turn) /\ ~th.fast

LEMMA TurnWritten ==
  ASSUME NEW st, Readable(st), NEW tr, NEW t \in Threads, NEW th, NEW p, NEW turn,
         MayBegin(st, tr, t, th, p, turn),
         NEW runs, NEW start, NEW context, NEW ask, NEW x, NEW y,
         TurnLines(st, t, th, turn, runs, start, context, ask, x, y),
         NEW q, q = AtOnce(p, x, context, y)
  PROVE  /\ SameRowsIn(st, tr, t, p, q)
         /\ Begun(st, t, th, turn, runs, run(q))
         /\ Extends(p, q, {start, context, ask})
<1> DEFINE S == {start, context, ask}
           p1 == p \o x
           p2 == Append(p1, context)
           p3 == p2 \o y
           announces == AnnouncedIn(st, t)
<1>a. /\ turn # NoTurn
      /\ start.type = "task_started" /\ start.turn = turn /\ start.id = 0 /\ Mentions(start) = {}
      /\ context.type = "turn_context" /\ context.turn = (IF st.ids THEN turn ELSE NoTurn)
      /\ Mentions(context) = {} /\ (runs <=> th.fast /\ context.model # {})
      /\ ask.type = "user_message" /\ Mentions(ask) = {}
      /\ x = IF announces THEN <<start>> ELSE <<>>
      /\ y = IF t = Parent \/ st.user THEN <<ask>> ELSE <<>>
      /\ announces <=> IF t = Parent THEN st.announce ELSE ~st.user
  BY DEF TurnLines, AnnouncedIn
<1>b. /\ Counts(st, tr, t, p)
      /\ \/ Follows(st, tr, t, th, run(p)) /\ (t = Child => th.turn # NoTurn)
         \/ t = Child /\ Copying(st, run(p)) /\ ForkTurn(st, turn) /\ ~th.fast
  BY DEF MayBegin
<1> HIDE DEF announces
<1> USE <1>a, <1>b
<1>0. Child # Parent /\ (t = Parent \/ t = Child) /\ IsSeq(p)
  BY DEF Child, Parent, Threads, Counts
<1>1. /\ SameRowsIn(st, tr, t, p, p1)
      /\ Beginning(st, tr, t, th, turn, run(p1))
      /\ Extends(p, p1, S)
  <2>1. CASE ~announces
    <3>1. p1 = p
      BY <1>0, <2>1, JoinedLines
    <3>2. Extends(p, p, S)
      BY <1>0, ExtendsItself
    <3>3. SameRowsIn(st, tr, t, p, p) /\ Beginning(st, tr, t, th, turn, run(p))
      BY <1>0, <2>1, NoTaskStarts
    <3> QED BY <3>1, <3>2, <3>3
  <2>2. CASE announces
    <3>1. p1 = Append(p, start)
      BY <1>0, <2>2, JoinedLines
    <3>2. Extends(p, Append(p, start), S)
      <4>1. Extends(p, p, S) /\ start \in S
        BY <1>0, ExtendsItself
      <4> HIDE DEF S
      <4> QED BY <4>1, ExtendsMore
    <3>3. /\ SameRowsIn(st, tr, t, p, Append(p, start))
          /\ Beginning(st, tr, t, th, turn, run(Append(p, start)))
      <4>1. CASE t = Parent
        BY <1>0, <2>2, <4>1, TaskStartsInParent
      <4>2. CASE t = Child /\ Follows(st, tr, t, th, run(p)) /\ th.turn # NoTurn
        BY <2>2, <4>2, TaskStartsInChild
      <4>3. CASE t = Child /\ Copying(st, run(p)) /\ ForkTurn(st, turn) /\ ~th.fast
        BY <1>0, <2>2, <4>3, FirstTaskStarts
      <4> QED BY <1>0, <4>1, <4>2, <4>3
    <3> HIDE DEF p1, S
    <3> QED BY <3>1, <3>2, <3>3
  <2> QED BY <2>1, <2>2
<1> HIDE DEF p1
<1>2. Counts(st, tr, t, p1)
  BY <1>1 DEF SameRowsIn
<1>3. /\ SameRowsIn(st, tr, t, p1, p2)
      /\ Begun(st, t, th, turn, runs, run(p2))
  BY <1>1, <1>2, ContextComes
<1>4. Extends(p, p2, S)
  <2>1. context \in S
    OBVIOUS
  <2> HIDE DEF S
  <2> QED BY <1>1, <2>1, ExtendsMore
<1> HIDE DEF p2
<1>5. Counts(st, tr, t, p2)
  BY <1>3 DEF SameRowsIn
<1>6. /\ SameRowsIn(st, tr, t, p2, p3)
      /\ Begun(st, t, th, turn, runs, run(p3))
      /\ Extends(p, p3, S)
  <2>0. IsSeq(p2)
    BY <1>4 DEF Extends
  <2>1. CASE ~(t = Parent \/ st.user)
    <3>1. p3 = p2
      BY <2>0, <2>1, JoinedLines
    <3> HIDE DEF p3, S
    <3> QED BY <1>3, <1>4, <1>5, <3>1 DEF SameRowsIn
  <2>2. CASE t = Parent \/ st.user
    <3>1. p3 = Append(p2, ask)
      BY <2>0, <2>2, JoinedLines
    <3>2. ask \in S
      OBVIOUS
    <3> HIDE DEF p3, S
    <3>3. Extends(p, Append(p2, ask), S)
      BY <1>4, <3>2, ExtendsMore
    <3>4. /\ SameRowsIn(st, tr, t, p2, Append(p2, ask))
          /\ Begun(st, t, th, turn, runs, run(Append(p2, ask)))
      BY <1>3, <1>5, <2>2, PromptComes
    <3> QED BY <3>1, <3>3, <3>4
  <2> QED BY <2>1, <2>2
<1>7. q = p3
  <2>1. IsSeq(x) /\ IsSeq(y)
    BY ShortSeqs
  <2>2. q = OneByOne(p, x, context, y)
    BY <1>0, <2>1, JoinedAround
  <2> QED BY <2>2 DEF p1, p2, OneByOne
<1> HIDE DEF p3, S
<1>8. SameRowsIn(st, tr, t, p, p3)
  BY <1>1, <1>3, <1>6 DEF SameRowsIn
<1> QED BY <1>6, <1>7, <1>8 DEF S

\* A rollout to which lines were added that are not of a usage, at the beginning
\* of a turn.
LEMMA ParentTurn ==
  ASSUME NEW st, NEW tr, NEW th, NEW p, NEW forked, ParentFollows(st, tr, th, p, forked),
         NEW turn, \A x \in DOMAIN tr : tr[x].turn # turn,
         NEW runs, NEW q, NEW S, SameRowsIn(st, tr, Parent, p, q),
         Begun(st, Parent, th, turn, runs, run(q)), Extends(p, q, S),
         \A l \in S : ThreadLine(st, Parent, th.total, l) /\ (~forked => EarlyLine(st, l)),
         NEW later, later.live = th.live, later.fast = th.fast, later.copied = th.copied,
         later.total = th.total, later.turn = turn, later.runs = runs, later.last = {}
  PROVE  ParentFollows(st, tr, later, q, forked)
<1>1. /\ th.live /\ th.copied = {} /\ ParentLinesAre(st, th.total, p, forked)
      /\ th.total = th.copied \cup Tok(run(p))
  BY DEF ParentFollows, Follows
<1>2. ParentLinesAre(st, th.total, q, forked)
  BY <1>1, LinesGrow
<1>3. Counts(st, tr, Parent, q) /\ Tok(run(q)) = Tok(run(p))
  BY DEF SameRowsIn
<1>4. \A x \in Prompted(run(q)) : tr[x].turn # turn
  BY <1>3, PromptedAreIn, TokAre
<1>5. Follows(st, tr, Parent, later, run(q))
  BY <1>1, <1>3, <1>4, TurnFollows
<1> QED BY <1>1, <1>2, <1>3, <1>5 DEF ParentFollows

LEMMA ChildTurn ==
  ASSUME NEW st, NEW tr, NEW th, NEW p, ChildFollows(st, tr, th, p), th.live,
         NEW turn, \A x \in DOMAIN tr : tr[x].turn # turn, turn # NoTurn,
         NEW runs, NEW q, NEW S, SameRowsIn(st, tr, Child, p, q),
         Begun(st, Child, th, turn, runs, run(q)), Extends(p, q, S),
         \A l \in S : l.type # "token_count",
         NEW later, later.live = th.live, later.fast = th.fast, later.copied = th.copied,
         later.total = th.total, later.turn = turn, later.runs = runs, later.last = {}
  PROVE  ChildFollows(st, tr, later, q)
<1>1. /\ \A x \in th.copied : x \in DOMAIN tr /\ tr[x].thread = Parent
      /\ ChildLinesAre(st, th.total, p)
      /\ ChildTotals(st, th, run(p))
      /\ Counts(st, tr, Child, p)
      /\ IF th.turn = NoTurn THEN Copying(st, run(p)) /\ th.total = th.copied /\ th.last = {} /\ ~th.fast
         ELSE Follows(st, tr, Child, th, run(p))
  BY DEF ChildFollows
<1>2. th.total = th.copied \cup Tok(run(p))
  <2>1. CASE th.turn = NoTurn
    <3>1. Size(run(p)) = 0 /\ RunOK(run(p))
      BY <1>1, <2>1 DEF Copying, Counts
    <3> QED BY <1>1, <2>1, <3>1, NoneIn
  <2>2. CASE th.turn # NoTurn
    BY <1>1, <2>2 DEF Follows
  <2> QED BY <2>1, <2>2
<1>3. ChildLinesAre(st, th.total, q)
  BY <1>1, LinesGrow
<1>4. /\ Counts(st, tr, Child, q) /\ Tok(run(q)) = Tok(run(p))
      /\ run(q).s.previous = run(p).s.previous /\ run(q).s.baseline = run(p).s.baseline
  BY DEF SameRowsIn
<1>5. \A x \in Prompted(run(q)) : tr[x].turn # turn
  BY <1>4, PromptedAreIn, TokAre
<1>6. Follows(st, tr, Child, later, run(q))
  BY <1>2, <1>4, <1>5, TurnFollows
<1>7. ChildTotals(st, later, run(q))
  BY <1>1, <1>4 DEF ChildTotals
<1> QED BY <1>1, <1>3, <1>4, <1>6, <1>7 DEF ChildFollows

LEMMA NewTurn ==
  ASSUME NEW tr, NEW threads, NEW n \in Nat, TurnsAre(tr, threads, n),
         NEW turn, turn.n = n + 1,
         NEW t \in Threads, NEW later, later[t].turn = turn,
         \A u \in Threads \ {t} : later[u].turn = threads[u].turn
  PROVE  TurnsAre(tr, later, n + 1)
<1>0. Threads = {Parent, Child} /\ Parent # Child
  BY DEF Threads, Parent, Child
<1>1. \A u \in Threads : threads[u].turn = NoTurn \/ threads[u].turn.n \in 1 .. n
  BY DEF TurnsAre
<1>2. \A x \in DOMAIN tr : tr[x].turn.n \in 1 .. n
  BY DEF TurnsAre
<1>3. \A k : k \in 1 .. n => k \in 1 .. n + 1 /\ k # n + 1
  OBVIOUS
<1>4. NoTurn.n # n + 1 /\ n + 1 \in 1 .. n + 1
  BY DEF NoTurn
<1>6. \A x \in DOMAIN tr : tr[x].turn.n \in 1 .. n + 1 /\ tr[x].turn # turn
  BY <1>2, <1>3
<1>7. \A u \in Threads : /\ threads[u].turn # turn
                         /\ later[u].turn = NoTurn \/ later[u].turn.n \in 1 .. n + 1
                         /\ later[u].turn = IF u = t THEN turn ELSE threads[u].turn
  BY <1>1, <1>3, <1>4
<1>8. \A u \in Threads, x \in DOMAIN tr : tr[x].turn = later[u].turn => tr[x].thread = u
  BY <1>6, <1>7 DEF TurnsAre
<1>9. later[Parent].turn # later[Child].turn
         \/ later[Parent].turn = NoTurn
  BY <1>0, <1>7
<1> QED BY <1>6, <1>7, <1>8, <1>9 DEF TurnsAre

LEMMA StyleIs == WorldOK => style \in Style
BY StylesAreStyles DEF WorldOK

LEMMA WrittenTo ==
  ASSUME WorldOK, NEW t \in Threads, NEW lines, Write(t, lines)
  PROVE  /\ log'[t] = log[t] \o lines
         /\ \A u \in Threads \ {t} : log'[u] = log[u]
         /\ UNCHANGED <<style, cache, at, outcome, counted>> /\ at # "counted"
BY DEF Write, WorldOK, scan

LEMMA TurnCounts ==
  ASSUME WorldOK, WorldCounts, Readable(style), NEW t \in Threads, BeginTurn(t)
  PROVE  WorldCounts'
<1> DEFINE names(ms) == [n |-> turns + 1, ms |-> ms, v7 |-> style.v7]
           named == style.model = "context" \/ (style.model = "late" /\ turns > 0)
           start(turn) == [Line EXCEPT !.type = "task_started", !.turn = turn]
           context(turn) == [Line EXCEPT !.type = "turn_context",
                                         !.turn = IF style.ids THEN turn ELSE NoTurn,
                                         !.model = IF named THEN {"m"} ELSE {}]
           ask == [Line EXCEPT !.type = "user_message"]
           x(turn) == IF Announces(t) THEN <<start(turn)>> ELSE <<>>
           y == IF t = Parent \/ style.user THEN <<ask>> ELSE <<>>
           th == thread[t]
           runs == th.fast /\ named
           p == log[t]
           q == log'[t]
<1>0. /\ Child # Parent /\ Threads = {Parent, Child}
      /\ turns \in Nat /\ thread \in [Threads -> Thread]
  BY BoundNats DEF Child, Parent, Threads, WorldOK
<1>1. PICK ms \in IF Forked THEN {1, 2}
                 ELSE IF style.user \/ style.nested \/ ~style.v7 THEN {0} ELSE {0, 1} :
        /\ thread' = [thread EXCEPT ![t].turn = names(ms), ![t].last = {}, ![t].runs = runs]
        /\ Write(t, x(names(ms)) \o <<context(names(ms))>> \o y)
  BY Zenon DEF BeginTurn
<1> DEFINE turn == names(ms)
           S == {start(turn), context(turn), ask}
<1>2. turns' = turns + 1 /\ UNCHANGED <<truth, mirror>> /\ th.live
  BY DEF BeginTurn
<1>3. turn.n = turns + 1 /\ turn.ms = ms /\ turn.v7 = style.v7 /\ turn # NoTurn
  BY <1>0 DEF NoTurn
<1>4. /\ start(turn).type = "task_started" /\ start(turn).turn = turn /\ start(turn).id = 0
      /\ start(turn).total = {} /\ start(turn).last = {}
      /\ context(turn).type = "turn_context"
      /\ context(turn).turn = (IF style.ids THEN turn ELSE NoTurn) /\ context(turn).id = 0
      /\ context(turn).total = {} /\ context(turn).last = {}
      /\ context(turn).model # {} <=> named
      /\ ask.type = "user_message" /\ ask.id = 0 /\ ask.total = {} /\ ask.last = {}
  <2> HIDE DEF turn
  <2> QED BY DEF Line
<1>5. /\ Mentions(start(turn)) = {} /\ Mentions(context(turn)) = {} /\ Mentions(ask) = {}
  <2> HIDE DEF start, context, ask, turn
  <2> QED BY <1>4 DEF Mentions
<1>6. /\ thread'[t].live = th.live /\ thread'[t].fast = th.fast /\ thread'[t].copied = th.copied
      /\ thread'[t].total = th.total /\ thread'[t].turn = turn /\ thread'[t].runs = runs
      /\ thread'[t].last = {}
      /\ \A u \in Threads \ {t} : thread'[u] = thread[u]
  <2> HIDE DEF turn, runs
  <2> QED BY <1>0, <1>1 DEF Thread, turn
<1>7. q = AtOnce(p, x(turn), context(turn), y)
      /\ (\A u \in Threads \ {t} : log'[u] = log[u]) /\ style' = style
  <2> HIDE DEF x, y, context, turn
  <2>1. Write(t, x(turn) \o <<context(turn)>> \o y)
    BY <1>1 DEF turn
  <2> DEFINE lines == x(turn) \o <<context(turn)>> \o y
  <2>2. AtOnce(p, x(turn), context(turn), y) = p \o lines
    BY Zenon DEF AtOnce
  <2> HIDE DEF lines
  <2>3. Write(t, lines)
    BY <2>1 DEF lines
  <2> QED BY <2>2, <2>3, WrittenTo
<1>8. \A z \in DOMAIN truth : truth[z].turn # turn
  <2>1. \A z \in DOMAIN truth : truth[z].turn.n \in 1 .. turns
    BY DEF WorldCounts, TurnsAre
  <2> HIDE DEF turn
  <2> QED BY <1>0, <1>3, <2>1
<1> HIDE DEF turn, start, context, ask, runs, named
<1>9. Announces(t) <=> IF t = Parent THEN style.announce ELSE ~style.user
  BY DEF Announces
<1>10. /\ Counts(style, truth, t, p)
       /\ \/ Follows(style, truth, t, th, run(p)) /\ (t = Child => th.turn # NoTurn)
          \/ t = Child /\ Copying(style, run(p)) /\ ForkTurn(style, turn) /\ ~th.fast
  <2>1. CASE t = Parent
    BY <1>0, <2>1 DEF WorldCounts, ParentFollows
  <2>2. CASE t = Child
    <3>1. ms \in {1, 2}
      BY <1>1, <1>2, <2>2 DEF Forked
    <3> QED BY <1>2, <1>3, <2>2, <3>1 DEF WorldCounts, ChildFollows, ForkTurn
  <2> QED BY <1>0, <2>1, <2>2
<1>11. /\ SameRowsIn(style, truth, t, p, q)
       /\ Begun(style, t, th, turn, runs, run(q))
       /\ Extends(p, q, S)
  <2>1. x(turn) = IF Announces(t) THEN <<start(turn)>> ELSE <<>>
    OBVIOUS
  <2>2. y = IF t = Parent \/ style.user THEN <<ask>> ELSE <<>>
    OBVIOUS
  <2>3. runs <=> th.fast /\ context(turn).model # {}
    BY <1>4 DEF runs
  <2>4. MayBegin(style, truth, t, th, p, turn)
    <3> HIDE DEF p, th
    <3> QED BY <1>10 DEF MayBegin
  <2> HIDE DEF x, y, th, p, q
  <2>5. TurnLines(style, t, th, turn, runs, start(turn), context(turn), ask, x(turn), y)
    BY <1>3, <1>4, <1>5, <1>9, <2>1, <2>2, <2>3 DEF TurnLines, AnnouncedIn
  <2>6. q = AtOnce(p, x(turn), context(turn), y)
    BY <1>7
  <2> QED BY <2>4, <2>5, <2>6, TurnWritten
<1>12. TurnsAre(truth', thread', turns')
  <2>1. TurnsAre(truth, thread, turns)
    BY DEF WorldCounts
  <2>2. TurnsAre(truth, thread', turns + 1)
    BY <1>0, <1>3, <1>6, <2>1, NewTurn
  <2> QED BY <1>2, <2>2
<1>13. MirrorsAre(style', truth', mirror')
  BY <1>2, <1>7 DEF WorldCounts
<1>14. CASE t = Parent
  <2>1. ParentFollows(style, truth, th, p, thread[Child].live)
    BY <1>14 DEF WorldCounts
  <2>2. \A l \in S : /\ ThreadLine(style, Parent, th.total, l)
                     /\ ~thread[Child].live => EarlyLine(style, l)
    <3>1. \A l \in S : ThreadLine(style, Parent, th.total, l)
      BY <1>4, <1>5 DEF ThreadLine
    <3>2. ~Forked => EarlyTurn(style, turn)
      BY <1>1, <1>3 DEF EarlyTurn
    <3>3. ~Forked => \A l \in S : EarlyLine(style, l)
      <4>1. EarlyTurn(style, NoTurn)
        BY DEF EarlyTurn, NoTurn
      <4> QED BY <1>3, <1>4, <3>2, <4>1 DEF EarlyLine
    <3> QED BY <3>1, <3>3 DEF Forked
  <2>3. ParentFollows(style, truth, thread'[Parent], q, thread[Child].live)
    <3> HIDE DEF S, q, p, th
    <3>1. SameRowsIn(style, truth, Parent, p, q) /\ Begun(style, Parent, th, turn, runs, run(q))
      BY <1>11, <1>14
    <3> QED BY <1>6, <1>8, <1>11, <1>14, <2>1, <2>2, <3>1, ParentTurn
  <2>4. thread'[Child] = thread[Child] /\ log'[Child] = log[Child]
    BY <1>0, <1>6, <1>7, <1>14
  <2> QED BY <1>2, <1>7, <1>12, <1>13, <1>14, <2>3, <2>4 DEF WorldCounts
<1>15. CASE t = Child
  <2>1. ChildFollows(style, truth, th, p)
    BY <1>15 DEF WorldCounts
  <2>2. \A l \in S : l.type # "token_count"
    BY <1>4
  <2>3. ChildFollows(style, truth, thread'[Child], q)
    <3> HIDE DEF S, q, p, th
    <3>1. SameRowsIn(style, truth, Child, p, q) /\ Begun(style, Child, th, turn, runs, run(q))
      BY <1>11, <1>15
    <3> QED BY <1>2, <1>3, <1>6, <1>8, <1>11, <1>15, <2>1, <2>2, <3>1, ChildTurn
  <2>4. thread'[Parent] = thread[Parent] /\ log'[Parent] = log[Parent]
    BY <1>0, <1>6, <1>7, <1>15
  <2> QED BY <1>2, <1>6, <1>7, <1>12, <1>13, <1>15, <2>3, <2>4 DEF WorldCounts
<1> QED BY <1>0, <1>14, <1>15

-----------------------------------------------------------------------------
(* A response comes                                                         *)

Grows(tr, later, new) ==
  /\ new \in Nat /\ new \notin DOMAIN tr /\ DOMAIN later = DOMAIN tr \cup {new}
  /\ \A x \in DOMAIN tr : later[x] = tr[x]
  /\ \A st, t, p : Counts(st, tr, t, p) =>
       /\ Counts(st, later, t, p)
       /\ \A i \in 1 .. Size(run(p)) : new \notin Row(run(p), i).key[4]

Learns(tr, fact, later, new) == later = Append(tr, fact) /\ new = Len(tr) + 1

LEMMA NewTruth ==
  ASSUME NEW tr, IsSeq(tr), NEW fact, NEW later, NEW new, Learns(tr, fact, later, new)
  PROVE  Grows(tr, later, new) /\ later[new] = fact
BY TruthGrows DEF Grows, Learns

\* A line of the thread's own between its usages.
Changed(th, later, fast) ==
  /\ later.live = th.live /\ later.turn = th.turn /\ later.total = th.total
  /\ later.copied = th.copied /\ later.runs = th.runs /\ later.last = th.last
  /\ later.fast = fast

Quiet(t, th, l, later) ==
  /\ l.type \in {"other", "settings"} /\ l.id \in {0, t} /\ Mentions(l) = {}
  /\ Changed(th, later, IF l.type = "settings" THEN l.fast = {TRUE} ELSE th.fast)
QuietlyFollows(st, tr, t, later, p, q) ==
  SameRowsIn(st, tr, t, p, q) /\ Follows(st, tr, t, later, run(q))

LEMMA FollowsStill ==
  ASSUME NEW st, NEW tr, NEW t, NEW th, NEW r, Follows(st, tr, t, th, r),
         NEW q, ~q.s.waiting, q.s.child = r.s.child, q.s.meta = r.s.meta,
         q.s.turn = r.s.turn, q.s.fast = r.s.fast, q.s.prompted => r.s.prompted,
         Tok(q) = Tok(r), Prompted(q) = Prompted(r),
         NEW later, NEW fast, Changed(th, later, fast), q.s.selected <=> fast
  PROVE  Follows(st, tr, t, later, q)
<1>1. InTheTurn(st, tr, t, th, r) => InTheTurn(st, tr, t, later, q)
  BY DEF InTheTurn, Changed
<1>2. /\ ~q.s.waiting /\ q.s.child = (IF t = Parent THEN 0 ELSE Child) /\ q.s.meta = t
      /\ q.s.selected <=> later.fast
      /\ later.total = later.copied \cup Tok(q)
  BY DEF Follows, Changed
<1>3. later.turn # NoTurn => InTheTurn(st, tr, t, later, q)
  BY <1>1 DEF Follows, Changed
<1>4. later.last # {} => /\ later.turn # NoTurn
                         /\ \E x \in Tok(q) : later.last = {x} /\ tr[x].turn = later.turn
  BY DEF Follows, Changed
<1> QED BY <1>2, <1>3, <1>4 DEF Follows

LEMMA QuietLine ==
  ASSUME NEW st, NEW tr, NEW t \in Threads, NEW th, NEW p, Counts(st, tr, t, p),
         Follows(st, tr, t, th, run(p)),
         NEW l, NEW later, Quiet(t, th, l, later)
  PROVE  QuietlyFollows(st, tr, t, later, p, Append(p, l))
<1> DEFINE r == run(p)
           q == run(Append(p, l))
<1>0. Child # Parent /\ Child # 0 /\ (t = Parent \/ t = Child)
  BY DEF Child, Parent, Threads
<1>a. Follows(st, tr, t, th, r)
  OBVIOUS
<1>b. /\ l.type \in {"other", "settings"} /\ l.id \in {0, t} /\ Mentions(l) = {}
  BY DEF Quiet
<1>1. IsOwn(r.s, l)
  BY <1>0, <1>b DEF IsOwn, Follows
<1>2. OwnLineKeeps(st, tr, t, p, Append(p, l), l)
  BY <1>b, <1>1, OwnLineComes
<1>3. SameRowsIn(st, tr, t, p, Append(p, l)) /\ OwnLineDoes(r, l, q) /\ q.s.child = r.s.child
      /\ Tok(q) = Tok(r) /\ Prompted(q) = Prompted(r)
  BY <1>2 DEF OwnLineKeeps, SameRowsIn
<1> HIDE DEF r, q
<1>4. /\ ~q.s.waiting /\ q.s.meta = r.s.meta /\ q.s.turn = r.s.turn /\ q.s.fast = r.s.fast
      /\ q.s.prompted = r.s.prompted
      /\ l.type = "settings" => (q.s.selected <=> l.fast = {TRUE})
      /\ l.type # "settings" => q.s.selected = r.s.selected
  BY <1>a, <1>b, <1>3 DEF OwnLineDoes, Follows
<1>6. q.s.selected <=> IF l.type = "settings" THEN l.fast = {TRUE} ELSE th.fast
  BY <1>a, <1>4 DEF Follows
<1>7. Follows(st, tr, t, later, q)
  <2> DEFINE fast == IF l.type = "settings" THEN l.fast = {TRUE} ELSE th.fast
  <2>1. Changed(th, later, fast) /\ (q.s.selected <=> fast)
    BY <1>6 DEF Quiet
  <2> HIDE DEF fast
  <2> QED BY <1>a, <1>3, <1>4, <2>1, FollowsStill
<1> QED BY <1>3, <1>7 DEF QuietlyFollows, q

\* What Codex knows of the thread by then.
Responded(th, later, new) ==
  /\ later.live = th.live /\ later.turn = th.turn /\ later.total = th.total \cup {new}
  /\ later.copied = th.copied /\ later.runs = th.runs /\ later.last = {new}
  /\ later.fast = th.fast
ResponseIn(tr, t, th, new) ==
  /\ th.turn # NoTurn
  /\ new \in DOMAIN tr
  /\ tr[new] = [thread |-> t, turn |-> th.turn, fast |-> th.runs]
  /\ \A x \in th.total : x \in DOMAIN tr /\ (t = Parent => tr[x].thread = Parent)
  /\ \A x \in th.copied : tr[x].thread # t
  /\ t = Parent => th.copied = {}

LEMMA FollowsResponse ==
  ASSUME NEW st, NEW tr, NEW t, NEW th, NEW r, Follows(st, tr, t, th, r),
         NEW new, ResponseIn(tr, t, th, new),
         NEW q, q.s.waiting = r.s.waiting, q.s.child = r.s.child, q.s.meta = r.s.meta,
         q.s.turn = r.s.turn, q.s.fast = r.s.fast, q.s.selected = r.s.selected,
         ~q.s.prompted, Tok(q) = Tok(r) \cup {new},
         NEW later, Responded(th, later, new)
  PROVE  Follows(st, tr, t, later, q)
<1>1. /\ ~q.s.waiting /\ q.s.child = (IF t = Parent THEN 0 ELSE Child) /\ q.s.meta = t
      /\ q.s.selected <=> later.fast
      /\ later.total = later.copied \cup Tok(q)
  BY DEF Follows, Responded
<1>2. InTheTurn(st, tr, t, later, q)
  BY DEF Follows, ResponseIn, InTheTurn, Responded
<1>3. later.turn # NoTurn /\ new \in Tok(q) /\ later.last = {new} /\ tr[new].turn = later.turn
  BY DEF Responded, ResponseIn
<1> QED BY <1>1, <1>2, <1>3 DEF Follows

WritesUsage(st, tr, t, later, p, q, new) ==
  /\ Counts(st, tr, t, q)
  /\ Follows(st, tr, t, later, run(q))
  /\ Tok(run(q)) = Tok(run(p)) \cup {new}
  /\ run(q).s.baseline = {}
  /\ run(q).s.previous = IF st.totals = "last" THEN {} ELSE {later.total}

LEMMA UsageWritten ==
  ASSUME NEW st, st.totals \in {"both", "total", "last"},
         NEW tr, NEW t \in Threads, NEW th, NEW p, Counts(st, tr, t, p),
         Follows(st, tr, t, th, run(p)),
         NEW new, ResponseIn(tr, t, th, new), Awaits(st, run(p).s, th.total, new),
         \A i \in 1 .. Size(run(p)) : new \notin Row(run(p), i).key[4],
         NEW l, Says(st, l, th.total \cup {new}, {new}),
         NEW later, Responded(th, later, new)
  PROVE  WritesUsage(st, tr, t, later, p, Append(p, l), new)
<1> DEFINE r == run(p)
           q == run(Append(p, l))
           total == th.total \cup {new}
<1>0. Child # Parent /\ (t = Parent \/ t = Child)
  BY DEF Child, Parent, Threads
<1>1. /\ Counts(st, tr, t, p) /\ Follows(st, tr, t, th, r) /\ Awaits(st, r.s, th.total, new)
      /\ RunOK(r) /\ q = parse_line(r, l)
      /\ t = Parent => ParentSays(st, tr, p)
  BY AppendedLine DEF Counts
<1>2. /\ ~Skips(r.s, l)
      /\ Adding(r.s, l) = {{new}}
      /\ NextTotals(r.s, l) = IF st.totals = "last" THEN {} ELSE {total}
  <2> HIDE DEF r, q
  <2>1. AddsNew(st, r.s, l, th.total, new)
    BY <1>1, NewUsage
  <2> QED BY <2>1 DEF AddsNew
<1>a. /\ t = Parent => /\ r.s.coverage = {NameIn(st, tr[x].turn) : x \in Tok(r)}
                       /\ r.s.previous = IF st.totals = "last" \/ Tok(r) = {} THEN {} ELSE {Tok(r)}
  BY <1>1 DEF ParentSays
<1>b. /\ \A i \in 1 .. Size(r) : new \notin Row(r, i).key[4]
  OBVIOUS
<1> HIDE DEF r, q
<1>3. UsageLineDoes(r, l, q)
  <2>1. l.type = "token_count" /\ ~r.s.waiting
    BY <1>1 DEF Says, Follows
  <2> QED BY <1>1, <2>1, UsageLineComes
<1>4. PICK m : /\ Adds(m, r, q)
               /\ m.tokens = {new}
               /\ m.fast <=> r.s.fast
               /\ m.prompt = r.s.prompted
               /\ m.key[4] = IF l.total # {} THEN UNION l.total ELSE m.tokens
  BY <1>2, <1>3 DEF UsageLineDoes
<1>5. /\ q.s.previous = IF st.totals = "last" THEN {} ELSE {total}
      /\ q.s.coverage = r.s.coverage \cup {r.s.turn}
      /\ ~q.s.announced /\ ~q.s.prompted /\ q.s.baseline = {}
      /\ AllBut({"model", "previous", "baseline", "coverage", "announced", "prompted"}, r.s, q.s)
  BY <1>2, <1>3 DEF UsageLineDoes
<1>6. /\ q.s.waiting = r.s.waiting /\ q.s.child = r.s.child /\ q.s.meta = r.s.meta
      /\ q.s.selected = r.s.selected /\ q.s.fast = r.s.fast /\ q.s.turn = r.s.turn
  BY <1>5 DEF AllBut, StateFields
<1>7. Mentions(l) \subseteq total /\ new \in Mentions(l)
      /\ m.key[4] \subseteq total /\ new \in m.key[4]
  BY <1>4 DEF Says, Mentions
<1>8. /\ th.turn # NoTurn /\ new \in DOMAIN tr
      /\ tr[new].thread = t /\ tr[new].turn = th.turn /\ tr[new].fast = th.runs
      /\ th.total = th.copied \cup Tok(r) /\ (t = Parent => th.total = Tok(r))
      /\ InTheTurn(st, tr, t, th, r)
  BY <1>1 DEF ResponseIn, Follows
<1>9. \A y \in total : /\ y \in DOMAIN tr
                       /\ tr[y].thread = t => y \in Tok(r) \cup {new}
                       /\ t = Parent => tr[y].thread = Parent
  BY <1>0, <1>8 DEF ResponseIn
<1>10. /\ m.fast <=> tr[new].fast
       /\ m.prompt => /\ t = Parent \/ st.user
                      /\ \A x \in Prompted(r) : tr[x].turn # tr[new].turn
  BY <1>4, <1>8 DEF InTheTurn
<1>11. t = Parent =>
         /\ q.s.baseline = {}
         /\ ~st.announce => ~q.s.announced
         /\ q.s.coverage = r.s.coverage \cup {NameIn(st, tr[new].turn)}
         /\ q.s.previous = IF st.totals = "last" THEN {} ELSE {Tok(r) \cup {new}}
         /\ Ordered(st) => l.total = {Tok(r) \cup {new}} /\ l.type = "token_count"
  BY <1>5, <1>8 DEF InTheTurn, Says, Ordered
<1>12. CountsNew(st, tr, t, p, Append(p, l), m, new)
  <2> HIDE DEF total
  <2>1. NewRow(st, tr, t, r, l, m, new)
    BY <1>b, <1>4, <1>7, <1>8, <1>9, <1>10 DEF NewRow
  <2>2. t = Parent => SaysNew(st, tr, r, q, l, new)
    BY <1>11 DEF SaysNew
  <2> QED BY <1>1, <1>4, <2>1, <2>2, LineAdds DEF r, q
<1>13. /\ Counts(st, tr, t, Append(p, l))
       /\ Tok(run(Append(p, l))) = Tok(run(p)) \cup {new}
  BY <1>12 DEF CountsNew
<1>14. Follows(st, tr, t, later, q)
  <2>1. Tok(q) = Tok(r) \cup {new}
    BY <1>13 DEF q, r
  <2> QED BY <1>1, <1>5, <1>6, <2>1, FollowsResponse
<1> QED BY <1>5, <1>13, <1>14 DEF WritesUsage, q, r, Responded

\* What was known of the threads is known with a response more.
LEMMA FollowsInLonger ==
  ASSUME NEW tr, NEW later, NEW new, Grows(tr, later, new),
         NEW st, NEW t, NEW th, NEW p, Counts(st, tr, t, p), Follows(st, tr, t, th, run(p))
  PROVE  Follows(st, later, t, th, run(p))
<1> DEFINE r == run(p)
<1>1. /\ \A x \in Tok(r) : later[x] = tr[x]
      /\ \A x \in Prompted(r) : later[x] = tr[x]
      /\ Follows(st, tr, t, th, r)
  BY TokAre, PromptedAreIn DEF Grows
<1> HIDE DEF r
<1>2. InTheTurn(st, tr, t, th, r) => InTheTurn(st, later, t, th, r)
  BY <1>1 DEF InTheTurn
<1>3. Follows(st, later, t, th, r)
  BY <1>1, <1>2 DEF Follows
<1> QED BY <1>3 DEF r

LEMMA WorldInLonger ==
  ASSUME NEW tr, NEW later, NEW new, Grows(tr, later, new)
  PROVE  /\ \A st, th, p, forked :
              ParentFollows(st, tr, th, p, forked) => ParentFollows(st, later, th, p, forked)
         /\ \A st, th, p : ChildFollows(st, tr, th, p) => ChildFollows(st, later, th, p)
         /\ \A st, rows : MirrorsAre(st, tr, rows) => MirrorsAre(st, later, rows)
<1>0. /\ \A st, t, p : Counts(st, tr, t, p) => Counts(st, later, t, p)
      /\ \A x \in DOMAIN tr : x \in DOMAIN later /\ later[x] = tr[x]
  BY DEF Grows
<1>1. ASSUME NEW st, NEW th, NEW p, NEW forked, ParentFollows(st, tr, th, p, forked)
      PROVE  ParentFollows(st, later, th, p, forked)
  <2>1. Follows(st, later, Parent, th, run(p))
    BY <1>1, FollowsInLonger DEF ParentFollows
  <2>2. ASSUME Restores(st, tr, th, p) PROVE Restores(st, later, th, p)
    <3>1. PICK w, l :
            /\ p = Append(w, l) /\ Counts(st, tr, Parent, w)
            /\ th.last \cap Tok(run(w)) = {} =>
                 \A back : BackFrom(th, back) => Follows(st, tr, Parent, back, run(w))
      BY <2>2 DEF Restores
    <3>2. \A back : Follows(st, tr, Parent, back, run(w)) => Follows(st, later, Parent, back, run(w))
      BY <3>1, FollowsInLonger
    <3>3. Counts(st, later, Parent, w)
      BY <1>0, <3>1
    <3> QED BY <3>1, <3>2, <3>3 DEF Restores
  <2> QED BY <1>0, <1>1, <2>1, <2>2 DEF ParentFollows
<1>2. ASSUME NEW st, NEW th, NEW p, ChildFollows(st, tr, th, p)
      PROVE  ChildFollows(st, later, th, p)
  <2>1. Counts(st, tr, Child, p) /\ Counts(st, later, Child, p)
    BY <1>0, <1>2 DEF ChildFollows
  <2>2. Follows(st, tr, Child, th, run(p)) => Follows(st, later, Child, th, run(p))
    BY <2>1, FollowsInLonger
  <2> QED BY <1>0, <1>2, <2>1, <2>2 DEF ChildFollows
<1>3. ASSUME NEW st, NEW rows, MirrorsAre(st, tr, rows) PROVE MirrorsAre(st, later, rows)
  <2>1. ASSUME NEW row \in rows
        PROVE  \E x \in DOMAIN later :
                 later[x].thread = Parent /\ row = [turn |-> NameIn(st, later[x].turn), tokens |-> {x}]
    <3>1. PICK x \in DOMAIN tr :
            tr[x].thread = Parent /\ row = [turn |-> NameIn(st, tr[x].turn), tokens |-> {x}]
      BY <1>3 DEF MirrorsAre
    <3>2. x \in DOMAIN later /\ later[x] = tr[x]
      BY <1>0
    <3> QED BY <3>1, <3>2
  <2> QED BY <2>1 DEF MirrorsAre
<1> QED BY <1>1, <1>2, <1>3

LEMMA TurnsInLonger ==
  ASSUME NEW tr, NEW later, NEW new, Grows(tr, later, new),
         NEW threads, NEW n, TurnsAre(tr, threads, n), NEW t \in Threads,
         threads[t].turn # NoTurn,
         later[new].thread = t, later[new].turn = threads[t].turn,
         NEW after, \A u \in Threads : after[u].turn = threads[u].turn
  PROVE  TurnsAre(later, after, n)
<1>0. Threads = {Parent, Child} /\ Parent # Child
  BY DEF Threads, Parent, Child
<1>1. \A x \in DOMAIN later : x = new \/ (x \in DOMAIN tr /\ later[x] = tr[x])
  BY DEF Grows
<1>2. \A x \in DOMAIN later : later[x].turn.n \in 1 .. n
  BY <1>1 DEF TurnsAre
<1>3. \A u \in Threads : after[u].turn = NoTurn \/ after[u].turn.n \in 1 .. n
  BY DEF TurnsAre
<1>4. \A u \in Threads, x \in DOMAIN later : later[x].turn = after[u].turn => later[x].thread = u
  <2>1. \A u \in Threads : threads[u].turn = threads[t].turn => u = t
    BY <1>0 DEF TurnsAre
  <2> QED BY <1>1, <2>1 DEF TurnsAre
<1>5. \A x, y \in DOMAIN later : later[x].turn = later[y].turn => later[x].thread = later[y].thread
  <2>1. \A x \in DOMAIN tr : tr[x].turn = threads[t].turn => tr[x].thread = t
    BY DEF TurnsAre
  <2> QED BY <1>1, <2>1 DEF TurnsAre
<1> QED BY <1>0, <1>2, <1>3, <1>4, <1>5 DEF TurnsAre

LEMMA OneMore ==
  ASSUME NEW p, IsSeq(p), NEW l, NEW st, NEW total
  PROVE  /\ \A forked : /\ ParentLinesAre(st, total, p, forked)
                        /\ ThreadLine(st, Parent, total, l) /\ (~forked => EarlyLine(st, l))
                        => ParentLinesAre(st, total, Append(p, l), forked)
         /\ ChildLinesAre(st, total, p) /\ (l.type = "token_count" => UsageTotal(st, total, l))
            => ChildLinesAre(st, total, Append(p, l))
<1> DEFINE S == {l}
           q == Append(p, l)
<1>1. l \in S /\ \A k \in S : k = l
  OBVIOUS
<1> HIDE DEF S
<1>2. Extends(p, q, S)
  BY <1>1, ExtendsItself, ExtendsMore
<1> HIDE DEF q
<1>3. ASSUME NEW forked, ParentLinesAre(st, total, p, forked),
             ThreadLine(st, Parent, total, l) /\ (~forked => EarlyLine(st, l))
      PROVE  ParentLinesAre(st, total, q, forked)
  <2>1. \A k \in S : ThreadLine(st, Parent, total, k) /\ (~forked => EarlyLine(st, k))
    BY <1>1, <1>3
  <2> QED BY <1>2, <1>3, <2>1, LinesGrow
<1>4. ASSUME ChildLinesAre(st, total, p), l.type = "token_count" => UsageTotal(st, total, l)
      PROVE  ChildLinesAre(st, total, q)
  <2>1. \A k \in S : k.type = "token_count" => UsageTotal(st, total, k)
    BY <1>1, <1>4
  <2> QED BY <1>2, <1>4, <2>1, LinesGrow
<1> QED BY <1>3, <1>4 DEF q

LEMMA RestoresItself ==
  ASSUME NEW st, NEW tr, NEW p, Counts(st, tr, Parent, p), NEW th, NEW x \in Tok(run(p)),
         th.last = {x}, NEW l
  PROVE  Restores(st, tr, th, Append(p, l))
BY DEF Restores

LEMMA FollowsWithoutLast ==
  ASSUME NEW st, NEW tr, NEW t, NEW th, NEW r, Follows(st, tr, t, th, r),
         NEW back, back.turn = th.turn, back.total = th.total, back.copied = th.copied,
         back.runs = th.runs, back.fast = th.fast, back.last = {}
  PROVE  Follows(st, tr, t, back, r)
<1>1. InTheTurn(st, tr, t, th, r) => InTheTurn(st, tr, t, back, r)
  BY DEF InTheTurn
<1> QED BY <1>1 DEF Follows

LEMMA ParentQuiet ==
  ASSUME NEW st, NEW tr, NEW th, NEW p, NEW forked, ParentFollows(st, tr, th, p, forked),
         NEW l, NEW later, Quiet(Parent, th, l, later)
  PROVE  ParentFollows(st, tr, later, Append(p, l), forked)
<1>1. /\ th.live /\ th.copied = {} /\ Counts(st, tr, Parent, p)
      /\ Follows(st, tr, Parent, th, run(p)) /\ ParentLinesAre(st, th.total, p, forked)
  BY DEF ParentFollows
<1>2. /\ SameRowsIn(st, tr, Parent, p, Append(p, l))
      /\ Follows(st, tr, Parent, later, run(Append(p, l)))
  <2>1. Parent \in Threads
    BY DEF Threads
  <2> QED BY <1>1, <2>1, QuietLine DEF QuietlyFollows
<1>3. ParentLinesAre(st, th.total, Append(p, l), forked)
  <2>1. ThreadLine(st, Parent, th.total, l) /\ EarlyLine(st, l)
    BY DEF Quiet, ThreadLine, EarlyLine
  <2> QED BY <1>1, <2>1, OneMore DEF Counts
<1>4. later.last # {} => Restores(st, tr, later, Append(p, l))
  BY <1>1, RestoresItself DEF Follows, Quiet, Changed
<1> QED BY <1>1, <1>2, <1>3, <1>4 DEF ParentFollows, SameRowsIn, Quiet, Changed

LEMMA ChildQuiet ==
  ASSUME NEW st, NEW tr, NEW th, NEW p, ChildFollows(st, tr, th, p), th.live, th.turn # NoTurn,
         NEW l, NEW later, Quiet(Child, th, l, later)
  PROVE  ChildFollows(st, tr, later, Append(p, l))
<1>1. /\ Counts(st, tr, Child, p)
      /\ \A x \in th.copied : x \in DOMAIN tr /\ tr[x].thread = Parent
      /\ ChildLinesAre(st, th.total, p) /\ ChildTotals(st, th, run(p))
      /\ Follows(st, tr, Child, th, run(p))
  BY DEF ChildFollows
<1>2. /\ SameRowsIn(st, tr, Child, p, Append(p, l))
      /\ Follows(st, tr, Child, later, run(Append(p, l)))
  <2>1. Child \in Threads
    BY DEF Threads
  <2> QED BY <1>1, <2>1, QuietLine DEF QuietlyFollows
<1>3. ChildLinesAre(st, th.total, Append(p, l))
  <2>1. l.type # "token_count"
    BY DEF Quiet
  <2> QED BY <1>1, <2>1, OneMore DEF Counts
<1>4. ChildTotals(st, later, run(Append(p, l)))
  <2> DEFINE r == run(p)
             q == run(Append(p, l))
  <2>1. /\ Tok(q) = Tok(r) /\ q.s.previous = r.s.previous /\ q.s.baseline = r.s.baseline
        /\ later.total = th.total
    BY <1>2 DEF SameRowsIn, Quiet, Changed
  <2>2. ChildTotals(st, th, r)
    BY <1>1
  <2> HIDE DEF r, q
  <2>3. ChildTotals(st, later, q)
    BY <2>1, <2>2 DEF ChildTotals
  <2> QED BY <2>3 DEF q
<1> QED BY <1>1, <1>2, <1>3, <1>4 DEF ChildFollows, SameRowsIn, Quiet, Changed

LEMMA ParentResponds ==
  ASSUME NEW st, st.totals \in {"both", "total", "last"},
         NEW tr, NEW th, NEW p, NEW forked, ParentFollows(st, tr, th, p, forked),
         NEW new, th.turn # NoTurn, new \in DOMAIN tr,
         tr[new] = [thread |-> Parent, turn |-> th.turn, fast |-> th.runs],
         new \notin Tok(run(p)), \A i \in 1 .. Size(run(p)) : new \notin Row(run(p), i).key[4],
         NEW l, Says(st, l, th.total \cup {new}, {new}), l.id = 0,
         NEW later, Responded(th, later, new)
  PROVE  ParentFollows(st, tr, later, Append(p, l), forked)
<1> DEFINE r == run(p)
           q == run(Append(p, l))
<1>0. Parent \in Threads
  BY DEF Threads
<1>1. /\ th.live /\ th.copied = {} /\ Counts(st, tr, Parent, p) /\ ParentSays(st, tr, p)
      /\ Follows(st, tr, Parent, th, r) /\ ParentLinesAre(st, th.total, p, forked)
      /\ th.total = th.copied \cup Tok(r)
  BY DEF ParentFollows, Counts, Follows
<1>2. ResponseIn(tr, Parent, th, new)
  BY <1>1, TokAre DEF ResponseIn
<1>3. Awaits(st, r.s, th.total, new)
  <2>1. /\ r.s.baseline = {} /\ new \notin th.total
        /\ r.s.previous = IF st.totals = "last" \/ th.total = {} THEN {} ELSE {th.total}
    BY <1>1 DEF ParentSays
  <2> HIDE DEF r, q
  <2> QED BY <2>1 DEF Awaits
<1>4. /\ Counts(st, tr, Parent, Append(p, l))
      /\ Follows(st, tr, Parent, later, run(Append(p, l)))
  <2>1. WritesUsage(st, tr, Parent, later, p, Append(p, l), new)
    BY <1>0, <1>1, <1>2, <1>3, UsageWritten
  <2> QED BY <2>1 DEF WritesUsage
<1>5. ParentLinesAre(st, later.total, Append(p, l), forked)
  <2>1. UsageTotal(st, later.total, l)
    BY DEF UsageTotal, Says, Responded
  <2>2. ThreadLine(st, Parent, later.total, l) /\ EarlyLine(st, l)
    BY <2>1 DEF ThreadLine, EarlyLine, Says
  <2>4. ParentLinesAre(st, later.total, p, forked)
    <3>1. th.total \subseteq later.total
      BY DEF Responded
    <3> QED BY <1>1, <3>1, TotalsGrow
  <2> QED BY <1>1, <2>2, <2>4, OneMore DEF Counts
<1>6. Restores(st, tr, later, Append(p, l))
  <2>1. ASSUME NEW back, BackFrom(later, back) PROVE Follows(st, tr, Parent, back, r)
    <3>1. later.total \ later.last = th.total
      BY <1>1 DEF Responded
    <3>2. /\ back.turn = th.turn /\ back.total = th.total /\ back.copied = th.copied
          /\ back.runs = th.runs /\ back.fast = th.fast /\ back.last = {}
      BY <2>1, <3>1 DEF BackFrom, Responded
    <3>3. Follows(st, tr, Parent, th, r)
      BY <1>1
    <3> HIDE DEF r, q
    <3> QED BY <3>2, <3>3, FollowsWithoutLast
  <2> QED BY <1>1, <2>1 DEF Restores
<1> QED BY <1>1, <1>4, <1>5, <1>6 DEF ParentFollows, Responded

LEMMA ChildResponds ==
  ASSUME NEW st, st.totals \in {"both", "total", "last"},
         NEW tr, NEW th, NEW p, ChildFollows(st, tr, th, p), th.live,
         NEW new, th.turn # NoTurn, new \in DOMAIN tr,
         tr[new] = [thread |-> Child, turn |-> th.turn, fast |-> th.runs],
         new \notin Tok(run(p)), \A i \in 1 .. Size(run(p)) : new \notin Row(run(p), i).key[4],
         NEW l, Says(st, l, th.total \cup {new}, {new}),
         NEW later, Responded(th, later, new)
  PROVE  ChildFollows(st, tr, later, Append(p, l))
<1> DEFINE r == run(p)
           q == run(Append(p, l))
<1>0. Child \in Threads /\ Child # Parent
  BY DEF Threads, Child, Parent
<1>1. /\ Counts(st, tr, Child, p)
      /\ \A x \in th.copied : x \in DOMAIN tr /\ tr[x].thread = Parent
      /\ ChildLinesAre(st, th.total, p) /\ ChildTotals(st, th, r)
      /\ Follows(st, tr, Child, th, r)
      /\ th.total = th.copied \cup Tok(r)
  BY DEF ChildFollows, Follows
<1>2. ResponseIn(tr, Child, th, new)
  BY <1>0, <1>1, TokAre DEF ResponseIn
<1>3. Awaits(st, r.s, th.total, new)
  <2>1. new \notin th.total
    BY <1>0, <1>1
  <2>2. ChildTotals(st, th, r)
    BY <1>1
  <2> HIDE DEF r, q
  <2> QED BY <2>1, <2>2 DEF Awaits, ChildTotals
<1>4. /\ Counts(st, tr, Child, Append(p, l))
      /\ Follows(st, tr, Child, later, run(Append(p, l)))
      /\ Tok(q) = Tok(r) \cup {new}
      /\ q.s.baseline = {}
      /\ q.s.previous = IF st.totals = "last" THEN {} ELSE {later.total}
  <2>1. WritesUsage(st, tr, Child, later, p, Append(p, l), new)
    <3>1. Counts(st, tr, Child, p) /\ Follows(st, tr, Child, th, run(p)) /\ Child \in Threads
      BY <1>0, <1>1
    <3>2. Awaits(st, run(p).s, th.total, new)
      BY <1>3
    <3> QED BY <1>2, <3>1, <3>2, UsageWritten
  <2> QED BY <2>1 DEF WritesUsage
<1>5. ChildLinesAre(st, later.total, Append(p, l))
  <2>1. UsageTotal(st, later.total, l)
    BY DEF UsageTotal, Says, Responded
  <2>4. ChildLinesAre(st, later.total, p)
    <3>1. th.total \subseteq later.total
      BY DEF Responded
    <3> QED BY <1>1, <3>1, TotalsGrow
  <2> QED BY <1>1, <2>1, <2>4, OneMore DEF Counts
<1>6. ChildTotals(st, later, q)
  <2>1. later.total # {}
    BY DEF Responded
  <2> HIDE DEF r, q
  <2> QED BY <1>4, <2>1 DEF ChildTotals
<1> QED BY <1>1, <1>4, <1>5, <1>6 DEF ChildFollows, Responded

LEMMA UsageLineSays ==
  ASSUME NEW total, NEW last
  PROVE  LET l == UsageLine(total, last)
         IN  Says(style, l, total, last) /\ l.id = 0 /\ l.turn = NoTurn
BY DEF UsageLine, Line, Says

LEMMA QuietOnes ==
  /\ Line.type = "other" /\ Line.id = 0 /\ Mentions(Line) = {}
  /\ \A th : Changed(th, th, th.fast)
  /\ \A t, th : Quiet(t, th, Line, th)
<1>1. Line.type = "other" /\ Line.id = 0 /\ Line.total = {} /\ Line.last = {}
  BY DEF Line
<1>2. Mentions(Line) = {}
  BY <1>1 DEF Mentions
<1> QED BY <1>1, <1>2 DEF Quiet, Changed

LEMMA TheThreads ==
  ASSUME WorldOK
  PROVE  /\ Threads = {Parent, Child} /\ Parent # Child
         /\ style \in Style /\ style.totals \in {"both", "total", "last"}
         /\ turns \in Nat /\ thread \in [Threads -> Thread]
         /\ \A t \in Threads : IsSeq(log[t])
<1>1. style \in Style
  BY StyleIs
<1>2. style.totals \in {"both", "total", "last"}
  BY <1>1 DEF Style
<1> QED BY <1>1, <1>2, BoundNats DEF WorldOK, Child, Parent, Threads

LEMMA ResponseCounts ==
  ASSUME WorldOK, WorldCounts, NEW t \in Threads, Respond(t)
  PROVE  WorldCounts'
<1> DEFINE th == thread[t]
           p == log[t]
           new == Len(truth) + 1
           total == th.total \cup {new}
           l == UsageLine(total, {new})
           fact == [thread |-> t, turn |-> th.turn, fast |-> th.runs]
           longer == truth'
           later == thread'[t]
           q == log'[t]
<1>0. /\ Threads = {Parent, Child} /\ Parent # Child
      /\ style.totals \in {"both", "total", "last"}
      /\ thread \in [Threads -> Thread] /\ IsSeq(p)
  BY TheThreads
<1>1. /\ th.turn # NoTurn /\ UNCHANGED <<turns, mirror>>
      /\ truth' = Append(truth, fact)
      /\ thread' = [thread EXCEPT ![t].total = total, ![t].last = {new}]
  BY Zenon DEF Respond
<1>2. PICK noise \in {<<>>, <<Line>>} : Write(t, noise \o <<l>>)
  BY DEF Respond
<1>3. Grows(truth, longer, new) /\ longer[new] = fact
  <2>1. IsSeq(truth)
    BY DEF WorldOK
  <2>2. Learns(truth, fact, longer, new)
    BY <1>1 DEF Learns
  <2> HIDE DEF longer, fact, new
  <2> QED BY <2>1, <2>2, NewTruth
<1>4. /\ Responded(th, later, new)
      /\ \A u \in Threads \ {t} : thread'[u] = thread[u]
      /\ \A u \in Threads : thread'[u].turn = thread[u].turn
  <2> HIDE DEF new, total
  <2>1. /\ thread'[t] = [thread[t] EXCEPT !.total = total, !.last = {new}]
        /\ \A u \in Threads \ {t} : thread'[u] = thread[u]
    BY <1>0, <1>1
  <2>2. thread[t] \in Thread
    BY <1>0
  <2>3. /\ later.live = th.live /\ later.turn = th.turn /\ later.total = total
        /\ later.copied = th.copied /\ later.runs = th.runs /\ later.last = {new}
        /\ later.fast = th.fast
    BY <2>1, <2>2 DEF Thread
  <2> QED BY <2>1, <2>3 DEF Responded, total
<1>5. Says(style, l, th.total \cup {new}, {new}) /\ l.id = 0
  <2> HIDE DEF new, th
  <2> QED BY UsageLineSays
<1>6. /\ \A u \in Threads \ {t} : log'[u] = log[u]
      /\ style' = style
      /\ q = p \o (noise \o <<l>>)
  BY <1>2, WrittenTo
<1> HIDE DEF l, new, total, fact, longer, later, q, p, th
<1> DEFINE p1 == IF noise = <<>> THEN p ELSE Append(p, Line)
<1>7. q = Append(p1, l)
  <2>1. IsSeq(noise) /\ IsSeq(<<l>>) /\ IsSeq(<<Line>>)
    BY ShortSeqs
  <2>2. q = (p \o noise) \o <<l>>
    BY <1>0, <1>6, <2>1, JoinedTwice
  <2>3. p \o noise = p1
    <3>1. CASE noise = <<>>
      BY <1>0, <3>1, JoinedLines
    <3>2. CASE noise = <<Line>>
      <4>1. noise # <<>>
        BY <3>2
      <4> QED BY <1>0, <3>2, <4>1, JoinedLines
    <3> QED BY <3>1, <3>2
  <2>4. IsSeq(p1)
    BY <1>0, <2>1, <2>3, JoinedSeq
  <2> HIDE DEF p1
  <2> QED BY <2>2, <2>3, <2>4, JoinedLines
<1>8. TurnsAre(truth', thread', turns')
  <2>1. TurnsAre(truth, thread, turns)
    BY DEF WorldCounts
  <2>2. longer[new].thread = t /\ longer[new].turn = thread[t].turn
    BY <1>3 DEF fact, th
  <2> DEFINE after == thread'
  <2>3. (\A u \in Threads : after[u].turn = thread[u].turn) /\ thread[t].turn # NoTurn
    BY <1>1, <1>4 DEF th
  <2> HIDE DEF after
  <2>4. TurnsAre(longer, after, turns)
    BY <1>3, <2>1, <2>2, <2>3, TurnsInLonger
  <2> QED BY <1>1, <2>4 DEF longer, after
<1>9. MirrorsAre(style', truth', mirror')
  <2>1. MirrorsAre(style, longer, mirror)
    BY <1>3, WorldInLonger DEF WorldCounts
  <2> QED BY <1>1, <1>6, <2>1 DEF longer
<1>10. new \in DOMAIN longer /\ new \notin DOMAIN truth
  BY <1>3 DEF Grows
<1>11. ASSUME NEW u, Counts(style, truth, u, p1)
       PROVE  new \notin Tok(run(p1)) /\ \A i \in 1 .. Size(run(p1)) : new \notin Row(run(p1), i).key[4]
  <2> HIDE DEF p1
  <2> QED BY <1>3, <1>10, <1>11, TokAre DEF Grows
<1>12. CASE t = Parent
  <2>1. /\ ParentFollows(style, truth, th, p, thread[Child].live)
        /\ ChildFollows(style, truth, thread[Child], log[Child])
    BY <1>12 DEF WorldCounts, p, th
  <2>2. ParentFollows(style, truth, th, p1, thread[Child].live)
    BY <2>1, QuietOnes, ParentQuiet
  <2>3. /\ ParentFollows(style, longer, th, p1, thread[Child].live)
        /\ ChildFollows(style, longer, thread[Child], log[Child])
    BY <1>3, <2>1, <2>2, WorldInLonger
  <2>4. Counts(style, truth, Parent, p1)
    BY <2>2 DEF ParentFollows
  <2> HIDE DEF p1
  <2>5. longer[new] = [thread |-> Parent, turn |-> th.turn, fast |-> th.runs]
    BY <1>3, <1>12 DEF fact
  <2>6. ParentFollows(style, longer, later, Append(p1, l), thread[Child].live)
    BY <1>0, <1>1, <1>4, <1>5, <1>10, <1>11, <2>3, <2>4, <2>5, ParentResponds
  <2>7. thread'[Child] = thread[Child] /\ log'[Child] = log[Child]
    BY <1>0, <1>4, <1>6, <1>12
  <2> QED BY <1>6, <1>7, <1>8, <1>9, <1>12, <2>3, <2>6, <2>7 DEF WorldCounts, longer, later, q
<1>13. CASE t = Child
  <2>1. /\ ParentFollows(style, truth, thread[Parent], log[Parent], th.live)
        /\ ChildFollows(style, truth, th, p)
    BY <1>13 DEF WorldCounts, p, th
  <2>0. th.live
    BY <1>1, <2>1 DEF ChildFollows, NoThread
  <2>2. ChildFollows(style, truth, th, p1)
    BY <1>1, <2>0, <2>1, QuietOnes, ChildQuiet
  <2>3. /\ ParentFollows(style, longer, thread[Parent], log[Parent], th.live)
        /\ ChildFollows(style, longer, th, p1)
    BY <1>3, <2>1, <2>2, WorldInLonger
  <2>4. Counts(style, truth, Child, p1)
    BY <2>2 DEF ChildFollows
  <2> HIDE DEF p1
  <2>5. longer[new] = [thread |-> Child, turn |-> th.turn, fast |-> th.runs]
    BY <1>3, <1>13 DEF fact
  <2>6. ChildFollows(style, longer, later, Append(p1, l))
    BY <1>0, <1>1, <1>4, <1>5, <1>10, <1>11, <2>0, <2>3, <2>4, <2>5, ChildResponds
  <2>7. thread'[Parent] = thread[Parent] /\ log'[Parent] = log[Parent] /\ later.live = th.live
    BY <1>0, <1>4, <1>6, <1>13 DEF Responded
  <2> QED BY <1>6, <1>7, <1>8, <1>9, <1>13, <2>3, <2>6, <2>7 DEF WorldCounts, longer, later, q
<1> QED BY <1>0, <1>12, <1>13

LEMMA SettingCounts ==
  ASSUME WorldOK, WorldCounts, NEW t \in Threads, Select(t)
  PROVE  WorldCounts'
<1> DEFINE th == thread[t]
           p == log[t]
           later == thread'[t]
           q == log'[t]
<1>0. /\ Threads = {Parent, Child} /\ Parent # Child
      /\ thread \in [Threads -> Thread] /\ IsSeq(p)
  BY TheThreads
<1>1. /\ th.live /\ (th.turn # NoTurn \/ t = Parent)
      /\ UNCHANGED <<turns, truth, mirror>>
      /\ thread' = [thread EXCEPT ![t].fast = ~@]
  BY DEF Select
<1>2. PICK id \in {t, 0} :
        Write(t, <<[Line EXCEPT !.type = "settings", !.id = id, !.fast = {~th.fast}]>>)
  BY DEF Select
<1> DEFINE l == [Line EXCEPT !.type = "settings", !.id = id, !.fast = {~th.fast}]
<1>3. /\ l.type = "settings" /\ l.id \in {0, t} /\ l.fast = {~th.fast}
      /\ l.total = {} /\ l.last = {}
  <2> HIDE DEF th
  <2> QED BY DEF Line
<1>4. /\ \A u \in Threads \ {t} : log'[u] = log[u]
      /\ style' = style
      /\ q = p \o <<l>>
  <2> HIDE DEF l
  <2>1. Write(t, <<l>>)
    BY <1>2 DEF l
  <2> DEFINE lines == <<l>>
  <2> HIDE DEF lines
  <2>2. Write(t, lines)
    BY <2>1 DEF lines
  <2>3. q = p \o lines /\ (\A u \in Threads \ {t} : log'[u] = log[u]) /\ style' = style
    BY <2>2, WrittenTo
  <2> QED BY <2>3 DEF lines
<1>5. q = Append(p, l)
  <2> HIDE DEF l
  <2> QED BY <1>0, <1>4, JoinedLines
<1>6. /\ \A u \in Threads \ {t} : thread'[u] = thread[u]
      /\ \A u \in Threads : thread'[u].turn = thread[u].turn
      /\ later.live = th.live /\ later.turn = th.turn /\ later.total = th.total
      /\ later.copied = th.copied /\ later.runs = th.runs /\ later.last = th.last
      /\ later.fast = ~th.fast /\ th.fast \in BOOLEAN
  BY <1>0, <1>1 DEF Thread
<1>7. Quiet(t, th, l, later)
  <2> HIDE DEF l, th, later
  <2>1. Mentions(l) = {}
    BY <1>3 DEF Mentions
  <2>2. later.fast = (l.fast = {TRUE})
    BY <1>3, <1>6
  <2> QED BY <1>3, <1>6, <2>1, <2>2 DEF Quiet, Changed
<1> HIDE DEF l
<1>8. TurnsAre(truth', thread', turns')
  BY <1>1, <1>6 DEF WorldCounts, TurnsAre, Threads
<1>9. MirrorsAre(style', truth', mirror')
  BY <1>1, <1>4 DEF WorldCounts
<1>10. CASE t = Parent
  <2>1. ParentFollows(style, truth, later, Append(p, l), thread[Child].live)
    BY <1>7, <1>10, ParentQuiet DEF WorldCounts
  <2>2. thread'[Child] = thread[Child] /\ log'[Child] = log[Child]
    BY <1>0, <1>4, <1>6, <1>10
  <2> QED BY <1>1, <1>4, <1>5, <1>8, <1>9, <1>10, <2>1, <2>2 DEF WorldCounts
<1>11. CASE t = Child
  <2>1. ChildFollows(style, truth, later, Append(p, l))
    BY <1>0, <1>1, <1>7, <1>11, ChildQuiet DEF WorldCounts
  <2>2. thread'[Parent] = thread[Parent] /\ log'[Parent] = log[Parent] /\ later.live = th.live
    BY <1>0, <1>4, <1>6, <1>11
  <2> QED BY <1>1, <1>4, <1>5, <1>8, <1>9, <1>11, <2>1, <2>2 DEF WorldCounts
<1> QED BY <1>0, <1>10, <1>11

-----------------------------------------------------------------------------
(* OpenClaw notes a response                                                *)

LEMMA MirrorCounts ==
  ASSUME WorldOK, WorldCounts, Mirror
  PROVE  WorldCounts'
<1> DEFINE th == thread[Parent]
           later == thread'[Parent]
           r == run(log[Parent])
           row == [turn |-> Named(Parent, th.turn), tokens |-> th.last]
<1>0. /\ Threads = {Parent, Child} /\ Parent # Child
      /\ thread \in [Threads -> Thread]
  BY TheThreads
<1>1. /\ th.last # {} /\ mirror' = mirror \cup {row}
      /\ thread' = [thread EXCEPT ![Parent].last = {}, ![Parent].turn = NoTurn]
      /\ UNCHANGED <<style, log, turns, truth>>
  BY Zenon DEF Mirror
<1>2. /\ thread'[Child] = thread[Child]
      /\ later.live = th.live /\ later.turn = NoTurn /\ later.total = th.total
      /\ later.copied = th.copied /\ later.fast = th.fast /\ later.last = {}
  BY <1>0, <1>1 DEF Thread
<1>3. /\ th.live /\ th.copied = {} /\ Counts(style, truth, Parent, log[Parent])
      /\ Follows(style, truth, Parent, th, r)
      /\ ParentLinesAre(style, th.total, log[Parent], thread[Child].live)
  BY DEF WorldCounts, ParentFollows
<1>4. ParentFollows(style, truth, later, log[Parent], thread[Child].live)
  <2>1. Follows(style, truth, Parent, later, r)
    <3> HIDE DEF r, th, later
    <3> QED BY <1>2, <1>3 DEF Follows
  <2> HIDE DEF th, later
  <2> QED BY <1>2, <1>3, <2>1 DEF ParentFollows
<1>5. MirrorsAre(style, truth, mirror')
  <2>1. PICK x \in Tok(r) : th.last = {x} /\ truth[x].turn = th.turn
    BY <1>1, <1>3 DEF Follows
  <2>2. x \in DOMAIN truth /\ truth[x].thread = Parent
    BY <1>3, TokAre
  <2>3. row = [turn |-> NameIn(style, truth[x].turn), tokens |-> {x}]
    BY <2>1 DEF Named, Announces, NameIn
  <2>4. MirrorsAre(style, truth, mirror)
    BY DEF WorldCounts
  <2> HIDE DEF row
  <2> QED BY <1>1, <2>2, <2>3, <2>4 DEF MirrorsAre
<1>6. TurnsAre(truth, thread', turns)
  <2>1. TurnsAre(truth, thread, turns)
    BY DEF WorldCounts
  <2>2. \A x \in DOMAIN truth : truth[x].turn # NoTurn
    <3>1. 0 \notin 1 .. turns
      OBVIOUS
    <3> QED BY <2>1, <3>1 DEF TurnsAre, NoTurn
  <2> QED BY <1>0, <1>2, <2>1, <2>2 DEF TurnsAre
<1> QED BY <1>1, <1>2, <1>4, <1>5, <1>6 DEF WorldCounts

-----------------------------------------------------------------------------
(* A usage again                                                            *)

\* A line that the parser of a rollout reads and is as before.
NothingNew(r, q) ==
  /\ Keeps(r, q)
  /\ AllBut({"model"}, r.s, q.s)

LEMMA NothingNewFollows ==
  ASSUME NEW st, NEW tr, NEW t, NEW th, NEW r, Follows(st, tr, t, th, r),
         NEW q, NothingNew(r, q), Tok(q) = Tok(r), Prompted(q) = Prompted(r)
  PROVE  /\ Follows(st, tr, t, th, q)
         /\ ChildTotals(st, th, r) => ChildTotals(st, th, q)
<1>1. /\ q.s.waiting = r.s.waiting /\ q.s.child = r.s.child /\ q.s.meta = r.s.meta
      /\ q.s.turn = r.s.turn /\ q.s.fast = r.s.fast /\ q.s.prompted = r.s.prompted
      /\ q.s.selected = r.s.selected /\ q.s.previous = r.s.previous
      /\ q.s.baseline = r.s.baseline
  BY DEF NothingNew, AllBut, StateFields
<1>2. ChildTotals(st, th, r) => ChildTotals(st, th, q)
  BY <1>1 DEF ChildTotals
<1>3. ~q.s.waiting /\ (q.s.selected <=> th.fast)
  BY <1>1 DEF Follows
<1>4. Follows(st, tr, t, th, q)
  BY <1>1, <1>3, QuietOnes, FollowsStill
<1> QED BY <1>2, <1>4

LEMMA LineAgain ==
  ASSUME NEW st, NEW tr, NEW t, NEW p, Counts(st, tr, t, p), NEW l,
         NothingNew(run(p), run(Append(p, l))),
         \A x \in Mentions(l) :
           /\ x \in DOMAIN tr
           /\ tr[x].thread = t => x \in Tok(run(p))
           /\ t = Parent => tr[x].thread = Parent,
         t = Parent /\ Ordered(st) => l.total = {Tok(run(p))}
  PROVE  /\ Counts(st, tr, t, Append(p, l))
         /\ Tok(run(Append(p, l))) = Tok(run(p))
         /\ Prompted(run(Append(p, l))) = Prompted(run(p))
<1> DEFINE r == run(p)
           q == run(Append(p, l))
<1>1. Keeps(r, q) /\ AllBut({"model"}, r.s, q.s)
  BY DEF NothingNew
<1>2. t = Parent => r.s.baseline = {} /\ (~st.announce => ~r.s.announced)
  BY DEF Counts, ParentSays
<1> HIDE DEF r, q
<1>3. t = Parent => /\ q.s.baseline = {}
                    /\ ~st.announce => ~q.s.announced
                    /\ q.s.coverage = r.s.coverage
                    /\ q.s.previous = r.s.previous
  BY <1>1, <1>2 DEF AllBut, StateFields
<1> QED BY <1>1, <1>3, LineKeeps DEF r, q

LEMMA SaysMentions ==
  ASSUME NEW st, NEW l, NEW a, NEW b, Says(st, l, a, b), NEW total, a \subseteq total,
         b \subseteq total, st.totals # "last"
  PROVE  /\ Mentions(l) \subseteq total
         /\ l.total = {a}
         /\ a # {} => UsageTotal(st, total, l)
<1>1. l.total = {a} /\ l.last \subseteq {b}
  BY DEF Says
<1>2. Mentions(l) \subseteq total
  BY <1>1 DEF Mentions
<1>3. a # {} => UsageTotal(st, total, l)
  BY <1>1 DEF UsageTotal
<1> QED BY <1>1, <1>2, <1>3

\* A usage that is written again, or the one before it.
SaidBefore(st, th, l) ==
  /\ st.totals \in {"both", "total"} /\ st.repeats
  /\ th.last # {}
  /\ \/ Says(st, l, th.total, th.last)
     \/ /\ st.totals = "both"
        /\ \E before \in th.total \ th.last : Says(st, l, th.total \ th.last, {before})

ReadAgain(st, tr, t, th, p, l) ==
  /\ Counts(st, tr, t, Append(p, l))
  /\ NothingNew(run(p), run(Append(p, l)))
  /\ Tok(run(Append(p, l))) = Tok(run(p))
  /\ Prompted(run(Append(p, l))) = Prompted(run(p))
  /\ UsageTotal(st, th.total, l) /\ l.type = "token_count"

LEMMA UsageAgain ==
  ASSUME NEW st, NEW tr, NEW t, NEW th, NEW p, Counts(st, tr, t, p),
         Follows(st, tr, t, th, run(p)), IsFiniteSet(th.total),
         \A x \in th.copied : x \in DOMAIN tr /\ tr[x].thread # t, t = Parent => th.copied = {},
         t # Parent => ChildTotals(st, th, run(p)),
         NEW l, SaidBefore(st, th, l)
  PROVE  ReadAgain(st, tr, t, th, p, l)
<1> DEFINE r == run(p)
           q == run(Append(p, l))
           total == th.total
<1>a. st.totals \in {"both", "total"} /\ st.repeats /\ IsFiniteSet(total)
  BY DEF SaidBefore
<1>1. /\ RunOK(r) /\ q = parse_line(r, l)
  BY AppendedLine DEF Counts
<1>2. PICK new \in Tok(r) : th.last = {new}
  BY DEF SaidBefore, Follows
<1>3. total = th.copied \cup Tok(r) /\ ~r.s.waiting /\ new \in total
  BY DEF Follows
<1>4. r.s.baseline = {} /\ r.s.previous = {total}
  <2>1. CASE t = Parent
    <3>1. ParentSays(st, tr, p)
      BY <2>1 DEF Counts
    <3>2. total = Tok(r)
      BY <1>3, <2>1
    <3>3. r.s.baseline = {} /\ r.s.previous = IF st.totals = "last" \/ Tok(r) = {} THEN {} ELSE {Tok(r)}
      BY <3>1 DEF ParentSays
    <3> QED BY <1>a, <1>2, <3>2, <3>3
  <2>2. CASE t # Parent
    <3>1. ChildTotals(st, th, r) /\ Tok(r) # {} /\ st.totals # "last"
      BY <1>2, <2>2 DEF SaidBefore
    <3> HIDE DEF r, q
    <3> QED BY <1>3, <3>1 DEF ChildTotals
  <2> QED BY <2>1, <2>2
<1>5. /\ l.type = "token_count"
      /\ \/ \E last : Says(st, l, total, last)
         \/ /\ st.totals = "both"
            /\ \E x \in total : \E before \in total \ {x} : Says(st, l, total \ {x}, {before})
  BY <1>2, <1>3 DEF SaidBefore, Says
<1>6. /\ Mentions(l) \subseteq total
      /\ UsageTotal(st, total, l)
      /\ Ordered(st) => l.total = {total}
  <2>1. CASE Says(st, l, th.total, th.last)
    <3>1. Mentions(l) \subseteq total /\ l.total = {total} /\ UsageTotal(st, total, l)
      <4> DEFINE last == th.last
      <4>1. last \subseteq total /\ total # {} /\ st.totals # "last" /\ Says(st, l, total, last)
        BY <1>2, <1>3, <1>a, <2>1
      <4> HIDE DEF last, total
      <4> QED BY <4>1, SaysMentions
    <3> QED BY <3>1
  <2>2. CASE /\ st.totals = "both"
             /\ \E before \in th.total \ th.last : Says(st, l, th.total \ th.last, {before})
    <3>1. PICK before \in total \ th.last : Says(st, l, total \ th.last, {before})
      BY <2>2
    <3>2. Mentions(l) \subseteq total /\ UsageTotal(st, total, l)
      BY <1>a, <3>1, SaysMentions
    <3> QED BY <1>a, <2>2, <3>2 DEF Ordered
  <2> QED BY <2>1, <2>2 DEF SaidBefore
<1>b. t = Parent => total = Tok(r)
  BY <1>3
<1> HIDE DEF r, q, total
<1>7. ~Skips(r.s, l) /\ Adding(r.s, l) = {} /\ ~GoesBack(r.s, l)
  <2>1. SaysOld(st, l, total)
    BY <1>5 DEF SaysOld
  <2> DEFINE s == r.s
  <2>2. s.baseline = {} /\ s.previous = {total}
    BY <1>4
  <2> HIDE DEF s
  <2>3. AddsNothing(s, l)
    BY <1>a, <2>1, <2>2, OldUsage
  <2> QED BY <2>3 DEF AddsNothing, s
<1>8. NothingNew(r, q)
  <2>1. UsageLineDoes(r, l, q)
    BY <1>1, <1>3, <1>5, UsageLineComes
  <2>2. /\ Keeps(r, q) /\ AllBut({"model", "baseline", "previous"}, r.s, q.s)
        /\ q.s.previous = r.s.previous /\ q.s.baseline = {}
    BY <1>7, <2>1 DEF UsageLineDoes
  <2>3. AllBut({"model"}, r.s, q.s)
    BY <1>4, <2>2 DEF AllBut, StateFields
  <2> QED BY <2>2, <2>3 DEF NothingNew
<1>9. \A x \in Mentions(l) :
        /\ x \in DOMAIN tr
        /\ tr[x].thread = t => x \in Tok(r)
        /\ t = Parent => tr[x].thread = Parent
  <2>1. \A x \in Tok(r) : x \in DOMAIN tr /\ tr[x].thread = t
    BY TokAre DEF r
  <2> QED BY <1>3, <1>6, <2>1
<1>10. /\ Counts(st, tr, t, Append(p, l))
       /\ Tok(run(Append(p, l))) = Tok(run(p))
       /\ Prompted(run(Append(p, l))) = Prompted(run(p))
  BY <1>6, <1>8, <1>9, <1>b, LineAgain DEF r, q
<1> QED BY <1>5, <1>6, <1>8, <1>10 DEF ReadAgain, r, q, total

LEMMA ParentAgain ==
  ASSUME NEW st, NEW tr, NEW th, NEW p, NEW forked, ParentFollows(st, tr, th, p, forked),
         IsFiniteSet(th.total), NEW l, SaidBefore(st, th, l), l.id = 0
  PROVE  ParentFollows(st, tr, th, Append(p, l), forked)
<1>1. /\ th.live /\ th.copied = {} /\ Counts(st, tr, Parent, p)
      /\ Follows(st, tr, Parent, th, run(p)) /\ ParentLinesAre(st, th.total, p, forked)
  BY DEF ParentFollows
<1>2. ReadAgain(st, tr, Parent, th, p, l)
  BY <1>1, UsageAgain
<1>3. Follows(st, tr, Parent, th, run(Append(p, l)))
  BY <1>1, <1>2, NothingNewFollows DEF ReadAgain
<1>4. ParentLinesAre(st, th.total, Append(p, l), forked)
  <2>1. ThreadLine(st, Parent, th.total, l) /\ EarlyLine(st, l)
    BY <1>2 DEF ReadAgain, ThreadLine, EarlyLine
  <2> QED BY <1>1, <2>1, OneMore DEF Counts
<1>5. Restores(st, tr, th, Append(p, l))
  BY <1>1, RestoresItself DEF Follows, SaidBefore
<1> QED BY <1>1, <1>2, <1>3, <1>4, <1>5 DEF ParentFollows, ReadAgain

LEMMA ChildAgain ==
  ASSUME NEW st, NEW tr, NEW th, NEW p, ChildFollows(st, tr, th, p), th.live,
         IsFiniteSet(th.total), NEW l, SaidBefore(st, th, l)
  PROVE  ChildFollows(st, tr, th, Append(p, l))
<1>0. Child # Parent
  BY DEF Child, Parent
<1>1. /\ Counts(st, tr, Child, p)
      /\ \A x \in th.copied : x \in DOMAIN tr /\ tr[x].thread = Parent
      /\ ChildLinesAre(st, th.total, p) /\ ChildTotals(st, th, run(p))
      /\ Follows(st, tr, Child, th, run(p)) /\ th.turn # NoTurn
  BY DEF ChildFollows, SaidBefore
<1>2. ReadAgain(st, tr, Child, th, p, l)
  BY <1>0, <1>1, UsageAgain
<1>3. /\ Follows(st, tr, Child, th, run(Append(p, l)))
      /\ ChildTotals(st, th, run(Append(p, l)))
  BY <1>1, <1>2, NothingNewFollows DEF ReadAgain
<1>4. ChildLinesAre(st, th.total, Append(p, l))
  BY <1>1, <1>2, OneMore DEF Counts, ReadAgain
<1> QED BY <1>1, <1>2, <1>3, <1>4 DEF ChildFollows, ReadAgain

LEMMA RepeatCounts ==
  ASSUME WorldOK, WorldCounts, NEW t \in Threads, Repeat(t)
  PROVE  WorldCounts'
<1> DEFINE th == thread[t]
           p == log[t]
           q == log'[t]
<1>0. /\ Threads = {Parent, Child} /\ Parent # Child
      /\ style.totals \in {"both", "total", "last"}
      /\ thread \in [Threads -> Thread] /\ IsSeq(p)
  BY TheThreads
<1>1. /\ style.repeats /\ th.last # {} /\ style.totals # "last"
      /\ UNCHANGED <<thread, turns, truth, mirror>>
  BY DEF Repeat
<1>2. PICK l : SaidBefore(style, th, l) /\ l.id = 0 /\ Write(t, <<l>>)
  <2>1. CASE Write(t, <<UsageLine(th.total, th.last)>>)
    <3> DEFINE l == UsageLine(th.total, th.last)
    <3>1. Says(style, l, th.total, th.last) /\ l.id = 0
      BY UsageLineSays
    <3> HIDE DEF l
    <3>2. SaidBefore(style, th, l)
      BY <1>0, <1>1, <3>1 DEF SaidBefore
    <3> QED BY <2>1, <3>1, <3>2 DEF l
  <2>2. ASSUME style.totals = "both", NEW before \in th.total \ (th.last \cup th.copied),
               Write(t, <<UsageLine(th.total \ th.last, {before})>>)
        PROVE  \E l : SaidBefore(style, th, l) /\ l.id = 0 /\ Write(t, <<l>>)
    <3> DEFINE l == UsageLine(th.total \ th.last, {before})
    <3>1. Says(style, l, th.total \ th.last, {before}) /\ l.id = 0
      BY UsageLineSays
    <3> HIDE DEF l
    <3>2. SaidBefore(style, th, l)
      BY <1>0, <1>1, <2>2, <3>1 DEF SaidBefore
    <3> QED BY <2>2, <3>1, <3>2 DEF l
  <2> QED BY <2>1, <2>2 DEF Repeat
<1>3. /\ \A u \in Threads \ {t} : log'[u] = log[u]
      /\ style' = style
      /\ q = Append(p, l)
  <2> DEFINE lines == <<l>>
  <2>1. Write(t, lines)
    BY <1>2
  <2> HIDE DEF lines
  <2>2. q = p \o lines /\ (\A u \in Threads \ {t} : log'[u] = log[u]) /\ style' = style
    BY <2>1, WrittenTo
  <2> QED BY <1>0, <2>2, JoinedLines DEF lines
<1>4. IsFiniteSet(th.total)
  <2>1. th.total \subseteq 1 .. MaxResponses /\ MaxResponses \in Nat
    BY <1>0, BoundNats DEF Thread, Usage
  <2> DEFINE all == 1 .. MaxResponses
             total == th.total
  <2>2. IsFiniteSet(all)
    BY <2>1, FS_Interval
  <2>3. total \subseteq all
    BY <2>1
  <2> HIDE DEF all, total
  <2>4. IsFiniteSet(total)
    BY <2>2, <2>3, FS_Subset
  <2> QED BY <2>4 DEF total
<1>5. TurnsAre(truth', thread', turns') /\ MirrorsAre(style', truth', mirror')
  BY <1>1, <1>3 DEF WorldCounts
<1>6. CASE t = Parent
  <2>1. ParentFollows(style, truth, th, q, thread[Child].live)
    BY <1>2, <1>3, <1>4, <1>6, ParentAgain DEF WorldCounts
  <2> QED BY <1>0, <1>1, <1>3, <1>5, <1>6, <2>1 DEF WorldCounts
<1>7. CASE t = Child
  <2>1. th.live
    BY <1>1, <1>7 DEF WorldCounts, ChildFollows, NoThread
  <2>2. ChildFollows(style, truth, th, q)
    BY <1>2, <1>3, <1>4, <1>7, <2>1, ChildAgain DEF WorldCounts
  <2> QED BY <1>0, <1>1, <1>3, <1>5, <1>7, <2>2 DEF WorldCounts
<1> QED BY <1>0, <1>6, <1>7

-----------------------------------------------------------------------------
(* A copy comes late                                                        *)

LEMMA LateCopy ==
  ASSUME NEW st, Readable(st), st.trails, st.totals \in {"both", "total"},
         NEW tr, NEW th, NEW p, ChildFollows(st, tr, th, p), th.live, th.turn # NoTurn,
         th.total = th.copied, NEW i \in DOMAIN p, p[i].type = "token_count"
  PROVE  ChildFollows(st, tr, th, Append(p, p[i]))
<1> DEFINE r == run(p)
           l == p[i]
           q == run(Append(p, l))
           total == th.total
<1>0. Child # Parent
  BY DEF Child, Parent
<1>1. /\ Counts(st, tr, Child, p)
      /\ \A x \in th.copied : x \in DOMAIN tr /\ tr[x].thread = Parent
      /\ ChildLinesAre(st, total, p) /\ ChildTotals(st, th, r)
      /\ Follows(st, tr, Child, th, r)
  BY DEF ChildFollows
<1>2. /\ RunOK(r) /\ q = parse_line(r, l) /\ IsSeq(p)
      /\ i \in 1 .. Len(p)
  BY <1>1, AppendedLine, Lengths DEF Counts
<1>3. Tok(r) = {}
  <2>1. \A x \in Tok(r) : x \in total /\ tr[x].thread = Child
    BY <1>1, TokAre DEF Follows
  <2> QED BY <1>0, <1>1, <2>1
<1>4. UsageTotal(st, total, l)
  BY <1>1, <1>2 DEF ChildLinesAre
<1>5. PICK x \in SUBSET total : x # {} /\ l.total = {x}
  BY <1>4 DEF UsageTotal
<1>6. r.s.baseline = {total}
  <2>1. total # {} /\ Ordered(st)
    BY <1>5 DEF Ordered, Readable
  <2>2. ChildTotals(st, th, r)
    BY <1>1
  <2> HIDE DEF r, l, q
  <2> QED BY <1>3, <2>1, <2>2 DEF ChildTotals
<1>7. \A y \in Mentions(l) : y \in DOMAIN tr /\ (tr[y].thread = Child => y \in Tok(r))
  BY <1>1, <1>2 DEF Counts
<1>8. l.type = "token_count" /\ ~r.s.waiting
  BY <1>1 DEF Follows
<1>9. ChildLinesAre(st, total, Append(p, l))
  BY <1>1, <1>2, <1>4, OneMore
<1> HIDE DEF r, l, q, total
<1>10. NothingNew(r, q)
  <2>1. Skips(r.s, l)
    BY <1>5, <1>6 DEF Skips, forked_child_should_skip_inherited_snapshot
  <2>2. UsageLineDoes(r, l, q)
    BY <1>2, <1>8, UsageLineComes
  <2> QED BY <2>1, <2>2 DEF UsageLineDoes, NothingNew
<1>11. /\ Counts(st, tr, Child, Append(p, l))
       /\ Tok(q) = Tok(r) /\ Prompted(q) = Prompted(r)
  BY <1>0, <1>1, <1>7, <1>10, LineAgain DEF r, q
<1>12. Follows(st, tr, Child, th, q) /\ ChildTotals(st, th, q)
  BY <1>1, <1>10, <1>11, NothingNewFollows
<1> QED BY <1>1, <1>9, <1>11, <1>12 DEF ChildFollows, q, l, total

LEMMA LateCopyCounts ==
  ASSUME WorldOK, WorldCounts, Readable(style), CopyLate
  PROVE  WorldCounts'
<1> DEFINE th == thread[Child]
           p == log[Child]
           q == log'[Child]
<1>0. /\ Threads = {Parent, Child} /\ Parent # Child
      /\ style.totals \in {"both", "total", "last"}
      /\ IsSeq(p)
  BY TheThreads
<1>1. /\ style.trails /\ th.turn # NoTurn /\ th.total = th.copied /\ style.totals # "last"
      /\ UNCHANGED <<thread, turns, truth, mirror>>
  BY DEF CopyLate
<1>2. PICK i \in DOMAIN p : p[i].type = "token_count" /\ Write(Child, <<p[i]>>)
  BY DEF CopyLate
<1>3. /\ log'[Parent] = log[Parent]
      /\ style' = style
      /\ q = Append(p, p[i])
  <2> DEFINE lines == <<p[i]>>
  <2>1. Write(Child, lines) /\ Child \in Threads
    BY <1>0, <1>2
  <2> HIDE DEF lines
  <2>2. q = p \o lines /\ (\A u \in Threads \ {Child} : log'[u] = log[u]) /\ style' = style
    BY <2>1, WrittenTo
  <2> QED BY <1>0, <2>2, JoinedLines DEF lines
<1>4. th.live
  BY <1>1 DEF WorldCounts, ChildFollows, NoThread
<1>5. ChildFollows(style, truth, th, q)
  <2>1. ChildFollows(style, truth, th, p)
    BY DEF WorldCounts
  <2> HIDE DEF th, p, q
  <2> QED BY <1>0, <1>1, <1>2, <1>3, <1>4, <2>1, LateCopy
<1> QED BY <1>1, <1>3, <1>5 DEF WorldCounts

-----------------------------------------------------------------------------
(* A rollout is put back                                                    *)

LEMMA WithoutTheLast ==
  ASSUME NEW w, IsSeq(w), NEW l
  PROVE  Front(Append(w, l)) = w
<1> DEFINE p == Append(w, l)
           n == Len(w)
           f == SubSeq(p, 1, n)
<1>1. PICK T : w \in Seq(T)
  BY DEF IsSeq
<1>2. /\ Len(p) = n + 1 /\ n \in Nat
      /\ \A i \in 1 .. n : p[i] = w[i]
  BY AppendedLine
<1>3. \A i \in 1 .. n : p[i] \in T
  BY <1>1, <1>2, ElementOfSeq
<1>4. n \in Int /\ 1 \in Int
  BY <1>2
<1> HIDE DEF p, n
<1>5. /\ f \in Seq(T) /\ Len(f) = (IF 1 <= n THEN n - 1 + 1 ELSE 0)
      /\ \A i \in 1 .. n - 1 + 1 : f[i] = p[1 + i - 1]
  BY <1>3, <1>4, SubSeqProperties
<1> HIDE DEF f
<1>6. Len(f) = n /\ \A i \in 1 .. n : f[i] = w[i]
  <2>1. ASSUME NEW i \in 1 .. n PROVE f[i] = w[i]
    <3>1. i \in 1 .. n - 1 + 1 /\ 1 + i - 1 = i
      BY <1>2
    <3>2. f[i] = p[1 + i - 1]
      BY <1>5, <3>1
    <3> QED BY <1>2, <3>1, <3>2
  <2> QED BY <1>2, <1>5, <2>1
<1>7. f = w
  BY <1>1, <1>5, <1>6, SeqEqual DEF n
<1>8. Front(p) = f
  <2>1. Len(p) - 1 = n
    BY <1>2
  <2> QED BY <2>1 DEF Front, f
<1> QED BY <1>7, <1>8 DEF p

\* The last line, the only one that mentions the last response.
LEMMA ParentBack ==
  ASSUME NEW st, NEW tr, NEW th, NEW p, ParentFollows(st, tr, th, p, FALSE), th.last # {},
         {i \in DOMAIN p : p[i].type = "token_count"
            /\ th.last \subseteq UNION (p[i].total \cup p[i].last)} = {Len(p)},
         NEW back, BackFrom(th, back)
  PROVE  ParentFollows(st, tr, back, Front(p), FALSE)
<1>1. /\ th.live /\ th.copied = {} /\ Counts(st, tr, Parent, p)
      /\ Follows(st, tr, Parent, th, run(p)) /\ ParentLinesAre(st, th.total, p, FALSE)
      /\ Restores(st, tr, th, p)
  BY DEF ParentFollows
<1>2. PICK w, l : /\ p = Append(w, l) /\ Counts(st, tr, Parent, w)
                  /\ th.last \cap Tok(run(w)) = {} =>
                       \A b : BackFrom(th, b) => Follows(st, tr, Parent, b, run(w))
  BY <1>1 DEF Restores
<1>3. PICK x : th.last = {x}
  BY <1>1 DEF Follows
<1> DEFINE n == Len(w)
<1>4. /\ IsSeq(w) /\ Len(p) = n + 1 /\ n \in Nat
      /\ \A i \in 1 .. n : p[i] = w[i]
  BY <1>2, AppendedLine DEF Counts
<1>5. DOMAIN p = 1 .. n + 1
  BY <1>1, <1>4, Lengths DEF Counts
<1>6. Front(p) = w
  BY <1>2, <1>4, WithoutTheLast
<1> HIDE DEF n
<1>7. ASSUME NEW i \in 1 .. n PROVE x \notin Mentions(w[i])
  <2>1. i \in 1 .. n + 1 /\ i # n + 1 /\ p[i] = w[i] /\ (i = 1 \/ i \in 2 .. Len(p))
    BY <1>4
  <2>2. CASE p[i].type = "token_count"
    <3>1. ~(th.last \subseteq UNION (p[i].total \cup p[i].last))
      BY <1>4, <1>5, <2>1, <2>2
    <3> QED BY <1>3, <2>1, <3>1 DEF Mentions
  <2>3. CASE p[i].type # "token_count"
    <3>1. Mentions(p[i]) = {}
      BY <1>1, <2>1, <2>3 DEF ParentLinesAre, ThreadLine
    <3> QED BY <2>1, <3>1
  <2> QED BY <2>2, <2>3
<1>8. x \notin Tok(run(w))
  BY <1>2, <1>7 DEF Counts, n
<1>9. Follows(st, tr, Parent, back, run(w))
  BY <1>2, <1>3, <1>8
<1>10. ParentLinesAre(st, back.total, w, FALSE)
  <2>1. p[n + 1].type = "token_count"
    BY <1>4
  <2>2. n >= 1
    <3>1. p[1].type # p[n + 1].type
      BY <1>1, <2>1 DEF ParentLinesAre
    <3> QED BY <1>4, <3>1
  <2>3. p[1] = w[1] /\ \A i \in 2 .. n : i \in 1 .. n /\ i \in 2 .. Len(p)
    BY <1>4, <2>2
  <2>4. ASSUME NEW i \in 2 .. n
        PROVE  ThreadLine(st, Parent, back.total, w[i]) /\ EarlyLine(st, w[i])
    <3>1. ThreadLine(st, Parent, th.total, w[i]) /\ EarlyLine(st, w[i])
      BY <1>1, <1>4, <2>3 DEF ParentLinesAre
    <3>2. back.total = th.total \ {x}
      BY <1>3 DEF BackFrom
    <3>3. x \notin Mentions(w[i])
      BY <1>7, <2>3
    <3>4. UsageTotal(st, th.total, w[i]) => UsageTotal(st, back.total, w[i])
      BY <3>2, <3>3 DEF UsageTotal, Mentions
    <3> QED BY <3>1, <3>4 DEF ThreadLine
  <2> QED BY <1>1, <1>4, <2>2, <2>3, <2>4 DEF ParentLinesAre, n
<1> QED BY <1>1, <1>2, <1>6, <1>9, <1>10 DEF ParentFollows, BackFrom

LEMMA RollBackCounts ==
  ASSUME WorldOK, WorldCounts, RollBack
  PROVE  WorldCounts'
<1> DEFINE th == thread[Parent]
           p == log[Parent]
           back == thread'[Parent]
<1>0. /\ Threads = {Parent, Child} /\ Parent # Child
      /\ thread \in [Threads -> Thread]
  BY TheThreads
<1>1. /\ ~thread[Child].live /\ th.last # {}
      /\ {i \in DOMAIN p : p[i].type = "token_count"
            /\ th.last \subseteq UNION (p[i].total \cup p[i].last)} = {Len(p)}
      /\ UNCHANGED <<style, turns, truth, mirror>>
  BY DEF RollBack, Forked
<1>2. /\ log' = [log EXCEPT ![Parent] = Front(p)]
      /\ thread' = [thread EXCEPT ![Parent].total = th.total \ th.last, ![Parent].last = {}]
  BY DEF RollBack
<1>3. log'[Parent] = Front(p) /\ log'[Child] = log[Child]
  <2>1. log = [t \in Threads |-> log[t]]
    BY DEF WorldOK
  <2> DEFINE f == Front(p)
  <2> HIDE DEF f
  <2>2. log' = [log EXCEPT ![Parent] = f]
    BY <1>2 DEF f
  <2> QED BY <1>0, <2>1, <2>2 DEF f
<1>4. BackFrom(th, back) /\ thread'[Child] = thread[Child]
  BY <1>0, <1>2 DEF Thread, BackFrom
<1>5. ParentFollows(style, truth, back, log'[Parent], FALSE)
  <2>1. ParentFollows(style, truth, th, p, FALSE)
    <3>1. ParentFollows(style, truth, th, p, thread[Child].live)
      BY DEF WorldCounts
    <3>2. thread[Child].live = FALSE
      BY <1>0, <1>1 DEF Thread
    <3> QED BY <3>1, <3>2
  <2> HIDE DEF th, p, back
  <2> QED BY <1>1, <1>3, <1>4, <2>1, ParentBack
<1>6. ParentFollows(style, truth, back, log'[Parent], thread[Child].live)
  <2>1. thread[Child].live = FALSE
    BY <1>0, <1>1 DEF Thread
  <2> QED BY <1>5, <2>1
<1>7. TurnsAre(truth, thread', turns)
  <2>1. \A u \in Threads : thread'[u].turn = thread[u].turn
    BY <1>0, <1>4 DEF BackFrom
  <2> QED BY <1>0, <2>1 DEF WorldCounts, TurnsAre
<1> QED BY <1>1, <1>3, <1>4, <1>6, <1>7 DEF WorldCounts

-----------------------------------------------------------------------------
(* The lines of a fork                                                      *)

\* The place of i in the order of S.
Rank(S, i) == Cardinality({j \in S : j <= i})

LEMMA Ranks ==
  ASSUME NEW S \in SUBSET Nat, IsFiniteSet(S)
  PROVE  /\ Cardinality(S) \in Nat
         /\ \A i \in S : Rank(S, i) \in 1 .. Cardinality(S)
         /\ \A i, k \in S : i < k => Rank(S, i) < Rank(S, k)
         /\ \A n \in 1 .. Cardinality(S) : \E i \in S : Rank(S, i) = n
<1> DEFINE N == Cardinality(S)
           upTo(i) == {j \in S : j <= i}
<1>1. N \in Nat
  BY FS_CardinalityType
<1>2. ASSUME NEW i \in S
      PROVE  /\ upTo(i) \in SUBSET S /\ IsFiniteSet(upTo(i))
             /\ Cardinality(upTo(i)) \in Nat /\ Cardinality(upTo(i)) <= N
             /\ i \in upTo(i) /\ Cardinality(upTo(i)) # 0
  <2>1. upTo(i) \in SUBSET S /\ i \in upTo(i)
    OBVIOUS
  <2> HIDE DEF upTo
  <2>2. IsFiniteSet(upTo(i)) /\ Cardinality(upTo(i)) <= N
    BY <2>1, FS_Subset
  <2>3. Cardinality(upTo(i)) \in Nat /\ Cardinality(upTo(i)) # 0
    BY <2>1, <2>2, FS_CardinalityType, FS_EmptySet
  <2> QED BY <2>1, <2>2, <2>3
<1>3. ASSUME NEW i \in S PROVE Rank(S, i) \in 1 .. N
  <2>1. Rank(S, i) = Cardinality(upTo(i))
    BY DEF Rank
  <2> HIDE DEF upTo, N
  <2> QED BY <1>1, <1>2, <2>1
<1>4. ASSUME NEW i \in S, NEW k \in S, i < k PROVE Rank(S, i) < Rank(S, k)
  <2>1. upTo(i) \in SUBSET upTo(k) /\ k \in upTo(k) /\ k \notin upTo(i)
    <3>1. \A j \in S : j \in Nat
      OBVIOUS
    <3>2. \A j \in S : j <= i => j <= k
      BY <1>4, <3>1
    <3>3. k <= k /\ ~(k <= i)
      BY <1>4, <3>1
    <3> QED BY <3>2, <3>3
  <2>2. Rank(S, i) = Cardinality(upTo(i)) /\ Rank(S, k) = Cardinality(upTo(k))
    BY DEF Rank
  <2> HIDE DEF upTo
  <2>3. Cardinality(upTo(i)) <= Cardinality(upTo(k))
        /\ Cardinality(upTo(i)) # Cardinality(upTo(k))
    BY <1>2, <2>1, FS_Subset
  <2>4. Cardinality(upTo(i)) \in Nat /\ Cardinality(upTo(k)) \in Nat
    BY <1>2
  <2> QED BY <2>2, <2>3, <2>4
<1>5. ASSUME NEW n \in 1 .. N PROVE \E i \in S : Rank(S, i) = n
  <2> DEFINE f == [i \in S |-> Rank(S, i)]
  <2>1. f \in [S -> 1 .. N]
    <3> HIDE DEF N
    <3> QED BY <1>3
  <2>2. \A i, k \in S : f[i] = f[k] => i = k
    <3> SUFFICES ASSUME NEW i \in S, NEW k \in S, f[i] = f[k], i # k PROVE FALSE
      OBVIOUS
    <3>1. Rank(S, i) = Rank(S, k)
      OBVIOUS
    <3>2. i < k \/ k < i
      OBVIOUS
    <3>3. Rank(S, i) \in Nat
      <4> HIDE DEF N
      <4> QED BY <1>1, <1>3
    <3>4. Rank(S, i) < Rank(S, k) \/ Rank(S, k) < Rank(S, i)
      BY <1>4, <3>2
    <3> QED BY <3>1, <3>3, <3>4
  <2> HIDE DEF f, N
  <2>3. f \in Injection(S, 1 .. N)
    BY <2>1, <2>2 DEF Injection, IsInjective
  <2>4. IsFiniteSet(1 .. N) /\ Cardinality(1 .. N) = N
    BY <1>1, FS_Interval
  <2>5. f \in Surjection(S, 1 .. N)
    BY <2>3, <2>4, FS_Injection DEF N
  <2>6. \E i \in S : f[i] = n
    BY <2>5 DEF Surjection
  <2> QED BY <2>6 DEF f
<1> QED BY <1>1, <1>3, <1>4, <1>5

\* The lines of p at S, in their order.
InOrderOf(p, S, copies) ==
  /\ IsSeq(copies) /\ Len(copies) \in Nat
  /\ \A n \in 1 .. Len(copies) : \E i \in S : copies[n] = p[i] /\ Rank(S, i) = n
  /\ \A i \in S : Rank(S, i) \in 1 .. Len(copies) /\ copies[Rank(S, i)] = p[i]
  /\ \A i, k \in S : i < k => Rank(S, i) < Rank(S, k)

LEMMA LinesInOrder ==
  ASSUME NEW S \in SUBSET Nat, IsFiniteSet(S)
  PROVE  InOrderOf(log[Parent], S, ParentLines(S))
<1> DEFINE p == log[Parent]
           N == Cardinality(S)
           nth(n) == CHOOSE i \in S : Rank(S, i) = n
           copies == ParentLines(S)
<1>1. /\ N \in Nat
      /\ \A i \in S : Rank(S, i) \in 1 .. N
      /\ \A i, k \in S : i < k => Rank(S, i) < Rank(S, k)
      /\ \A n \in 1 .. N : \E i \in S : Rank(S, i) = n
  BY Ranks
<1>2. copies = [n \in 1 .. N |-> p[nth(n)]]
  BY DEF ParentLines, Rank
<1>3. IsSeq(copies)
  BY ParentLinesSeq
<1> HIDE DEF copies, p, N
<1>4. DOMAIN copies = 1 .. Len(copies) /\ Len(copies) \in Nat
  BY <1>3, Lengths
<1>5. Len(copies) = N
  <2>1. DOMAIN copies = 1 .. N
    BY <1>2
  <2> DEFINE m == Len(copies)
  <2>2. 1 .. m = 1 .. N /\ m \in Nat
    BY <1>4, <2>1
  <2> HIDE DEF m
  <2>3. m = N
    <3>1. CASE m = 0
      <4>1. 1 \notin 1 .. N
        BY <2>2, <3>1
      <4> QED BY <1>1, <3>1, <4>1
    <3>2. CASE m # 0
      <4>1. m \in 1 .. N
        <5>1. m \in 1 .. m
          BY <2>2, <3>2
        <5> QED BY <2>2, <5>1
      <4>2. N \in 1 .. m
        BY <1>1, <2>2, <4>1
      <4> QED BY <1>1, <2>2, <4>1, <4>2
    <3> QED BY <3>1, <3>2
  <2> QED BY <2>3 DEF m
<1>6. \A n \in 1 .. N : nth(n) \in S /\ Rank(S, nth(n)) = n
  BY <1>1
<1>7. \A i \in S : nth(Rank(S, i)) = i
  <2> SUFFICES ASSUME NEW i \in S PROVE nth(Rank(S, i)) = i
    OBVIOUS
  <2> DEFINE k == nth(Rank(S, i))
  <2>1. k \in S /\ Rank(S, k) = Rank(S, i)
    BY <1>1, <1>6
  <2> HIDE DEF k, nth
  <2>2. Rank(S, i) \in Nat
    BY <1>1
  <2>3. ~(i < k) /\ ~(k < i)
    BY <1>1, <2>1, <2>2
  <2>4. i \in Nat /\ k \in Nat
    BY <2>1
  <2> QED BY <2>3, <2>4 DEF k
<1> HIDE DEF nth
<1> QED BY <1>1, <1>2, <1>3, <1>5, <1>6, <1>7 DEF InOrderOf, copies, p

\* A line that a fork copies.
CopyOf(st, tr, l) ==
  /\ l.type \in {"task_started", "turn_context", "user_message", "settings", "token_count", "other"}
  /\ l.id \in {0, Parent}
  /\ ~st.embeds => l.type = "token_count"
  /\ l.type = "task_started" => st.nested
  /\ EarlyLine(st, l)
  /\ \A x \in Mentions(l) : x \in DOMAIN tr /\ tr[x].thread = Parent

HasTotal(l) == l.type = "token_count" /\ l.total # {}

CopyRead(st, tr, p, q, l) ==
  /\ Counts(st, tr, Child, q) /\ Copying(st, run(q))
  /\ run(q).s.previous = IF HasTotal(l) THEN l.total ELSE run(p).s.previous
  /\ run(q).s.baseline = IF HasTotal(l) THEN l.total ELSE run(p).s.baseline

LEMMA CopyComes ==
  ASSUME NEW st, Readable(st), NEW tr, NEW p, Counts(st, tr, Child, p), Copying(st, run(p)),
         NEW l, CopyOf(st, tr, l)
  PROVE  CopyRead(st, tr, p, Append(p, l), l)
<1> DEFINE r == run(p)
           q == run(Append(p, l))
<1>0. Child # Parent /\ Child # 0
  BY DEF Child, Parent
<1>1. /\ r.s.waiting /\ r.s.child = Child /\ r.s.tasks = {} /\ r.s.user = st.user
      /\ r.s.replay = (IF st.embeds THEN Parent ELSE 0)
      /\ ~r.s.prompted /\ ~r.s.selected /\ ~r.s.fast /\ Size(r) = 0
  BY DEF Copying
<1>2. q = parse_line(r, l) /\ RunOK(r)
  BY AppendedLine DEF Counts
<1> HIDE DEF r, q
<1>3. l.type = "turn_context" => ~forked_child_turn_starts_own_session(r.s, l.turn)
  <2> SUFFICES ASSUME l.type = "turn_context"
               PROVE  ~forked_child_turn_starts_own_session(r.s, l.turn)
    OBVIOUS
  <2>1. st.embeds /\ st.ids /\ (st.v7 \/ ~st.user)
    BY DEF CopyOf, Readable
  <2>2. EarlyTurn(st, l.turn) /\ l.turn # NoTurn
    BY <2>1 DEF CopyOf, EarlyLine
  <2>3. l.turn.v7 = st.v7 /\ (l.turn.ms = 0 \/ (l.turn.ms = 1 /\ st.v7 /\ ~st.user))
    BY <2>2 DEF EarlyTurn
  <2>4. r.s.replay # 0
    BY <1>1, <2>1 DEF Parent
  <2>5. codex_uuid_v7_order_key(l.turn) = IF st.v7 THEN {l.turn.ms} ELSE {}
    BY <2>3 DEF codex_uuid_v7_order_key
  <2>6. \A key \in codex_uuid_v7_order_key(l.turn) : ~(key > ForkMs)
    BY <2>3, <2>5 DEF ForkMs
  <2>7. (\A key \in codex_uuid_v7_order_key(l.turn) : key = ForkMs) => ~st.user
    BY <2>1, <2>3, <2>5 DEF ForkMs
  <2> QED BY <1>0, <1>1, <2>2, <2>4, <2>6, <2>7 DEF forked_child_turn_starts_own_session
<1>4. IsCopy(r.s, l)
  BY <1>0, <1>1, <1>3 DEF IsCopy, CopyOf
<1>5. CopiedLineDoes(r, l, q)
  BY <1>2, <1>4, CopiedLine
<1>6. ~(l.type = "task_started" /\ forked_child_task_starts_own_session(r.s, l.turn))
  BY DEF CopyOf, EarlyLine, EarlyTurn, forked_child_task_starts_own_session, ForkMs
<1>7. /\ Keeps(r, q) /\ q.s.tasks = r.s.tasks /\ q.s.replay = r.s.replay
      /\ q.s.previous = (IF HasTotal(l) THEN l.total ELSE r.s.previous)
      /\ q.s.baseline = (IF HasTotal(l) THEN l.total ELSE r.s.baseline)
      /\ AllBut({"turn", "announced", "tasks", "replay", "previous", "baseline"}, r.s, q.s)
  BY <1>5, <1>6 DEF CopiedLineDoes, CopyOf, HasTotal
<1>8. Copying(st, q)
  <2>1. Size(q) = 0
    BY <1>1, <1>7 DEF Keeps
  <2> QED BY <1>1, <1>7, <2>1 DEF Copying, AllBut, StateFields
<1>9. Counts(st, tr, Child, Append(p, l))
  <2>1. \A x \in Mentions(l) : /\ x \in DOMAIN tr
                               /\ tr[x].thread = Child => x \in Tok(run(p))
    BY <1>0 DEF CopyOf
  <2> QED BY <1>0, <1>7, <2>1, LineKeeps DEF r, q
<1> QED BY <1>7, <1>8, <1>9 DEF CopyRead, r, q

\* previous is what the last total among the lines of c says.
LastTotal(c, previous) ==
  \/ previous = {} /\ \A i \in 1 .. Len(c) : ~HasTotal(c[i])
  \/ \E i \in 1 .. Len(c) : /\ HasTotal(c[i]) /\ previous = c[i].total
                            /\ \A j \in i + 1 .. Len(c) : ~HasTotal(c[j])

CopiesReadTo(st, tr, head, c) ==
  LET r == run(head \o c)
  IN  /\ Counts(st, tr, Child, head \o c) /\ Copying(st, r)
      /\ LastTotal(c, r.s.previous) /\ r.s.baseline = r.s.previous

LEMMA LastTotalOf ==
  /\ LastTotal(<<>>, {})
  /\ \A c, l, previous : IsSeq(c) /\ LastTotal(c, previous) =>
       LastTotal(Append(c, l), IF HasTotal(l) THEN l.total ELSE previous)
<1>1. LastTotal(<<>>, {})
  <2>1. Len(<<>>) = 0 /\ 1 .. 0 = {}
    BY ShortSeqs
  <2> QED BY <2>1 DEF LastTotal
<1>2. ASSUME NEW c, NEW l, NEW previous, IsSeq(c), LastTotal(c, previous)
      PROVE  LastTotal(Append(c, l), IF HasTotal(l) THEN l.total ELSE previous)
  <2> DEFINE d == Append(c, l)
             n == Len(c)
  <2>1. /\ Len(d) = n + 1 /\ n \in Nat
        /\ \A i \in 1 .. n : d[i] = c[i]
        /\ d[n + 1] = l
    BY <1>2, AppendedLine
  <2> HIDE DEF d
  <2>2. CASE HasTotal(l)
    <3>1. n + 1 \in 1 .. n + 1 /\ (n + 1) + 1 .. n + 1 = {}
      <4> HIDE DEF n
      <4> QED BY <2>1
    <3> QED BY <2>1, <2>2, <3>1 DEF LastTotal
  <2>3. CASE ~HasTotal(l) /\ previous = {} /\ \A i \in 1 .. n : ~HasTotal(c[i])
    <3>1. \A i \in 1 .. n + 1 : i \in 1 .. n \/ i = n + 1
      <4> HIDE DEF n
      <4> QED BY <2>1
    <3>2. \A i \in 1 .. n + 1 : ~HasTotal(d[i])
      BY <2>1, <2>3, <3>1
    <3> QED BY <2>1, <2>3, <3>2 DEF LastTotal
  <2>4. ASSUME ~HasTotal(l), NEW i \in 1 .. n, HasTotal(c[i]), previous = c[i].total,
               \A j \in i + 1 .. n : ~HasTotal(c[j])
        PROVE  LastTotal(d, previous)
    <3>1. /\ i \in 1 .. n + 1
          /\ \A j \in i + 1 .. n + 1 : (j \in i + 1 .. n /\ j \in 1 .. n) \/ j = n + 1
      <4> HIDE DEF n
      <4> QED BY <2>1
    <3>2. \A j \in i + 1 .. n + 1 : ~HasTotal(d[j])
      BY <2>1, <2>4, <3>1
    <3> QED BY <2>1, <2>4, <3>1, <3>2 DEF LastTotal
  <2> QED BY <1>2, <2>2, <2>3, <2>4 DEF LastTotal, d
<1> QED BY <1>1, <1>2

LEMMA CopiesComes ==
  ASSUME NEW st, Readable(st), NEW tr, NEW head, Counts(st, tr, Child, head),
         Copying(st, run(head)), run(head).s.previous = {}, run(head).s.baseline = {},
         NEW T, \A l \in T : CopyOf(st, tr, l), NEW copies \in Seq(T)
  PROVE  CopiesReadTo(st, tr, head, copies)
<1> DEFINE Holds(c) == CopiesReadTo(st, tr, head, c)
           fails == {k \in Nat : \E c \in Seq(T) : Len(c) = k /\ ~Holds(c)}
<1>0. IsSeq(head)
  BY DEF Counts
<1>1. fails = {}
  <2> SUFFICES ASSUME fails # {} PROVE FALSE
    OBVIOUS
  <2>1. fails \in SUBSET Nat
    OBVIOUS
  <2>2. PICK k \in fails : \A m \in fails : k <= m
    <3> HIDE DEF fails
    <3> QED BY <2>1, LeastNumber
  <2>3. PICK c \in Seq(T) : Len(c) = k /\ ~Holds(c)
    BY <2>2
  <2>4. CASE c = <<>>
    <3>1. head \o <<>> = head
      BY <1>0, JoinedLines
    <3>2. CopiesReadTo(st, tr, head, <<>>)
      BY <3>1, LastTotalOf DEF CopiesReadTo
    <3> QED BY <2>3, <2>4, <3>2
  <2>5. CASE c # <<>>
    <3>1. PICK u \in Seq(T), l \in T : c = Append(u, l)
      BY <2>5, SequenceEmptyOrAppend
    <3>2. Len(u) \in Nat /\ Len(u) < k /\ Len(u) \notin fails
      <4>1. Len(u) \in Nat /\ k = Len(u) + 1
        BY <2>3, <3>1
      <4> HIDE DEF fails
      <4> QED BY <2>2, <4>1
    <3>3. CopiesReadTo(st, tr, head, u)
      BY <3>2
    <3> DEFINE p == head \o u
    <3>4. head \o c = Append(p, l)
      <4>1. IsSeq(u) /\ IsSeq(<<l>>)
        BY ShortSeqs, Zenon DEF IsSeq
      <4>2. c = u \o <<l>>
        BY <3>1, <4>1, JoinedLines
      <4> DEFINE one == <<l>>
      <4> HIDE DEF one
      <4>3. head \o (u \o one) = p \o one
        BY <1>0, <4>1, JoinedTwice DEF one
      <4>4. IsSeq(p)
        BY <1>0, <4>1, JoinedSeq
      <4> HIDE DEF p
      <4>5. p \o <<l>> = Append(p, l)
        BY <4>4, JoinedLines
      <4> QED BY <4>2, <4>3, <4>5 DEF one
    <3>5. /\ Counts(st, tr, Child, p) /\ Copying(st, run(p))
          /\ LastTotal(u, run(p).s.previous) /\ run(p).s.baseline = run(p).s.previous
      BY <3>3 DEF CopiesReadTo
    <3> HIDE DEF p
    <3>6. CopyRead(st, tr, p, Append(p, l), l)
      BY <3>5, CopyComes
    <3>7. LastTotal(Append(u, l), IF HasTotal(l) THEN l.total ELSE run(p).s.previous)
      <4>1. IsSeq(u)
        BY Zenon DEF IsSeq
      <4> QED BY <3>5, <4>1, LastTotalOf
    <3>8. CopiesReadTo(st, tr, head, c)
      BY <3>1, <3>4, <3>5, <3>6, <3>7 DEF CopiesReadTo, CopyRead
    <3> QED BY <2>3, <3>8
  <2> QED BY <2>4, <2>5
<1>2. Len(copies) \in Nat
  OBVIOUS
<1>3. Holds(copies)
  BY <1>1, <1>2
<1> QED BY <1>3

ForkName(st, l) ==
  /\ l.type = "session_meta" /\ l.id = Child /\ l.from = Parent /\ l.user = st.user
  /\ Mentions(l) = {}

\* Its parser when the copies are to come.
ForkNamed(st, tr, p, replay) ==
  /\ Counts(st, tr, Child, p)
  /\ run(p).s.waiting /\ run(p).s.replay = replay /\ run(p).s.child = Child
  /\ run(p).s.tasks = {} /\ run(p).s.user = st.user
  /\ ~run(p).s.prompted /\ ~run(p).s.selected /\ ~run(p).s.fast
  /\ Size(run(p)) = 0
  /\ run(p).s.previous = {} /\ run(p).s.baseline = {}

LEMMA FirstLine ==
  ASSUME NEW l, l.type = "session_meta"
  PROVE  run(Append(<<>>, l)) = [run(<<>>) EXCEPT !.s = session_meta(FreshState, l)]
<1> DEFINE r == run(<<>>)
           q == run(Append(<<>>, l))
           o1 == [r EXCEPT !.s = FreshState]
           ends == FreshState.waiting /\ l.type = "turn_context"
                   /\ forked_child_turn_starts_own_session(FreshState, l.turn)
           o2 == IF l.model = {} /\ l.type \notin {"token_count", "session_meta"}
                 THEN flush_pending_model_messages_as_unknown(o1) ELSE o1
<1>1. RunOK(r) /\ r.s = FreshState /\ IsSeq(<<>>)
  BY NothingRead, ShortSeqs
<1>2. q = parse_line(r, l)
  BY <1>1, AppendedLine
<1> HIDE DEF r, q
<1>3. IsState(FreshState) /\ IsRun(r)
  BY <1>1 DEF RunOK
<1>4. TurnOf(r.s, l) = FreshState /\ thread_settings_applied(FreshState, l) = FreshState
  <2>1. l.type \notin {"task_started", "turn_context"} /\ l.type # "settings"
    OBVIOUS
  <2>2. TurnOf(FreshState, l) = FreshState
    BY <1>3, <2>1, TurnState
  <2>3. thread_settings_applied(FreshState, l) = FreshState
    BY <1>3, <2>1, SettingsState
  <2> QED BY <1>1, <2>2, <2>3
<1>5. o1 = r
  BY <1>1, <1>3 DEF IsRun, RunFields
<1>6. ~FreshState.waiting
  BY DEF FreshState
<1>7. q = IF FreshState.waiting /\ ~ends THEN [r EXCEPT !.s = Replayed(FreshState, l)]
          ELSE CASE l.type = "session_meta" -> [o2 EXCEPT !.s = session_meta(o2.s, l)]
                 [] l.type = "turn_context" -> turn_context(o2, l)
                 [] l.type = "user_message" -> [o2 EXCEPT !.s = [o2.s EXCEPT !.prompted = TRUE]]
                 [] l.type = "token_count"  -> token_count(o2, l)
                 [] OTHER -> o2
  <2>1. o1 = [r EXCEPT !.s = IF ends THEN EndReplay(FreshState) ELSE FreshState]
    BY <1>6
  <2> HIDE DEF o1
  <2> QED BY <1>2, <1>4, <2>1, Zenon DEF parse_line
<1>8. o2 = r
  BY <1>5
<1> HIDE DEF o2, o1, ends
<1>9. q = [r EXCEPT !.s = session_meta(r.s, l)]
  BY <1>6, <1>7, <1>8
<1> QED BY <1>1, <1>9 DEF q, r

\* What session_meta leaves to say of a rollout's first line.
LEMMA NamedRead ==
  ASSUME NEW l, l.type = "session_meta", Mentions(l) = {}, NEW st, NEW tr, NEW t,
         NEW s, s = session_meta(FreshState, l), IsState(s),
         t = Parent => /\ s.baseline = {} /\ ~s.announced /\ s.coverage = {} /\ s.previous = {}
  PROVE  LET q == run(Append(<<>>, l))
         IN  Counts(st, tr, t, Append(<<>>, l)) /\ q.s = s /\ Size(q) = 0 /\ Tok(q) = {}
<1> DEFINE r == run(<<>>)
           q == run(Append(<<>>, l))
<1>1. /\ RunOK(r) /\ r.s = FreshState /\ Size(r) = 0 /\ Tok(r) = {}
      /\ Counts(st, tr, t, <<>>)
  BY NothingRead
<1>2. q = [r EXCEPT !.s = s]
  BY FirstLine
<1> HIDE DEF r, q
<1>3. Keeps(r, q) /\ q.s = s
  BY <1>1, <1>2, OtherState
<1>4. FreshState.coverage = {} /\ FreshState.previous = {}
  BY DEF FreshState
<1>5. Counts(st, tr, t, Append(<<>>, l)) /\ Tok(q) = {}
  <2> DEFINE none == <<>>
  <2> HIDE DEF none
  <2>1. t = Parent => /\ q.s.baseline = {} /\ ~q.s.announced
                      /\ q.s.coverage = r.s.coverage /\ q.s.previous = r.s.previous
    BY <1>1, <1>3, <1>4
  <2>2. Counts(st, tr, t, none) /\ Keeps(run(none), run(Append(none, l)))
    BY <1>1, <1>3 DEF r, q, none
  <2>3. t = Parent => /\ run(Append(none, l)).s.baseline = {}
                      /\ ~run(Append(none, l)).s.announced
                      /\ run(Append(none, l)).s.coverage = run(none).s.coverage
                      /\ run(Append(none, l)).s.previous = run(none).s.previous
    BY <2>1 DEF r, q, none
  <2>4. l.type # "token_count"
    OBVIOUS
  <2>5. Counts(st, tr, t, Append(none, l)) /\ Tok(run(Append(none, l))) = Tok(run(none))
    BY <2>2, <2>3, <2>4, LineKeeps
  <2> QED BY <1>1, <2>5 DEF r, q, none
<1>6. Size(q) = 0
  BY <1>1, <1>3 DEF Keeps
<1> QED BY <1>3, <1>5, <1>6 DEF q

LEMMA NameComes ==
  ASSUME NEW st, NEW tr, NEW l, ForkName(st, l)
  PROVE  ForkNamed(st, tr, Append(<<>>, l), 0)
<1> DEFINE q == run(Append(<<>>, l))
           s == session_meta(FreshState, l)
<1>0. Child # Parent /\ Child # 0 /\ Parent # 0
  BY DEF Child, Parent
<1>1. /\ IsState(s) /\ s.waiting /\ s.replay = 0 /\ s.child = Child /\ s.tasks = {}
      /\ s.user = st.user /\ ~s.prompted /\ ~s.selected /\ ~s.fast
      /\ s.previous = {} /\ s.baseline = {}
  <2> DEFINE f == FreshState
             named == [f EXCEPT !.owned = f.owned \/ l.openclaw,
                                !.selected = f.selected /\ ~(f.meta # l.id),
                                !.fast = f.fast /\ ~(f.meta # l.id), !.meta = l.id]
             forked == [named EXCEPT !.from = l.from, !.child = l.id]
             waits == [forked EXCEPT !.waiting = TRUE, !.replay = 0, !.baseline = {},
                                     !.tasks = {}, !.user = l.user]
  <2>1. /\ IsState(f) /\ ~f.waiting /\ f.child = 0 /\ f.previous = {}
        /\ ~f.prompted /\ ~f.selected /\ ~f.fast
    BY DEF FreshState, IsState, StateFields
  <2>2. l.from # 0 /\ l.id = Child /\ l.user = st.user
    BY <1>0 DEF ForkName
  <2>3. s = waits
    <3> HIDE DEF waits, named
    <3>1. session_meta(f, l) = IF l.from = 0 THEN named
                               ELSE IF ~f.waiting /\ f.child = l.id THEN forked
                               ELSE waits
      BY Zenon DEF session_meta, named, waits
    <3> QED BY <1>0, <2>1, <2>2, <3>1
  <2> HIDE DEF f, s
  <2>4. /\ IsState(named) /\ named.previous = {} /\ ~named.prompted
        /\ ~named.selected /\ ~named.fast
    <3> DEFINE a == f.owned \/ l.openclaw
               b == f.selected /\ ~(f.meta # l.id)
               c == f.fast /\ ~(f.meta # l.id)
    <3>1. ~b /\ ~c
      BY <2>1
    <3> HIDE DEF a, b, c
    <3> QED BY <2>1, <3>1 DEF IsState, StateFields
  <2> HIDE DEF named
  <2> QED BY <2>2, <2>3, <2>4 DEF IsState, StateFields
<1> HIDE DEF s
<1>2. Counts(st, tr, Child, Append(<<>>, l)) /\ q.s = s /\ Size(q) = 0
  <2>1. l.type = "session_meta" /\ Mentions(l) = {}
    BY DEF ForkName
  <2>2. s = session_meta(FreshState, l)
    BY DEF s
  <2> QED BY <1>0, <1>1, <2>1, <2>2, NamedRead
<1> QED BY <1>1, <1>2 DEF ForkNamed, q

LEMMA ParentNamed ==
  ASSUME NEW st, NEW tr, NEW p, ForkNamed(st, tr, p, 0),
         NEW l, l.type = "session_meta", l.id = Parent, Mentions(l) = {}
  PROVE  ForkNamed(st, tr, Append(p, l), Parent)
<1> DEFINE r == run(p)
           q == run(Append(p, l))
<1>0. Child # Parent /\ Child # 0 /\ Parent # 0
  BY DEF Child, Parent
<1>1. /\ Counts(st, tr, Child, p) /\ RunOK(r) /\ IsSeq(p)
      /\ r.s.waiting /\ r.s.child = Child
      /\ r.s.tasks = {} /\ r.s.user = st.user
      /\ ~r.s.prompted /\ ~r.s.selected /\ ~r.s.fast
      /\ Size(r) = 0
      /\ r.s.previous = {} /\ r.s.baseline = {}
  BY DEF ForkNamed, Counts
<1>2. q = parse_line(r, l)
  BY <1>1, AppendedLine
<1> HIDE DEF r, q
<1>3. IsCopy(r.s, l)
  BY <1>0, <1>1 DEF IsCopy
<1>4. CopiedLineDoes(r, l, q)
  BY <1>1, <1>2, <1>3, CopiedLine
<1>5. /\ Keeps(r, q) /\ q.s.tasks = r.s.tasks /\ q.s.replay = Parent
      /\ q.s.previous = r.s.previous /\ q.s.baseline = r.s.baseline
      /\ AllBut({"turn", "announced", "tasks", "replay", "previous", "baseline"}, r.s, q.s)
  BY <1>0, <1>4 DEF CopiedLineDoes
<1>6. Counts(st, tr, Child, Append(p, l))
  BY <1>0, <1>1, <1>5, LineKeeps DEF r, q
<1>7. Size(q) = 0
  BY <1>1, <1>5 DEF Keeps
<1>8. /\ q.s.waiting /\ q.s.child = Child /\ q.s.user = st.user
      /\ ~q.s.prompted /\ ~q.s.selected /\ ~q.s.fast
  BY <1>1, <1>5 DEF AllBut, StateFields
<1> QED BY <1>1, <1>5, <1>6, <1>7, <1>8 DEF ForkNamed, q

\* The lines before the copies.
Names(st, meta, first, head) ==
  /\ ForkName(st, meta)
  /\ first.type = "session_meta" /\ first.id = Parent /\ Mentions(first) = {}
  /\ head = <<meta>> \o (IF st.embeds THEN <<first>> ELSE <<>>)
Replaying(st) == IF st.embeds THEN Parent ELSE 0

LEMMA HeadComes ==
  ASSUME NEW st, NEW tr, NEW meta, NEW first, NEW head, Names(st, meta, first, head)
  PROVE  ForkNamed(st, tr, head, Replaying(st))
<1> USE DEF Names, Replaying
<1> DEFINE one == <<meta>>
           embedded == IF st.embeds THEN <<first>> ELSE <<>>
<1>0. head = one \o embedded
  OBVIOUS
<1>1. one = Append(<<>>, meta) /\ IsSeq(one)
  BY ShortSeqs
<1> HIDE DEF one, embedded
<1>2. ForkNamed(st, tr, one, 0)
  BY <1>1, NameComes
<1>3. CASE ~st.embeds
  <2>1. one \o embedded = one
    BY <1>1, <1>3, JoinedLines DEF embedded
  <2> QED BY <1>0, <1>2, <1>3, <2>1
<1>4. CASE st.embeds
  <2>1. one \o embedded = Append(one, first)
    BY <1>1, <1>4, JoinedLines DEF embedded
  <2>2. ForkNamed(st, tr, Append(one, first), Parent)
    BY <1>2, ParentNamed
  <2> QED BY <1>0, <1>4, <2>1, <2>2
<1> QED BY <1>3, <1>4

\* The total that a fork starts from.
StartsFrom(st, total, previous) ==
  IF st.totals = "last" \/ total = {} THEN previous = {}
  ELSE \E x \in SUBSET total : previous = {x} /\ (Ordered(st) => x = total)

LEMMA ForkTotals ==
  ASSUME NEW st, NEW tr, NEW total, NEW p, Counts(st, tr, Parent, p), total = Tok(run(p)),
         ParentLinesAre(st, total, p, FALSE),
         NEW S \in SUBSET (2 .. Len(p)),
         \A i \in 2 .. Len(p) : p[i].type = "token_count" => i \in S,
         NEW copies, InOrderOf(p, S, copies),
         NEW previous, LastTotal(copies, previous)
  PROVE  StartsFrom(st, total, previous)
<1> USE DEF StartsFrom
<1>1. /\ Len(copies) \in Nat
      /\ \A n \in 1 .. Len(copies) : \E i \in S : copies[n] = p[i] /\ Rank(S, i) = n
      /\ \A i \in S : Rank(S, i) \in 1 .. Len(copies) /\ copies[Rank(S, i)] = p[i]
      /\ \A i, k \in S : i < k => Rank(S, i) < Rank(S, k)
  BY DEF InOrderOf
<1>2. \A i \in 2 .. Len(p) : p[i].type = "token_count" => UsageTotal(st, total, p[i])
  BY DEF ParentLinesAre, ThreadLine
<1>3. Len(p) \in Nat
  BY Lengths DEF Counts
<1>4. CASE st.totals = "last" \/ total = {}
  <2>1. \A i \in 2 .. Len(p) : ~HasTotal(p[i])
    BY <1>2, <1>4 DEF UsageTotal, HasTotal
  <2>2. \A n \in 1 .. Len(copies) : ~HasTotal(copies[n])
    BY <1>1, <2>1
  <2> QED BY <1>4, <2>2 DEF LastTotal
<1>5. CASE st.totals # "last" /\ total # {}
  <2>1. \A i \in 2 .. Len(p) : p[i].type = "token_count" => HasTotal(p[i])
    BY <1>2, <1>5 DEF UsageTotal, HasTotal
  <2>2. PICK y : y \in total
    BY <1>5
  <2>3. PICK i \in 1 .. Len(p) : y \in Mentions(p[i])
    BY <2>2 DEF Counts
  <2>4. i \in 2 .. Len(p)
    BY <1>3, <2>3 DEF ParentLinesAre
  <2>5. HasTotal(p[i]) /\ i \in S
    <3>1. Mentions(p[i]) # {}
      BY <2>3
    <3>2. p[i].type = "token_count"
      BY <2>4, <3>1 DEF ParentLinesAre, ThreadLine
    <3> QED BY <2>1, <2>4, <3>2
  <2>6. HasTotal(copies[Rank(S, i)]) /\ Rank(S, i) \in 1 .. Len(copies)
    BY <1>1, <2>5
  <2>7. PICK n \in 1 .. Len(copies) :
          /\ HasTotal(copies[n]) /\ previous = copies[n].total
          /\ \A j \in n + 1 .. Len(copies) : ~HasTotal(copies[j])
    BY <2>6 DEF LastTotal
  <2>8. PICK k \in S : copies[n] = p[k] /\ Rank(S, k) = n
    BY <1>1
  <2>9. p[k].type = "token_count" /\ previous = p[k].total /\ k \in 2 .. Len(p)
    BY <2>7, <2>8 DEF HasTotal
  <2>10. PICK x \in SUBSET total : previous = {x}
    BY <1>2, <1>5, <2>9 DEF UsageTotal
  <2>11. ASSUME Ordered(st) PROVE x = total
    <3>1. \A j \in k + 1 .. Len(p) : p[j].type # "token_count"
      <4> SUFFICES ASSUME NEW j \in k + 1 .. Len(p), p[j].type = "token_count" PROVE FALSE
        OBVIOUS
      <4>1. j \in 2 .. Len(p) /\ k < j
        BY <1>3, <2>9
      <4>2. j \in S /\ HasTotal(p[j])
        BY <2>1, <4>1
      <4>3. n < Rank(S, j) /\ Rank(S, j) \in 1 .. Len(copies) /\ HasTotal(copies[Rank(S, j)])
        BY <1>1, <2>8, <4>1, <4>2
      <4> DEFINE m == Rank(S, j)
      <4>4. m \in n + 1 .. Len(copies)
        <5>1. n < m /\ m \in 1 .. Len(copies) /\ n \in 1 .. Len(copies)
          BY <4>3
        <5> HIDE DEF m
        <5> QED BY <1>1, <5>1
      <4> HIDE DEF m
      <4> QED BY <2>7, <4>3, <4>4 DEF m
    <3>2. k \in 1 .. Len(p)
      BY <1>3, <2>9
    <3>3. p[k].total = {Tok(run(p))}
      BY <2>9, <2>11, <3>1, <3>2 DEF Counts, ParentSays
    <3> QED BY <2>9, <2>10, <3>3
  <2> QED BY <1>5, <2>10, <2>11
<1> QED BY <1>4, <1>5

\* What a line of Parent's is, if it is copied.
LEMMA CopiedLines ==
  ASSUME NEW st, NEW tr, NEW total, NEW p, Counts(st, tr, Parent, p),
         ParentLinesAre(st, total, p, FALSE), NEW i \in 2 .. Len(p),
         IF st.embeds THEN p[i].type # "task_started" \/ st.nested
                      ELSE p[i].type = "token_count"
  PROVE  /\ CopyOf(st, tr, p[i])
         /\ p[i].type = "token_count" => UsageTotal(st, total, p[i])
<1>1. ThreadLine(st, Parent, total, p[i]) /\ EarlyLine(st, p[i])
  BY DEF ParentLinesAre
<1>2. i \in 1 .. Len(p)
  <2>1. Len(p) \in Nat
    BY Lengths DEF Counts
  <2> QED BY <2>1
<1>3. \A x \in Mentions(p[i]) : x \in DOMAIN tr /\ tr[x].thread = Parent
  BY <1>2 DEF Counts
<1> QED BY <1>1, <1>3 DEF CopyOf, ThreadLine

LEMMA LinesOf ==
  ASSUME NEW c, IsSeq(c), NEW T, \A i \in 1 .. Len(c) : c[i] \in T
  PROVE  c \in Seq(T)
<1>1. DOMAIN c = 1 .. Len(c) /\ Len(c) \in Nat
  BY Lengths
<1>2. PICK U : c \in Seq(U)
  BY DEF IsSeq
<1>3. c \in [1 .. Len(c) -> U]
  BY <1>2
<1>4. c \in [1 .. Len(c) -> T]
  BY <1>3
<1> QED BY <1>1, <1>4, SeqDef

LEMMA JoinedAre ==
  ASSUME NEW x, IsSeq(x), NEW y, IsSeq(y)
  PROVE  \A i \in 1 .. Len(x \o y) : \/ \E j \in 1 .. Len(x) : (x \o y)[i] = x[j]
                                     \/ \E j \in 1 .. Len(y) : (x \o y)[i] = y[j]
<1>1. PICK S : x \in Seq(S)
  BY DEF IsSeq
<1>2. PICK T : y \in Seq(T)
  BY DEF IsSeq
<1>3. x \in Seq(S \cup T) /\ y \in Seq(S \cup T)
  BY <1>1, <1>2, SeqMonotonic
<1> DEFINE z == x \o y
           a == Len(x)
           b == Len(y)
<1>4. /\ Len(z) = a + b
      /\ \A i \in 1 .. a + b : z[i] = IF i <= a THEN x[i] ELSE y[i - a]
  BY <1>3, ConcatProperties
<1>5. a \in Nat /\ b \in Nat
  BY <1>1, <1>2
<1> HIDE DEF z, a, b
<1>6. ASSUME NEW i \in 1 .. a + b
      PROVE  (\E j \in 1 .. a : z[i] = x[j]) \/ (\E j \in 1 .. b : z[i] = y[j])
  <2>1. i \in 1 .. a \/ (~(i <= a) /\ i - a \in 1 .. b)
    BY <1>5
  <2>2. CASE i \in 1 .. a
    <3>1. i <= a
      BY <1>5, <2>2
    <3> QED BY <1>4, <2>2, <3>1
  <2>3. CASE ~(i <= a) /\ i - a \in 1 .. b
    BY <1>4, <2>3
  <2> QED BY <2>1, <2>2, <2>3
<1> QED BY <1>4, <1>6 DEF z, a, b

\* The fork's thread, and its rollout: its name, and the copies.
ForkThread(st, th, forked) ==
  /\ forked.live /\ forked.turn = NoTurn /\ forked.total = th.total /\ forked.copied = th.total
  /\ forked.last = {} /\ ~forked.fast
ForkLines(st, p, q, S) ==
  \E meta, embedded, copies :
    /\ ForkName(st, meta)
    /\ embedded = IF st.embeds THEN <<p[1]>> ELSE <<>>
    /\ InOrderOf(p, S, copies)
    /\ q = (<<meta>> \o embedded) \o copies

LEMMA ChildForks ==
  ASSUME NEW st, Readable(st), st.embeds \in BOOLEAN,
         NEW tr, NEW th, NEW p, ParentFollows(st, tr, th, p, FALSE),
         NEW S, S = {i \in 2 .. Len(p) : IF st.embeds THEN p[i].type # "task_started" \/ st.nested
                                         ELSE p[i].type = "token_count"},
         NEW q, ForkLines(st, p, q, S), NEW forked, ForkThread(st, th, forked)
  PROVE  ChildFollows(st, tr, forked, q)
<1> DEFINE total == th.total
<1>0. Child # Parent
  BY DEF Child, Parent
<1>1. /\ Counts(st, tr, Parent, p) /\ ParentLinesAre(st, total, p, FALSE)
      /\ total = Tok(run(p))
      /\ p[1].type = "session_meta" /\ p[1].id = Parent /\ Mentions(p[1]) = {}
  BY DEF ParentFollows, Follows, ParentLinesAre
<1>2. PICK meta, embedded, copies :
        /\ ForkName(st, meta)
        /\ embedded = IF st.embeds THEN <<p[1]>> ELSE <<>>
        /\ InOrderOf(p, S, copies)
        /\ q = (<<meta>> \o embedded) \o copies
  BY DEF ForkLines
<1> DEFINE head == <<meta>> \o embedded
<1>3. ForkNamed(st, tr, head, Replaying(st))
  <2> DEFINE first == p[1]
  <2>1. Names(st, meta, first, head)
    BY <1>1, <1>2 DEF Names
  <2> HIDE DEF first, head
  <2> QED BY <2>1, HeadComes
<1>4. /\ S \in SUBSET (2 .. Len(p))
      /\ \A i \in 2 .. Len(p) : p[i].type = "token_count" => i \in S
      /\ \A i \in S : IF st.embeds THEN p[i].type # "task_started" \/ st.nested
                                   ELSE p[i].type = "token_count"
  OBVIOUS
<1> HIDE DEF head
<1>5. ASSUME NEW i \in S
      PROVE  /\ CopyOf(st, tr, p[i])
             /\ p[i].type = "token_count" => UsageTotal(st, total, p[i])
  <2> HIDE DEF total
  <2>1. i \in 2 .. Len(p)
    BY <1>4
  <2>2. IF st.embeds THEN p[i].type # "task_started" \/ st.nested
                     ELSE p[i].type = "token_count"
    BY <1>4
  <2> QED BY <1>1, <2>1, <2>2, CopiedLines
<1> DEFINE T == {copies[n] : n \in 1 .. Len(copies)}
<1>6. /\ \A l \in T : /\ CopyOf(st, tr, l)
                      /\ l.type = "token_count" => UsageTotal(st, total, l)
      /\ copies \in Seq(T) /\ IsSeq(copies)
  <2>1. IsSeq(copies) /\ \A n \in 1 .. Len(copies) : \E i \in S : copies[n] = p[i]
    BY <1>2 DEF InOrderOf
  <2>2. \A n \in 1 .. Len(copies) : copies[n] \in T
    OBVIOUS
  <2>3. copies \in Seq(T)
    <3> HIDE DEF T
    <3> QED BY <2>1, <2>2, LinesOf
  <2> HIDE DEF total
  <2> QED BY <1>5, <2>1, <2>3
<1>7. CopiesReadTo(st, tr, head, copies)
  <2>1. /\ Counts(st, tr, Child, head) /\ Copying(st, run(head))
        /\ run(head).s.previous = {} /\ run(head).s.baseline = {}
    BY <1>3 DEF ForkNamed, Copying, Replaying
  <2>2. \A l \in T : CopyOf(st, tr, l)
    BY <1>6
  <2> HIDE DEF T
  <2> QED BY <1>6, <2>1, <2>2, CopiesComes
<1>8. q = head \o copies
  BY <1>2 DEF head
<1> DEFINE r == run(q)
<1>9. /\ Counts(st, tr, Child, q) /\ Copying(st, r)
      /\ LastTotal(copies, r.s.previous) /\ r.s.baseline = r.s.previous
  BY <1>7, <1>8 DEF CopiesReadTo
<1>10. Tok(r) = {}
  <2>1. Size(r) = 0 /\ 1 .. 0 = {}
    BY <1>9 DEF Copying
  <2> HIDE DEF r
  <2> QED BY <2>1 DEF Tok
<1>11. StartsFrom(st, total, r.s.previous)
  <2> DEFINE previous == r.s.previous
  <2>1. LastTotal(copies, previous) /\ InOrderOf(p, S, copies)
    BY <1>2, <1>9
  <2> HIDE DEF previous, total
  <2>2. StartsFrom(st, total, previous)
    BY <1>1, <1>4, <2>1, ForkTotals
  <2> QED BY <2>2 DEF previous
<1>12. ChildTotals(st, forked, r)
  <2>1. forked.total = total
    BY DEF ForkThread
  <2> HIDE DEF r, total
  <2> QED BY <1>9, <1>10, <1>11, <2>1 DEF ChildTotals, StartsFrom
<1>13. ChildLinesAre(st, total, q)
  <2>1. IsSeq(head) /\ IsSeq(q)
    BY <1>3, <1>9 DEF ForkNamed, Counts
  <2>2. \A j \in 1 .. Len(head) : head[j].type = "session_meta"
    <3> DEFINE one == <<meta>>
    <3>1. IsSeq(one) /\ IsSeq(embedded)
      BY <1>2, ShortSeqs
    <3>2. \A j \in 1 .. Len(one) : one[j].type = "session_meta"
      BY <1>2 DEF ForkName
    <3>3. \A j \in 1 .. Len(embedded) : embedded[j].type = "session_meta"
      <4> DEFINE first == p[1]
      <4>1. first.type = "session_meta" /\ embedded = IF st.embeds THEN <<first>> ELSE <<>>
        BY <1>1, <1>2
      <4> HIDE DEF first
      <4>2. 1 .. Len(<<>>) = {}
        OBVIOUS
      <4> QED BY <4>1, <4>2
    <3>4. head = one \o embedded
      BY DEF head
    <3> HIDE DEF one
    <3>5. \A i \in 1 .. Len(head) : \/ \E j \in 1 .. Len(one) : head[i] = one[j]
                                    \/ \E j \in 1 .. Len(embedded) : head[i] = embedded[j]
      BY <3>1, <3>4, JoinedAre
    <3> QED BY <3>2, <3>3, <3>5
  <2>3. \A i \in 1 .. Len(q) : \/ \E j \in 1 .. Len(head) : q[i] = head[j]
                               \/ \E j \in 1 .. Len(copies) : q[i] = copies[j]
    BY <1>6, <1>8, <2>1, JoinedAre
  <2>4. \A j \in 1 .. Len(copies) : copies[j].type = "token_count" => UsageTotal(st, total, copies[j])
    BY <1>6
  <2> HIDE DEF total
  <2> QED BY <2>1, <2>2, <2>3, <2>4 DEF ChildLinesAre
<1>14. \A x \in total : x \in DOMAIN tr /\ tr[x].thread = Parent
  <2>1. RowsOK(st, tr, Parent, run(p))
    BY <1>1 DEF Counts
  <2>2. \A x \in Tok(run(p)) : x \in DOMAIN tr /\ tr[x].thread = Parent
    BY <2>1 DEF RowsOK, RowOK, Tok
  <2> QED BY <1>1, <2>2
<1> QED BY <1>9, <1>12, <1>13, <1>14 DEF ChildFollows, ForkThread

LEMMA ForkCounts ==
  ASSUME WorldOK, WorldCounts, Readable(style), Fork
  PROVE  WorldCounts'
<1> DEFINE copied(l) == IF style.embeds THEN l.type # "task_started" \/ style.nested
                        ELSE l.type = "token_count"
           p == log[Parent]
           th == thread[Parent]
           S == {i \in 2 .. Len(p) : copied(p[i])}
           copies == ParentLines(S)
           meta == [Line EXCEPT !.type = "session_meta", !.id = Child, !.from = Parent,
                                !.user = style.user]
           embedded == IF style.embeds THEN <<p[1]>> ELSE <<>>
           lines == (<<meta>> \o embedded) \o copies
           q == log'[Child]
           forked == thread'[Child]
<1>0. /\ Threads = {Parent, Child} /\ Parent # Child
      /\ thread \in [Threads -> Thread] /\ IsSeq(p) /\ style.embeds \in BOOLEAN
  <2>1. style \in Style
    BY TheThreads
  <2> QED BY <2>1, TheThreads DEF Style
<1>1. /\ Write(Child, lines)
      /\ thread' = [thread EXCEPT ![Child] =
                      [NoThread EXCEPT !.live = TRUE, !.total = th.total, !.copied = th.total]]
      /\ ~Forked /\ UNCHANGED <<turns, truth, mirror>>
  BY Zenon DEF Fork
<1>2. log'[Child] = log[Child] \o lines /\ log'[Parent] = p /\ style' = style
  <2> HIDE DEF lines
  <2> QED BY <1>0, <1>1, WrittenTo
<1>3. ForkThread(style, th, forked) /\ thread'[Parent] = th
  <2> HIDE DEF th
  <2> QED BY <1>0, <1>1 DEF ForkThread, NoThread, th
<1>4. ParentFollows(style, truth, th, p, FALSE) /\ ParentFollows(style, truth, th, p, TRUE)
  <2>1. thread[Child].live = FALSE
    BY <1>0, <1>1 DEF Forked, Thread
  <2>2. ParentFollows(style, truth, th, p, FALSE)
    BY <2>1 DEF WorldCounts
  <2>3. ParentLinesAre(style, th.total, p, TRUE)
    BY <2>2, TotalsGrow DEF ParentFollows
  <2> QED BY <2>2, <2>3 DEF ParentFollows
<1>5. log[Child] = <<>> /\ thread[Child].turn = NoTurn
  BY <1>1 DEF WorldCounts, ChildFollows, Forked, NoThread
<1>6. InOrderOf(p, S, copies)
  <2>1. Len(p) \in Nat
    BY <1>0, Lengths
  <2>2. S \in SUBSET Nat /\ S \in SUBSET (2 .. Len(p))
    BY <2>1
  <2>3. IsFiniteSet(S)
    <3>1. IsFiniteSet(2 .. Len(p))
      BY <2>1, FS_Interval
    <3> HIDE DEF S
    <3> QED BY <2>2, <3>1, FS_Subset
  <2> HIDE DEF S
  <2> QED BY <2>2, <2>3, LinesInOrder
<1>7. ForkName(style, meta)
  <2>1. /\ meta.type = "session_meta" /\ meta.id = Child /\ meta.from = Parent
        /\ meta.user = style.user /\ meta.total = {} /\ meta.last = {}
    BY DEF Line
  <2> HIDE DEF meta
  <2> QED BY <2>1 DEF ForkName, Mentions
<1>8. q = lines
  <2>1. IsSeq(<<meta>>) /\ IsSeq(embedded) /\ IsSeq(copies)
    BY <1>6, ShortSeqs DEF InOrderOf
  <2>2. IsSeq(lines)
    <3> DEFINE one == <<meta>>
    <3> HIDE DEF meta, embedded, copies, one
    <3>1. IsSeq(one \o embedded)
      BY <2>1, JoinedSeq DEF one
    <3> QED BY <2>1, <3>1, JoinedSeq DEF one
  <2> HIDE DEF lines
  <2>3. <<>> \o lines = lines
    <3>1. PICK U : lines \in Seq(U)
      BY <2>2 DEF IsSeq
    <3> QED BY <3>1, ConcatEmptySeq
  <2> QED BY <1>2, <1>5, <2>3
<1> HIDE DEF meta, embedded, copies
<1>9. ForkLines(style, p, q, S)
  <2>1. embedded = IF style.embeds THEN <<p[1]>> ELSE <<>>
    BY DEF embedded
  <2> HIDE DEF S, q, p
  <2> QED BY <1>6, <1>7, <1>8, <2>1 DEF ForkLines
<1>10. ChildFollows(style, truth, forked, q)
  <2>1. S = {i \in 2 .. Len(p) : IF style.embeds THEN p[i].type # "task_started" \/ style.nested
                                 ELSE p[i].type = "token_count"}
    OBVIOUS
  <2> HIDE DEF S, q, p, th, forked
  <2> QED BY <1>0, <1>3, <1>4, <1>9, <2>1, ChildForks
<1>11. TurnsAre(truth, thread', turns)
  <2>1. \A u \in Threads : thread'[u].turn = thread[u].turn
    BY <1>0, <1>3, <1>5 DEF ForkThread
  <2>2. TurnsAre(truth, thread, turns)
    BY DEF WorldCounts
  <2> QED BY <1>0, <2>1, <2>2 DEF TurnsAre
<1>12. forked.live <=> TRUE
  BY <1>3 DEF ForkThread
<1>13. ParentFollows(style, truth, thread'[Parent], log'[Parent], forked.live)
  <2>1. ParentFollows(style, truth, thread'[Parent], log'[Parent], TRUE)
    BY <1>2, <1>3, <1>4
  <2> HIDE DEF forked
  <2> QED BY <1>12, <2>1 DEF ParentFollows, ParentLinesAre
<1> QED BY <1>1, <1>2, <1>10, <1>11, <1>13 DEF WorldCounts

LEMMA ParentBegins ==
  ASSUME NEW st, NEW tr, NEW l, l.type = "session_meta", l.id = Parent, l.from = 0,
         Mentions(l) = {}, NEW th, th.live, th.turn = NoTurn, th.total = {}, th.copied = {},
         th.last = {}, ~th.fast, NEW forked
  PROVE  ParentFollows(st, tr, th, Append(<<>>, l), forked)
<1> DEFINE p == Append(<<>>, l)
           r == run(p)
           s == session_meta(FreshState, l)
<1>0. Parent # 0
  BY DEF Parent
<1>1. /\ IsState(s) /\ ~s.waiting /\ s.child = 0 /\ s.meta = Parent /\ ~s.selected
      /\ ~s.announced /\ s.previous = {} /\ s.baseline = {} /\ s.coverage = {}
  <2> DEFINE f == FreshState
             a == f.owned \/ l.openclaw
             b == f.selected /\ ~(f.meta # l.id)
             c == f.fast /\ ~(f.meta # l.id)
  <2>1. /\ IsState(f) /\ ~f.waiting /\ f.child = 0 /\ f.previous = {} /\ f.baseline = {}
        /\ f.coverage = {} /\ ~f.announced /\ ~b /\ ~c
    BY DEF FreshState, IsState, StateFields
  <2>2. s = [f EXCEPT !.owned = a, !.selected = b, !.fast = c, !.meta = Parent]
    BY Zenon DEF session_meta
  <2> HIDE DEF f, s, a, b, c
  <2> QED BY <2>1, <2>2 DEF IsState, StateFields
<1>2. /\ Counts(st, tr, Parent, p) /\ r.s = s /\ Tok(r) = {}
  <2>1. s = session_meta(FreshState, l)
    OBVIOUS
  <2> HIDE DEF s
  <2> QED BY <1>1, <2>1, NamedRead
<1>3. IsSeq(p) /\ Len(p) = 1 /\ p[1] = l
  <2>1. IsSeq(<<>>) /\ Len(<<>>) = 0 /\ 0 + 1 = 1
    BY ShortSeqs
  <2> DEFINE none == <<>>
  <2> HIDE DEF none
  <2>0. IsSeq(none)
    BY <2>1 DEF none
  <2>2. IsSeq(Append(none, l)) /\ Len(Append(none, l)) = Len(none) + 1
        /\ Append(none, l)[Len(none) + 1] = l
    BY <2>0, AppendedLine
  <2> QED BY <2>1, <2>2 DEF none
<1> HIDE DEF s, r, p
<1>4. Follows(st, tr, Parent, th, r)
  BY <1>0, <1>1, <1>2 DEF Follows
<1>5. ParentLinesAre(st, th.total, p, forked)
  BY <1>3 DEF ParentLinesAre
<1> QED BY <1>2, <1>4, <1>5 DEF ParentFollows, p, r

LEMMA InitCounts == Init => WorldCounts
<1> SUFFICES ASSUME Init PROVE WorldCounts
  OBVIOUS
<1> DEFINE l == [Line EXCEPT !.type = "session_meta", !.id = Parent,
                             !.openclaw = style.originator]
<1>0. Child # Parent /\ Parent \in Threads /\ Child \in Threads /\ Threads = {Parent, Child}
  BY DEF Child, Parent, Threads
<1>1. /\ l.type = "session_meta" /\ l.id = Parent /\ l.from = 0
      /\ l.total = {} /\ l.last = {}
  BY DEF Line
<1>2. log[Parent] = <<l>> /\ log[Child] = <<>> /\ truth = <<>> /\ mirror = {} /\ turns = 0
  BY <1>0 DEF Init
<1>3. /\ thread[Parent].live /\ thread[Parent].turn = NoTurn /\ thread[Parent].total = {}
      /\ thread[Parent].copied = {} /\ thread[Parent].last = {} /\ ~thread[Parent].fast
      /\ thread[Child] = NoThread /\ thread[Child].turn = NoTurn
  <2>1. thread[Parent] = [NoThread EXCEPT !.live = (Parent = Parent)]
        /\ thread[Child] = [NoThread EXCEPT !.live = (Child = Parent)]
    BY <1>0 DEF Init
  <2>2. (Child = Parent) = FALSE
    BY <1>0
  <2> QED BY <2>1, <2>2 DEF NoThread
<1> HIDE DEF l
<1>4. Mentions(l) = {}
  BY <1>1 DEF Mentions
<1>5. ParentFollows(style, truth, thread[Parent], log[Parent], thread[Child].live)
  <2>1. <<l>> = Append(<<>>, l)
    OBVIOUS
  <2> QED BY <1>1, <1>2, <1>3, <1>4, <2>1, ParentBegins
<1>6. ChildFollows(style, truth, thread[Child], log[Child])
  BY <1>2, <1>3, NothingRead DEF ChildFollows, NoThread
<1>7. DOMAIN truth = {}
  BY <1>2
<1>8. TurnsAre(truth, thread, turns)
  BY <1>0, <1>3, <1>7 DEF TurnsAre
<1>9. MirrorsAre(style, truth, mirror)
  BY <1>2 DEF MirrorsAre
<1> QED BY <1>5, <1>6, <1>8, <1>9 DEF WorldCounts

-----------------------------------------------------------------------------
(* A scan counts rollouts as they were when they were read                  *)

PastCounts == \A t \in Threads : Counts(style, truth, t, outcome[t].lines)

\* Codex does not write between what a scan counts and its end.
LEMMA CodexIsQuiet ==
  ASSUME WorldOK, Codex
  PROVE  /\ at # "counted" /\ UNCHANGED scan /\ style' = style
         /\ truth' = truth \/ \E fact : truth' = Append(truth, fact)
<1>0. Child \in Threads
  BY DEF Threads
<1>1. ASSUME NEW t \in Threads, NEW lines, Write(t, lines)
      PROVE  at # "counted" /\ UNCHANGED scan /\ style' = style
  BY <1>1, WrittenTo DEF scan
<1>2. ASSUME NEW t \in Threads, BeginTurn(t) \/ Respond(t) \/ Repeat(t) \/ Select(t)
      PROVE  /\ \E lines : Write(t, lines)
             /\ truth' = truth \/ \E fact : truth' = Append(truth, fact)
  <2>1. CASE BeginTurn(t)
    BY <2>1, Zenon DEF BeginTurn
  <2>2. CASE Respond(t)
    BY <2>2, Zenon DEF Respond
  <2>3. CASE Repeat(t)
    BY <2>3, Zenon DEF Repeat
  <2>4. CASE Select(t)
    BY <2>4, Zenon DEF Select
  <2> QED BY <1>2, <2>1, <2>2, <2>3, <2>4
<1>3. ASSUME Fork \/ CopyLate PROVE (\E lines : Write(Child, lines)) /\ truth' = truth
  <2>1. CASE Fork
    BY <2>1, Zenon DEF Fork
  <2>2. CASE CopyLate
    BY <2>2, Zenon DEF CopyLate
  <2> QED BY <1>3, <2>1, <2>2
<1>4. ASSUME RollBack \/ Mirror
      PROVE  at # "counted" /\ UNCHANGED scan /\ style' = style /\ truth' = truth
  BY <1>4 DEF RollBack, Mirror
<1> QED BY <1>0, <1>1, <1>2, <1>3, <1>4, Zenon DEF Codex

LEMMA PastStays ==
  ASSUME WorldOK, PastCounts, Codex
  PROVE  PastCounts'
<1>1. outcome' = outcome /\ style' = style
  BY CodexIsQuiet DEF scan
<1>2. CASE truth' = truth
  BY <1>1, <1>2 DEF PastCounts
<1>3. ASSUME NEW fact, truth' = Append(truth, fact) PROVE PastCounts'
  <2>1. IsSeq(truth)
    BY DEF WorldOK
  <2> DEFINE later == truth'
             new == Len(truth) + 1
  <2>2. Learns(truth, fact, later, new)
    BY <1>3 DEF Learns
  <2> HIDE DEF later, new
  <2>3. Grows(truth, later, new)
    BY <2>1, <2>2, NewTruth
  <2>4. \A t \in Threads : Counts(style, later, t, outcome[t].lines)
    BY <2>3 DEF Grows, PastCounts
  <2> QED BY <1>1, <2>4 DEF PastCounts, later
<1> QED BY <1>2, <1>3, CodexIsQuiet

LEMMA NothingWasRead ==
  ASSUME style' = style, truth' = truth, \A t \in Threads : outcome'[t].lines = <<>>
  PROVE  PastCounts'
BY NothingRead DEF PastCounts

LEMMA ScanPast ==
  ASSUME CodexInv, WorldCounts, PastCounts, Scan
  PROVE  WorldCounts' /\ PastCounts'
<1>1. UNCHANGED world
  BY Zenon DEF Scan, StartScan, load_or_parse_codex_source, Build, Count, Stop
<1>2. /\ style' = style /\ log' = log /\ thread' = thread /\ turns' = turns /\ truth' = truth
      /\ mirror' = mirror
  BY <1>1 DEF world
<1>3. WorldCounts'
  BY <1>2 DEF WorldCounts
<1>4. CASE StartScan
  <2> DEFINE todo == [NotRead EXCEPT !.at = "todo"]
  <2>1. outcome' = [t \in Threads |-> IF Exists(t) THEN todo ELSE NotRead]
    BY <1>4 DEF StartScan
  <2>2. todo.lines = <<>> /\ NotRead.lines = <<>>
    BY NotReadOK
  <2> HIDE DEF todo
  <2>3. \A t \in Threads : outcome'[t].lines = <<>>
    BY <2>1, <2>2
  <2> QED BY <1>2, <1>3, <2>3, NothingWasRead
<1>5. ASSUME NEW t \in Threads, load_or_parse_codex_source(t) \/ Build(t)
      PROVE  PastCounts'
  <2>1. IsSeq(log[t]) /\ OutcomeOK(outcome[t]) /\ EntriesOK(cache[t])
    BY DEF CodexInv, WorldOK, ScanOK
  <2>2. \E q : outcome' = [outcome EXCEPT ![t] = q] /\ q.lines \in {outcome[t].lines, log[t]}
    <3>1. CASE load_or_parse_codex_source(t)
      BY <2>1, <3>1, LoadedOutcome
    <3>2. CASE Build(t)
      BY <2>1, <3>2, BuiltOutcome
    <3> QED BY <1>5, <3>1, <3>2
  <2>3. PICK q : outcome' = [outcome EXCEPT ![t] = q] /\ q.lines \in {outcome[t].lines, log[t]}
    BY <2>2
  <2>4. Counts(style, truth, t, log[t])
    BY TheThreads DEF CodexInv, WorldCounts, ParentFollows, ChildFollows
  <2>5. outcome = [u \in Threads |-> outcome[u]]
    BY DEF CodexInv, ScanOK
  <2>6. Counts(style, truth, t, q.lines)
    BY <2>3, <2>4 DEF PastCounts
  <2>7. outcome'[t] = q /\ \A u \in Threads \ {t} : outcome'[u] = outcome[u]
    BY <2>3, <2>5
  <2> QED BY <1>2, <2>6, <2>7 DEF PastCounts
<1>6. CASE Count
  <2> DEFINE q == [outcome[Parent] EXCEPT !.rows = mirror]
  <2>1. outcome' = [outcome EXCEPT ![Parent] = q]
    BY <1>6, Zenon DEF Count
  <2>2. Parent \in Threads
    BY DEF Threads
  <2>3. q.lines = outcome[Parent].lines
    <3>1. IsOutcome(outcome[Parent])
      BY <2>2 DEF CodexInv, ScanOK, OutcomeOK
    <3> QED BY <3>1 DEF IsOutcome, OutcomeFields
  <2> HIDE DEF q
  <2>4. outcome = [u \in Threads |-> outcome[u]]
    BY DEF CodexInv, ScanOK
  <2>5. \A u \in Threads : outcome'[u].lines = outcome[u].lines
    BY <2>1, <2>2, <2>3, <2>4
  <2> QED BY <1>2, <1>3, <2>5 DEF PastCounts
<1>7. CASE Stop
  <2>1. outcome' = [t \in Threads |-> NotRead]
    BY <1>7 DEF Stop
  <2>2. NotRead.lines = <<>>
    BY NotReadOK
  <2> HIDE DEF NotRead
  <2>3. \A t \in Threads : outcome'[t].lines = <<>>
    BY <2>1, <2>2
  <2> QED BY <1>2, <1>3, <2>3, NothingWasRead
<1> QED BY <1>3, <1>4, <1>5, <1>6, <1>7 DEF Scan

LEMMA NoneWaits ==
  ASSUME NEW r, RunOK(r)
  PROVE  flush_pending_model_messages_as_unknown(r).pending = <<>>
<1>1. CASE r.pending = <<>>
  BY <1>1, Zenon DEF flush_pending_model_messages_as_unknown
<1>2. CASE r.pending # <<>>
  <2> DEFINE f == flush_pending_model_messages(r, {})
  <2>1. flush_pending_model_messages_as_unknown(r) = [f EXCEPT !.unresolved = TRUE]
    BY <1>2, Zenon DEF flush_pending_model_messages_as_unknown
  <2>2. f.pending = <<>> /\ IsRun(f)
    BY FlushKeeps DEF Keeps, RunOK
  <2> HIDE DEF f
  <2> QED BY <2>1, <2>2 DEF IsRun, RunFields
<1> QED BY <1>1, <1>2

\* The messages ms of a thread, and the turns its parser knows.
MessagesAre(st, tr, t, p, ms, coverage) ==
  /\ AreRows(ms) /\ Len(ms) \in Nat /\ DOMAIN ms = 1 .. Len(ms)
  /\ \A i \in 1 .. Len(ms) : RowOK(st, tr, t, ms[i])
  /\ \A j \in 1 .. Len(ms) : \A i \in 1 .. j - 1 : InTurn(tr, ms[i], ms[j])
  /\ Tok(run(p)) = UNION {ms[i].tokens : i \in 1 .. Len(ms)}
  /\ coverage = run(p).s.coverage

LEMMA ParsedMessages ==
  ASSUME NEW st, NEW tr, NEW t, NEW p, Counts(st, tr, t, p), NEW full, full = FullParse(p)
  PROVE  MessagesAre(st, tr, t, p, full.messages, full.s.coverage)
<1> DEFINE r == run(p)
           ms == full.messages
<1>1. full = flush_pending_model_messages_as_unknown(r)
  BY Zenon DEF FullParse, parse_codex_reader, run
<1>2. RunOK(r) /\ RowsOK(st, tr, t, r)
  BY DEF Counts
<1>3. Keeps(r, full) /\ full.s = r.s /\ full.pending = <<>>
  BY <1>1, <1>2, FlushKeeps, NoneWaits
<1>4. RunOK(full) /\ RowsOK(st, tr, t, full) /\ Tok(full) = Tok(r)
  BY <1>2, <1>3, KeptRows DEF Keeps
<1>5. AreRows(ms) /\ Len(ms) \in Nat /\ DOMAIN ms = 1 .. Len(ms)
  BY <1>4, Lengths DEF RunOK, AreRows
<1>6. Size(full) = Len(ms)
  <2>1. Len(full.pending) = 0
    BY <1>3, NoRows
  <2> DEFINE n == Len(ms)
  <2>2. Size(full) = n + 0
    BY <2>1 DEF Size
  <2> HIDE DEF n
  <2> QED BY <1>5, <2>2 DEF n
<1>7. \A i \in 1 .. Len(ms) : Row(full, i) = ms[i]
  <2> SUFFICES ASSUME NEW i \in 1 .. Len(ms) PROVE Row(full, i) = ms[i]
    OBVIOUS
  <2>1. i <= Len(ms)
    BY <1>5
  <2> QED BY <2>1 DEF Row
<1> HIDE DEF ms, r
<1>8. \A i \in 1 .. Len(ms) : RowOK(st, tr, t, ms[i])
  BY <1>4, <1>6, <1>7 DEF RowsOK
<1>9. ASSUME NEW j \in 1 .. Len(ms), NEW i \in 1 .. j - 1 PROVE InTurn(tr, ms[i], ms[j])
  <2>1. i \in 1 .. Len(ms)
    BY <1>5
  <2>2. InTurn(tr, Row(full, i), Row(full, j))
    BY <1>4, <1>6 DEF RowsOK
  <2> QED BY <1>7, <2>1, <2>2
<1>10. Tok(full) = UNION {ms[i].tokens : i \in 1 .. Len(ms)}
  BY <1>6, <1>7 DEF Tok
<1> QED BY <1>3, <1>4, <1>5, <1>8, <1>9, <1>10 DEF MessagesAre, r, ms

-----------------------------------------------------------------------------
(* The rows of both rollouts, in the order they are counted in              *)

\* The rows of a thread, and whose they are said to be.
OwnedBy(ms, also) == [i \in DOMAIN ms |-> [ms[i] EXCEPT !.owned = @ \/ also]]

LEMMA OwnedMessages ==
  ASSUME NEW st, NEW tr, NEW t, NEW p, NEW ms, NEW coverage,
         MessagesAre(st, tr, t, p, ms, coverage), NEW also
  PROVE  MessagesAre(st, tr, t, p, OwnedBy(ms, also), coverage)
<1> DEFINE f(i) == [ms[i] EXCEPT !.owned = @ \/ also]
           n == Len(ms)
           x == OwnedBy(ms, also)
<1>1. /\ AreRows(ms) /\ n \in Nat /\ DOMAIN ms = 1 .. n
      /\ \A i \in 1 .. n : RowOK(st, tr, t, ms[i])
      /\ \A j \in 1 .. n : \A i \in 1 .. j - 1 : InTurn(tr, ms[i], ms[j])
      /\ Tok(run(p)) = UNION {ms[i].tokens : i \in 1 .. n}
      /\ coverage = run(p).s.coverage
  BY DEF MessagesAre
<1>2. \A i \in 1 .. n : IsRow(f(i)) /\ SameRow(ms[i], f(i))
  BY <1>1 DEF AreRows, IsRow, RowFields, SameRow
<1>3. x = [i \in 1 .. n |-> f(i)]
  BY <1>1 DEF OwnedBy
<1> HIDE DEF f, n, x
<1>4. x \in [1 .. n -> {x[i] : i \in 1 .. n}] /\ DOMAIN x = 1 .. n
  BY <1>3
<1>5. x \in Seq({x[i] : i \in 1 .. n})
  BY <1>1, <1>4, SeqDef
<1>6. Len(x) = n
  BY <1>1, <1>4, <1>5, LenProperties
<1>7. IsSeq(x)
  BY <1>5, Zenon DEF IsSeq
<1>8. \A i \in 1 .. n : IsRow(x[i]) /\ SameRow(ms[i], x[i])
  BY <1>2, <1>3
<1>9. \A i \in 1 .. n : RowOK(st, tr, t, x[i])
  BY <1>1, <1>8, SameRows
<1>10. ASSUME NEW j \in 1 .. n, NEW i \in 1 .. j - 1 PROVE InTurn(tr, x[i], x[j])
  <2>1. i \in 1 .. n
    BY <1>1
  <2>2. InTurn(tr, ms[i], ms[j])
    BY <1>1
  <2> QED BY <1>8, <2>1, <2>2, SameRows
<1>11. Tok(run(p)) = UNION {x[i].tokens : i \in 1 .. n}
  BY <1>1, <1>8 DEF SameRow
<1> QED BY <1>1, <1>4, <1>6, <1>7, <1>8, <1>9, <1>10, <1>11 DEF MessagesAre, AreRows, x

\* The rows of both threads: each is a response of one of them, and none could
\* be taken for one before it.
RowsAre(st, tr, a, b, ms) ==
  /\ Len(ms) \in Nat /\ DOMAIN ms = 1 .. Len(ms)
  /\ \A i \in 1 .. Len(ms) : \E t \in Threads : RowOK(st, tr, t, ms[i])
  /\ \A j \in 1 .. Len(ms) : \A i \in 1 .. j - 1 : InTurn(tr, ms[i], ms[j])
  /\ Tok(run(a)) \cup Tok(run(b)) = UNION {ms[i].tokens : i \in 1 .. Len(ms)}
  /\ \A x \in Tok(run(b)) : x \in DOMAIN tr /\ tr[x].thread = Child

TurnsOfOne(tr) ==
  \A x, y \in DOMAIN tr : tr[x].turn = tr[y].turn => tr[x].thread = tr[y].thread

LEMMA OfTwoThreads ==
  ASSUME NEW st, NEW tr, TurnsOfOne(tr), NEW m, RowOK(st, tr, Parent, m),
         NEW later, RowOK(st, tr, Child, later)
  PROVE  InTurn(tr, m, later)
<1>0. Parent # Child
  BY DEF Parent, Child
<1>1. PICK x \in DOMAIN tr : m.tokens = {x} /\ tr[x].thread = Parent
                             /\ \A y \in m.key[4] : tr[y].thread = Parent
  BY DEF RowOK
<1>2. PICK y \in DOMAIN tr : later.tokens = {y} /\ tr[y].thread = Child
  BY DEF RowOK
<1> QED BY <1>0, <1>1, <1>2 DEF TurnsOfOne, InTurn

LEMMA RowsOfBoth ==
  ASSUME NEW st, NEW tr, TurnsOfOne(tr),
         NEW a, NEW x, NEW ca, MessagesAre(st, tr, Parent, a, x, ca),
         NEW b, NEW y, NEW cb, MessagesAre(st, tr, Child, b, y, cb)
  PROVE  RowsAre(st, tr, a, b, x \o y)
<1> DEFINE z == x \o y
           m == Len(x)
           n == Len(y)
<1>1. /\ AreRows(x) /\ m \in Nat /\ \A i \in 1 .. m : RowOK(st, tr, Parent, x[i])
      /\ \A j \in 1 .. m : \A i \in 1 .. j - 1 : InTurn(tr, x[i], x[j])
      /\ Tok(run(a)) = UNION {x[i].tokens : i \in 1 .. m}
  BY DEF MessagesAre
<1>2. /\ AreRows(y) /\ n \in Nat /\ \A i \in 1 .. n : RowOK(st, tr, Child, y[i])
      /\ \A j \in 1 .. n : \A i \in 1 .. j - 1 : InTurn(tr, y[i], y[j])
      /\ Tok(run(b)) = UNION {y[i].tokens : i \in 1 .. n}
  BY DEF MessagesAre
<1>3. /\ AreRows(z) /\ Len(z) = m + n
      /\ \A i \in 1 .. m + n : z[i] = IF i <= m THEN x[i] ELSE y[i - m]
  BY <1>1, <1>2, JoinedRows
<1> HIDE DEF z, m, n
<1>4. Len(z) \in Nat /\ DOMAIN z = 1 .. Len(z)
  BY <1>3, Lengths DEF AreRows
<1>5. \A i \in 1 .. m : i \in 1 .. m + n /\ z[i] = x[i]
  BY <1>1, <1>2, <1>3
<1>6. \A i \in 1 .. n : m + i \in 1 .. m + n /\ z[m + i] = y[i]
  <2> TAKE i \in 1 .. n
  <2>1. m + i \in 1 .. m + n /\ ~(m + i <= m) /\ m + i - m = i
    BY <1>1, <1>2
  <2> DEFINE k == m + i
  <2>2. k \in 1 .. m + n /\ ~(k <= m) /\ k - m = i
    BY <1>1, <1>2
  <2> HIDE DEF k
  <2>3. z[k] = y[i]
    BY <1>3, <2>2
  <2> QED BY <2>1, <2>3 DEF k
<1>7. \A j \in 1 .. m + n : j \in 1 .. m \/ \E i \in 1 .. n : j = m + i
  <2> TAKE j \in 1 .. m + n
  <2>1. j \in 1 .. m \/ (j - m \in 1 .. n /\ j = m + (j - m))
    BY <1>1, <1>2
  <2> QED BY <2>1
<1>8. \A i \in 1 .. m + n : \E t \in Threads : RowOK(st, tr, t, z[i])
  BY <1>1, <1>2, <1>5, <1>6, <1>7 DEF Threads
<1>9. ASSUME NEW j \in 1 .. m + n, NEW i \in 1 .. j - 1 PROVE InTurn(tr, z[i], z[j])
  <2>1. CASE j \in 1 .. m
    <3>1. i \in 1 .. m
      BY <1>1, <2>1
    <3> QED BY <1>1, <1>5, <2>1, <3>1
  <2>2. ASSUME NEW l \in 1 .. n, j = m + l PROVE InTurn(tr, z[i], z[j])
    <3>1. CASE i \in 1 .. m
      BY <1>1, <1>2, <1>5, <1>6, <2>2, <3>1, OfTwoThreads
    <3>2. CASE i \notin 1 .. m
      <4>1. i - m \in 1 .. l - 1 /\ i - m \in 1 .. n /\ i = m + (i - m)
        BY <1>1, <1>2, <2>2, <3>2
      <4> DEFINE k == i - m
      <4>2. k \in 1 .. l - 1 /\ k \in 1 .. n /\ i = m + k
        BY <4>1
      <4> HIDE DEF k
      <4> QED BY <1>2, <1>6, <2>2, <4>2
    <3> QED BY <3>1, <3>2
  <2> QED BY <1>7, <2>1, <2>2
<1>10. Tok(run(a)) \cup Tok(run(b)) = UNION {z[i].tokens : i \in 1 .. m + n}
  BY <1>1, <1>2, <1>5, <1>6, <1>7
<1>11. \A r \in Tok(run(b)) : r \in DOMAIN tr /\ tr[r].thread = Child
  <2> TAKE r \in Tok(run(b))
  <2>1. PICK i \in 1 .. n : r \in y[i].tokens
    BY <1>2
  <2>2. RowOK(st, tr, Child, y[i])
    BY <1>2
  <2> QED BY <2>1, <2>2 DEF RowOK
<1> QED BY <1>3, <1>4, <1>8, <1>9, <1>10, <1>11 DEF RowsAre, z

\* None of them has the key of another.
LEMMA AllKept ==
  ASSUME NEW st, NEW tr, NEW a, NEW b, NEW ms, RowsAre(st, tr, a, b, ms),
         NEW i \in 1 .. Len(ms), NEW j \in 1 .. i - 1
  PROVE  ms[j].key # ms[i].key
<1>1. PICK t \in Threads : RowOK(st, tr, t, ms[i])
  BY DEF RowsAre
<1>2. PICK x : ms[i].tokens = {x} /\ x \in ms[i].key[4]
  BY <1>1 DEF RowOK
<1>3. ms[i].tokens \cap ms[j].key[4] = {}
  BY DEF RowsAre, InTurn
<1> QED BY <1>2, <1>3

-----------------------------------------------------------------------------
(* What is counted                                                          *)

\* Every row of ms, and the rows of the mirror.
Places(ms, rows) == ({"rollout"} \X (1 .. Len(ms))) \cup ({"mirror"} \X rows)
CountedOf(ms, rows) ==
  [place \in Places(ms, rows) |->
     IF place[1] = "rollout" THEN ms[place[2]] ELSE MirrorMessage(place[2])]

MirrorRow(st, tr, x) == [turn |-> NameIn(st, tr[x].turn), tokens |-> {x}]

\* Rows of the mirror that no row of ms counts.
Uncounted(st, tr, ms, rows) ==
  \A row \in rows : \E x \in DOMAIN tr :
    /\ tr[x].thread = Parent /\ row = MirrorRow(st, tr, x)
    /\ \A i \in 1 .. Len(ms) : x \notin ms[i].tokens

\* A message is one response, its speed (in a rollout) and its prompt that of the
\* response, and no other message is.
Settled(st, tr, c) ==
  /\ \A a \in DOMAIN c : \E x \in DOMAIN tr :
       /\ c[a].tokens = {x}
       /\ a[1] = "rollout" => (c[a].fast <=> tr[x].fast)
       /\ c[a].prompt => tr[x].thread = Parent \/ st.user
  /\ \A a, b \in DOMAIN c : c[a].tokens \cap c[b].tokens # {} => a = b
  /\ \A a, b \in DOMAIN c : a # b /\ c[a].prompt /\ c[b].prompt =>
       \A x \in c[a].tokens, y \in c[b].tokens : tr[x].turn # tr[y].turn

\* The messages, place by place.
PlacedIn(c, ms, rows) ==
  /\ \A i \in 1 .. Len(ms) : <<"rollout", i>> \in DOMAIN c /\ c[<<"rollout", i>>] = ms[i]
  /\ \A row \in rows : /\ <<"mirror", row>> \in DOMAIN c
                       /\ c[<<"mirror", row>>].tokens = row.tokens
                       /\ c[<<"mirror", row>>].prompt = FALSE
  /\ \A place \in DOMAIN c :
       \/ \E i \in 1 .. Len(ms) : place = <<"rollout", i>>
       \/ \E row \in rows : place = <<"mirror", row>>

LEMMA PlacesOf ==
  ASSUME NEW ms, NEW rows, NEW c, c = CountedOf(ms, rows)
  PROVE  PlacedIn(c, ms, rows)
<1>1. DOMAIN c = Places(ms, rows)
  BY Zenon DEF CountedOf
<1>2. ASSUME NEW i \in 1 .. Len(ms)
      PROVE  <<"rollout", i>> \in Places(ms, rows) /\ c[<<"rollout", i>>] = ms[i]
  BY DEF CountedOf, Places
<1>3. ASSUME NEW row \in rows
      PROVE  /\ <<"mirror", row>> \in Places(ms, rows)
             /\ c[<<"mirror", row>>] = MirrorMessage(row)
  BY DEF CountedOf, Places
<1>4. \A row : /\ MirrorMessage(row).tokens = row.tokens
               /\ MirrorMessage(row).prompt = FALSE
  BY DEF MirrorMessage
<1>5. ASSUME NEW place \in Places(ms, rows)
      PROVE  \/ \E i \in 1 .. Len(ms) : place = <<"rollout", i>>
             \/ \E row \in rows : place = <<"mirror", row>>
  BY DEF Places
<1> QED BY <1>1, <1>2, <1>3, <1>4, <1>5 DEF PlacedIn

LEMMA CountedSettles ==
  ASSUME NEW st, NEW tr, NEW p, NEW q, NEW ms, RowsAre(st, tr, p, q, ms),
         NEW rows, Uncounted(st, tr, ms, rows), NEW c, c = CountedOf(ms, rows)
  PROVE  Settled(st, tr, c)
<1> DEFINE n == Len(ms)
<1>0. PlacedIn(c, ms, rows)
  BY PlacesOf
<1>1. /\ \A i \in 1 .. n : <<"rollout", i>> \in DOMAIN c /\ c[<<"rollout", i>>] = ms[i]
      /\ \A row \in rows : /\ c[<<"mirror", row>>].tokens = row.tokens
                           /\ c[<<"mirror", row>>].prompt = FALSE
      /\ \A place \in DOMAIN c :
           \/ \E i \in 1 .. n : place = <<"rollout", i>>
           \/ \E row \in rows : place = <<"mirror", row>>
  BY <1>0 DEF PlacedIn
<1>2. ASSUME NEW i \in 1 .. n
      PROVE  \E x \in DOMAIN tr : /\ ms[i].tokens = {x} /\ x \in ms[i].key[4]
                                  /\ ms[i].fast <=> tr[x].fast
                                  /\ ms[i].prompt => tr[x].thread = Parent \/ st.user
  BY DEF RowsAre, RowOK
<1>3. n \in Nat /\ \A j \in 1 .. n : \A i \in 1 .. j - 1 : InTurn(tr, ms[i], ms[j])
  BY DEF RowsAre
<1>4. ASSUME NEW row \in rows
      PROVE  \E x \in DOMAIN tr : /\ row = MirrorRow(st, tr, x) /\ row.tokens = {x}
                                  /\ \A i \in 1 .. n : x \notin ms[i].tokens
  BY DEF Uncounted, MirrorRow
<1> HIDE DEF n
<1>5. ASSUME NEW i \in 1 .. n, NEW j \in 1 .. n, i # j
      PROVE  /\ ms[i].tokens \cap ms[j].tokens = {}
             /\ ms[i].prompt /\ ms[j].prompt =>
                  \A x \in ms[i].tokens, y \in ms[j].tokens : tr[x].turn # tr[y].turn
  <2>1. i \in 1 .. j - 1 \/ j \in 1 .. i - 1
    BY <1>3, <1>5
  <2>2. InTurn(tr, ms[i], ms[j]) \/ InTurn(tr, ms[j], ms[i])
    BY <1>3, <2>1
  <2> QED BY <1>2, <2>2 DEF InTurn
<1>6. ASSUME NEW a \in DOMAIN c
      PROVE  \E x \in DOMAIN tr : /\ c[a].tokens = {x}
                                  /\ a[1] = "rollout" => (c[a].fast <=> tr[x].fast)
                                  /\ c[a].prompt => tr[x].thread = Parent \/ st.user
  <2>1. CASE \E i \in 1 .. n : a = <<"rollout", i>>
    <3>1. PICK i \in 1 .. n : a = <<"rollout", i>>
      BY <2>1
    <3>2. c[a] = ms[i]
      BY <1>1, <3>1
    <3> QED BY <1>2, <3>2
  <2>2. CASE \E row \in rows : a = <<"mirror", row>>
    <3>1. PICK row \in rows : a = <<"mirror", row>>
      BY <2>2
    <3>2. c[a].tokens = row.tokens /\ a[1] # "rollout" /\ c[a].prompt = FALSE
      BY <1>1, <3>1
    <3> QED BY <1>4, <3>2
  <2> QED BY <1>1, <2>1, <2>2
<1>7. ASSUME NEW a \in DOMAIN c, NEW b \in DOMAIN c, a # b
      PROVE  /\ c[a].tokens \cap c[b].tokens = {}
             /\ c[a].prompt /\ c[b].prompt =>
                  \A x \in c[a].tokens, y \in c[b].tokens : tr[x].turn # tr[y].turn
  <2>1. ASSUME NEW i \in 1 .. n, a = <<"rollout", i>>, NEW j \in 1 .. n, b = <<"rollout", j>>
        PROVE  /\ c[a].tokens \cap c[b].tokens = {}
               /\ c[a].prompt /\ c[b].prompt =>
                    \A x \in c[a].tokens, y \in c[b].tokens : tr[x].turn # tr[y].turn
    <3>1. c[a] = ms[i] /\ c[b] = ms[j] /\ i # j
      BY <1>1, <1>7, <2>1
    <3> QED BY <1>5, <3>1
  <2>2. ASSUME NEW row \in rows, a = <<"mirror", row>>
        PROVE  c[a].tokens = row.tokens /\ ~c[a].prompt
    BY <1>1, <2>2
  <2>3. ASSUME NEW row \in rows, b = <<"mirror", row>>
        PROVE  c[b].tokens = row.tokens /\ ~c[b].prompt
    BY <1>1, <2>3
  <2>4. ASSUME NEW i \in 1 .. n, NEW row \in rows PROVE ms[i].tokens \cap row.tokens = {}
    BY <1>4
  <2>5. ASSUME NEW i \in 1 .. n, NEW row \in rows,
               \/ a = <<"rollout", i>> /\ b = <<"mirror", row>>
               \/ b = <<"rollout", i>> /\ a = <<"mirror", row>>
        PROVE  c[a].tokens \cap c[b].tokens = {} /\ ~(c[a].prompt /\ c[b].prompt)
    <3>1. CASE a = <<"rollout", i>> /\ b = <<"mirror", row>>
      <4>1. c[a] = ms[i]
        BY <1>1, <3>1
      <4> QED BY <2>3, <2>4, <3>1, <4>1
    <3>2. CASE b = <<"rollout", i>> /\ a = <<"mirror", row>>
      <4>1. c[b] = ms[i]
        BY <1>1, <3>2
      <4> QED BY <2>2, <2>4, <3>2, <4>1
    <3> QED BY <2>5, <3>1, <3>2
  <2>6. ASSUME NEW row \in rows, a = <<"mirror", row>>, NEW other \in rows, b = <<"mirror", other>>
        PROVE  c[a].tokens \cap c[b].tokens = {} /\ ~(c[a].prompt /\ c[b].prompt)
    <3>1. row # other
      BY <1>7, <2>6
    <3>2. row.tokens \cap other.tokens = {}
      BY <1>4, <3>1
    <3> QED BY <2>2, <2>3, <2>6, <3>2
  <2> QED BY <1>1, <2>1, <2>5, <2>6
<1> QED BY <1>6, <1>7 DEF Settled

-----------------------------------------------------------------------------
(* OpenClaw's mirror of the turns of a rollout                              *)

CoversTurn(ms, coverage, turn) ==
  ms # <<>> /\ (NoTurn \in coverage \/ coverage = {} \/ turn \in coverage)

\* What a rollout of Parent says of the turns of its rows.
CoverageIs(st, tr, p, ms, coverage) ==
  /\ coverage = {NameIn(st, tr[x].turn) : x \in Tok(run(p))}
  /\ ms # <<>> => Tok(run(p)) # {}
  /\ Tok(run(p)) # {} => ms # <<>>
  /\ Tok(run(p)) \subseteq DOMAIN tr

LEMMA RowsAreCovered ==
  ASSUME NEW st, NEW tr, NEW p, Counts(st, tr, Parent, p), NEW ms, NEW coverage,
         MessagesAre(st, tr, Parent, p, ms, coverage)
  PROVE  CoverageIs(st, tr, p, ms, coverage)
<1>1. /\ Len(ms) \in Nat /\ AreRows(ms) /\ DOMAIN ms = 1 .. Len(ms)
      /\ \A i \in 1 .. Len(ms) : RowOK(st, tr, Parent, ms[i])
      /\ Tok(run(p)) = UNION {ms[i].tokens : i \in 1 .. Len(ms)}
      /\ coverage = run(p).s.coverage
  BY DEF MessagesAre
<1>2. coverage = {NameIn(st, tr[x].turn) : x \in Tok(run(p))}
  BY <1>1 DEF Counts, ParentSays
<1>3. \A i \in 1 .. Len(ms) : \E x \in DOMAIN tr : ms[i].tokens = {x}
  BY <1>1 DEF RowOK
<1>4. Len(<<>>) = 0
  OBVIOUS
<1>5. Tok(run(p)) # {} => ms # <<>>
  <2>1. Len(ms) = 0 => 1 .. Len(ms) = {}
    OBVIOUS
  <2> QED BY <1>1, <1>4, <2>1
<1>6. ms # <<>> => Tok(run(p)) # {}
  <2>1. PICK T : ms \in Seq(T)
    BY <1>1 DEF AreRows, IsSeq
  <2>2. ms # <<>> => Len(ms) # 0
    BY <2>1, EmptySeq
  <2>3. Len(ms) # 0 => 1 \in 1 .. Len(ms)
    BY <1>1
  <2> QED BY <1>1, <1>3, <2>2, <2>3
<1>7. Tok(run(p)) \subseteq DOMAIN tr
  BY <1>1, <1>3
<1> QED BY <1>2, <1>5, <1>6, <1>7 DEF CoverageIs

\* A row of the mirror that is counted is of a turn that no rollout has.
LEMMA UncoveredRows ==
  ASSUME NEW st, NEW tr, NEW p, NEW part, NEW coverage, CoverageIs(st, tr, p, part, coverage),
         NEW q, NEW ms, RowsAre(st, tr, p, q, ms), NEW mirrored, MirrorsAre(st, tr, mirrored),
         NEW rows, \A row \in rows : row \in mirrored /\ ~CoversTurn(part, coverage, row.turn)
  PROVE  Uncounted(st, tr, ms, rows)
<1>0. Parent # Child
  BY DEF Parent, Child
<1>1. ASSUME NEW row \in rows
      PROVE  \E x \in DOMAIN tr : /\ tr[x].thread = Parent /\ row = MirrorRow(st, tr, x)
                                  /\ \A i \in 1 .. Len(ms) : x \notin ms[i].tokens
  <2>1. PICK x \in DOMAIN tr : tr[x].thread = Parent /\ row = MirrorRow(st, tr, x)
    BY DEF MirrorsAre, MirrorRow
  <2>2. row.turn = NameIn(st, tr[x].turn)
    BY <2>1 DEF MirrorRow
  <2>3. x \notin Tok(run(p))
    BY <2>2 DEF CoverageIs, CoversTurn
  <2>4. x \notin Tok(run(q))
    BY <1>0, <2>1 DEF RowsAre
  <2>5. \A i \in 1 .. Len(ms) : x \notin ms[i].tokens
    BY <2>3, <2>4 DEF RowsAre
  <2> QED BY <2>1, <2>5
<1> QED BY <1>1 DEF Uncounted

\* With turn ids, a row that is not counted is of a turn that a rollout counts.
LEMMA CoveredRows ==
  ASSUME NEW st, st.ids, NEW tr, \A x \in DOMAIN tr : tr[x].turn # NoTurn,
         NEW p, NEW part, NEW coverage, CoverageIs(st, tr, p, part, coverage),
         NEW turn, CoversTurn(part, coverage, turn)
  PROVE  \E x \in Tok(run(p)) : tr[x].turn = turn
<1>1. \A x : NameIn(st, tr[x].turn) = tr[x].turn
  BY DEF NameIn
<1>2. NoTurn \notin coverage /\ coverage # {}
  BY <1>1 DEF CoverageIs, CoversTurn
<1> QED BY <1>1, <1>2 DEF CoverageIs, CoversTurn

-----------------------------------------------------------------------------
(* A scan counts                                                            *)

CountedRight == Settled(style, truth, counted) /\ (at = "counted" => NothingLeftOut)

LEMMA LanesAre ==
  ASSUME NEW p, NEW q, RowsAre(style, truth, p, q, InOrder)
  PROVE  Lanes = CountedOf(InOrder, MirrorRows)
<1> DEFINE kept == codex_lane \cup openclaw_owned_rollouts
           ms == InOrder
<1>1. DOMAIN ms = 1 .. Len(ms) /\ Len(ms) \in Nat
  BY DEF RowsAre
<1>2. \A i \in 1 .. Len(ms) : \A j \in 1 .. i - 1 : ms[j].key # ms[i].key
  <2> HIDE DEF ms
  <2>1. RowsAre(style, truth, p, q, ms)
    BY DEF ms
  <2> QED BY <2>1, AllKept
<1>3. \A i \in 1 .. Len(ms) : should_keep_deduped_message(i)
  BY <1>2 DEF should_keep_deduped_message
<1>4. kept = 1 .. Len(ms)
  <2> HIDE DEF ms
  <2>1. codex_lane = {i \in DOMAIN ms : ~ms[i].owned /\ should_keep_deduped_message(i)}
        /\ openclaw_owned_rollouts = {i \in DOMAIN ms : ms[i].owned /\ should_keep_deduped_message(i)}
    BY DEF codex_lane, openclaw_owned_rollouts, ms
  <2> QED BY <1>1, <1>3, <2>1
<1> HIDE DEF kept
<1>5. Lanes = [place \in ({"rollout"} \X kept) \cup ({"mirror"} \X MirrorRows) |->
                 IF place[1] = "rollout" THEN InOrder[place[2]] ELSE MirrorMessage(place[2])]
  BY Zenon DEF Lanes, kept
<1> QED BY <1>4, <1>5, Zenon DEF CountedOf, Places

LEMMA RolloutMessages ==
  ASSUME CodexInv, PastCounts, NEW t \in Threads, outcome[t].at \in {"none", "done"}
  PROVE  /\ Counts(style, truth, t, outcome[t].lines)
         /\ MessagesAre(style, truth, t, outcome[t].lines, outcome[t].run.messages,
                        outcome[t].run.s.coverage)
         /\ MessagesAre(style, truth, t, outcome[t].lines, MessagesOf(t),
                        outcome[t].run.s.coverage)
<1> DEFINE o == outcome[t]
           full == o.run
           also == t = Parent /\ style.home
<1>1. Counts(style, truth, t, o.lines)
  BY DEF PastCounts
<1>2. full = FullParse(o.lines)
  BY DEF CodexInv, ScanOK, OutcomeOK
<1>3. MessagesAre(style, truth, t, o.lines, full.messages, full.s.coverage)
  <2> HIDE DEF o, full
  <2> QED BY <1>1, <1>2, ParsedMessages
<1>4. MessagesOf(t) = OwnedBy(full.messages, also)
  BY Zenon DEF MessagesOf, OwnedBy
<1> HIDE DEF full, also
<1>5. MessagesAre(style, truth, t, o.lines, MessagesOf(t), full.s.coverage)
  BY <1>3, <1>4, OwnedMessages
<1> QED BY <1>1, <1>3, <1>5 DEF full

\* What Count has to do with.
Counted(p, q, part, coverage) ==
  /\ Counts(style, truth, Parent, p) /\ Counts(style, truth, Child, q)
  /\ CoverageIs(style, truth, p, part, coverage)
  /\ RowsAre(style, truth, p, q, InOrder)
  /\ Lanes = CountedOf(InOrder, MirrorRows)
  /\ MirrorRows = {row \in mirror : ~CoversTurn(part, coverage, row.turn)}
  /\ Uncounted(style, truth, InOrder, MirrorRows)

LEMMA TurnsOfThreads ==
  ASSUME WorldCounts
  PROVE  TurnsOfOne(truth) /\ \A x \in DOMAIN truth : truth[x].turn # NoTurn
<1>1. NoTurn.n = 0
  BY DEF NoTurn
<1>2. \A n : 0 \notin 1 .. n
  OBVIOUS
<1>3. \A x \in DOMAIN truth : truth[x].turn.n \in 1 .. turns
  BY DEF WorldCounts, TurnsAre
<1> QED BY <1>1, <1>2, <1>3 DEF WorldCounts, TurnsAre, TurnsOfOne

LEMMA BothCounted ==
  ASSUME CodexInv, WorldCounts, PastCounts,
         \A t \in Threads : outcome[t].at \in {"none", "done"}
  PROVE  Counted(outcome[Parent].lines, outcome[Child].lines, outcome[Parent].run.messages,
                 outcome[Parent].run.s.coverage)
<1> DEFINE p == outcome[Parent].lines
           q == outcome[Child].lines
           part == outcome[Parent].run.messages
           coverage == outcome[Parent].run.s.coverage
           other == outcome[Child].run.s.coverage
           x == MessagesOf(Parent)
           y == MessagesOf(Child)
<1>0. Parent \in Threads /\ Child \in Threads
  BY DEF Threads
<1>1. /\ Counts(style, truth, Parent, p) /\ MessagesAre(style, truth, Parent, p, part, coverage)
      /\ MessagesAre(style, truth, Parent, p, x, coverage)
  BY <1>0, RolloutMessages
<1>2. Counts(style, truth, Child, q) /\ MessagesAre(style, truth, Child, q, y, other)
  BY <1>0, RolloutMessages
<1>3. MirrorRows = {row \in mirror : ~CoversTurn(part, coverage, row.turn)}
  <2>1. \A row : covers(row.turn) <=> CoversTurn(part, coverage, row.turn)
    BY DEF covers, CoversTurn
  <2> HIDE DEF part, coverage
  <2> QED BY <2>1 DEF MirrorRows
<1>4. InOrder = x \o y
  BY Zenon DEF InOrder
<1>5. TurnsOfOne(truth) /\ MirrorsAre(style, truth, mirror)
  BY TurnsOfThreads DEF WorldCounts
<1> HIDE DEF p, q, part, coverage, other, x, y
<1>6. CoverageIs(style, truth, p, part, coverage)
  BY <1>1, RowsAreCovered
<1>7. RowsAre(style, truth, p, q, InOrder)
  BY <1>1, <1>2, <1>4, <1>5, RowsOfBoth
<1>8. Lanes = CountedOf(InOrder, MirrorRows)
  BY <1>7, LanesAre
<1>9. Uncounted(style, truth, InOrder, MirrorRows)
  <2> DEFINE ms == InOrder
             rows == MirrorRows
  <2>1. \A row \in rows : row \in mirror /\ ~CoversTurn(part, coverage, row.turn)
    BY <1>3
  <2> HIDE DEF ms, rows
  <2>2. Uncounted(style, truth, ms, rows)
    BY <1>5, <1>6, <1>7, <2>1, UncoveredRows DEF ms
  <2> QED BY <2>2 DEF ms, rows
<1> QED BY <1>1, <1>2, <1>3, <1>6, <1>7, <1>8, <1>9 DEF Counted, p, q, part, coverage

\* What a rollout had is in some message.
LEMMA EveryResponse ==
  ASSUME NEW p, NEW q, NEW part, NEW coverage, Counted(p, q, part, coverage),
         NEW r, r \in Tok(run(p)) \cup Tok(run(q))
  PROVE  \E place \in DOMAIN Lanes : r \in Lanes[place].tokens
<1> DEFINE ms == InOrder
<1>1. PICK i \in 1 .. Len(ms) : r \in ms[i].tokens
  BY DEF Counted, RowsAre
<1>2. PlacedIn(Lanes, InOrder, MirrorRows)
  BY PlacesOf DEF Counted
<1>3. <<"rollout", i>> \in DOMAIN Lanes /\ Lanes[<<"rollout", i>>] = ms[i]
  BY <1>1, <1>2 DEF PlacedIn
<1> QED BY <1>1, <1>3

LEMMA EveryRow ==
  ASSUME NEW p, NEW q, NEW part, NEW coverage, Counted(p, q, part, coverage), WorldCounts,
         style.ids, NEW row \in mirror
  PROVE  \E r \in DOMAIN truth : /\ truth[r].turn = row.turn
                                 /\ \E place \in DOMAIN Lanes : r \in Lanes[place].tokens
<1>1. \A x \in DOMAIN truth : truth[x].turn # NoTurn
  BY TurnsOfThreads
<1>2. CASE row \in MirrorRows
  <2>1. PICK x \in DOMAIN truth : row = MirrorRow(style, truth, x)
    BY <1>2 DEF Counted, Uncounted
  <2>2. row.tokens = {x} /\ row.turn = truth[x].turn
    BY <2>1 DEF MirrorRow, NameIn
  <2>3. PlacedIn(Lanes, InOrder, MirrorRows)
    BY PlacesOf DEF Counted
  <2>4. <<"mirror", row>> \in DOMAIN Lanes /\ Lanes[<<"mirror", row>>].tokens = row.tokens
    BY <1>2, <2>3 DEF PlacedIn
  <2> QED BY <2>2, <2>4
<1>3. CASE row \notin MirrorRows
  <2>1. CoversTurn(part, coverage, row.turn)
    BY <1>3 DEF Counted
  <2>2. CoverageIs(style, truth, p, part, coverage)
    BY DEF Counted
  <2>3. \E x \in Tok(run(p)) : truth[x].turn = row.turn
    BY <1>1, <2>1, <2>2, CoveredRows
  <2> QED BY <2>2, <2>3, EveryResponse DEF CoverageIs
<1> QED BY <1>2, <1>3

LEMMA CountingIsRight ==
  ASSUME CodexInv, WorldCounts, PastCounts, Count
  PROVE  CountedRight'
<1> DEFINE p == outcome[Parent].lines
           q == outcome[Child].lines
           part == outcome[Parent].run.messages
           coverage == outcome[Parent].run.s.coverage
           o == [outcome[Parent] EXCEPT !.rows = mirror]
<1>0. Parent \in Threads /\ Threads = {Parent, Child} /\ Parent # Child
  BY DEF Threads, Parent, Child
<1>1. Counted(p, q, part, coverage)
  BY BothCounted DEF Count
<1>2. counted' = Lanes /\ style' = style /\ truth' = truth
  BY DEF Count, world
<1>3. outcome' = [outcome EXCEPT ![Parent] = o]
  BY Zenon DEF Count
<1>4. outcome = [t \in Threads |-> outcome[t]]
  BY DEF CodexInv, ScanOK
<1>5. o.lines = p /\ o.rows = mirror
  <2>1. IsOutcome(outcome[Parent])
    BY <1>0 DEF CodexInv, ScanOK, OutcomeOK
  <2> QED BY <2>1 DEF IsOutcome, OutcomeFields
<1> HIDE DEF o, part, coverage
<1>6. /\ \A t \in Threads : outcome'[t].lines = outcome[t].lines
      /\ outcome'[Parent].rows = mirror
  BY <1>0, <1>3, <1>4, <1>5
<1>7. Settled(style, truth, Lanes)
  <2> DEFINE ms == InOrder
             rows == MirrorRows
             c == Lanes
  <2>1. RowsAre(style, truth, p, q, ms) /\ Uncounted(style, truth, ms, rows)
        /\ c = CountedOf(ms, rows)
    BY <1>1 DEF Counted
  <2> HIDE DEF ms, rows, c, p, q
  <2>2. Settled(style, truth, c)
    BY <2>1, CountedSettles
  <2> QED BY <2>2 DEF c
<1>8. ASSUME NEW t \in Threads, NEW r \in OwnIn(t)' PROVE Counting(r)' # {}
  <2>1. /\ r \in DOMAIN truth /\ truth[r].thread = t
        /\ \E i \in DOMAIN outcome[t].lines :
             \E usage \in outcome[t].lines[i].total \cup outcome[t].lines[i].last : r \in usage
    BY <1>2, <1>6, <1>8 DEF OwnIn, Responses
  <2>2. Counts(style, truth, t, outcome[t].lines)
    BY DEF PastCounts
  <2>3. r \in Tok(run(outcome[t].lines))
    <3> DEFINE lines == outcome[t].lines
    <3>1. DOMAIN lines = 1 .. Len(lines)
      BY <2>2, Lengths DEF Counts
    <3>2. \E i \in 1 .. Len(lines) : r \in Mentions(lines[i])
      BY <2>1, <3>1 DEF Mentions
    <3> HIDE DEF lines
    <3>3. Counts(style, truth, t, lines)
      BY <2>2 DEF lines
    <3>4. r \in Tok(run(lines))
      BY <2>1, <3>2, <3>3 DEF Counts
    <3> QED BY <3>4 DEF lines
  <2>4. r \in Tok(run(p)) \cup Tok(run(q))
    BY <1>0, <2>3
  <2> HIDE DEF p, q
  <2>5. \E place \in DOMAIN Lanes : r \in Lanes[place].tokens
    BY <1>1, <2>4, EveryResponse
  <2> QED BY <1>2, <2>5 DEF Counting
<1>9. ASSUME style'.ids, NEW row \in outcome'[Parent].rows
      PROVE  \E r \in Responses' : truth'[r].turn = row.turn /\ Counting(r)' # {}
  <2>1. style.ids /\ row \in mirror
    BY <1>2, <1>6, <1>9
  <2>2. \E r \in DOMAIN truth : /\ truth[r].turn = row.turn
                                /\ \E place \in DOMAIN Lanes : r \in Lanes[place].tokens
    BY <1>1, <2>1, EveryRow
  <2> QED BY <1>2, <2>2 DEF Counting, Responses
<1>10. NothingLeftOut'
  BY <1>8, <1>9 DEF NothingLeftOut
<1> QED BY <1>2, <1>7, <1>10 DEF CountedRight

-----------------------------------------------------------------------------
(* The invariant, and the theorems                                          *)

AllReadable == \A st \in Styles : Readable(st)

\* Rollouts count, as they are and as they were read; and what is counted is so
\* while Codex waits.
CountInv ==
  /\ CodexInv
  /\ WorldCounts
  /\ PastCounts
  /\ at # "counted" => counted = <<>>
  /\ CountedRight

LEMMA NoneCounted ==
  ASSUME counted = <<>>, at # "counted"
  PROVE  CountedRight
<1>1. DOMAIN counted = {}
  OBVIOUS
<1> QED BY <1>1 DEF CountedRight, Settled

LEMMA InitCount == Init => CountInv
<1> SUFFICES ASSUME Init PROVE CountInv
  OBVIOUS
<1>1. counted = <<>> /\ at = "idle" /\ outcome = [t \in Threads |-> NotRead]
  BY DEF Init
<1>2. PastCounts
  <2>1. NotRead.lines = <<>>
    BY NotReadOK
  <2> HIDE DEF NotRead
  <2>2. \A t \in Threads : outcome[t].lines = <<>>
    BY <1>1, <2>1
  <2> QED BY <2>2, NothingRead DEF PastCounts
<1> QED BY <1>1, <1>2, InitCodex, InitCounts, NoneCounted DEF CountInv

LEMMA CodexCounts ==
  ASSUME AllReadable, WorldOK, WorldCounts, Codex
  PROVE  WorldCounts'
<1>1. Readable(style)
  BY DEF AllReadable, WorldOK
<1>2. ASSUME NEW t \in Threads, BeginTurn(t) \/ Respond(t) \/ Repeat(t) \/ Select(t)
      PROVE  WorldCounts'
  BY <1>1, <1>2, TurnCounts, ResponseCounts, RepeatCounts, SettingCounts
<1>3. CASE Fork \/ CopyLate \/ RollBack \/ Mirror
  BY <1>1, <1>3, ForkCounts, LateCopyCounts, RollBackCounts, MirrorCounts
<1> QED BY <1>2, <1>3, Zenon DEF Codex

LEMMA NextCount ==
  ASSUME AllReadable, CountInv, [Next]_vars
  PROVE  CountInv'
<1>0. CodexInv' /\ CodexInv /\ WorldOK /\ WorldCounts /\ PastCounts
  BY NextCodex DEF CountInv, CodexInv
<1>1. CASE UNCHANGED vars
  <2>1. /\ style' = style /\ log' = log /\ thread' = thread /\ turns' = turns
        /\ truth' = truth /\ mirror' = mirror /\ at' = at /\ outcome' = outcome
        /\ counted' = counted
    BY <1>1 DEF vars
  <2>2. WorldCounts'
    BY <1>0, <2>1 DEF WorldCounts
  <2>3. PastCounts'
    BY <1>0, <2>1 DEF PastCounts
  <2>4. CountedRight'
    BY <2>1 DEF CountInv, CountedRight, NothingLeftOut, OwnIn, Counting, Responses
  <2>5. (at # "counted" => counted = <<>>)'
    BY <2>1 DEF CountInv
  <2> QED BY <1>0, <2>2, <2>3, <2>4, <2>5 DEF CountInv
<1>2. CASE Codex
  <2>1. at' = at /\ counted' = counted /\ at # "counted"
    BY <1>0, <1>2, CodexIsQuiet DEF scan
  <2>2. counted' = <<>> /\ at' # "counted"
    BY <2>1 DEF CountInv
  <2>3. CountedRight'
    BY <2>2 DEF CountedRight, Settled
  <2>4. WorldCounts' /\ PastCounts'
    BY <1>0, <1>2, CodexCounts, PastStays
  <2> QED BY <1>0, <2>2, <2>3, <2>4 DEF CountInv
<1>3. CASE Scan
  <2>1. WorldCounts' /\ PastCounts'
    BY <1>0, <1>3, ScanPast
  <2>2. CASE Count
    <3>1. CountedRight'
      BY <1>0, <2>2, CountingIsRight
    <3>2. at' = "counted"
      BY <2>2 DEF Count
    <3> QED BY <1>0, <2>1, <3>1, <3>2 DEF CountInv
  <2>3. CASE ~Count
    <3>1. counted' = <<>> /\ at' # "counted"
      <4>1. CASE StartScan \/ Stop
        BY <4>1 DEF StartScan, Stop
      <4>2. ASSUME NEW t \in Threads, load_or_parse_codex_source(t) \/ Build(t)
            PROVE  counted' = <<>> /\ at' # "counted"
        <5>1. at = "read" /\ at' = at /\ counted' = counted
          BY <4>2, Zenon DEF load_or_parse_codex_source, Build
        <5> QED BY <5>1 DEF CountInv
      <4> QED BY <1>3, <2>3, <4>1, <4>2, Zenon DEF Scan
    <3>2. CountedRight'
      BY <3>1 DEF CountedRight, Settled
    <3> QED BY <1>0, <2>1, <3>1, <3>2 DEF CountInv
  <2> QED BY <2>2, <2>3
<1> QED BY <1>1, <1>2, <1>3 DEF Next

\* What the invariant says of the messages.
LEMMA CountedProperties ==
  ASSUME CountInv
  PROVE  CountedOnce /\ PromptsMarkTheirTurn /\ SpeedIsTheTurns
<1>0. Parent # Child
  BY DEF Parent, Child
<1>1. /\ \A a \in DOMAIN counted : \E x \in DOMAIN truth :
           /\ counted[a].tokens = {x}
           /\ a[1] = "rollout" => (counted[a].fast <=> truth[x].fast)
           /\ counted[a].prompt => truth[x].thread = Parent \/ style.user
      /\ \A a, b \in DOMAIN counted : counted[a].tokens \cap counted[b].tokens # {} => a = b
      /\ \A a, b \in DOMAIN counted : a # b /\ counted[a].prompt /\ counted[b].prompt =>
           \A x \in counted[a].tokens, y \in counted[b].tokens : truth[x].turn # truth[y].turn
      /\ at = "counted" => NothingLeftOut
  BY DEF CountInv, CountedRight, Settled
<1>2. ASSUME NEW r \in Responses PROVE Cardinality(Counting(r)) <= 1
  <2> DEFINE C == Counting(r)
  <2>1. \A a, b \in C : a = b
    BY <1>1 DEF Counting
  <2> HIDE DEF C
  <2>2. CASE C = {}
    BY <2>2, FS_EmptySet DEF C
  <2>3. CASE C # {}
    <3>1. PICK a : a \in C
      BY <2>3
    <3>2. C = {a}
      BY <2>1, <3>1
    <3>3. Cardinality({a}) = 1
      BY FS_Singleton, Zenon
    <3> QED BY <3>2, <3>3 DEF C
  <2> QED BY <2>2, <2>3
<1>3. CountedOnce
  BY <1>1, <1>2 DEF CountedOnce
<1>4. PromptsMarkTheirTurn
  BY <1>0, <1>1 DEF PromptsMarkTheirTurn
<1>5. SpeedIsTheTurns
  BY <1>1 DEF SpeedIsTheTurns
<1> QED BY <1>3, <1>4, <1>5

LEMMA CountInvariant ==
  ASSUME AllReadable
  PROVE  Spec => []CountInv
<1>1. Init => CountInv
  BY InitCount
<1>2. CountInv /\ [Next]_vars => CountInv'
  BY NextCount
<1> QED BY <1>1, <1>2, PTL DEF Spec

\* Whatever Codex writes, forks, copies, repeats and restores, in whatever
\* readable ways, and however a scan reads it, a response is in one message at
\* most, and when the lanes are counted none that a rollout had is left out.
THEOREM ResponsesCountedOnce ==
  ASSUME \A st \in Styles : Readable(st)
  PROVE  Spec => []CountedOnce
<1>1. AllReadable
  BY DEF AllReadable
<1>2. Spec => []CountInv
  BY <1>1, CountInvariant
<1>3. CountInv => CountedOnce
  BY CountedProperties
<1> QED BY <1>2, <1>3, PTL

\* A prompt marks one message of its turn, and none of a turn without it.
THEOREM PromptsMarkTurns ==
  ASSUME \A st \in Styles : Readable(st)
  PROVE  Spec => []PromptsMarkTheirTurn
<1>1. AllReadable
  BY DEF AllReadable
<1>2. Spec => []CountInv
  BY <1>1, CountInvariant
<1>3. CountInv => PromptsMarkTheirTurn
  BY CountedProperties
<1> QED BY <1>2, <1>3, PTL

\* A message of a rollout is fast if its turn began so, and only then.
THEOREM SpeedsAreTheTurns ==
  ASSUME \A st \in Styles : Readable(st)
  PROVE  Spec => []SpeedIsTheTurns
<1>1. AllReadable
  BY DEF AllReadable
<1>2. Spec => []CountInv
  BY <1>1, CountInvariant
<1>3. CountInv => SpeedIsTheTurns
  BY CountedProperties
<1> QED BY <1>2, <1>3, PTL
=============================================================================
