---------------------------- MODULE CodexLogProofs ----------------------------
(***************************************************************************)
(* The Codex parser may stop after any line and go on later: whatever is   *)
(* stored of a rollout is what one parse from its first line gives.        *)
(***************************************************************************)
EXTENDS CodexLog, FiniteSetTheorems, SequenceTheorems, WellFoundedInduction, TLAPS

\* Stands in for induction: what fails for some number fails for a least one.
LEMMA LeastNumber ==
  ASSUME NEW S \in SUBSET Nat, S # {}
  PROVE  \E m \in S : \A x \in S : m <= x
<1> DEFINE less == {ss \in Nat \X Nat : ss[1] < ss[2]}
<1>1. IsWellFoundedOn(less, Nat)
  BY NatLessThanWellFounded DEF OpToRel
<1>2. PICK m \in S : \A x \in S : ~ (<<x, m>> \in less)
  <2> HIDE DEF less
  <2> QED BY <1>1, WFMin
<1>3. \A x \in Nat, y \in Nat : x < y => <<x, y>> \in less
  OBVIOUS
<1>4. \A x \in S : m <= x
  <2> HIDE DEF less
  <2>1. \A x \in S : ~ (x < m)
    BY <1>2, <1>3
  <2> QED BY <2>1
<1> QED BY <1>4

-----------------------------------------------------------------------------
(* What FoldLeft does with the parser *)

\* g is the recursive function by which FoldLeft goes through the sets of
\* positions up to n, from r on.
Folds(r, lines, n, g) ==
  g = [s \in SUBSET (1 .. n) |->
         IF s = {} THEN r ELSE parse_line(g[s \ {Max(s)}], lines[Max(s)])]

LEMMA LastPosition ==
  ASSUME NEW n \in Nat, NEW s \in SUBSET (1 .. n), n \in s
  PROVE  Max(s) = n
<1>1. n \in s /\ \A y \in s : n >= y
  OBVIOUS
<1>2. \A x \in s : (\A y \in s : x >= y) => x = n
  <2> SUFFICES ASSUME NEW x \in s, \A y \in s : x >= y PROVE x = n
    OBVIOUS
  <2>1. x \in 1 .. n /\ x >= n
    OBVIOUS
  <2> QED BY <2>1
<1> QED BY <1>1, <1>2 DEF Max

LEMMA LargestPosition ==
  ASSUME NEW n \in Nat, NEW s \in SUBSET (1 .. n), s # {}
  PROVE  Max(s) \in s /\ \A y \in s : Max(s) >= y
<1> DEFINE bounds == {k \in Nat : \A y \in s : k >= y}
<1>1. bounds \in SUBSET Nat /\ n \in bounds
  OBVIOUS
<1>2. PICK m \in bounds : \A k \in bounds : m <= k
  <2> HIDE DEF bounds
  <2> QED BY <1>1, LeastNumber
<1>3. m \in Nat /\ \A y \in s : m >= y
  BY <1>2
<1>4. m \in s
  <2> SUFFICES ASSUME m \notin s PROVE FALSE
    OBVIOUS
  <2>1. \A y \in s : y \in Nat \ {0} /\ m > y
    BY <1>3
  <2>2. m - 1 \in Nat /\ \A y \in s : m - 1 >= y
    <3>1. PICK z \in s : z \in Nat /\ m > z
      BY <2>1
    <3>2. \A y \in s : y \in Nat /\ m > y
      BY <2>1
    <3> QED BY <1>3, <3>1, <3>2
  <2>3. m - 1 \in bounds
    BY <2>2
  <2> HIDE DEF bounds
  <2> QED BY <1>2, <1>3, <2>3
<1> QED BY <1>3, <1>4 DEF Max

\* One line more: the function for n + 1 is made from the one for n.
Longer(lines, n, g) ==
  [s \in SUBSET (1 .. n + 1) |->
     IF n + 1 \in s THEN parse_line(g[s \ {n + 1}], lines[n + 1]) ELSE g[s]]

LEMMA LongerFolds ==
  ASSUME NEW r, NEW n \in Nat, NEW lines, NEW longer, NEW g,
         \A i \in 1 .. n : longer[i] = lines[i],
         Folds(r, lines, n, g)
  PROVE  Folds(r, longer, n + 1, Longer(longer, n, g))
<1> DEFINE h == Longer(longer, n, g)
           next(s) == IF s = {} THEN r ELSE parse_line(h[s \ {Max(s)}], longer[Max(s)])
<1>1. ASSUME NEW s \in SUBSET (1 .. n) PROVE h[s] = g[s]
  BY DEF Longer
<1>2. ASSUME NEW s \in SUBSET (1 .. n + 1) PROVE h[s] = next(s)
  <2>1. CASE n + 1 \in s
    <3>1. Max(s) = n + 1 /\ s # {}
      BY <2>1, LastPosition
    <3>2. s \ {n + 1} \in SUBSET (1 .. n)
      OBVIOUS
    <3>3. h[s] = parse_line(g[s \ {n + 1}], longer[n + 1])
      BY <2>1 DEF Longer
    <3>4. h[s \ {n + 1}] = g[s \ {n + 1}]
      BY <1>1, <3>2
    <3> HIDE DEF h
    <3> QED BY <3>1, <3>3, <3>4
  <2>2. CASE n + 1 \notin s
    <3>1. s \in SUBSET (1 .. n)
      BY <2>2
    <3>2. h[s] = g[s]
      BY <1>1, <3>1
    <3>3. g[s] = IF s = {} THEN r ELSE parse_line(g[s \ {Max(s)}], lines[Max(s)])
      BY <3>1 DEF Folds
    <3>4. CASE s = {}
      <4> HIDE DEF h
      <4> QED BY <3>2, <3>3, <3>4
    <3>5. CASE s # {}
      <4>1. Max(s) \in 1 .. n /\ s \ {Max(s)} \in SUBSET (1 .. n)
        BY <3>1, <3>5, LargestPosition
      <4>2. h[s \ {Max(s)}] = g[s \ {Max(s)}] /\ longer[Max(s)] = lines[Max(s)]
        BY <1>1, <4>1
      <4> HIDE DEF h
      <4> QED BY <3>2, <3>3, <3>5, <4>2
    <3> QED BY <3>4, <3>5
  <2> QED BY <2>1, <2>2
<1>3. h = [s \in SUBSET (1 .. n + 1) |-> h[s]]
  BY DEF Longer
<1>4. h = [s \in SUBSET (1 .. n + 1) |-> next(s)]
  <2> HIDE DEF h, next
  <2> QED BY <1>2, <1>3
<1> HIDE DEF h
<1>5. Folds(r, longer, n + 1, h)
  BY <1>4 DEF Folds
<1> QED BY <1>5 DEF h

LEMMA FoldsExist ==
  ASSUME NEW r, NEW lines, NEW n \in Nat
  PROVE  \E g : Folds(r, lines, n, g)
<1> DEFINE none == {k \in Nat : ~ \E g : Folds(r, lines, k, g)}
<1>1. none = {}
  <2> SUFFICES ASSUME none # {} PROVE FALSE
    OBVIOUS
  <2>1. none \in SUBSET Nat
    OBVIOUS
  <2>2. PICK k \in none : \A m \in none : k <= m
    <3> HIDE DEF none
    <3> QED BY <2>1, LeastNumber
  <2>3. k \in Nat /\ ~ \E g : Folds(r, lines, k, g)
    BY <2>2
  <2>4. CASE k = 0
    <3> DEFINE g == [s \in SUBSET (1 .. 0) |-> r]
    <3>1. \A s \in SUBSET (1 .. 0) : s = {}
      OBVIOUS
    <3>2. g = [s \in SUBSET (1 .. 0) |->
                 IF s = {} THEN r ELSE parse_line(g[s \ {Max(s)}], lines[Max(s)])]
      BY <3>1
    <3> HIDE DEF g
    <3>3. Folds(r, lines, 0, g)
      BY <3>2 DEF Folds
    <3> QED BY <2>3, <2>4, <3>3
  <2>5. CASE k # 0
    <3>1. k - 1 \in Nat /\ k - 1 \notin none /\ (k - 1) + 1 = k
      <4> HIDE DEF none
      <4> QED BY <2>2, <2>3, <2>5
    <3>2. PICK g : Folds(r, lines, k - 1, g)
      BY <3>1
    <3>3. Folds(r, lines, (k - 1) + 1, Longer(lines, k - 1, g))
      BY <3>1, <3>2, LongerFolds
    <3> QED BY <2>3, <3>1, <3>3
  <2> QED BY <2>4, <2>5
<1> QED BY <1>1

LEMMA FoldsAreOne ==
  ASSUME NEW r, NEW lines, NEW n \in Nat, NEW g, NEW h,
         Folds(r, lines, n, g), Folds(r, lines, n, h)
  PROVE  g[1 .. n] = h[1 .. n]
<1> DEFINE differ == {k \in Nat : \E s \in SUBSET (1 .. n) : s \subseteq 1 .. k /\ g[s] # h[s]}
<1>1. differ = {}
  <2> SUFFICES ASSUME differ # {} PROVE FALSE
    OBVIOUS
  <2>1. differ \in SUBSET Nat
    OBVIOUS
  <2>2. PICK k \in differ : \A m \in differ : k <= m
    <3> HIDE DEF differ
    <3> QED BY <2>1, LeastNumber
  <2>3. PICK s \in SUBSET (1 .. n) : s \subseteq 1 .. k /\ g[s] # h[s]
    BY <2>2
  <2>4. k \in Nat
    BY <2>2
  <2>5. /\ g[s] = IF s = {} THEN r ELSE parse_line(g[s \ {Max(s)}], lines[Max(s)])
        /\ h[s] = IF s = {} THEN r ELSE parse_line(h[s \ {Max(s)}], lines[Max(s)])
    BY <2>3 DEF Folds
  <2>6. s # {}
    BY <2>3, <2>5
  <2>7. Max(s) \in s /\ \A y \in s : Max(s) >= y
    BY <2>3, <2>6, LargestPosition
  <2> DEFINE m == Max(s)
             t == s \ {m}
  <2>8. m \in Nat /\ m - 1 \in Nat /\ m - 1 < k
    <3>1. m \in 1 .. k
      BY <2>3, <2>7
    <3> HIDE DEF m
    <3> QED BY <2>4, <3>1
  <2>9. t \in SUBSET (1 .. n) /\ t \subseteq 1 .. (m - 1)
    <3>1. \A y \in s : y \in Nat \ {0} /\ m >= y
      BY <2>3, <2>7
    <3> HIDE DEF m
    <3>2. \A y \in t : y \in 1 .. (m - 1)
      BY <2>8, <3>1
    <3> QED BY <3>2
  <2>10. m - 1 \notin differ
    <3> HIDE DEF differ, m
    <3> QED BY <2>2, <2>4, <2>8
  <2>11. g[t] = h[t]
    <3> HIDE DEF t, m
    <3> QED BY <2>8, <2>9, <2>10
  <2> QED BY <2>3, <2>5, <2>6, <2>11
<1>2. 1 .. n \in SUBSET (1 .. n)
  OBVIOUS
<1> QED BY <1>1, <1>2

LEMMA ParseIsFold ==
  ASSUME NEW r, NEW T, NEW lines \in Seq(T), NEW g, Folds(r, lines, Len(lines), g)
  PROVE  FoldLeft(parse_line, r, lines) = g[1 .. Len(lines)]
<1> DEFINE n == Len(lines)
           f == CHOOSE h : Folds(r, lines, n, h)
<1>1. DOMAIN lines = 1 .. n /\ n \in Nat
  OBVIOUS
<1>2. FoldLeft(parse_line, r, lines) = f[1 .. n]
  BY <1>1, Zenon DEF FoldLeft, MapThenFoldSet, Folds
<1>3. Folds(r, lines, n, f)
  BY Zenon
<1> HIDE DEF f
<1> QED BY <1>1, <1>2, <1>3, FoldsAreOne

\* A fold over no line is where it began; over one line more, it is that line
\* parsed from the fold over the others.
LEMMA ParseOfNothing ==
  ASSUME NEW r
  PROVE  FoldLeft(parse_line, r, <<>>) = r
<1>1. <<>> \in Seq({}) /\ Len(<<>>) = 0 /\ 1 .. 0 = {}
  OBVIOUS
<1>2. PICK g : Folds(r, <<>>, 0, g)
  BY FoldsExist
<1>3. g[{}] = r
  BY <1>2 DEF Folds
<1>4. FoldLeft(parse_line, r, <<>>) = g[1 .. Len(<<>>)]
  BY <1>1, <1>2, ParseIsFold
<1> QED BY <1>1, <1>3, <1>4

LEMMA ParseOfAppend ==
  ASSUME NEW r, NEW T, NEW lines \in Seq(T), NEW l \in T
  PROVE  FoldLeft(parse_line, r, Append(lines, l)) = parse_line(FoldLeft(parse_line, r, lines), l)
<1> DEFINE n == Len(lines)
           longer == Append(lines, l)
<1>1. /\ n \in Nat /\ longer \in Seq(T) /\ Len(longer) = n + 1
      /\ \A i \in 1 .. n : longer[i] = lines[i]
      /\ longer[n + 1] = l
  OBVIOUS
<1>2. PICK g : Folds(r, lines, n, g)
  BY <1>1, FoldsExist
<1>3. Folds(r, longer, n + 1, Longer(longer, n, g))
  <2> HIDE DEF longer
  <2> QED BY <1>1, <1>2, LongerFolds
<1>4. Longer(longer, n, g)[1 .. n + 1] = parse_line(g[1 .. n], l)
  <2>1. (1 .. n + 1) \ {n + 1} = 1 .. n /\ n + 1 \in 1 .. n + 1
    BY <1>1
  <2> HIDE DEF longer
  <2> QED BY <1>1, <2>1 DEF Longer
<1>5. FoldLeft(parse_line, r, lines) = g[1 .. n]
  BY <1>2, ParseIsFold
<1>6. FoldLeft(parse_line, r, longer) = Longer(longer, n, g)[1 .. n + 1]
  <2> HIDE DEF longer
  <2> QED BY <1>1, <1>3, ParseIsFold
<1> QED BY <1>4, <1>5, <1>6

\* A parse of two pieces is the parse of the second from where the first ended.
LEMMA ParseOfPieces ==
  ASSUME NEW r, NEW T, NEW first \in Seq(T), NEW second \in Seq(T)
  PROVE  FoldLeft(parse_line, r, first \o second)
           = FoldLeft(parse_line, FoldLeft(parse_line, r, first), second)
<1> DEFINE mid == FoldLeft(parse_line, r, first)
           Holds(t) == FoldLeft(parse_line, r, first \o t) = FoldLeft(parse_line, mid, t)
           fails == {k \in Nat : \E t \in Seq(T) : Len(t) = k /\ ~Holds(t)}
<1>1. fails = {}
  <2> SUFFICES ASSUME fails # {} PROVE FALSE
    OBVIOUS
  <2>1. fails \in SUBSET Nat
    OBVIOUS
  <2>2. PICK k \in fails : \A m \in fails : k <= m
    <3> HIDE DEF fails
    <3> QED BY <2>1, LeastNumber
  <2>3. PICK t \in Seq(T) : Len(t) = k /\ ~Holds(t)
    BY <2>2
  <2>4. CASE t = <<>>
    <3>1. first \o t = first
      BY <2>4
    <3> QED BY <2>3, <2>4, <3>1, ParseOfNothing
  <2>5. CASE t # <<>>
    <3>1. PICK u \in Seq(T), l \in T : t = Append(u, l)
      BY <2>5, SequenceEmptyOrAppend
    <3>2. Len(u) \in Nat /\ Len(u) < k /\ Len(u) \notin fails
      <4>1. Len(u) \in Nat /\ k = Len(u) + 1
        BY <2>3, <3>1
      <4> HIDE DEF fails
      <4> QED BY <2>2, <4>1
    <3>3. Holds(u)
      BY <3>2
    <3>4. first \o t = Append(first \o u, l) /\ first \o u \in Seq(T)
      <4>1. <<l>> \in Seq(T) /\ t = u \o <<l>> /\ first \o u \in Seq(T)
        BY <3>1, AppendIsConcat, ConcatProperties
      <4>2. first \o (u \o <<l>>) = (first \o u) \o <<l>>
        BY <3>1, <4>1, ConcatAssociative
      <4>3. Append(first \o u, l) = (first \o u) \o <<l>>
        BY <3>1, <4>1, AppendIsConcat
      <4> QED BY <4>1, <4>2, <4>3
    <3>5. FoldLeft(parse_line, r, first \o t)
            = parse_line(FoldLeft(parse_line, r, first \o u), l)
      <4> DEFINE v == first \o u
      <4>1. v \in Seq(T) /\ first \o t = Append(v, l)
        BY <3>4
      <4> HIDE DEF v
      <4>2. FoldLeft(parse_line, r, Append(v, l)) = parse_line(FoldLeft(parse_line, r, v), l)
        BY <3>1, <4>1, ParseOfAppend
      <4>3. FoldLeft(parse_line, r, first \o t) = parse_line(FoldLeft(parse_line, r, v), l)
        BY <4>1, <4>2
      <4> QED BY <4>3 DEF v
    <3>6. FoldLeft(parse_line, mid, t) = parse_line(FoldLeft(parse_line, mid, u), l)
      <4> HIDE DEF mid
      <4> QED BY <3>1, ParseOfAppend
    <3> QED BY <2>3, <3>3, <3>5, <3>6
  <2> QED BY <2>4, <2>5
<1>2. Len(second) \in Nat
  OBVIOUS
<1>3. Holds(second)
  BY <1>1, <1>2
<1> QED BY <1>3

-----------------------------------------------------------------------------
(* What a run of the parser is *)

\* A record of the fields of Run.
RunFields == {"s", "messages", "pending", "unresolved"}
IsRun(r) == r = [f \in RunFields |-> r[f]] /\ r.unresolved \in BOOLEAN

LEMMA RunExcept ==
  ASSUME NEW r, IsRun(r), NEW a
  PROVE  /\ IsRun([r EXCEPT !.s = a])
         /\ IsRun([r EXCEPT !.messages = a])
         /\ IsRun([r EXCEPT !.pending = a])
BY DEF IsRun, RunFields

LEMMA FlushedRuns ==
  ASSUME NEW r, IsRun(r), NEW model
  PROVE  /\ IsRun(flush_pending_model_messages(r, model))
         /\ IsRun(flush_pending_model_messages_as_unknown(r))
BY DEF IsRun, RunFields, flush_pending_model_messages, flush_pending_model_messages_as_unknown

LEMMA CountedRuns ==
  ASSUME NEW r0, IsRun(r0), NEW l
  PROVE  IsRun(token_count(r0, l))
<1> DEFINE model == IF l.model # {} THEN l.model ELSE r0.s.model
           named == [r0 EXCEPT !.s = [r0.s EXCEPT !.model = model]]
           r1 == IF model = {} THEN r0 ELSE flush_pending_model_messages(named, model)
           s == [r1.s EXCEPT !.baseline = {}]
           r == [r1 EXCEPT !.s = s]
           back == [r1 EXCEPT !.s = [s EXCEPT !.previous = l.total]]
           new == {tokens \in Increment(s, l) : tokens # {}}
           m == Message(s, l, CHOOSE t \in new : TRUE)
           s2 == [s EXCEPT !.previous = NextTotals(s, l), !.coverage = s.coverage \cup {s.turn},
                           !.announced = FALSE, !.prompted = FALSE]
           r2 == [r1 EXCEPT !.s = s2]
           counted1 == [r2 EXCEPT !.messages = Append(r2.messages, m)]
           counted2 == [r2 EXCEPT !.pending = Append(r2.pending, m)]
<1>1. token_count(r0, l) \in {r1, r, back, counted1, counted2}
  <2>1. token_count(r0, l) =
          IF forked_child_should_skip_inherited_snapshot(r1.s, l) THEN r1
          ELSE IF new = {} THEN IF GoesBack(s, l) THEN back ELSE r
          ELSE IF model # {} THEN counted1 ELSE counted2
    BY Zenon DEF token_count
  <2> HIDE DEF r1, r, back, counted1, counted2, new, model
  <2> QED BY <2>1
<1>2. IsRun(r1)
  <2>1. IsRun(named)
    BY Zenon, RunExcept
  <2> HIDE DEF model, named
  <2> QED BY <2>1, FlushedRuns
<1> HIDE DEF r1
<1>3. IsRun(r) /\ IsRun(back) /\ IsRun(r2)
  BY <1>2, Zenon, RunExcept
<1>4. IsRun(counted1) /\ IsRun(counted2)
  <2> HIDE DEF r2, m
  <2> QED BY <1>3, Zenon, RunExcept
<1> HIDE DEF r, back, counted1, counted2
<1> QED BY <1>1, <1>2, <1>3, <1>4

LEMMA ContextRuns ==
  ASSUME NEW r, IsRun(r), NEW l
  PROVE  IsRun(turn_context(r, l))
<1> DEFINE s == [r.s EXCEPT !.model = l.model, !.fast = r.s.selected /\ l.model # {}]
           r2 == [r EXCEPT !.s = s]
<1>1. IsRun(r2)
  BY Zenon, RunExcept
<1>2. turn_context(r, l) = IF l.model = {} THEN r2 ELSE flush_pending_model_messages(r2, l.model)
  BY Zenon DEF turn_context
<1> HIDE DEF r2
<1> QED BY <1>1, <1>2, FlushedRuns

LEMMA LineRuns ==
  ASSUME NEW r, IsRun(r), NEW l
  PROVE  IsRun(parse_line(r, l))
<1> DEFINE s == thread_settings_applied(TurnOf(r.s, l), l)
           ends == /\ s.waiting
                   /\ l.type = "turn_context"
                   /\ forked_child_turn_starts_own_session(s, l.turn)
           r1 == [r EXCEPT !.s = IF ends THEN EndReplay(s) ELSE s]
           r2 == IF l.model = {} /\ l.type \notin {"token_count", "session_meta"}
                 THEN flush_pending_model_messages_as_unknown(r1) ELSE r1
           replayed == [r EXCEPT !.s = Replayed(s, l)]
           meta == [r2 EXCEPT !.s = session_meta(r2.s, l)]
           prompted == [r2 EXCEPT !.s = [r2.s EXCEPT !.prompted = TRUE]]
<1>1. parse_line(r, l) \in
        {replayed, meta, turn_context(r2, l), prompted, token_count(r2, l), r2}
  <2>1. parse_line(r, l) =
          IF s.waiting /\ ~ends THEN replayed
          ELSE CASE l.type = "session_meta" -> meta
                 [] l.type = "turn_context" -> turn_context(r2, l)
                 [] l.type = "user_message" -> prompted
                 [] l.type = "token_count"  -> token_count(r2, l)
                 [] OTHER -> r2
    BY Zenon DEF parse_line
  <2> HIDE DEF replayed, meta, prompted, r2, s, ends
  <2> QED BY <2>1
<1>2. IsRun(replayed) /\ IsRun(r1)
  <2> HIDE DEF ends, s
  <2> QED BY Zenon, RunExcept
<1>3. IsRun(r2)
  <2> HIDE DEF r1
  <2> QED BY <1>2, FlushedRuns
<1>4. IsRun(meta) /\ IsRun(prompted)
  <2> HIDE DEF r2
  <2> QED BY <1>3, Zenon, RunExcept
<1>5. IsRun(turn_context(r2, l)) /\ IsRun(token_count(r2, l))
  <2> HIDE DEF r2
  <2> QED BY <1>3, ContextRuns, CountedRuns
<1> HIDE DEF replayed, meta, prompted, r2
<1> QED BY <1>1, <1>2, <1>3, <1>4, <1>5

LEMMA ParsesAreRuns ==
  ASSUME NEW T, NEW lines \in Seq(T), NEW r, IsRun(r)
  PROVE  IsRun(FoldLeft(parse_line, r, lines))
<1> DEFINE fails == {k \in Nat : \E t \in Seq(T) :
                       Len(t) = k /\ ~IsRun(FoldLeft(parse_line, r, t))}
<1>1. fails = {}
  <2> SUFFICES ASSUME fails # {} PROVE FALSE
    OBVIOUS
  <2>1. fails \in SUBSET Nat
    OBVIOUS
  <2>2. PICK k \in fails : \A m \in fails : k <= m
    <3> HIDE DEF fails
    <3> QED BY <2>1, LeastNumber
  <2>3. PICK t \in Seq(T) : Len(t) = k /\ ~IsRun(FoldLeft(parse_line, r, t))
    BY <2>2
  <2>4. t # <<>>
    BY <2>3, ParseOfNothing
  <2>5. PICK u \in Seq(T), l \in T : t = Append(u, l)
    BY <2>4, SequenceEmptyOrAppend
  <2>6. Len(u) \in Nat /\ k = Len(u) + 1
    BY <2>3, <2>5
  <2>7. Len(u) \notin fails
    <3> HIDE DEF fails
    <3> QED BY <2>2, <2>6
  <2>8. IsRun(FoldLeft(parse_line, r, u))
    BY <2>6, <2>7
  <2>9. FoldLeft(parse_line, r, t) = parse_line(FoldLeft(parse_line, r, u), l)
    BY <2>5, ParseOfAppend
  <2> QED BY <2>3, <2>8, <2>9, LineRuns
<1>2. Len(lines) \in Nat
  OBVIOUS
<1> QED BY <1>1, <1>2

-----------------------------------------------------------------------------
(* Stopping and going on *)

\* A parse that resolved all its rows ended with nothing but state and messages.
LEMMA ResolvedRun ==
  ASSUME NEW r, IsRun(r), ~flush_pending_model_messages_as_unknown(r).unresolved
  PROVE  /\ flush_pending_model_messages_as_unknown(r) = r
         /\ r = Run(r.s, r.messages)
<1>1. r.pending = <<>>
  BY DEF IsRun, RunFields, flush_pending_model_messages_as_unknown, flush_pending_model_messages
<1> QED BY <1>1 DEF IsRun, RunFields, Run, flush_pending_model_messages_as_unknown

\* Nothing is left to flush in what is stored.
LEMMA StoredRun ==
  ASSUME NEW s, NEW messages
  PROVE  /\ IsRun(Run(s, messages))
         /\ flush_pending_model_messages_as_unknown(Run(s, messages)) = Run(s, messages)
         /\ Run(s, messages).s = s /\ Run(s, messages).messages = messages
         /\ ~Run(s, messages).unresolved
BY DEF IsRun, RunFields, Run, flush_pending_model_messages_as_unknown

\* A sequence, of whatever there is in it.
IsSeq(x) == \E T : x \in Seq(T)

\* What the fold over an entry's lines ends with is what the entry holds.
EntryOK(e) ==
  /\ IsSeq(e.lines)
  /\ FoldLeft(parse_line, Run(FreshState, <<>>), e.lines) = Run(e.state, e.messages)

LEMMA FullParseIsRun ==
  ASSUME NEW lines, IsSeq(lines)
  PROVE  /\ IsRun(FoldLeft(parse_line, Run(FreshState, <<>>), lines))
         /\ FullParse(lines)
              = flush_pending_model_messages_as_unknown(
                  FoldLeft(parse_line, Run(FreshState, <<>>), lines))
<1>1. IsRun(Run(FreshState, <<>>))
  BY StoredRun
<1>2. PICK T : lines \in Seq(T)
  BY DEF IsSeq
<1>3. IsRun(FoldLeft(parse_line, Run(FreshState, <<>>), lines))
  BY <1>1, <1>2, ParsesAreRuns
<1> QED BY <1>3, Zenon DEF FullParse, parse_codex_reader

\* What is stored of a resolved parse is an entry.
LEMMA BuiltEntry ==
  ASSUME NEW lines, IsSeq(lines), NEW run, run = FullParse(lines), ~run.unresolved,
         NEW e, e.lines = lines, e.state = run.s, e.messages = run.messages
  PROVE  EntryOK(e)
<1> DEFINE f == FoldLeft(parse_line, Run(FreshState, <<>>), lines)
<1>1. IsRun(f) /\ run = flush_pending_model_messages_as_unknown(f)
  BY FullParseIsRun
<1> HIDE DEF f
<1>2. f = run /\ f = Run(f.s, f.messages)
  BY <1>1, ResolvedRun
<1> QED BY <1>2 DEF EntryOK, f

LEMMA EntryIsFullParse ==
  ASSUME NEW e, EntryOK(e)
  PROVE  FullParse(e.lines) = Run(e.state, e.messages)
BY FullParseIsRun, StoredRun DEF EntryOK

\* Going on from an entry with the lines after its own is a parse of all.
LEMMA ResumedIsFull ==
  ASSUME NEW e, EntryOK(e), NEW lines, IsSeq(lines),
         e.lines = lines \/ Resumes(e, lines)
  PROVE  parse_codex_reader(e.state, e.messages, SubSeq(lines, Len(e.lines) + 1, Len(lines)))
           = FullParse(lines)
<1> DEFINE fresh == Run(FreshState, <<>>)
           more == SubSeq(lines, Len(e.lines) + 1, Len(lines))
<1>1. PICK T : lines \in Seq(T)
  BY DEF IsSeq
<1>2. PICK T2 : e.lines \in Seq(T2)
  BY DEF EntryOK, IsSeq
<1>3. /\ Len(e.lines) \in Nat /\ Len(lines) \in Nat
      /\ Len(e.lines) <= Len(lines)
      /\ e.lines = SubSeq(lines, 1, Len(e.lines))
  <2>1. SubSeq(e.lines, 1, Len(e.lines)) = e.lines
    BY <1>2, SubSeqFull
  <2>2. Len(e.lines) \in Nat /\ Len(lines) \in Nat
    BY <1>1, <1>2
  <2>3. /\ Len(e.lines) <= Len(lines)
        /\ SubSeq(e.lines, 1, Len(e.lines)) = SubSeq(lines, 1, Len(e.lines))
    BY <2>2 DEF Resumes, IsStrictPrefix, IsPrefix
  <2> QED BY <2>1, <2>2, <2>3
<1>4. lines = e.lines \o more
  <2>1. SubSeq(lines, 1, Len(lines)) = lines
    BY <1>1, SubSeqFull
  <2>2. SubSeq(lines, 1, Len(e.lines)) \o SubSeq(lines, Len(e.lines) + 1, Len(lines))
          = SubSeq(lines, 1, Len(lines))
    <3> DEFINE k == Len(e.lines)
               n == Len(lines)
    <3>1. k \in 0 .. n /\ n \in k .. n /\ 1 \in 1 .. n + 1
      BY <1>3
    <3> HIDE DEF k, n
    <3>2. k \in 1 - 1 .. n
      BY <3>1
    <3> QED BY <1>1, <3>1, <3>2, ConcatAdjacentSubSeq DEF k, n
  <2> QED BY <1>3, <2>1, <2>2
<1>5. e.lines \in Seq(T) /\ more \in Seq(T)
  <2>1. \A i \in 1 .. Len(lines) : lines[i] \in T
    BY <1>1
  <2>2. SubSeq(lines, 1, Len(e.lines)) \in Seq(T)
    BY <1>3, <2>1
  <2>3. more \in Seq(T)
    BY <1>3, <2>1
  <2> QED BY <1>3, <2>2, <2>3
<1> HIDE DEF more
<1>6. FoldLeft(parse_line, fresh, e.lines \o more)
        = FoldLeft(parse_line, FoldLeft(parse_line, fresh, e.lines), more)
  BY <1>5, ParseOfPieces
<1>7. FoldLeft(parse_line, fresh, lines) = FoldLeft(parse_line, Run(e.state, e.messages), more)
  BY <1>4, <1>6 DEF EntryOK
<1>8. FullParse(lines) = flush_pending_model_messages_as_unknown(FoldLeft(parse_line, fresh, lines))
  BY FullParseIsRun
<1>9. parse_codex_reader(e.state, e.messages, more)
        = flush_pending_model_messages_as_unknown(
            FoldLeft(parse_line, Run(e.state, e.messages), more))
  BY Zenon DEF parse_codex_reader
<1> QED BY <1>7, <1>8, <1>9 DEF more

-----------------------------------------------------------------------------
(* What a scan holds of a rollout *)

\* A record of the fields of NotRead.
OutcomeFields == {"at", "lines", "tail", "resumed", "run", "entry", "drop", "rows"}
IsOutcome(o) == o = [f \in OutcomeFields |-> o[f]]

EntriesOK(entry) == entry = NoEntry \/ \E e : entry = {e} /\ EntryOK(e)

\* What was parsed is what a full parse gives, and left no row without a model
\* if it may be stored.
OutcomeOK(o) ==
  /\ IsOutcome(o)
  /\ o.at \in {"none", "todo", "again", "parsed", "done"}
  /\ o.at \in {"none", "parsed", "done"} => o.run = FullParse(o.lines)
  /\ o.at = "parsed" => ~o.run.unresolved
  /\ EntriesOK(o.entry)

LEMMA NotReadOK ==
  /\ OutcomeOK(NotRead) /\ OutcomeOK([NotRead EXCEPT !.at = "todo"])
  /\ NotRead.lines = <<>> /\ [NotRead EXCEPT !.at = "todo"].lines = <<>>
<1>1. FullParse(<<>>) = Run(FreshState, <<>>)
  <2>1. FullParse(<<>>) = flush_pending_model_messages_as_unknown(
                            FoldLeft(parse_line, Run(FreshState, <<>>), <<>>))
    BY Zenon DEF FullParse, parse_codex_reader
  <2>2. FoldLeft(parse_line, Run(FreshState, <<>>), <<>>) = Run(FreshState, <<>>)
    BY ParseOfNothing
  <2> QED BY <2>1, <2>2, StoredRun
<1> QED BY <1>1 DEF NotRead, OutcomeOK, IsOutcome, OutcomeFields, EntriesOK

LEMMA LoadedOutcome ==
  ASSUME NEW t \in Threads, load_or_parse_codex_source(t), IsSeq(log[t]),
         OutcomeOK(outcome[t]), EntriesOK(cache[t])
  PROVE  \E q : /\ OutcomeOK(q) /\ outcome' = [outcome EXCEPT ![t] = q]
                /\ q.lines \in {outcome[t].lines, log[t]}
<1> DEFINE lines == log[t]
           o == outcome[t]
           e == CHOOSE x \in cache[t] : TRUE
           warm == o.at = "todo" /\ cache[t] # NoEntry
           drop == cache[t] # NoEntry
           tailRun == parse_codex_reader(e.state, e.messages,
                                         SubSeq(lines, Len(e.lines) + 1, Len(lines)))
           full == FullParse(lines)
           more(tail) == IF warm /\ tail # "newline" /\ e.lines = lines THEN TRUE
                         ELSE warm /\ Resumes(e, lines)
           entryRun == Run(e.state, e.messages)
           known == [o EXCEPT !.at = "done", !.lines = lines, !.run = entryRun]
           resumed(tail) == [o EXCEPT !.at = "parsed", !.lines = lines, !.tail = tail,
                                      !.resumed = TRUE, !.run = tailRun]
           again == [o EXCEPT !.at = "again"]
           stage(tail) == IF tail = "cut" \/ full.unresolved THEN "done" ELSE "parsed"
           parsed(tail) == [o EXCEPT !.at = stage(tail), !.lines = lines, !.tail = tail,
                                     !.resumed = FALSE, !.run = full, !.drop = drop]
<1>1. PICK tail \in {"newline", "bare", "cut"} :
        outcome' = [outcome EXCEPT ![t] =
          IF warm /\ e.lines = lines /\ tail = "newline" THEN known
          ELSE IF more(tail) /\ tail # "cut" /\ ~tailRun.unresolved THEN resumed(tail)
          ELSE IF warm THEN again ELSE parsed(tail)]
  BY Zenon DEF load_or_parse_codex_source
<1>2. IsOutcome(o) /\ EntriesOK(o.entry)
  BY DEF OutcomeOK
<1>3. warm => EntryOK(e)
  BY DEF EntriesOK
<1>4. CASE warm /\ e.lines = lines /\ tail = "newline"
  <2>1. FullParse(lines) = entryRun
    BY <1>3, <1>4, EntryIsFullParse
  <2>2. OutcomeOK(known) /\ known.lines = lines
    <3> HIDE DEF o, lines, entryRun
    <3> QED BY <1>2, <2>1 DEF OutcomeOK, IsOutcome, OutcomeFields
  <2>3. outcome' = [outcome EXCEPT ![t] = known]
    <3> HIDE DEF known, resumed, again, parsed, tailRun, lines, e, warm, more
    <3> QED BY <1>1, <1>4
  <2> HIDE DEF known
  <2> QED BY <2>2, <2>3
<1>5. CASE more(tail) /\ tail # "cut" /\ ~tailRun.unresolved
           /\ ~(warm /\ e.lines = lines /\ tail = "newline")
  <2>1. warm /\ (e.lines = lines \/ Resumes(e, lines))
    <3> HIDE DEF warm, e, lines
    <3> QED BY <1>5
  <2>2. tailRun = FullParse(lines)
    <3>1. EntryOK(e)
      BY <1>3, <2>1
    <3> HIDE DEF e, warm
    <3> QED BY <2>1, <3>1, ResumedIsFull
  <2>3. OutcomeOK(resumed(tail)) /\ resumed(tail).lines = lines
    <3> HIDE DEF o, lines, tailRun
    <3> QED BY <1>2, <1>5, <2>2 DEF OutcomeOK, IsOutcome, OutcomeFields
  <2>4. outcome' = [outcome EXCEPT ![t] = resumed(tail)]
    <3> HIDE DEF known, resumed, again, parsed, tailRun, lines, e, warm, more
    <3> QED BY <1>1, <1>5
  <2> HIDE DEF resumed
  <2> QED BY <2>3, <2>4
<1>6. CASE warm /\ ~(more(tail) /\ tail # "cut" /\ ~tailRun.unresolved)
           /\ ~(warm /\ e.lines = lines /\ tail = "newline")
  <2>1. OutcomeOK(again) /\ again.lines = o.lines
    <3> HIDE DEF o
    <3> QED BY <1>2 DEF OutcomeOK, IsOutcome, OutcomeFields
  <2>2. outcome' = [outcome EXCEPT ![t] = again]
    <3> HIDE DEF known, resumed, again, parsed, tailRun, lines, e, warm, more
    <3> QED BY <1>1, <1>6
  <2> HIDE DEF again
  <2> QED BY <2>1, <2>2
<1>7. CASE ~warm
  <2>1. stage(tail) \in {"done", "parsed"} /\ (stage(tail) = "parsed" => ~full.unresolved)
    <3> HIDE DEF full
    <3> QED OBVIOUS
  <2>2. OutcomeOK(parsed(tail)) /\ parsed(tail).lines = lines
    <3> HIDE DEF o, lines, stage, drop
    <3> QED BY <1>2, <2>1 DEF OutcomeOK, IsOutcome, OutcomeFields
  <2>3. ~more(tail)
    <3> HIDE DEF warm
    <3> QED BY <1>7
  <2>4. outcome' = [outcome EXCEPT ![t] = parsed(tail)]
    <3> HIDE DEF known, resumed, again, parsed, tailRun, lines, e, warm, more
    <3> QED BY <1>1, <1>7, <2>3
  <2> HIDE DEF parsed
  <2> QED BY <2>2, <2>4
<1> QED
  <2> HIDE DEF warm, more, tailRun, e, lines
  <2> QED BY <1>4, <1>5, <1>6, <1>7

LEMMA BuiltOutcome ==
  ASSUME NEW t \in Threads, Build(t), IsSeq(log[t]), OutcomeOK(outcome[t])
  PROVE  \E q : /\ OutcomeOK(q) /\ outcome' = [outcome EXCEPT ![t] = q]
                /\ q.lines = outcome[t].lines
<1> DEFINE o == outcome[t]
           entry == build_codex_cache_entry(t)
           again == [o EXCEPT !.at = "again"]
           drop == o.drop /\ entry = NoEntry
           built == [o EXCEPT !.at = "done", !.entry = entry, !.drop = drop]
           stays == entry = NoEntry /\ o.resumed
<1>1. o.at = "parsed" /\ IsOutcome(o) /\ EntriesOK(o.entry)
  BY DEF Build, OutcomeOK
<1>2. o.run = FullParse(o.lines) /\ ~o.run.unresolved
  BY <1>1 DEF OutcomeOK
<1>3. EntriesOK(entry)
  <2>1. CASE log[t] = o.lines /\ o.tail = "newline"
    <3> DEFINE e == [lines |-> log[t], state |-> o.run.s, messages |-> o.run.messages]
    <3>1. entry = {e}
      BY <2>1 DEF build_codex_cache_entry
    <3>2. e.lines = log[t] /\ e.state = o.run.s /\ e.messages = o.run.messages
      OBVIOUS
    <3>3. EntryOK(e)
      <4> HIDE DEF e
      <4> QED BY <1>2, <2>1, <3>2, BuiltEntry
    <3> HIDE DEF e, entry
    <3> QED BY <3>1, <3>3 DEF EntriesOK
  <2>2. CASE ~(log[t] = o.lines /\ o.tail = "newline")
    BY <2>2 DEF build_codex_cache_entry, EntriesOK
  <2> QED BY <2>1, <2>2
<1>4. outcome' = [outcome EXCEPT ![t] = IF stays THEN again ELSE built]
  BY Zenon DEF Build
<1>5. /\ OutcomeOK(again) /\ again.lines = o.lines
      /\ OutcomeOK(built) /\ built.lines = o.lines
  <2> HIDE DEF o, entry, drop
  <2> QED BY <1>1, <1>2, <1>3 DEF OutcomeOK, IsOutcome, OutcomeFields
<1> HIDE DEF again, built, stays
<1> QED BY <1>4, <1>5

-----------------------------------------------------------------------------
(* The invariant *)

\* What Codex wrote, typed as far as it matters.
WorldOK ==
  /\ style \in Styles
  /\ turns \in 0 .. MaxTurns
  /\ thread \in [Threads -> Thread]
  /\ IsSeq(truth) /\ Len(truth) <= MaxResponses
  /\ writes \in 0 .. MaxWrites
  /\ log = [t \in Threads |-> log[t]]
  /\ \A t \in Threads : IsSeq(log[t])

\* A rollout being read holds a full parse of what was read of it, as does every
\* entry.
ScanOK ==
  /\ at \in {"idle", "read", "counted"}
  /\ outcome = [t \in Threads |-> outcome[t]]
  /\ \A t \in Threads :
       /\ EntriesOK(cache[t])
       /\ OutcomeOK(outcome[t])
       /\ at # "read" => outcome[t].at \in {"none", "done"}

CodexInv == WorldOK /\ ScanOK

LEMMA ShortSeqs ==
  /\ IsSeq(<<>>)
  /\ \A a : IsSeq(<<a>>)
  /\ \A a, b : IsSeq(<<a, b>>)
<1>1. <<>> \in Seq({})
  OBVIOUS
<1>2. \A a : <<a>> \in Seq({a})
  OBVIOUS
<1>3. \A a, b : <<a, b>> \in Seq({a, b})
  OBVIOUS
<1> QED BY <1>1, <1>2, <1>3, Zenon DEF IsSeq

LEMMA JoinedSeq ==
  ASSUME NEW x, IsSeq(x), NEW y, IsSeq(y)
  PROVE  IsSeq(x \o y)
<1>1. PICK S : x \in Seq(S)
  BY DEF IsSeq
<1>2. PICK T : y \in Seq(T)
  BY DEF IsSeq
<1>3. x \in Seq(S \cup T) /\ y \in Seq(S \cup T)
  BY <1>1, <1>2, SeqMonotonic
<1>4. x \o y \in Seq(S \cup T)
  BY <1>3, ConcatProperties
<1> QED BY <1>4, Zenon DEF IsSeq

LEMMA ParentLinesSeq ==
  ASSUME NEW positions, IsFiniteSet(positions)
  PROVE  IsSeq(ParentLines(positions))
<1> DEFINE n == Cardinality(positions)
           f(k) == log[Parent][CHOOSE i \in positions : Cardinality({j \in positions : j <= i}) = k]
           T == {f(k) : k \in 1 .. n}
<1>1. n \in Nat
  BY FS_CardinalityType
<1>2. ParentLines(positions) = [k \in 1 .. n |-> f(k)]
  BY DEF ParentLines
<1>3. \A k \in 1 .. n : f(k) \in T
  OBVIOUS
<1>4. ParentLines(positions) \in [1 .. n -> T]
  <2> HIDE DEF f, n, T
  <2> QED BY <1>2, <1>3
<1>5. ParentLines(positions) \in Seq(T)
  <2> HIDE DEF f, n, T
  <2> QED BY <1>1, <1>4, SeqDef
<1> QED BY <1>5, Zenon DEF IsSeq

LEMMA BoundNats == MaxResponses \in Nat /\ MaxTurns \in Nat /\ MaxWrites \in Nat
BY BoundsAreNat

LEMMA NoThreadOK == NoThread \in Thread /\ NoTurn \in Turns
<1>1. NoTurn \in Turns
  BY BoundNats DEF NoTurn, Turns
<1>2. NoThread \in Thread
  BY <1>1 DEF NoThread, Thread, Usage
<1> QED BY <1>1, <1>2

LEMMA InitCodex == Init => CodexInv
<1> SUFFICES ASSUME Init PROVE CodexInv
  OBVIOUS
<1>1. \A t \in Threads : [NoThread EXCEPT !.live = t = Parent] \in Thread
  BY NoThreadOK DEF Thread
<1>2. thread \in [Threads -> Thread]
  BY <1>1 DEF Init
<1>3. log = [t \in Threads |-> log[t]] /\ \A t \in Threads : IsSeq(log[t])
  <2> DEFINE line == [Line EXCEPT !.type = "session_meta", !.id = Parent,
                                  !.openclaw = style.originator]
  <2>1. log = [t \in Threads |-> IF t = Parent THEN <<line>> ELSE <<>>]
    BY Zenon DEF Init
  <2> HIDE DEF line
  <2> QED BY <2>1, ShortSeqs
<1>4. IsSeq(truth) /\ Len(truth) = 0
  BY ShortSeqs DEF Init
<1>5. WorldOK
  BY <1>2, <1>3, <1>4, BoundNats DEF Init, WorldOK
<1>6. NotRead.at = "none"
  BY Zenon DEF NotRead
<1>7. ScanOK
  BY <1>6, NotReadOK DEF Init, ScanOK, EntriesOK
<1> QED BY <1>5, <1>7 DEF CodexInv

\* What a write leaves as it should be.
LEMMA Written ==
  ASSUME WorldOK, NEW t \in Threads, NEW lines, IsSeq(lines), Write(t, lines)
  PROVE  /\ style' \in Styles
         /\ writes' \in 0 .. MaxWrites
         /\ log' = [x \in Threads |-> log'[x]]
         /\ \A x \in Threads : IsSeq(log'[x])
         /\ UNCHANGED scan
<1> DEFINE longer == log[t] \o lines
<1>1. IsSeq(longer)
  BY JoinedSeq DEF WorldOK
<1>2. log' = [log EXCEPT ![t] = longer]
  BY DEF Write
<1> HIDE DEF longer
<1>3. log' = [x \in Threads |-> log'[x]] /\ \A x \in Threads : IsSeq(log'[x])
  BY <1>1, <1>2 DEF WorldOK
<1> QED BY <1>3, BoundNats DEF Write, WorldOK

LEMMA SameScan ==
  ASSUME CodexInv, UNCHANGED scan
  PROVE  ScanOK'
BY DEF CodexInv, ScanOK, scan

LEMMA TurnBegins ==
  ASSUME CodexInv, NEW t \in Threads, BeginTurn(t)
  PROVE  CodexInv'
<1> DEFINE names(ms) == [n |-> turns + 1, ms |-> ms, v7 |-> style.v7]
           named == style.model = "context" \/ (style.model = "late" /\ turns > 0)
           start(turn) == IF Announces(t)
                          THEN <<[Line EXCEPT !.type = "task_started", !.turn = turn]>> ELSE <<>>
           context(turn) == <<[Line EXCEPT !.type = "turn_context",
                                           !.turn = IF style.ids THEN turn ELSE NoTurn,
                                           !.model = IF named THEN {"m"} ELSE {}]>>
           prompt == IF t = Parent \/ style.user
                     THEN <<[Line EXCEPT !.type = "user_message"]>> ELSE <<>>
           runs == thread[t].fast /\ named
<1>1. PICK ms \in IF Forked THEN {1, 2}
                 ELSE IF style.user \/ style.nested \/ ~style.v7 THEN {0} ELSE {0, 1} :
        /\ thread' = [thread EXCEPT ![t].turn = names(ms), ![t].last = {}, ![t].runs = runs]
        /\ Write(t, start(names(ms)) \o context(names(ms)) \o prompt)
  BY Zenon DEF BeginTurn
<1>2. IsSeq(start(names(ms)) \o context(names(ms)) \o prompt)
  <2>1. IsSeq(start(names(ms))) /\ IsSeq(context(names(ms))) /\ IsSeq(prompt)
    BY ShortSeqs, Zenon
  <2> HIDE DEF start, context, prompt, names
  <2> QED BY <2>1, JoinedSeq
<1>3. /\ turns + 1 \in 0 .. MaxTurns /\ turns' = turns + 1
      /\ UNCHANGED <<truth, mirror>>
  BY BoundNats DEF BeginTurn, CodexInv, WorldOK
<1>4. names(ms) \in Turns
  <2>1. style \in Style
    BY StylesAreStyles DEF CodexInv, WorldOK
  <2> QED BY <1>3, <2>1 DEF Turns, Style
<1>5. thread' \in [Threads -> Thread]
  <2> DEFINE x1 == [thread[t] EXCEPT !.turn = names(ms)]
             x2 == [x1 EXCEPT !.last = {}]
             x3 == [x2 EXCEPT !.runs = runs]
  <2>1. runs \in BOOLEAN
    OBVIOUS
  <2>2. thread \in [Threads -> Thread]
    BY DEF CodexInv, WorldOK
  <2>3. x1 \in Thread
    <3> HIDE DEF names
    <3> QED BY <1>4, <2>2 DEF Thread
  <2>4. x2 \in Thread
    <3> HIDE DEF x1
    <3> QED BY <2>3 DEF Thread, Usage
  <2>5. x3 \in Thread
    <3> HIDE DEF x2, runs
    <3> QED BY <2>1, <2>4 DEF Thread
  <2>6. thread' = [thread EXCEPT ![t] = x3]
    <3> HIDE DEF runs, names
    <3> QED BY <1>1, <2>2
  <2> HIDE DEF x3
  <2> QED BY <2>2, <2>5, <2>6
<1> HIDE DEF start, context, prompt, names, runs
<1>6. /\ style' \in Styles
      /\ writes' \in 0 .. MaxWrites
      /\ log' = [x \in Threads |-> log'[x]]
      /\ \A x \in Threads : IsSeq(log'[x])
      /\ UNCHANGED scan
  BY <1>1, <1>2, Written DEF CodexInv
<1>7. WorldOK'
  BY <1>3, <1>5, <1>6 DEF CodexInv, WorldOK
<1> QED BY <1>6, <1>7, SameScan DEF CodexInv

LEMMA ResponseComes ==
  ASSUME CodexInv, NEW t \in Threads, Respond(t)
  PROVE  CodexInv'
<1> DEFINE new == Len(truth) + 1
           total == thread[t].total \cup {new}
           fact == [thread |-> t, turn |-> thread[t].turn, fast |-> thread[t].runs]
           line == UsageLine(total, {new})
<1>1. PICK noise \in {<<>>, <<Line>>} : Write(t, noise \o <<line>>)
  BY DEF Respond
<1>2. /\ new <= MaxResponses
      /\ truth' = Append(truth, fact)
      /\ thread' = [thread EXCEPT ![t].total = total, ![t].last = {new}]
      /\ UNCHANGED <<turns, mirror>>
  BY DEF Respond
<1>3. IsSeq(noise \o <<line>>)
  <2> HIDE DEF line
  <2>1. IsSeq(noise) /\ IsSeq(<<line>>)
    BY ShortSeqs
  <2> QED BY <2>1, JoinedSeq
<1> HIDE DEF line
<1>4. /\ style' \in Styles
      /\ writes' \in 0 .. MaxWrites
      /\ log' = [x \in Threads |-> log'[x]]
      /\ \A x \in Threads : IsSeq(log'[x])
      /\ UNCHANGED scan
  BY <1>1, <1>3, Written DEF CodexInv
<1>5. IsSeq(truth') /\ Len(truth') = new /\ new \in 1 .. MaxResponses
  <2> HIDE DEF fact
  <2>1. PICK T : truth \in Seq(T)
    BY DEF CodexInv, WorldOK, IsSeq
  <2>2. truth \in Seq(T \cup {fact})
    BY <2>1, SeqMonotonic
  <2>3. truth' \in Seq(T \cup {fact}) /\ Len(truth') = Len(truth) + 1
    BY <1>2, <2>2
  <2>4. Len(truth) \in Nat
    BY <2>1
  <2>5. IsSeq(truth')
    BY <2>3, Zenon DEF IsSeq
  <2> QED BY <1>2, <2>3, <2>4, <2>5, BoundNats
<1>6. thread' \in [Threads -> Thread]
  <2>1. thread \in [Threads -> Thread]
    BY DEF CodexInv, WorldOK
  <2>2. total \in Usage /\ {new} \in Usage
    <3>1. thread[t].total \in Usage
      BY <2>1 DEF Thread
    <3> HIDE DEF new
    <3> QED BY <1>5, <3>1 DEF Usage
  <2> HIDE DEF total, new
  <2> QED BY <1>2, <2>1, <2>2 DEF Thread
<1>7. WorldOK'
  <2> HIDE DEF total, fact
  <2> QED BY <1>2, <1>4, <1>5, <1>6 DEF CodexInv, WorldOK
<1> QED BY <1>4, <1>7, SameScan DEF CodexInv

\* Writes that change nothing else but what Codex knows of its threads.
LEMMA LineComes ==
  ASSUME CodexInv, NEW t \in Threads, NEW lines, IsSeq(lines), Write(t, lines),
         thread' \in [Threads -> Thread], UNCHANGED <<turns, truth>>
  PROVE  CodexInv'
<1>1. /\ style' \in Styles
      /\ writes' \in 0 .. MaxWrites
      /\ log' = [x \in Threads |-> log'[x]]
      /\ \A x \in Threads : IsSeq(log'[x])
      /\ UNCHANGED scan
  BY Written DEF CodexInv
<1>2. WorldOK'
  BY <1>1 DEF CodexInv, WorldOK
<1> QED BY <1>1, <1>2, SameScan DEF CodexInv

LEMMA OtherLines ==
  ASSUME CodexInv, NEW t \in Threads, Repeat(t) \/ Select(t) \/ CopyLate
  PROVE  CodexInv'
<1>1. thread \in [Threads -> Thread]
  BY DEF CodexInv, WorldOK
<1>2. \A x : IsSeq(<<x>>)
  BY ShortSeqs
<1>3. CASE Repeat(t)
  <2>1. PICK x : Write(t, <<x>>)
    BY <1>3, Zenon DEF Repeat
  <2>2. UNCHANGED <<thread, turns, truth>>
    BY <1>3 DEF Repeat
  <2> QED BY <1>1, <1>2, <2>1, <2>2, LineComes
<1>4. CASE Select(t)
  <2>1. PICK x : Write(t, <<x>>)
    BY <1>4, Zenon DEF Select
  <2>2. /\ thread' = [thread EXCEPT ![t].fast = ~thread[t].fast]
        /\ UNCHANGED <<turns, truth>>
    BY <1>4 DEF Select
  <2>3. thread' \in [Threads -> Thread]
    <3> DEFINE fast == ~thread[t].fast
    <3>1. fast \in BOOLEAN
      OBVIOUS
    <3> HIDE DEF fast
    <3> QED BY <1>1, <2>2, <3>1 DEF Thread
  <2> QED BY <1>2, <2>1, <2>2, <2>3, LineComes
<1>5. CASE CopyLate
  <2>1. PICK x : Write(Child, <<x>>)
    BY <1>5, Zenon DEF CopyLate
  <2>2. UNCHANGED <<thread, turns, truth>> /\ Child \in Threads
    BY <1>5 DEF CopyLate, Threads
  <2> QED BY <1>1, <1>2, <2>1, <2>2, LineComes
<1> QED BY <1>3, <1>4, <1>5

LEMMA ForkComes ==
  ASSUME CodexInv, Fork
  PROVE  CodexInv'
<1> DEFINE copied(l) == IF style.embeds THEN l.type # "task_started" \/ style.nested
                        ELSE l.type = "token_count"
           positions == {i \in 2 .. Len(log[Parent]) : copied(log[Parent][i])}
           copies == ParentLines(positions)
           meta == [Line EXCEPT !.type = "session_meta", !.id = Child, !.from = Parent,
                                !.user = style.user]
           embedded == IF style.embeds THEN <<log[Parent][1]>> ELSE <<>>
           total == thread[Parent].total
<1>1. /\ Write(Child, (<<meta>> \o embedded) \o copies)
      /\ thread' = [thread EXCEPT ![Child] =
                      [NoThread EXCEPT !.live = TRUE, !.total = total, !.copied = total]]
      /\ UNCHANGED <<turns, truth>>
  BY Zenon DEF Fork
<1>2. IsSeq(copies)
  <2>1. PICK T : log[Parent] \in Seq(T)
    BY DEF CodexInv, WorldOK, IsSeq, Threads
  <2>2. IsFiniteSet(2 .. Len(log[Parent])) /\ positions \subseteq 2 .. Len(log[Parent])
    <3>1. Len(log[Parent]) \in Int /\ 2 \in Int
      BY <2>1
    <3> QED BY <3>1, FS_Interval
  <2>3. IsFiniteSet(positions)
    <3> HIDE DEF positions
    <3> QED BY <2>2, FS_Subset
  <2> HIDE DEF positions
  <2> QED BY <2>3, ParentLinesSeq
<1>3. IsSeq(<<meta>>) /\ IsSeq(embedded)
  BY ShortSeqs, Zenon
<1>4. IsSeq((<<meta>> \o embedded) \o copies)
  <2> HIDE DEF meta, embedded, copies
  <2>1. IsSeq(<<meta>> \o embedded)
    BY <1>3, JoinedSeq
  <2> QED BY <1>2, <2>1, JoinedSeq
<1>5. thread' \in [Threads -> Thread]
  <2>1. thread \in [Threads -> Thread] /\ Parent \in Threads
    BY DEF CodexInv, WorldOK, Threads
  <2>2. total \in Usage
    BY <2>1 DEF Thread
  <2> HIDE DEF total
  <2>3. [NoThread EXCEPT !.live = TRUE, !.total = total, !.copied = total] \in Thread
    BY <2>2, NoThreadOK DEF Thread
  <2> QED BY <1>1, <2>1, <2>3
<1>6. Child \in Threads
  BY DEF Threads
<1> HIDE DEF meta, embedded, copies
<1> QED BY <1>1, <1>4, <1>5, <1>6, LineComes

LEMMA LogRollsBack ==
  ASSUME CodexInv, RollBack
  PROVE  CodexInv'
<1> DEFINE shorter == Front(log[Parent])
           total == thread[Parent].total \ thread[Parent].last
<1>1. /\ log' = [log EXCEPT ![Parent] = shorter]
      /\ thread' = [thread EXCEPT ![Parent].total = total, ![Parent].last = {}]
      /\ writes < MaxWrites /\ writes' = writes + 1
      /\ UNCHANGED <<style, turns, truth, mirror, scan>>
  BY DEF RollBack
<1>2. Parent \in Threads
  BY DEF Threads
<1>3. IsSeq(shorter)
  <2>1. PICK T : log[Parent] \in Seq(T)
    BY <1>2 DEF CodexInv, WorldOK, IsSeq
  <2>2. \A i \in 1 .. Len(log[Parent]) - 1 : log[Parent][i] \in T
    BY <2>1
  <2>3. Len(log[Parent]) - 1 \in Int /\ 1 \in Int
    BY <2>1
  <2>4. SubSeq(log[Parent], 1, Len(log[Parent]) - 1) \in Seq(T)
    BY <2>2, <2>3, SubSeqProperties
  <2> QED BY <2>4, Zenon DEF IsSeq, Front
<1>4. thread' \in [Threads -> Thread]
  <2>1. thread \in [Threads -> Thread]
    BY DEF CodexInv, WorldOK
  <2>2. total \in Usage /\ {} \in Usage
    BY <1>2, <2>1 DEF Thread, Usage
  <2> HIDE DEF total
  <2> QED BY <1>1, <2>1, <2>2 DEF Thread
<1> HIDE DEF shorter, total
<1>5. WorldOK'
  BY <1>1, <1>2, <1>3, <1>4, BoundNats DEF CodexInv, WorldOK
<1> QED BY <1>1, <1>5, SameScan DEF CodexInv

LEMMA MirrorComes ==
  ASSUME CodexInv, Mirror
  PROVE  CodexInv'
<1>1. /\ thread' = [thread EXCEPT ![Parent].last = {}, ![Parent].turn = NoTurn]
      /\ UNCHANGED <<style, log, turns, truth, writes, scan>>
  BY DEF Mirror
<1>2. thread' \in [Threads -> Thread]
  <2>1. thread \in [Threads -> Thread]
    BY DEF CodexInv, WorldOK
  <2> QED BY <1>1, <2>1, NoThreadOK DEF Thread, Usage
<1>3. WorldOK'
  BY <1>1, <1>2 DEF CodexInv, WorldOK
<1> QED BY <1>1, <1>3, SameScan DEF CodexInv

LEMMA SameWorld ==
  ASSUME CodexInv, UNCHANGED world
  PROVE  WorldOK'
BY DEF CodexInv, WorldOK, world

LEMMA OutcomesReplaced ==
  ASSUME CodexInv, at = "read", NEW t \in Threads, NEW q, OutcomeOK(q),
         outcome' = [outcome EXCEPT ![t] = q], UNCHANGED <<world, cache, at>>
  PROVE  CodexInv'
<1>1. ScanOK'
  BY DEF CodexInv, ScanOK
<1> QED BY <1>1, SameWorld DEF CodexInv

LEMMA ScanStarts ==
  ASSUME CodexInv, StartScan
  PROVE  CodexInv'
<1>1. outcome' = [t \in Threads |-> IF Exists(t) THEN [NotRead EXCEPT !.at = "todo"] ELSE NotRead]
  BY DEF StartScan
<1>2. \A t \in Threads : OutcomeOK(outcome'[t])
  <2> DEFINE todo == [NotRead EXCEPT !.at = "todo"]
  <2>1. OutcomeOK(NotRead) /\ OutcomeOK(todo)
    BY NotReadOK
  <2>2. outcome' = [t \in Threads |-> IF Exists(t) THEN todo ELSE NotRead]
    BY <1>1
  <2> HIDE DEF todo
  <2> QED BY <2>1, <2>2
<1>3. outcome' = [t \in Threads |-> outcome'[t]]
  <2> DEFINE f(t) == IF Exists(t) THEN [NotRead EXCEPT !.at = "todo"] ELSE NotRead
  <2>1. outcome' = [t \in Threads |-> f(t)]
    BY <1>1
  <2> HIDE DEF f
  <2> QED BY <2>1
<1>4. at' = "read" /\ UNCHANGED <<world, cache>>
  BY DEF StartScan
<1>5. ScanOK'
  BY <1>2, <1>3, <1>4 DEF CodexInv, ScanOK
<1> QED BY <1>4, <1>5, SameWorld DEF CodexInv

LEMMA ScanReads ==
  ASSUME CodexInv, NEW t \in Threads, load_or_parse_codex_source(t) \/ Build(t)
  PROVE  CodexInv'
<1>1. IsSeq(log[t]) /\ OutcomeOK(outcome[t]) /\ EntriesOK(cache[t])
  BY DEF CodexInv, WorldOK, ScanOK
<1>2. at = "read" /\ UNCHANGED <<world, cache, at>>
  BY DEF load_or_parse_codex_source, Build
<1>3. \E q : OutcomeOK(q) /\ outcome' = [outcome EXCEPT ![t] = q]
  <2>1. CASE load_or_parse_codex_source(t)
    BY <1>1, <2>1, LoadedOutcome
  <2>2. CASE Build(t)
    BY <1>1, <2>2, BuiltOutcome
  <2> QED BY <2>1, <2>2
<1> QED BY <1>2, <1>3, OutcomesReplaced

LEMMA ScanCounts ==
  ASSUME CodexInv, Count
  PROVE  CodexInv'
<1> DEFINE q == [outcome[Parent] EXCEPT !.rows = mirror]
<1>1. /\ \A t \in Threads : outcome[t].at \in {"none", "done"}
      /\ at' = "counted"
      /\ UNCHANGED world
  BY DEF Count
<1>2. Parent \in Threads
  BY DEF Threads
<1>3. OutcomeOK(q) /\ q.at = outcome[Parent].at
  <2>1. OutcomeOK(outcome[Parent])
    BY <1>2 DEF CodexInv, ScanOK
  <2> QED BY <2>1 DEF OutcomeOK, IsOutcome, OutcomeFields
<1>4. outcome' = [outcome EXCEPT ![Parent] = q]
  BY Zenon DEF Count
<1>5. PICK saved \in SUBSET Threads :
        cache' = [t \in Threads |->
          IF t \notin saved THEN cache[t]
          ELSE IF outcome[t].entry # NoEntry THEN outcome[t].entry
          ELSE IF outcome[t].drop THEN NoEntry ELSE cache[t]]
  BY Zenon DEF Count
<1>6. \A t \in Threads : EntriesOK(cache'[t])
  <2> TAKE t \in Threads
  <2>1. EntriesOK(cache[t]) /\ EntriesOK(outcome[t].entry) /\ EntriesOK(NoEntry)
    BY DEF CodexInv, ScanOK, OutcomeOK, EntriesOK
  <2>2. \/ cache'[t] = cache[t] \/ cache'[t] = outcome[t].entry \/ cache'[t] = NoEntry
    BY <1>5
  <2> QED BY <2>1, <2>2
<1> HIDE DEF q
<1>7. ScanOK'
  BY <1>1, <1>2, <1>3, <1>4, <1>6 DEF CodexInv, ScanOK
<1> QED BY <1>1, <1>7, SameWorld DEF CodexInv

LEMMA ScanStops ==
  ASSUME CodexInv, Stop
  PROVE  CodexInv'
<1>1. NotRead.at = "none"
  BY Zenon DEF NotRead
<1>2. /\ outcome' = [t \in Threads |-> NotRead]
      /\ at' = "idle"
      /\ UNCHANGED <<world, cache>>
  BY DEF Stop
<1>3. ScanOK'
  BY <1>1, <1>2, NotReadOK DEF CodexInv, ScanOK
<1> QED BY <1>2, <1>3, SameWorld DEF CodexInv

LEMMA NextCodex ==
  ASSUME CodexInv, [Next]_vars
  PROVE  CodexInv'
<1>1. CASE UNCHANGED vars
  <2>1. UNCHANGED world /\ UNCHANGED scan
    BY <1>1 DEF vars, world, scan
  <2> QED BY <2>1, SameWorld, SameScan DEF CodexInv
<1>2. CASE \E t \in Threads : BeginTurn(t) \/ Respond(t) \/ Repeat(t) \/ Select(t)
  BY <1>2, TurnBegins, ResponseComes, OtherLines
<1>3. CASE CopyLate
  <2>1. Child \in Threads
    BY DEF Threads
  <2> QED BY <1>3, <2>1, OtherLines
<1>4. CASE Fork \/ RollBack \/ Mirror
  BY <1>4, ForkComes, LogRollsBack, MirrorComes
<1>5. CASE \E t \in Threads : load_or_parse_codex_source(t) \/ Build(t)
  BY <1>5, ScanReads
<1>6. CASE StartScan \/ Count \/ Stop
  BY <1>6, ScanStarts, ScanCounts, ScanStops
<1> QED BY <1>1, <1>2, <1>3, <1>4, <1>5, <1>6 DEF Next, Codex, Scan

LEMMA CodexInvariant == Spec => []CodexInv
<1>1. Init => CodexInv
  BY InitCodex
<1>2. CodexInv /\ [Next]_vars => CodexInv'
  BY NextCodex
<1> QED BY <1>1, <1>2, PTL DEF Spec

-----------------------------------------------------------------------------
(* Theorems *)

\* The state of Codex and of a scan has its type: a rollout has one stored entry
\* at most, and a scan that counts has read every rollout to its end.
THEOREM CodexTypes == Spec => []TypeOK
<1>1. CodexInv => TypeOK
  <2> SUFFICES ASSUME CodexInv PROVE TypeOK
    OBVIOUS
  <2>1. \A t \in Threads : Cardinality(cache[t]) <= 1
    <3> TAKE t \in Threads
    <3>1. EntriesOK(cache[t])
      BY DEF CodexInv, ScanOK
    <3>2. CASE cache[t] = {}
      BY <3>2, FS_EmptySet
    <3>3. CASE \E e : cache[t] = {e}
      <4>1. PICK e : cache[t] = {e}
        BY <3>3
      <4>2. Cardinality({e}) = 1
        BY FS_Singleton, Zenon
      <4> QED BY <4>1, <4>2
    <3> QED BY <3>1, <3>2, <3>3 DEF EntriesOK, NoEntry
  <2> QED BY <2>1 DEF CodexInv, WorldOK, ScanOK, OutcomeOK, TypeOK
<1> QED BY <1>1, CodexInvariant, PTL

\* Whatever the rollouts say and however often a scan stopped, was overtaken by
\* Codex or failed to save, a stored entry is what a parse of its lines from the
\* start gives, and so is what a scan counts: the parser may go on from any state
\* it stored.
THEOREM ResumedParsesAreFull == Spec => []ParsesAreFullParses
<1>1. CodexInv => ParsesAreFullParses
  <2> SUFFICES ASSUME CodexInv PROVE ParsesAreFullParses
    OBVIOUS
  <2>1. ASSUME NEW t \in Threads, NEW e \in cache[t]
        PROVE  FullParse(e.lines).s = e.state /\ FullParse(e.lines).messages = e.messages
    <3>1. EntryOK(e)
      BY <2>1 DEF CodexInv, ScanOK, EntriesOK, NoEntry
    <3>2. FullParse(e.lines) = Run(e.state, e.messages)
      BY <3>1, EntryIsFullParse
    <3> QED BY <3>2, StoredRun
  <2>2. ASSUME at = "counted", NEW t \in Threads
        PROVE  outcome[t].run = FullParse(outcome[t].lines)
    BY <2>2 DEF CodexInv, ScanOK, OutcomeOK
  <2> QED BY <2>1, <2>2 DEF ParsesAreFullParses
<1> QED BY <1>1, CodexInvariant, PTL
=============================================================================
