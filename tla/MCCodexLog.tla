------------------------------ MODULE MCCodexLog ------------------------------
(* The ways of writing that are looked at, one against another. *)
EXTENDS CodexLog, TLC

Current == [totals |-> "both", model |-> "context", ids |-> TRUE, v7 |-> TRUE,
            announce |-> TRUE, user |-> FALSE, embeds |-> TRUE, nested |-> FALSE,
            originator |-> FALSE, home |-> FALSE, mirrors |-> FALSE,
            speeds |-> FALSE, repeats |-> FALSE, trails |-> FALSE,
            restored |-> FALSE]

MCStyles ==
  {[Current EXCEPT !.speeds = TRUE],
   [Current EXCEPT !.user = TRUE],
   [Current EXCEPT !.nested = TRUE],
   [Current EXCEPT !.v7 = FALSE],
   [Current EXCEPT !.repeats = TRUE, !.embeds = FALSE],
   [Current EXCEPT !.trails = TRUE, !.embeds = FALSE],
   [Current EXCEPT !.model = "late", !.announce = FALSE],
   [Current EXCEPT !.model = "info", !.embeds = FALSE, !.restored = TRUE],
   [Current EXCEPT !.totals = "total", !.embeds = FALSE],
   [Current EXCEPT !.totals = "last", !.mirrors = TRUE],
   [Current EXCEPT !.originator = TRUE, !.mirrors = TRUE],
   [Current EXCEPT !.home = TRUE, !.mirrors = TRUE, !.ids = FALSE, !.embeds = FALSE]}

\* What the theorems about any set of styles ask of it.
ASSUME StylesAreReadable == \A st \in MCStyles : Readable(st)

Settings(t) == {i \in DOMAIN log[t] : log[t][i].type = "settings"}
Changed(t)  == outcome[t].at \in {"parsed", "done"} /\ outcome[t].lines # log[t]

\* Bounds: rollouts are read one after another, and what was read in full is
\* written again only for a mirror; each has two changes of speed; a fork is
\* looked at without an entry or an unfinished line of its parent or its own.
OneComplication ==
  /\ \A t \in Threads : Cardinality(Settings(t)) <= 2
  /\ Forked => cache[Parent] = NoEntry /\ \A t \in Threads : outcome[t].tail = "newline"
  /\ outcome[Child].at \in {"again", "parsed", "done"} => outcome[Parent].at = "done"
  /\ at = "read" => \A t \in Threads :
       Changed(t) => style.mirrors \/ outcome[t].at = "parsed" \/ outcome[t].entry = NoEntry
=============================================================================
