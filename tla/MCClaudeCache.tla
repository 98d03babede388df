---------------------------- MODULE MCClaudeCache ----------------------------
(* Processes that scan are interchangeable. *)
EXTENDS ClaudeCache, TLC

Symmetry == Permutations(Processes)

Complications ==
  <<Cardinality({p \in Processes : pc[p] # "idle"}) > 1,
    \E f \in Files \ {1} : Exists(f) \/ disk[f] # NoEntry,
    issued \cap PathScoped # {}>>

\* Bound: a second process at work, a second transcript and a tool result are
\* looked at one at a time.
OneComplication == Cardinality({i \in DOMAIN Complications : Complications[i]}) <= 1
=============================================================================
