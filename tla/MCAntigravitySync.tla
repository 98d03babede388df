--------------------------- MODULE MCAntigravitySync ---------------------------
(* Processes, connections and sessions are interchangeable. *)
EXTENDS AntigravitySync, TLC

Symmetry == Permutations(Processes) \cup Permutations(Connections) \cup Permutations(Sessions)
=============================================================================
