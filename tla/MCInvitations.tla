--------------------------- MODULE MCInvitations ---------------------------
EXTENDS Invitations, TLC

\* People, teams and request slots are interchangeable.  Used by the runs that
\* check no liveness.
Symmetry ==
  Permutations(People) \cup Permutations(Teams) \cup Permutations(Requests)
=============================================================================
