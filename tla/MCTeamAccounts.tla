--------------------------- MODULE MCTeamAccounts ---------------------------
EXTENDS TeamAccounts, TLC

Symmetry ==
  Permutations(Users) \cup Permutations(TeamIds)
    \cup Permutations(GroupIds) \cup Permutations(Requests)
=============================================================================
