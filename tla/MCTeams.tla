------------------------------ MODULE MCTeams ------------------------------
EXTENDS Teams, TLC

\* Users, teams, groups and request slots are interchangeable.
Symmetry ==
  Permutations(Users) \cup Permutations(TeamIds)
    \cup Permutations(GroupIds) \cup Permutations(Requests)
=============================================================================
