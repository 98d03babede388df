------------------------------ MODULE MCSubmit ------------------------------
EXTENDS Submit, TLC

\* Machines, cloud sessions, clients and request slots are interchangeable.
Symmetry ==
  Permutations(Machines) \cup Permutations(Clouds) \cup Permutations(Requests)
=============================================================================
