--------------------------- MODULE MCClientJobs ---------------------------
EXTENDS ClientJobs, TLC
CONSTANTS j1, j2, w1, w2
\* Two jobs at one jobsite and position.
PlaceValue == [j \in Jobs |-> "site"]
Symmetry == Permutations({j1, j2}) \cup Permutations({w1, w2})
===========================================================================
