---------------------------- MODULE MCStateRoot ----------------------------
(* A small instance of StateRoot for TLC. *)
EXTENDS StateRoot, TLC

CONSTANTS x, y, o, p

TwoRoots == {x, y}
TwoOutcomes == {o, p}
Second == {2}

Interchangeable == Permutations(TwoRoots) \cup Permutations(TwoOutcomes)

=============================================================================
