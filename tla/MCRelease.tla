----------------------------- MODULE MCRelease -----------------------------
(* Small instances of Release for TLC. *)
EXTENDS Release, TLC

CONSTANTS r1, r2, a, b

TwoRuns == {r1, r2}
OneRun == {r1}
TwoPayloads == {a, b}

\* Two commits: the second changes package 1 and does not build package 2
\* reproducibly.
DifferentCommits ==
  (r1 :> <<{a}, {a}>>) @@ (r2 :> <<{b}, {a, b}>>)

\* Every run on one commit.
SameCommit == [r \in Runs |-> [p \in Packages |-> {a}]]

\* Nothing released yet; package 1 released by hand from the first commit.
FreshOrBootstrapped == {<<None, None>>, <<a, None>>}
Fresh == {[p \in Packages |-> None]}

=============================================================================
