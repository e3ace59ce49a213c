-------------------------- MODULE MCGovernedResult --------------------------
(* Small instances of GovernedResult for TLC. *)
EXTENDS GovernedResult

MCOptions(failure, export, public, verify, require) ==
  [throwOnFailure |-> failure, throwOnIncomplete |-> TRUE, exportProof |-> export,
   publicProduction |-> public, verifyProofLocal |-> verify, require |-> require]

\* Nothing asked for; every artifact asked for; a public proof exported but
\* not required; and a required proof with failures thrown.
AllOptions ==
  {MCOptions(FALSE, FALSE, FALSE, FALSE, {}),
   MCOptions(TRUE, FALSE, FALSE, FALSE, {"plan", "outcome", "evidence", "anchor", "liveL0"}),
   MCOptions(FALSE, TRUE, TRUE, TRUE, {"plan"}),
   MCOptions(TRUE, TRUE, FALSE, TRUE, {"proof", "outcome"})}

=============================================================================
