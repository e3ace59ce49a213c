-------------------------- MODULE MCWalletSession --------------------------
(* Small instances of WalletSession for TLC. *)
EXTENDS WalletSession, TLC

CONSTANTS k1, k2, t1, t2

MCKey == {k1, k2}
MCTask == {t1, t2}

MCScope(uses, expiry, intent, approval) ==
  [maxUses |-> uses, expiresAt |-> expiry, allowIntentSubmit |-> intent,
   allowApproval |-> approval, allowedGoalTypes |-> {"READ_ONLY"},
   maxGasPerIntent |-> 1, contracts |-> {"acc://game.acme"}]

\* A single use, for intents; no limit but an expiry, for approvals.
MCScopes ==
  {MCScope(1, never, "granted", "omitted"),
   MCScope(0, 0, "denied", "granted")}

\* One operation of each kind that a scope lets through, and an intent over
\* both the goal types and the gas budget.
MCOperations ==
  {[kind |-> "intent.submit", subject |-> "READ_ONLY", gas |-> 1],
   [kind |-> "intent.submit", subject |-> "DEPLOY", gas |-> 2],
   [kind |-> "approval.submit", subject |-> "", gas |-> 0],
   [kind |-> "contract", subject |-> "acc://game.acme", gas |-> 0]}

\* Tasks and keys are interchangeable, and no property is about liveness.
MCSymmetry == Permutations(MCTask) \cup Permutations(MCKey)

=============================================================================
