------------------------------- MODULE MCPage -------------------------------
(* A page that uses one of the browser libraries: @infrix/metamask,
   @infrix/prover, or of @infrix/verify the portable proofs or the state root
   accumulator.  They share no state: their states are added up here and not
   multiplied. *)
EXTENDS MetaMaskSubmit, ProverLoader, PortableProof, RootAccumulator, TLC

CONSTANTS
  Libraries,
  a, c, w1, w2, good, forged, unchecked,
  i1, i2, o1, o2, p1, p2, t1, t2, k1, k2, k3, k4, k5, k6

\* One account of the wallet is on the key page, one is not.  One wish is made
\* with the selected account, and again if it failed; the other names its account.
WalletAccounts == {a, c}
OnTheKeyPage == {a}
PageWishes == {w1, w2}
Tries == w1 :> 2 @@ w2 :> 1
PageOptions ==
  w1 :> {[address |-> None, challenge |-> "built", wait |-> TRUE, proof |-> TRUE],
         [address |-> None, challenge |-> "expired", wait |-> FALSE, proof |-> FALSE]}
  @@ w2 :> {[address |-> a, challenge |-> "fresh", wait |-> FALSE, proof |-> TRUE]}

AssetSources == {good, forged, unchecked}
ForgedSources == {forged, unchecked}
UncheckedSources == {unchecked}

\* One intent's bundle before and after it is anchored, with no approval, one of no
\* plan and one of a plan; another intent's, anchored and verified.
Bundle(id, outcome, links, approvals, profiles, status) ==
  [id |-> id, outcomeDigest |-> outcome, approvalEvidence |-> approvals, links |-> links,
   policyDecisions |-> IF approvals = {} THEN {} ELSE {"allow"}, trustAssumptions |-> profiles,
   anchorStatus |-> status, anchor |-> Absent,
   anchorTxHash |-> IF status = "pending" THEN Absent ELSE id,
   anchorBlockHeight |-> CASE status = "pending" -> 0 [] status = "anchored" -> 7 [] OTHER -> 8]
OtherBundle == Bundle(i2, o2, <<k4, k5, k6>>, {p2}, {t2}, "verified")
NodeBundles ==
  {OtherBundle} \cup
  {Bundle(i1, o1, <<k1, k2, k3>>, approvals, {t1}, status) :
     approvals \in {{}, {Zero}, {p1, Zero}}, status \in {"pending", "anchored", "verified"}}

TwoLeaves == {"a", "b"}

VARIABLE uses

vars == <<uses, submitVars, loaderVars, proofVars, tree>>

Init ==
  /\ uses \in Libraries
  /\ SubmitInit /\ LoaderInit /\ ProofInit /\ RootsInit
  /\ uses # "metamask" => selected = a /\ call[w1].options.wait

Next ==
  /\ UNCHANGED uses
  /\ \/ uses = "metamask" /\ SubmitNext /\ UNCHANGED <<loaderVars, proofVars, tree>>
     \/ uses = "prover" /\ LoaderNext /\ UNCHANGED <<submitVars, proofVars, tree>>
     \/ uses = "proofs" /\ ProofNext /\ UNCHANGED <<submitVars, loaderVars, tree>>
     \/ uses = "roots" /\ RootsNext /\ UNCHANGED <<submitVars, loaderVars, proofVars>>

Spec == Init /\ [][Next]_vars /\ LoaderFairness

=============================================================================
