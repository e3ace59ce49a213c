--------------------------- MODULE PortableProof ---------------------------
(***************************************************************************)
(* A portable evidence package.  The node exports an intent's bundle in a  *)
(* package and seals it with an export hash; the package passes through    *)
(* hands that may take a field from another package, lose one or seal it   *)
(* again; verifyPortablePackage of @infrix/verify judges it, and           *)
(* @infrix/proof-receipt and @infrix/widgets turn the verdict, and what an *)
(* L0 endpoint answers, into a receipt.                                    *)
(*                                                                         *)
(* A hash is the value that it is of: two are equal when what they are of  *)
(* is.  A list whose order no check looks at is a set.                     *)
(***************************************************************************)
EXTENDS Integers, Sequences

CONSTANTS
  Bundles,     \* the node's bundles, at every stage of their life
  Foreign,     \* the one of them whose package lends fields to others
  Network,     \* the name of an L0 network
  Zero,        \* 32 zero bytes
  Absent,        \* an absent value
  MaxChanges   \* bound on the fields changed outside the node

(* Of an approval the plan is kept that it is of, of a decision what it     *)
(* decides, of a trust assumption its profile, of a link its content hash.  *)
(* The field `anchor` is one that verifiers read and the node never writes. *)
BundleFields ==
  {"id", "outcomeDigest", "approvalEvidence", "policyDecisions", "trustAssumptions", "links",
   "anchorStatus", "anchor", "anchorTxHash", "anchorBlockHeight"}

Anchored(b) == b.anchorStatus \in {"anchored", "verified"}

\* What the node sees to in a bundle that it seals.
BundleOfNode(b) ==
  /\ DOMAIN b = BundleFields
  /\ b.outcomeDigest # Zero
  /\ Len(b.links) = 3
  /\ b.anchor = Absent
  /\ Anchored(b) => b.anchorTxHash # Absent /\ b.anchorBlockHeight # 0

ASSUME BundlesAssumption ==
  Foreign \in Bundles /\ Absent \notin Bundles /\ \A b \in Bundles : BundleOfNode(b)

VARIABLES
  pkg,      \* the package as it is now, or none
  changes,  \* bound: fields changed so far
  resealed, \* someone but the node has computed its export hash
  asked,    \* the package and the options that an L0 endpoint is asked about, or none
  confirmed,\* history: packages that the endpoint has confirmed
  receipt   \* the receipt, or none

proofVars == <<pkg, changes, resealed, asked, confirmed, receipt>>

-----------------------------------------------------------------------------
(***************************************************************************)
(* The package                                                             *)
(***************************************************************************)

\* Mutant: the replay capsule is left out, as it was before version 4.
CommittedBefore4(p) ==
  <<p.version, p.bundleData, p.planHash, p.outcomeDigest, p.trustSnapshot, p.inclusionProofs,
    p.anchorProof, p.anchorTxHash, p.anchorBlockHeight, p.pluginVersions, p.policyDecisionDigest>>

\* What the export hash is of: everything but itself and the witnesses' receipts.
Committed(p) ==
  <<p.version, p.bundleData, p.planHash, p.outcomeDigest, p.trustSnapshot, p.inclusionProofs,
    p.anchorProof, p.anchorTxHash, p.anchorBlockHeight, p.pluginVersions, p.policyDecisionDigest,
    p.replayCapsule>>

PolicyDigest(decisions) == IF decisions = {} THEN Zero ELSE <<decisions>>

\* The plans that a bundle's approvals are of; some of them are of none.
ApprovalPlans(b) == b.approvalEvidence \ {Zero}

\* The plan that a package names: one approved, or the outcome where nothing was approved.
PlansOf(b) == IF ApprovalPlans(b) = {} THEN {b.outcomeDigest} ELSE ApprovalPlans(b)

\* The tree over a chain of three links, whose odd last link is paired with itself.
ChainRoot(l) == <<<<l[1], l[2]>>, <<l[3], l[3]>>>>
InclusionProofs(l) ==
  {[contentHash |-> l[1], linkIndex |-> 0, proof |-> <<l[2], <<l[3], l[3]>>>>, chainHash |-> ChainRoot(l)],
   [contentHash |-> l[2], linkIndex |-> 1, proof |-> <<l[1], <<l[3], l[3]>>>>, chainHash |-> ChainRoot(l)],
   [contentHash |-> l[3], linkIndex |-> 2, proof |-> <<l[3], <<l[1], l[2]>>>>, chainHash |-> ChainRoot(l)]}

\* What the node exports of a bundle before it seals it, and the package.
Unsealed(b, plan, capsule) ==
  [version |-> "4", bundleData |-> b, planHash |-> plan, outcomeDigest |-> b.outcomeDigest,
   trustSnapshot |-> {[profileId |-> t, blockHeight |-> 1] : t \in b.trustAssumptions},
   inclusionProofs |-> InclusionProofs(b.links),
   anchorProof |-> IF Anchored(b) THEN b.id ELSE Absent,
   anchorTxHash |-> b.anchorTxHash, anchorBlockHeight |-> b.anchorBlockHeight,
   pluginVersions |-> {"named"}, policyDecisionDigest |-> PolicyDigest(b.policyDecisions),
   replayCapsule |-> capsule, exportHash |-> <<>>]
SealOf(p) == [p EXCEPT !.exportHash = Committed(p)]

\* The replay capsule is of the bundle's intent; not every package has one.
Exports(b) == {SealOf(Unsealed(b, plan, c)) : plan \in PlansOf(b), c \in {b.id, Absent}}

\* A field that is lost on the way, or that reads as if it were.
Blank ==
  [version |-> "3", bundleData |-> Absent, planHash |-> Zero, outcomeDigest |-> Zero,
   trustSnapshot |-> {}, inclusionProofs |-> {}, anchorProof |-> Absent, anchorTxHash |-> Absent,
   anchorBlockHeight |-> 0, pluginVersions |-> {"partial"}, policyDecisionDigest |-> Zero,
   replayCapsule |-> Absent, exportHash |-> <<>>]

-----------------------------------------------------------------------------
(***************************************************************************)
(* verifyPortablePackage, check by check                                   *)
(***************************************************************************)

ExportHashMatches(p) == p.exportHash = Committed(p)

PlanIsBound(p) == p.planHash # Zero /\ p.planHash \in PlansOf(p.bundleData)

OutcomeIsBound(p) == p.outcomeDigest # Zero /\ p.outcomeDigest = p.bundleData.outcomeDigest

\* Mutant: left and right the other way round.
ParentSwapped(computed, sibling, idx) ==
  IF idx % 2 = 0 THEN <<sibling, computed>> ELSE <<computed, sibling>>
Parent(computed, sibling, idx) ==
  IF idx % 2 = 0 THEN <<computed, sibling>> ELSE <<sibling, computed>>

\* Up the tree of three links there are two levels.
Reconstructs(proof) ==
  LET parent == Parent(proof.contentHash, proof.proof[1], proof.linkIndex)
  IN proof.chainHash = Parent(parent, proof.proof[2], proof.linkIndex \div 2)

\* Mutant: the anchor's state is looked for under another name.
AnchorStateMisread(b) == b.anchor
AnchorState(b) == b.anchorStatus

AnchorIsBound(p) ==
  AnchorState(p.bundleData) \in {"anchored", "verified"} =>
    /\ p.anchorProof = p.bundleData.id
    /\ p.bundleData.anchorTxHash # Absent => p.anchorTxHash = p.bundleData.anchorTxHash
    /\ p.bundleData.anchorBlockHeight # 0 => p.anchorBlockHeight = p.bundleData.anchorBlockHeight

TrustIsBound(p) ==
  \A s \in p.trustSnapshot :
    /\ s.blockHeight # 0
    /\ p.bundleData.trustAssumptions # {} => s.profileId \in p.bundleData.trustAssumptions

PolicyIsBound(p) == p.policyDecisionDigest = PolicyDigest(p.bundleData.policyDecisions)

\* Each check is reached only when those before it have passed.
Passed(p) ==
  /\ p.version = "4"
  /\ ExportHashMatches(p)
  /\ p.bundleData # Absent
  /\ PlanIsBound(p)
  /\ OutcomeIsBound(p)
  /\ \A proof \in p.inclusionProofs : Reconstructs(proof)
  /\ AnchorIsBound(p)
  /\ TrustIsBound(p)
  /\ PolicyIsBound(p)
  /\ "partial" \notin p.pluginVersions

-----------------------------------------------------------------------------
(***************************************************************************)
(* Receipts                                                                *)
(***************************************************************************)

Receipt(p, l0Verified, network) ==
  [of |-> p, status |-> IF Passed(p) THEN "verified" ELSE "failed", l0Verified |-> l0Verified,
   proofLevel |-> IF ~Passed(p) THEN "L0" ELSE IF l0Verified THEN "L4" ELSE "L3", network |-> network]

\* What validateReceipt finds wrong with a receipt.
Overclaims(r) ==
  {flaw \in {"nothing shown", "L4 unconfirmed", "unnamed network"} :
    CASE flaw = "nothing shown" -> r.status = "verified" /\ ~r.l0Verified /\ r.proofLevel = "L0"
      [] flaw = "L4 unconfirmed" -> r.proofLevel = "L4" /\ ~r.l0Verified
      [] flaw = "unnamed network" -> r.l0Verified /\ r.network = Absent}

-----------------------------------------------------------------------------
(***************************************************************************)
(* Specification                                                           *)
(***************************************************************************)

ProofInit ==
  /\ pkg = Absent /\ changes = 0 /\ resealed = FALSE
  /\ asked = Absent /\ confirmed = {} /\ receipt = Absent

\* A client exports a bundle, at whatever stage of its life; for public production
\* it refuses a package without a replay capsule.
ExportPortable ==
  /\ pkg = Absent
  /\ \E b \in Bundles, profile \in {"public_production", "other"} : \E e \in Exports(b) :
       /\ profile = "public_production" => e.replayCapsule # Absent
       /\ pkg' = e
  /\ UNCHANGED <<changes, resealed, asked, confirmed, receipt>>

InTransit == pkg # Absent /\ asked = Absent /\ receipt = Absent

\* A field comes from another package, or is lost.
Change ==
  /\ InTransit
  /\ changes < MaxChanges
  /\ \E f \in DOMAIN Blank : \E other \in {Blank} \cup Exports(Foreign) :
       pkg' = [pkg EXCEPT ![f] = other[f]]
  /\ changes' = changes + 1
  /\ UNCHANGED <<resealed, asked, confirmed, receipt>>

\* Who is not the node computes the export hash of what the package holds.
Reseal ==
  /\ InTransit /\ ~resealed
  /\ pkg' = SealOf(pkg)
  /\ resealed' = TRUE
  /\ UNCHANGED <<changes, asked, confirmed, receipt>>

\* verifyProof: offline, whatever network the caller names.
VerifyProof ==
  /\ InTransit
  /\ \E network \in {Absent, Network} : receipt' = Receipt(pkg, FALSE, network)
  /\ UNCHANGED <<pkg, changes, resealed, asked, confirmed>>

\* Mutant: the endpoint is asked about a package that did not pass, too.
IsAskedAnyway(p, l0) == l0
\* An endpoint is asked about a package that passed, if the caller names one.
IsAsked(p, l0) == l0 /\ Passed(p)

\* verifyBundle up to its request of the endpoint, if it makes one.
VerifyBundle ==
  /\ InTransit
  /\ \E l0 \in BOOLEAN, network \in {Absent, Network} :
       IF IsAsked(pkg, l0)
       THEN asked' = [of |-> pkg, network |-> network] /\ UNCHANGED receipt
       ELSE receipt' = Receipt(pkg, FALSE, Absent) /\ UNCHANGED asked
  /\ UNCHANGED <<pkg, changes, resealed, confirmed>>

\* The endpoint confirms the anchor, and may name the network.
Confirmed ==
  /\ asked # Absent
  /\ confirmed' = confirmed \cup {asked.of}
  /\ \E network \in {asked.network, Network} : receipt' = Receipt(asked.of, TRUE, network)
  /\ asked' = Absent
  /\ UNCHANGED <<pkg, changes, resealed>>

\* The endpoint does not confirm it, refuses the request or is not reached.
NotConfirmed ==
  /\ asked # Absent
  /\ receipt' = Receipt(asked.of, FALSE, Absent)
  /\ asked' = Absent
  /\ UNCHANGED <<pkg, changes, resealed, confirmed>>

ProofNext ==
  ExportPortable \/ Change \/ Reseal \/ VerifyProof \/ VerifyBundle \/ Confirmed \/ NotConfirmed

ProofSpec == ProofInit /\ [][ProofNext]_proofVars

-----------------------------------------------------------------------------
(***************************************************************************)
(* Properties                                                              *)
(***************************************************************************)

(* What the node writes passes: the checks, which mirror the node's own     *)
(* verifier, refuse no package that is as it was exported, at whatever      *)
(* stage of its bundle's life and with approvals of no plan among others.   *)
ExportsAccepted == pkg # Absent /\ changes = 0 => Passed(pkg)

(* A package that no one but the node has sealed passes only if it is, in   *)
(* everything but the witnesses' receipts, one that the node exported:      *)
(* fields of several packages, or fields lost, do not add up to a proof.    *)
AcceptedWasExported ==
  pkg # Absent /\ ~resealed /\ Passed(pkg) => \E b \in Bundles : pkg \in Exports(b)

(* Whoever has sealed it, a package that passes with a bundle of the node's *)
(* inside says of the plan, the outcome, the decisions and, where the       *)
(* bundle is anchored, of the anchor nothing but what the bundle says.      *)
PackageSaysWhatItsBundleDoes ==
  pkg # Absent /\ pkg.bundleData \in Bundles /\ Passed(pkg) =>
    \E e \in Exports(pkg.bundleData) :
      /\ pkg.planHash = e.planHash
      /\ pkg.outcomeDigest = e.outcomeDigest
      /\ pkg.policyDecisionDigest = e.policyDecisionDigest
      /\ Anchored(pkg.bundleData) =>
           /\ pkg.anchorProof = e.anchorProof
           /\ pkg.anchorTxHash = e.anchorTxHash
           /\ pkg.anchorBlockHeight = e.anchorBlockHeight

(* A receipt claims no more than was shown: it is of a package that passed  *)
(* if it says "verified", it is L4 only if an endpoint has confirmed that   *)
(* very package and the package passed, and validateReceipt objects to it   *)
(* only where the endpoint confirmed without naming a network.              *)
ReceiptClaimsWhatWasShown ==
  receipt # Absent =>
    /\ receipt.status = "verified" <=> Passed(receipt.of)
    /\ receipt.l0Verified => Passed(receipt.of) /\ receipt.of \in confirmed
    /\ receipt.proofLevel = "L4" => receipt.l0Verified
    /\ Overclaims(receipt) = IF receipt.l0Verified /\ receipt.network = Absent
                             THEN {"unnamed network"} ELSE {}

-----------------------------------------------------------------------------
(***************************************************************************)
(* verifyLocalProof of @infrix/client, on the same package                 *)
(***************************************************************************)

LocalProofLevel(p) ==
  IF p.bundleData.anchor \in {"anchored", "verified"} THEN "L3" ELSE "L0"

(* "Offline, an anchored bundle caps at L3" (proofs/verifyLocal.ts): of an  *)
(* anchored bundle that the node exported verifyLocalProof reports L3.      *)
AnchoredIsL3 ==
  pkg # Absent /\ changes = 0 /\ Anchored(pkg.bundleData) => LocalProofLevel(pkg) = "L3"

=============================================================================
