--------------------------- MODULE GovernedResult ---------------------------
(***************************************************************************)
(* waitForGovernedResult of @infrix/sdk: poll an intent until the node     *)
(* calls it terminal or the deadline passes, hydrate the result from the   *)
(* outcome record and a portable proof, then return it or throw.           *)
(*                                                                         *)
(* The node runs beside it.  An intent turns terminal first; its outcome   *)
(* record, its evidence bundles and its anchor become readable later, each *)
(* on its own, and any request may fail.  The code between two awaits is   *)
(* one action.                                                             *)
(***************************************************************************)
EXTENDS Integers, Sequences, FiniteSets

\* An id that is blank, null or undefined in the code is "none" here.
CONSTANTS
  Options,      \* the ResultCompletenessOptions a caller may pass
  MaxWait,      \* maxWaitMs
  PollInterval, \* pollIntervalMs
  MaxClock,     \* bound on the clock
  MaxBundles    \* bound on the evidence bundles of the intent

Artifacts == {"plan", "outcome", "evidence", "anchor", "proof", "liveL0"}

\* The require* flags are the set of required artifacts.
OptionsType ==
  [throwOnFailure : BOOLEAN, throwOnIncomplete : BOOLEAN, exportProof : BOOLEAN,
   publicProduction : BOOLEAN, verifyProofLocal : BOOLEAN, require : SUBSET Artifacts]

ASSUME OptionsAssumption == Options \subseteq OptionsType
ASSUME TimeAssumption ==
  /\ MaxWait \in Nat
  /\ PollInterval \in Nat \ {0}
  /\ MaxClock \in Nat
  /\ MaxClock >= MaxWait + PollInterval
ASSUME BundlesAssumption == MaxBundles \in Nat

VARIABLES
  \* The node
  intent,     \* lifecycle status of the intent
  plan,       \* the id of its plan, "none" when it has no plan stage
  outcome,    \* its outcome record, NoOutcome until there is one
  bundles,    \* the ids of its evidence bundles, in listing order
  \* The caller's wait
  opts, clock, deadline, wakeAt,
  pc,
  observed,   \* the status the last poll read
  exporting,  \* the evidence id attachProof chose
  result,     \* the GovernedResult built so far
  ended,      \* how the promise settled
  \* History
  latePolls,  \* polls sent when the deadline had passed
  listed      \* the bundles attachProof was shown

node == <<intent, plan, outcome, bundles>>
history == <<latePolls, listed>>
vars == <<intent, plan, outcome, bundles, opts, clock, deadline, wakeAt, pc,
          observed, exporting, result, ended, latePolls, listed>>

Terminal == {"completed", "failed", "cancelled"}

Canonical == "canonical"  \* ev-<intentId>
BundleId == {Canonical, "other", "none"}  \* "none": a bundle with no string id

NoOutcome == [id |-> "none", planId |-> "none", evidenceId |-> "none", anchorId |-> "none",
              finality |-> "none", ok |-> FALSE]

OutcomeType ==
  [id : {"none", "outcome"}, planId : {"none", "plan"}, evidenceId : {"none", Canonical},
   anchorId : {"none", "anchor"}, finality : {"none", "local", "l0_anchored_final"},
   ok : BOOLEAN]

Package == {"complete", "noCapsule", "unreadable"}
NoProof == "none"

ResultType ==
  [status : {"none", "timeout"} \cup Terminal, planId : {"none", "plan"},
   outcomeId : {"none", "outcome"}, evidenceId : {"none", Canonical}, anchorId : {"none", "anchor"},
   finality : {"none", "local", "l0_anchored_final"}, gasAvailable : BOOLEAN,
   planSkipped : BOOLEAN, failureReason : BOOLEAN,
   proof : Package \cup {NoProof}, proofAvailable : BOOLEAN]

\* A result with nothing hydrated.
Blank(status) ==
  [status |-> status, planId |-> "none", outcomeId |-> "none", evidenceId |-> "none",
   anchorId |-> "none", finality |-> "none", gasAvailable |-> FALSE,
   planSkipped |-> FALSE, failureReason |-> FALSE,
   proof |-> NoProof, proofAvailable |-> FALSE]

TypeOK ==
  /\ intent \in {"pending"} \cup Terminal
  /\ plan \in {"none", "plan"}
  /\ outcome \in OutcomeType
  /\ bundles \in Seq(BundleId)
  /\ opts \in OptionsType
  /\ clock \in Nat
  /\ deadline \in Nat
  /\ wakeAt \in Nat
  /\ pc \in {"send", "polling", "sleeping", "outcome", "bundles", "export", "done"}
  /\ observed \in {"pending"} \cup Terminal
  /\ exporting \in BundleId
  /\ result \in ResultType
  /\ ended \in {"open", "returned", "governanceError", "incompleteError", "proofError", "rejected"}
  /\ latePolls \in Nat
  /\ listed \in Seq(BundleId)

Init ==
  /\ intent = "pending"
  /\ plan = "none"
  /\ outcome = NoOutcome
  /\ bundles = <<>>
  /\ opts \in Options
  /\ clock = 0
  /\ deadline = MaxWait
  /\ wakeAt = 0
  /\ pc = "send"
  /\ observed = "pending"
  /\ exporting = "none"
  /\ result = Blank("none")
  /\ ended = "open"
  /\ latePolls = 0
  /\ listed = <<>>

-----------------------------------------------------------------------------
(***************************************************************************)
(* The node, as far as the SDK's reads show it                             *)
(***************************************************************************)

wait == <<opts, deadline, wakeAt, pc, observed, exporting, result, ended, history>>

NodePlans ==
  /\ intent = "pending"
  /\ plan = "none"
  /\ plan' = "plan"
  /\ UNCHANGED <<intent, outcome, bundles, clock, wait>>

NodeFinishes(status) ==
  /\ intent = "pending"
  /\ intent' = status
  /\ UNCHANGED <<plan, outcome, bundles, clock, wait>>

NodeRecordsOutcome(evidenceId) ==
  /\ intent \in Terminal
  /\ outcome = NoOutcome
  /\ outcome' = [id |-> "outcome", planId |-> plan,
                 evidenceId |-> evidenceId, anchorId |-> "none",
                 finality |-> "local", ok |-> intent = "completed"]
  /\ UNCHANGED <<intent, plan, bundles, clock, wait>>

NodeAnchors ==
  /\ outcome # NoOutcome
  /\ outcome.anchorId = "none"
  /\ outcome' = [outcome EXCEPT !.anchorId = "anchor", !.finality = "l0_anchored_final"]
  /\ UNCHANGED <<intent, plan, bundles, clock, wait>>

NodeListsBundle(id) ==
  /\ Len(bundles) < MaxBundles
  /\ bundles' = Append(bundles, id)
  /\ UNCHANGED <<intent, plan, outcome, clock, wait>>

Tick ==
  /\ clock < MaxClock
  /\ clock' = clock + 1
  /\ UNCHANGED <<node, wait>>

-----------------------------------------------------------------------------
(***************************************************************************)
(* Settling                                                                *)
(***************************************************************************)

\* Mutant: the anchor and its finality are taken for granted.
MissingIds(r) ==
  {a \in opts.require :
     \/ a = "plan" /\ r.planId = "none" /\ ~r.planSkipped
     \/ a = "outcome" /\ r.outcomeId = "none"
     \/ a = "evidence" /\ r.evidenceId = "none"
     \/ a = "proof" /\ ~r.proofAvailable}

\* assertCompleteGovernedResult: what is required and absent.
Missing(r) ==
  {a \in opts.require :
     \/ a = "plan" /\ r.planId = "none" /\ ~r.planSkipped
     \/ a = "outcome" /\ r.outcomeId = "none"
     \/ a = "evidence" /\ r.evidenceId = "none"
     \/ a = "anchor" /\ r.anchorId = "none"
     \/ a = "proof" /\ ~r.proofAvailable
     \/ a = "liveL0" /\ r.finality # "l0_anchored_final"}

\* Mutant: a cancelled intent is not a failure.
VerdictFailedOnly(r) ==
  IF r.status = "failed" /\ opts.throwOnFailure THEN "governanceError"
  ELSE IF r.status = "completed" /\ opts.throwOnIncomplete /\ Missing(r) # {}
       THEN "incompleteError"
       ELSE "returned"

Verdict(r) ==
  IF r.status # "completed" /\ opts.throwOnFailure THEN "governanceError"
  ELSE IF r.status = "completed" /\ opts.throwOnIncomplete /\ Missing(r) # {}
       THEN "incompleteError"
       ELSE "returned"

Settle(r, how) ==
  /\ result' = r
  /\ ended' = how
  /\ pc' = "done"

-----------------------------------------------------------------------------
(***************************************************************************)
(* Polling                                                                 *)
(***************************************************************************)

\* The request reaches the node, which answers with the status it has now.
Poll ==
  /\ pc = "send"
  /\ observed' = intent
  /\ latePolls' = IF clock >= deadline THEN latePolls + 1 ELSE latePolls
  /\ pc' = "polling"
  /\ UNCHANGED <<node, opts, clock, deadline, wakeAt, exporting, result, ended, listed>>

\* Mutant: the deadline is looked at before the answer.
PollAnsweredDeadlineFirst ==
  /\ pc = "polling"
  /\ \/ /\ observed \in Terminal /\ clock < deadline
        /\ result' = Blank(observed)
        /\ pc' = "outcome"
        /\ UNCHANGED <<wakeAt, ended>>
     \/ /\ clock >= deadline
        /\ LET timeout == [Blank("timeout") EXCEPT !.failureReason = TRUE]
           IN Settle(timeout, IF opts.throwOnFailure THEN "governanceError" ELSE "returned")
        /\ UNCHANGED wakeAt
     \/ /\ observed \notin Terminal /\ clock < deadline
        /\ pc' = "sleeping"
        /\ wakeAt' = clock + PollInterval
        /\ UNCHANGED <<result, ended>>
  /\ UNCHANGED <<node, opts, clock, deadline, observed, exporting, history>>

\* Mutant: the deadline itself is still in time.
PollAnsweredAtDeadline ==
  /\ pc = "polling"
  /\ \/ /\ observed \in Terminal
        /\ result' = Blank(observed)
        /\ pc' = "outcome"
        /\ UNCHANGED <<wakeAt, ended>>
     \/ /\ observed \notin Terminal /\ clock > deadline
        /\ LET timeout == [Blank("timeout") EXCEPT !.failureReason = TRUE]
           IN Settle(timeout, IF opts.throwOnFailure THEN "governanceError" ELSE "returned")
        /\ UNCHANGED wakeAt
     \/ /\ observed \notin Terminal /\ clock <= deadline
        /\ pc' = "sleeping"
        /\ wakeAt' = clock + PollInterval
        /\ UNCHANGED <<result, ended>>
  /\ UNCHANGED <<node, opts, clock, deadline, observed, exporting, history>>

\* The answer arrives.  The deadline is looked at only for an intent that is
\* still running.
PollAnswered ==
  /\ pc = "polling"
  /\ \/ /\ observed \in Terminal
        /\ result' = Blank(observed)
        /\ pc' = "outcome"
        /\ UNCHANGED <<wakeAt, ended>>
     \/ /\ observed \notin Terminal
        /\ clock >= deadline
        /\ LET timeout == [Blank("timeout") EXCEPT !.failureReason = TRUE]
           IN Settle(timeout, IF opts.throwOnFailure THEN "governanceError" ELSE "returned")
        /\ UNCHANGED wakeAt
     \/ /\ observed \notin Terminal
        /\ clock < deadline
        /\ pc' = "sleeping"
        /\ wakeAt' = clock + PollInterval
        /\ UNCHANGED <<result, ended>>
  /\ UNCHANGED <<node, opts, clock, deadline, observed, exporting, history>>

\* The request failed, or its status is not a string: the wait rejects, it
\* does not retry.
PollFails ==
  /\ pc = "polling"
  /\ Settle(result, "rejected")
  /\ UNCHANGED <<node, opts, clock, deadline, wakeAt, observed, exporting, history>>

\* Mutant: the timer is not served once the deadline has passed.
WakeInTime ==
  /\ pc = "sleeping"
  /\ clock >= wakeAt
  /\ clock < deadline
  /\ pc' = "send"
  /\ UNCHANGED <<node, opts, clock, deadline, wakeAt, observed, exporting, result, ended, history>>

Wake ==
  /\ pc = "sleeping"
  /\ clock >= wakeAt
  /\ pc' = "send"
  /\ UNCHANGED <<node, opts, clock, deadline, wakeAt, observed, exporting, result, ended, history>>

-----------------------------------------------------------------------------
(***************************************************************************)
(* Hydration                                                               *)
(***************************************************************************)

\* Mutant: anchor and finality swapped.
WithOutcomeSwapped(r, o) ==
  [r EXCEPT !.outcomeId = o.id, !.planId = o.planId, !.gasAvailable = TRUE,
            !.evidenceId = o.evidenceId, !.anchorId = o.finality,
            !.finality = o.anchorId, !.failureReason = ~o.ok]

WithOutcome(r, o) ==
  [r EXCEPT !.outcomeId = o.id, !.planId = o.planId, !.gasAvailable = TRUE,
            !.evidenceId = o.evidenceId, !.anchorId = o.anchorId,
            !.finality = o.finality, !.failureReason = ~o.ok]

\* A result with no plan id is said to have had no plan stage.
MarkPlan(r) ==
  IF r.planId = "none" /\ (r.outcomeId # "none" \/ r.status = "completed")
  THEN [r EXCEPT !.planSkipped = TRUE] ELSE r

WantsProof == opts.exportProof \/ "proof" \in opts.require

AfterOutcome(r) ==
  IF WantsProof
  THEN /\ result' = r
       /\ pc' = "bundles"
       /\ UNCHANGED ended
  ELSE Settle(r, Verdict(r))

OutcomeRead ==
  /\ pc = "outcome"
  /\ outcome # NoOutcome
  /\ AfterOutcome(MarkPlan(WithOutcome(result, outcome)))
  /\ UNCHANGED <<node, opts, clock, deadline, wakeAt, observed, exporting, history>>

\* Mutant: no outcome is a gas figure of zero.
OutcomeAbsentIsZeroGas ==
  /\ pc = "outcome"
  /\ AfterOutcome(MarkPlan([result EXCEPT !.gasAvailable = TRUE]))
  /\ UNCHANGED <<node, opts, clock, deadline, wakeAt, observed, exporting, history>>

\* Not recorded yet, or the request failed: caught, and nothing is hydrated.
OutcomeUnreadable ==
  /\ pc = "outcome"
  /\ AfterOutcome(MarkPlan(result))
  /\ UNCHANGED <<node, opts, clock, deadline, wakeAt, observed, exporting, history>>

\* attachProof catches everything it throws, and rethrows when the proof is
\* required, before throwOnFailure and the completeness check are reached.
ProofUnavailable(r) ==
  LET u == [r EXCEPT !.proofAvailable = FALSE]
  IN Settle(u, IF "proof" \in opts.require THEN "proofError" ELSE Verdict(u))

\* Mutant: the first bundle will do.
FirstEvidenceId(ids) == IF ids = <<>> THEN "none" ELSE ids[1]

\* evidenceIdForIntent: the only bundle, else the canonical one; "none" is an
\* undefined id or the error that asks the caller to choose.
EvidenceIdForIntent(ids) ==
  IF Len(ids) = 1 THEN ids[1]
  ELSE IF Cardinality({i \in DOMAIN ids : ids[i] = Canonical}) = 1 THEN Canonical ELSE "none"

BundlesListed ==
  /\ pc = "bundles"
  /\ listed' = bundles
  /\ LET id == EvidenceIdForIntent(bundles) IN
       IF id = "none"
       THEN /\ ProofUnavailable(result)
            /\ UNCHANGED exporting
       ELSE /\ exporting' = id
            /\ pc' = "export"
            /\ UNCHANGED <<result, ended>>
  /\ UNCHANGED <<node, opts, clock, deadline, wakeAt, observed, latePolls>>

\* A package with no replay capsule is refused for public_production.  One
\* that the local verifier cannot read throws, after result.proof was set.
ProofExported(package) ==
  /\ pc = "export"
  /\ LET held == [result EXCEPT !.proof = package, !.proofAvailable = TRUE] IN
       IF opts.publicProduction /\ package # "complete" THEN ProofUnavailable(result)
       ELSE IF opts.verifyProofLocal /\ package = "unreadable" THEN ProofUnavailable(held)
       ELSE Settle(held, Verdict(held))
  /\ UNCHANGED <<node, opts, clock, deadline, wakeAt, observed, exporting, history>>

ProofRequestFails ==
  /\ pc \in {"bundles", "export"}
  /\ ProofUnavailable(result)
  /\ UNCHANGED <<node, opts, clock, deadline, wakeAt, observed, exporting, history>>

-----------------------------------------------------------------------------
NodeStep ==
  \/ NodePlans
  \/ \E status \in Terminal : NodeFinishes(status)
  \/ \E id \in {"none", Canonical} : NodeRecordsOutcome(id)
  \/ NodeAnchors
  \/ \E id \in BundleId : NodeListsBundle(id)

\* The wait's own steps: a request is sent, answered or fails, and the timer.
WaitStep ==
  \/ Poll \/ PollAnswered \/ PollFails \/ Wake
  \/ OutcomeRead \/ OutcomeUnreadable
  \/ BundlesListed \/ ProofRequestFails
  \/ \E package \in Package : ProofExported(package)

Next == NodeStep \/ WaitStep \/ Tick

\* What the runtime gives: code that need not wait for anyone is run, a due timer
\* fires, time passes.  Requests have no timeout, so that nothing is assumed of
\* their answers, nor of the node.
Fairness == WF_vars(Poll) /\ WF_vars(Wake) /\ WF_vars(Tick)

Spec == Init /\ [][Next]_vars /\ Fairness

-----------------------------------------------------------------------------
(***************************************************************************)
(* Properties                                                              *)
(***************************************************************************)

\* Nothing is invented: every id, the gas figure and the finality of a result
\* are the node's, read together from one outcome record (the anchor may have
\* been added since); without the record all of them are blank.
NothingInvented ==
  IF result.gasAvailable
  THEN /\ result.outcomeId = outcome.id /\ outcome.id # "none"
       /\ result.planId = outcome.planId
       /\ result.evidenceId = outcome.evidenceId
       /\ result.anchorId # "none" => result.anchorId = outcome.anchorId
       /\ result.anchorId # "none" <=> result.finality = "l0_anchored_final"
  ELSE /\ result.outcomeId = "none" /\ result.planId = "none" /\ result.evidenceId = "none"
       /\ result.anchorId = "none" /\ result.finality = "none"

\* A caller who asks for completeness and gets a result back has every
\* artifact asked for (the plan apart: a plan id that could not be read counts
\* as a plan skipped, results.ts:241), and the node has it too.
ReturnedIsComplete ==
  ended = "returned" /\ result.status = "completed" /\ opts.throwOnIncomplete =>
    /\ "outcome" \in opts.require => result.outcomeId # "none" /\ outcome # NoOutcome
    /\ "evidence" \in opts.require => result.evidenceId # "none"
    /\ "anchor" \in opts.require => outcome.anchorId # "none"
    /\ "liveL0" \in opts.require => outcome.finality = "l0_anchored_final"
    /\ "proof" \in opts.require => result.proof # NoProof /\ bundles # <<>>

\* `timeout` is never said of an intent the wait was told is terminal, however
\* late the answer came, and never before the deadline.
TimeoutHonest ==
  result.status = "timeout" => observed = "pending" /\ clock >= deadline /\ result.failureReason

\* The wait outlives its deadline by one poll at most.
LatePollsBounded == latePolls <= 1

\* With throwOnFailure nothing but a completed intent is returned.
FailureIsThrown ==
  ended = "returned" /\ opts.throwOnFailure => result.status = "completed" /\ observed = "completed"

\* A proof is of the canonical bundle, or of the only bundle the node listed,
\* and never of a bundle chosen among several; for public_production it has
\* its replay capsule.
ProofIsTheIntents ==
  result.proof # NoProof =>
    /\ exporting # "none"
    /\ exporting # Canonical => Len(listed) = 1 /\ listed[1] = exporting
    /\ exporting = Canonical => Cardinality({i \in DOMAIN listed : listed[i] = Canonical}) = 1
    /\ opts.publicProduction => result.proof = "complete"

\* results.ts: "Throws InfrixGovernanceError on a non-success terminal state
\* when throwOnFailure is set".
FailureIsGovernanceError ==
  pc = "done" /\ result.status \in {"failed", "cancelled"} /\ opts.throwOnFailure
    => ended = "governanceError"

\* Only an answer, or a failure, of a request moves the wait from here.
RequestOpen == pc \in {"polling", "outcome", "bundles", "export"}

\* The wait settles, whatever the node does and says, unless one of its requests
\* is never answered: then it is open for good, past its deadline too.
Settles == <>(pc = "done") \/ <>[]RequestOpen

=============================================================================
