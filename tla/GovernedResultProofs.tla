------------------------ MODULE GovernedResultProofs ------------------------
(***************************************************************************)
(* The safety of GovernedResult for every option a caller may pass, every  *)
(* wait and every poll interval, and a bound on the steps of a wait.       *)
(* Liveness stays with TLC.                                                *)
(***************************************************************************)
EXTENDS GovernedResult, FiniteSetTheorems, TLAPS

\* The fairness conjuncts play no part in safety.
SafetySpec == Init /\ [][Next]_vars

LEMMA EvidenceIdType ==
  ASSUME NEW ids \in Seq(BundleId)
  PROVE  EvidenceIdForIntent(ids) \in BundleId
<1>1. Len(ids) = 1 => ids[1] \in BundleId
  OBVIOUS
<1> QED BY <1>1 DEF EvidenceIdForIntent, BundleId

LEMMA BlankType ==
  ASSUME NEW status \in {"none", "timeout"} \cup Terminal
  PROVE  Blank(status) \in ResultType
BY DEF Blank, ResultType, NoProof, Package

LEMMA HydratedType ==
  ASSUME NEW r \in ResultType, NEW o \in OutcomeType
  PROVE  /\ MarkPlan(r) \in ResultType
         /\ WithOutcome(r, o) \in ResultType
         /\ \A p \in Package : [r EXCEPT !.proof = p, !.proofAvailable = TRUE] \in ResultType
         /\ [r EXCEPT !.proofAvailable = FALSE] \in ResultType
<1>1. MarkPlan(r) \in ResultType
  <2>1. [r EXCEPT !.planSkipped = TRUE] \in ResultType
    BY DEF ResultType
  <2>2. MarkPlan(r) \in {r, [r EXCEPT !.planSkipped = TRUE]}
    BY DEF MarkPlan
  <2> QED BY <2>1, <2>2
<1>2. WithOutcome(r, o) \in ResultType
  BY ZenonT(60) DEF WithOutcome, ResultType, OutcomeType
<1>3. \A p \in Package : [r EXCEPT !.proof = p, !.proofAvailable = TRUE] \in ResultType
  BY DEF ResultType
<1>4. [r EXCEPT !.proofAvailable = FALSE] \in ResultType
  BY DEF ResultType
<1> QED BY <1>1, <1>2, <1>3, <1>4

LEMMA VerdictType ==
  \A r : Verdict(r) \in {"governanceError", "incompleteError", "returned"}
BY DEF Verdict

\* Every variable keeps its type.
THEOREM TypeCorrect == SafetySpec => []TypeOK
<1>1. Init => TypeOK
  <2> SUFFICES ASSUME Init PROVE TypeOK
    OBVIOUS
  <2>1. NoOutcome \in OutcomeType
    BY DEF NoOutcome, OutcomeType
  <2>2. Blank("none") \in ResultType
    BY BlankType
  <2>3. opts \in OptionsType /\ deadline \in Nat
    BY OptionsAssumption, TimeAssumption DEF Init
  <2>4. "none" \in BundleId
    BY DEF BundleId
  <2> QED BY <2>1, <2>2, <2>3, <2>4 DEF Init, TypeOK
<1>2. TypeOK /\ [Next]_vars => TypeOK'
  <2> SUFFICES ASSUME TypeOK, [Next]_vars PROVE TypeOK'
    OBVIOUS
  <2> USE DEF TypeOK, node, history
  <2>1. CASE NodeStep \/ Tick
    <3> USE DEF wait
    <3>1. CASE NodePlans
      BY <3>1 DEF NodePlans
    <3>2. ASSUME NEW status \in Terminal, NodeFinishes(status) PROVE TypeOK'
      BY <3>2 DEF NodeFinishes
    <3>3. ASSUME NEW id \in {"none", Canonical}, NodeRecordsOutcome(id) PROVE TypeOK'
      BY <3>3 DEF NodeRecordsOutcome, OutcomeType
    <3>4. CASE NodeAnchors
      BY ZenonT(60), <3>4 DEF NodeAnchors, OutcomeType
    <3>5. ASSUME NEW id \in BundleId, NodeListsBundle(id) PROVE TypeOK'
      <4>1. bundles' \in Seq(BundleId)
        BY <3>5 DEF NodeListsBundle
      <4> QED BY <3>5, <4>1 DEF NodeListsBundle
    <3>6. CASE Tick
      BY <3>6 DEF Tick
    <3> QED BY <2>1, <3>1, <3>2, <3>3, <3>4, <3>5, <3>6 DEF NodeStep
  <2>2. CASE WaitStep
    <3>1. CASE Poll
      <4>1. latePolls' \in Nat /\ observed' \in {"pending"} \cup Terminal
        BY <3>1 DEF Poll
      <4> QED BY <3>1, <4>1 DEF Poll
    <3>2. CASE PollAnswered
      <4>1. [Blank("timeout") EXCEPT !.failureReason = TRUE] \in ResultType
        BY ZenonT(60), BlankType DEF ResultType
      <4>2. observed \in Terminal => Blank(observed) \in ResultType
        BY BlankType
      <4>3. clock + PollInterval \in Nat
        BY TimeAssumption
      <4>4. result' \in ResultType /\ wakeAt' \in Nat
            /\ pc' \in {"outcome", "done", "sleeping"}
            /\ ended' \in {ended, "governanceError", "returned"}
        BY <3>2, <4>1, <4>2, <4>3 DEF PollAnswered, Settle
      <4> QED BY <3>2, <4>4 DEF PollAnswered
    <3>3. CASE PollFails
      BY <3>3 DEF PollFails, Settle
    <3>4. CASE Wake
      BY <3>4 DEF Wake
    <3>5. CASE OutcomeRead
      <4>1. MarkPlan(WithOutcome(result, outcome)) \in ResultType
        BY HydratedType
      <4> QED BY <3>5, <4>1, VerdictType DEF OutcomeRead, AfterOutcome, Settle
    <3>6. CASE OutcomeUnreadable
      <4>1. MarkPlan(result) \in ResultType
        BY HydratedType
      <4> QED BY <3>6, <4>1, VerdictType DEF OutcomeUnreadable, AfterOutcome, Settle
    <3>7. CASE BundlesListed
      <4>1. CASE EvidenceIdForIntent(bundles) = "none"
        BY <3>7, <4>1, HydratedType, VerdictType DEF BundlesListed, ProofUnavailable, Settle
      <4>2. CASE EvidenceIdForIntent(bundles) # "none"
        BY <3>7, <4>2, EvidenceIdType DEF BundlesListed
      <4> QED BY <4>1, <4>2
    <3>8. CASE ProofRequestFails
      BY <3>8, HydratedType, VerdictType DEF ProofRequestFails, ProofUnavailable, Settle
    <3>9. ASSUME NEW p \in Package, ProofExported(p) PROVE TypeOK'
      <4> DEFINE held == [result EXCEPT !.proof = p, !.proofAvailable = TRUE]
      <4>1. held \in ResultType
        BY HydratedType
      <4>2. ProofUnavailable(result) \/ ProofUnavailable(held) \/ Settle(held, Verdict(held))
        BY <3>9 DEF ProofExported
      <4> HIDE DEF held
      <4>3. result' \in ResultType /\ pc' = "done"
            /\ ended' \in {"governanceError", "incompleteError", "returned", "proofError"}
        BY <4>1, <4>2, HydratedType, VerdictType DEF ProofUnavailable, Settle
      <4> QED BY <3>9, <4>3 DEF ProofExported
    <3> QED BY <2>2, <3>1, <3>2, <3>3, <3>4, <3>5, <3>6, <3>7, <3>8, <3>9 DEF WaitStep
  <2>3. CASE UNCHANGED vars
    BY <2>3 DEF vars
  <2> QED BY <2>1, <2>2, <2>3 DEF Next
<1> QED BY <1>1, <1>2, PTL DEF SafetySpec

-----------------------------------------------------------------------------
(***************************************************************************)
(* Polling                                                                 *)
(***************************************************************************)

\* What the wait knows at each place: until the answer is terminal the result
\* is blank; afterwards the intent has the status observed and the result
\* says so; and a poll sent late is never followed by another.
PollInv ==
  /\ observed \in Terminal => intent = observed
  /\ pc \in {"send", "polling", "sleeping"} =>
       result = Blank("none") /\ latePolls <= 1
  /\ pc \in {"send", "sleeping"} => latePolls = 0 /\ observed = "pending"
  /\ pc = "polling" => latePolls = 0 \/ clock >= deadline
  /\ pc \in {"outcome", "bundles", "export"} =>
       observed \in Terminal /\ result.status = observed
  /\ pc = "done" =>
       \/ result.status = observed /\ observed \in Terminal
       \/ ended = "rejected" /\ result = Blank("none")
       \/ /\ result = [Blank("timeout") EXCEPT !.failureReason = TRUE]
          /\ observed = "pending" /\ clock >= deadline
          /\ opts.throwOnFailure => ended = "governanceError"
  /\ latePolls <= 1
  /\ FailureIsThrown
  /\ ended # "open" => pc = "done"

LEMMA StatusKept ==
  ASSUME NEW r \in ResultType, NEW o \in OutcomeType
  PROVE  /\ MarkPlan(r).status = r.status
         /\ WithOutcome(r, o).status = r.status
         /\ \A p \in Package : [r EXCEPT !.proof = p, !.proofAvailable = TRUE].status = r.status
         /\ [r EXCEPT !.proofAvailable = FALSE].status = r.status
<1>1. MarkPlan(r).status = r.status
  BY DEF MarkPlan, ResultType
<1>2. WithOutcome(r, o).status = r.status
  BY DEF WithOutcome, ResultType
<1>3. \A p \in Package : [r EXCEPT !.proof = p, !.proofAvailable = TRUE].status = r.status
  BY DEF ResultType
<1>4. [r EXCEPT !.proofAvailable = FALSE].status = r.status
  BY DEF ResultType
<1> QED BY <1>1, <1>2, <1>3, <1>4

\* A step of hydration keeps the invariant: it goes on with the same status,
\* or it settles by Verdict or with the proof's own error.
LEMMA HydrationStep ==
  ASSUME TypeOK, PollInv, pc \in {"outcome", "bundles", "export"},
         NEW r, r.status = result.status, result' = r,
         UNCHANGED <<intent, opts, clock, deadline, observed, latePolls>>,
         \/ pc' \in {"bundles", "export"} /\ UNCHANGED ended
         \/ pc' = "done" /\ ended' \in {Verdict(r), "proofError"}
  PROVE  PollInv'
<1>1. observed \in Terminal /\ r.status = observed /\ intent = observed /\ latePolls <= 1
  BY DEF PollInv
<1>2. Verdict(r) = "returned" /\ opts.throwOnFailure => r.status = "completed"
  BY DEF Verdict
<1>3. ended = "open"
  BY DEF PollInv
<1>4. FailureIsThrown'
  BY <1>1, <1>2, <1>3 DEF FailureIsThrown
<1> QED BY <1>1, <1>4 DEF PollInv, Terminal

THEOREM PollingCorrect == SafetySpec => []PollInv
<1>1. Init => PollInv
  BY DEF Init, PollInv, FailureIsThrown, Terminal
<1>2. TypeOK /\ PollInv /\ [Next]_vars => PollInv'
  <2> SUFFICES ASSUME TypeOK, PollInv, [Next]_vars PROVE PollInv'
    OBVIOUS
  <2> USE DEF node, history
  <2>1. CASE NodeStep \/ Tick \/ UNCHANGED vars
    <3>1. UNCHANGED wait /\ (UNCHANGED intent \/ intent = "pending")
          /\ (clock' = clock \/ clock' = clock + 1)
      BY <2>1 DEF NodeStep, Tick, vars, wait, NodePlans, NodeFinishes, NodeRecordsOutcome,
                  NodeAnchors, NodeListsBundle
    <3>2. clock >= deadline => clock' >= deadline
      BY <3>1 DEF TypeOK
    <3>3. observed \in Terminal => UNCHANGED intent
      BY <3>1 DEF PollInv, Terminal
    <3> QED BY <3>1, <3>2, <3>3 DEF PollInv, FailureIsThrown, wait
  <2>2. CASE WaitStep
    <3>1. CASE Poll
      <4>1. latePolls' = 0 \/ (latePolls' = 1 /\ clock >= deadline)
        BY <3>1 DEF Poll, PollInv, TypeOK
      <4> QED BY <3>1, <4>1 DEF Poll, PollInv, FailureIsThrown
    <3>2. CASE PollAnswered
      <4>1. result = Blank("none") /\ ended = "open"
        BY <3>2 DEF PollAnswered, PollInv
      <4>2. CASE observed \in Terminal
        <5>1. Blank(observed).status = observed
          BY DEF Blank
        <5> QED BY <3>2, <4>1, <4>2, <5>1 DEF PollAnswered, PollInv, FailureIsThrown
      <4>3. CASE observed \notin Terminal /\ clock >= deadline
        <5>1. [Blank("timeout") EXCEPT !.failureReason = TRUE].status = "timeout"
          BY DEF Blank
        <5>2. observed = "pending"
          BY <4>3 DEF TypeOK
        <5>3. /\ pc' = "done"
              /\ result' = [Blank("timeout") EXCEPT !.failureReason = TRUE]
              /\ ended' = IF opts.throwOnFailure THEN "governanceError" ELSE "returned"
              /\ UNCHANGED <<intent, observed, clock, deadline, opts, latePolls>>
          <6>1. ~(clock < deadline)
            BY <4>3 DEF TypeOK
          <6> QED BY <3>2, <4>3, <6>1, Zenon DEF PollAnswered, Settle
        <5>4. FailureIsThrown'
          BY <5>3 DEF FailureIsThrown
        <5>5. latePolls <= 1
          BY DEF PollInv
        <5> HIDE DEF Blank
        <5> QED BY <4>3, <5>2, <5>3, <5>4, <5>5 DEF PollInv, Terminal
      <4>4. CASE observed \notin Terminal /\ clock < deadline
        <5>1. ~(clock >= deadline)
          BY <4>4 DEF TypeOK
        <5> QED BY <3>2, <4>1, <4>4, <5>1 DEF PollAnswered, PollInv, FailureIsThrown, TypeOK
      <4> QED BY <4>2, <4>3, <4>4 DEF TypeOK
    <3>3. CASE PollFails
      BY <3>3 DEF PollFails, Settle, PollInv, FailureIsThrown
    <3>4. CASE Wake
      BY <3>4 DEF Wake, PollInv, FailureIsThrown
    <3>5. CASE OutcomeRead
      <4> DEFINE r == MarkPlan(WithOutcome(result, outcome))
      <4>1. r.status = result.status
        BY StatusKept, HydratedType DEF TypeOK
      <4>2. AfterOutcome(r) /\ pc = "outcome"
            /\ UNCHANGED <<intent, opts, clock, deadline, observed, latePolls>>
        BY <3>5 DEF OutcomeRead
      <4> HIDE DEF r
      <4> QED BY <4>1, <4>2, HydrationStep DEF AfterOutcome, Settle
    <3>6. CASE OutcomeUnreadable
      <4> DEFINE r == MarkPlan(result)
      <4>1. r.status = result.status
        BY StatusKept DEF TypeOK
      <4>2. AfterOutcome(r) /\ pc = "outcome"
            /\ UNCHANGED <<intent, opts, clock, deadline, observed, latePolls>>
        BY <3>6 DEF OutcomeUnreadable
      <4> HIDE DEF r
      <4> QED BY <4>1, <4>2, HydrationStep DEF AfterOutcome, Settle
    <3>7. ASSUME NEW r \in ResultType, ProofUnavailable(r), r.status = result.status,
                 pc \in {"bundles", "export"},
                 UNCHANGED <<intent, opts, clock, deadline, observed, latePolls>>
          PROVE  PollInv'
      <4> DEFINE u == [r EXCEPT !.proofAvailable = FALSE]
      <4>1. u.status = result.status
        BY <3>7, StatusKept
      <4>2. result' = u /\ pc' = "done" /\ ended' \in {Verdict(u), "proofError"}
        BY <3>7 DEF ProofUnavailable, Settle
      <4> HIDE DEF u
      <4> QED BY <3>7, <4>1, <4>2, HydrationStep
    <3>8. CASE BundlesListed
      <4>1. CASE EvidenceIdForIntent(bundles) = "none"
        BY <3>7, <3>8, <4>1 DEF BundlesListed, TypeOK
      <4>2. CASE EvidenceIdForIntent(bundles) # "none"
        BY <3>8, <4>2, HydrationStep DEF BundlesListed
      <4> QED BY <4>1, <4>2
    <3>9. CASE ProofRequestFails
      BY <3>7, <3>9 DEF ProofRequestFails, TypeOK
    <3>10. ASSUME NEW p \in Package, ProofExported(p) PROVE PollInv'
      <4> DEFINE held == [result EXCEPT !.proof = p, !.proofAvailable = TRUE]
      <4>1. held \in ResultType /\ held.status = result.status
        BY HydratedType, StatusKept DEF TypeOK
      <4>2. ProofUnavailable(result) \/ ProofUnavailable(held) \/ Settle(held, Verdict(held))
        BY <3>10 DEF ProofExported
      <4>3. pc = "export" /\ UNCHANGED <<intent, opts, clock, deadline, observed, latePolls>>
        BY <3>10 DEF ProofExported
      <4> HIDE DEF held
      <4>4. CASE Settle(held, Verdict(held))
        BY <4>1, <4>3, <4>4, HydrationStep DEF Settle
      <4> QED BY <3>7, <4>1, <4>2, <4>3, <4>4 DEF TypeOK
    <3> QED BY <2>2, <3>1, <3>2, <3>3, <3>4, <3>5, <3>6, <3>8, <3>9, <3>10 DEF WaitStep
  <2> QED BY <2>1, <2>2 DEF Next
<1> QED BY <1>1, <1>2, TypeCorrect, PTL DEF SafetySpec

\* A result that says `timeout` was built after the deadline, of an intent the
\* last answer called unfinished.
THEOREM TimeoutIsHonest == Spec => []TimeoutHonest
<1>1. PollInv /\ TypeOK => TimeoutHonest
  <2> SUFFICES ASSUME PollInv, TypeOK, result.status = "timeout" PROVE TimeoutHonest
    BY DEF TimeoutHonest
  <2>1. Blank("none").status = "none"
    BY DEF Blank
  <2>2. observed # "timeout"
    BY DEF TypeOK, Terminal
  <2>3. /\ result = [Blank("timeout") EXCEPT !.failureReason = TRUE]
        /\ observed = "pending" /\ clock >= deadline
    BY <2>1, <2>2 DEF PollInv, TypeOK
  <2>4. [Blank("timeout") EXCEPT !.failureReason = TRUE].failureReason = TRUE
    BY DEF Blank
  <2> QED BY <2>3, <2>4 DEF TimeoutHonest
<1>2. Spec => SafetySpec
  BY DEF Spec, SafetySpec
<1> QED BY <1>1, <1>2, PollingCorrect, TypeCorrect, PTL

\* The wait sends at most one poll once its deadline has passed.
THEOREM LatePollsAreBounded == Spec => []LatePollsBounded
<1>1. PollInv => LatePollsBounded
  BY DEF PollInv, LatePollsBounded
<1>2. Spec => SafetySpec
  BY DEF Spec, SafetySpec
<1> QED BY <1>1, <1>2, PollingCorrect, PTL

\* With throwOnFailure only a completed intent is ever returned.
THEOREM FailuresAreThrown == Spec => []FailureIsThrown
<1>1. PollInv => FailureIsThrown
  BY DEF PollInv
<1>2. Spec => SafetySpec
  BY DEF Spec, SafetySpec
<1> QED BY <1>1, <1>2, PollingCorrect, PTL

-----------------------------------------------------------------------------
(***************************************************************************)
(* Hydration                                                               *)
(***************************************************************************)

\* NothingInvented of any result and outcome record.
Mirrors(r, o) ==
  /\ r.gasAvailable = TRUE =>
       /\ r.outcomeId = o.id /\ o.id # "none"
       /\ r.planId = o.planId
       /\ r.evidenceId = o.evidenceId
       /\ r.anchorId # "none" => r.anchorId = o.anchorId
       /\ r.anchorId # "none" <=> r.finality = "l0_anchored_final"
  /\ r.gasAvailable = FALSE =>
       /\ r.outcomeId = "none" /\ r.planId = "none" /\ r.evidenceId = "none"
       /\ r.anchorId = "none" /\ r.finality = "none"

\* A record with an id was written by the node, and its two anchor fields agree.
Recorded(o) ==
  /\ o.id = "none" <=> o = NoOutcome
  /\ o.anchorId # "none" <=> o.finality = "l0_anchored_final"

\* The bundle being exported was a fair choice among those listed.
FairChoice ==
  /\ exporting # "none"
  /\ exporting # Canonical => Len(listed) = 1 /\ listed[1] = exporting
  /\ exporting = Canonical => Cardinality({i \in DOMAIN listed : listed[i] = Canonical}) = 1

HydrationInv ==
  /\ Recorded(outcome)
  /\ Mirrors(result, outcome)
  /\ pc # "done" => result.proof = NoProof /\ result.proofAvailable = FALSE
  /\ pc = "export" \/ result.proof # NoProof => FairChoice /\ bundles # <<>>
  /\ result.proofAvailable = TRUE => result.proof # NoProof
  /\ opts.publicProduction = TRUE /\ result.proof # NoProof => result.proof = "complete"
  /\ ReturnedIsComplete

LEMMA VerdictComplete ==
  ASSUME NEW r \in ResultType, Verdict(r) = "returned",
         r.status = "completed", opts.throwOnIncomplete
  PROVE  /\ "outcome" \in opts.require => r.outcomeId # "none"
         /\ "evidence" \in opts.require => r.evidenceId # "none"
         /\ "anchor" \in opts.require => r.anchorId # "none"
         /\ "liveL0" \in opts.require => r.finality = "l0_anchored_final"
         /\ "proof" \in opts.require => r.proofAvailable
<1>1. Missing(r) = {}
  BY DEF Verdict
<1> QED BY <1>1 DEF Missing

LEMMA RecordedPersists ==
  ASSUME NEW o \in OutcomeType, Recorded(o)
  PROVE  /\ o # NoOutcome => o.id = "outcome"
         /\ o # NoOutcome /\ o.anchorId = "none" =>
              LET a == [o EXCEPT !.anchorId = "anchor", !.finality = "l0_anchored_final"]
              IN Recorded(a) /\ \A r : Mirrors(r, o) => Mirrors(r, a)
<1>1. o # NoOutcome => o.id = "outcome"
  BY DEF Recorded, OutcomeType
<1>2. ASSUME o # NoOutcome, o.anchorId = "none"
      PROVE  LET a == [o EXCEPT !.anchorId = "anchor", !.finality = "l0_anchored_final"]
             IN Recorded(a) /\ \A r : Mirrors(r, o) => Mirrors(r, a)
  <2> DEFINE a == [o EXCEPT !.anchorId = "anchor", !.finality = "l0_anchored_final"]
  <2>1. /\ a.id = o.id /\ a.planId = o.planId /\ a.evidenceId = o.evidenceId
        /\ a.anchorId = "anchor" /\ a.finality = "l0_anchored_final"
    BY DEF OutcomeType
  <2>2. a # NoOutcome /\ a.id # "none"
    BY <1>1, <1>2, <2>1 DEF NoOutcome
  <2> HIDE DEF a
  <2>3. Recorded(a)
    BY <2>1, <2>2 DEF Recorded
  <2>4. ASSUME NEW r, Mirrors(r, o) PROVE Mirrors(r, a)
    BY <1>2, <2>1, <2>2, <2>4 DEF Mirrors
  <2> QED BY <2>3, <2>4 DEF a
<1> QED BY <1>1, <1>2

LEMMA MirrorsKept ==
  ASSUME NEW r \in ResultType, NEW o \in OutcomeType, Mirrors(r, o)
  PROVE  /\ Mirrors(MarkPlan(r), o)
         /\ \A p \in Package : Mirrors([r EXCEPT !.proof = p, !.proofAvailable = TRUE], o)
         /\ Mirrors([r EXCEPT !.proofAvailable = FALSE], o)
<1>1. ASSUME NEW s, s.gasAvailable = r.gasAvailable, s.outcomeId = r.outcomeId,
             s.planId = r.planId, s.evidenceId = r.evidenceId, s.anchorId = r.anchorId,
             s.finality = r.finality
      PROVE  Mirrors(s, o)
  BY <1>1 DEF Mirrors
<1>2. Mirrors(MarkPlan(r), o)
  <2>1. CASE MarkPlan(r) = r
    BY <2>1
  <2>2. CASE MarkPlan(r) = [r EXCEPT !.planSkipped = TRUE]
    <3> DEFINE s == [r EXCEPT !.planSkipped = TRUE]
    <3>1. /\ s.gasAvailable = r.gasAvailable /\ s.outcomeId = r.outcomeId
          /\ s.planId = r.planId /\ s.evidenceId = r.evidenceId /\ s.anchorId = r.anchorId
          /\ s.finality = r.finality
      BY DEF ResultType
    <3> HIDE DEF s
    <3>2. Mirrors(s, o)
      BY <3>1, <1>1
    <3> QED BY <3>2, <2>2 DEF s
  <2> QED BY <2>1, <2>2 DEF MarkPlan
<1>3. ASSUME NEW p \in Package PROVE Mirrors([r EXCEPT !.proof = p, !.proofAvailable = TRUE], o)
  <2> DEFINE s == [r EXCEPT !.proof = p, !.proofAvailable = TRUE]
  <2>1. /\ s.gasAvailable = r.gasAvailable /\ s.outcomeId = r.outcomeId
        /\ s.planId = r.planId /\ s.evidenceId = r.evidenceId /\ s.anchorId = r.anchorId
        /\ s.finality = r.finality
    BY DEF ResultType
  <2> HIDE DEF s
  <2>2. Mirrors(s, o)
    BY <2>1, <1>1
  <2> QED BY <2>2 DEF s
<1>4. Mirrors([r EXCEPT !.proofAvailable = FALSE], o)
  <2> DEFINE s == [r EXCEPT !.proofAvailable = FALSE]
  <2>1. /\ s.gasAvailable = r.gasAvailable /\ s.outcomeId = r.outcomeId
        /\ s.planId = r.planId /\ s.evidenceId = r.evidenceId /\ s.anchorId = r.anchorId
        /\ s.finality = r.finality
    BY DEF ResultType
  <2> HIDE DEF s
  <2>2. Mirrors(s, o)
    BY <2>1, <1>1
  <2> QED BY <2>2 DEF s
<1> QED BY <1>2, <1>3, <1>4

LEMMA MirrorsRead ==
  ASSUME NEW r \in ResultType, NEW o \in OutcomeType, Recorded(o), o # NoOutcome
  PROVE  Mirrors(WithOutcome(r, o), o)
<1> DEFINE s == WithOutcome(r, o)
<1>1. /\ s.gasAvailable = TRUE /\ s.outcomeId = o.id /\ s.planId = o.planId
      /\ s.evidenceId = o.evidenceId /\ s.anchorId = o.anchorId /\ s.finality = o.finality
  BY DEF WithOutcome, ResultType
<1> HIDE DEF s
<1>2. Mirrors(s, o)
  BY <1>1 DEF Mirrors, Recorded
<1> QED BY <1>2 DEF s

LEMMA BlankMirrors ==
  \A status, o :
    /\ Mirrors(Blank(status), o)
    /\ Blank(status).proof = NoProof /\ Blank(status).proofAvailable = FALSE
    /\ Blank(status).status = status
    /\ LET t == [Blank("timeout") EXCEPT !.failureReason = TRUE]
       IN Mirrors(t, o) /\ t.proof = NoProof /\ t.proofAvailable = FALSE /\ t.status = "timeout"
BY DEF Mirrors, Blank

LEMMA EvidenceIdFair ==
  ASSUME NEW ids \in Seq(BundleId), EvidenceIdForIntent(ids) # "none"
  PROVE  LET id == EvidenceIdForIntent(ids) IN
         /\ ids # <<>>
         /\ id # Canonical => Len(ids) = 1 /\ ids[1] = id
         /\ id = Canonical => Cardinality({i \in DOMAIN ids : ids[i] = Canonical}) = 1
<1>1. CASE Len(ids) = 1
  <2>1. EvidenceIdForIntent(ids) = ids[1] /\ DOMAIN ids = {1}
    BY <1>1 DEF EvidenceIdForIntent
  <2>2. ids[1] = Canonical => {i \in DOMAIN ids : ids[i] = Canonical} = {1}
    BY <2>1
  <2>3. Cardinality({1}) = 1
    BY FS_Singleton
  <2>4. ids # <<>>
    BY <1>1
  <2>5. ids[1] = Canonical => Cardinality({i \in DOMAIN ids : ids[i] = Canonical}) = 1
    BY <2>2, <2>3
  <2> QED BY <1>1, <2>1, <2>4, <2>5, Zenon
<1>2. CASE Len(ids) # 1
  <2>1. /\ EvidenceIdForIntent(ids) = Canonical
        /\ Cardinality({i \in DOMAIN ids : ids[i] = Canonical}) = 1
    BY <1>2 DEF EvidenceIdForIntent
  <2>2. ids # <<>>
    <3> SUFFICES ASSUME ids = <<>> PROVE FALSE
      OBVIOUS
    <3>1. {i \in DOMAIN ids : ids[i] = Canonical} = {}
      OBVIOUS
    <3> QED BY <2>1, <3>1, FS_EmptySet
  <2> QED BY <2>1, <2>2
<1> QED BY <1>1, <1>2

\* A step of hydration that settles by Verdict, or with the proof's own error,
\* or goes on.
LEMMA HydrationKept ==
  ASSUME TypeOK, TypeOK', PollInv, HydrationInv, pc \in {"outcome", "bundles", "export"},
         NEW r, r \in ResultType, result' = r, Mirrors(r, outcome),
         UNCHANGED <<node, opts>>,
         r.proofAvailable = TRUE => r.proof # NoProof,
         r.proof # NoProof => pc = "export" /\ UNCHANGED <<exporting, listed>>,
         opts.publicProduction = TRUE /\ r.proof # NoProof => r.proof = "complete",
         \/ /\ pc' \in {"bundles", "export"} /\ UNCHANGED ended
            /\ r.proof = NoProof /\ r.proofAvailable = FALSE
            /\ pc' = "export" => FairChoice' /\ bundles # <<>>
         \/ pc' = "done" /\ ended' \in {Verdict(r), "proofError"}
  PROVE  HydrationInv'
<1> USE DEF node
<1>1. ended = "open"
  BY DEF PollInv
<1>2. Recorded(outcome)' /\ Mirrors(result, outcome)'
  BY DEF HydrationInv
<1>3. result'.proof # NoProof => FairChoice /\ bundles # <<>> /\ FairChoice'
  BY DEF HydrationInv, FairChoice
<1>4. ReturnedIsComplete'
  <2> SUFFICES ASSUME ended' = "returned", r.status = "completed", opts.throwOnIncomplete
               PROVE  ReturnedIsComplete'
    BY DEF ReturnedIsComplete
  <2>1. Verdict(r) = "returned"
    BY <1>1
  <2>2. r.outcomeId # "none" => outcome # NoOutcome
    BY DEF Mirrors, TypeOK, ResultType, NoOutcome
  <2>3. r.anchorId # "none" => outcome.anchorId # "none"
    BY DEF Mirrors, TypeOK, ResultType
  <2>4. r.finality = "l0_anchored_final" => outcome.finality = "l0_anchored_final"
    <3>1. r.finality = "l0_anchored_final" => r.anchorId # "none"
      BY DEF Mirrors, ResultType
    <3> QED BY <3>1, <2>3 DEF HydrationInv, Recorded
  <2>5. r.proofAvailable => r.proof # NoProof /\ bundles # <<>>
    BY <1>3 DEF ResultType
  <2> QED BY <2>1, <2>2, <2>3, <2>4, <2>5, VerdictComplete DEF ReturnedIsComplete
<1> QED BY <1>1, <1>2, <1>3, <1>4 DEF HydrationInv

THEOREM HydrationCorrect == SafetySpec => []HydrationInv
<1>1. Init => HydrationInv
  <2> SUFFICES ASSUME Init PROVE HydrationInv
    OBVIOUS
  <2>1. Recorded(NoOutcome)
    BY DEF Recorded, NoOutcome
  <2>2. Mirrors(Blank("none"), NoOutcome)
    BY DEF Mirrors, Blank, NoOutcome
  <2>3. Blank("none").proof = NoProof /\ Blank("none").proofAvailable = FALSE
    BY DEF Blank
  <2> QED BY <2>1, <2>2, <2>3 DEF Init, HydrationInv, ReturnedIsComplete
<1>2. TypeOK /\ TypeOK' /\ PollInv /\ HydrationInv /\ [Next]_vars => HydrationInv'
  <2> SUFFICES ASSUME TypeOK, TypeOK', PollInv, HydrationInv, [Next]_vars PROVE HydrationInv'
    OBVIOUS
  <2> USE DEF node, history
  <2>1. CASE NodeStep \/ Tick \/ UNCHANGED vars
    <3>1. UNCHANGED wait
      BY <2>1 DEF NodeStep, Tick, vars, wait, NodePlans, NodeFinishes, NodeRecordsOutcome,
                  NodeAnchors, NodeListsBundle
    <3>2. ASSUME Recorded(outcome'), Mirrors(result, outcome'),
                 bundles # <<>> => bundles' # <<>>,
                 outcome # NoOutcome => outcome' # NoOutcome,
                 outcome.anchorId # "none" => outcome'.anchorId # "none",
                 outcome.finality = "l0_anchored_final" => outcome'.finality = "l0_anchored_final"
          PROVE  HydrationInv'
      <4>1. ReturnedIsComplete'
        BY <3>1, <3>2 DEF wait, HydrationInv, ReturnedIsComplete
      <4> QED BY <3>1, <3>2, <4>1 DEF wait, HydrationInv, FairChoice
    <3>3. CASE UNCHANGED <<outcome, bundles>>
      BY <3>2, <3>3 DEF HydrationInv
    <3>4. ASSUME NEW id \in {"none", Canonical}, NodeRecordsOutcome(id) PROVE HydrationInv'
      <4>1. outcome = NoOutcome /\ outcome'.id = "outcome" /\ outcome'.anchorId = "none"
            /\ outcome'.finality = "local" /\ UNCHANGED bundles
        BY <3>4 DEF NodeRecordsOutcome
      <4>2. outcome' # NoOutcome
        BY <4>1 DEF NoOutcome
      <4>3. result.gasAvailable = FALSE
        BY <4>1 DEF HydrationInv, Mirrors, TypeOK, ResultType, NoOutcome
      <4>4. Mirrors(result, outcome')
        BY <4>3 DEF HydrationInv, Mirrors
      <4>5. Recorded(outcome')
        BY <4>1, <4>2 DEF Recorded
      <4>6. outcome.anchorId = "none" /\ outcome.finality = "none"
        BY <4>1 DEF NoOutcome
      <4> QED BY <3>2, <4>1, <4>2, <4>4, <4>5, <4>6
    <3>5. CASE NodeAnchors
      <4> DEFINE a == [outcome EXCEPT !.anchorId = "anchor", !.finality = "l0_anchored_final"]
      <4>1. outcome # NoOutcome /\ outcome.anchorId = "none" /\ outcome' = a /\ UNCHANGED bundles
        BY <3>5 DEF NodeAnchors
      <4>2. a.anchorId = "anchor" /\ a.finality = "l0_anchored_final"
        BY DEF TypeOK, OutcomeType
      <4>3. Recorded(a) /\ Mirrors(result, a)
        BY <4>1, RecordedPersists DEF TypeOK, HydrationInv
      <4>4. a # NoOutcome
        BY <4>2 DEF NoOutcome
      <4> QED BY <3>2, <4>1, <4>2, <4>3, <4>4
    <3>6. ASSUME NEW id \in BundleId, NodeListsBundle(id) PROVE HydrationInv'
      <4>1. bundles' # <<>> /\ UNCHANGED outcome
        BY SMTT(30), <3>6 DEF NodeListsBundle, TypeOK
      <4> QED BY <3>2, <4>1 DEF HydrationInv
    <3> QED BY <2>1, <3>3, <3>4, <3>5, <3>6
            DEF NodeStep, Tick, vars, NodePlans, NodeFinishes
  <2>2. CASE WaitStep
    <3>1. CASE Poll \/ Wake
      BY <3>1 DEF Poll, Wake, HydrationInv, FairChoice, ReturnedIsComplete
    <3>2. CASE PollFails
      BY <3>2 DEF PollFails, Settle, HydrationInv, FairChoice, ReturnedIsComplete, PollInv
    <3>3. CASE PollAnswered
      <4>0. pc = "polling" /\ UNCHANGED <<node, opts, exporting, listed>>
            /\ result.proof = NoProof /\ ended = "open"
        BY <3>3 DEF PollAnswered, HydrationInv, PollInv
      <4>1. ASSUME result'.proof = NoProof, result'.proofAvailable = FALSE,
                   Mirrors(result', outcome),
                   ended' = "returned" => result'.status # "completed",
                   pc' # "export"
            PROVE  HydrationInv'
        BY <4>0, <4>1 DEF HydrationInv, ReturnedIsComplete
      <4>2. CASE observed \in Terminal
        <5>1. result' = Blank(observed) /\ pc' = "outcome" /\ UNCHANGED ended
          BY <3>3, <4>2 DEF PollAnswered
        <5> QED BY <4>0, <4>1, <5>1, BlankMirrors
      <4>3. CASE observed \notin Terminal /\ clock >= deadline
        <5>1. ~(clock < deadline)
          BY <4>3 DEF TypeOK
        <5>2. result' = [Blank("timeout") EXCEPT !.failureReason = TRUE] /\ pc' = "done"
          BY <3>3, <4>3, <5>1, Zenon DEF PollAnswered, Settle
        <5> QED BY <4>1, <5>2, BlankMirrors
      <4>4. CASE observed \notin Terminal /\ clock < deadline
        <5>1. ~(clock >= deadline)
          BY <4>4 DEF TypeOK
        <5>2. pc' = "sleeping" /\ UNCHANGED <<result, ended>>
          BY <3>3, <4>4, <5>1 DEF PollAnswered
        <5> QED BY <4>0, <4>1, <5>2 DEF HydrationInv
      <4> QED BY <4>2, <4>3, <4>4 DEF TypeOK
    <3>4. CASE OutcomeRead
      <4> DEFINE w == WithOutcome(result, outcome)
                 r == MarkPlan(w)
      <4>1. w \in ResultType /\ r \in ResultType /\ Mirrors(w, outcome)
        BY <3>4, HydratedType, MirrorsRead DEF OutcomeRead, TypeOK, HydrationInv
      <4>2. Mirrors(r, outcome)
        BY <4>1, MirrorsKept DEF TypeOK
      <4>3. w.proof = result.proof /\ w.proofAvailable = result.proofAvailable
        BY DEF WithOutcome, TypeOK, ResultType
      <4>4. r.proof = w.proof /\ r.proofAvailable = w.proofAvailable
        BY <4>1 DEF MarkPlan, ResultType
      <4>5. result.proof = NoProof /\ result.proofAvailable = FALSE /\ pc = "outcome"
        BY <3>4 DEF OutcomeRead, HydrationInv
      <4>6. AfterOutcome(r) /\ UNCHANGED <<node, opts>>
        BY <3>4 DEF OutcomeRead
      <4> HIDE DEF w, r
      <4>7. \/ pc' = "bundles" /\ result' = r /\ UNCHANGED ended
            \/ pc' = "done" /\ result' = r /\ ended' = Verdict(r)
        BY <4>6 DEF AfterOutcome, Settle
      <4> QED BY <4>1, <4>2, <4>3, <4>4, <4>5, <4>6, <4>7, HydrationKept
    <3>5. CASE OutcomeUnreadable
      <4> DEFINE r == MarkPlan(result)
      <4>1. r \in ResultType /\ Mirrors(r, outcome)
        BY HydratedType, MirrorsKept DEF TypeOK, HydrationInv
      <4>2. r.proof = result.proof /\ r.proofAvailable = result.proofAvailable
        BY DEF MarkPlan, TypeOK, ResultType
      <4>3. result.proof = NoProof /\ result.proofAvailable = FALSE /\ pc = "outcome"
        BY <3>5 DEF OutcomeUnreadable, HydrationInv
      <4>4. AfterOutcome(r) /\ UNCHANGED <<node, opts>>
        BY <3>5 DEF OutcomeUnreadable
      <4> HIDE DEF r
      <4>5. \/ pc' = "bundles" /\ result' = r /\ UNCHANGED ended
            \/ pc' = "done" /\ result' = r /\ ended' = Verdict(r)
        BY <4>4 DEF AfterOutcome, Settle
      <4> QED BY <4>1, <4>2, <4>3, <4>4, <4>5, HydrationKept
    <3>6. ASSUME NEW r \in ResultType, ProofUnavailable(r), Mirrors(r, outcome),
                 pc \in {"bundles", "export"},
                 r.proof # NoProof => pc = "export" /\ UNCHANGED <<exporting, listed>>,
                 opts.publicProduction = TRUE /\ r.proof # NoProof => r.proof = "complete",
                 UNCHANGED <<node, opts>>
          PROVE  HydrationInv'
      <4> DEFINE u == [r EXCEPT !.proofAvailable = FALSE]
      <4>1. u \in ResultType /\ Mirrors(u, outcome)
        BY <3>6, HydratedType, MirrorsKept DEF TypeOK
      <4>2. u.proof = r.proof /\ u.proofAvailable = FALSE
        BY DEF ResultType
      <4>3. result' = u /\ pc' = "done" /\ ended' \in {Verdict(u), "proofError"}
        BY <3>6 DEF ProofUnavailable, Settle
      <4> HIDE DEF u
      <4> QED BY <3>6, <4>1, <4>2, <4>3, HydrationKept
    <3>7. CASE BundlesListed
      <4> USE DEF BundlesListed
      <4>1. result.proof = NoProof /\ result.proofAvailable = FALSE /\ Mirrors(result, outcome)
            /\ pc = "bundles" /\ UNCHANGED <<node, opts>> /\ listed' = bundles
        BY <3>7 DEF HydrationInv
      <4>2. CASE EvidenceIdForIntent(bundles) = "none"
        BY <3>6, <3>7, <4>1, <4>2 DEF TypeOK
      <4>3. CASE EvidenceIdForIntent(bundles) # "none"
        <5>1. exporting' = EvidenceIdForIntent(bundles) /\ pc' = "export"
              /\ UNCHANGED <<result, ended>>
          BY <3>7, <4>3
        <5>2. FairChoice' /\ bundles # <<>>
          BY <4>1, <4>3, <5>1, EvidenceIdFair DEF FairChoice, TypeOK
        <5> QED BY <4>1, <5>1, <5>2, HydrationKept DEF TypeOK
      <4> QED BY <4>2, <4>3
    <3>8. CASE ProofRequestFails
      BY <3>6, <3>8 DEF ProofRequestFails, TypeOK, HydrationInv
    <3>9. ASSUME NEW p \in Package, ProofExported(p) PROVE HydrationInv'
      <4> DEFINE held == [result EXCEPT !.proof = p, !.proofAvailable = TRUE]
      <4>1. held \in ResultType /\ Mirrors(held, outcome)
        BY HydratedType, MirrorsKept DEF TypeOK, HydrationInv
      <4>2. held.proof = p /\ held.proofAvailable = TRUE /\ p # NoProof
        BY DEF TypeOK, ResultType, Package, NoProof
      <4>3. pc = "export" /\ UNCHANGED <<node, opts, exporting, listed>> /\ result.proof = NoProof
        BY <3>9 DEF ProofExported, HydrationInv
      <4>4. \/ ProofUnavailable(result)
            \/ /\ ProofUnavailable(held) \/ Settle(held, Verdict(held))
               /\ opts.publicProduction = TRUE => p = "complete"
        BY <3>9 DEF ProofExported
      <4> HIDE DEF held
      <4>5. CASE ProofUnavailable(result)
        BY <3>6, <4>3, <4>5 DEF TypeOK, HydrationInv
      <4>6. CASE ProofUnavailable(held) /\ (opts.publicProduction = TRUE => p = "complete")
        BY <3>6, <4>1, <4>2, <4>3, <4>6
      <4>7. CASE Settle(held, Verdict(held)) /\ (opts.publicProduction = TRUE => p = "complete")
        BY <4>1, <4>2, <4>3, <4>7, HydrationKept DEF Settle
      <4> QED BY <4>4, <4>5, <4>6, <4>7
    <3> QED BY <2>2, <3>1, <3>2, <3>3, <3>4, <3>5, <3>7, <3>8, <3>9 DEF WaitStep
  <2> QED BY <2>1, <2>2 DEF Next
<1> QED BY <1>1, <1>2, TypeCorrect, PollingCorrect, PTL DEF SafetySpec

\* Every id, gas figure and finality of a result is the node's.
THEOREM NothingIsInvented == Spec => []NothingInvented
<1>1. HydrationInv /\ TypeOK => NothingInvented
  BY DEF HydrationInv, Mirrors, NothingInvented, TypeOK, ResultType
<1>2. Spec => SafetySpec
  BY DEF Spec, SafetySpec
<1> QED BY <1>1, <1>2, HydrationCorrect, TypeCorrect, PTL

\* A completed result returned under throwOnIncomplete has what was required,
\* and so has the node.
THEOREM ReturnedResultIsComplete == Spec => []ReturnedIsComplete
<1>1. HydrationInv => ReturnedIsComplete
  BY DEF HydrationInv
<1>2. Spec => SafetySpec
  BY DEF Spec, SafetySpec
<1> QED BY <1>1, <1>2, HydrationCorrect, PTL

\* A proof is of the canonical bundle or of the only one.
THEOREM ProofIsOfTheIntent == Spec => []ProofIsTheIntents
<1>1. HydrationInv /\ TypeOK => ProofIsTheIntents
  BY DEF HydrationInv, FairChoice, ProofIsTheIntents, TypeOK, OptionsType
<1>2. Spec => SafetySpec
  BY DEF Spec, SafetySpec
<1> QED BY <1>1, <1>2, HydrationCorrect, TypeCorrect, PTL

-----------------------------------------------------------------------------
(***************************************************************************)
(* Progress.  Rank bounds the steps that a wait still has: a poll, its     *)
(* answer and a sleep for each unit of time up to the deadline, then the   *)
(* last poll and the three reads of the hydration.                         *)
(***************************************************************************)

TimeLeft(t) == IF t < deadline THEN deadline - t ELSE 0

Rank ==
  CASE pc = "sleeping" -> 3 * TimeLeft(wakeAt) + 6
    [] pc = "send" -> 3 * TimeLeft(clock) + 5
    [] pc = "polling" -> 3 * TimeLeft(clock) + 4
    [] pc = "outcome" -> 3
    [] pc = "bundles" -> 2
    [] pc = "export" -> 1
    [] OTHER -> 0

RankDecreases == (WaitStep => Rank' < Rank) /\ Rank' <= Rank

LEMMA TimeLeftType ==
  ASSUME deadline \in Nat, NEW t \in Nat
  PROVE  /\ TimeLeft(t) \in Nat
         /\ \A u \in Nat : t <= u => TimeLeft(u) <= TimeLeft(t)
         /\ \A u \in Nat : t < u /\ t < deadline => TimeLeft(u) < TimeLeft(t)
BY DEF TimeLeft

LEMMA RankType == TypeOK => Rank \in Nat
<1> SUFFICES ASSUME TypeOK PROVE Rank \in Nat
  OBVIOUS
<1>1. TimeLeft(wakeAt) \in Nat /\ TimeLeft(clock) \in Nat
  BY TimeLeftType DEF TypeOK
<1>2. 3 * TimeLeft(wakeAt) + 6 \in Nat /\ 3 * TimeLeft(clock) + 5 \in Nat
      /\ 3 * TimeLeft(clock) + 4 \in Nat
  BY <1>1
<1> QED BY <1>2 DEF Rank

\* A wait takes at most 3 * MaxWait + 5 steps of its own, whatever the node
\* answers and whenever: each of them lowers a rank that neither the node nor
\* the clock ever raises (results.ts:166-322).
THEOREM WaitRunsDown ==
  SafetySpec => /\ [](Rank \in Nat /\ Rank <= 3 * MaxWait + 5)
                /\ [][RankDecreases]_vars
<1>1. Init => Rank <= 3 * MaxWait + 5
  <2> SUFFICES ASSUME Init PROVE Rank <= 3 * MaxWait + 5
    OBVIOUS
  <2>1. TimeLeft(clock) <= MaxWait /\ TimeLeft(clock) \in Nat
    BY TimeAssumption DEF Init, TimeLeft
  <2>2. Rank = 3 * TimeLeft(clock) + 5
    BY DEF Init, Rank
  <2> QED BY <2>1, <2>2, TimeAssumption
<1>2. ASSUME TypeOK, TypeOK', WaitStep PROVE Rank' < Rank
  <2> USE <1>2
  <2>0. Rank \in Nat
    BY RankType
  <2>1. /\ TimeLeft(clock) \in Nat /\ TimeLeft(wakeAt) \in Nat
        /\ deadline \in Nat /\ clock \in Nat /\ wakeAt \in Nat
    BY TimeLeftType DEF TypeOK
  <2>2. CASE Poll
    <3>1. pc = "send" /\ pc' = "polling" /\ UNCHANGED <<clock, deadline>>
      BY <2>2 DEF Poll
    <3>2. Rank = 3 * TimeLeft(clock) + 5 /\ Rank' = 3 * TimeLeft(clock) + 4
      BY <3>1 DEF Rank, TimeLeft
    <3> QED BY <2>1, <3>2
  <2>3. CASE PollAnswered
    <3>1. pc = "polling" /\ UNCHANGED <<clock, deadline>> /\ Rank = 3 * TimeLeft(clock) + 4
      BY <2>3 DEF PollAnswered, Rank
    <3>2. CASE pc' = "outcome" \/ pc' = "done"
      <4>1. Rank' \in {0, 3}
        BY <3>2 DEF Rank
      <4> QED BY <2>1, <3>1, <4>1
    <3>3. CASE pc' = "sleeping" /\ clock < deadline /\ wakeAt' = clock + PollInterval
      <4>1. Rank' = 3 * TimeLeft(wakeAt') + 6
        BY <3>1, <3>3 DEF Rank, TimeLeft
      <4>2. clock < wakeAt' /\ wakeAt' \in Nat
        BY <2>1, <3>3, TimeAssumption DEF TypeOK
      <4>3. TimeLeft(wakeAt') < TimeLeft(clock) /\ TimeLeft(wakeAt') \in Nat
        BY <2>1, <3>3, <4>2, TimeLeftType
      <4> QED BY <2>1, <3>1, <4>1, <4>3
    <3> QED BY <2>3, <3>2, <3>3 DEF PollAnswered, Settle
  <2>4. CASE PollFails
    <3>1. pc = "polling" /\ pc' = "done"
      BY <2>4 DEF PollFails, Settle
    <3> QED BY <2>1, <3>1 DEF Rank
  <2>5. CASE Wake
    <3>1. pc = "sleeping" /\ pc' = "send" /\ UNCHANGED <<clock, deadline>> /\ wakeAt <= clock
      BY <2>1, <2>5 DEF Wake
    <3>2. Rank = 3 * TimeLeft(wakeAt) + 6 /\ Rank' = 3 * TimeLeft(clock) + 5
      BY <3>1 DEF Rank, TimeLeft
    <3>3. TimeLeft(clock) <= TimeLeft(wakeAt)
      BY <2>1, <3>1, TimeLeftType
    <3> QED BY <2>1, <3>2, <3>3
  <2>6. CASE OutcomeRead \/ OutcomeUnreadable
    <3>1. pc = "outcome" /\ pc' \in {"bundles", "done"}
      BY <2>6 DEF OutcomeRead, OutcomeUnreadable, AfterOutcome, Settle
    <3> QED BY <3>1 DEF Rank
  <2>7. CASE BundlesListed
    <3>1. pc = "bundles" /\ pc' \in {"export", "done"}
      BY <2>7 DEF BundlesListed, ProofUnavailable, Settle
    <3> QED BY <3>1 DEF Rank
  <2>8. CASE ProofRequestFails \/ \E package \in Package : ProofExported(package)
    <3>1. pc \in {"bundles", "export"} /\ pc' = "done"
      BY <2>8 DEF ProofRequestFails, ProofExported, ProofUnavailable, Settle
    <3> QED BY <3>1 DEF Rank
  <2> QED BY <2>2, <2>3, <2>4, <2>5, <2>6, <2>7, <2>8 DEF WaitStep
<1>3. ASSUME TypeOK, TypeOK', NodeStep \/ Tick PROVE Rank' <= Rank
  <2> USE <1>3
  <2>0. Rank \in Nat /\ Rank' \in Nat
    <3>1. (TypeOK => Rank \in Nat)'
      BY RankType, PTL
    <3> QED BY <3>1, RankType
  <2>1. UNCHANGED <<pc, deadline, wakeAt>> /\ clock <= clock'
    BY DEF NodeStep, NodePlans, NodeFinishes, NodeRecordsOutcome, NodeAnchors,
           NodeListsBundle, Tick, wait, TypeOK
  <2>2. deadline \in Nat /\ clock \in Nat /\ clock' \in Nat
    BY DEF TypeOK
  <2>4. /\ TimeLeft(clock') <= TimeLeft(clock)
        /\ TimeLeft(clock') \in Nat /\ TimeLeft(clock) \in Nat
    BY <2>1, <2>2, TimeLeftType
  <2>5. CASE pc \in {"send", "polling"}
    <3>1. TimeLeft(clock)' = TimeLeft(clock')
      BY <2>1 DEF TimeLeft
    <3> QED BY <2>1, <2>4, <2>5, <3>1 DEF Rank
  <2>6. CASE pc \notin {"send", "polling"}
    <3>1. TimeLeft(wakeAt)' = TimeLeft(wakeAt)
      BY <2>1 DEF TimeLeft
    <3>2. Rank' = Rank
      BY <2>1, <2>6, <3>1 DEF Rank
    <3> QED BY <2>0, <3>2
  <2> QED BY <2>5, <2>6
<1>4. TypeOK /\ TypeOK' /\ [Next]_vars => [RankDecreases]_vars
  <2> SUFFICES ASSUME TypeOK, TypeOK', Next PROVE RankDecreases
    OBVIOUS
  <2>1. Rank \in Nat /\ (WaitStep => Rank' < Rank)
    BY RankType, <1>2
  <2>2. (TypeOK => Rank \in Nat)'
    BY RankType, PTL
  <2>3. Rank' <= Rank
    BY <1>3, <2>1, <2>2 DEF Next
  <2> QED BY <2>1, <2>3 DEF RankDecreases
<1>5. TypeOK => Rank \in Nat
  BY RankType
<1>6. TypeOK /\ TypeOK' /\ Rank <= 3 * MaxWait + 5 /\ [Next]_vars => (Rank <= 3 * MaxWait + 5)'
  <2> SUFFICES ASSUME TypeOK, TypeOK', Rank <= 3 * MaxWait + 5, [Next]_vars
               PROVE  Rank' <= 3 * MaxWait + 5
    BY TimeAssumption
  <2>1. Rank \in Nat
    BY RankType
  <2>2. (TypeOK => Rank \in Nat)'
    BY RankType, PTL
  <2>3. Rank' <= Rank
    <3>1. CASE Next
      BY <1>2, <1>3, <2>1, <2>2, <3>1 DEF Next
    <3>2. CASE UNCHANGED vars
      <4>1. Rank' = Rank
        BY <3>2 DEF vars, Rank, TimeLeft
      <4> QED BY <2>1, <4>1
    <3> QED BY <3>1, <3>2
  <2> QED BY <2>1, <2>2, <2>3, TimeAssumption
<1> QED BY <1>1, <1>4, <1>5, <1>6, TypeCorrect, PTL DEF SafetySpec

=============================================================================
