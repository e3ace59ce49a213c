--------------------------- MODULE ReleaseProofs ---------------------------
(* Proofs about Release: what a release run promises, for any number of    *)
(* packages, of concurrent runs, of payloads and of faults.                *)
EXTENDS Release, TLAPS

(***************************************************************************)
(* Types                                                                   *)
(***************************************************************************)

LEMMA InitTypes == Init => TypeOK
<1> SUFFICES ASSUME Init PROVE TypeOK
  OBVIOUS
<1> USE SizeAssumption, NamesAssumption, RegistryAssumption
<1>1. registry \in [Packages -> Payloads \cup {None}]
  BY DEF Init
<1>2. author \in [Packages -> Runs \cup {Bootstrap, None}]
  BY DEF Init
<1>3. lagging \subseteq Packages /\ attempt \in [Runs -> 0 .. Retries] /\ faults \in 0 .. MaxFaults
  BY DEF Init
<1>4. pack \in [Runs -> [Packages -> Payloads \cup {None}]]
  BY DEF Init
<1>5. /\ plan \in [Runs -> [Packages -> Status]]
      /\ manifest \in [Runs -> [Packages -> Status]]
      /\ found \in [Runs -> [Packages -> Finding]]
  BY DEF Init, NoPlan, NoFindings, Status, Finding
<1>6. /\ pc \in [Runs -> {"idle", "plan", "publish", "verify", "green", "red"}]
      /\ mode \in [Runs -> {"preflight", "publish"}]
  BY DEF Init
<1> QED
  BY <1>1, <1>2, <1>3, <1>4, <1>5, <1>6 DEF TypeOK

(* What the calls add to the state is well typed. *)
LEMMA FaultTypes == TypeOK /\ Fault => faults' \in 0 .. MaxFaults
BY SizeAssumption DEF TypeOK, Fault

LEMMA RowTypes ==
  ASSUME TypeOK, NEW r \in Runs, NEW p \in Packages, NEW s \in Status, Row(r, p, s)
  PROVE  plan' \in [Runs -> [Packages -> Status]]
BY DEF TypeOK, Row

LEMMA AcceptedTypes ==
  ASSUME TypeOK, NEW r \in Runs, NEW p \in Packages, Accepted(r, p)
  PROVE  /\ registry' \in [Packages -> Payloads \cup {None}]
         /\ author' \in [Packages -> Runs \cup {Bootstrap, None}]
         /\ lagging' \subseteq Packages
BY BuildsAssumption DEF TypeOK, Accepted

LEMMA NoPlanTypes == NoPlan \in [Packages -> Status] /\ NoFindings \in [Packages -> Finding]
BY DEF NoPlan, NoFindings, Status, Finding

LEMMA StepTypes == TypeOK /\ [Next]_vars => TypeOK'
<1> SUFFICES ASSUME TypeOK, [Next]_vars PROVE TypeOK'
  OBVIOUS
<1> USE NoPlanTypes
<1>1. ASSUME NEW p \in Packages, Propagate(p) PROVE TypeOK'
  BY <1>1 DEF TypeOK, Propagate
<1>2. ASSUME NEW r \in Runs, Start(r) PROVE TypeOK'
  BY <1>2 DEF TypeOK, Start, remote
<1>3. ASSUME NEW r \in Runs, NEW p \in Packages, ComputePlan(r, p) PROVE TypeOK'
  <2>1. plan' \in [Runs -> [Packages -> Status]]
    BY <1>3, RowTypes DEF ComputePlan, Status
  <2> QED
    BY <1>3, <2>1 DEF TypeOK, ComputePlan, Planned, remote
<1>4. ASSUME NEW r \in Runs, NEW p \in Packages, ProbeFails(r, p) \/ PayloadFails(r, p)
      PROVE  TypeOK'
  <2>1. plan' \in [Runs -> [Packages -> Status]]
    BY <1>4, RowTypes DEF ProbeFails, PayloadFails, Status
  <2>2. faults' \in 0 .. MaxFaults
    BY <1>4, FaultTypes DEF ProbeFails, PayloadFails
  <2> QED
    BY <1>4, <2>1, <2>2 DEF TypeOK, ProbeFails, PayloadFails, Planned, remote
<1>5. ASSUME NEW r \in Runs, NEW p \in Packages, AnnotatePayloads(r, p) PROVE TypeOK'
  <2>1. plan' \in [Runs -> [Packages -> Status]]
    BY <1>5, RowTypes DEF AnnotatePayloads, Compare, Status
  <2> QED
    BY <1>5, <2>1 DEF TypeOK, AnnotatePayloads, Planned, remote
<1>6. ASSUME NEW r \in Runs,
             GateFails(r) \/ PreflightPasses(r) \/ NothingToPublish(r) \/ PublishGatePasses(r)
               \/ PublishEnds(r)
      PROVE  TypeOK'
  <2>1. manifest' \in [Runs -> [Packages -> Status]]
    BY <1>6 DEF TypeOK, GateFails, PreflightPasses, NothingToPublish, PublishGatePasses, PublishEnds,
      WriteManifest
  <2> HIDE NoPlanTypes
  <2>2. plan' \in [Runs -> [Packages -> Status]]
    BY <1>6, NoPlanTypes DEF TypeOK, GateFails, PreflightPasses, NothingToPublish, PublishGatePasses, PublishEnds
  <2>3. /\ pc' \in [Runs -> {"idle", "plan", "publish", "verify", "green", "red"}]
        /\ mode' \in [Runs -> {"preflight", "publish"}]
    BY <1>6 DEF TypeOK, GateFails, PreflightPasses, NothingToPublish, PublishGatePasses, PublishEnds
  <2>4. UNCHANGED <<remote, pack, found, attempt, faults>>
    BY <1>6 DEF GateFails, PreflightPasses, NothingToPublish, PublishGatePasses, PublishEnds
  <2> QED
    BY <2>1, <2>2, <2>3, <2>4 DEF TypeOK, remote
<1>7. ASSUME NEW r \in Runs, NEW p \in Packages, Publish(r, p) \/ PublishUnacknowledged(r, p)
      PROVE  TypeOK'
  <2>1. plan' \in [Runs -> [Packages -> Status]]
    BY <1>7, RowTypes DEF Publish, PublishUnacknowledged, Status
  <2>2. faults' \in 0 .. MaxFaults
    BY <1>7, FaultTypes DEF Publish, PublishUnacknowledged, TypeOK
  <2>3. Accepted(r, p) /\ UNCHANGED Published
    BY <1>7 DEF Publish, PublishUnacknowledged
  <2> QED
    BY <2>1, <2>2, <2>3, AcceptedTypes DEF TypeOK, Published
<1>8. ASSUME NEW r \in Runs, NEW p \in Packages, PublishRejected(r, p) \/ PublishFails(r, p)
      PROVE  TypeOK'
  <2>1. plan' \in [Runs -> [Packages -> Status]]
    BY <1>8, RowTypes DEF PublishRejected, PublishFails, Status
  <2>2. faults' \in 0 .. MaxFaults
    BY <1>8, FaultTypes DEF PublishRejected, PublishFails, TypeOK
  <2>3. UNCHANGED <<remote, Published>>
    BY <1>8 DEF PublishRejected, PublishFails
  <2> QED
    BY <2>1, <2>2, <2>3 DEF TypeOK, Published, remote
<1>9. ASSUME NEW r \in Runs, NEW p \in Packages, QueryOnce(r, p) \/ QueryFails(r, p)
      PROVE  TypeOK'
  <2>1. found' \in [Runs -> [Packages -> Finding]]
    <3>1. PICK f \in Finding : found' = [found EXCEPT ![r][p] = f]
      BY <1>9 DEF QueryOnce, QueryFails, Judge, Finding
    <3> QED
      BY <3>1 DEF TypeOK
  <2>2. faults' \in 0 .. MaxFaults
    BY <1>9, FaultTypes DEF QueryOnce, QueryFails, TypeOK
  <2>3. UNCHANGED <<remote, pc, mode, pack, plan, manifest, attempt>>
    BY <1>9 DEF QueryOnce, QueryFails
  <2> QED
    BY <2>1, <2>2, <2>3 DEF TypeOK, remote
<1>10. ASSUME NEW r \in Runs, Retry(r) PROVE TypeOK'
  <2>1. attempt' \in [Runs -> 0 .. Retries]
    BY <1>10, SizeAssumption DEF TypeOK, Retry, WorthRetrying
  <2> QED
    BY <1>10, <2>1 DEF TypeOK, Retry, remote
<1>11. ASSUME NEW r \in Runs, Verdict(r) \/ Crash(r) PROVE TypeOK'
  <2>1. faults' \in 0 .. MaxFaults
    BY <1>11, FaultTypes DEF Verdict, Crash, TypeOK
  <2>2. attempt' \in [Runs -> 0 .. Retries]
    BY <1>11, SizeAssumption DEF TypeOK, Verdict, Crash
  <2>3. found' \in [Runs -> [Packages -> Finding]] /\ plan' \in [Runs -> [Packages -> Status]]
    <3>1. CASE Verdict(r)
      BY <3>1 DEF TypeOK, Verdict
    <3>2. CASE Crash(r)
      BY <3>2 DEF TypeOK, Crash
    <3> QED
      BY <1>11, <3>1, <3>2
  <2>4. pc' \in [Runs -> {"idle", "plan", "publish", "verify", "green", "red"}]
    BY <1>11 DEF TypeOK, Verdict, Crash
  <2>5. UNCHANGED <<remote, mode, pack, manifest>>
    BY <1>11 DEF Verdict, Crash
  <2> QED
    BY <2>1, <2>2, <2>3, <2>4, <2>5 DEF TypeOK, remote
<1>12. CASE UNCHANGED vars
  BY <1>12 DEF TypeOK, vars
<1> QED
  BY <1>1, <1>2, <1>3, <1>4, <1>5, <1>6, <1>7, <1>8, <1>9, <1>10, <1>11, <1>12
    DEF Next, Progress, Trouble

(* Every variable of a release keeps its type (release-npm.mjs and          *)
(* verify-npm-registry.mjs use no status beyond those listed).             *)
THEOREM TypeCorrect == SafetySpec => []TypeOK
BY InitTypes, StepTypes, PTL DEF SafetySpec

(***************************************************************************)
(* The registry                                                            *)
(***************************************************************************)

(* A version has an author when it has a payload; a run releases payloads   *)
(* of its own; only versions released by runs lag.                         *)
RegistryInv ==
  /\ \A p \in Packages : author[p] = None <=> registry[p] = None
  /\ \A p \in Packages : author[p] \in Runs => registry[p] \in Builds[author[p]][p]
  /\ \A p \in lagging : author[p] \in Runs

(* A step leaves released versions alone and adds none by hand. *)
Stable ==
  \A p \in Packages :
    /\ registry[p] # None => registry'[p] = registry[p] /\ author'[p] = author[p]
    /\ registry[p] = None => author'[p] \in Runs \cup {None}

LEMMA UnchangedIsStable ==
  TypeOK /\ RegistryInv /\ registry' = registry /\ author' = author => Stable
BY NamesAssumption DEF Stable, RegistryInv

LEMMA AcceptedIsStable ==
  ASSUME TypeOK, RegistryInv, NEW r \in Runs, NEW p \in Packages, Accepted(r, p)
  PROVE  Stable /\ RegistryInv'
<1>1. PICK built \in Builds[r][p] : registry' = [registry EXCEPT ![p] = built]
  BY DEF Accepted
<1>2. built \in Payloads /\ built # None
  BY BuildsAssumption, NamesAssumption
<1>3. author' = [author EXCEPT ![p] = r] /\ lagging' = lagging \cup {p} /\ registry[p] = None
  BY DEF Accepted
<1>4. r # None
  BY NamesAssumption
<1>5. Stable
  BY <1>1, <1>3 DEF Stable, TypeOK, RegistryInv
<1> QED
  BY <1>1, <1>2, <1>3, <1>4, <1>5 DEF RegistryInv, TypeOK

(* Every step leaves the registry as it is, lets it catch up, or releases.  *)
LEMMA RegistrySteps ==
  ASSUME [Next]_vars
  PROVE  \/ UNCHANGED remote
         \/ \E p \in Packages : Propagate(p)
         \/ \E r \in Runs, p \in Packages : Accepted(r, p)
<1>1. ASSUME NEW r \in Runs, Progress(r)
      PROVE  UNCHANGED remote \/ \E p \in Packages : Accepted(r, p)
  BY <1>1 DEF Progress, Start, ComputePlan, AnnotatePayloads, Publish, PublishRejected, QueryOnce,
    GateFails, PreflightPasses, NothingToPublish, PublishGatePasses, PublishEnds, Retry, Verdict,
    Planned, remote
<1>2. ASSUME NEW r \in Runs, Trouble(r)
      PROVE  UNCHANGED remote \/ \E p \in Packages : Accepted(r, p)
  BY <1>2 DEF Trouble, ProbeFails, PayloadFails, PublishUnacknowledged, PublishFails, QueryFails,
    Crash, Planned, remote
<1> QED
  BY <1>1, <1>2 DEF Next, vars, remote

LEMMA RegistryStep == TypeOK /\ RegistryInv /\ [Next]_vars => RegistryInv' /\ Stable
<1> SUFFICES ASSUME TypeOK, RegistryInv, [Next]_vars PROVE RegistryInv' /\ Stable
  OBVIOUS
<1>1. CASE UNCHANGED remote
  BY <1>1, UnchangedIsStable DEF RegistryInv, remote
<1>2. ASSUME NEW p \in Packages, Propagate(p) PROVE RegistryInv' /\ Stable
  BY <1>2, UnchangedIsStable DEF RegistryInv, Propagate
<1>3. ASSUME NEW r \in Runs, NEW p \in Packages, Accepted(r, p) PROVE RegistryInv' /\ Stable
  BY <1>3, AcceptedIsStable
<1> QED
  BY <1>1, <1>2, <1>3, RegistrySteps

LEMMA RegistryInit == Init => RegistryInv
BY NamesAssumption, RegistryAssumption DEF Init, RegistryInv

LEMMA RegistryCorrect == SafetySpec => []RegistryInv
<1>1. TypeOK /\ RegistryInv /\ [Next]_vars => RegistryInv'
  BY RegistryStep
<1> QED
  BY <1>1, RegistryInit, TypeCorrect, PTL DEF SafetySpec

(***************************************************************************)
(* What a run may know of the registry                                     *)
(***************************************************************************)

Local(r) == <<pc[r], pack[r], plan[r], manifest[r], found[r]>>

(* A run's own state changes by its own steps only. *)
LEMMA OthersKeepLocal ==
  ASSUME TypeOK, NEW r \in Runs, NEW s \in Runs, r # s, Progress(s) \/ Trouble(s)
  PROVE  Local(r)' = Local(r)
<1> USE DEF TypeOK, Local
<1>1. CASE Start(s)
  BY <1>1 DEF Start
<1>2. ASSUME NEW p \in Packages,
             ComputePlan(s, p) \/ AnnotatePayloads(s, p) \/ ProbeFails(s, p) \/ PayloadFails(s, p)
      PROVE  Local(r)' = Local(r)
  BY <1>2 DEF ComputePlan, AnnotatePayloads, ProbeFails, PayloadFails, Row, Planned
<1>3. CASE GateFails(s) \/ PreflightPasses(s) \/ NothingToPublish(s)
  BY <1>3 DEF GateFails, PreflightPasses, NothingToPublish, WriteManifest
<1>4. CASE PublishGatePasses(s) \/ PublishEnds(s)
  BY <1>4 DEF PublishGatePasses, PublishEnds, WriteManifest
<1>5. ASSUME NEW p \in Packages,
             \/ Publish(s, p) \/ PublishUnacknowledged(s, p)
             \/ PublishRejected(s, p) \/ PublishFails(s, p)
      PROVE  Local(r)' = Local(r)
  BY <1>5 DEF Publish, PublishUnacknowledged, PublishRejected, PublishFails, Row, Published
<1>6. ASSUME NEW p \in Packages, QueryOnce(s, p) \/ QueryFails(s, p)
      PROVE  Local(r)' = Local(r)
  BY <1>6 DEF QueryOnce, QueryFails
<1>7. CASE Retry(s)
  BY <1>7 DEF Retry
<1>8. CASE Verdict(s) \/ Crash(s)
  BY <1>8 DEF Verdict, Crash
<1> QED
  BY <1>1, <1>2, <1>3, <1>4, <1>5, <1>6, <1>7, <1>8 DEF Progress, Trouble

LEMMA LocalSteps ==
  ASSUME TypeOK, NEW r \in Runs, [Next]_vars
  PROVE  Progress(r) \/ Trouble(r) \/ Local(r)' = Local(r)
<1>1. ASSUME NEW p \in Packages, Propagate(p) PROVE Local(r)' = Local(r)
  BY <1>1 DEF Propagate, Local
<1>2. CASE UNCHANGED vars
  BY <1>2 DEF vars, Local
<1> QED
  BY <1>1, <1>2, OthersKeepLocal DEF Next

(***************************************************************************)
(* The plan                                                                *)
(***************************************************************************)

(* What each status of the plan of run r says of the registry.              *)
StatusMeans(r, p) ==
  /\ plan[r][p] = "published-same" => registry[p] \in Builds[r][p]
  /\ plan[r][p] = "published-different" =>
       registry[p] # None /\ \E b \in Builds[r][p] : b # registry[p]
  /\ plan[r][p] = "shipped" => author[p] = r
  /\ plan[r][p] \in {"absent", "shipped", "failed"} => author[p] # Bootstrap

(* The statuses a row may have in each phase, and the order of publishing. *)
Phase(r) ==
  /\ pc[r] = "plan" => In(r, {"shipped", "failed"}) = {}
  /\ pc[r] = "publish" => In(r, {"absent", "published-same", "shipped", "failed"}) = Packages
  /\ pc[r] \notin {"plan", "publish"} => plan[r] = NoPlan

Prefix(row) ==
  \A p, q \in Packages : row[p] = "shipped" /\ q < p => row[q] \in {"shipped", "published-same"}

PlanInv(r) ==
  /\ \A p \in Packages : StatusMeans(r, p)
  /\ Phase(r)
  /\ Prefix(plan[r])

(* What a row says of a released version stays true. *)
LEMMA MeaningIsStable ==
  ASSUME TypeOK, RegistryInv, Stable, NEW r \in Runs, NEW p \in Packages,
         StatusMeans(r, p), plan'[r][p] = plan[r][p]
  PROVE  StatusMeans(r, p)'
<1>1. \A b \in Builds[r][p] : b # None
  BY BuildsAssumption, NamesAssumption
<1>2. author[p] = r => registry[p] # None
  BY NamesAssumption DEF RegistryInv
<1>3. author'[p] = Bootstrap => author[p] = Bootstrap
  BY NamesAssumption DEF Stable, TypeOK
<1> QED
  BY <1>1, <1>2, <1>3 DEF StatusMeans, Stable, TypeOK

(* A row that has just been given its status. *)
LEMMA RowKeepsPlan ==
  ASSUME TypeOK, RegistryInv, Stable, NEW r \in Runs, NEW p \in Packages, NEW s \in Status,
         PlanInv(r), Row(r, p, s), pc'[r] = pc[r],
         StatusMeans(r, p)',
         pc[r] = "plan" => s \notin {"shipped", "failed"},
         pc[r] = "publish" => s \in {"shipped", "failed"},
         pc[r] \in {"plan", "publish"},
         plan[r][p] \notin {"shipped", "published-same"},
         s = "shipped" => \A q \in Packages : q < p => plan[r][q] \in {"shipped", "published-same"}
  PROVE  PlanInv(r)'
<1>1. /\ plan'[r][p] = s
      /\ \A q \in Packages : q # p => plan'[r][q] = plan[r][q]
      /\ plan' \in [Runs -> [Packages -> Status]]
  BY DEF TypeOK, Row
<1>2. \A q \in Packages : StatusMeans(r, q)'
  <2> SUFFICES ASSUME NEW q \in Packages, q # p PROVE StatusMeans(r, q)'
    OBVIOUS
  <2> QED
    BY <1>1, MeaningIsStable DEF PlanInv
<1>3. Phase(r)'
  BY <1>1 DEF PlanInv, Phase, In
<1>4. Prefix(plan'[r])
  BY <1>1, SizeAssumption DEF PlanInv, Prefix, Packages
<1> QED
  BY <1>2, <1>3, <1>4 DEF PlanInv, Phase, In, StatusMeans

LEMMA BlankPlan ==
  ASSUME NEW r \in Runs, plan'[r] = NoPlan, pc'[r] # "publish"
  PROVE  PlanInv(r)'
BY DEF PlanInv, StatusMeans, Phase, Prefix, In, NoPlan

LEMMA PlanKept ==
  ASSUME TypeOK, RegistryInv, Stable, NEW r \in Runs, PlanInv(r), plan'[r] = plan[r], pc'[r] = pc[r]
  PROVE  PlanInv(r)'
<1>1. \A p \in Packages : StatusMeans(r, p)'
  BY MeaningIsStable DEF PlanInv
<1>2. Phase(r)' /\ Prefix(plan'[r])
  BY DEF PlanInv, Phase, In
<1> QED
  BY <1>1, <1>2 DEF PlanInv

(* A read that shows nothing, or lags, does not hide a version released by  *)
(* hand; one that shows something shows a version.                         *)
LEMMA Reads ==
  ASSUME TypeOK, RegistryInv, NEW p \in Packages, NEW seen \in Seen(p)
  PROVE  /\ seen \in BOOLEAN
         /\ seen => registry[p] # None
         /\ ~seen => author[p] # Bootstrap
BY NamesAssumption DEF RegistryInv, Seen

LEMMA PlanOwnStep ==
  ASSUME TypeOK, RegistryInv, Stable, NEW r \in Runs, PlanInv(r), Progress(r) \/ Trouble(r)
  PROVE  PlanInv(r)'
<1>1. CASE Start(r)
  BY <1>1, BlankPlan DEF TypeOK, Start
<1>2. ASSUME NEW p \in Packages, ComputePlan(r, p) PROVE PlanInv(r)'
  <2>1. PICK seen \in Seen(p) : Row(r, p, IF seen THEN "published" ELSE "absent")
    BY <1>2 DEF ComputePlan
  <2>2. plan'[r][p] = IF seen THEN "published" ELSE "absent"
    BY <2>1 DEF Row, TypeOK
  <2>3. registry' = registry /\ author' = author /\ pc' = pc
    BY <1>2 DEF ComputePlan, Planned, remote
  <2>4. StatusMeans(r, p)'
    BY <2>2, <2>3, Reads DEF StatusMeans
  <2>5. pc[r] = "plan" /\ plan[r][p] = "unprobed"
    BY <1>2 DEF ComputePlan, Probing, IsFirst, In
  <2> QED
    BY <2>1, <2>3, <2>4, <2>5, RowKeepsPlan DEF Status
<1>3. ASSUME NEW p \in Packages, ProbeFails(r, p) \/ PayloadFails(r, p) PROVE PlanInv(r)'
  <2>1. Row(r, p, "error") /\ pc' = pc /\ pc[r] = "plan" /\ plan[r][p] \in {"unprobed", "published"}
    BY <1>3 DEF ProbeFails, PayloadFails, Planned, Probing, Annotating, IsFirst, In
  <2>2. plan'[r][p] = "error"
    BY <2>1 DEF Row, TypeOK
  <2>3. StatusMeans(r, p)'
    BY <2>2 DEF StatusMeans
  <2> QED
    BY <2>1, <2>3, RowKeepsPlan DEF Status
<1>4. ASSUME NEW p \in Packages, AnnotatePayloads(r, p) PROVE PlanInv(r)'
  <2>1. PICK seen \in Seen(p), built \in Builds[r][p] : Row(r, p, Compare(seen, registry[p], built))
    BY <1>4 DEF AnnotatePayloads
  <2>2. plan'[r][p] = Compare(seen, registry[p], built)
    BY <2>1 DEF Row, TypeOK
  <2>3. registry' = registry /\ author' = author /\ pc' = pc
    BY <1>4 DEF AnnotatePayloads, Planned, remote
  <2>4. StatusMeans(r, p)'
    BY <2>2, <2>3, Reads DEF StatusMeans, Compare
  <2>5. pc[r] = "plan" /\ plan[r][p] = "published"
    BY <1>4 DEF AnnotatePayloads, Annotating, IsFirst, In
  <2>6. Compare(seen, registry[p], built) \in {"published-same", "published-different", "error"}
    BY DEF Compare
  <2> QED
    BY <2>1, <2>3, <2>4, <2>5, <2>6, RowKeepsPlan DEF Status
<1>5. CASE GateFails(r) \/ PreflightPasses(r) \/ NothingToPublish(r) \/ PublishEnds(r) \/ Crash(r)
  BY <1>5, BlankPlan
    DEF TypeOK, GateFails, PreflightPasses, NothingToPublish, PublishEnds, Crash
<1>6. CASE PublishGatePasses(r)
  <2>1. plan' = plan /\ pc[r] = "plan" /\ pc'[r] = "publish"
    BY <1>6 DEF PublishGatePasses, PlanComplete, TypeOK
  <2>2. In(r, {"absent", "published-same"}) = Packages
    BY <1>6 DEF PublishGatePasses, PlanComplete, ReleaseReady, In, PlanInv, Phase, TypeOK, Status
  <2>3. Phase(r)'
    BY <2>1, <2>2 DEF Phase, In
  <2>4. \A p \in Packages : StatusMeans(r, p)'
    BY <2>1, MeaningIsStable DEF PlanInv
  <2> QED
    BY <2>1, <2>3, <2>4 DEF PlanInv
<1>7. ASSUME NEW p \in Packages, Publish(r, p) \/ PublishUnacknowledged(r, p) PROVE PlanInv(r)'
  <2>1. /\ Accepted(r, p) /\ pc' = pc /\ pc[r] = "publish" /\ plan[r][p] = "absent"
        /\ \A q \in Packages : q < p => plan[r][q] \notin {"absent", "failed"}
    BY <1>7, SizeAssumption
      DEF Publish, PublishUnacknowledged, Publishing, Published, IsFirst, In, Packages
  <2>2. \A q \in Packages : q < p => plan[r][q] \in {"shipped", "published-same"}
    BY <2>1 DEF PlanInv, Phase, In
  <2>3. author'[p] = r /\ r # Bootstrap
    BY <2>1, NamesAssumption DEF Accepted, TypeOK
  <2>4. PICK s \in {"shipped", "failed"} : Row(r, p, s)
    BY <1>7 DEF Publish, PublishUnacknowledged
  <2>5. plan'[r][p] = s
    BY <2>4 DEF Row, TypeOK
  <2>6. StatusMeans(r, p)'
    BY <2>3, <2>5 DEF StatusMeans
  <2> QED
    BY <2>1, <2>2, <2>4, <2>6, RowKeepsPlan DEF Status
<1>8. ASSUME NEW p \in Packages, PublishRejected(r, p) \/ PublishFails(r, p) PROVE PlanInv(r)'
  <2>1. /\ author' = author /\ registry' = registry /\ pc' = pc /\ pc[r] = "publish"
        /\ plan[r][p] = "absent" /\ Row(r, p, "failed")
    BY <1>8 DEF PublishRejected, PublishFails, Publishing, Published, IsFirst, In, remote
  <2>2. plan'[r][p] = "failed"
    BY <2>1 DEF Row, TypeOK
  <2>3. StatusMeans(r, p)'
    BY <2>1, <2>2 DEF StatusMeans, PlanInv
  <2> QED
    BY <2>1, <2>3, RowKeepsPlan DEF Status
<1>9. ASSUME NEW p \in Packages, QueryOnce(r, p) \/ QueryFails(r, p) PROVE PlanInv(r)'
  BY <1>9, PlanKept DEF QueryOnce, QueryFails
<1>10. CASE Retry(r)
  BY <1>10, PlanKept DEF Retry
<1>11. CASE Verdict(r)
  BY <1>11, BlankPlan DEF Verdict, Queried, TypeOK, PlanInv, Phase
<1> QED
  BY <1>1, <1>2, <1>3, <1>4, <1>5, <1>6, <1>7, <1>8, <1>9, <1>10, <1>11 DEF Progress, Trouble

PlansInv == \A r \in Runs : PlanInv(r)

LEMMA PlansCorrect == SafetySpec => []PlansInv
<1>1. Init => PlansInv
  BY NamesAssumption DEF Init, PlansInv, PlanInv, StatusMeans, Phase, Prefix, In, NoPlan
<1>2. TypeOK /\ RegistryInv /\ PlansInv /\ [Next]_vars => PlansInv'
  <2> SUFFICES ASSUME TypeOK, RegistryInv, PlansInv, [Next]_vars, NEW r \in Runs
               PROVE  PlanInv(r)'
    BY DEF PlansInv
  <2>1. Stable /\ PlanInv(r)
    BY RegistryStep DEF PlansInv
  <2>2. CASE Progress(r) \/ Trouble(r)
    BY <2>1, <2>2, PlanOwnStep
  <2>3. CASE Local(r)' = Local(r)
    BY <2>1, <2>3, PlanKept DEF Local
  <2> QED
    BY <2>2, <2>3, LocalSteps
<1> QED
  BY <1>1, <1>2, TypeCorrect, RegistryCorrect, PTL DEF SafetySpec

(* A re-run never takes its own earlier version for a changed package, if  *)
(* its builds are reproducible (release-npm.mjs:19-20).                    *)
THEOREM ResumeIsSafe == SafetySpec => []ResumeNeverConflicts
<1>1. RegistryInv /\ PlansInv => ResumeNeverConflicts
  BY DEF RegistryInv, PlansInv, PlanInv, StatusMeans, ResumeNeverConflicts, Reproducible
<1> QED
  BY <1>1, RegistryCorrect, PlansCorrect, PTL

(***************************************************************************)
(* The manifest                                                            *)
(***************************************************************************)

ManifestInv(r) ==
  /\ \A p \in Packages :
       /\ manifest[r][p] = "shipped" => author[p] = r
       /\ manifest[r][p] = "published-same" => registry[p] \in Builds[r][p]
  /\ Prefix(manifest[r])

LEMMA ManifestKept ==
  ASSUME TypeOK, RegistryInv, Stable, NEW r \in Runs, ManifestInv(r), manifest'[r] = manifest[r]
  PROVE  ManifestInv(r)'
<1>1. \A p \in Packages : \A b \in Builds[r][p] : b # None
  BY BuildsAssumption, NamesAssumption
<1>2. \A p \in Packages : author[p] = r => registry[p] # None
  BY NamesAssumption DEF RegistryInv
<1>3. Prefix(manifest'[r])
  BY DEF ManifestInv
<1> QED
  BY <1>1, <1>2, <1>3 DEF ManifestInv, Stable, Prefix

LEMMA ManifestOwnStep ==
  ASSUME TypeOK, RegistryInv, Stable, NEW r \in Runs, ManifestInv(r), PlanInv(r),
         Progress(r) \/ Trouble(r)
  PROVE  ManifestInv(r)'
<1>1. CASE Start(r)
  <2>1. manifest'[r] = NoPlan
    BY <1>1 DEF Start, TypeOK
  <2> QED
    BY <2>1 DEF ManifestInv, Prefix, NoPlan
<1>2. CASE \/ GateFails(r) \/ PreflightPasses(r) \/ NothingToPublish(r) \/ PublishGatePasses(r)
           \/ PublishEnds(r)
  <2>1. manifest'[r] = plan[r] /\ registry' = registry /\ author' = author
    BY <1>2 DEF GateFails, PreflightPasses, NothingToPublish, PublishGatePasses, PublishEnds,
      WriteManifest, TypeOK, remote
  <2> QED
    BY <2>1 DEF ManifestInv, PlanInv, StatusMeans, Prefix
<1>3. ASSUME NEW p \in Packages,
             \/ ComputePlan(r, p) \/ AnnotatePayloads(r, p) \/ ProbeFails(r, p) \/ PayloadFails(r, p)
             \/ Publish(r, p) \/ PublishUnacknowledged(r, p) \/ PublishRejected(r, p)
             \/ PublishFails(r, p) \/ QueryOnce(r, p) \/ QueryFails(r, p)
      PROVE  ManifestInv(r)'
  <2>1. manifest' = manifest
    BY <1>3 DEF ComputePlan, AnnotatePayloads, ProbeFails, PayloadFails, Publish,
      PublishUnacknowledged, PublishRejected, PublishFails, QueryOnce, QueryFails, Planned, Published
  <2> QED
    BY <2>1, ManifestKept
<1>4. CASE Retry(r) \/ Verdict(r) \/ Crash(r)
  BY <1>4, ManifestKept DEF Retry, Verdict, Crash
<1> QED
  BY <1>1, <1>2, <1>3, <1>4 DEF Progress, Trouble

ManifestsInv == \A r \in Runs : ManifestInv(r)

LEMMA ManifestsCorrect == SafetySpec => []ManifestsInv
<1>1. Init => ManifestsInv
  BY DEF Init, ManifestsInv, ManifestInv, Prefix, NoPlan
<1>2. TypeOK /\ RegistryInv /\ PlansInv /\ ManifestsInv /\ [Next]_vars => ManifestsInv'
  <2> SUFFICES ASSUME TypeOK, RegistryInv, PlansInv, ManifestsInv, [Next]_vars, NEW r \in Runs
               PROVE  ManifestInv(r)'
    BY DEF ManifestsInv
  <2>1. Stable /\ ManifestInv(r) /\ PlanInv(r)
    BY RegistryStep DEF ManifestsInv, PlansInv
  <2>2. CASE Progress(r) \/ Trouble(r)
    BY <2>1, <2>2, ManifestOwnStep
  <2>3. CASE Local(r)' = Local(r)
    BY <2>1, <2>3, ManifestKept DEF Local
  <2> QED
    BY <2>2, <2>3, LocalSteps
<1> QED
  BY <1>1, <1>2, TypeCorrect, RegistryCorrect, PlansCorrect, PTL DEF SafetySpec

(* What release-manifest.json says of the registry is true, and stays true  *)
(* whenever the run is interrupted (release-npm.mjs:310, :393).            *)
THEOREM ManifestIsHonest == SafetySpec => []ManifestHonest
<1>1. ManifestsInv => ManifestHonest
  BY DEF ManifestsInv, ManifestInv, ManifestHonest
<1> QED
  BY <1>1, ManifestsCorrect, PTL

(* The loop publishes in order and stops at its first failure               *)
(* (release-npm.mjs:379-391).                                              *)
THEOREM ShippedIsAPrefix == SafetySpec => []ShippedPrefix
<1>1. ManifestsInv => ShippedPrefix
  BY DEF ManifestsInv, ManifestInv, ShippedPrefix, Prefix
<1> QED
  BY <1>1, ManifestsCorrect, PTL

(***************************************************************************)
(* The verification                                                        *)
(***************************************************************************)

VerifyInv(r) ==
  /\ pc[r] # "idle" => \A p \in Packages : pack[r][p] \in Builds[r][p]
  /\ pc[r] # "verify" => found[r] = NoFindings
  /\ \A p \in Packages :
       pc[r] = "green" \/ found[r][p] = "live" => registry[p] = pack[r][p] /\ author[p] \in Runs

LEMMA VerifyKept ==
  ASSUME TypeOK, RegistryInv, Stable, NEW r \in Runs, VerifyInv(r), pack'[r] = pack[r],
         \/ pc'[r] = pc[r] /\ found'[r] = found[r]
         \/ pc[r] # "idle" /\ pc'[r] # "green" /\ found'[r] = NoFindings
  PROVE  VerifyInv(r)'
<1>1. \A p \in Packages : author[p] \in Runs => registry[p] # None
  BY NamesAssumption DEF RegistryInv
<1> QED
  BY <1>1 DEF VerifyInv, Stable, NoFindings

LEMMA VerifyOwnStep ==
  ASSUME TypeOK, RegistryInv, Stable, NEW r \in Runs, VerifyInv(r), Progress(r) \/ Trouble(r)
  PROVE  VerifyInv(r)'
<1>1. CASE Start(r)
  <2>1. /\ \A p \in Packages : pack'[r][p] \in Builds[r][p]
        /\ pc'[r] = "plan"
        /\ found' = found
        /\ pc[r] \in {"idle", "red"}
    BY <1>1 DEF Start, TypeOK
  <2> QED
    BY <2>1 DEF VerifyInv, NoFindings
<1>2. ASSUME NEW p \in Packages,
             \/ ComputePlan(r, p) \/ AnnotatePayloads(r, p) \/ ProbeFails(r, p) \/ PayloadFails(r, p)
             \/ Publish(r, p) \/ PublishUnacknowledged(r, p) \/ PublishRejected(r, p)
             \/ PublishFails(r, p)
      PROVE  VerifyInv(r)'
  <2>1. UNCHANGED <<pc, pack, found>>
    BY <1>2 DEF ComputePlan, AnnotatePayloads, ProbeFails, PayloadFails, Publish,
      PublishUnacknowledged, PublishRejected, PublishFails, Planned, Published
  <2> QED
    BY <2>1, VerifyKept
<1>3. CASE GateFails(r) \/ PreflightPasses(r) \/ NothingToPublish(r) \/ PublishGatePasses(r)
             \/ PublishEnds(r)
  <2>1. /\ pc[r] \in {"plan", "publish"} /\ pc'[r] \in {"red", "plan", "verify", "publish"}
        /\ pack' = pack /\ found' = found
    BY <1>3 DEF GateFails, PreflightPasses, NothingToPublish, PublishGatePasses, PublishEnds,
      PlanComplete, TypeOK
  <2>2. found[r] = NoFindings
    BY <2>1 DEF VerifyInv
  <2> QED
    BY <2>1, <2>2, VerifyKept
<1>4. ASSUME NEW p \in Packages, QueryOnce(r, p) PROVE VerifyInv(r)'
  <2>1. PICK seen \in Seen(p) :
          found' = [found EXCEPT ![r][p] = Judge(seen, registry[p], author[p], pack[r][p])]
    BY <1>4 DEF QueryOnce
  <2>2. UNCHANGED <<registry, author, pc, pack>> /\ pc[r] = "verify"
    BY <1>4 DEF QueryOnce, Querying, remote
  <2>3. /\ found'[r][p] = Judge(seen, registry[p], author[p], pack[r][p])
        /\ \A q \in Packages : q # p => found'[r][q] = found[r][q]
    BY <2>1 DEF TypeOK
  <2>4. found'[r][p] = "live" => registry[p] = pack[r][p] /\ author[p] \in Runs
    BY <2>3, Reads DEF Judge, RegistryInv, TypeOK
  <2> QED
    BY <2>2, <2>3, <2>4 DEF VerifyInv
<1>5. ASSUME NEW p \in Packages, QueryFails(r, p) PROVE VerifyInv(r)'
  <2>1. /\ found'[r][p] = "error"
        /\ \A q \in Packages : q # p => found'[r][q] = found[r][q]
    BY <1>5 DEF QueryFails, TypeOK
  <2>2. UNCHANGED <<registry, author, pc, pack>> /\ pc[r] = "verify"
    BY <1>5 DEF QueryFails, Querying, remote
  <2> QED
    BY <2>1, <2>2 DEF VerifyInv
<1>6. CASE Retry(r)
  <2>1. pc' = pc /\ pack' = pack /\ pc[r] = "verify" /\ found'[r] = NoFindings
    BY <1>6 DEF Retry, Queried, TypeOK
  <2> QED
    BY <2>1, VerifyKept
<1>7. CASE Verdict(r)
  <2>1. /\ UNCHANGED <<registry, author, pack>> /\ found'[r] = NoFindings /\ pc[r] = "verify"
        /\ pc'[r] = IF AllVerified(r) THEN "green" ELSE "red"
    BY <1>7 DEF Verdict, Queried, TypeOK, remote
  <2> QED
    BY <2>1 DEF VerifyInv, AllVerified, NoFindings
<1>8. CASE Crash(r)
  <2>1. pack' = pack /\ pc[r] # "idle" /\ pc'[r] = "red" /\ found'[r] = NoFindings
    BY <1>8 DEF Crash, TypeOK
  <2> QED
    BY <2>1, VerifyKept
<1> QED
  BY <1>1, <1>2, <1>3, <1>4, <1>5, <1>6, <1>7, <1>8 DEF Progress, Trouble

VerifiedInv == \A r \in Runs : VerifyInv(r)

LEMMA VerifiedCorrect == SafetySpec => []VerifiedInv
<1>1. Init => VerifiedInv
  BY DEF Init, VerifiedInv, VerifyInv, NoFindings
<1>2. TypeOK /\ RegistryInv /\ VerifiedInv /\ [Next]_vars => VerifiedInv'
  <2> SUFFICES ASSUME TypeOK, RegistryInv, VerifiedInv, [Next]_vars, NEW r \in Runs
               PROVE  VerifyInv(r)'
    BY DEF VerifiedInv
  <2>1. Stable /\ VerifyInv(r)
    BY RegistryStep DEF VerifiedInv
  <2>2. CASE Progress(r) \/ Trouble(r)
    BY <2>1, <2>2, VerifyOwnStep
  <2>3. CASE Local(r)' = Local(r)
    BY <2>1, <2>3, VerifyKept DEF Local
  <2> QED
    BY <2>2, <2>3, LocalSteps
<1> QED
  BY <1>1, <1>2, TypeCorrect, RegistryCorrect, PTL DEF SafetySpec

(* A green run left every package on the registry with the payload of its  *)
(* pack manifest and with provenance (verify-npm-registry.mjs:166-221).    *)
THEOREM GreenRunIsLive == SafetySpec => []GreenIsLive
<1>1. VerifiedInv => GreenIsLive
  BY DEF VerifiedInv, VerifyInv, GreenIsLive
<1> QED
  BY <1>1, VerifiedCorrect, PTL

(***************************************************************************)
(* Releases around a change                                                *)
(***************************************************************************)

(* Who releases a package has planned every package, and found those        *)
(* released by hand to be what it builds.                                  *)
LEMMA ReleasesFollowAPlan ==
  ASSUME TypeOK, [Next]_vars, NEW r \in Runs, \E p \in Packages : author[p] # r /\ author'[p] = r
  PROVE  \E p \in Packages : pc[r] = "publish" /\ author' = [author EXCEPT ![p] = r]
<1>1. ASSUME NEW s \in Runs, Progress(s)
      PROVE  author' = author \/ \E p \in Packages : pc[s] = "publish" /\ author' = [author EXCEPT ![p] = s]
  BY <1>1 DEF Progress, Start, ComputePlan, AnnotatePayloads, Publish, PublishRejected, QueryOnce,
    GateFails, PreflightPasses, NothingToPublish, PublishGatePasses, PublishEnds, Retry, Verdict,
    Publishing, Accepted, Planned, remote
<1>2. ASSUME NEW s \in Runs, Trouble(s)
      PROVE  author' = author \/ \E p \in Packages : pc[s] = "publish" /\ author' = [author EXCEPT ![p] = s]
  BY <1>2 DEF Trouble, ProbeFails, PayloadFails, PublishUnacknowledged, PublishFails, QueryFails,
    Crash, Publishing, Accepted, Planned, remote
<1>3. author' # author
  OBVIOUS
<1>4. PICK s \in Runs, p \in Packages : pc[s] = "publish" /\ author' = [author EXCEPT ![p] = s]
  BY <1>1, <1>2, <1>3 DEF Next, Propagate, vars
<1>5. s = r
  BY <1>4 DEF TypeOK
<1> QED
  BY <1>4, <1>5

(* A changed package whose version was not bumped keeps a run from          *)
(* releasing anything (release-npm.mjs:317-335).                           *)
THEOREM NothingIsShippedAroundAChange == SafetySpec => []NothingShippedAroundAChange
<1>1. Init => NothingShippedAroundAChange
  BY NamesAssumption DEF Init, NothingShippedAroundAChange
<1>2. TypeOK /\ RegistryInv /\ PlansInv /\ NothingShippedAroundAChange /\ [Next]_vars
        => NothingShippedAroundAChange'
  <2> SUFFICES ASSUME TypeOK, RegistryInv, PlansInv, NothingShippedAroundAChange, [Next]_vars,
                      NEW r \in Runs, NEW p \in Packages, author'[p] = r,
                      NEW q \in Packages, author'[q] = Bootstrap
               PROVE  registry'[q] \in Builds[r][q]
    BY DEF NothingShippedAroundAChange
  <2>1. Stable
    BY RegistryStep
  <2>2. author[q] = Bootstrap /\ registry[q] # None /\ registry'[q] = registry[q]
    BY <2>1, NamesAssumption DEF Stable, RegistryInv
  <2>3. CASE author[p] = r
    BY <2>2, <2>3 DEF NothingShippedAroundAChange
  <2>4. CASE author[p] # r
    <3>1. pc[r] = "publish"
      BY <2>4, ReleasesFollowAPlan
    <3>2. plan[r][q] \in {"absent", "published-same", "shipped", "failed"}
      BY <3>1 DEF PlansInv, PlanInv, Phase, In
    <3> QED
      BY <2>2, <3>2, NamesAssumption DEF PlansInv, PlanInv, StatusMeans
  <2> QED
    BY <2>3, <2>4
<1> QED
  BY <1>1, <1>2, TypeCorrect, RegistryCorrect, PlansCorrect, PTL DEF SafetySpec

(***************************************************************************)
(* Release implements ReleaseContract                                      *)
(***************************************************************************)

Green == {r \in Runs : pc[r] = "green"}

LEMMA OnlyVerdictsTurnGreen ==
  ASSUME TypeOK, NEW r \in Runs, Progress(r) \/ Trouble(r)
  PROVE  \/ /\ \A s \in Runs : pc'[s] = "green" <=> pc[s] = "green"
            /\ (UNCHANGED remote \/ \E p \in Packages : Accepted(r, p))
         \/ Verdict(r) /\ AllVerified(r)
<1> USE DEF TypeOK
<1>1. CASE Start(r)
  BY <1>1 DEF Start
<1>2. ASSUME NEW p \in Packages,
             \/ ComputePlan(r, p) \/ AnnotatePayloads(r, p) \/ ProbeFails(r, p) \/ PayloadFails(r, p)
             \/ PublishRejected(r, p) \/ PublishFails(r, p) \/ QueryOnce(r, p) \/ QueryFails(r, p)
      PROVE  pc' = pc /\ UNCHANGED remote
  BY <1>2 DEF ComputePlan, AnnotatePayloads, ProbeFails, PayloadFails, PublishRejected,
    PublishFails, QueryOnce, QueryFails, Planned, Published
<1>3. ASSUME NEW p \in Packages, Publish(r, p) \/ PublishUnacknowledged(r, p)
      PROVE  pc' = pc /\ Accepted(r, p)
  BY <1>3 DEF Publish, PublishUnacknowledged, Published
<1>4. CASE GateFails(r) \/ PreflightPasses(r) \/ NothingToPublish(r)
  BY <1>4 DEF GateFails, PreflightPasses, NothingToPublish, PlanComplete
<1>5. CASE PublishGatePasses(r) \/ PublishEnds(r)
  BY <1>5 DEF PublishGatePasses, PublishEnds, PlanComplete
<1>6. CASE Retry(r)
  BY <1>6 DEF Retry
<1>7. CASE Verdict(r)
  BY <1>7 DEF Verdict, Queried
<1>8. CASE Crash(r)
  BY <1>8 DEF Crash
<1> QED
  BY <1>1, <1>2, <1>3, <1>4, <1>5, <1>6, <1>7, <1>8 DEF Progress, Trouble

(* The workflow, with all its retries, crashes and races, does nothing to   *)
(* the registry and announces nothing that ReleaseContract does not allow. *)
THEOREM ReleaseKeepsContract == SafetySpec => KeepsContract
<1>1. Init => Contract!CInit
  BY RegistryAssumption DEF Init, Contract!CInit
<1>2. /\ TypeOK /\ RegistryInv /\ VerifiedInv /\ [Next]_vars
      => [Contract!CNext]_Contract!contractVars
  <2> SUFFICES ASSUME TypeOK, RegistryInv, VerifiedInv, [Next]_vars
               PROVE  Contract!CNext \/ UNCHANGED <<registry, author, Green>>
    BY DEF Contract!contractVars, Green
  <2>1. ASSUME NEW r \in Runs, NEW p \in Packages, Accepted(r, p),
               \A s \in Runs : pc'[s] = "green" <=> pc[s] = "green"
        PROVE  Contract!CNext
    <3>1. Green' = Green
      BY <2>1 DEF Green
    <3>2. Contract!Release(r, p)
      BY <2>1, <3>1 DEF Contract!Release, Accepted, Green
    <3> QED
      BY <3>2 DEF Contract!CNext
  <2>2. ASSUME NEW r \in Runs, Verdict(r), AllVerified(r) PROVE Contract!CNext
    <3>1. \A p \in Packages : registry[p] \in Builds[r][p] /\ author[p] # Bootstrap
      BY <2>2, NamesAssumption DEF VerifiedInv, VerifyInv, AllVerified, Verdict, Queried
    <3>2. Green' = Green \cup {r}
      BY <2>2 DEF Green, Verdict, TypeOK
    <3>3. registry' = registry /\ author' = author
      BY <2>2 DEF Verdict, remote
    <3>4. Contract!Succeed(r)
      BY <3>1, <3>2, <3>3 DEF Contract!Succeed, Green
    <3> QED
      BY <3>4 DEF Contract!CNext
  <2>3. ASSUME NEW r \in Runs, Progress(r) \/ Trouble(r)
        PROVE  Contract!CNext \/ UNCHANGED <<registry, author, Green>>
    <3>1. CASE Verdict(r) /\ AllVerified(r)
      BY <2>2, <3>1
    <3>2. CASE /\ \A s \in Runs : pc'[s] = "green" <=> pc[s] = "green"
               /\ (UNCHANGED remote \/ \E p \in Packages : Accepted(r, p))
      BY <2>1, <3>2 DEF remote, Green
    <3> QED
      BY <2>3, <3>1, <3>2, OnlyVerdictsTurnGreen
  <2>4. ASSUME NEW p \in Packages, Propagate(p) PROVE UNCHANGED <<registry, author, Green>>
    BY <2>4 DEF Propagate, Green
  <2>5. CASE UNCHANGED vars
    BY <2>5 DEF vars, Green
  <2> QED
    BY <2>3, <2>4, <2>5 DEF Next
<1> QED
  BY <1>1, <1>2, TypeCorrect, RegistryCorrect, VerifiedCorrect, PTL
    DEF SafetySpec, KeepsContract, Contract!CSpec

=============================================================================
