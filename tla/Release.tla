------------------------------ MODULE Release ------------------------------
(***************************************************************************)
(* The release workflow of the @infrix npm packages: publish.yml running   *)
(* release-npm.mjs --preflight, release-npm.mjs --publish and              *)
(* verify-npm-registry.mjs, one after the other, on one commit.            *)
(*                                                                         *)
(* publish.yml has no concurrency group, so several runs of it may be at   *)
(* work, of the same commit or not; a run that failed may be started       *)
(* again.  The registry accepts a version once, and a version accepted a   *)
(* moment ago may be missing from what it answers.  Each npm or HTTP call  *)
(* is one action; whatever may go wrong with it is an action of its own.   *)
(***************************************************************************)
EXTENDS Integers, FiniteSets

CONSTANTS
  NumPackages,  \* packageDirs() lists the packages 1 .. NumPackages in this order
  Runs, Payloads, Builds, None, Bootstrap,  \* see ReleaseContract
  Attested,     \* the runs whose commit attests every trusted publisher
  Bootstraps,   \* the registries there may be before the first run
  Retries,      \* --retries of verify-npm-registry.mjs
  MaxFaults     \* bound on the calls that fail and the runs that are killed

Packages == 1 .. NumPackages

ASSUME SizeAssumption ==
  NumPackages \in Nat /\ Retries \in Nat /\ MaxFaults \in Nat
ASSUME NamesAssumption ==
  None \notin Payloads /\ None \notin Runs /\ Bootstrap \notin Runs /\ Bootstrap # None
ASSUME BuildsAssumption == Builds \in [Runs -> [Packages -> SUBSET Payloads]]
ASSUME RegistryAssumption ==
  Attested \subseteq Runs /\ Bootstraps \subseteq [Packages -> Payloads \cup {None}]

VARIABLES
  \* The registry
  registry, author,  \* see ReleaseContract
  lagging,    \* the packages whose version some reads do not see yet
  \* Each run
  pc,         \* what it is doing
  mode,       \* which release-npm.mjs step it is in
  pack,       \* its pack manifest: the payload of each package
  plan,       \* the plan computed so far, a status for each package
  manifest,   \* release-manifest.json, as last written
  found,      \* what verify-npm-registry.mjs found in this attempt
  attempt,    \* the number of that attempt
  \* Bound
  faults

remote == <<registry, author, lagging>>
vars == <<registry, author, lagging, pc, mode, pack, plan, manifest, found, attempt, faults>>

\* "shipped" and "failed" are the absent packages by the result of npm publish.
Status == {"unprobed", "absent", "published", "published-same", "published-different",
           "error", "shipped", "failed"}
Finding == {"unqueried", "live", "mismatch", "unattested", "absent", "error"}

TypeOK ==
  /\ registry \in [Packages -> Payloads \cup {None}]
  /\ author \in [Packages -> Runs \cup {Bootstrap, None}]
  /\ lagging \subseteq Packages
  /\ pc \in [Runs -> {"idle", "plan", "publish", "verify", "green", "red"}]
  /\ mode \in [Runs -> {"preflight", "publish"}]
  /\ pack \in [Runs -> [Packages -> Payloads \cup {None}]]
  /\ plan \in [Runs -> [Packages -> Status]]
  /\ manifest \in [Runs -> [Packages -> Status]]
  /\ found \in [Runs -> [Packages -> Finding]]
  /\ attempt \in [Runs -> 0 .. Retries]
  /\ faults \in 0 .. MaxFaults

NoPlan == [p \in Packages |-> "unprobed"]
NoFindings == [p \in Packages |-> "unqueried"]

Init ==
  /\ registry \in Bootstraps
  /\ author = [p \in Packages |-> IF registry[p] = None THEN None ELSE Bootstrap]
  /\ lagging = {}
  /\ pc = [r \in Runs |-> "idle"]
  /\ mode = [r \in Runs |-> "preflight"]
  /\ pack = [r \in Runs |-> [p \in Packages |-> None]]
  /\ plan = [r \in Runs |-> NoPlan]
  /\ manifest = [r \in Runs |-> NoPlan]
  /\ found = [r \in Runs |-> NoFindings]
  /\ attempt = [r \in Runs |-> 0]
  /\ faults = 0

-----------------------------------------------------------------------------
(* Packages are worked through in order. *)

In(r, statuses) == {p \in Packages : plan[r][p] \in statuses}
IsFirst(p, S) == p \in S /\ \A q \in S : p =< q
Row(r, p, status) == plan' = [plan EXCEPT ![r][p] = status]

Fault == faults < MaxFaults /\ faults' = faults + 1

(* Whether a read of the registry may show the version of p. *)
Seen(p) ==
  IF registry[p] = None THEN {FALSE} ELSE IF p \in lagging THEN BOOLEAN ELSE {TRUE}

(* The registry's copies catch up. *)
Propagate(p) ==
  /\ p \in lagging
  /\ lagging' = lagging \ {p}
  /\ UNCHANGED <<registry, author, pc, mode, pack, plan, manifest, found, attempt, faults>>

-----------------------------------------------------------------------------
(* The run is triggered, or a failed one is run again: it packs every      *)
(* package and starts release-npm.mjs --preflight.                         *)

Start(r) ==
  /\ pc[r] \in {"idle", "red"}
  /\ \E m \in [Packages -> Payloads] :
       /\ \A p \in Packages : m[p] \in Builds[r][p]
       /\ pack' = [pack EXCEPT ![r] = m]
  /\ pc' = [pc EXCEPT ![r] = "plan"]
  /\ mode' = [mode EXCEPT ![r] = "preflight"]
  /\ plan' = [plan EXCEPT ![r] = NoPlan]
  /\ manifest' = [manifest EXCEPT ![r] = NoPlan]
  /\ UNCHANGED <<remote, found, attempt, faults>>

-----------------------------------------------------------------------------
(* computePlan, then annotatePayloads. *)

Probing(r, p) == pc[r] = "plan" /\ IsFirst(p, In(r, {"unprobed"}))
Planned == <<remote, pc, mode, pack, manifest, found, attempt>>

ComputePlan(r, p) ==
  /\ Probing(r, p)
  /\ \E seen \in Seen(p) : Row(r, p, IF seen THEN "published" ELSE "absent")
  /\ UNCHANGED <<Planned, faults>>

ProbeFails(r, p) ==
  /\ Probing(r, p)
  /\ Row(r, p, "error")
  /\ Fault
  /\ UNCHANGED Planned

\* MUTANT of Compare: an unreadable registry shasum counts as a difference.
CompareUnreadable(seen, theirs, ours) ==
  IF seen /\ theirs = ours THEN "published-same" ELSE "published-different"

\* MUTANT of Compare: a status the rest of the script does not know.
CompareMisspelt(seen, theirs, ours) ==
  IF seen THEN IF theirs = ours THEN "published-same" ELSE "published-changed" ELSE "error"

(* The status of a published package, by the two shasums. *)
Compare(seen, theirs, ours) ==
  IF seen THEN IF theirs = ours THEN "published-same" ELSE "published-different" ELSE "error"

Annotating(r, p) ==
  /\ pc[r] = "plan"
  /\ In(r, {"unprobed"}) = {}
  /\ IsFirst(p, In(r, {"published"}))

AnnotatePayloads(r, p) ==
  /\ Annotating(r, p)
  /\ \E seen \in Seen(p), built \in Builds[r][p] : Row(r, p, Compare(seen, registry[p], built))
  /\ UNCHANGED <<Planned, faults>>

(* The registry's shasum cannot be read, or the local payload not be built. *)
PayloadFails(r, p) ==
  /\ Annotating(r, p)
  /\ Row(r, p, "error")
  /\ Fault
  /\ UNCHANGED Planned

-----------------------------------------------------------------------------
(* The plan is complete: it is written down and the gate is applied. *)

PlanComplete(r) == pc[r] = "plan" /\ In(r, {"unprobed", "published"}) = {}
WriteManifest(r) == manifest' = [manifest EXCEPT ![r] = plan[r]]

\* MUTANT of ReleaseReady: only registry errors stop the release.
ReleaseReadyWhenReachable(r) == In(r, {"error"}) = {}

ReleaseReady(r) == In(r, {"error", "published-different"}) = {}

GateFails(r) ==
  /\ PlanComplete(r) /\ ~ReleaseReady(r)
  /\ WriteManifest(r)
  /\ pc' = [pc EXCEPT ![r] = "red"]
  /\ plan' = [plan EXCEPT ![r] = NoPlan]
  /\ UNCHANGED <<remote, mode, pack, found, attempt, faults>>

(* The publish step starts with the trusted-publisher gate, and plans again. *)
PreflightPasses(r) ==
  /\ PlanComplete(r) /\ ReleaseReady(r)
  /\ mode[r] = "preflight"
  /\ WriteManifest(r)
  /\ mode' = [mode EXCEPT ![r] = "publish"]
  /\ pc' = [pc EXCEPT ![r] = IF r \in Attested THEN "plan" ELSE "red"]
  /\ plan' = [plan EXCEPT ![r] = NoPlan]
  /\ UNCHANGED <<remote, pack, found, attempt, faults>>

\* MUTANT of NothingToPublish: a run with nothing left to publish has failed.
NothingToPublishFails(r) ==
  /\ PlanComplete(r) /\ ReleaseReady(r)
  /\ mode[r] = "publish" /\ In(r, {"absent"}) = {}
  /\ WriteManifest(r)
  /\ pc' = [pc EXCEPT ![r] = "red"]
  /\ plan' = [plan EXCEPT ![r] = NoPlan]
  /\ UNCHANGED <<remote, mode, pack, found, attempt, faults>>

NothingToPublish(r) ==
  /\ PlanComplete(r) /\ ReleaseReady(r)
  /\ mode[r] = "publish" /\ In(r, {"absent"}) = {}
  /\ WriteManifest(r)
  /\ pc' = [pc EXCEPT ![r] = "verify"]
  /\ plan' = [plan EXCEPT ![r] = NoPlan]
  /\ UNCHANGED <<remote, mode, pack, found, attempt, faults>>

PublishGatePasses(r) ==
  /\ PlanComplete(r) /\ ReleaseReady(r)
  /\ mode[r] = "publish" /\ In(r, {"absent"}) # {}
  /\ WriteManifest(r)
  /\ pc' = [pc EXCEPT ![r] = "publish"]
  /\ UNCHANGED <<remote, mode, pack, plan, found, attempt, faults>>

-----------------------------------------------------------------------------
(* npm publish, for each absent package until one fails.  It builds the    *)
(* package again.                                                          *)

\* MUTANT of Publishing: a failed package does not stop the loop.
PublishingOn(r, p) ==
  /\ pc[r] = "publish"
  /\ IsFirst(p, In(r, {"absent"}))

Publishing(r, p) ==
  /\ pc[r] = "publish"
  /\ In(r, {"failed"}) = {}
  /\ IsFirst(p, In(r, {"absent"}))

Published == <<pc, mode, pack, manifest, found, attempt>>

Accepted(r, p) ==
  /\ registry[p] = None
  /\ \E built \in Builds[r][p] : registry' = [registry EXCEPT ![p] = built]
  /\ author' = [author EXCEPT ![p] = r]
  /\ lagging' = lagging \cup {p}

Publish(r, p) ==
  /\ Publishing(r, p)
  /\ Accepted(r, p)
  /\ Row(r, p, "shipped")
  /\ UNCHANGED <<Published, faults>>

(* The registry takes the version but npm does not get to hear of it. *)
PublishUnacknowledged(r, p) ==
  /\ Publishing(r, p)
  /\ Accepted(r, p)
  /\ Row(r, p, "failed")
  /\ Fault
  /\ UNCHANGED Published

(* The version exists by now. *)
PublishRejected(r, p) ==
  /\ Publishing(r, p)
  /\ registry[p] # None
  /\ Row(r, p, "failed")
  /\ UNCHANGED <<remote, Published, faults>>

\* MUTANT of PublishFails: the result is recorded before npm has answered.
PublishFailsUnnoticed(r, p) ==
  /\ Publishing(r, p)
  /\ Row(r, p, "shipped")
  /\ Fault
  /\ UNCHANGED <<remote, Published>>

(* The build, the credential or the connection fails. *)
PublishFails(r, p) ==
  /\ Publishing(r, p)
  /\ Row(r, p, "failed")
  /\ Fault
  /\ UNCHANGED <<remote, Published>>

PublishEnds(r) ==
  /\ pc[r] = "publish"
  /\ In(r, {"failed"}) # {} \/ In(r, {"absent"}) = {}
  /\ WriteManifest(r)
  /\ pc' = [pc EXCEPT ![r] = IF In(r, {"failed"}) = {} THEN "verify" ELSE "red"]
  /\ plan' = [plan EXCEPT ![r] = NoPlan]
  /\ UNCHANGED <<remote, mode, pack, found, attempt, faults>>

-----------------------------------------------------------------------------
(* verify-npm-registry.mjs *)

FoundAs(r, finding) == {p \in Packages : found[r][p] = finding}

\* MUTANT of Judge: the pack manifest is not compared.
JudgeLive(seen, theirs, by, ours) ==
  IF ~seen THEN "absent" ELSE IF by = Bootstrap THEN "unattested" ELSE "live"

\* MUTANT of Judge: a version without provenance will do.
JudgeUnattested(seen, theirs, by, ours) ==
  IF ~seen THEN "absent" ELSE IF theirs # ours THEN "mismatch" ELSE "live"

Judge(seen, theirs, by, ours) ==
  IF ~seen THEN "absent"
  ELSE IF theirs # ours THEN "mismatch"
  ELSE IF by = Bootstrap THEN "unattested" ELSE "live"

Querying(r, p) == pc[r] = "verify" /\ IsFirst(p, FoundAs(r, "unqueried"))
Queried(r) == pc[r] = "verify" /\ FoundAs(r, "unqueried") = {}

QueryOnce(r, p) ==
  /\ Querying(r, p)
  /\ \E seen \in Seen(p) :
       found' = [found EXCEPT ![r][p] = Judge(seen, registry[p], author[p], pack[r][p])]
  /\ UNCHANGED <<remote, pc, mode, pack, plan, manifest, attempt, faults>>

QueryFails(r, p) ==
  /\ Querying(r, p)
  /\ found' = [found EXCEPT ![r][p] = "error"]
  /\ Fault
  /\ UNCHANGED <<remote, pc, mode, pack, plan, manifest, attempt>>

(* Some package is merely not there yet. *)
WorthRetrying(r) ==
  FoundAs(r, "error") = {} /\ FoundAs(r, "absent") # {} /\ attempt[r] < Retries

Retry(r) ==
  /\ Queried(r) /\ WorthRetrying(r)
  /\ found' = [found EXCEPT ![r] = NoFindings]
  /\ attempt' = [attempt EXCEPT ![r] = @ + 1]
  /\ UNCHANGED <<remote, pc, mode, pack, plan, manifest, faults>>

AllVerified(r) == \A p \in Packages : found[r][p] = "live"

Verdict(r) ==
  /\ Queried(r) /\ ~WorthRetrying(r)
  /\ pc' = [pc EXCEPT ![r] = IF AllVerified(r) THEN "green" ELSE "red"]
  /\ found' = [found EXCEPT ![r] = NoFindings]
  /\ attempt' = [attempt EXCEPT ![r] = 0]
  /\ UNCHANGED <<remote, mode, pack, plan, manifest, faults>>

-----------------------------------------------------------------------------
(* The runner is lost or the run is cancelled. *)
Crash(r) ==
  /\ pc[r] \in {"plan", "publish", "verify"}
  /\ Fault
  /\ pc' = [pc EXCEPT ![r] = "red"]
  /\ plan' = [plan EXCEPT ![r] = NoPlan]
  /\ found' = [found EXCEPT ![r] = NoFindings]
  /\ attempt' = [attempt EXCEPT ![r] = 0]
  /\ UNCHANGED <<remote, mode, pack, manifest>>

Progress(r) ==
  \/ Start(r)
  \/ \E p \in Packages :
       ComputePlan(r, p) \/ AnnotatePayloads(r, p) \/ Publish(r, p) \/ PublishRejected(r, p)
         \/ QueryOnce(r, p)
  \/ GateFails(r) \/ PreflightPasses(r) \/ NothingToPublish(r) \/ PublishGatePasses(r)
  \/ PublishEnds(r) \/ Retry(r) \/ Verdict(r)

Trouble(r) ==
  \/ \E p \in Packages :
       ProbeFails(r, p) \/ PayloadFails(r, p) \/ PublishUnacknowledged(r, p)
         \/ PublishFails(r, p) \/ QueryFails(r, p)
  \/ Crash(r)

Next ==
  \/ \E p \in Packages : Propagate(p)
  \/ \E r \in Runs : Progress(r) \/ Trouble(r)

(* The operator starts the run and runs it again while it is red; every    *)
(* call of the scripts is bounded by a timeout; the registry's copies       *)
(* catch up in the end.                                                    *)
Fairness ==
  /\ \A r \in Runs : WF_vars(Progress(r))
  /\ \A p \in Packages : WF_vars(Propagate(p))

SafetySpec == Init /\ [][Next]_vars
Spec == SafetySpec /\ Fairness

-----------------------------------------------------------------------------
(* Properties. *)

(* A run ends green only when the registry holds, for every package and    *)
(* with provenance, the very payload its pack manifest lists - whoever     *)
(* else released, and whatever failed or lagged, in the meantime           *)
(* (verify-npm-registry.mjs:166-221).                                      *)
GreenIsLive ==
  \A r \in Runs : pc[r] = "green" =>
    \A p \in Packages : registry[p] = pack[r][p] /\ author[p] \in Runs

(* A package that release-manifest.json calls shipped is on the registry    *)
(* under this run's name; one it calls published-same is there with a      *)
(* payload that this commit builds.  So it stays after a crash between a   *)
(* publish and the final write (release-npm.mjs:310, :393).                *)
ManifestHonest ==
  \A r \in Runs, p \in Packages :
    /\ manifest[r][p] = "shipped" => author[p] = r
    /\ manifest[r][p] = "published-same" => registry[p] \in Builds[r][p]

(* The shipped packages of a manifest come before any package the loop     *)
(* did not get through: it stops at the first failure (:388-390).          *)
ShippedPrefix ==
  \A r \in Runs, p, q \in Packages :
    manifest[r][p] = "shipped" /\ q < p => manifest[r][q] \in {"shipped", "published-same"}

(* A run that ships anything, in any of its attempts, does so on top of    *)
(* earlier versions that its own commit builds: a changed package whose    *)
(* version was not bumped stops the release of all of them (:317-335).     *)
NothingShippedAroundAChange ==
  \A r \in Runs : (\E p \in Packages : author[p] = r) =>
    \A q \in Packages : author[q] = Bootstrap => registry[q] \in Builds[r][q]

(* A run whose builds are reproducible never finds that a version it       *)
(* released itself differs: a re-run resumes a partial release (:19-20).   *)
Reproducible(r) == \A p \in Packages : \A b, c \in Builds[r][p] : b = c
ResumeNeverConflicts ==
  \A r \in Runs, p \in Packages :
    Reproducible(r) /\ plan[r][p] = "published-different" => author[p] # r

(* The workflow keeps the promises of ReleaseContract. *)
Contract == INSTANCE ReleaseContract WITH green <- {r \in Runs : pc[r] = "green"}
KeepsContract == Contract!CSpec

(* Runs of one commit, each started again while it is red, all end green   *)
(* once calls stop failing: every partial release is completed.            *)
EventuallyReleased == <>(\A r \in Runs : pc[r] = "green")

(* release-npm.mjs:19 and npm-publishing.md:56 say that a publish never    *)
(* fails because the version is already there.                             *)
NeverFailsOnPublished ==
  [][\A r \in Runs, p \in Packages :
       plan[r][p] = "absent" /\ plan'[r][p] = "failed" => registry[p] = None]_vars

=============================================================================
