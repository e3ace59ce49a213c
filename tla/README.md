# Specifications of the Infrix SDK

TLA+ specifications of the parts of this repository that have state, with TLC
configurations that check small instances of them and proofs that TLAPS checks
for every instance. Paths below are relative to the root of the repository
(`src/` in `PROJECT.json`); `PROJECT.json` maps each definition to the lines it
translates.

| Module | What it is |
|---|---|
| `WalletSession` | the wallet process: key store, session manager, `InfrixWallet` |
| `GovernedResult` | `waitForGovernedResult` against a node that moves |
| `Release` | the npm release workflow over the public registry |
| `ReleaseContract` | what that workflow promises; `Release` implements it |
| `StateRoot` | the state root check, over a node's root history and L0 |
| `RootAccumulator` | the Merkle proof algorithms that the check rests on |
| `PortableProof` | a portable evidence package from its export to its receipt |
| `MetaMaskSubmit` | a governed submission through MetaMask |
| `ProverLoader` | the shared start of the WebAssembly prover |
| `U256`, `ContractStorage` | 256-bit arithmetic, storage maps and the reentrancy guard of contracts |
| `MCWalletSession`, `MCGovernedResult`, `MCRelease`, `MCStateRoot`, `MCPage`, `MCContractStorage` | their instances for TLC |
| `…Proofs` | theorems and their proofs |

## Inventory

What the repository consists of, with the state each part keeps.

**Wallet** (`typescript-wallet/src`). State: the key pairs of `MemoryKeyStore`,
the active key of `InfrixWallet`, the map of sessions of `SessionManager` with
a use counter each. Operations: generate and import a key; create, validate,
use and revoke a session; sign and submit an intent; fetch, check, sign and
submit an approval. It calls the node by JSON-RPC and the store through
promises, and the application may keep any number of calls open. Hard: every
`await` lets other calls change what a call read (the active key is read up to
four times in `signApproval`); `validate` and `use` are two calls; a session
may be revoked while a call under it is suspended. Correct means: the scope
bounds what is done with the key, a revocation ends it, and what is signed is
signed with the key that is named.

**Governed results** (`typescript/src/results.ts`, `evidenceId.ts`). State: the
result under construction and the deadline. It polls the node for the status,
then reads outcome, evidence and a portable proof, each by a request that may
fail, while the node goes on recording and anchoring. Hard: late answers at the
deadline; reads at different times that must describe one intent; an artifact
that is not there *yet*; one failing request of several. Correct means: no
artifact is invented, a timeout is one, what is required is there when a result
is returned, and the wait ends.

**npm release** (`scripts/release-npm.mjs`, `verify-npm-registry.mjs`,
`release-packages.mjs`, `.github/workflows/publish.yml`). State: the plan, the
release manifest and the pack manifest of each run, and the registry, which is
shared and can never take a version back. Hard: runs race; a run dies anywhere;
`npm publish` fails after the registry accepted; reads lag behind writes;
builds may not be reproducible. Correct means: green implies released, a change
without a version bump releases nothing, and a partial release is resumed.

**State root accumulator** (`packages/verify/src/stateRootAccumulator.js`). No
state of its own: judges a document about an append-only history that the node
keeps and anchors on L0, from two anchors of different times. Hard: trees whose
size is no power of two; the two ends of an anchor's window; a node that
misstates a height or goes on from an older copy of its history. Correct means:
a pass is a fact about one history, and an honest document is never refused.

**Portable verifier** (`packages/verify/src/portableVerifier.js`,
`typescript/src/proofs/verifyLocal.ts`) and **proof receipts**
(`proofReceipt.js`, `packages/proof-receipt`, `packages/widgets`). No state of
their own: a package travels from the node's export to a verifier, through hands
that may change it, and the verdict and an L0 endpoint's answer become a receipt.
Hard: some fields are bound by the export hash alone, which anyone can compute,
others by the bundle too; a check that looks in the wrong place is skipped
silently; the mirror of the node's own verifier must refuse nothing that the
node writes. Correct means: what passes is what was exported, and a receipt
claims what was shown.

**Prover loader** (`packages/prover/src/index.js`). State: one promise for the
start of the module, shared by all callers, and the module's ready flag. Hard:
calls that come while the start is under way, or after it failed; a module that
is not awaited and may never be ready. Correct means: one module is run, the one
that was built, all callers hear the same, and every call comes back.

**MetaMask submit** (`typescript/src/metamask`, `packages/metamask`). State: the
import that calls share, and the locals of each call between prompts and
requests. Hard: the user switches accounts between two prompts; an answer is
lost after the node admitted the intent; errors are told apart by their text.
Correct means: an intent is signed by the account it is for, a result names the
intent that its own call submitted, and a failed call can be told to have submitted
nothing.

**Contract SDK** (`assemblyscript/assembly`). State: the contract's storage,
which the host keeps, and the locals of open calls. Operations: storage maps,
U256 arithmetic, checked addition and subtraction, the reentrancy guard, calls
of other contracts. Hard: callbacks to any depth; a call that traps is undone,
alone or with its transaction; carries and borrows across limbs; keys without
separators. Correct means: no update is lost or put elsewhere, and the guard
excludes.

**Agent client** (`typescript/src/agent`, `app/fromPrompt.ts`), **approvals,
identity, typed clients** (`typescript/src/sub-clients`, `identity`), **inbox,
rooms, studio, workbench, quests, remediation, tutor, scenario, companion,
compare**: one request per operation, or a view of an answer; no state is kept.

**Generated and static parts**: `tools/sdkgen`, `packages/templates`, the
elements of `packages/widgets`, `examples`, `docs`, and the type declarations
under `typescript/src/types`, which are the longest files of the repository.

The hazards are in `PROJECT.json`, each at the line where it bites, with the
properties that would catch it.

## WalletSession

JavaScript runs one thing at a time and gives way at every `await`; an action is
the code between two awaits. `call[t]` is where open call `t` is suspended and
the locals that it will use when it resumes; `keys`, `activeKey` and `sessions`
are the fields of the classes. The application is the environment: it opens any
call at any time, in `Task` many at once, and follows `validate` by signing and,
on success, by `use`, which is how the class comments describe it.

| Code | Actions |
|---|---|
| `generateKey`, `createSession` | `GenerateKey`/`CreateSession`, then `KeyPairStored`, then `AdoptKey`/`RegisterSession` |
| `importKey` | `ImportKey`, then `ImportedKeyStored` and `AdoptKey`, or `ImportRejected` |
| `revokeSession` | `RevokeSession` (no await separates the map from the store) |
| `validate`, `sign`, `use` | `BeginOperation`, `SignOperation`, `OperationSucceeds`/`OperationFails` |
| `submitIntent` | `SubmitUnsigned`, or `SubmitIntent` and `PostIntent` |
| `signApproval` | `SignApproval`, `BindMaterial`/`RefuseMaterial`, `SignBound`, `PostApproval` |

A key pair is its public key, and cryptography is perfect. A scope keeps one
list per kind of operation (goal types, contracts): the lists the code treats
alike (`allowedObjectTypes`, `allowedCapabilities`, `allowedRoles`, `functions`)
are not repeated. `issued`, `imported`, `revoked`, `requested` and `done` are
history: no action of the code reads them, except that a generated key is new.

Properties. `UsesAccounted`: the counter of a live session is its limit less
what completed, and a limit never becomes unlimited or the reverse.
`OvershootBounded`: since validation and counting are apart, a session may run
past its limit, by at most one operation per other open call; the run
`wallet_session_limit` shows the simple reading of `maxUses` violated.
`AuthorityWasGranted`: what is under way was granted by the scope asked for.
`PostsNameTheirSigner`: signature, preimage and named key agree although the
active key is read again after every await. `ActiveKeyLostOnlyByRevocation`:
the wallet loses its key only by an imported session key whose session is
revoked. `RevokedKeyNeverSigns`: a call validated before the revocation does not
start to sign after it, unless the key was imported again.

Bounds (`wallet_session`): two calls, two keys, a clock of two values, two completed operations per
session, one scope with a single use and one with an expiry, one operation per
kind and one over every limit. Two calls are the least that race, and every
property speaks of one key and at most two calls; the second key is the one that
is not the subject. 914,728 states up to the symmetry of calls and keys.

No fairness is stated: the wallet's requests have no timeout, so nothing says
that a suspended call resumes.

## GovernedResult

One wait. The node's side (`status`, `plan`, `outcome`, `bundles`) moves by
itself: it plans, ends the intent, records the outcome, lists bundles and
anchors, in any order that the types of the answers allow. The wait's side is
one action for each answer: `Poll`, then `PollAnswered` or `PollFails`; on a
terminal status the outcome read (`OutcomeRead` or `OutcomeUnreadable`), the
list of bundles (`BundlesListed`), the export (`ProofExported`), or their
failure (`ProofRequestFails`), each followed in the same action by the code up
to the next request. `Wake` is the timer.

Properties. `NothingInvented`: what a result says is in the node's one outcome
record, and blank without it. `ReturnedIsComplete`: a result returned under
`throwOnIncomplete` has what was required, and so has the node.
`TimeoutHonest` and `LatePollsBounded`: a timeout is of an intent last read as
running, at or after the deadline, and the wait outlives the deadline by one
poll. `FailureIsThrown`, which is proved and not run: with `throwOnFailure`
only a completed intent is returned. `ProofIsTheIntents`: a proof is of the canonical bundle, or the only
one. `Settles`: the wait ends, unless one of its requests is never answered.

`governed_result_failure` shows that a failed intent whose required proof cannot
be exported is reported by the export's error and not by `InfrixGovernanceError`
(see "findings" in `PROJECT.json`). Another comment says more than the code
does: `planSkipped` is "server-reported" (`results.ts:70`), but a completed
intent whose outcome cannot be read yet also leaves the plan id blank, and is
then said to have had no plan stage (`results.ts:241`). `ReturnedIsComplete`
leaves the plan out for that reason.

Bounds (`governed_result`): a wait of two ticks polled every tick on a clock of five values, so that
answers arrive before, at and after the deadline; two bundles, which is the
least number that are several; four combinations of options, which between them
set each option both ways with a proof exported and not. 432,144 states.

Fairness: `WF(Poll)`, which waits for no one, `WF(Wake)`, a due timer, and
`WF(Tick)`. None for the node, and none for an answer: `rpc` and `rest` await a
`fetch` without a timeout (`typescript/src/index.ts:626`, `:686`), and the
deadline is looked at after an answer (`results.ts:197`). `maxWaitMs` therefore
bounds when the last poll is sent and not when the wait ends: a node that takes a
request and never answers holds it open for good. `Settles` says that nothing
else does: whatever the node does and says, `pc` comes to "done" or stays for
ever where a request is open.

## Release and ReleaseContract

`registry`, `author` and `lagging` are npm: a version is accepted once, and a
version accepted a moment ago may be missing from a read until `Propagate`. Each
run of the workflow has its pack manifest, plan, manifest file and verification
round. Each npm or HTTP call is an action; what may go wrong with it is another:
`ProbeFails`, `PayloadFails`, `PublishFails`, `PublishUnacknowledged` (accepted,
but npm reports an error), `PublishRejected` (the version exists by now),
`QueryFails`; `Crash` is a lost runner. `Start` is the trigger and also the
operator's re-run of a red run. `Builds[r][p]` is what building package `p` on
run `r`'s commit can yield; a set of two is a build that is not reproducible.

`ReleaseContract` is the promise: a version is released once, with a payload of
the releasing commit, and a run succeeds only when every package is live with a
payload of its own commit and with provenance. `KeepsContract` states that
`Release` implements it, with the green runs as the one derived variable.

An absent version is told from a failed probe by "404" in npm's message
(`release-npm.mjs:134`). The model takes this for exact: a failure whose message
holds these digits for another reason, which the code takes for an absent version,
is not modelled.

Other properties. `GreenIsLive`: the payloads of a green run are those of its
own pack manifest. `ManifestHonest`: what the manifest file says stays true,
crash or not. `ShippedPrefix`: what is shipped is a prefix of the plan.
`NothingShippedAroundAChange`: a changed package without a bump stops all.
`ResumeNeverConflicts`: a run with reproducible builds never takes its own
release for a change. `EventuallyReleased`: runs of one commit, started again
while red, all end green.

Runs: `release` (two commits, two packages, one fault, one retry, optionally a
package released by hand; 641,096 states) for safety; `release_live` (two runs
of one commit that race, two packages, one fault of any kind; 549,175 states)
for liveness; `release_stale` shows that a publish *can* fail on a published
version. Two packages are the least with an order and with a partial release;
one fault beside the race lets a package be accepted unacknowledged, or a run
die, while the other run goes on. The code requires eleven packages, which is a
number and not a case.

Fairness: `WF(Progress(r))` - the calls of the scripts are bounded by timeouts
and the operator restarts a red run - and `WF(Propagate(p))` - the registry
catches up. Faults are not fair, and their number is bounded.

## RootAccumulator and StateRoot

The check has two layers, and so has the model. `RootAccumulator` is the
arithmetic: `sealedRootOf` and `verifyConsistency` walk up a tree by shifting a
leaf number and the last leaf number together. The one variable is the node's
tree, which grows by a leaf; a hash is the term that was hashed, so equal hashes
have equal preimages and nothing else is assumed of SHA-256. The tree's hash,
its audit paths and its consistency proofs are the recursive definitions of RFC
9162, which the code names as its reference and which the node follows outside
this repository. `AuditPathsExact` and `ConsistencyPathsExact`: what is made by
the reference is accepted, and nothing else is, whatever number, size, leaf or
first tree a document claims and with an element of the path lost, repeated or
exchanged. The run says so of the trees up to its bound and of damaged paths; the
theorems say it of trees of every size and of every path.

Bounds (in the run `page`): up to six leaves over two leaf values. Six is the
least bound that has complete trees (1, 2, 4), a last node without a sibling on
one level (3, 6) and on two (5).

`StateRoot` is the judgement. Its environment is the node and L0, which are
external: the node appends a leaf when its root changes (`ChangeRoot`) and when
it reads the root for an outcome (`Consume`), may state a wrong height for a
leaf (`Misstated`), may be restored to an older copy and go on from there
(`Restore`), and anchors its sealed root (`Anchor`) with the window of blocks
that the anchor ends, or with none below `WindowsFrom`. `since` is history: at
what height each leaf really was recorded, which the check cannot see. The check
is the operator `CheckStateRootProof`, whose cases are in the order of the
code's returns, and `VerifyStateRootOfExport` with its option `require`. It
changes no state, so it is evaluated in every state, for every document there
and four kinds of reader (L0, roots only, no reader, a reader that throws).

A tree is the sequence of its leaves and stands for its own hash, and a path is
the tree that it was cut from: a path proves a leaf of that tree where the leaf
is. That nothing is lost by this is proved: see `StateRootProofs` below.
`Exported` is the document the node
makes. `Documents` are such documents with any earlier or later anchor as prior
and one further field, or one of the prior's, taken from elsewhere. The
properties are about the documents of that set; the lemmas of the proofs hold
for every document.

Properties. `ExportNeverRefused`: the node's own document, with a true height,
is refused by no reader of L0 however much later it is read, and accepted once
both its anchors carry a window. `AcceptedIsRecorded`: an accepted bundle has a
leaf for its own outcome and its own root in the tree that L0 lists.
`AcceptedOfOneHistory`: the prior tree is a beginning of the covering tree, and
the leaf is not in it, though the node may have anchored two histories.
`AcceptedIsDated`: the leaf was recorded between the first block of the prior
anchor's window and the last of the covering one's, whatever the node stated.

Bounds (`state_root`): three heights, the first without windows; three leaves, of
which the genesis leaf is one; two anchors, which are the prior and the cover;
two roots and two outcomes, interchangeable; one height that may be misstated.
One leaf before the prior anchor, one after and one that a restored node
records differently are the least for which the two histories differ.
22,662 states up to symmetry. No fairness: the check waits for nothing.

## PortableProof

One package. The node's bundle is exported at any stage of its life
(`ExportPortable`, with the client's refusal of a public-production package
without a replay capsule); while it travels, `Change` replaces a field by that
of another package or by a lost one, and `Reseal` computes a new export hash, as
anyone can. `VerifyProof` is `@infrix/proof-receipt`; `VerifyBundle`, `Confirmed`
and `NotConfirmed` are `@infrix/widgets` up to and after its request of an
endpoint. `Passed` is `verifyPortablePackage`: one operator for each check that
has something to compare, in the order of the code, and each looked at only when
those before it passed. A hash is the value that was hashed. What no check looks
at, or only for its presence, is left out.

Properties. `ExportsAccepted`: the verifier, which mirrors the node's own,
refuses nothing that the node exports, with approvals of no plan among others,
anchored or not. `AcceptedWasExported`: unless someone else sealed it, a package
that passes is one that the node exported, as a whole. `PackageSaysWhatItsBundleDoes`:
whoever sealed it, its plan, outcome, decisions and, for an anchored bundle, its
anchor are those of the bundle inside. `ReceiptClaimsWhatWasShown`: no receipt
says "verified" of a package that failed or L4 of one that no endpoint
confirmed, and `validateReceipt` agrees, with one exception.

What the check does not bind, as the model has it: an inclusion proof need not
be of the bundle's own chain; a trust snapshot may name any profile when the
bundle has none; the anchor fields of a bundle that is not anchored are free;
the exception is an endpoint that confirms and names no network, of which
`verifyBundle` makes an L4 receipt that `validateReceipt` objects to. The
receipt's warning "the bundle is not anchored" (`proofReceipt.js:50`) can not
appear, because the anchor check counts as passed for such a bundle
(`portableVerifier.js:212`).

`page_anchored` shows that `verifyLocalProof` reports L0 for an anchored bundle:
it reads a field that the node does not write (see "findings").

Bounds: two intents; of the first, bundles pending, anchored and verified, with
no approval, with one of no plan, and with one of a plan beside one of none; the
other lends its fields. Two changed fields and one sealing: one field wrong, and
one more to hide it.

## MetaMaskSubmit

`call[w]` is where the call for wish `w` is between two awaits, with its locals;
`apiPromise` is the import of the core client that calls share; `selected` is
the wallet's account, which the user may change at any time (`SwitchAccount`);
`intents` are those the node admitted, as history. Each prompt and request is an
action, with another for its failure. The node admits an intent when the
signature is of the key in the request and that key is on the key page; its
answer may then be lost (`SubmitFails`). A call that failed with an error that
the catalog calls retryable may be made again with the same options.

Properties. `SignedByItsAccount`: every admitted intent carries the key of the
account its call worked for, and was signed with it. `ResultNamesItsIntent`: a
result is of an intent that this very call submitted, and so is its proof.
`PromptFailureAdmitsNothing`: a call whose error was thrown by the import, the
wallet or the challenge had nothing admitted, so that repeating it is harmless.
It speaks of the error's `cause`, which the translation keeps, because the `code`
does not tell: `translateError` searches the text of any error, and that of a lost
answer is a gateway's. In the model, as in the code, a call may be reported as
`UserRejected`, "The signature was rejected in MetaMask", whose intent the node
has admitted; and a missing provider, of which the comment at
`packages/metamask/index.js:82` says that it is recognized, is not found by the
core client's own words for it (`errors.ts:32`) and becomes `RecoveryFailed`.

As the code has it, too: any error of the wallet but a result is taken for a
rejection; the core client's own error for another account is not recognised by
its text either and becomes `RecoveryFailed`, which is retryable; an error that
quotes a request (`RequestErrors`: the node refuses, or an answer, the wait or the
export is lost) may be given any code, so that a retry that the catalog offers may
submit a second intent, which no property denies; an import that failed stays failed; and a challenge of the caller's is
looked at before the prompt and not after it.

Bounds: two accounts, one of them on the key page; one wish with two tries and
the selected account, one with its own account; all challenges; with and without
a wait and a proof.

## ProverLoader

`instancePromise` is the code's variable, `stage` how far `instantiate` is, `load`
the callers with their options; `module` and `ready` are the WebAssembly module,
which runs when the loader gives way and may become ready at any time, end
before, or never do either. Assets may be unreadable, another module than was
built (`Tampered`), or without a hash in the manifest (`Unhashed`).

Properties. `HandleIsVerified`: whoever has a handle has the one module that was
run, ready and with the manifest's hash where there is one. `CallersAgree`: no
caller hears of a failure while another has a handle. `EveryLoadSettles`: every
call comes back, unless the assets never arrive.

Bounds: three callers with two calls each, so that a call comes before, during
and after the start; two looks at the flag, for the code's 1000; a good source,
a forged one, and a forged one whose manifest has no hash.

Fairness: `WF(WithAssets)` and `WF(Settle(l))`: digests and instantiation settle,
and the event loop runs what is due. None for the module, and none for the assets,
which a page fetches without a timeout (`index.js:136-148`).

## The run page

The four libraries of a page share no state. `MCPage` picks one (`uses`) and
takes its steps, so that their states are added and not multiplied: 131,947 in
all, of which each library has its own instance as described above. The proofs
are about each library's own specification.

## U256 and ContractStorage

`U256` is `types.ts` with a limb of `W = H * H` values, where the code has
`H = 2^32`: every operation of a limb wraps at `W`, every shift and mask of half
a limb is a division by `H` and its remainder.

`ContractStorage` is a contract that keeps numbers in storage maps. `stack` are
the host's open calls, each with what the host goes back to if it traps. Guarded
methods enter, read, call another contract, write what they read with an amount
added or taken away, and exit; the called contract may call back, to any depth.
Other methods update at once, multiply or remove. `Fail` undoes one call and
`Revert` the transaction, at any step. `applied` is history: what the updates
that stand add up to, in integers.

Properties. `GuardExclusive`: at most one open call is between enter and exit,
and the lock is taken exactly while one is. `StoredIsApplied`: each cell holds
the exact sum of its updates, which joins the arithmetic, the keys, the guard
and the undoing. Maps are assumed to have prefixes of which none begins another
(`PrefixesApart`): `buildKey` puts nothing between prefix and key, and without
the assumption cells collide.

`contract_mul` shows that `mulU64` loses a carry when the factor is a whole limb
(see "findings"); `Factors` are therefore below `H`, where it is exact.

Bounds (`contract`): `H = 4`, so that limbs have four bits and numbers sixteen;
amounts that fill one limb, two and all; one guarded and one other map with two
keys, one of which is the end of the other; six open calls, which is three
guarded ones in each other with the callers between them; three updates.
102,266 states. No fairness: a called contract may not return.

## What is proved

For every value of the constants that satisfies the named assumptions, with no
bound on the clock, the runs, the packages or the tasks beyond finiteness. Every
safety property of the passing runs is a theorem.

`WalletSessionProofs`. `TypeCorrect` is inductive together with `LocalsOK` (a
suspended call holds the locals that its position implies). `KeyInv` (a revoked
key in the store was imported; a key about to be adopted is in the store or was
revoked) gives `ActiveKeyKept` and `RevocationStopsSigning`. `SignerInv` (once
there is an active key it does not change, so each call holds the present one)
gives `SignerNamed`. `SessionInv` (the scope of a session is the one asked for,
a key registers once, a call under a session has a request behind it) gives
`UsesAreAccounted` and `AuthorityIsGranted`. `OvershootIsBounded` needs it too,
and the cardinality of the calls in flight: validation adds one only while the
counter is positive, and completion moves one from "in flight" to "done".

`GovernedResultProofs`. The invariants that tie the position of the wait to
what the result holds; each safety property is a theorem. `WaitRunsDown` is the
part of `Settles` that needs neither fairness nor answers: a rank, at most `3 * MaxWait + 5`,
that every step of the wait lowers and that neither the node nor the clock
raises. It counts the time up to the deadline, since each poll that finds the
intent running is followed by a sleep of at least one unit of it.

`ReleaseProofs`. `TypeCorrect`; that the registry never loses or changes a
version (the lemmas on `Stable` rows and `Kept` versions); an invariant on what
each row of a plan says of the registry, which gives `ManifestIsHonest`,
`ResumeIsSafe`, `ShippedIsAPrefix` and `NothingIsShippedAroundAChange`; one on
the findings of a verification round, which gives `GreenRunIsLive`.
`ReleaseKeepsContract` is the refinement: initial states map to initial states,
an accepted publish to `Release`, a green verdict to `Succeed` - by the findings
invariant - and everything else to a stutter.

`RootAccumulatorProofs`. The two algorithms for a tree of every size, a path of
every length and every content. The tree's hash is by recursion from the top and
the algorithms go up from the bottom, so the proofs go through levels: `Lift`
pairs off the nodes of a level, and hash, audit path and consistency proof of a
level are those of the level above with what the pairing takes
(`LiftedHash`, `LiftedPath`, `LiftedProof`). The invariant of a walk is then that it stands
on node `fn` of a level whose last node is `sn` and holds that node's hash; the
rest of the path is the audit path of that node on that level.
`AuditPathProves` and `ConsistencyPathProves`: what the node makes is accepted.
`AuditPathBinds` and `ConsistencyPathBinds`: whatever is accepted against a
tree's seal, or against its hash, is of the tree's own size, leaf and prefix,
because the hash that a walk holds determines, level by level, what it was made
of. `TreeHashesApart`: trees of one hash are one tree. `AuditPathsAreExact` and
`ConsistencyPathsAreExact` are the two properties that the run checks, as
theorems for every `MaxSize` and every set of leaves. The inductions are over
the natural numbers and take a set where the library's theorem takes a
predicate (`StrongInduction`, from `WFMin` and `NatLessThanWellFounded`); each
recursive function is unfolded once by a lemma (`HashRows`, `PathRows`,
`ProofRows`, `SkipRows`). What is taken for granted is in the terms: the
hashes of different terms differ, and sizes and heights are below 2^64, which is
what `be64` writes of them (the walks themselves compute in `BigInt`, without a
bound).

`StateRootProofs`. The inductive invariant is the type invariant with `Sized`
(`since` has one height for each leaf, and an entry's seal states the size of
its tree, which is not empty) and `InTime` (windows are in order and do not
overlap; a leaf was recorded by the end of the window it is anchored in; a leaf
with a number beyond an anchored tree was recorded at or after the end of that
anchor's window, because the history did not reach so far when it was made).
The lemmas say what an acceptance means, for any document and
any reader: `AcceptedHasOneHistory` follows from the consistency proof alone,
`AcceptedWasRecorded` from the audit path, and `AcceptedWasDated` joins both to
`InTime`. `ExportIsNeverRefused` goes through the cases of the check in order.
`PassedHashesAreTrue` says the same of the check as it is carried out: its
documents hold hashes and sequences of hashes, of any set whatever, and its
`SealedRootOf` and `VerifyConsistency` are those of `RootAccumulator`
(`CheckHashes`). If such a document passes, the leaf is recorded, both anchors
are of one history and the leaf is dated between them. `ExportsCheckAlike` is the
other direction: of the documents that the node makes the check on hashes and
the check on trees say the same, so that `ExportIsNeverRefused` holds of both.
`AuditAbstracted` and `ConsistencyAbstracted` give the two abstract operators
their meaning one at a time: some path of hashes is accepted exactly if some
tree is. They assume `AbsenceAssumption`: an absent value and a refusal are no document,
tree or number. They are about one node, whose history may go back to an older
copy; two nodes that anchor in the same account are not covered.

`BrowserProofs`. For the loader: the promise is pending exactly while
`instantiate` is under way, calls follow it, a module ran exactly once when the
flag is looked at, and past the hash check the source is the expected one. For
the submission: the locals of a call at each step (the key is the account's from
the recovery on, an intent admitted for a try is of the call that is or was at
that try), and that a call which failed at a prompt, whatever code it was given,
has had nothing admitted. For the portable package: the invariant is that a
package not changed is one the node exported, that a package not sealed again carries an export hash that the
node computed of some export, and that a receipt is what the verdict and the
endpoint made of its package. `UnsealedChangesFail` follows because the export
hash is of every field; `BundleBindsPackage` needs no invariant, only the checks.
`StartRunsDown` is the part of `EveryLoadSettles` that needs no fairness: a call
that waits has a start to wait for, and each of the at most `MaxLooks + 5` steps
of a start brings it nearer its end, whatever the module does.

`U256Proofs`. For any half limb `H`: `lt` is the order of the numbers, what
`safeAdd` and `safeSub` admit is exact, carry by carry and borrow by borrow, and
`mulU64` by a factor below `H` is the product modulo the size of a number.
`ContractStorageProofs` rests on them. `KeysApart` turns the assumption on
prefixes into distinct storage keys. The invariant describes the whole stack:
the lock is taken exactly if one frame holds it, and so on in the state that
each frame would go back to; a frame inside the guard has read the present value
of its cell; each saved storage has its own exact sums.

Only model-checked: `Settles`, `EventuallyReleased` and `EveryLoadSettles`,
which are liveness properties under fairness and need `ENABLED`. For two of them
the variant is proved (`WaitRunsDown`, `StartRunsDown`); the third has none so
simple, since a red run goes back to the operator.

## What is not modelled

`PROJECT.json` lists each part with the reason. Within the modelled parts: the
wallet's recovery, sponsors, balances and reads; `submitGovernedIntent` without
a wait; the modes of `release-npm.mjs` that publish nothing; the governance
level and required tiers of `verifyLocalProof`; the byte-exact canonical JSON;
receipts from a node's assurance report and proof stories; text, shifts, `Address`
and `Hash` of the contract SDK; wording, formatting and logging.

Most of the repository's lines are type declarations, clients of one request
each, templates and views. They keep no state and take no step that another
could come between: a model of them would restate each assignment, and is left
out for that reason.
