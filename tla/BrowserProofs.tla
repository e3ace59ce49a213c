--------------------------- MODULE BrowserProofs ---------------------------
(***************************************************************************)
(* The properties of the browser libraries of MetaMaskSubmit, ProverLoader *)
(* and PortableProof: for any number of calls, wishes, tries and looks,    *)
(* every set of bundles that a node may hold and any number of fields      *)
(* changed on the way.                                                     *)
(***************************************************************************)
EXTENDS MetaMaskSubmit, ProverLoader, PortableProof, TLAPS

-----------------------------------------------------------------------------
(***************************************************************************)
(* ProverLoader.  The one promise says how far the one start is.           *)
(***************************************************************************)

\* The promise is pending exactly as long as instantiate is at one of its steps.
PromiseIsStage ==
  /\ instancePromise = "none" <=> stage = "none"
  /\ instancePromise = "pending" <=> stage \in {"assets", "hash", "shim", "start", "look"}

\* A call has what the promise has become.
CallsFollowPromise ==
  \A l \in Loads :
    /\ load[l].pc = "handle" => instancePromise = "fulfilled"
    /\ load[l].pc = "failed" => instancePromise = "rejected"

\* The module runs only once instantiate has come as far.
ModuleFollowsStage ==
  /\ stage \in {"none", "assets", "hash", "shim", "start"} => starts = 0 /\ ~ready
  /\ stage = "look" => starts = 1
  /\ instancePromise = "fulfilled" => starts = 1 /\ ready

\* Past its check the module is the one expected.
CheckedPastHash ==
  stage \in {"shim", "start", "look"} \/ instancePromise = "fulfilled" => HashIsExpected

LoaderIInv ==
  LoaderTypeOK /\ PromiseIsStage /\ CallsFollowPromise /\ ModuleFollowsStage /\ CheckedPastHash

ModuleHasRun == module # "none" => stage \in {"look", "over"}

(* The invariant holds of every state of the loader                        *)
(* (packages/prover/src/index.js:20-56).                                  *)
THEOREM LoaderInvariant == LoaderSpec => [](LoaderIInv /\ ModuleHasRun)
<1> DEFINE IInv == LoaderIInv /\ ModuleHasRun
<1>1. LoaderInit => IInv
  <2> SUFFICES ASSUME LoaderInit PROVE IInv
    OBVIOUS
  <2>1. looks \in 0 .. MaxLooks /\ starts \in Nat
    BY LooksAssumption DEF LoaderInit
  <2>2. load \in [Loads -> LoadType]
    BY LooksAssumption DEF LoaderInit, LoadType
  <2>3. QED
    BY <2>1, <2>2 DEF LoaderInit, LoaderIInv, LoaderTypeOK, PromiseIsStage, CallsFollowPromise,
                      ModuleFollowsStage, CheckedPastHash, ModuleHasRun
<1>2. IInv /\ [LoaderNext]_loaderVars => IInv'
  <2> SUFFICES ASSUME IInv, [LoaderNext]_loaderVars PROVE IInv'
    OBVIOUS
  <2> USE DEF LoaderIInv
  <2>1. ASSUME NEW l \in Loads, NEW opts \in Sources, LoadProver(l, opts) PROVE IInv'
    <3>1. load'[l] = [pc |-> "waiting", calls |-> load[l].calls + 1, opts |-> opts]
          /\ \A m \in Loads : m # l => load'[m] = load[m]
      BY <2>1 DEF LoadProver, LoaderTypeOK
    <3>2. load[l].calls + 1 \in 0 .. MaxLoads
      <4>1. load[l].calls \in 0 .. MaxLoads /\ load[l].calls < MaxLoads
        BY <2>1 DEF LoadProver, LoaderTypeOK, LoadType
      <4>2. QED
        BY <4>1, LooksAssumption
    <3>3. load' \in [Loads -> LoadType]
      <4>1. load'[l] \in LoadType
        BY <3>1, <3>2 DEF LoadType
      <4>2. QED
        BY <2>1, <4>1 DEF LoadProver, LoaderTypeOK
    <3>4. CallsFollowPromise'
      <4>1. CASE NotBegun
        BY <2>1, <3>1, <4>1 DEF LoadProver, NotBegun, CallsFollowPromise
      <4>2. CASE ~NotBegun
        BY <2>1, <3>1, <4>2 DEF LoadProver, CallsFollowPromise
      <4>3. QED
        BY <4>1, <4>2
    <3>5. CASE NotBegun
      <4>1. instancePromise = "none" /\ stage = "none" /\ instancePromise' = "pending"
            /\ stage' = "assets" /\ source' = opts
            /\ UNCHANGED <<looks, module, ready, starts>>
        BY <2>1, <3>5 DEF LoadProver, NotBegun, PromiseIsStage
      <4>2. LoaderTypeOK'
        BY <3>3, <4>1 DEF LoaderTypeOK
      <4>3. PromiseIsStage' /\ CheckedPastHash' /\ ModuleHasRun'
        BY <4>1 DEF PromiseIsStage, CheckedPastHash, ModuleHasRun
      <4>4. ModuleFollowsStage'
        BY <4>1 DEF ModuleFollowsStage
      <4>5. QED
        BY <3>4, <4>2, <4>3, <4>4
    <3>6. CASE ~NotBegun
      <4>1. UNCHANGED <<instancePromise, source, stage, looks, module, ready, starts>>
        BY <2>1, <3>6 DEF LoadProver
      <4>2. LoaderTypeOK'
        BY <3>3, <4>1 DEF LoaderTypeOK
      <4>3. PromiseIsStage' /\ CheckedPastHash' /\ ModuleHasRun' /\ ModuleFollowsStage'
        BY <4>1 DEF PromiseIsStage, CheckedPastHash, ModuleHasRun, ModuleFollowsStage, HashIsExpected
      <4>4. QED
        BY <3>4, <4>2, <4>3
    <3>7. QED
      BY <3>5, <3>6
  <2>2. ASSUME NEW l \in Loads, Settle(l) PROVE IInv'
    <3>1. UNCHANGED <<instancePromise, source, stage, looks, module, ready, starts>>
      BY <2>2 DEF Settle
    <3>2. PICK pc \in {"handle", "failed"} :
            /\ load' = [load EXCEPT ![l].pc = pc]
            /\ instancePromise = IF pc = "handle" THEN "fulfilled" ELSE "rejected"
      BY <2>2 DEF Settle
    <3>3. load'[l] = [load[l] EXCEPT !.pc = pc] /\ \A m \in Loads : m # l => load'[m] = load[m]
      BY <3>2 DEF LoaderTypeOK
    <3>4. load' \in [Loads -> LoadType]
      <4>1. load'[l] \in LoadType
        BY <3>3 DEF LoaderTypeOK, LoadType
      <4>2. QED
        BY <3>2, <4>1 DEF LoaderTypeOK
    <3>5. load'[l].pc = pc
      BY <3>3 DEF LoaderTypeOK, LoadType
    <3>6. CallsFollowPromise'
      BY <3>1, <3>2, <3>3, <3>5 DEF CallsFollowPromise
    <3>7. LoaderTypeOK'
      BY <3>1, <3>4 DEF LoaderTypeOK
    <3>8. PromiseIsStage' /\ CheckedPastHash' /\ ModuleHasRun' /\ ModuleFollowsStage'
      BY <3>1 DEF PromiseIsStage, CheckedPastHash, ModuleHasRun, ModuleFollowsStage, HashIsExpected
    <3>9. QED
      BY <3>6, <3>7, <3>8
  <2>3. CASE Instantiate
    <3>1. UNCHANGED <<source, load>> /\ stage \in {"assets", "hash", "shim", "start", "look"}
      BY <2>3 DEF Instantiate, WithAssets, ReadAssets, AssertSha256, RunWasmExec, StartModule, Look, StopLooking,
                  Untouched
    <3>2. instancePromise = "pending"
      BY <3>1 DEF PromiseIsStage
    <3>3. CallsFollowPromise'
      BY <3>1, <3>2 DEF CallsFollowPromise
    <3>4. CASE ReadAssets \/ AssertSha256 \/ RunWasmExec
      <4>1. UNCHANGED <<looks, module, ready, starts>>
        BY <3>4 DEF ReadAssets, AssertSha256, RunWasmExec
      <4>2. \/ stage = "assets" /\ stage' = "hash" /\ UNCHANGED instancePromise
            \/ stage = "hash" /\ stage' = "shim" /\ UNCHANGED instancePromise /\ HashIsExpected
            \/ stage = "shim" /\ stage' = "start" /\ UNCHANGED instancePromise
            \/ stage' = "over" /\ instancePromise' = "rejected"
        BY <3>4 DEF ReadAssets, AssertSha256, RunWasmExec, Goes, Throws
      <4>3. LoaderTypeOK'
        BY <3>1, <4>1, <4>2 DEF LoaderTypeOK
      <4>4. PromiseIsStage' /\ ModuleHasRun'
        BY <3>1, <3>2, <4>1, <4>2 DEF PromiseIsStage, ModuleHasRun
      <4>5. CheckedPastHash'
        BY <3>1, <3>2, <4>1, <4>2 DEF CheckedPastHash, HashIsExpected
      <4>6. ModuleFollowsStage'
        BY <3>2, <4>1, <4>2 DEF ModuleFollowsStage
      <4>7. QED
        BY <3>3, <4>3, <4>4, <4>5, <4>6
    <3>5. CASE StartModule
      <4>1. /\ stage = "start" /\ UNCHANGED <<looks, ready>>
            /\ \/ /\ stage' = "look" /\ UNCHANGED instancePromise
                  /\ module' = "running" /\ starts' = starts + 1
               \/ /\ stage' = "over" /\ instancePromise' = "rejected"
                  /\ UNCHANGED <<module, starts>>
        BY <3>5 DEF StartModule, Goes, Throws
      <4>2. starts = 0
        BY <4>1 DEF ModuleFollowsStage
      <4>3. LoaderTypeOK'
        BY <3>1, <4>1, <4>2 DEF LoaderTypeOK
      <4>4. PromiseIsStage' /\ ModuleHasRun'
        BY <3>2, <4>1 DEF PromiseIsStage, ModuleHasRun
      <4>5. CheckedPastHash'
        BY <3>1, <3>2, <4>1 DEF CheckedPastHash, HashIsExpected
      <4>6. ModuleFollowsStage'
        BY <3>2, <4>1, <4>2 DEF ModuleFollowsStage
      <4>7. QED
        BY <3>3, <4>3, <4>4, <4>5, <4>6
    <3>6. CASE Look
      <4>1. /\ UNCHANGED <<instancePromise, stage, module, ready, starts>>
            /\ looks < MaxLooks /\ looks' = looks + 1
        BY <3>6 DEF Look, Counted
      <4>2. looks' \in 0 .. MaxLooks
        BY <4>1, LooksAssumption DEF LoaderTypeOK
      <4>3. LoaderTypeOK'
        BY <3>1, <4>1, <4>2 DEF LoaderTypeOK
      <4>4. PromiseIsStage' /\ ModuleHasRun' /\ CheckedPastHash' /\ ModuleFollowsStage'
        BY <3>1, <4>1 DEF PromiseIsStage, ModuleHasRun, CheckedPastHash, ModuleFollowsStage,
                          HashIsExpected
      <4>5. QED
        BY <3>3, <4>3, <4>4
    <3>7. CASE StopLooking
      <4>1. /\ stage = "look" /\ stage' = "over" /\ UNCHANGED <<looks, module, ready, starts>>
            /\ instancePromise' \in {"fulfilled", "rejected"}
            /\ instancePromise' = "fulfilled" => ready
        BY <3>7 DEF StopLooking, Throws
      <4>2. LoaderTypeOK'
        BY <3>1, <4>1 DEF LoaderTypeOK
      <4>3. PromiseIsStage' /\ ModuleHasRun'
        BY <3>2, <4>1 DEF PromiseIsStage, ModuleHasRun
      <4>4. CheckedPastHash'
        BY <3>1, <4>1 DEF CheckedPastHash, HashIsExpected
      <4>5. ModuleFollowsStage'
        BY <4>1 DEF ModuleFollowsStage
      <4>6. QED
        BY <3>3, <4>2, <4>3, <4>4, <4>5
    <3>8. QED
      BY <2>3, <3>4, <3>5, <3>6, <3>7 DEF Instantiate, WithAssets
  <2>4. CASE ModuleReady \/ ModuleGone
    <3>1. /\ module = "running" /\ ~ready /\ UNCHANGED <<instancePromise, source, stage, looks, load, starts>>
          /\ module' \in {"running", "gone"} /\ ready' \in BOOLEAN
      BY <2>4 DEF ModuleReady, ModuleGone, Untouched, LoaderTypeOK
    <3>2. stage \in {"look", "over"}
      BY <3>1 DEF ModuleHasRun
    <3>3. LoaderTypeOK'
      BY <3>1 DEF LoaderTypeOK
    <3>4. PromiseIsStage' /\ ModuleHasRun' /\ CheckedPastHash' /\ CallsFollowPromise'
      BY <3>1, <3>2 DEF PromiseIsStage, ModuleHasRun, CheckedPastHash, HashIsExpected, CallsFollowPromise
    <3>5. instancePromise # "fulfilled"
      BY <3>1 DEF ModuleFollowsStage
    <3>6. ModuleFollowsStage'
      BY <3>1, <3>2, <3>5 DEF ModuleFollowsStage
    <3>7. QED
      BY <3>3, <3>4, <3>6
  <2>5. CASE UNCHANGED loaderVars
    <3>1. LoaderTypeOK' /\ PromiseIsStage' /\ CallsFollowPromise'
      BY <2>5 DEF loaderVars, LoaderTypeOK, PromiseIsStage, CallsFollowPromise
    <3>2. ModuleFollowsStage' /\ CheckedPastHash' /\ ModuleHasRun'
      BY <2>5 DEF loaderVars, ModuleFollowsStage, CheckedPastHash, ModuleHasRun, HashIsExpected
    <3>3. QED
      BY <3>1, <3>2
  <2>6. QED
    BY <2>1, <2>2, <2>3, <2>4, <2>5 DEF LoaderNext
<1>3. QED
  BY <1>1, <1>2, PTL DEF LoaderSpec

(* Who has a handle has the one module that was run, checked and ready     *)
(* (packages/prover/src/index.js:20-56, :161-174).                        *)
THEOREM HandlesAreVerified == LoaderSpec => []HandleIsVerified
<1>1. LoaderIInv => HandleIsVerified
  <2> SUFFICES ASSUME LoaderIInv, NEW l \in Loads, load[l].pc = "handle"
               PROVE  ready /\ starts = 1 /\ (source \in Tampered => source \in Unhashed)
    BY DEF HandleIsVerified
  <2>1. instancePromise = "fulfilled"
    BY DEF LoaderIInv, CallsFollowPromise
  <2>2. ready /\ starts = 1
    BY <2>1 DEF LoaderIInv, ModuleFollowsStage
  <2>3. HashIsExpected
    BY <2>1 DEF LoaderIInv, CheckedPastHash
  <2>4. QED
    BY <2>2, <2>3 DEF HashIsExpected
<1>2. QED
  BY <1>1, LoaderInvariant, PTL

(* One promise for all callers: they all get a handle or all fail          *)
(* (packages/prover/src/index.js:29-33).                                   *)
THEOREM AllCallersAgree == LoaderSpec => []CallersAgree
<1>1. LoaderIInv => CallersAgree
  <2> SUFFICES ASSUME LoaderIInv, NEW l \in Loads, NEW m \in Loads,
                      load[l].pc = "handle", load[m].pc = "failed"
               PROVE  FALSE
    BY DEF CallersAgree
  <2>1. instancePromise = "fulfilled" /\ instancePromise = "rejected"
    BY DEF LoaderIInv, CallsFollowPromise
  <2>2. QED
    BY <2>1
<1>2. QED
  BY <1>1, LoaderInvariant, PTL

\* How many steps the start still has: the four before the looks, then a look
\* each and the one that stops looking.
StartLeft ==
  CASE stage = "none" -> MaxLooks + 6
    [] stage = "assets" -> MaxLooks + 5
    [] stage = "hash" -> MaxLooks + 4
    [] stage = "shim" -> MaxLooks + 3
    [] stage = "start" -> MaxLooks + 2
    [] stage = "look" -> MaxLooks - looks + 1
    [] OTHER -> 0

StartAdvances == StartLeft' <= StartLeft /\ (Instantiate => StartLeft' < StartLeft)

WaitingWasBegun == \A l \in Loads : load[l].pc = "waiting" => stage # "none"

LEMMA StartLeftType == LoaderTypeOK => StartLeft \in Nat
<1> SUFFICES ASSUME LoaderTypeOK PROVE StartLeft \in Nat
  OBVIOUS
<1>1. MaxLooks \in Nat /\ looks \in 0 .. MaxLooks
  BY LooksAssumption DEF LoaderTypeOK
<1>2. MaxLooks + 6 \in Nat /\ MaxLooks + 5 \in Nat /\ MaxLooks + 4 \in Nat
      /\ MaxLooks + 3 \in Nat /\ MaxLooks + 2 \in Nat /\ MaxLooks - looks + 1 \in Nat
  BY <1>1
<1>3. QED
  BY <1>2 DEF StartLeft

(* A call that waits does so for a start that was begun, and a start takes *)
(* at most MaxLooks + 5 steps, whatever the module does and however often  *)
(* the loader is called: what is left for a call to settle is that the     *)
(* event loop takes those steps (packages/prover/src/index.js:29-56).      *)
THEOREM StartRunsDown ==
  LoaderSpec => [](WaitingWasBegun /\ StartLeft \in Nat) /\ [][StartAdvances]_loaderVars
<1>1. ASSUME LoaderIInv, LoaderNext PROVE StartAdvances
  <2> USE <1>1
  <2>1. StartLeft \in Nat /\ MaxLooks \in Nat /\ looks \in 0 .. MaxLooks
    BY StartLeftType, LooksAssumption DEF LoaderIInv, LoaderTypeOK
  <2>2. CASE Instantiate
    <3>1. CASE ReadAssets \/ AssertSha256 \/ RunWasmExec
      <4>1. /\ looks' = looks
            /\ \/ stage = "assets" /\ stage' \in {"hash", "over"}
               \/ stage = "hash" /\ stage' \in {"shim", "over"}
               \/ stage = "shim" /\ stage' \in {"start", "over"}
        BY <3>1 DEF ReadAssets, AssertSha256, RunWasmExec, Goes, Throws
      <4>2. QED
        BY <2>1, <4>1 DEF StartAdvances, StartLeft
    <3>2. CASE StartModule \/ StopLooking
      <4>1. /\ looks' = looks
            /\ \/ stage = "start" /\ stage' \in {"look", "over"}
               \/ stage = "look" /\ stage' = "over"
        BY <3>2 DEF StartModule, StopLooking, Goes, Throws
      <4>2. QED
        BY <2>1, <4>1 DEF StartAdvances, StartLeft
    <3>3. CASE Look
      <4>1. stage = "look" /\ stage' = "look" /\ looks' = looks + 1 /\ looks < MaxLooks
        BY <2>1, <3>3 DEF Look, Counted
      <4>2. QED
        BY <2>1, <4>1 DEF StartAdvances, StartLeft
    <3>4. QED
      BY <2>2, <3>1, <3>2, <3>3 DEF Instantiate, WithAssets
  <2>3. CASE ~Instantiate
    <3>1. looks' = looks /\ (stage' = stage \/ (stage = "none" /\ stage' = "assets"))
      <4>1. ASSUME NEW l \in Loads, NEW o \in Sources, LoadProver(l, o)
            PROVE  looks' = looks /\ (stage' = stage \/ (stage = "none" /\ stage' = "assets"))
        BY <4>1 DEF LoadProver, NotBegun, LoaderIInv, PromiseIsStage
      <4>2. QED
        BY <2>3, <4>1 DEF LoaderNext, Settle, ModuleReady, ModuleGone
    <3>2. QED
      BY <2>1, <2>3, <3>1 DEF StartAdvances, StartLeft
  <2>4. QED
    BY <2>2, <2>3
<1>2. LoaderInit => WaitingWasBegun
  BY DEF LoaderInit, WaitingWasBegun
<1>3. ASSUME LoaderIInv, WaitingWasBegun, [LoaderNext]_loaderVars PROVE WaitingWasBegun'
  <2> USE <1>3
  <2>1. stage # "none" => stage' # "none"
    BY DEF LoaderNext, loaderVars, LoadProver, Settle, Instantiate, WithAssets, ReadAssets, AssertSha256,
           RunWasmExec, StartModule, Look, StopLooking, ModuleReady, ModuleGone, Goes, Throws
  <2>2. CASE UNCHANGED load
    BY <2>1, <2>2 DEF WaitingWasBegun
  <2>3. ASSUME NEW l \in Loads, NEW o \in Sources, LoadProver(l, o) PROVE WaitingWasBegun'
    <3>1. stage' # "none"
      BY <2>1, <2>3 DEF LoadProver, NotBegun, LoaderIInv, PromiseIsStage
    <3>2. QED
      BY <3>1 DEF WaitingWasBegun
  <2>4. ASSUME NEW l \in Loads, Settle(l) PROVE WaitingWasBegun'
    <3>1. stage' # "none"
      BY <2>1, <2>4 DEF Settle, WaitingWasBegun
    <3>2. QED
      BY <3>1 DEF WaitingWasBegun
  <2>5. QED
    BY <2>2, <2>3, <2>4 DEF LoaderNext, loaderVars, Instantiate, WithAssets, ReadAssets, AssertSha256,
       RunWasmExec, StartModule, Look, StopLooking, ModuleReady, ModuleGone, Untouched
<1>4. LoaderIInv /\ [LoaderNext]_loaderVars => [StartAdvances]_loaderVars
  BY <1>1
<1>5. LoaderIInv => StartLeft \in Nat
  BY StartLeftType DEF LoaderIInv
<1>6. QED
  BY <1>2, <1>3, <1>4, <1>5, LoaderInvariant, PTL DEF LoaderSpec

-----------------------------------------------------------------------------
(***************************************************************************)
(* MetaMaskSubmit.  What holds of each call, and of each admitted intent.  *)
(***************************************************************************)

BeforeSubmission == {"idle", "api", "connect", "challenge", "prepare", "sign", "submit"}

IsOf(i, c, w) == i.wish = w /\ i.try = c.try

\* A challenge is for an account; a call past its challenge works with the key of
\* its address; one that has had an intent admitted is past its submission and has
\* not failed at a prompt; one past the node's answer has had one admitted, and
\* knows that one's id or none.
CallOk(c, w) ==
  /\ c.pc = "challenge" => c.address \in Accounts
  /\ c.pc \in {"prepare", "sign", "submit"} => c.key = c.address /\ c.key \in Accounts
  /\ c.pc = "submit" => c.signer \in Accounts
  /\ c.pc \in BeforeSubmission => ~c.admitted
  /\ c.admitted => ~(c.pc = "failed" /\ c.cause \in PromptErrors)
  /\ c.admitted => \E i \in intents : IsOf(i, c, w)
  /\ c.pc \in {"wait", "export", "done"} => c.admitted
  /\ c.intent # None => c.intent \in intents /\ IsOf(c.intent, c, w)
  /\ c.pc = "done" /\ c.options.proof => c.proof = c.intent

\* An intent is of its wish's newest call only if that call has had it admitted.
IntentOk(i) ==
  /\ i.key = i.account /\ i.signer = i.account /\ i.account \in Bound
  /\ i.try <= call[i.wish].try
  /\ i.try = call[i.wish].try => call[i.wish].admitted

SubmitIInv ==
  /\ SubmitTypeOK
  /\ \A w \in Wishes : CallOk(call[w], w)
  /\ \A i \in intents : IntentOk(i)

\* The variables that a step of one call's, no admission, may change.
OneCallMoves(w) ==
  /\ call' \in [Wishes -> CallType]
  /\ \A v \in Wishes : v # w => call'[v] = call[v]
  /\ call'[w].try = call[w].try /\ call'[w].admitted = call[w].admitted
  /\ UNCHANGED <<apiPromise, imports, selected, intents>>

(* Such a step keeps the invariant if what the call has become is in order. *)
LEMMA OneCall ==
  ASSUME SubmitIInv, NEW w \in Wishes, OneCallMoves(w), CallOk(call'[w], w)
  PROVE  SubmitIInv'
<1>1. SubmitTypeOK'
  BY DEF SubmitIInv, SubmitTypeOK, OneCallMoves
<1>2. ASSUME NEW v \in Wishes PROVE CallOk(call[v], v)'
  <2>1. CallOk(call'[v], v)
    BY DEF SubmitIInv, OneCallMoves
  <2>2. QED
    BY <2>1 DEF OneCallMoves, CallOk
<1>3. ASSUME NEW i \in intents' PROVE IntentOk(i)'
  <2>1. i \in intents /\ IntentOk(i) /\ i.wish \in Wishes
    BY DEF SubmitIInv, SubmitTypeOK, OneCallMoves, Intent
  <2>2. call'[i.wish].try = call[i.wish].try /\ call'[i.wish].admitted = call[i.wish].admitted
    BY <2>1 DEF OneCallMoves
  <2>3. QED
    BY <2>1, <2>2 DEF IntentOk
<1>4. QED
  BY <1>1, <1>2, <1>3 DEF SubmitIInv

(* What one call's record becomes when some of its fields change. *)
LEMMA Moved ==
  ASSUME SubmitTypeOK, NEW w \in Wishes, NEW c \in CallType, call' = [call EXCEPT ![w] = c],
         c.try = call[w].try, c.admitted = call[w].admitted,
         Unshared, UNCHANGED intents
  PROVE  OneCallMoves(w) /\ call'[w] = c
BY DEF SubmitTypeOK, OneCallMoves, Unshared

(* A call may throw what it likes, a prompt's errors before its submission. *)
LEMMA Throwing ==
  ASSUME SubmitIInv, NEW w \in Wishes, NEW e \in Errors, Throw(w, e), Unshared,
         UNCHANGED intents, e \in PromptErrors => call[w].pc \in BeforeSubmission
  PROVE  SubmitIInv'
<1>1. PICK code \in Translations(e) :
        call' = [call EXCEPT ![w].pc = "failed", ![w].code = code, ![w].cause = e]
  BY DEF Throw
<1>2. code \in Codes
  BY <1>1 DEF Translations, Codes
<1> DEFINE c == [call[w] EXCEPT !.pc = "failed", !.code = code, !.cause = e]
<1>3. call[w] \in CallType /\ CallOk(call[w], w)
  BY DEF SubmitIInv, SubmitTypeOK
<1>4. c \in CallType
  BY <1>2, <1>3 DEF CallType
<1>5. /\ c.pc = "failed" /\ c.cause = e /\ c.try = call[w].try /\ c.admitted = call[w].admitted
      /\ c.intent = call[w].intent
  BY <1>3 DEF CallType
<1>6. call' = [call EXCEPT ![w] = c]
  BY <1>1 DEF SubmitIInv, SubmitTypeOK
<1> HIDE DEF c
<1>7. OneCallMoves(w) /\ call'[w] = c
  BY <1>4, <1>5, <1>6, Moved DEF SubmitIInv
<1>8. CallOk(c, w)
  BY <1>3, <1>5 DEF CallOk, IsOf, BeforeSubmission
<1>9. QED
  BY <1>7, <1>8, OneCall

(* A call that goes on to a place before its submission.  *)
LEMMA GoesOn ==
  ASSUME SubmitIInv, NEW w \in Wishes, NEW c \in CallType, call' = [call EXCEPT ![w] = c],
         Unshared, UNCHANGED intents,
         call[w].pc \in BeforeSubmission, c.pc \in BeforeSubmission,
         c.try = call[w].try, c.admitted = call[w].admitted, c.intent = call[w].intent,
         c.pc = "challenge" => c.address \in Accounts,
         c.pc \in {"prepare", "sign", "submit"} => c.key = c.address /\ c.key \in Accounts,
         c.pc = "submit" => c.signer \in Accounts
  PROVE  SubmitIInv'
<1>1. OneCallMoves(w) /\ call'[w] = c
  BY Moved DEF SubmitIInv
<1>2. CallOk(call[w], w)
  BY DEF SubmitIInv
<1>3. CallOk(c, w)
  BY <1>2 DEF CallOk, IsOf, BeforeSubmission
<1>4. QED
  BY <1>1, <1>3, OneCall

(* Called again, a call begins a try that no intent is of yet. *)
LEMMA CalledAgain ==
  ASSUME SubmitIInv, NEW w \in Wishes, SubmitGovernedIntent(w)
  PROVE  SubmitIInv'
<1> DEFINE c == NewCall(call[w].try + 1, call[w].options)
<1>1. /\ call' = [call EXCEPT ![w] = c] /\ UNCHANGED <<selected, intents>>
      /\ apiPromise' \in {apiPromise, "pending"} /\ imports' \in {imports, imports + 1}
  BY DEF SubmitGovernedIntent
<1>2. call[w] \in CallType /\ SubmitTypeOK
  BY DEF SubmitIInv, SubmitTypeOK
<1>3. call[w].try \in Nat /\ call[w].options \in UNION {Options[v] : v \in Wishes}
  BY <1>2 DEF CallType
<1>4. call[w].try + 1 \in Nat /\ call[w].try + 1 # 0
  BY <1>3
<1>5. c \in CallType
  BY <1>3, <1>4 DEF NewCall, CallType, Codes
<1>6. /\ c.pc = "api" /\ c.try = call[w].try + 1 /\ ~c.admitted /\ c.intent = None
  BY <1>4 DEF NewCall
<1> HIDE DEF c
<1>7. call'[w] = c /\ \A v \in Wishes : v # w => call'[v] = call[v]
  BY <1>1, <1>2 DEF SubmitTypeOK
<1>8. SubmitTypeOK'
  <2>1. call' \in [Wishes -> CallType]
    BY <1>1, <1>2, <1>5 DEF SubmitTypeOK
  <2>2. imports' \in Nat
    BY <1>1, <1>2 DEF SubmitTypeOK
  <2>3. apiPromise' \in {"none", "pending", "fulfilled", "rejected"}
    BY <1>1, <1>2 DEF SubmitTypeOK
  <2>4. QED
    BY <1>1, <1>2, <2>1, <2>2, <2>3 DEF SubmitTypeOK
<1>9. ASSUME NEW v \in Wishes PROVE CallOk(call[v], v)'
  <2>1. CASE v = w
    BY <1>6, <1>7, <2>1 DEF CallOk, BeforeSubmission
  <2>2. CASE v # w
    <3>1. CallOk(call[v], v)
      BY DEF SubmitIInv
    <3>2. QED
      BY <1>1, <1>7, <2>2, <3>1 DEF CallOk
  <2>3. QED
    BY <2>1, <2>2
<1>10. ASSUME NEW i \in intents' PROVE IntentOk(i)'
  <2>1. i \in intents /\ IntentOk(i) /\ i.wish \in Wishes /\ i.try \in Nat
    BY <1>1, <1>2 DEF SubmitIInv, SubmitTypeOK, Intent
  <2>2. CASE i.wish = w
    <3>1. i.try < c.try
      BY <1>3, <1>6, <2>1, <2>2 DEF IntentOk
    <3>2. i.try <= c.try /\ i.try # c.try
      BY <1>3, <1>6, <2>1, <3>1
    <3>3. QED
      BY <1>7, <2>1, <2>2, <3>2 DEF IntentOk
  <2>3. CASE i.wish # w
    BY <1>7, <2>1, <2>3 DEF IntentOk
  <2>4. QED
    BY <2>2, <2>3
<1>11. QED
  BY <1>8, <1>9, <1>10 DEF SubmitIInv

(* The node admits an intent of a try that it has none of. *)
LEMMA Admitting ==
  ASSUME SubmitIInv, NEW w \in Wishes, NodeAdmits(w)
  PROVE  SubmitIInv'
<1> DEFINE c == [call[w] EXCEPT !.admitted = TRUE, !.pc = "answer"]
           n == [wish |-> w, try |-> call[w].try, account |-> call[w].address,
                 key |-> call[w].key, signer |-> call[w].signer]
<1>1. /\ call[w].pc = "submit" /\ call[w].signer = call[w].key /\ call[w].key \in Bound
      /\ intents' = intents \cup {n} /\ Unshared
  BY DEF NodeAdmits, At
<1>2. SubmitTypeOK /\ call[w] \in CallType /\ CallOk(call[w], w)
  BY DEF SubmitIInv, SubmitTypeOK
<1>3. call[w].key = call[w].address /\ call[w].key \in Accounts /\ ~call[w].admitted
  BY <1>1, <1>2 DEF CallOk, BeforeSubmission
<1>4. n \in Intent
  BY <1>1, <1>2, <1>3 DEF Intent, CallType
<1>5. c \in CallType
  BY <1>2 DEF CallType
<1>6. /\ c.pc = "answer" /\ c.admitted /\ c.try = call[w].try /\ c.intent = call[w].intent
  BY <1>2 DEF CallType
<1>7. call' = [call EXCEPT ![w] = c]
  BY <1>2 DEF NodeAdmits, SubmitTypeOK
<1>8. /\ n.wish = w /\ n.try = call[w].try /\ n.key = n.account /\ n.signer = n.account
      /\ n.account \in Bound
  BY <1>1, <1>3
<1> HIDE DEF c, n
<1>9. call'[w] = c /\ \A v \in Wishes : v # w => call'[v] = call[v]
  BY <1>2, <1>7 DEF SubmitTypeOK
<1>10. SubmitTypeOK'
  BY <1>1, <1>2, <1>4, <1>5, <1>7 DEF SubmitTypeOK, Unshared
<1>11. ASSUME NEW v \in Wishes PROVE CallOk(call[v], v)'
  <2>1. CallOk(call[v], v)
    BY DEF SubmitIInv
  <2>2. CASE v = w
    <3>1. IsOf(n, c, w)
      BY <1>6, <1>8 DEF IsOf
    <3>2. c.intent # None => c.intent \in intents /\ IsOf(c.intent, c, w)
      BY <1>2, <1>6 DEF CallOk, IsOf
    <3>3. QED
      BY <1>1, <1>6, <1>9, <2>2, <3>1, <3>2 DEF CallOk, BeforeSubmission
  <2>3. CASE v # w
    BY <1>1, <1>9, <2>1, <2>3 DEF CallOk
  <2>4. QED
    BY <2>2, <2>3
<1>12. ASSUME NEW i \in intents' PROVE IntentOk(i)'
  <2>1. CASE i = n
    <3>1. n.try \in Nat /\ n.try = c.try
      BY <1>2, <1>6, <1>8 DEF CallType
    <3>2. n.try <= c.try
      BY <3>1
    <3>3. QED
      BY <1>6, <1>8, <1>9, <2>1, <3>2 DEF IntentOk
  <2>2. CASE i \in intents
    <3>1. IntentOk(i) /\ i.wish \in Wishes
      BY <1>2, <2>2 DEF SubmitIInv, SubmitTypeOK, Intent
    <3>2. call'[i.wish].try = call[i.wish].try
          /\ (call[i.wish].admitted => call'[i.wish].admitted)
      BY <1>6, <1>9, <3>1
    <3>3. QED
      BY <3>1, <3>2 DEF IntentOk
  <2>3. QED
    BY <1>1, <2>1, <2>2
<1>13. QED
  BY <1>10, <1>11, <1>12 DEF SubmitIInv

(* The invariant holds of every state of the page's calls                  *)
(* (metamask/index.ts:104-363, packages/metamask/index.js:169-218).        *)
THEOREM SubmitInvariant == SubmitSpec => []SubmitIInv
<1>1. SubmitInit => SubmitIInv
  <2> SUFFICES ASSUME SubmitInit PROVE SubmitIInv
    OBVIOUS
  <2>1. PICK o \in [Wishes -> UNION {Options[w] : w \in Wishes}] :
          call = [w \in Wishes |-> NewCall(0, o[w])]
    BY DEF SubmitInit
  <2>2. ASSUME NEW w \in Wishes
        PROVE  call[w] \in CallType /\ call[w].pc = "idle" /\ ~call[w].admitted /\ call[w].intent = None
    BY <2>1 DEF NewCall, CallType, Codes
  <2>3. SubmitTypeOK
    <3>1. call \in [Wishes -> CallType]
      BY <2>1, <2>2
    <3>2. QED
      BY <3>1 DEF SubmitInit, SubmitTypeOK
  <2>4. \A w \in Wishes : CallOk(call[w], w)
    BY <2>2 DEF CallOk, BeforeSubmission
  <2>5. QED
    BY <2>3, <2>4 DEF SubmitInit, SubmitIInv
<1>2. SubmitIInv /\ [SubmitNext]_submitVars => SubmitIInv'
  <2> SUFFICES ASSUME SubmitIInv, [SubmitNext]_submitVars PROVE SubmitIInv'
    OBVIOUS
  <2>1. SubmitTypeOK
    BY DEF SubmitIInv
  <2>2. ASSUME NEW w \in Wishes, Step(w) PROVE SubmitIInv'
    <3> DEFINE now == call[w]
    <3>1. now \in CallType /\ CallOk(now, w)
      BY <2>1 DEF SubmitIInv, SubmitTypeOK
    <3>2. CASE SubmitGovernedIntent(w)
      BY <3>2, CalledAgain
    <3>3. CASE NodeAdmits(w)
      BY <3>3, Admitting
    <3>4. CASE ApiRejected(w) \/ NoProvider(w) \/ ChallengeExpired(w) \/ RequestLost(w)
      BY <3>4, Throwing DEF ApiRejected, NoProvider, ChallengeExpired, RequestLost,
                            ClassifySubmitError, At, BeforeSubmission, Errors, PromptErrors,
                            RequestErrors
    <3>5. CASE SubmitFails(w) \/ ExportFails(w)
      <4>1. Unshared /\ UNCHANGED intents /\ \E e \in Errors \ PromptErrors : Throw(w, e)
        BY <3>5 DEF SubmitFails, ExportFails, ClassifySubmitError, Errors, PromptErrors,
                    RequestErrors
      <4>2. QED
        BY <4>1, Throwing
    <3>6. CASE ConnectFails(w) \/ ChallengeRejected(w) \/ TypedDataRejected(w)
      <4>1. now.pc \in BeforeSubmission /\ Unshared /\ UNCHANGED intents
        BY <3>6 DEF ConnectFails, ChallengeRejected, TypedDataRejected, At, BeforeSubmission
      <4>2. \E e \in Errors : Throw(w, e)
        BY <3>6 DEF ConnectFails, ChallengeRejected, TypedDataRejected, ProviderError, Errors,
                    PromptErrors
      <4>3. QED
        BY <4>1, <4>2, Throwing
    <3>7. CASE ApiResolved(w)
      <4> DEFINE c == [now EXCEPT !.address = now.options.address,
                                  !.pc = IF now.options.address = None THEN "connect" ELSE "challenge"]
      <4>1. now.pc = "api" /\ Unshared /\ UNCHANGED intents
        BY <3>7 DEF ApiResolved, At
      <4>2. call' = [call EXCEPT ![w] = c]
        BY <2>1, <3>7 DEF ApiResolved, SubmitTypeOK
      <4>3. now.options.address \in Accounts \cup {None}
        BY <3>1, SubmitOptionsAssumption DEF CallType
      <4>4. c \in CallType
        <5>1. ASSUME NEW address \in Accounts \cup {None}, NEW pc \in {"connect", "challenge"}
              PROVE  [now EXCEPT !.address = address, !.pc = pc] \in CallType
          BY <3>1 DEF CallType
        <5>2. QED
          BY <4>3, <5>1
      <4>5. /\ c.pc \in {"connect", "challenge"} /\ c.try = now.try /\ c.admitted = now.admitted
            /\ c.intent = now.intent /\ (c.pc = "challenge" => c.address \in Accounts)
        BY <3>1, <4>3 DEF CallType
      <4> HIDE DEF c
      <4>6. QED
        BY <4>1, <4>2, <4>4, <4>5, GoesOn DEF BeforeSubmission
    <3>8. CASE Connect(w)
      <4> DEFINE c == [now EXCEPT !.address = selected, !.pc = "challenge"]
      <4>1. now.pc = "connect" /\ Unshared /\ UNCHANGED intents
        BY <3>8 DEF Connect, At
      <4>2. call' = [call EXCEPT ![w] = c]
        BY <2>1, <3>8 DEF Connect, SubmitTypeOK
      <4>3. c \in CallType
        BY <2>1, <3>1 DEF CallType, SubmitTypeOK
      <4>4. /\ c.pc = "challenge" /\ c.try = now.try /\ c.admitted = now.admitted
            /\ c.intent = now.intent /\ c.address \in Accounts
        BY <2>1, <3>1 DEF CallType, SubmitTypeOK
      <4> HIDE DEF c
      <4>5. QED
        BY <4>1, <4>2, <4>3, <4>4, GoesOn DEF BeforeSubmission
    <3>9. CASE RecoverPublicKey(w)
      <4>1. now.pc = "challenge" /\ Unshared /\ UNCHANGED intents
        BY <3>9 DEF RecoverPublicKey, At
      <4>2. PICK recovered \in MaySign(w) :
              IF RecoveredIs(recovered, now.address)
              THEN call' = [call EXCEPT ![w].key = recovered, ![w].pc = "prepare"]
              ELSE Throw(w, "AddressMismatch")
        BY <3>9 DEF RecoverPublicKey
      <4>3. recovered \in Accounts
        BY <2>1, <3>1, <4>1 DEF MaySign, CallOk, SubmitTypeOK
      <4>4. CASE RecoveredIs(recovered, now.address)
        <5> DEFINE c == [now EXCEPT !.key = recovered, !.pc = "prepare"]
        <5>1. call' = [call EXCEPT ![w] = c]
          BY <2>1, <4>2, <4>4 DEF SubmitTypeOK
        <5>2. c \in CallType
          BY <3>1, <4>3 DEF CallType
        <5>3. /\ c.pc = "prepare" /\ c.try = now.try /\ c.admitted = now.admitted
              /\ c.intent = now.intent /\ c.key = recovered /\ c.address = recovered
          BY <3>1, <4>4 DEF CallType, RecoveredIs
        <5> HIDE DEF c
        <5>4. QED
          BY <4>1, <4>3, <5>1, <5>2, <5>3, GoesOn DEF BeforeSubmission
      <4>5. CASE ~RecoveredIs(recovered, now.address)
        BY <4>1, <4>2, <4>5, Throwing DEF BeforeSubmission, Errors, PromptErrors
      <4>6. QED
        BY <4>4, <4>5
    <3>10. CASE Prepare(w)
      <4> DEFINE c == [now EXCEPT !.pc = "sign"]
      <4>1. now.pc = "prepare" /\ Unshared /\ UNCHANGED intents
        BY <3>10 DEF Prepare, At
      <4>2. CASE call' = [call EXCEPT ![w].pc = "sign"]
        <5>1. call' = [call EXCEPT ![w] = c]
          BY <2>1, <4>2 DEF SubmitTypeOK
        <5>2. c \in CallType
          BY <3>1 DEF CallType
        <5>3. /\ c.pc = "sign" /\ c.try = now.try /\ c.admitted = now.admitted
              /\ c.intent = now.intent /\ c.key = now.key /\ c.address = now.address
          BY <3>1 DEF CallType
        <5>4. now.key = now.address /\ now.key \in Accounts
          BY <3>1, <4>1 DEF CallOk
        <5> HIDE DEF c
        <5>5. QED
          BY <4>1, <5>1, <5>2, <5>3, <5>4, GoesOn DEF BeforeSubmission
      <4>3. CASE Throw(w, "IntentRejected")
        BY <4>1, <4>3, Throwing DEF Errors, PromptErrors, RequestErrors
      <4>4. QED
        BY <3>10, <4>2, <4>3 DEF Prepare
    <3>11. CASE SignTypedData(w)
      <4>1. now.pc = "sign" /\ Unshared /\ UNCHANGED intents
        BY <3>11 DEF SignTypedData, At
      <4>2. PICK signer \in MaySign(w) :
              call' = [call EXCEPT ![w].signer = signer, ![w].pc = "submit"]
        BY <3>11 DEF SignTypedData
      <4>3. now.key = now.address /\ now.key \in Accounts
        BY <3>1, <4>1 DEF CallOk
      <4>4. signer \in Accounts
        BY <2>1, <4>3 DEF MaySign, SubmitTypeOK
      <4> DEFINE c == [now EXCEPT !.signer = signer, !.pc = "submit"]
      <4>5. call' = [call EXCEPT ![w] = c]
        BY <2>1, <4>2 DEF SubmitTypeOK
      <4>6. c \in CallType
        BY <3>1, <4>4 DEF CallType
      <4>7. /\ c.pc = "submit" /\ c.try = now.try /\ c.admitted = now.admitted
            /\ c.intent = now.intent /\ c.key = now.key /\ c.address = now.address /\ c.signer = signer
        BY <3>1 DEF CallType
      <4> HIDE DEF c
      <4>8. QED
        BY <4>1, <4>3, <4>4, <4>5, <4>6, <4>7, GoesOn DEF BeforeSubmission
    <3>12. CASE NodeRefuses(w)
      <4> DEFINE c == [now EXCEPT !.pc = "answer"]
      <4>1. Unshared /\ UNCHANGED intents
        BY <3>12 DEF NodeRefuses
      <4>2. call' = [call EXCEPT ![w] = c]
        BY <2>1, <3>12 DEF NodeRefuses, SubmitTypeOK
      <4>3. c \in CallType
        BY <3>1 DEF CallType
      <4>4. /\ c.pc = "answer" /\ c.try = now.try /\ c.admitted = now.admitted
            /\ c.intent = now.intent
        BY <3>1 DEF CallType
      <4> HIDE DEF c
      <4>5. CallOk(c, w)
        BY <3>1, <4>4 DEF CallOk, IsOf, BeforeSubmission
      <4>6. QED
        BY <2>1, <4>1, <4>2, <4>3, <4>4, <4>5, Moved, OneCall
    <3>13. CASE Submitted(w)
      <4>1. now.pc = "answer" /\ now.admitted /\ Unshared /\ UNCHANGED intents
        BY <3>13 DEF Submitted, At
      <4>2. PICK id \in {i \in intents : i.wish = w /\ i.try = now.try} \cup {None} :
              call' = [call EXCEPT ![w].intent = id, ![w].pc = Then(now.options, id, FALSE)]
        BY <3>13 DEF Submitted
      <4> DEFINE c == [now EXCEPT !.intent = id, !.pc = Then(now.options, id, FALSE)]
      <4>3. id \in Intent \cup {None}
        BY <2>1 DEF SubmitTypeOK
      <4>4. /\ Then(now.options, id, FALSE) \in {"wait", "export", "done"}
            /\ Then(now.options, id, FALSE) = "done" => ~now.options.proof
        BY DEF Then
      <4>5. call' = [call EXCEPT ![w] = c]
        BY <2>1, <4>2 DEF SubmitTypeOK
      <4>6. c \in CallType
        BY <3>1, <4>3, <4>4 DEF CallType
      <4>7. /\ c.pc = Then(now.options, id, FALSE) /\ c.try = now.try /\ c.admitted = now.admitted
            /\ c.intent = id /\ c.options = now.options
        BY <3>1 DEF CallType
      <4> HIDE DEF c
      <4>8. CallOk(c, w)
        BY <3>1, <4>1, <4>4, <4>7 DEF CallOk, IsOf, BeforeSubmission
      <4>9. QED
        BY <2>1, <4>1, <4>5, <4>6, <4>7, <4>8, Moved, OneCall
    <3>14. CASE Wait(w)
      <4>1. now.pc = "wait" /\ Unshared /\ UNCHANGED intents
        BY <3>14 DEF Wait, At
      <4>2. CASE Throw(w, "NotCompleted")
        BY <4>1, <4>2, Throwing DEF Errors, PromptErrors, RequestErrors
      <4>3. CASE call' = [call EXCEPT ![w].pc = Then(now.options, now.intent, TRUE)]
        <5> DEFINE c == [now EXCEPT !.pc = Then(now.options, now.intent, TRUE)]
        <5>1. /\ Then(now.options, now.intent, TRUE) \in {"export", "done"}
              /\ Then(now.options, now.intent, TRUE) = "done" => ~now.options.proof
          BY DEF Then
        <5>2. call' = [call EXCEPT ![w] = c]
          BY <2>1, <4>3 DEF SubmitTypeOK
        <5>3. c \in CallType
          BY <3>1, <5>1 DEF CallType
        <5>4. /\ c.pc = Then(now.options, now.intent, TRUE) /\ c.try = now.try
              /\ c.admitted = now.admitted /\ c.intent = now.intent /\ c.options = now.options
          BY <3>1 DEF CallType
        <5> HIDE DEF c
        <5>5. CallOk(c, w)
          BY <3>1, <4>1, <5>1, <5>4 DEF CallOk, IsOf, BeforeSubmission
        <5>6. QED
          BY <2>1, <4>1, <5>2, <5>3, <5>4, <5>5, Moved, OneCall
      <4>4. QED
        BY <3>14, <4>2, <4>3 DEF Wait
    <3>15. CASE ExportProof(w)
      <4>1. now.pc = "export" /\ Unshared /\ UNCHANGED intents
        BY <3>15 DEF ExportProof, At
      <4>2. PICK i \in Exported(w) : call' = [call EXCEPT ![w].proof = i, ![w].pc = "done"]
        BY <3>15 DEF ExportProof
      <4>3. i \in intents /\ i = now.intent
        BY DEF Exported
      <4> DEFINE c == [now EXCEPT !.proof = i, !.pc = "done"]
      <4>4. call' = [call EXCEPT ![w] = c]
        BY <2>1, <4>2 DEF SubmitTypeOK
      <4>5. c \in CallType
        BY <2>1, <3>1, <4>3 DEF CallType, SubmitTypeOK
      <4>6. /\ c.pc = "done" /\ c.try = now.try /\ c.admitted = now.admitted
            /\ c.intent = now.intent /\ c.proof = i
        BY <3>1 DEF CallType
      <4> HIDE DEF c
      <4>7. CallOk(c, w)
        BY <3>1, <4>1, <4>3, <4>6 DEF CallOk, IsOf, BeforeSubmission
      <4>8. QED
        BY <2>1, <4>1, <4>4, <4>5, <4>6, <4>7, Moved, OneCall
    <3>16. QED
      BY <2>2, <3>2, <3>3, <3>4, <3>5, <3>6, <3>7, <3>8, <3>9, <3>10, <3>11, <3>12, <3>13, <3>14,
         <3>15 DEF Step
  <2>3. CASE ImportSettles \/ (\E a \in Accounts : SwitchAccount(a)) \/ UNCHANGED submitVars
    <3>1. UNCHANGED <<call, intents, imports>> /\ selected' \in Accounts
          /\ apiPromise' \in {"none", "pending", "fulfilled", "rejected"}
      BY <2>1, <2>3 DEF ImportSettles, SwitchAccount, submitVars, SubmitTypeOK
    <3>2. SubmitTypeOK'
      BY <2>1, <3>1 DEF SubmitTypeOK
    <3>3. \A w \in Wishes : CallOk(call[w], w)'
      BY <3>1 DEF SubmitIInv, CallOk
    <3>4. \A i \in intents' : IntentOk(i)'
      BY <3>1 DEF SubmitIInv, IntentOk
    <3>5. QED
      BY <3>2, <3>3, <3>4 DEF SubmitIInv
  <2>4. QED
    BY <2>2, <2>3 DEF SubmitNext
<1>3. QED
  BY <1>1, <1>2, PTL DEF SubmitSpec

(* An admitted intent carries the key of the account its call worked for   *)
(* and was signed by it, however the user switched accounts                *)
(* (metamask/recoverPublicKey.ts:196-204, metamask/index.ts:236-308).      *)
THEOREM IntentsAreSignedByTheirAccount == SubmitSpec => []SignedByItsAccount
<1>1. SubmitIInv => SignedByItsAccount
  BY DEF SubmitIInv, IntentOk, SignedByItsAccount
<1>2. QED
  BY <1>1, SubmitInvariant, PTL

(* A result is of an intent that this very call had admitted, and its      *)
(* proof is that intent's (metamask/index.ts:236-308).                     *)
THEOREM ResultsNameTheirIntent == SubmitSpec => []ResultNamesItsIntent
<1>1. SubmitIInv => ResultNamesItsIntent
  <2> SUFFICES ASSUME SubmitIInv, NEW w \in Wishes, call[w].pc = "done"
               PROVE  /\ \E i \in intents : i.wish = w /\ i.try = call[w].try /\ i.key \in Bound
                                             /\ call[w].intent \in {i, None}
                      /\ call[w].options.proof => call[w].proof = call[w].intent
    BY DEF ResultNamesItsIntent
  <2>1. CallOk(call[w], w) /\ \A i \in intents : i.key \in Bound
    BY DEF SubmitIInv, IntentOk
  <2>2. CASE call[w].intent = None
    BY <2>1, <2>2 DEF CallOk, IsOf
  <2>3. CASE call[w].intent # None
    BY <2>1, <2>3 DEF CallOk, IsOf
  <2>4. QED
    BY <2>2, <2>3
<1>2. QED
  BY <1>1, SubmitInvariant, PTL

(* A call that failed in the import, at the wallet or over the challenge   *)
(* has had nothing admitted: to run it again submits nothing twice         *)
(* (metamask/index.ts:126-137, :236-289, packages/metamask/index.js:65-103). *)
THEOREM PromptFailuresAdmitNothing == SubmitSpec => []PromptFailureAdmitsNothing
<1>1. SubmitIInv => PromptFailureAdmitsNothing
  BY DEF SubmitIInv, CallOk, IntentOk, PromptFailureAdmitsNothing
<1>2. QED
  BY <1>1, SubmitInvariant, PTL

-----------------------------------------------------------------------------
(***************************************************************************)
(* PortableProof.  What was not changed is as the node exported it, and    *)
(* what was not sealed again carries a seal of the node's.                 *)
(***************************************************************************)

Fields ==
  {"version", "bundleData", "planHash", "outcomeDigest", "trustSnapshot", "inclusionProofs",
   "anchorProof", "anchorTxHash", "anchorBlockHeight", "pluginVersions", "policyDecisionDigest",
   "replayCapsule", "exportHash"}

IsPackage(p) == p = [f \in Fields |-> p[f]]
IsExported(p) == \E b \in Bundles : p \in Exports(b)

\* A package keeps its fields, whatever changes.
Shape == pkg # Absent => IsPackage(pkg)

\* Until it is sealed again a package has an export hash that the node computed, or none.
SealOfNode ==
  pkg # Absent /\ ~resealed =>
    pkg.exportHash = <<>> \/ \E e : IsExported(e) /\ pkg.exportHash = e.exportHash

\* Sealing again what was not changed changes nothing.
Intact == pkg # Absent /\ changes = 0 => IsExported(pkg)

\* What an endpoint is asked about, and what it has confirmed, has passed.
AskedPassed == asked # Absent => Passed(asked.of)

\* Every receipt is one that buildReceiptFromVerifier builds.
ReceiptIsBuilt ==
  receipt # Absent =>
    \E p, network, l0 :
      /\ l0 \in BOOLEAN /\ receipt = Receipt(p, l0, network)
      /\ l0 => Passed(p) /\ p \in confirmed

PackageIInv ==
  /\ changes \in Nat /\ resealed \in BOOLEAN
  /\ Shape /\ SealOfNode /\ Intact /\ AskedPassed /\ ReceiptIsBuilt

-----------------------------------------------------------------------------
(* An exported package, field by field. *)
LEMMA ExportedFields ==
  ASSUME NEW b \in Bundles, NEW e \in Exports(b)
  PROVE  /\ IsPackage(e)
         /\ e.version = "4" /\ e.bundleData = b
         /\ e.planHash \in PlansOf(b) /\ e.outcomeDigest = b.outcomeDigest
         /\ e.trustSnapshot = {[profileId |-> t, blockHeight |-> 1] : t \in b.trustAssumptions}
         /\ e.inclusionProofs = InclusionProofs(b.links)
         /\ e.anchorProof = IF Anchored(b) THEN b.id ELSE Absent
         /\ e.anchorTxHash = b.anchorTxHash /\ e.anchorBlockHeight = b.anchorBlockHeight
         /\ e.pluginVersions = {"named"}
         /\ e.policyDecisionDigest = PolicyDigest(b.policyDecisions)
         /\ e.exportHash = Committed(e)
<1>1. PICK plan \in PlansOf(b), c \in {b.id, Absent} : e = SealOf(Unsealed(b, plan, c))
  BY DEF Exports
<1> DEFINE u == Unsealed(b, plan, c)
<1>2. u = [f \in Fields |-> u[f]]
  BY DEF Unsealed, Fields
<1>3. /\ e = [f \in Fields |-> IF f = "exportHash" THEN Committed(u) ELSE u[f]]
      /\ IsPackage(e)
  BY <1>1, <1>2 DEF SealOf, IsPackage, Fields
<1>4. \A f \in Fields \ {"exportHash"} : e[f] = u[f]
  BY <1>3
<1>5. e.exportHash = Committed(u)
  BY <1>3 DEF Fields
<1>6. Committed(e) = Committed(u)
  BY <1>4 DEF Committed, Fields
<1>7. /\ u.version = "4" /\ u.bundleData = b
      /\ u.planHash = plan /\ u.outcomeDigest = b.outcomeDigest
      /\ u.trustSnapshot = {[profileId |-> t, blockHeight |-> 1] : t \in b.trustAssumptions}
      /\ u.inclusionProofs = InclusionProofs(b.links)
      /\ u.anchorProof = IF Anchored(b) THEN b.id ELSE Absent
      /\ u.anchorTxHash = b.anchorTxHash /\ u.anchorBlockHeight = b.anchorBlockHeight
      /\ u.pluginVersions = {"named"}
      /\ u.policyDecisionDigest = PolicyDigest(b.policyDecisions)
  BY DEF Unsealed
<1> HIDE DEF u
<1>8. QED
  BY <1>3, <1>4, <1>5, <1>6, <1>7 DEF Fields

(* Sealing makes the export hash match, and leaves what it is of alone. *)
LEMMA SealedFields ==
  ASSUME NEW p, IsPackage(p)
  PROVE  /\ IsPackage(SealOf(p))
         /\ SealOf(p).exportHash = Committed(p)
         /\ \A f \in Fields \ {"exportHash"} : SealOf(p)[f] = p[f]
  BY DEF IsPackage, SealOf, Fields

(* Two packages that commit to the same and have the same export hash are one. *)
LEMMA CommittedIsAll ==
  ASSUME NEW p, NEW q, IsPackage(p), IsPackage(q),
         Committed(p) = Committed(q), p.exportHash = q.exportHash
  PROVE  p = q
<1>1. /\ p.version = q.version /\ p.bundleData = q.bundleData /\ p.planHash = q.planHash
      /\ p.outcomeDigest = q.outcomeDigest /\ p.trustSnapshot = q.trustSnapshot
      /\ p.inclusionProofs = q.inclusionProofs /\ p.anchorProof = q.anchorProof
      /\ p.anchorTxHash = q.anchorTxHash /\ p.anchorBlockHeight = q.anchorBlockHeight
      /\ p.pluginVersions = q.pluginVersions /\ p.policyDecisionDigest = q.policyDecisionDigest
      /\ p.replayCapsule = q.replayCapsule
  BY DEF Committed
<1>2. \A f \in Fields : p[f] = q[f]
  BY <1>1 DEF Fields
<1>3. QED
  BY <1>2 DEF IsPackage

(* What was exported and is sealed again is what was exported. *)
LEMMA ResealingIsIdle ==
  ASSUME NEW e, IsExported(e)
  PROVE  SealOf(e) = e
<1>1. IsPackage(e) /\ e.exportHash = Committed(e)
  BY ExportedFields DEF IsExported
<1>2. QED
  BY <1>1 DEF IsPackage, SealOf, Fields

-----------------------------------------------------------------------------
(* The invariant holds of every state that the package goes through        *)
(* (packages/verify/src/portableVerifier.js, packages/widgets/src/verifier.ts). *)
THEOREM PackageInvariant == ProofSpec => []PackageIInv
<1>1. ProofInit => PackageIInv
  <2> SUFFICES ASSUME ProofInit PROVE PackageIInv
    OBVIOUS
  <2>1. changes \in Nat /\ resealed \in BOOLEAN
    BY DEF ProofInit
  <2>2. Shape /\ SealOfNode /\ Intact
    BY DEF ProofInit, Shape, SealOfNode, Intact
  <2>3. AskedPassed /\ ReceiptIsBuilt
    BY DEF ProofInit, AskedPassed, ReceiptIsBuilt
  <2>4. QED
    BY <2>1, <2>2, <2>3 DEF PackageIInv
<1>2. PackageIInv /\ [ProofNext]_proofVars => PackageIInv'
  <2> SUFFICES ASSUME PackageIInv, [ProofNext]_proofVars PROVE PackageIInv'
    OBVIOUS
  <2> USE DEF PackageIInv
  <2>1. CASE ExportPortable
    <3>1. PICK b \in Bundles : pkg' \in Exports(b)
      BY <2>1 DEF ExportPortable
    <3>2. IsExported(pkg')
      BY <3>1 DEF IsExported
    <3>3. Shape'
      BY <3>1, ExportedFields DEF Shape
    <3>4. SealOfNode' /\ Intact'
      BY <3>2 DEF SealOfNode, Intact
    <3>5. AskedPassed' /\ ReceiptIsBuilt'
      BY <2>1 DEF ExportPortable, AskedPassed, ReceiptIsBuilt
    <3>6. QED
      BY <2>1, <3>3, <3>4, <3>5 DEF ExportPortable
  <2>2. CASE Change
    <3>1. PICK f \in DOMAIN Blank, other \in {Blank} \cup Exports(Foreign) :
            pkg' = [pkg EXCEPT ![f] = other[f]]
      BY <2>2 DEF Change
    <3>2. IsPackage(pkg) /\ pkg # Absent
      BY <2>2 DEF Change, InTransit, Shape
    <3>3. DOMAIN Blank = Fields
      BY DEF Blank, Fields
    <3>4. /\ IsPackage(pkg')
          /\ pkg'.exportHash = IF f = "exportHash" THEN other[f] ELSE pkg.exportHash
      BY <3>1, <3>2, <3>3 DEF IsPackage, Fields
    <3>5. other.exportHash = <<>> \/ IsExported(other)
      BY BundlesAssumption DEF Blank, IsExported
    <3>6. SealOfNode'
      BY <2>2, <3>2, <3>4, <3>5 DEF Change, SealOfNode
    <3>7. Intact'
      BY <2>2 DEF Change, Intact
    <3>8. AskedPassed' /\ ReceiptIsBuilt'
      BY <2>2 DEF Change, AskedPassed, ReceiptIsBuilt
    <3>9. QED
      BY <2>2, <3>4, <3>6, <3>7, <3>8 DEF Change, Shape
  <2>3. CASE Reseal
    <3>1. IsPackage(pkg) /\ pkg # Absent
      BY <2>3 DEF Reseal, InTransit, Shape
    <3>2. Shape'
      BY <2>3, <3>1, SealedFields DEF Reseal, Shape
    <3>3. SealOfNode'
      BY <2>3 DEF Reseal, SealOfNode
    <3>4. Intact'
      BY <2>3, <3>1, ResealingIsIdle DEF Reseal, Intact
    <3>5. AskedPassed' /\ ReceiptIsBuilt'
      BY <2>3 DEF Reseal, AskedPassed, ReceiptIsBuilt
    <3>6. QED
      BY <2>3, <3>2, <3>3, <3>4, <3>5 DEF Reseal
  <2>4. CASE VerifyProof
    <3>1. PICK network : receipt' = Receipt(pkg, FALSE, network)
      BY <2>4 DEF VerifyProof
    <3>2. ReceiptIsBuilt'
      BY <3>1 DEF ReceiptIsBuilt
    <3>3. Shape' /\ SealOfNode' /\ Intact' /\ AskedPassed'
      BY <2>4 DEF VerifyProof, Shape, SealOfNode, Intact, AskedPassed
    <3>4. QED
      BY <2>4, <3>2, <3>3 DEF VerifyProof
  <2>5. CASE VerifyBundle
    <3>1. PICK l0 \in BOOLEAN, network \in {Absent, Network} :
            IF IsAsked(pkg, l0)
            THEN asked' = [of |-> pkg, network |-> network] /\ UNCHANGED receipt
            ELSE receipt' = Receipt(pkg, FALSE, Absent) /\ UNCHANGED asked
      BY <2>5 DEF VerifyBundle
    <3>2. AskedPassed'
      <4>1. CASE IsAsked(pkg, l0)
        <5>1. asked'.of = pkg /\ Passed(pkg)
          BY <3>1, <4>1 DEF IsAsked
        <5>2. Passed(asked'.of)
          BY <5>1
        <5>3. QED
          BY <5>2 DEF AskedPassed
      <4>2. CASE ~IsAsked(pkg, l0)
        BY <3>1, <4>2 DEF AskedPassed
      <4>3. QED
        BY <4>1, <4>2
    <3>3. ReceiptIsBuilt'
      <4>1. CASE IsAsked(pkg, l0)
        BY <2>5, <3>1, <4>1 DEF VerifyBundle, ReceiptIsBuilt
      <4>2. CASE ~IsAsked(pkg, l0)
        BY <3>1, <4>2 DEF ReceiptIsBuilt
      <4>3. QED
        BY <4>1, <4>2
    <3>4. Shape' /\ SealOfNode' /\ Intact'
      BY <2>5 DEF VerifyBundle, Shape, SealOfNode, Intact
    <3>5. QED
      BY <2>5, <3>2, <3>3, <3>4 DEF VerifyBundle
  <2>6. CASE Confirmed
    <3>1. PICK network : receipt' = Receipt(asked.of, TRUE, network)
      BY <2>6 DEF Confirmed
    <3>2. Passed(asked.of) /\ asked.of \in confirmed'
      BY <2>6 DEF Confirmed, AskedPassed
    <3>3. ReceiptIsBuilt'
      BY <3>1, <3>2 DEF ReceiptIsBuilt
    <3>4. Shape' /\ SealOfNode' /\ Intact' /\ AskedPassed'
      BY <2>6 DEF Confirmed, Shape, SealOfNode, Intact, AskedPassed
    <3>5. QED
      BY <2>6, <3>3, <3>4 DEF Confirmed
  <2>7. CASE NotConfirmed
    <3>1. ReceiptIsBuilt'
      BY <2>7 DEF NotConfirmed, ReceiptIsBuilt
    <3>2. Shape' /\ SealOfNode' /\ Intact' /\ AskedPassed'
      BY <2>7 DEF NotConfirmed, Shape, SealOfNode, Intact, AskedPassed
    <3>3. QED
      BY <2>7, <3>1, <3>2 DEF NotConfirmed
  <2>8. CASE UNCHANGED proofVars
    BY <2>8 DEF proofVars, Shape, SealOfNode, Intact, AskedPassed, ReceiptIsBuilt
  <2>9. QED
    BY <2>1, <2>2, <2>3, <2>4, <2>5, <2>6, <2>7, <2>8 DEF ProofNext
<1>3. QED
  BY <1>1, <1>2, PTL DEF ProofSpec

(* A package that no one but the node has sealed passes only if the node   *)
(* exported it just so: its export hash is that of an export, and what two *)
(* packages commit to is all of them (portableVerifier.js:63-80, :289-308). *)
THEOREM UnsealedChangesFail == ProofSpec => []AcceptedWasExported
<1>1. PackageIInv => AcceptedWasExported
  <2> SUFFICES ASSUME PackageIInv, pkg # Absent, ~resealed, Passed(pkg)
               PROVE  \E b \in Bundles : pkg \in Exports(b)
    BY DEF AcceptedWasExported
  <2>1. IsPackage(pkg) /\ pkg.exportHash = Committed(pkg)
    BY DEF PackageIInv, Shape, Passed, ExportHashMatches
  <2>2. pkg.exportHash # <<>>
    BY <2>1 DEF Committed
  <2>3. PICK e : IsExported(e) /\ pkg.exportHash = e.exportHash
    BY <2>2 DEF PackageIInv, SealOfNode
  <2>4. IsPackage(e) /\ e.exportHash = Committed(e)
    BY <2>3, ExportedFields DEF IsExported
  <2>5. pkg = e
    BY <2>1, <2>3, <2>4, CommittedIsAll
  <2>6. QED
    BY <2>3, <2>5 DEF IsExported
<1>2. QED
  BY <1>1, PackageInvariant, PTL

(* What the node exports passes each of the ten checks, at whatever stage  *)
(* of the bundle's life (portableVerifier.js:50-282).                      *)
THEOREM ExportsPass == ProofSpec => []ExportsAccepted
<1>1. ASSUME NEW b \in Bundles, NEW e \in Exports(b) PROVE Passed(e)
  <2> USE ExportedFields
  <2>1. BundleOfNode(b) /\ b # Absent
    BY BundlesAssumption
  <2>2. e.version = "4" /\ ExportHashMatches(e) /\ e.bundleData = b /\ b # Absent
    BY <2>1 DEF ExportHashMatches
  <2>3. PlanIsBound(e)
    <3>1. b.outcomeDigest # Zero
      BY <2>1 DEF BundleOfNode
    <3>2. Zero \notin PlansOf(b)
      BY <3>1 DEF PlansOf, ApprovalPlans
    <3>3. e.planHash \in PlansOf(b) /\ e.bundleData = b
      OBVIOUS
    <3>4. QED
      BY <3>2, <3>3 DEF PlanIsBound
  <2>4. OutcomeIsBound(e)
    BY <2>1 DEF OutcomeIsBound, BundleOfNode
  <2>5. \A proof \in e.inclusionProofs : Reconstructs(proof)
    <3> TAKE proof \in e.inclusionProofs
    <3>1. proof \in InclusionProofs(b.links)
      OBVIOUS
    <3>2. \A l, r : /\ Parent(l, r, 0) = <<l, r>> /\ Parent(l, r, 2) = <<l, r>>
                     /\ Parent(l, r, 1) = <<r, l>>
      BY DEF Parent
    <3>3. 0 \div 2 = 0 /\ 1 \div 2 = 0 /\ 2 \div 2 = 1
      OBVIOUS
    <3>4. QED
      BY <3>1, <3>2, <3>3 DEF InclusionProofs, Reconstructs, ChainRoot
  <2>6. AnchorIsBound(e)
    BY <2>2 DEF AnchorIsBound, AnchorState, Anchored
  <2>7. TrustIsBound(e)
    BY <2>2 DEF TrustIsBound
  <2>8. PolicyIsBound(e)
    BY <2>2 DEF PolicyIsBound
  <2>9. "partial" \notin e.pluginVersions
    OBVIOUS
  <2>10. QED
    BY <2>2, <2>3, <2>4, <2>5, <2>6, <2>7, <2>8, <2>9 DEF Passed
<1>2. PackageIInv => ExportsAccepted
  BY <1>1 DEF PackageIInv, Intact, IsExported, ExportsAccepted
<1>3. QED
  BY <1>2, PackageInvariant, PTL

(* A package that passes with a bundle of the node's inside says of plan,  *)
(* outcome, decisions and anchor what the bundle says, whoever sealed it   *)
(* (portableVerifier.js:99-149, :171-213, :238-261).                       *)
THEOREM BundleBindsPackage == ProofSpec => []PackageSaysWhatItsBundleDoes
<1>1. ASSUME NEW p, p.bundleData \in Bundles, Passed(p)
      PROVE  \E e \in Exports(p.bundleData) :
               /\ p.planHash = e.planHash
               /\ p.outcomeDigest = e.outcomeDigest
               /\ p.policyDecisionDigest = e.policyDecisionDigest
               /\ Anchored(p.bundleData) =>
                    /\ p.anchorProof = e.anchorProof
                    /\ p.anchorTxHash = e.anchorTxHash
                    /\ p.anchorBlockHeight = e.anchorBlockHeight
  <2> DEFINE b == p.bundleData
             e == SealOf(Unsealed(b, p.planHash, Absent))
  <2>1. p.planHash \in PlansOf(b)
    BY <1>1 DEF Passed, PlanIsBound
  <2>2. e \in Exports(b)
    BY <2>1 DEF Exports
  <2>3. e.planHash = p.planHash
    BY DEF SealOf, Unsealed
  <2>4. BundleOfNode(b)
    BY <1>1, BundlesAssumption
  <2> HIDE DEF e
  <2>5. /\ p.outcomeDigest = e.outcomeDigest
        /\ p.policyDecisionDigest = e.policyDecisionDigest
    BY <1>1, <2>2, ExportedFields DEF Passed, OutcomeIsBound, PolicyIsBound
  <2>6. ASSUME Anchored(b)
        PROVE  /\ p.anchorProof = e.anchorProof
               /\ p.anchorTxHash = e.anchorTxHash
               /\ p.anchorBlockHeight = e.anchorBlockHeight
    <3>1. b.anchorTxHash # Absent /\ b.anchorBlockHeight # 0
      BY <2>4, <2>6 DEF BundleOfNode
    <3>2. /\ p.anchorProof = b.id /\ p.anchorTxHash = b.anchorTxHash
          /\ p.anchorBlockHeight = b.anchorBlockHeight
      BY <1>1, <2>6, <3>1 DEF Passed, AnchorIsBound, AnchorState, Anchored
    <3>3. QED
      BY <1>1, <2>2, <2>6, <3>2, ExportedFields
  <2>7. QED
    BY <2>2, <2>3, <2>5, <2>6
<1>2. PackageSaysWhatItsBundleDoes
  BY <1>1 DEF PackageSaysWhatItsBundleDoes
<1>3. QED
  BY <1>2, PTL

(* No receipt claims more than was shown: L4 needs an endpoint that has    *)
(* confirmed that very package, and a package that passed                  *)
(* (proofReceipt.js:35-84, :87-111, widgets/src/verifier.ts:120-145).      *)
THEOREM ReceiptsAreHonest == ProofSpec => []ReceiptClaimsWhatWasShown
<1>1. ASSUME NEW p, NEW l0, NEW network, NEW r, r = Receipt(p, l0, network),
             l0 \in BOOLEAN, l0 => Passed(p)
      PROVE  /\ r.status = "verified" <=> Passed(p)
             /\ r.proofLevel = "L4" => r.l0Verified
             /\ Overclaims(r) = IF r.l0Verified /\ r.network = Absent
                                THEN {"unnamed network"} ELSE {}
  <2>1. /\ r.status = "verified" <=> Passed(p)
        /\ r.l0Verified = l0 /\ r.network = network
        /\ r.proofLevel = IF ~Passed(p) THEN "L0" ELSE IF l0 THEN "L4" ELSE "L3"
    BY <1>1 DEF Receipt
  <2>2. ~(r.status = "verified" /\ ~r.l0Verified /\ r.proofLevel = "L0")
    BY <1>1, <2>1
  <2>3. r.proofLevel = "L4" => r.l0Verified
    BY <1>1, <2>1
  <2>4. Overclaims(r) = IF r.l0Verified /\ r.network = Absent THEN {"unnamed network"} ELSE {}
    BY <2>2, <2>3 DEF Overclaims
  <2>5. QED
    BY <2>1, <2>3, <2>4
<1>2. PackageIInv => ReceiptClaimsWhatWasShown
  <2> SUFFICES ASSUME PackageIInv, receipt # Absent PROVE ReceiptClaimsWhatWasShown
    BY DEF ReceiptClaimsWhatWasShown
  <2>1. PICK p, network, l0 :
          /\ l0 \in BOOLEAN /\ receipt = Receipt(p, l0, network)
          /\ l0 => Passed(p) /\ p \in confirmed
    BY DEF PackageIInv, ReceiptIsBuilt
  <2>2. receipt.of = p /\ receipt.l0Verified = l0
    BY <2>1 DEF Receipt
  <2>3. /\ receipt.status = "verified" <=> Passed(p)
        /\ receipt.proofLevel = "L4" => receipt.l0Verified
        /\ Overclaims(receipt) = IF receipt.l0Verified /\ receipt.network = Absent
                                 THEN {"unnamed network"} ELSE {}
    BY <1>1, <2>1
  <2>4. QED
    BY <2>1, <2>2, <2>3 DEF ReceiptClaimsWhatWasShown
<1>3. QED
  BY <1>2, PackageInvariant, PTL

=============================================================================
