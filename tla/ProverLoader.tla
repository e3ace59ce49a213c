---------------------------- MODULE ProverLoader ----------------------------
(***************************************************************************)
(* loadProver of @infrix/prover: the first call reads the assets, checks   *)
(* the module against its manifest and starts it; every call, the first    *)
(* and those that come meanwhile or later, awaits that one start.          *)
(*                                                                         *)
(* The module runs beside the page.  It says that it is ready in a global, *)
(* which the loader looks at a bounded number of times, giving way between *)
(* two looks.                                                              *)
(***************************************************************************)
EXTENDS Integers

CONSTANTS
  Loads,      \* callers of loadProver
  Sources,    \* where assets may be, the options of a call
  Tampered,   \* sources whose module is not the one that was built
  Unhashed,   \* sources whose manifest has no hash of the module
  NoSource,
  MaxLooks,   \* how often the loader looks, 1000 in the code
  MaxLoads    \* bound on the calls of each caller

ASSUME SourcesAssumption ==
  NoSource \notin Sources /\ Tampered \cup Unhashed \subseteq Sources
ASSUME LooksAssumption == MaxLooks \in Nat /\ MaxLoads \in Nat

VARIABLES
  instancePromise, \* none yet, pending, fulfilled or rejected
  source,          \* the options of the call that began the start
  stage,           \* how far instantiate is
  looks,           \* looks at the global so far
  module,          \* the module: not begun, running or gone
  ready,           \* globalThis.__infrixProverReady
  load,            \* the calls: how many, the last one's options and where it is
  starts           \* history: how often a module was run

loaderVars == <<instancePromise, source, stage, looks, module, ready, load, starts>>

LoadType ==
  [pc : {"idle", "waiting", "handle", "failed"}, calls : 0 .. MaxLoads,
   opts : Sources \cup {NoSource}]

LoaderTypeOK ==
  /\ instancePromise \in {"none", "pending", "fulfilled", "rejected"}
  /\ source \in Sources \cup {NoSource}
  /\ stage \in {"none", "assets", "hash", "shim", "start", "look", "over"}
  /\ looks \in 0 .. MaxLooks
  /\ module \in {"none", "running", "gone"}
  /\ ready \in BOOLEAN
  /\ load \in [Loads -> LoadType]
  /\ starts \in Nat

LoaderInit ==
  /\ instancePromise = "none"
  /\ source = NoSource
  /\ stage = "none"
  /\ looks = 0
  /\ module = "none"
  /\ ready = FALSE
  /\ load = [l \in Loads |-> [pc |-> "idle", calls |-> 0, opts |-> NoSource]]
  /\ starts = 0

-----------------------------------------------------------------------------
(***************************************************************************)
(* The calls                                                               *)
(***************************************************************************)

\* Mutant: a start that failed is begun again.
NotBegunOrFailed == instancePromise \in {"none", "rejected"}

NotBegun == instancePromise = "none"

\* The options of a call that is not the first are dropped.
LoadProver(l, opts) ==
  /\ load[l].pc # "waiting"
  /\ load[l].calls < MaxLoads
  /\ load' = [load EXCEPT ![l] = [pc |-> "waiting", calls |-> @.calls + 1, opts |-> opts]]
  /\ IF NotBegun
     THEN instancePromise' = "pending" /\ source' = opts /\ stage' = "assets"
     ELSE UNCHANGED <<instancePromise, source, stage>>
  /\ UNCHANGED <<looks, module, ready, starts>>

Settle(l) ==
  /\ load[l].pc = "waiting"
  /\ \/ instancePromise = "fulfilled" /\ load' = [load EXCEPT ![l].pc = "handle"]
     \/ instancePromise = "rejected" /\ load' = [load EXCEPT ![l].pc = "failed"]
  /\ UNCHANGED <<instancePromise, source, stage, looks, module, ready, starts>>

-----------------------------------------------------------------------------
(***************************************************************************)
(* instantiate                                                             *)
(***************************************************************************)

Goes(next) == stage' = next /\ UNCHANGED instancePromise

\* The promise of a start that failed stays.
Throws == stage' = "over" /\ instancePromise' = "rejected"

Untouched == UNCHANGED <<source, load>>

\* Assets can be unreadable, or not arrive.
ReadAssets ==
  /\ stage = "assets"
  /\ Goes("hash") \/ Throws
  /\ UNCHANGED <<looks, module, ready, starts>> /\ Untouched

\* Mutant: an answer that is not the expected one is let through.
HashUnchecked == TRUE

HashIsExpected == source \in Unhashed \/ source \notin Tampered

AssertSha256 ==
  /\ stage = "hash"
  /\ IF HashIsExpected THEN Goes("shim") ELSE Throws
  /\ UNCHANGED <<looks, module, ready, starts>> /\ Untouched

RunWasmExec ==
  /\ stage = "shim"
  /\ Goes("start") \/ Throws
  /\ UNCHANGED <<looks, module, ready, starts>> /\ Untouched

\* WebAssembly.instantiate, and go.run, which nobody waits for.
StartModule ==
  /\ stage = "start"
  /\ \/ Goes("look") /\ module' = "running" /\ starts' = starts + 1
     \/ Throws /\ UNCHANGED <<module, starts>>
  /\ UNCHANGED <<looks, ready>> /\ Untouched

\* Mutant: the looks are not counted.
CountedNot == looks' = looks

Counted == looks' = looks + 1

Look ==
  /\ stage = "look"
  /\ ~ready /\ looks < MaxLooks
  /\ Counted
  /\ UNCHANGED <<instancePromise, stage, module, ready, starts>> /\ Untouched

StopLooking ==
  /\ stage = "look"
  /\ ready \/ looks = MaxLooks
  /\ IF ready THEN stage' = "over" /\ instancePromise' = "fulfilled" ELSE Throws
  /\ UNCHANGED <<looks, module, ready, starts>> /\ Untouched

-----------------------------------------------------------------------------
(***************************************************************************)
(* The module, which runs when the loader gives way                        *)
(***************************************************************************)

ModuleReady ==
  /\ module = "running" /\ ~ready
  /\ ready' = TRUE
  /\ UNCHANGED <<instancePromise, stage, looks, module, starts>> /\ Untouched

\* It panics before it is ready.
ModuleGone ==
  /\ module = "running" /\ ~ready
  /\ module' = "gone"
  /\ UNCHANGED <<instancePromise, stage, looks, ready, starts>> /\ Untouched

\* All that the loader does once it has its assets.
WithAssets == AssertSha256 \/ RunWasmExec \/ StartModule \/ Look \/ StopLooking

Instantiate == ReadAssets \/ WithAssets

LoaderNext ==
  \/ \E l \in Loads : Settle(l) \/ \E opts \in Sources : LoadProver(l, opts)
  \/ Instantiate
  \/ ModuleReady \/ ModuleGone

\* What the event loop has to run it runs: digests and instantiation settle, a timer
\* of no time fires.  The assets need never arrive, as a page fetches them without a
\* timeout, and the module need never become ready.
LoaderFairness ==
  WF_loaderVars(WithAssets) /\ \A l \in Loads : WF_loaderVars(Settle(l))

LoaderSpec == LoaderInit /\ [][LoaderNext]_loaderVars /\ LoaderFairness

-----------------------------------------------------------------------------
(***************************************************************************)
(* Properties                                                              *)
(***************************************************************************)

\* Who has a handle has the one module that was run, however many calls came
\* before it was up; it is ready and, where the manifest has a hash, it is the one
\* that was built.  The options of the handle's own call may have named another.
HandleIsVerified ==
  \A l \in Loads : load[l].pc = "handle" =>
    /\ ready /\ starts = 1
    /\ source \in Tampered => source \in Unhashed

\* All callers are told the same, those that call again after a failure too.
CallersAgree == \A l, m \in Loads : ~(load[l].pc = "handle" /\ load[m].pc = "failed")

\* Every call comes back, whether or not the module ever says it is ready, unless
\* the assets never arrive.
EveryLoadSettles ==
  \/ <>[](stage = "assets")
  \/ \A l \in Loads : load[l].pc = "waiting" ~> load[l].pc # "waiting"

=============================================================================
