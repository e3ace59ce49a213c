--------------------------- MODULE MetaMaskSubmit ---------------------------
(***************************************************************************)
(* submitGovernedIntent of @infrix/metamask: a page asks a wallet for an   *)
(* account, recovers its public key from a signed challenge, has the node  *)
(* prepare typed data, has the wallet sign it and submits the intent.      *)
(*                                                                         *)
(* Every step is a prompt or a request that something else may come        *)
(* between: the user switches accounts, another call of the same page goes *)
(* on, an answer is lost.  One action below is the code between two        *)
(* awaits.  A call that failed with a retryable error may be made again.   *)
(***************************************************************************)
EXTENDS Integers

CONSTANTS
  Wishes,    \* what the page's user wants submitted, a call for each
  Accounts,  \* the wallet's accounts; an account stands for its key
  Bound,     \* the accounts on the signer's key page
  Options,   \* the options each call may be made with
  None,      \* no account, no intent
  MaxTries   \* bound on the calls made for each wish

ASSUME NoneIsNoAccount == None \notin Accounts
ASSUME BoundAssumption == Bound \subseteq Accounts
ASSUME SubmitOptionsAssumption ==
  \A w \in Wishes :
    Options[w] \subseteq [address : Accounts \cup {None}, challenge : {"built", "fresh", "expired"},
                         wait : BOOLEAN, proof : BOOLEAN]

\* What can fail before there is a signed request: the import, the wallet, the
\* challenge.  These errors have the core client's own words.
PromptErrors == {"NoClient", "ProviderMissing", "UserRejected", "ChallengeInvalid",
                 "PublicKeyRecoveryFailed", "AddressMismatch"}

\* What fails at a request quotes the node or a gateway before it.
RequestErrors == {"IntentRejected", "KeyPageNotVerified", "NotCompleted", "ProofUnavailable"}

Errors == PromptErrors \cup RequestErrors \cup {"NothingToExport"}

\* What the package makes of them.
Codes == {"UserRejected", "ProviderMissing", "AddressMismatch", "TypedDataUnsupported",
          "RecoveryFailed"}

\* The intents of the node: for which call it was made, the account the call
\* worked for, the key in the request and the account that signed.
Intent == [wish : Wishes, try : Nat, account : Accounts, key : Accounts, signer : Accounts]

VARIABLES
  apiPromise, \* the core client's import: not begun, under way, settled
  imports,    \* history: how often it was begun
  selected,   \* the account selected in the wallet
  call,       \* where the call for each wish is, and its locals
  intents     \* history: the intents the node has admitted

submitVars == <<apiPromise, imports, selected, call, intents>>

CallType ==
  [pc : {"idle", "api", "connect", "challenge", "prepare", "sign", "submit", "answer", "wait",
         "export", "done", "failed"},
   try : Nat, options : UNION {Options[w] : w \in Wishes},
   address : Accounts \cup {None}, key : Accounts \cup {None}, signer : Accounts \cup {None},
   admitted : BOOLEAN, intent : Intent \cup {None}, proof : Intent \cup {None},
   code : Codes \cup {"none"}, cause : Errors \cup {"none"}]

SubmitTypeOK ==
  /\ apiPromise \in {"none", "pending", "fulfilled", "rejected"}
  /\ imports \in Nat
  /\ selected \in Accounts
  /\ call \in [Wishes -> CallType]
  /\ intents \subseteq Intent

NewCall(try, o) ==
  [pc |-> IF try = 0 THEN "idle" ELSE "api", try |-> try, options |-> o,
   address |-> None, key |-> None, signer |-> None, admitted |-> FALSE,
   intent |-> None, proof |-> None, code |-> "none", cause |-> "none"]

SubmitInit ==
  /\ apiPromise = "none"
  /\ imports = 0
  /\ selected \in Accounts
  /\ \E o \in [Wishes -> UNION {Options[w] : w \in Wishes}] :
       /\ \A w \in Wishes : o[w] \in Options[w]
       /\ call = [w \in Wishes |-> NewCall(0, o[w])]
  /\ intents = {}

-----------------------------------------------------------------------------
(***************************************************************************)
(* Errors                                                                  *)
(***************************************************************************)

\* translateError reads the message, whatever step it comes from.  Of the core
\* client's own words it knows only those of a rejection again, not those of a
\* missing provider or of another account; words quoted from a request may be
\* taken for anything ("policy rejected the request").
Translations(e) ==
  IF e \in RequestErrors THEN Codes
  ELSE {IF e = "UserRejected" THEN "UserRejected" ELSE "RecoveryFailed"}

Retryable(code) == code \in {"UserRejected", "RecoveryFailed"}

\* The translated error keeps the one it was made of.
Throw(w, e) ==
  \E code \in Translations(e) :
    call' = [call EXCEPT ![w].pc = "failed", ![w].code = code, ![w].cause = e]

\* Whatever the wallet answers but a result is taken for a rejection.
ProviderError == "UserRejected"

\* Mutant: a submission that fails is taken for a rejection, as a prompt is.
ClassifySubmitErrorAsPrompt(keyPage) ==
  IF keyPage THEN "KeyPageNotVerified" ELSE ProviderError

ClassifySubmitError(keyPage) ==
  IF keyPage THEN "KeyPageNotVerified" ELSE "IntentRejected"

-----------------------------------------------------------------------------
(***************************************************************************)
(* The package: one call, and the core client it imports                   *)
(***************************************************************************)

ImportMissing == apiPromise = "none"

SubmitGovernedIntent(w) ==
  /\ call[w].pc = "idle" \/ (call[w].pc = "failed" /\ Retryable(call[w].code))
  /\ call[w].try < MaxTries[w]
  /\ call' = [call EXCEPT ![w] = NewCall(call[w].try + 1, call[w].options)]
  /\ IF ImportMissing THEN apiPromise' = "pending" /\ imports' = imports + 1
     ELSE UNCHANGED <<apiPromise, imports>>
  /\ UNCHANGED <<selected, intents>>

ImportSettles ==
  /\ apiPromise = "pending"
  /\ apiPromise' \in {"fulfilled", "rejected"}
  /\ UNCHANGED <<imports, selected, call, intents>>

At(w, pc) == call[w].pc = pc
Unshared == UNCHANGED <<apiPromise, imports, selected>>

NoProvider(w) ==
  /\ At(w, "api")
  /\ apiPromise = "fulfilled"
  /\ Throw(w, "ProviderMissing")
  /\ Unshared /\ UNCHANGED intents

\* With an address given nobody is asked to connect.
ApiResolved(w) ==
  /\ At(w, "api")
  /\ apiPromise = "fulfilled"
  /\ LET address == call[w].options.address
     IN call' = [call EXCEPT ![w].address = address,
                             ![w].pc = IF address = None THEN "connect" ELSE "challenge"]
  /\ Unshared /\ UNCHANGED intents

ApiRejected(w) ==
  /\ At(w, "api")
  /\ apiPromise = "rejected"
  /\ Throw(w, "NoClient")
  /\ Unshared /\ UNCHANGED intents

-----------------------------------------------------------------------------
(***************************************************************************)
(* The core client: prompts and requests                                   *)
(***************************************************************************)

\* Mutant: the recovered address is not compared.
RecoveredIsUnchecked(recovered, address) == TRUE

RecoveredIs(recovered, address) == recovered = address

\* The wallet signs with the account it is asked for, or with the one selected.
MaySign(w) == {call[w].address, selected}

Connect(w) ==
  /\ At(w, "connect")
  /\ call' = [call EXCEPT ![w].address = selected, ![w].pc = "challenge"]
  /\ Unshared /\ UNCHANGED intents

\* Rejected, or without an account.
ConnectFails(w) ==
  /\ At(w, "connect")
  /\ \E e \in {ProviderError, "ProviderMissing"} : Throw(w, e)
  /\ Unshared /\ UNCHANGED intents

\* A challenge of the page's own is looked at before the wallet is prompted.
ChallengeExpired(w) ==
  /\ At(w, "challenge")
  /\ call[w].options.challenge = "expired"
  /\ Throw(w, "ChallengeInvalid")
  /\ Unshared /\ UNCHANGED intents

RecoverPublicKey(w) ==
  /\ At(w, "challenge")
  /\ call[w].options.challenge # "expired"
  /\ \E recovered \in MaySign(w) :
       IF RecoveredIs(recovered, call[w].address)
       THEN call' = [call EXCEPT ![w].key = recovered, ![w].pc = "prepare"]
       ELSE Throw(w, "AddressMismatch")
  /\ Unshared /\ UNCHANGED intents

\* Rejected, or signed in a way no key can be recovered from.
ChallengeRejected(w) ==
  /\ At(w, "challenge")
  /\ call[w].options.challenge # "expired"
  /\ \E e \in {ProviderError, "PublicKeyRecoveryFailed"} : Throw(w, e)
  /\ Unshared /\ UNCHANGED intents

Prepare(w) ==
  /\ At(w, "prepare")
  /\ \/ call' = [call EXCEPT ![w].pc = "sign"]
     \/ Throw(w, "IntentRejected")
  /\ Unshared /\ UNCHANGED intents

SignTypedData(w) ==
  /\ At(w, "sign")
  /\ \E signer \in MaySign(w) : call' = [call EXCEPT ![w].signer = signer, ![w].pc = "submit"]
  /\ Unshared /\ UNCHANGED intents

TypedDataRejected(w) ==
  /\ At(w, "sign")
  /\ Throw(w, ProviderError)
  /\ Unshared /\ UNCHANGED intents

\* The node: the signature is the key's, and the key is on the key page.
NodeAdmits(w) ==
  /\ At(w, "submit")
  /\ call[w].signer = call[w].key
  /\ call[w].key \in Bound
  /\ intents' = intents \cup {[wish |-> w, try |-> call[w].try, account |-> call[w].address,
                               key |-> call[w].key, signer |-> call[w].signer]}
  /\ call' = [call EXCEPT ![w].admitted = TRUE, ![w].pc = "answer"]
  /\ Unshared

NodeRefuses(w) ==
  /\ At(w, "submit")
  /\ call' = [call EXCEPT ![w].pc = "answer"]
  /\ Unshared /\ UNCHANGED intents

RequestLost(w) ==
  /\ At(w, "submit")
  /\ Throw(w, ClassifySubmitError(FALSE))
  /\ Unshared /\ UNCHANGED intents

\* What is left to do with an intent whose id is known, or is not.
Then(o, id, waited) ==
  IF o.wait /\ id # None /\ ~waited THEN "wait" ELSE IF o.proof THEN "export" ELSE "done"

\* The node's answer to a submission it admitted, with the intent's id or without.
Submitted(w) ==
  /\ At(w, "answer")
  /\ call[w].admitted
  /\ \E id \in {i \in intents : i.wish = w /\ i.try = call[w].try} \cup {None} :
       call' = [call EXCEPT ![w].intent = id, ![w].pc = Then(call[w].options, id, FALSE)]
  /\ Unshared /\ UNCHANGED intents

\* The answer is a refusal, or does not come back.
SubmitFails(w) ==
  /\ At(w, "answer")
  /\ \E keyPage \in BOOLEAN : Throw(w, ClassifySubmitError(keyPage))
  /\ Unshared /\ UNCHANGED intents

\* waitForCompletion ends, also with an intent that failed or that time ran out
\* for, or one of its requests fails.
Wait(w) ==
  /\ At(w, "wait")
  /\ \/ call' = [call EXCEPT ![w].pc = Then(call[w].options, call[w].intent, TRUE)]
     \/ Throw(w, "NotCompleted")
  /\ Unshared /\ UNCHANGED intents

\* Mutant: the newest evidence is exported.
ExportedAny(w) == intents

Exported(w) == {i \in intents : i = call[w].intent}

ExportProof(w) ==
  /\ At(w, "export")
  /\ call[w].intent # None
  /\ \E i \in Exported(w) : call' = [call EXCEPT ![w].proof = i, ![w].pc = "done"]
  /\ Unshared /\ UNCHANGED intents

\* Without an id, without evidence, or with the answer lost.
ExportFails(w) ==
  /\ At(w, "export")
  /\ Throw(w, IF call[w].intent = None THEN "NothingToExport" ELSE "ProofUnavailable")
  /\ Unshared /\ UNCHANGED intents

\* The user.
SwitchAccount(a) ==
  /\ a # selected
  /\ selected' = a
  /\ UNCHANGED <<apiPromise, imports, call, intents>>

Step(w) ==
  \/ SubmitGovernedIntent(w) \/ ApiResolved(w) \/ ApiRejected(w) \/ NoProvider(w)
  \/ Connect(w) \/ ConnectFails(w)
  \/ ChallengeExpired(w) \/ RecoverPublicKey(w) \/ ChallengeRejected(w)
  \/ Prepare(w) \/ SignTypedData(w) \/ TypedDataRejected(w)
  \/ NodeAdmits(w) \/ NodeRefuses(w) \/ RequestLost(w)
  \/ Submitted(w) \/ SubmitFails(w) \/ Wait(w) \/ ExportProof(w) \/ ExportFails(w)

SubmitNext ==
  \/ \E w \in Wishes : Step(w)
  \/ ImportSettles
  \/ \E a \in Accounts : SwitchAccount(a)

SubmitSpec == SubmitInit /\ [][SubmitNext]_submitVars

-----------------------------------------------------------------------------
(***************************************************************************)
(* Properties                                                              *)
(***************************************************************************)

\* Every admitted intent carries the key of the account its call worked for and
\* was signed by it, whenever the user switched accounts.
SignedByItsAccount ==
  \A i \in intents : i.key = i.account /\ i.signer = i.account /\ i.account \in Bound

\* A result is of an intent this very call had admitted, whose key the node
\* found on the key page, and its proof is that intent's.
ResultNamesItsIntent ==
  \A w \in Wishes : call[w].pc = "done" =>
    /\ \E i \in intents : i.wish = w /\ i.try = call[w].try /\ i.key \in Bound
                          /\ call[w].intent \in {i, None}
    /\ call[w].options.proof => call[w].proof = call[w].intent

\* A call that failed in the import, at the wallet or over the challenge has had
\* nothing admitted: by the cause of an error, though not by its code, a caller
\* knows that another try submits nothing twice.
PromptFailureAdmitsNothing ==
  \A w \in Wishes : call[w].pc = "failed" /\ call[w].cause \in PromptErrors =>
    ~\E i \in intents : i.wish = w /\ i.try = call[w].try

=============================================================================
