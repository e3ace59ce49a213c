--------------------------- MODULE WalletSession ---------------------------
(***************************************************************************)
(* The wallet process of @infrix/wallet: the in-memory key store, the      *)
(* session manager and InfrixWallet itself, driven by an application that  *)
(* keeps several asynchronous calls open at once.                          *)
(*                                                                         *)
(* JavaScript runs one thing at a time but gives way at every await, so    *)
(* one action below is the code between two awaits, and `call` is where    *)
(* each open call is suspended.  Other calls run in between and may change *)
(* what a call read before.                                                *)
(***************************************************************************)
EXTENDS Integers, FiniteSets

CONSTANTS
  Key,        \* public keys; a key pair is identified with its public key
  NoKey,      \* null: no active key
  Task,       \* the calls the application may have open at a time
  Scopes,     \* the scopes the application asks sessions for
  Operations, \* the operations it wants to run under a session
  None,       \* no scope, no operation, no session
  MaxTime,    \* bound on the clock
  MaxDone     \* bound on the operations completed per session

\* SessionScope.  An authority flag is passed as true, as false or not at
\* all.  `never` is an absent expiry; a date that does not parse compares
\* false with every time, so it is `never` too.
never == -1
Flag == {"granted", "denied", "omitted"}
ScopeType ==
  [maxUses : Int, expiresAt : {never} \cup Nat,
   allowIntentSubmit : Flag, allowApproval : Flag,
   allowedGoalTypes : SUBSET STRING, maxGasPerIntent : Nat,
   contracts : SUBSET STRING]

\* The argument of validate.  `subject` is the goal type of an intent or the
\* contract of a call; "" is a parameter the caller left out.
OperationType ==
  [kind : {"intent.submit", "approval.submit", "contract"},
   subject : STRING, gas : Nat]

ASSUME ConstantsAssumption ==
  /\ NoKey \notin Key
  /\ IsFiniteSet(Task)
  /\ Scopes \subseteq ScopeType
  /\ Operations \subseteq OperationType
  /\ None \notin [scope : ScopeType, usesLeft : Nat \cup {-1}]
  /\ None \notin ScopeType
  /\ None \notin OperationType
  /\ MaxTime \in Nat
  /\ MaxDone \in Nat

VARIABLES
  keys,       \* MemoryKeyStore.keys
  activeKey,  \* InfrixWallet.activeKey
  sessions,   \* SessionManager.sessions, None where the map has no entry
  now,        \* the wall clock
  call,       \* where each open call is suspended, and the locals it holds
  posts,      \* the signed messages handed to the node
  \* History, read by no action of the wallet but for the choice of a fresh key:
  issued,     \* keys that exist anywhere
  imported,   \* keys that came in through importKey
  revoked,    \* keys whose session was revoked
  requested,  \* the scope each session was asked for
  done        \* operations completed under each session

store == <<keys, activeKey, sessions>>
history == <<issued, imported, revoked, requested, done>>
vars == <<keys, activeKey, sessions, now, call, posts,
          issued, imported, revoked, requested, done>>

Session == [scope : ScopeType, usesLeft : Nat \cup {-1}]

Pc == {"idle", "generating", "importing", "adopt", "creating", "register",
       "permitted", "sent", "intentSigning", "material", "bound",
       "approvalSigning"}

Idle == [pc |-> "idle", key |-> NoKey, bound |-> NoKey, scope |-> None, op |-> None]

Call == [pc : Pc, key : Key \cup {NoKey}, bound : Key \cup {NoKey},
         scope : Scopes \cup {None}, op : Operations \cup {None}]

Post == [signedBy : Key \cup {NoKey}, bound : Key \cup {NoKey},
         publicKey : Key \cup {NoKey}]

TypeOK ==
  /\ keys \subseteq Key
  /\ activeKey \in Key \cup {NoKey}
  /\ sessions \in [Key -> Session \cup {None}]
  /\ now \in Nat
  /\ call \in [Task -> Call]
  /\ posts \subseteq Post
  /\ issued \subseteq Key
  /\ imported \subseteq Key
  /\ revoked \subseteq Key
  /\ requested \in [Key -> Scopes \cup {None}]
  /\ done \in [Key -> Nat]

Init ==
  /\ keys = {}
  /\ activeKey = NoKey
  /\ sessions = [k \in Key |-> None]
  /\ now = 0
  /\ call = [t \in Task |-> Idle]
  /\ posts = {}
  /\ issued = {}
  /\ imported = {}
  /\ revoked = {}
  /\ requested = [k \in Key |-> None]
  /\ done = [k \in Key |-> 0]

Suspend(t, c) == call' = [call EXCEPT ![t] = c]
Return(t) == Suspend(t, Idle)

-----------------------------------------------------------------------------
(***************************************************************************)
(* Keys                                                                    *)
(***************************************************************************)

GenerateKey(t) ==
  /\ call[t].pc = "idle"
  /\ Suspend(t, [Idle EXCEPT !.pc = "generating"])
  /\ UNCHANGED <<store, now, posts, history>>

\* The generated pair is new: no store anywhere holds it.
KeyPairStored(t, k) ==
  /\ call[t].pc \in {"generating", "creating"}
  /\ k \in Key \ issued
  /\ keys' = keys \cup {k}
  /\ issued' = issued \cup {k}
  /\ Suspend(t, [call[t] EXCEPT !.key = k,
                   !.pc = IF call[t].pc = "generating" THEN "adopt" ELSE "register"])
  /\ UNCHANGED <<activeKey, sessions, now, posts, imported, revoked,
                 requested, done>>

\* Any key may come back from an export, a revoked session's included.
ImportKey(t, k) ==
  /\ call[t].pc = "idle"
  /\ issued' = issued \cup {k}
  /\ Suspend(t, [Idle EXCEPT !.pc = "importing", !.key = k])
  /\ UNCHANGED <<store, now, posts, imported, revoked, requested, done>>

ImportedKeyStored(t) ==
  /\ call[t].pc = "importing"
  /\ keys' = keys \cup {call[t].key}
  /\ imported' = imported \cup {call[t].key}
  /\ Suspend(t, [call[t] EXCEPT !.pc = "adopt"])
  /\ UNCHANGED <<activeKey, sessions, now, posts, issued, revoked,
                 requested, done>>

\* Wrong password or damaged envelope: decryption throws.
ImportRejected(t) ==
  /\ call[t].pc = "importing"
  /\ Return(t)
  /\ UNCHANGED <<store, now, posts, history>>

\* Mutant: no test for a key that is already active.
AdoptKeyAlways(t) ==
  /\ call[t].pc = "adopt"
  /\ activeKey' = call[t].key
  /\ Return(t)
  /\ UNCHANGED <<keys, sessions, now, posts, history>>

\* The wallet's continuation: the first key to get here becomes active.
AdoptKey(t) ==
  /\ call[t].pc = "adopt"
  /\ activeKey' = IF activeKey = NoKey THEN call[t].key ELSE activeKey
  /\ Return(t)
  /\ UNCHANGED <<keys, sessions, now, posts, history>>

-----------------------------------------------------------------------------
(***************************************************************************)
(* Sessions                                                                *)
(***************************************************************************)

CreateSession(t, s) ==
  /\ call[t].pc = "idle"
  /\ Suspend(t, [Idle EXCEPT !.pc = "creating", !.scope = s])
  /\ UNCHANGED <<store, now, posts, history>>

\* Mutant: a limit of zero uses taken for a limit.
NewSessionZeroIsALimit(s) ==
  [scope |-> s, usesLeft |-> IF s.maxUses >= 0 THEN s.maxUses ELSE -1]

\* normalizeScope carries the governance fields verbatim and turns a use
\* limit that is not positive into -1, unlimited.
NewSession(s) ==
  [scope |-> s, usesLeft |-> IF s.maxUses > 0 THEN s.maxUses ELSE -1]

RegisterSession(t) ==
  /\ call[t].pc = "register"
  /\ sessions' = [sessions EXCEPT ![call[t].key] = NewSession(call[t].scope)]
  /\ requested' = [requested EXCEPT ![call[t].key] = call[t].scope]
  /\ Return(t)
  /\ UNCHANGED <<keys, activeKey, now, posts, issued, imported, revoked,
                 done>>

\* Mutant: the key pair stays in the store.
RevokeSessionOnly(k) ==
  /\ sessions[k] # None
  /\ sessions' = [sessions EXCEPT ![k] = None]
  /\ revoked' = revoked \cup {k}
  /\ UNCHANGED <<keys, activeKey, now, call, posts, issued, imported, requested,
                 done>>

\* Mutant: no test that the key is a session's.
RevokeAnyKey(k) ==
  /\ sessions' = [sessions EXCEPT ![k] = None]
  /\ keys' = keys \ {k}
  /\ revoked' = IF sessions[k] # None THEN revoked \cup {k} ELSE revoked
  /\ UNCHANGED <<activeKey, now, call, posts, issued, imported, requested,
                 done>>

\* revokeSession and deleteKey run without an await between them.  The map
\* entry goes first; when the store no longer has the key the call throws,
\* with the session already gone.
RevokeSession(k) ==
  /\ sessions[k] # None
  /\ sessions' = [sessions EXCEPT ![k] = None]
  /\ keys' = keys \ {k}
  /\ revoked' = revoked \cup {k}
  /\ UNCHANGED <<activeKey, now, call, posts, issued, imported, requested,
                 done>>

\* An allow-list binds when it is not empty and the parameter is present.
EnforceAllowedValue(allowed, value) ==
  allowed # {} /\ value # "" => value \in allowed

EnforceGasBudget(budget, gas) == budget > 0 => gas <= budget

Expired(scope) == scope.expiresAt # never /\ now > scope.expiresAt

\* Mutant: the authority flags read as opt-out (`=== false` denies).
ValidateOptOut(sk, op) ==
  /\ ~Expired(sk.scope)
  /\ sk.usesLeft # 0
  /\ op.kind = "intent.submit" => sk.scope.allowIntentSubmit # "denied"
  /\ op.kind = "approval.submit" => sk.scope.allowApproval # "denied"

\* Mutant: expiry and authority are checked, remaining uses are not.
ValidateWithoutUses(sk, op) ==
  /\ ~Expired(sk.scope)
  /\ op.kind = "intent.submit" => sk.scope.allowIntentSubmit = "granted"
  /\ op.kind = "approval.submit" => sk.scope.allowApproval = "granted"

\* validate: each conjunct is one of its throws.
Validate(sk, op) ==
  LET scope == sk.scope IN
  /\ ~Expired(scope)
  /\ sk.usesLeft # 0
  /\ op.kind = "intent.submit" =>
       /\ scope.allowIntentSubmit = "granted"
       /\ EnforceAllowedValue(scope.allowedGoalTypes, op.subject)
       /\ EnforceGasBudget(scope.maxGasPerIntent, op.gas)
  /\ op.kind = "approval.submit" => scope.allowApproval = "granted"
  /\ op.kind = "contract" =>
       (scope.contracts # {} => op.subject \in scope.contracts)

\* The application's side of a session: validate, sign, send, and on success
\* use.  Only validate and use are atomic.
BeginOperation(t, k, op) ==
  /\ call[t].pc = "idle"
  /\ sessions[k] # None
  /\ Validate(sessions[k], op)
  /\ Suspend(t, [Idle EXCEPT !.pc = "permitted", !.key = k, !.op = op])
  /\ UNCHANGED <<store, now, posts, history>>

\* KeyStore.sign looks the key up before its own await and throws when it is
\* gone; past that point the pair is held by the call.
SignOperation(t) ==
  /\ call[t].pc = "permitted"
  /\ IF call[t].key \in keys
     THEN Suspend(t, [call[t] EXCEPT !.pc = "sent"])
     ELSE Return(t)
  /\ UNCHANGED <<store, now, posts, history>>

\* Mutant: unlimited sessions are counted down too.
UseUnlimited(sk) == IF sk # None /\ sk.usesLeft # 0
                    THEN [sk EXCEPT !.usesLeft = @ - 1] ELSE sk

\* SessionManager.use
Use(sk) == IF sk # None /\ sk.usesLeft > 0
           THEN [sk EXCEPT !.usesLeft = @ - 1] ELSE sk

OperationSucceeds(t) ==
  LET k == call[t].key IN
  /\ call[t].pc = "sent"
  /\ done[k] < MaxDone
  /\ sessions' = [sessions EXCEPT ![k] = Use(@)]
  /\ done' = [done EXCEPT ![k] = @ + 1]
  /\ Return(t)
  /\ UNCHANGED <<keys, activeKey, now, posts, issued, imported, revoked, requested>>

OperationFails(t) ==
  /\ call[t].pc = "sent"
  /\ Return(t)
  /\ UNCHANGED <<store, now, posts, history>>

-----------------------------------------------------------------------------
(***************************************************************************)
(* Intents and approvals signed with the active key                        *)
(***************************************************************************)

Send(p) == posts' = posts \cup {p}

\* submitIntent without a key posts the intent unsigned.
SubmitUnsigned(t) ==
  /\ call[t].pc = "idle"
  /\ activeKey = NoKey
  /\ Send([signedBy |-> NoKey, bound |-> NoKey, publicKey |-> NoKey])
  /\ UNCHANGED <<store, now, call, history>>

SubmitIntent(t) ==
  /\ call[t].pc = "idle"
  /\ activeKey # NoKey
  /\ activeKey \in keys
  /\ Suspend(t, [Idle EXCEPT !.pc = "intentSigning", !.key = activeKey,
                   !.bound = activeKey])
  /\ UNCHANGED <<store, now, posts, history>>

\* params.publicKey is read from this.activeKey after the await.
PostIntent(t) ==
  /\ call[t].pc = "intentSigning"
  /\ Send([signedBy |-> call[t].key, bound |-> call[t].bound, publicKey |-> activeKey])
  /\ Return(t)
  /\ UNCHANGED <<store, now, history>>

SignApproval(t) ==
  /\ call[t].pc = "idle"
  /\ activeKey # NoKey
  /\ Suspend(t, [Idle EXCEPT !.pc = "material"])
  /\ UNCHANGED <<store, now, posts, history>>

\* The node's signing material names this wallet and carries the digest of
\* its own fields: bind the active key as it is now.
BindMaterial(t) ==
  /\ call[t].pc = "material"
  /\ Suspend(t, [call[t] EXCEPT !.pc = "bound", !.bound = activeKey])
  /\ UNCHANGED <<store, now, posts, history>>

\* Another identity, a digest that does not derive, no key page: refuse.
RefuseMaterial(t) ==
  /\ call[t].pc = "material"
  /\ Return(t)
  /\ UNCHANGED <<store, now, posts, history>>

\* keyStore.sign(this.activeKey, preimage): activeKey is read again.
SignBound(t) ==
  /\ call[t].pc = "bound"
  /\ IF activeKey \in keys
     THEN Suspend(t, [call[t] EXCEPT !.pc = "approvalSigning", !.key = activeKey])
     ELSE Return(t)
  /\ UNCHANGED <<store, now, posts, history>>

\* signerPublicKey: toHex(this.activeKey), read a fourth time.
PostApproval(t) ==
  /\ call[t].pc = "approvalSigning"
  /\ Send([signedBy |-> call[t].key, bound |-> call[t].bound, publicKey |-> activeKey])
  /\ Return(t)
  /\ UNCHANGED <<store, now, history>>

Tick ==
  /\ now < MaxTime
  /\ now' = now + 1
  /\ UNCHANGED <<store, call, posts, history>>

-----------------------------------------------------------------------------
KeyStep(t) ==
  \/ GenerateKey(t) \/ ImportedKeyStored(t) \/ ImportRejected(t) \/ AdoptKey(t)
  \/ \E k \in Key : KeyPairStored(t, k) \/ ImportKey(t, k)

SessionStep(t) ==
  \/ \E s \in Scopes : CreateSession(t, s)
  \/ RegisterSession(t)
  \/ \E k \in Key, op \in Operations : BeginOperation(t, k, op)
  \/ SignOperation(t) \/ OperationSucceeds(t) \/ OperationFails(t)

ActiveKeyStep(t) ==
  \/ SubmitUnsigned(t) \/ SubmitIntent(t) \/ PostIntent(t)
  \/ SignApproval(t) \/ BindMaterial(t) \/ RefuseMaterial(t)
  \/ SignBound(t) \/ PostApproval(t)

Next ==
  \/ \E t \in Task : KeyStep(t) \/ SessionStep(t) \/ ActiveKeyStep(t)
  \/ \E k \in Key : RevokeSession(k)
  \/ Tick

Spec == Init /\ [][Next]_vars

-----------------------------------------------------------------------------
(***************************************************************************)
(* Properties                                                              *)
(***************************************************************************)

Limited(k) == requested[k] # None /\ requested[k].maxUses > 0

InFlight(k) == {t \in Task : call[t].pc \in {"permitted", "sent"} /\ call[t].key = k}

\* The counter of a live session is the limit it was created with less the
\* operations that completed, never below zero; and a limited session never
\* turns into an unlimited one (-1), nor the other way round, whatever the
\* order in which calls to use interleave with everything else.
UsesAccounted ==
  \A k \in Key : sessions[k] # None =>
    sessions[k].usesLeft =
      IF ~Limited(k) THEN -1
      ELSE IF done[k] < requested[k].maxUses THEN requested[k].maxUses - done[k] ELSE 0

\* validate and use are two calls, so a limited session can run more
\* operations than its limit, but only by those that were already validated
\* when the last use was spent: at most one per other open call.
OvershootBounded ==
  \A k \in Key : Limited(k) =>
    done[k] + Cardinality(InFlight(k)) <= requested[k].maxUses + Cardinality(Task) - 1

\* What session.ts says of maxUses, "Maximum number of operations".
MaxUsesRespected ==
  \A k \in Key : Limited(k) => done[k] <= requested[k].maxUses

\* The scope grants the operation, for that goal type and that gas budget.
Granted(s, op) ==
  /\ op.kind = "intent.submit" =>
       /\ s.allowIntentSubmit = "granted"
       /\ s.allowedGoalTypes = {} \/ op.subject \in s.allowedGoalTypes \cup {""}
       /\ s.maxGasPerIntent = 0 \/ op.gas <= s.maxGasPerIntent
  /\ op.kind = "approval.submit" => s.allowApproval = "granted"

\* Governance authority is opt-in: an intent or an approval is under way with a
\* session's key only if the scope the application asked for granted it, however
\* long ago it was validated and whatever became of the session since.
AuthorityWasGranted ==
  \A t \in Task : call[t].pc \in {"permitted", "sent"} =>
    Granted(requested[call[t].key], call[t].op)

\* A call that was validated before its session was revoked cannot begin to
\* sign afterwards: revocation takes the key with it, and only an import of
\* that key brings it back.
RevokedKeyNeverSigns ==
  [][\A t \in Task :
       call[t].pc = "permitted" /\ call'[t].pc = "sent" /\ call[t].key \in revoked
         => call[t].key \in imported]_vars

\* Every message handed to the node names the key that signed it, and an
\* approval's preimage names that key too, although the wallet reads
\* this.activeKey again after every await.
PostsNameTheirSigner ==
  \A p \in posts : p.signedBy = p.publicKey /\ p.bound = p.publicKey

\* The wallet loses the key it signs with only when the key was also a
\* session's (an imported export) and that session was revoked.
ActiveKeyLostOnlyByRevocation ==
  activeKey # NoKey => activeKey \in keys \/ activeKey \in revoked

=============================================================================
