------------------------ MODULE WalletSessionProofs ------------------------
(***************************************************************************)
(* The properties of WalletSession for every set of keys, tasks, scopes    *)
(* and operations.  TypeOK, then four invariants that each carry one part  *)
(* of the argument: where keys come from, what the suspended calls know of *)
(* the active key, what they know of sessions, and how many are in flight. *)
(***************************************************************************)
EXTENDS WalletSession, FiniteSetTheorems, TLAPS

USE DEF never

-----------------------------------------------------------------------------
(***************************************************************************)
(* Typing                                                                  *)
(***************************************************************************)

LEMMA ScopeFacts ==
  ASSUME NEW s \in Scopes
  PROVE  s \in ScopeType /\ s # None /\ s.maxUses \in Int
BY ConstantsAssumption DEF ScopeType

LEMMA NewSessionType ==
  ASSUME NEW s \in Scopes
  PROVE  NewSession(s) \in Session /\ NewSession(s) # None
<1>1. NewSession(s) \in Session
  BY ScopeFacts DEF NewSession, Session
<1> QED BY <1>1, ConstantsAssumption DEF Session

LEMMA UseType ==
  ASSUME NEW sk \in Session \cup {None}
  PROVE  /\ Use(sk) \in Session \cup {None}
         /\ Use(sk) = None <=> sk = None
         /\ sk # None => Use(sk).scope = sk.scope
<1>1. CASE sk # None /\ sk.usesLeft > 0
  <2>1. /\ Use(sk) \in Session
        /\ Use(sk).scope = sk.scope
    BY <1>1 DEF Use, Session
  <2> QED BY <2>1, <1>1, ConstantsAssumption DEF Session
<1>2. CASE ~(sk # None /\ sk.usesLeft > 0)
  BY <1>2 DEF Use
<1> QED BY <1>1, <1>2

LEMMA IdleType == Idle \in Call
BY DEF Idle, Call, Pc

\* What the suspended calls hold: a key, a scope, an operation, where the
\* next step uses one.
LocalsOK ==
  \A t \in Task :
    /\ call[t].pc \in {"importing", "adopt", "register", "permitted", "sent"}
         => call[t].key \in Key
    /\ call[t].pc \in {"creating", "register"} => call[t].scope \in Scopes
    /\ call[t].pc \in {"permitted", "sent"} => call[t].op \in Operations

LEMMA TypeInit == Init => TypeOK /\ LocalsOK
BY IdleType DEF Init, TypeOK, LocalsOK, Idle

LEMMA TypeStep == TypeOK /\ LocalsOK /\ [Next]_vars => TypeOK' /\ LocalsOK'
<1> SUFFICES ASSUME TypeOK, LocalsOK, [Next]_vars PROVE TypeOK' /\ LocalsOK'
  OBVIOUS
<1> USE DEF TypeOK, Suspend, Return, store, history
<1> DEFINE Local(c) ==
      /\ c.pc \in {"importing", "adopt", "register", "permitted", "sent"} => c.key \in Key
      /\ c.pc \in {"creating", "register"} => c.scope \in Scopes
      /\ c.pc \in {"permitted", "sent"} => c.op \in Operations
<1>a. \A u \in Task : Local(call[u]) /\ call[u] \in Call
  BY DEF LocalsOK
<1>b. ASSUME NEW t \in Task, NEW c \in Call, Local(c), Suspend(t, c)
      PROVE  call' \in [Task -> Call] /\ LocalsOK'
  BY <1>a, <1>b DEF LocalsOK
<1>c. Idle \in Call /\ Local(Idle)
  BY IdleType DEF Idle
<1> HIDE DEF Suspend, Local
<1>d. ASSUME NEW t \in Task, Return(t) PROVE call' \in [Task -> Call] /\ LocalsOK'
  BY <1>b, <1>c, <1>d
<1>e. ASSUME UNCHANGED call PROVE LocalsOK'
  BY <1>e DEF LocalsOK
<1>1. ASSUME NEW t \in Task, KeyStep(t) PROVE TypeOK' /\ LocalsOK'
  <2>1. CASE GenerateKey(t)
    <3> DEFINE c == [Idle EXCEPT !.pc = "generating"]
    <3>1. c \in Call /\ Local(c)
      BY DEF Idle, Call, Pc, Local
    <3>2. Suspend(t, c)
      BY <2>1 DEF GenerateKey
    <3> QED BY <2>1, <3>1, <3>2, <1>b DEF GenerateKey
  <2>2. ASSUME NEW k \in Key, KeyPairStored(t, k) PROVE TypeOK' /\ LocalsOK'
    <3> DEFINE c == [call[t] EXCEPT !.key = k,
                       !.pc = IF call[t].pc = "generating" THEN "adopt" ELSE "register"]
    <3>1. c \in Call /\ Local(c)
      BY ZenonT(60), <2>2, <1>a DEF KeyPairStored, Call, Pc, Local
    <3>2. Suspend(t, c)
      BY <2>2 DEF KeyPairStored
    <3> QED BY <2>2, <3>1, <3>2, <1>b DEF KeyPairStored
  <2>3. ASSUME NEW k \in Key, ImportKey(t, k) PROVE TypeOK' /\ LocalsOK'
    <3> DEFINE c == [Idle EXCEPT !.pc = "importing", !.key = k]
    <3>1. c \in Call /\ Local(c)
      BY DEF Idle, Call, Pc, Local
    <3>2. Suspend(t, c)
      BY <2>3 DEF ImportKey
    <3> QED BY <2>3, <3>1, <3>2, <1>b DEF ImportKey
  <2>4. CASE ImportedKeyStored(t)
    <3> DEFINE c == [call[t] EXCEPT !.pc = "adopt"]
    <3>1. c \in Call /\ Local(c) /\ call[t].key \in Key
      BY <2>4, <1>a DEF ImportedKeyStored, Call, Pc, Local
    <3>2. Suspend(t, c)
      BY <2>4 DEF ImportedKeyStored
    <3> QED BY <2>4, <3>1, <3>2, <1>b DEF ImportedKeyStored
  <2>5. CASE ImportRejected(t)
    BY <2>5, <1>d DEF ImportRejected
  <2>6. CASE AdoptKey(t)
    <3>1. call[t].key \in Key
      BY <2>6, <1>a DEF AdoptKey, Local
    <3> QED BY <2>6, <3>1, <1>d DEF AdoptKey
  <2> QED BY <1>1, <2>1, <2>2, <2>3, <2>4, <2>5, <2>6 DEF KeyStep
<1>2. ASSUME NEW t \in Task, SessionStep(t) PROVE TypeOK' /\ LocalsOK'
  <2>1. ASSUME NEW s \in Scopes, CreateSession(t, s) PROVE TypeOK' /\ LocalsOK'
    <3> DEFINE c == [Idle EXCEPT !.pc = "creating", !.scope = s]
    <3>1. c \in Call /\ Local(c)
      BY DEF Idle, Call, Pc, Local
    <3>2. Suspend(t, c)
      BY <2>1 DEF CreateSession
    <3> QED BY <2>1, <3>1, <3>2, <1>b DEF CreateSession
  <2>2. CASE RegisterSession(t)
    <3>1. call[t].key \in Key /\ call[t].scope \in Scopes
      BY <2>2, <1>a DEF RegisterSession, Local
    <3> QED BY <2>2, <3>1, NewSessionType, <1>d DEF RegisterSession
  <2>3. ASSUME NEW k \in Key, NEW op \in Operations, BeginOperation(t, k, op)
        PROVE  TypeOK' /\ LocalsOK'
    <3> DEFINE c == [Idle EXCEPT !.pc = "permitted", !.key = k, !.op = op]
    <3>1. c \in Call /\ Local(c)
      BY DEF Idle, Call, Pc, Local
    <3>2. Suspend(t, c)
      BY <2>3 DEF BeginOperation
    <3> QED BY <2>3, <3>1, <3>2, <1>b DEF BeginOperation
  <2>4. CASE SignOperation(t)
    <3> DEFINE c == [call[t] EXCEPT !.pc = "sent"]
    <3>1. c \in Call /\ Local(c)
      BY <2>4, <1>a DEF SignOperation, Call, Pc, Local
    <3>2. Suspend(t, c) \/ Return(t)
      BY <2>4 DEF SignOperation
    <3> QED BY <2>4, <3>1, <3>2, <1>b, <1>d DEF SignOperation
  <2>5. CASE OperationSucceeds(t)
    <3>1. call[t].key \in Key
      BY <2>5, <1>a DEF OperationSucceeds, Local
    <3>2. /\ sessions' \in [Key -> Session \cup {None}]
          /\ done' \in [Key -> Nat]
      BY <2>5, <3>1, UseType DEF OperationSucceeds
    <3> QED BY <2>5, <3>2, <1>d DEF OperationSucceeds
  <2>6. CASE OperationFails(t)
    BY <2>6, <1>d DEF OperationFails
  <2> QED BY <1>2, <2>1, <2>2, <2>3, <2>4, <2>5, <2>6 DEF SessionStep
<1>3. ASSUME NEW t \in Task, ActiveKeyStep(t) PROVE TypeOK' /\ LocalsOK'
  <2>1. CASE SubmitUnsigned(t)
    BY <2>1, <1>e DEF SubmitUnsigned, Send, Post
  <2>2. CASE SubmitIntent(t)
    <3> DEFINE c == [Idle EXCEPT !.pc = "intentSigning", !.key = activeKey, !.bound = activeKey]
    <3>1. c \in Call /\ Local(c)
      BY DEF Idle, Call, Pc, Local
    <3>2. Suspend(t, c)
      BY <2>2 DEF SubmitIntent
    <3> QED BY <2>2, <3>1, <3>2, <1>b DEF SubmitIntent
  <2>3. CASE PostIntent(t) \/ PostApproval(t)
    <3>1. posts' \subseteq Post
      BY <2>3, <1>a DEF PostIntent, PostApproval, Send, Post, Call
    <3> QED BY <2>3, <3>1, <1>d DEF PostIntent, PostApproval
  <2>4. CASE SignApproval(t)
    <3> DEFINE c == [Idle EXCEPT !.pc = "material"]
    <3>1. c \in Call /\ Local(c)
      BY DEF Idle, Call, Pc, Local
    <3>2. Suspend(t, c)
      BY <2>4 DEF SignApproval
    <3> QED BY <2>4, <3>1, <3>2, <1>b DEF SignApproval
  <2>5. CASE BindMaterial(t)
    <3> DEFINE c == [call[t] EXCEPT !.pc = "bound", !.bound = activeKey]
    <3>1. c \in Call /\ Local(c)
      BY <1>a DEF Call, Pc, Local
    <3>2. Suspend(t, c)
      BY <2>5 DEF BindMaterial
    <3> QED BY <2>5, <3>1, <3>2, <1>b DEF BindMaterial
  <2>6. CASE RefuseMaterial(t)
    BY <2>6, <1>d DEF RefuseMaterial
  <2>7. CASE SignBound(t)
    <3> DEFINE c == [call[t] EXCEPT !.pc = "approvalSigning", !.key = activeKey]
    <3>1. c \in Call /\ Local(c)
      BY <1>a DEF Call, Pc, Local
    <3>2. Suspend(t, c) \/ Return(t)
      BY <2>7 DEF SignBound
    <3> QED BY <2>7, <3>1, <3>2, <1>b, <1>d DEF SignBound
  <2> QED BY <1>3, <2>1, <2>2, <2>3, <2>4, <2>5, <2>6, <2>7 DEF ActiveKeyStep
<1>4. ASSUME NEW k \in Key, RevokeSession(k) PROVE TypeOK' /\ LocalsOK'
  BY <1>4, <1>e DEF RevokeSession
<1>5. CASE Tick
  BY <1>5, <1>e DEF Tick
<1>6. CASE UNCHANGED vars
  BY <1>6, <1>e DEF vars
<1> QED BY <1>1, <1>2, <1>3, <1>4, <1>5, <1>6 DEF Next

\* Every variable of the wallet process keeps its type: in particular the use
\* counter of a session is -1 or a natural, whatever the calls to use.
THEOREM TypeCorrect == Spec => [](TypeOK /\ LocalsOK)
BY TypeInit, TypeStep, PTL DEF Spec

\* A step on the active key moves its own call, among these places, and
\* changes nothing of the wallet.
LEMMA ActiveKeyStepShape ==
  ASSUME TypeOK, NEW t \in Task, ActiveKeyStep(t)
  PROVE  \E c : /\ c.pc \in {"idle", "intentSigning", "material", "bound", "approvalSigning"}
                /\ Suspend(t, c)
                /\ UNCHANGED <<store, now, history>>
<1> USE DEF TypeOK, Return
<1>5. PostIntent(t) \/ RefuseMaterial(t) \/ PostApproval(t) => Suspend(t, Idle)
  BY DEF PostIntent, RefuseMaterial, PostApproval
<1>6. SubmitUnsigned(t) => Suspend(t, call[t]) /\ call[t].pc = "idle"
  BY DEF SubmitUnsigned, Suspend
<1>7. Idle.pc = "idle"
  BY DEF Idle
<1>8. UNCHANGED <<store, now, history>>
  BY DEF ActiveKeyStep, SubmitUnsigned, SubmitIntent, PostIntent, SignApproval, BindMaterial,
         RefuseMaterial, SignBound, PostApproval
<1>9. ASSUME NEW c, c.pc \in {"idle", "intentSigning", "material", "bound", "approvalSigning"},
             Suspend(t, c)
      PROVE  \E d : /\ d.pc \in {"idle", "intentSigning", "material", "bound", "approvalSigning"}
                    /\ Suspend(t, d)
                    /\ UNCHANGED <<store, now, history>>
  BY <1>8, <1>9
<1>10. CASE SubmitIntent(t)
  <2> DEFINE c == [Idle EXCEPT !.pc = "intentSigning", !.key = activeKey, !.bound = activeKey]
  <2>1. c.pc = "intentSigning"
    BY DEF Idle
  <2>2. Suspend(t, c)
    BY <1>10 DEF SubmitIntent
  <2> HIDE DEF c
  <2> QED BY <2>1, <2>2, <1>9
<1>11. CASE SignApproval(t)
  <2> DEFINE c == [Idle EXCEPT !.pc = "material"]
  <2>1. c.pc = "material"
    BY DEF Idle
  <2>2. Suspend(t, c)
    BY <1>11 DEF SignApproval
  <2> HIDE DEF c
  <2> QED BY <2>1, <2>2, <1>9
<1>12. CASE BindMaterial(t)
  <2> DEFINE c == [call[t] EXCEPT !.pc = "bound", !.bound = activeKey]
  <2>1. c.pc = "bound"
    BY DEF Call
  <2>2. Suspend(t, c)
    BY <1>12 DEF BindMaterial
  <2> HIDE DEF c
  <2> QED BY <2>1, <2>2, <1>9
<1>13. CASE SignBound(t)
  <2> DEFINE c == [call[t] EXCEPT !.pc = "approvalSigning", !.key = activeKey]
  <2>1. c.pc = "approvalSigning"
    BY DEF Call
  <2>2. Suspend(t, c) \/ Suspend(t, Idle)
    BY <1>13 DEF SignBound
  <2> HIDE DEF c
  <2> QED BY <2>1, <2>2, <1>7, <1>9
<1>14. CASE SubmitUnsigned(t) \/ PostIntent(t) \/ RefuseMaterial(t) \/ PostApproval(t)
  BY <1>14, <1>5, <1>6, <1>7, <1>9
<1> QED BY <1>10, <1>11, <1>12, <1>13, <1>14 DEF ActiveKeyStep

-----------------------------------------------------------------------------
(***************************************************************************)
(* Where keys come from                                                    *)
(***************************************************************************)

\* A revoked key in the store was imported; a key about to be adopted is in
\* the store unless a revocation took it; keys with a session, revoked or not,
\* are known.
KeyInv ==
  /\ revoked \subseteq issued
  /\ revoked \cap keys \subseteq imported
  /\ \A k \in Key : sessions[k] # None => k \in issued
  /\ \A t \in Task : call[t].pc \in {"adopt", "register"} => call[t].key \in keys \cup revoked
  /\ keys \subseteq issued
  /\ \A t \in Task : call[t].pc = "importing" => call[t].key \in issued
  /\ ActiveKeyLostOnlyByRevocation

THEOREM KeysCorrect == Spec => []KeyInv
<1>1. Init => KeyInv
  BY DEF Init, KeyInv, ActiveKeyLostOnlyByRevocation, Idle
<1>2. TypeOK /\ LocalsOK /\ KeyInv /\ [Next]_vars => KeyInv'
  <2> SUFFICES ASSUME TypeOK, LocalsOK, KeyInv, [Next]_vars PROVE KeyInv'
    OBVIOUS
  <2> USE DEF TypeOK, LocalsOK, KeyInv, ActiveKeyLostOnlyByRevocation,
              Suspend, Return, Idle, store, history
  <2>1. ASSUME NEW t \in Task, KeyStep(t) PROVE KeyInv'
    <3>1. CASE GenerateKey(t) \/ ImportRejected(t)
      BY <3>1 DEF GenerateKey, ImportRejected
    <3>2. ASSUME NEW k \in Key, KeyPairStored(t, k) PROVE KeyInv'
      BY <3>2 DEF KeyPairStored, Call
    <3>3. ASSUME NEW k \in Key, ImportKey(t, k) PROVE KeyInv'
      BY <3>3 DEF ImportKey
    <3>4. CASE ImportedKeyStored(t)
      BY <3>4 DEF ImportedKeyStored, Call
    <3>5. CASE AdoptKey(t)
      BY <3>5 DEF AdoptKey
    <3> QED BY <2>1, <3>1, <3>2, <3>3, <3>4, <3>5 DEF KeyStep
  <2>2. ASSUME NEW t \in Task, SessionStep(t) PROVE KeyInv'
    <3>1. ASSUME NEW s \in Scopes, CreateSession(t, s) PROVE KeyInv'
      BY <3>1 DEF CreateSession
    <3>2. CASE RegisterSession(t)
      BY <3>2, NewSessionType DEF RegisterSession
    <3>3. ASSUME NEW k \in Key, NEW op \in Operations, BeginOperation(t, k, op) PROVE KeyInv'
      BY <3>3 DEF BeginOperation
    <3>4. CASE SignOperation(t) \/ OperationFails(t)
      BY <3>4 DEF SignOperation, OperationFails, Call
    <3>5. CASE OperationSucceeds(t)
      BY <3>5, UseType DEF OperationSucceeds
    <3> QED BY <2>2, <3>1, <3>2, <3>3, <3>4, <3>5 DEF SessionStep
  <2>3. ASSUME NEW t \in Task, ActiveKeyStep(t) PROVE KeyInv'
    <3>1. PICK c : /\ c.pc \in {"idle", "intentSigning", "material", "bound", "approvalSigning"}
                   /\ Suspend(t, c)
                   /\ UNCHANGED <<store, now, history>>
      BY <2>3, ActiveKeyStepShape
    <3> QED BY <3>1
  <2>4. ASSUME NEW k \in Key, RevokeSession(k) PROVE KeyInv'
    BY <2>4 DEF RevokeSession
  <2>5. CASE Tick \/ UNCHANGED vars
    BY <2>5 DEF Tick, vars
  <2> QED BY <2>1, <2>2, <2>3, <2>4, <2>5 DEF Next
<1> QED BY <1>1, <1>2, TypeCorrect, PTL DEF Spec

\* The wallet keeps the key it signs with, or a revocation of a session on
\* that very key took it.
THEOREM ActiveKeyKept == Spec => []ActiveKeyLostOnlyByRevocation
<1>1. KeyInv => ActiveKeyLostOnlyByRevocation
  BY DEF KeyInv
<1> QED BY <1>1, KeysCorrect, PTL

\* Nothing validated before a revocation begins to sign after it, unless the
\* revoked key came back by an import.
THEOREM RevocationStopsSigning == Spec => RevokedKeyNeverSigns
<1> DEFINE Begins(t) ==
      call[t].pc = "permitted" /\ call'[t].pc = "sent" /\ call[t].key \in revoked
<1>1. TypeOK /\ KeyInv /\ [Next]_vars
        => [\A t \in Task : Begins(t) => call[t].key \in imported]_vars
  <2> SUFFICES ASSUME TypeOK, KeyInv, Next, NEW t \in Task, Begins(t)
               PROVE  call[t].key \in imported
    OBVIOUS
  <2> USE DEF TypeOK, KeyInv, Suspend, Return, Idle, store, history
  <2>1. SignOperation(t)
    <3>1. ASSUME NEW u \in Task, KeyStep(u) PROVE FALSE
      BY <3>1 DEF KeyStep, GenerateKey, KeyPairStored, ImportKey, ImportedKeyStored,
                  ImportRejected, AdoptKey, Call
    <3>2. ASSUME NEW u \in Task, SessionStep(u) PROVE SignOperation(t)
      BY <3>2 DEF SessionStep, CreateSession, RegisterSession, BeginOperation,
                  SignOperation, OperationSucceeds, OperationFails, Call
    <3>3. ASSUME NEW u \in Task, ActiveKeyStep(u) PROVE FALSE
      BY <3>3 DEF ActiveKeyStep, SubmitUnsigned, SubmitIntent, PostIntent, SignApproval,
                  BindMaterial, RefuseMaterial, SignBound, PostApproval, Call
    <3>4. ASSUME NEW k \in Key, RevokeSession(k) PROVE FALSE
      BY <3>4 DEF RevokeSession
    <3>5. CASE Tick
      BY <3>5 DEF Tick
    <3> QED BY <3>1, <3>2, <3>3, <3>4, <3>5 DEF Next
  <2>2. call[t].key \in keys
    BY <2>1 DEF SignOperation
  <2> QED BY <2>2
<1> QED BY <1>1, TypeCorrect, KeysCorrect, PTL DEF Spec, RevokedKeyNeverSigns

-----------------------------------------------------------------------------
(***************************************************************************)
(* The key a message is signed with                                        *)
(***************************************************************************)

\* Once the wallet has an active key it keeps naming it, so what a call read
\* of it before an await is what the call reads after.
SignerInv ==
  /\ PostsNameTheirSigner
  /\ \A t \in Task :
       /\ call[t].pc \in {"intentSigning", "approvalSigning"}
            => call[t].key = activeKey /\ call[t].bound = activeKey
       /\ call[t].pc = "bound" => call[t].bound = activeKey
       /\ call[t].pc \in {"intentSigning", "material", "bound", "approvalSigning"}
            => activeKey # NoKey

LEMMA SignersCorrect == Spec => []SignerInv
<1>1. Init => SignerInv
  BY DEF Init, SignerInv, PostsNameTheirSigner, Idle
<1>2. TypeOK /\ LocalsOK /\ SignerInv /\ [Next]_vars => SignerInv'
  <2> SUFFICES ASSUME TypeOK, LocalsOK, SignerInv, [Next]_vars PROVE SignerInv'
    OBVIOUS
  <2> USE DEF TypeOK, LocalsOK, SignerInv, PostsNameTheirSigner,
              Suspend, Return, Idle, store, history
  <2>1. ASSUME NEW t \in Task, KeyStep(t) PROVE SignerInv'
    <3>1. CASE GenerateKey(t) \/ ImportRejected(t)
      BY <3>1 DEF GenerateKey, ImportRejected
    <3>2. ASSUME NEW k \in Key, KeyPairStored(t, k) PROVE SignerInv'
      BY <3>2 DEF KeyPairStored, Call
    <3>3. ASSUME NEW k \in Key, ImportKey(t, k) PROVE SignerInv'
      BY <3>3 DEF ImportKey
    <3>4. CASE ImportedKeyStored(t)
      BY <3>4 DEF ImportedKeyStored, Call
    <3>5. CASE AdoptKey(t)
      BY <3>5 DEF AdoptKey
    <3> QED BY <2>1, <3>1, <3>2, <3>3, <3>4, <3>5 DEF KeyStep
  <2>2. ASSUME NEW t \in Task, SessionStep(t) PROVE SignerInv'
    <3>1. ASSUME NEW s \in Scopes, CreateSession(t, s) PROVE SignerInv'
      BY <3>1 DEF CreateSession
    <3>2. CASE RegisterSession(t)
      BY <3>2 DEF RegisterSession
    <3>3. ASSUME NEW k \in Key, NEW op \in Operations, BeginOperation(t, k, op) PROVE SignerInv'
      BY <3>3 DEF BeginOperation
    <3>4. CASE SignOperation(t) \/ OperationFails(t)
      BY <3>4 DEF SignOperation, OperationFails, Call
    <3>5. CASE OperationSucceeds(t)
      BY <3>5 DEF OperationSucceeds
    <3> QED BY <2>2, <3>1, <3>2, <3>3, <3>4, <3>5 DEF SessionStep
  <2>3. ASSUME NEW t \in Task, ActiveKeyStep(t) PROVE SignerInv'
    <3>1. CASE SubmitUnsigned(t)
      BY <3>1 DEF SubmitUnsigned, Send
    <3>2. CASE SubmitIntent(t)
      BY <3>2 DEF SubmitIntent
    <3>3. CASE PostIntent(t)
      BY <3>3 DEF PostIntent, Send
    <3>4. CASE SignApproval(t)
      BY <3>4 DEF SignApproval
    <3>5. CASE BindMaterial(t)
      BY <3>5 DEF BindMaterial, Call
    <3>6. CASE RefuseMaterial(t)
      BY <3>6 DEF RefuseMaterial
    <3>7. CASE SignBound(t)
      <4>1. SUFFICES ASSUME activeKey \in keys PROVE SignerInv'
        BY <3>7 DEF SignBound
      <4>2. call' = [call EXCEPT ![t] = [call[t] EXCEPT !.pc = "approvalSigning", !.key = activeKey]]
        BY <3>7, <4>1 DEF SignBound
      <4>3. call[t].pc = "bound" /\ call[t].bound = activeKey /\ activeKey # NoKey
            /\ UNCHANGED <<activeKey, posts>>
        BY <3>7 DEF SignBound
      <4> QED BY <4>2, <4>3 DEF Call
    <3>8. CASE PostApproval(t)
      BY <3>8 DEF PostApproval, Send
    <3> QED BY <2>3, <3>1, <3>2, <3>3, <3>4, <3>5, <3>6, <3>7, <3>8 DEF ActiveKeyStep
  <2>4. ASSUME NEW k \in Key, RevokeSession(k) PROVE SignerInv'
    BY <2>4 DEF RevokeSession
  <2>5. CASE Tick \/ UNCHANGED vars
    BY <2>5 DEF Tick, vars
  <2> QED BY <2>1, <2>2, <2>3, <2>4, <2>5 DEF Next
<1> QED BY <1>1, <1>2, TypeCorrect, PTL DEF Spec

\* Every message handed to the node was signed by the key it names, although
\* the wallet reads this.activeKey anew after every await (wallet.ts:369-438).
THEOREM SignerNamed == Spec => []PostsNameTheirSigner
<1>1. SignerInv => PostsNameTheirSigner
  BY DEF SignerInv
<1> QED BY <1>1, SignersCorrect, PTL

-----------------------------------------------------------------------------
(***************************************************************************)
(* Sessions and their uses                                                 *)
(***************************************************************************)

\* A session's scope is the one asked for; a key registers once; a call under
\* a session is under one that was registered.
SessionInv ==
  /\ \A k \in Key :
       /\ requested[k] = None => sessions[k] = None /\ done[k] = 0
       /\ sessions[k] # None => sessions[k].scope = requested[k]
       /\ requested[k] # None => k \in issued
  /\ \A t \in Task :
       /\ call[t].pc = "register" => requested[call[t].key] = None /\ call[t].key \in issued
       /\ call[t].pc \in {"permitted", "sent"} => requested[call[t].key] # None
  /\ \A t, u \in Task :
       t # u /\ call[t].pc = "register" /\ call[u].pc = "register" => call[t].key # call[u].key
  /\ UsesAccounted
  /\ AuthorityWasGranted

LEMMA SessionInit == Init => SessionInv
<1> SUFFICES ASSUME Init PROVE SessionInv
  OBVIOUS
<1>1. \A k \in Key : sessions[k] = None /\ requested[k] = None /\ done[k] = 0
  BY DEF Init
<1>2. \A t \in Task : call[t].pc = "idle"
  BY DEF Init, Idle
<1> QED BY <1>1, <1>2 DEF SessionInv, UsesAccounted, AuthorityWasGranted

\* The part of a step that only moves one call to a place SessionInv is silent about.
LEMMA SessionFrame ==
  ASSUME TypeOK, SessionInv, NEW t \in Task, NEW c,
         c.pc \notin {"register", "permitted", "sent"}, Suspend(t, c),
         UNCHANGED <<sessions, issued, requested, done>>
  PROVE  SessionInv'
BY DEF TypeOK, SessionInv, UsesAccounted, Limited, AuthorityWasGranted, Suspend

LEMMA SessionStepInv ==
  TypeOK /\ LocalsOK /\ SessionInv /\ [Next]_vars => SessionInv'
<1> SUFFICES ASSUME TypeOK, LocalsOK, SessionInv, [Next]_vars PROVE SessionInv'
  OBVIOUS
<1> USE DEF store, history, Return
<1>1. ASSUME NEW t \in Task, KeyStep(t) PROVE SessionInv'
  <2>1. CASE GenerateKey(t)
    BY <2>1, SessionFrame DEF GenerateKey, Idle
  <2>2. ASSUME NEW k \in Key, KeyPairStored(t, k) PROVE SessionInv'
    <3> DEFINE c == [call[t] EXCEPT !.key = k,
                       !.pc = IF call[t].pc = "generating" THEN "adopt" ELSE "register"]
    <3>1. /\ c.pc \in {"adopt", "register"} /\ c.key = k
          /\ call' = [call EXCEPT ![t] = c]
      <4>1. c.pc \in {"adopt", "register"} /\ c.key = k
        BY DEF TypeOK, Call
      <4> QED BY <4>1, <2>2 DEF KeyPairStored, Suspend
    <3> HIDE DEF c
    <3>2. /\ UNCHANGED <<sessions, requested, done>>
          /\ issued' = issued \cup {k}
          /\ k \notin issued
          /\ requested[k] = None
      BY <2>2 DEF KeyPairStored, SessionInv
    <3>3. UsesAccounted' /\ AuthorityWasGranted'
      BY <3>1, <3>2 DEF TypeOK, SessionInv, UsesAccounted, Limited, AuthorityWasGranted
    <3> QED BY <3>1, <3>2, <3>3 DEF TypeOK, SessionInv
  <2>3. ASSUME NEW k \in Key, ImportKey(t, k) PROVE SessionInv'
    BY <2>3 DEF ImportKey, TypeOK, SessionInv, UsesAccounted, Limited,
                AuthorityWasGranted, Suspend, Idle
  <2>4. CASE ImportedKeyStored(t)
    <3>1. [call[t] EXCEPT !.pc = "adopt"].pc = "adopt"
      BY DEF TypeOK, Call
    <3> QED BY <2>4, <3>1, SessionFrame DEF ImportedKeyStored
  <2>5. CASE ImportRejected(t) \/ AdoptKey(t)
    BY <2>5, SessionFrame DEF ImportRejected, AdoptKey, Idle
  <2> QED BY <1>1, <2>1, <2>2, <2>3, <2>4, <2>5 DEF KeyStep
<1>2. ASSUME NEW t \in Task, SessionStep(t) PROVE SessionInv'
  <2>1. ASSUME NEW s \in Scopes, CreateSession(t, s) PROVE SessionInv'
    BY <2>1, SessionFrame DEF CreateSession, Idle
  <2>2. CASE RegisterSession(t)
    <3> DEFINE k == call[t].key
               s == call[t].scope
    <3>1. k \in Key /\ s \in Scopes /\ requested[k] = None /\ done[k] = 0
      BY <2>2 DEF RegisterSession, LocalsOK, SessionInv
    <3>2. /\ NewSession(s).scope = s
          /\ NewSession(s).usesLeft = IF s.maxUses > 0 THEN s.maxUses ELSE -1
      BY DEF NewSession
    <3>3. /\ sessions' = [sessions EXCEPT ![k] = NewSession(s)]
          /\ requested' = [requested EXCEPT ![k] = s]
          /\ call' = [call EXCEPT ![t] = Idle]
          /\ UNCHANGED <<issued, done>>
      BY <2>2 DEF RegisterSession, Suspend
    <3>4. UsesAccounted'
      BY <3>1, <3>2, <3>3, ScopeFacts DEF TypeOK, SessionInv, UsesAccounted, Limited
    <3>5. AuthorityWasGranted'
      <4>1. Idle.pc = "idle"
        BY DEF Idle
      <4> QED BY <3>1, <3>3, <4>1 DEF TypeOK, SessionInv, AuthorityWasGranted
    <3> QED BY <3>1, <3>2, <3>3, <3>4, <3>5, ScopeFacts, <2>2
            DEF TypeOK, SessionInv, Idle, RegisterSession
  <2>3. ASSUME NEW k \in Key, NEW op \in Operations, BeginOperation(t, k, op)
        PROVE  SessionInv'
    <3>1. sessions[k] # None /\ requested[k] # None /\ sessions[k].scope = requested[k]
      BY <2>3 DEF BeginOperation, SessionInv
    <3>2. /\ call' = [call EXCEPT ![t] = [Idle EXCEPT !.pc = "permitted", !.key = k, !.op = op]]
          /\ UNCHANGED <<sessions, issued, requested, done>>
      BY <2>3 DEF BeginOperation, Suspend
    <3>3. Granted(requested[k], op)
      <4>1. requested[k].maxGasPerIntent \in Nat /\ op.gas \in Nat
        BY <3>1, ScopeFacts, ConstantsAssumption DEF TypeOK, ScopeType, OperationType
      <4>2. Validate(sessions[k], op)
        BY <2>3 DEF BeginOperation
      <4> DEFINE s == requested[k]
      <4>3. op.kind = "approval.submit" => s.allowApproval = "granted"
        BY <3>1, <4>2 DEF Validate
      <4>4. op.kind = "intent.submit" =>
              /\ s.allowIntentSubmit = "granted"
              /\ EnforceAllowedValue(s.allowedGoalTypes, op.subject)
              /\ EnforceGasBudget(s.maxGasPerIntent, op.gas)
        BY <3>1, <4>2 DEF Validate
      <4> HIDE DEF s
      <4>5. EnforceGasBudget(s.maxGasPerIntent, op.gas)
              => s.maxGasPerIntent = 0 \/ op.gas <= s.maxGasPerIntent
        BY <4>1 DEF EnforceGasBudget, s
      <4>6. EnforceAllowedValue(s.allowedGoalTypes, op.subject)
              => s.allowedGoalTypes = {} \/ op.subject \in s.allowedGoalTypes \cup {""}
        BY DEF EnforceAllowedValue
      <4>7. Granted(s, op)
        BY <4>3, <4>4, <4>5, <4>6 DEF Granted
      <4> QED BY <4>7 DEF s
    <3>4. AuthorityWasGranted'
      BY <3>2, <3>3 DEF TypeOK, SessionInv, AuthorityWasGranted, Idle
    <3> QED BY <3>1, <3>2, <3>4 DEF TypeOK, SessionInv, UsesAccounted, Limited, Idle
  <2>4. CASE SignOperation(t)
    <3>1. CASE Suspend(t, Idle)
      BY <2>4, <3>1, SessionFrame DEF SignOperation, Idle
    <3>2. CASE Suspend(t, [call[t] EXCEPT !.pc = "sent"])
      <4>1. PICK c : /\ c.pc = "sent" /\ c.key = call[t].key /\ c.op = call[t].op
                     /\ call' = [call EXCEPT ![t] = c]
        BY <3>2 DEF TypeOK, Call, Suspend
      <4>2. call[t].pc = "permitted" /\ UNCHANGED <<sessions, issued, requested, done>>
        BY <2>4 DEF SignOperation
      <4> QED BY <4>1, <4>2 DEF TypeOK, SessionInv, UsesAccounted, Limited, AuthorityWasGranted
    <3> QED BY <2>4, <3>1, <3>2 DEF SignOperation
  <2>5. CASE OperationSucceeds(t)
    <3> DEFINE k == call[t].key
    <3>1. k \in Key /\ requested[k] # None
      BY <2>5 DEF OperationSucceeds, LocalsOK, SessionInv
    <3>2. /\ sessions' = [sessions EXCEPT ![k] = Use(sessions[k])]
          /\ done' = [done EXCEPT ![k] = done[k] + 1]
          /\ call' = [call EXCEPT ![t] = Idle]
          /\ UNCHANGED <<issued, requested>>
      BY <2>5 DEF OperationSucceeds, Suspend
    <3>3. sessions[k] # None =>
            Use(sessions[k]).usesLeft = IF sessions[k].usesLeft > 0
                                        THEN sessions[k].usesLeft - 1 ELSE sessions[k].usesLeft
      BY <3>1 DEF Use, TypeOK, Session
    <3>4. UsesAccounted'
      BY <3>1, <3>2, <3>3, UseType, ScopeFacts DEF TypeOK, SessionInv, UsesAccounted, Limited
    <3>5. AuthorityWasGranted'
      BY <3>2 DEF TypeOK, SessionInv, AuthorityWasGranted, Idle
    <3> QED BY <3>1, <3>2, <3>4, <3>5, UseType DEF TypeOK, SessionInv, Idle
  <2>6. CASE OperationFails(t)
    BY <2>6, SessionFrame DEF OperationFails, Idle
  <2> QED BY <1>2, <2>1, <2>2, <2>3, <2>4, <2>5, <2>6 DEF SessionStep
<1>3. ASSUME NEW t \in Task, ActiveKeyStep(t) PROVE SessionInv'
  <2>1. PICK c : /\ c.pc \in {"idle", "intentSigning", "material", "bound", "approvalSigning"}
                 /\ Suspend(t, c)
                 /\ UNCHANGED <<store, now, history>>
    BY <1>3, ActiveKeyStepShape
  <2> QED BY <2>1, SessionFrame
<1>4. ASSUME NEW k \in Key, RevokeSession(k) PROVE SessionInv'
  BY <1>4 DEF RevokeSession, TypeOK, SessionInv, UsesAccounted, Limited, AuthorityWasGranted
<1>5. CASE Tick \/ UNCHANGED vars
  <2>1. UNCHANGED <<sessions, issued, requested, done, call>>
    BY <1>5 DEF Tick, vars
  <2> QED BY <2>1 DEF SessionInv, UsesAccounted, Limited, AuthorityWasGranted
<1> QED BY <1>1, <1>2, <1>3, <1>4, <1>5 DEF Next

THEOREM SessionsCorrect == Spec => []SessionInv
BY SessionInit, SessionStepInv, TypeCorrect, PTL DEF Spec

\* The counter of a live session is its limit less what completed under it.
THEOREM UsesAreAccounted == Spec => []UsesAccounted
<1>1. SessionInv => UsesAccounted
  BY DEF SessionInv
<1> QED BY <1>1, SessionsCorrect, PTL

\* No operation is under way that the scope asked for did not grant.
THEOREM AuthorityIsGranted == Spec => []AuthorityWasGranted
<1>1. SessionInv => AuthorityWasGranted
  BY DEF SessionInv
<1> QED BY <1>1, SessionsCorrect, PTL

-----------------------------------------------------------------------------
(***************************************************************************)
(* Operations in flight                                                    *)
(***************************************************************************)

LEMMA InFlightFinite ==
  ASSUME NEW k \in Key
  PROVE  /\ IsFiniteSet(InFlight(k)) /\ Cardinality(InFlight(k)) \in Nat
         /\ Cardinality(Task) \in Nat
         /\ Cardinality(InFlight(k)) <= Cardinality(Task)
<1>1. InFlight(k) \subseteq Task
  BY DEF InFlight
<1> QED BY <1>1, ConstantsAssumption, FS_Subset, FS_CardinalityType

\* The step that keeps the bound: done and the set in flight grow together or
\* not at all.
LEMMA OvershootFrame ==
  ASSUME TypeOK, OvershootBounded, NEW k \in Key,
         requested'[k] = requested[k], done'[k] = done[k],
         InFlight(k)' \subseteq InFlight(k), Limited(k)'
  PROVE  done'[k] + Cardinality(InFlight(k)') <= requested'[k].maxUses + Cardinality(Task) - 1
<1>1. requested[k] \in Scopes
  BY DEF Limited, TypeOK
<1>2. done[k] + Cardinality(InFlight(k)) <= requested[k].maxUses + Cardinality(Task) - 1
  BY DEF OvershootBounded, Limited
<1>3. Cardinality(InFlight(k)') <= Cardinality(InFlight(k)) /\ Cardinality(InFlight(k)') \in Nat
  BY InFlightFinite, FS_Subset, FS_CardinalityType
<1> QED BY <1>1, <1>2, <1>3, ScopeFacts, InFlightFinite DEF TypeOK

\* A limited session runs at most its limit and one operation for every other
\* call that was open when the last use was spent.
THEOREM OvershootIsBounded == Spec => []OvershootBounded
<1>1. Init => OvershootBounded
  BY DEF Init, OvershootBounded, Limited
<1>2. TypeOK /\ LocalsOK /\ SessionInv /\ OvershootBounded /\ [Next]_vars => OvershootBounded'
  <2> SUFFICES ASSUME TypeOK, LocalsOK, SessionInv, OvershootBounded, [Next]_vars,
                      NEW k \in Key, Limited(k)'
               PROVE  done'[k] + Cardinality(InFlight(k)')
                        <= requested'[k].maxUses + Cardinality(Task) - 1
    BY DEF OvershootBounded
  <2> USE DEF store, history, Return
  <2>0. ASSUME NEW t \in Task, NEW c, c.pc \notin {"permitted", "sent"}, Suspend(t, c),
               requested'[k] = requested[k], done'[k] = done[k]
        PROVE  done'[k] + Cardinality(InFlight(k)')
                 <= requested'[k].maxUses + Cardinality(Task) - 1
    <3>1. InFlight(k)' \subseteq InFlight(k)
      BY <2>0 DEF TypeOK, Suspend, InFlight
    <3> QED BY <2>0, <3>1, OvershootFrame
  <2>1. ASSUME NEW t \in Task, KeyStep(t)
        PROVE  done'[k] + Cardinality(InFlight(k)')
                 <= requested'[k].maxUses + Cardinality(Task) - 1
    <3>1. UNCHANGED <<requested, done>>
      BY <2>1 DEF KeyStep, GenerateKey, KeyPairStored, ImportKey, ImportedKeyStored,
                  ImportRejected, AdoptKey
    <3>2. CASE GenerateKey(t) \/ ImportRejected(t) \/ AdoptKey(t)
      BY <3>1, <3>2, <2>0 DEF GenerateKey, ImportRejected, AdoptKey, Idle
    <3>3. ASSUME NEW j \in Key, KeyPairStored(t, j)
          PROVE  \E c : c.pc \notin {"permitted", "sent"} /\ Suspend(t, c)
      <4> DEFINE c == [call[t] EXCEPT !.key = j,
                         !.pc = IF call[t].pc = "generating" THEN "adopt" ELSE "register"]
      <4>1. c.pc \in {"adopt", "register"}
        BY DEF TypeOK, Call
      <4>2. Suspend(t, c)
        BY <3>3 DEF KeyPairStored
      <4> HIDE DEF c
      <4> QED BY <4>1, <4>2
    <3>4. ASSUME NEW j \in Key, ImportKey(t, j)
          PROVE  \E c : c.pc \notin {"permitted", "sent"} /\ Suspend(t, c)
      <4> DEFINE c == [Idle EXCEPT !.pc = "importing", !.key = j]
      <4>1. c.pc = "importing"
        BY DEF Idle
      <4>2. Suspend(t, c)
        BY <3>4 DEF ImportKey
      <4> HIDE DEF c
      <4> QED BY <4>1, <4>2
    <3>5. CASE ImportedKeyStored(t)
      <4> DEFINE c == [call[t] EXCEPT !.pc = "adopt"]
      <4>1. c.pc = "adopt"
        BY DEF TypeOK, Call
      <4>2. Suspend(t, c)
        BY <3>5 DEF ImportedKeyStored
      <4> HIDE DEF c
      <4> QED BY <3>1, <4>1, <4>2, <2>0
    <3> QED BY <2>1, <2>0, <3>1, <3>2, <3>3, <3>4, <3>5 DEF KeyStep
  <2>2. ASSUME NEW t \in Task, SessionStep(t)
        PROVE  done'[k] + Cardinality(InFlight(k)')
                 <= requested'[k].maxUses + Cardinality(Task) - 1
    <3>1. ASSUME NEW s \in Scopes, CreateSession(t, s)
          PROVE  UNCHANGED <<requested, done>> /\ \E c : c.pc = "creating" /\ Suspend(t, c)
      <4>1. [Idle EXCEPT !.pc = "creating", !.scope = s].pc = "creating"
        BY DEF Idle
      <4> QED BY <3>1, <4>1 DEF CreateSession
    <3>2. CASE RegisterSession(t)
      <4>1. CASE call[t].key = k
        <5>1. call[t].scope \in Scopes /\ requested'[k] = call[t].scope
              /\ requested[k] = None /\ done'[k] = 0
          BY <3>2, <4>1 DEF RegisterSession, LocalsOK, SessionInv, TypeOK
        <5>2. call' = [call EXCEPT ![t] = Idle] /\ Idle.pc = "idle"
          BY <3>2 DEF RegisterSession, Suspend, Idle
        <5>3. InFlight(k)' = {}
          BY <5>1, <5>2 DEF InFlight, SessionInv, TypeOK
        <5>4. t \in Task /\ Cardinality(Task) >= 1
          BY ConstantsAssumption, FS_EmptySet, FS_CardinalityType
        <5> QED BY <5>1, <5>3, <5>4, FS_EmptySet, ScopeFacts, InFlightFinite DEF Limited
      <4>2. CASE call[t].key # k
        BY <3>2, <4>2, <2>0 DEF RegisterSession, LocalsOK, TypeOK, Idle
      <4> QED BY <4>1, <4>2
    <3>3. ASSUME NEW j \in Key, NEW op \in Operations, BeginOperation(t, j, op)
          PROVE  done'[k] + Cardinality(InFlight(k)')
                   <= requested'[k].maxUses + Cardinality(Task) - 1
      <4> DEFINE c == [Idle EXCEPT !.pc = "permitted", !.key = j, !.op = op]
      <4>1. c.key = j /\ Suspend(t, c) /\ UNCHANGED <<requested, done>>
        BY <3>3 DEF BeginOperation, Idle
      <4> HIDE DEF c
      <4>2. CASE j # k
        <5>1. InFlight(k)' \subseteq InFlight(k)
          BY <4>1, <4>2 DEF TypeOK, Suspend, InFlight
        <5> QED BY <4>1, <5>1, OvershootFrame
      <4>3. CASE j = k
        <5>1. sessions[k] # None /\ sessions[k].usesLeft # 0 /\ Limited(k)
          BY <3>3, <4>1, <4>3 DEF BeginOperation, Validate, Limited
        <5>2. requested[k] \in Scopes
          BY <5>1 DEF Limited, TypeOK
        <5>3. done[k] < requested[k].maxUses
          BY <5>1, <5>2, ScopeFacts DEF SessionInv, UsesAccounted, TypeOK
        <5>4. InFlight(k)' \subseteq Task
          BY DEF InFlight
        <5>5. Cardinality(InFlight(k)') <= Cardinality(Task) /\ Cardinality(InFlight(k)') \in Nat
          BY <5>4, ConstantsAssumption, FS_Subset, FS_CardinalityType
        <5> QED BY <4>1, <5>2, <5>3, <5>5, ScopeFacts, InFlightFinite DEF TypeOK
      <4> QED BY <4>2, <4>3
    <3>4. CASE SignOperation(t)
      <4>1. InFlight(k)' \subseteq InFlight(k)
        BY <3>4 DEF SignOperation, Suspend, TypeOK, InFlight, Idle, Call
      <4> QED BY <3>4, <4>1, OvershootFrame DEF SignOperation
    <3>5. CASE OperationSucceeds(t)
      <4>1. call[t].key \in Key /\ call[t].pc = "sent" /\ UNCHANGED requested
            /\ done' = [done EXCEPT ![call[t].key] = @ + 1] /\ call' = [call EXCEPT ![t] = Idle]
        BY <3>5 DEF OperationSucceeds, LocalsOK, Suspend
      <4>2. CASE call[t].key # k
        BY <4>1, <4>2, <2>0 DEF TypeOK, Suspend, Idle
      <4>3. CASE call[t].key = k
        <5>1. InFlight(k)' = InFlight(k) \ {t} /\ t \in InFlight(k)
          BY <4>1, <4>3 DEF InFlight, TypeOK, Idle
        <5>2. Cardinality(InFlight(k)') = Cardinality(InFlight(k)) - 1
          BY <5>1, InFlightFinite, FS_RemoveElement
        <5>3. done'[k] = done[k] + 1
          BY <4>1, <4>3 DEF TypeOK
        <5>4. Limited(k) /\ requested[k] \in Scopes
          BY <4>1 DEF Limited, TypeOK
        <5> QED BY <4>1, <5>2, <5>3, <5>4, ScopeFacts, InFlightFinite DEF OvershootBounded, TypeOK
      <4> QED BY <4>2, <4>3
    <3>6. CASE OperationFails(t)
      BY <3>6, <2>0 DEF OperationFails, Idle
    <3> QED BY <2>2, <2>0, <3>1, <3>2, <3>3, <3>4, <3>5, <3>6 DEF SessionStep
  <2>3. ASSUME NEW t \in Task, ActiveKeyStep(t)
        PROVE  done'[k] + Cardinality(InFlight(k)')
                 <= requested'[k].maxUses + Cardinality(Task) - 1
    BY <2>3, <2>0, ActiveKeyStepShape
  <2>4. CASE Tick \/ UNCHANGED vars \/ \E j \in Key : RevokeSession(j)
    <3>1. UNCHANGED <<requested, done, call>>
      BY <2>4 DEF Tick, vars, RevokeSession
    <3>2. InFlight(k)' = InFlight(k)
      BY <3>1 DEF InFlight
    <3> QED BY <3>1, <3>2, OvershootFrame
  <2> QED BY <2>1, <2>2, <2>3, <2>4 DEF Next
<1> QED BY <1>1, <1>2, TypeCorrect, SessionsCorrect, PTL DEF Spec

=============================================================================
