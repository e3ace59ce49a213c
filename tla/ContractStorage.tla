-------------------------- MODULE ContractStorage --------------------------
(***************************************************************************)
(* A contract written with the contract SDK (assembly/sdk.ts): storage     *)
(* maps of 256-bit numbers, methods that hold the reentrancy guard over a  *)
(* call to another contract, and methods that update a number and call     *)
(* nobody.                                                                 *)
(*                                                                         *)
(* The host runs one call at a time.  A called contract may call back, to  *)
(* any depth; a call that traps is undone, alone or with the whole         *)
(* transaction, and the contract that made it goes on.                     *)
(***************************************************************************)
EXTENDS U256

CONSTANTS
  Guarded, Plain,  \* storage maps, by the methods that write them
  Prefix,          \* the prefix each map was constructed with
  Keys,            \* the keys that are used, byte sequences
  LockKey,         \* the storage key of the ReentrancyGuard
  Amounts,         \* the numbers added and taken away
  Factors,         \* the numbers multiplied by
  Null,            \* no value under a storage key
  MaxDepth, MaxInvocations  \* bounds

Maps == Guarded \cup Plain

Extends(long, short) ==
  Len(short) <= Len(long) /\ \A i \in 1 .. Len(short) : long[i] = short[i]

\* The contract's author chooses the prefixes and the guard's key: none is the
\* beginning of another.  Nothing in StorageMap separates prefix and key.
ASSUME PrefixesApart ==
  /\ Prefix \in [Maps -> Seq(Nat)] /\ Keys \subseteq Seq(Nat) /\ LockKey \in Seq(Nat)
  /\ \A m, n \in Maps : Extends(Prefix[m], Prefix[n]) => m = n
  /\ \A m \in Maps : ~Extends(LockKey, Prefix[m]) /\ ~Extends(Prefix[m], LockKey)
ASSUME MapsApart == Guarded # {} /\ Keys # {} /\ Guarded \cap Plain = {}
ASSUME AmountsAssumption == Amounts \subseteq U256
\* Below 2^32; by a larger factor a carry can be lost, see MulExact.
ASSUME FactorsAssumption == Factors \subseteq 0 .. H - 1
ASSUME NullAssumption == Null \notin Seq(Nat)

Cells == Maps \X Keys

\* Mutant: the key is not copied behind the prefix.
BuildKeyPrefixOnly(c) == Prefix[c[1]]

BuildKey(c) == Prefix[c[1]] \o c[2]
StorageKeys == {BuildKey(c) : c \in Cells} \cup {LockKey}

VARIABLES
  storage,     \* the contract's storage
  stack,       \* the open calls, the outermost first
  \* History
  applied,     \* what the writes that stand add up to, in each cell
  invocations  \* calls of guarded methods and updates so far

vars == <<storage, stack, applied, invocations>>

\* A call of a guarded method of this contract, or of another contract.
\* saved and savedApplied are what the host goes back to if it traps.
Frame ==
  [pc : {"other", "enter", "read", "call", "write", "exit", "return"},
   cell : Cells, amount : U256, adding : BOOLEAN, local : U256,
   saved : [StorageKeys -> Seq(Nat) \cup {Null}], savedApplied : [Cells -> Int]]

TypeOK ==
  /\ storage \in [StorageKeys -> Seq(Nat) \cup {Null}]
  /\ stack \in Seq(Frame)
  /\ applied \in [Cells -> Int]
  /\ invocations \in Nat

Init ==
  /\ storage = [key \in StorageKeys |-> Null]
  /\ stack = <<>>
  /\ applied = [c \in Cells |-> 0]
  /\ invocations = 0

-----------------------------------------------------------------------------
(***************************************************************************)
(* Storage, Utils and the guard                                            *)
(***************************************************************************)

\* StorageMap.getU256 of what is stored, null or bytes, with zero for null as
\* the contract of index.ts:38-42 has it.
Number(value) ==
  IF value = Null \/ Len(value) < 4 THEN Zero ELSE FromBeBytes(value)

GetU256(c) == Number(storage[BuildKey(c)])

SetU256(c, number) == storage' = [storage EXCEPT ![BuildKey(c)] = ToBeBytes(number)]

\* safeAdd and safeSub: what they return, and when they do not revert.
Updated(number, amount, adding) ==
  IF adding THEN Add(number, amount) ELSE Sub(number, amount)

Safe(number, amount, adding) ==
  IF adding THEN ~Lt(Add(number, amount), number) ELSE Gte(number, amount)

Locked == storage[LockKey] # Null

Apply(c, amount, adding) ==
  applied' = [applied EXCEPT ![c] = IF adding THEN @ + Val(amount) ELSE @ - Val(amount)]

-----------------------------------------------------------------------------
(***************************************************************************)
(* The host: calls, returns and undoing                                    *)
(***************************************************************************)

Top == stack[Len(stack)]
Below == SubSeq(stack, 1, Len(stack) - 1)
Running(pc) == stack # <<>> /\ Top.pc = pc

NewFrame(pc, c, amount, adding) ==
  [pc |-> pc, cell |-> c, amount |-> amount, adding |-> adding, local |-> Zero,
   saved |-> storage, savedApplied |-> applied]

\* A frame of another contract has no use for a cell and a number.
OtherFrame == NewFrame("other", CHOOSE c \in Guarded \X Keys : TRUE, Zero, TRUE)

Continue(pc) == stack' = [stack EXCEPT ![Len(stack)].pc = pc]

\* The caller goes on behind its call.
Resumed(frames) ==
  [i \in DOMAIN frames |->
     IF i = Len(frames) /\ frames[i].pc = "call"
     THEN [frames[i] EXCEPT !.pc = "write"] ELSE frames[i]]

\* Somebody's transaction starts.
Begin ==
  /\ stack = <<>>
  /\ stack' = <<OtherFrame>>
  /\ UNCHANGED <<storage, applied, invocations>>

\* Another contract, or the sender, calls a guarded method.
Invoke(c, amount, adding) ==
  /\ Running("other")
  /\ Len(stack) < MaxDepth
  /\ invocations < MaxInvocations
  /\ stack' = Append(stack, NewFrame("enter", c, amount, adding))
  /\ invocations' = invocations + 1
  /\ UNCHANGED <<storage, applied>>

OtherReturns ==
  /\ Running("other")
  /\ stack' = Resumed(Below)
  /\ UNCHANGED <<storage, applied, invocations>>

\* A trap in the call that is running: revert, a failed assertion, no gas left.
\* The caller of Calls.call gets null, and goes on.
Fail ==
  /\ stack # <<>>
  /\ storage' = Top.saved
  /\ applied' = Top.savedApplied
  /\ stack' = Resumed(Below)
  /\ UNCHANGED invocations

\* The whole transaction is reverted.
Revert ==
  /\ stack # <<>>
  /\ storage' = stack[1].saved
  /\ applied' = stack[1].savedApplied
  /\ stack' = <<>>
  /\ UNCHANGED invocations

-----------------------------------------------------------------------------
(***************************************************************************)
(* The contract's methods                                                  *)
(***************************************************************************)

\* Mutant: the lock is set and not looked at.
EnterAnyway ==
  /\ Running("enter")
  /\ storage' = [storage EXCEPT ![LockKey] = <<1>>]
  /\ Continue("read")
  /\ UNCHANGED <<applied, invocations>>

\* ReentrancyGuard.enter; with the lock taken its assertion fails.
Enter ==
  /\ Running("enter")
  /\ ~Locked
  /\ storage' = [storage EXCEPT ![LockKey] = <<1>>]
  /\ Continue("read")
  /\ UNCHANGED <<applied, invocations>>

Read ==
  /\ Running("read")
  /\ stack' = [stack EXCEPT ![Len(stack)].pc = "call", ![Len(stack)].local = GetU256(Top.cell)]
  /\ UNCHANGED <<storage, applied, invocations>>

\* Calls.call: the other contract runs before anything else happens here.
CallOther ==
  /\ Running("call")
  /\ Len(stack) < MaxDepth
  /\ stack' = Append(stack, OtherFrame)
  /\ UNCHANGED <<storage, applied, invocations>>

\* The number read before the call is what is updated after it.
Write ==
  /\ Running("write")
  /\ Safe(Top.local, Top.amount, Top.adding)
  /\ SetU256(Top.cell, Updated(Top.local, Top.amount, Top.adding))
  /\ Apply(Top.cell, Top.amount, Top.adding)
  /\ Continue("exit")
  /\ UNCHANGED invocations

Exit ==
  /\ Running("exit")
  /\ storage' = [storage EXCEPT ![LockKey] = Null]
  /\ Continue("return")
  /\ UNCHANGED <<applied, invocations>>

Return ==
  /\ Running("return")
  /\ stack' = Below
  /\ UNCHANGED <<storage, applied, invocations>>

\* A method without the guard: it updates a number and returns.
Update(c, amount, adding) ==
  /\ Running("other")
  /\ invocations < MaxInvocations
  /\ Safe(GetU256(c), amount, adding)
  /\ SetU256(c, Updated(GetU256(c), amount, adding))
  /\ Apply(c, amount, adding)
  /\ invocations' = invocations + 1
  /\ UNCHANGED stack

\* Such a method that multiplies, where the product fits.
Scale(c, n) ==
  /\ Running("other")
  /\ invocations < MaxInvocations
  /\ applied[c] * n < Modulus
  /\ SetU256(c, MulU64(GetU256(c), n))
  /\ applied' = [applied EXCEPT ![c] = @ * n]
  /\ invocations' = invocations + 1
  /\ UNCHANGED stack

\* StorageMap.remove by such a method.
Remove(c) ==
  /\ Running("other")
  /\ storage[BuildKey(c)] # Null
  /\ storage' = [storage EXCEPT ![BuildKey(c)] = Null]
  /\ applied' = [applied EXCEPT ![c] = 0]
  /\ UNCHANGED <<stack, invocations>>

Next ==
  \/ Begin \/ OtherReturns \/ Fail \/ Revert
  \/ \E c \in Guarded \X Keys, amount \in Amounts, adding \in BOOLEAN : Invoke(c, amount, adding)
  \/ \E c \in Plain \X Keys, amount \in Amounts, adding \in BOOLEAN : Update(c, amount, adding)
  \/ \E c \in Plain \X Keys : Remove(c) \/ \E n \in Factors : Scale(c, n)
  \/ Enter \/ Read \/ CallOther \/ Write \/ Exit \/ Return

Spec == Init /\ [][Next]_vars

-----------------------------------------------------------------------------
(***************************************************************************)
(* Properties                                                              *)
(***************************************************************************)

Holding(frame) == frame.pc \in {"read", "call", "write", "exit"}

\* At most one open call is between enter and exit, however deep contracts call
\* each other and whatever is undone, and the lock is taken exactly while there
\* is one: a call that traps gives it back, one that fails to enter does not.
GuardExclusive ==
  /\ \A i, j \in DOMAIN stack : Holding(stack[i]) /\ Holding(stack[j]) => i = j
  /\ Locked <=> \E i \in DOMAIN stack : Holding(stack[i])

\* No update is lost, counted twice or put in another cell: what each cell
\* holds is the exact sum of the updates that were not undone.
StoredIsApplied == \A c \in Cells : Val(GetU256(c)) = applied[c]

\* types.ts:243-247: mulU64 works on 32-bit halves "to avoid overflow".
MulExact ==
  \A c \in Cells, n \in Limb :
    Val(MulU64(GetU256(c), n)) = (Val(GetU256(c)) * n) % Modulus

=============================================================================
