------------------------ MODULE ContractStorageProofs ------------------------
(* Proofs about ContractStorage, for every set of maps, keys and amounts. *)
EXTENDS ContractStorage, U256Proofs, SequenceTheorems, TLAPS

-----------------------------------------------------------------------------
(* Storage keys and stored numbers *)

LEMMA PrefixOf ==
  ASSUME NEW p \in Seq(Nat), NEW q \in Seq(Nat), NEW x \in Seq(Nat), NEW y \in Seq(Nat),
         p \o x = q \o y, Len(p) <= Len(q)
  PROVE  Extends(q, p)
<1>1. SUFFICES ASSUME NEW i \in 1 .. Len(p) PROVE q[i] = p[i]
  BY DEF Extends
<1>2. (p \o x)[i] = p[i]
  OBVIOUS
<1>3. (q \o y)[i] = q[i]
  OBVIOUS
<1> QED BY <1>2, <1>3

LEMMA SameRest ==
  ASSUME NEW p \in Seq(Nat), NEW x \in Seq(Nat), NEW y \in Seq(Nat), p \o x = p \o y
  PROVE  x = y
<1>1. Len(x) = Len(y)
  <2>1. Len(p \o x) = Len(p) + Len(x) /\ Len(p \o y) = Len(p) + Len(y)
    OBVIOUS
  <2> QED BY <2>1
<1>2. ASSUME NEW i \in 1 .. Len(x) PROVE x[i] = y[i]
  <2>1. i \in 1 .. Len(y)
    BY <1>1
  <2>2. (p \o x)[Len(p) + i] = x[i]
    BY SMTT(30)
  <2>3. (p \o y)[Len(p) + i] = y[i]
    BY <2>1, SMTT(30)
  <2> QED BY <2>2, <2>3
<1> QED BY <1>1, <1>2, SeqEqual

\* Maps whose prefixes are apart share no storage key, with each other or with
\* the guard (sdk.ts:187-196).
THEOREM KeysApart ==
  ASSUME NEW c \in Cells
  PROVE  /\ BuildKey(c) \in StorageKeys /\ LockKey \in StorageKeys
         /\ BuildKey(c) # LockKey
         /\ \A d \in Cells : BuildKey(d) = BuildKey(c) => d = c
<1>1. /\ c = <<c[1], c[2]>> /\ c[1] \in Maps /\ c[2] \in Keys
      /\ Prefix[c[1]] \in Seq(Nat) /\ c[2] \in Seq(Nat)
  BY PrefixesApart DEF Cells
<1>2. BuildKey(c) # LockKey
  <2>1. SUFFICES ASSUME Prefix[c[1]] \o c[2] = LockKey PROVE Extends(LockKey, Prefix[c[1]])
    BY <1>1, PrefixesApart DEF BuildKey
  <2> DEFINE p == Prefix[c[1]]
             x == c[2]
  <2>2. p \in Seq(Nat) /\ x \in Seq(Nat) /\ p \o x = LockKey
    BY <1>1, <2>1
  <2> HIDE DEF p, x
  <2>3. Len(p) <= Len(LockKey) /\ \A i \in 1 .. Len(p) : LockKey[i] = p[i]
    BY <2>2
  <2> QED BY <2>3 DEF Extends, p
<1>3. ASSUME NEW d \in Cells, BuildKey(d) = BuildKey(c) PROVE d = c
  <2>1. /\ d = <<d[1], d[2]>> /\ d[1] \in Maps /\ d[2] \in Keys
        /\ Prefix[d[1]] \in Seq(Nat) /\ d[2] \in Seq(Nat)
    BY PrefixesApart DEF Cells
  <2>2. Prefix[d[1]] \o d[2] = Prefix[c[1]] \o c[2]
    BY <1>3 DEF BuildKey
  <2>3. d[1] = c[1]
    <3>1. CASE Len(Prefix[d[1]]) <= Len(Prefix[c[1]])
      <4>1. Extends(Prefix[c[1]], Prefix[d[1]])
        BY <1>1, <2>1, <2>2, <3>1, PrefixOf
      <4> QED BY <1>1, <2>1, <4>1, PrefixesApart
    <3>2. CASE Len(Prefix[c[1]]) <= Len(Prefix[d[1]])
      <4>1. Extends(Prefix[d[1]], Prefix[c[1]])
        BY <1>1, <2>1, <2>2, <3>2, PrefixOf
      <4> QED BY <1>1, <2>1, <4>1, PrefixesApart
    <3>3. Len(Prefix[c[1]]) \in Int /\ Len(Prefix[d[1]]) \in Int
      BY <1>1, <2>1
    <3> QED BY <3>1, <3>2, <3>3
  <2>4. d[2] = c[2]
    BY <1>1, <2>1, <2>2, <2>3, SameRest
  <2> QED BY <1>1, <2>1, <2>3, <2>4
<1>4. BuildKey(c) \in StorageKeys /\ LockKey \in StorageKeys
  BY DEF StorageKeys
<1> QED BY <1>2, <1>3, <1>4

\* What setU256 stores getU256 reads.
LEMMA BytesRead ==
  ASSUME NEW a \in U256
  PROVE  /\ ToBeBytes(a) \in Seq(Nat) /\ ToBeBytes(a) # Null
         /\ Number(ToBeBytes(a)) = a
<1>1. /\ a.lo1 \in Nat /\ a.lo2 \in Nat /\ a.hi1 \in Nat /\ a.hi2 \in Nat
      /\ a = [lo1 |-> a.lo1, lo2 |-> a.lo2, hi1 |-> a.hi1, hi2 |-> a.hi2]
  BY Typing, WIsNat DEF Limb
<1> DEFINE s == ToBeBytes(a)
<1>2. s \in Seq(Nat) /\ Len(s) = 4
  BY <1>1 DEF ToBeBytes
<1>3. s[1] = a.hi2 /\ s[2] = a.hi1 /\ s[3] = a.lo2 /\ s[4] = a.lo1
  BY <1>1 DEF ToBeBytes
<1> HIDE DEF s
<1>4. s # Null
  BY <1>2, NullAssumption
<1>5. Number(s) = FromBeBytes(s)
  BY <1>2, <1>4 DEF Number
<1>6. FromBeBytes(s) = [hi2 |-> s[1], hi1 |-> s[2], lo2 |-> s[3], lo1 |-> s[4]]
  BY <1>2 DEF FromBeBytes
<1>7. [hi2 |-> s[1], hi1 |-> s[2], lo2 |-> s[3], lo1 |-> s[4]] = a
  BY <1>1, <1>3, Zenon
<1> QED BY <1>2, <1>4, <1>5, <1>6, <1>7 DEF s

LEMMA LockValue == <<1>> \in Seq(Nat) /\ <<1>> # Null /\ Null \notin Seq(Nat)
<1>1. <<1>> \in Seq(Nat)
  OBVIOUS
<1> QED BY <1>1, NullAssumption

-----------------------------------------------------------------------------
(* Types *)

LEMMA UpdatedTyped ==
  ASSUME NEW a \in U256, NEW b \in U256, NEW adding \in BOOLEAN
  PROVE  Updated(a, b, adding) \in U256
BY AddExact, SubExact DEF Updated

\* safeAdd and safeSub return the exact number (sdk.ts:733-749).
LEMMA SafeExact ==
  ASSUME NEW a \in U256, NEW b \in U256, NEW adding \in BOOLEAN, Safe(a, b, adding)
  PROVE  Val(Updated(a, b, adding)) = IF adding THEN Val(a) + Val(b) ELSE Val(a) - Val(b)
<1>1. CASE adding
  <2>1. ~Lt(Add(a, b), a)
    BY <1>1, Zenon DEF Safe
  <2>2. Val(Add(a, b)) = Val(a) + Val(b)
    BY <2>1, SafeAddExact
  <2> QED BY <1>1, <2>2 DEF Updated
<1>2. CASE ~adding
  <2>1. Gte(a, b)
    BY <1>2, Zenon DEF Safe
  <2>2. Val(Sub(a, b)) = Val(a) - Val(b)
    BY <2>1, SafeSubExact
  <2> QED BY <1>2, <2>2 DEF Updated
<1> QED BY <1>1, <1>2

-----------------------------------------------------------------------------
(* The inductive invariant *)

PCs == {"other", "enter", "read", "call", "write", "exit", "return"}

\* A call that has read its number and not yet written it.
Live(frame) == frame.pc \in {"call", "write"}

\* Every cell holds the number that ap tells.
Consistent(st, ap) ==
  \A c \in Cells : Number(st[BuildKey(c)]) \in U256 /\ Val(Number(st[BuildKey(c)])) = ap[c]

OneHolder == \A i, j \in 1 .. Len(stack) : Holding(stack[i]) /\ Holding(stack[j]) => i = j
LockTaken == Locked <=> \E i \in 1 .. Len(stack) : Holding(stack[i])
\* What a trap goes back to has the lock of those that called.
LockSaved ==
  \A k \in 1 .. Len(stack) :
    stack[k].saved[LockKey] # Null <=> \E i \in 1 .. k - 1 : Holding(stack[i])
LockInv == OneHolder /\ LockTaken /\ LockSaved

Kept == Consistent(storage, applied)
KeptSaved == \A k \in 1 .. Len(stack) : Consistent(stack[k].saved, stack[k].savedApplied)
OwnCell == \A k \in 1 .. Len(stack) : stack[k].cell \in Guarded \X Keys
\* The number a call has read is the one stored, now and wherever a trap of the
\* calls above it goes back to.
LocalFresh ==
  \A i \in 1 .. Len(stack) :
    Live(stack[i]) =>
      /\ stack[i].local = GetU256(stack[i].cell)
      /\ \A k \in i + 1 .. Len(stack) :
           stack[i].local = Number(stack[k].saved[BuildKey(stack[i].cell)])
NumberInv == Kept /\ KeptSaved /\ OwnCell /\ LocalFresh

IInv == TypeOK /\ LockInv /\ NumberInv

-----------------------------------------------------------------------------
(* Frames and what becomes of the stack *)

LEMMA FrameTyping ==
  ASSUME NEW f \in Frame
  PROVE  /\ f.pc \in PCs /\ f.cell \in Cells /\ f.amount \in U256 /\ f.adding \in BOOLEAN
         /\ f.local \in U256 /\ f.saved \in [StorageKeys -> Seq(Nat) \cup {Null}]
         /\ f.savedApplied \in [Cells -> Int]
BY DEF Frame, PCs

LEMMA FrameStepped ==
  ASSUME NEW f \in Frame, NEW pc \in PCs
  PROVE  /\ [f EXCEPT !.pc = pc] \in Frame
         /\ [f EXCEPT !.pc = pc].pc = pc
         /\ [f EXCEPT !.pc = pc].cell = f.cell
         /\ [f EXCEPT !.pc = pc].local = f.local
         /\ [f EXCEPT !.pc = pc].saved = f.saved
         /\ [f EXCEPT !.pc = pc].savedApplied = f.savedApplied
BY DEF Frame, PCs

LEMMA NewFrameTyped ==
  ASSUME TypeOK, NEW pc \in PCs, NEW c \in Guarded \X Keys, NEW a \in U256,
         NEW adding \in BOOLEAN, NEW f, f = NewFrame(pc, c, a, adding)
  PROVE  /\ f \in Frame /\ f.pc = pc /\ f.cell = c
         /\ f.saved = storage /\ f.savedApplied = applied
<1>1. c \in Cells
  BY DEF Cells, Maps
<1> QED BY <1>1, ZeroIsU256 DEF TypeOK, NewFrame, Frame, PCs

LEMMA OtherFrameTyped ==
  ASSUME TypeOK
  PROVE  /\ OtherFrame \in Frame /\ OtherFrame.pc = "other"
         /\ OtherFrame.cell \in Guarded \X Keys
         /\ OtherFrame.saved = storage /\ OtherFrame.savedApplied = applied
<1> DEFINE c == CHOOSE c \in Guarded \X Keys : TRUE
<1>1. c \in Guarded \X Keys
  <2>1. PICK m \in Guarded, key \in Keys : TRUE
    BY MapsApart
  <2>2. <<m, key>> \in Guarded \X Keys
    OBVIOUS
  <2> QED BY <2>2
<1> HIDE DEF c
<1>2. OtherFrame = NewFrame("other", c, Zero, TRUE)
  BY DEF OtherFrame, c
<1>3. c \in Cells
  BY <1>1 DEF Cells, Maps
<1> QED BY <1>1, <1>2, <1>3, ZeroIsU256 DEF TypeOK, NewFrame, Frame

\* Two frames of which the invariants say the same.
Alike(f, g) ==
  /\ Holding(f) <=> Holding(g)
  /\ Live(f) <=> Live(g)
  /\ f.cell = g.cell /\ f.local = g.local
  /\ f.saved = g.saved /\ f.savedApplied = g.savedApplied

Pushed(f) ==
  /\ Len(stack') = Len(stack) + 1
  /\ \A i \in 1 .. Len(stack) : stack'[i] = stack[i]
  /\ stack'[Len(stack) + 1] = f

Stepped ==
  /\ Len(stack') = Len(stack)
  /\ \A i \in 1 .. Len(stack) - 1 : stack'[i] = stack[i]
  /\ stack'[Len(stack)].cell = Top.cell
  /\ stack'[Len(stack)].saved = Top.saved
  /\ stack'[Len(stack)].savedApplied = Top.savedApplied

Popped ==
  /\ Len(stack') = Len(stack) - 1
  /\ \A i \in 1 .. Len(stack) - 1 : Alike(stack[i], stack'[i])

LEMMA StackTyped ==
  ASSUME TypeOK
  PROVE  /\ Len(stack) \in Nat
         /\ \A i \in 1 .. Len(stack) : stack[i] \in Frame
         /\ stack # <<>> => Len(stack) > 0 /\ Top \in Frame /\ Top = stack[Len(stack)]
         /\ stack = <<>> => Len(stack) = 0
BY DEF TypeOK, Top

LEMMA Push ==
  ASSUME TypeOK, NEW f \in Frame, stack' = Append(stack, f)
  PROVE  stack' \in Seq(Frame) /\ Pushed(f)
BY DEF TypeOK, Pushed

LEMMA Step ==
  ASSUME TypeOK, stack # <<>>, NEW pc \in PCs, Continue(pc)
  PROVE  stack' \in Seq(Frame) /\ Stepped /\ stack'[Len(stack)].pc = pc
<1> DEFINE n == Len(stack)
           g == [Top EXCEPT !.pc = pc]
<1>1. n \in Nat /\ n > 0 /\ Top \in Frame /\ stack \in Seq(Frame) /\ Top = stack[n]
  BY StackTyped DEF TypeOK
<1>2. /\ g \in Frame /\ g.pc = pc /\ g.cell = Top.cell /\ g.saved = Top.saved
      /\ g.savedApplied = Top.savedApplied
  BY <1>1, FrameStepped
<1>3. stack' = [stack EXCEPT ![n] = g]
  BY DEF Continue, Top
<1> HIDE DEF g
<1>4. /\ stack' \in Seq(Frame) /\ Len(stack') = n
      /\ \A i \in 1 .. n - 1 : stack'[i] = stack[i]
      /\ stack'[n] = g
  BY <1>1, <1>2, <1>3
<1> QED BY <1>2, <1>4 DEF Stepped

LEMMA BelowTyped ==
  ASSUME TypeOK, stack # <<>>
  PROVE  /\ Below \in Seq(Frame) /\ Len(Below) = Len(stack) - 1
         /\ \A i \in 1 .. Len(stack) - 1 : Below[i] = stack[i]
<1> DEFINE n == Len(stack) - 1
<1>1. n \in Nat /\ 1 \in Int /\ \A i \in 1 .. n : stack[i] \in Frame
  BY StackTyped
<1>2. Below = SubSeq(stack, 1, n)
  BY DEF Below
<1> HIDE DEF n
<1>3. /\ SubSeq(stack, 1, n) \in Seq(Frame)
      /\ Len(SubSeq(stack, 1, n)) = IF 1 <= n THEN n - 1 + 1 ELSE 0
      /\ \A i \in 1 .. n - 1 + 1 : SubSeq(stack, 1, n)[i] = stack[1 + i - 1]
  BY <1>1, SubSeqProperties
<1>4. Len(SubSeq(stack, 1, n)) = n /\ n - 1 + 1 = n
  BY <1>1, <1>3
<1>5. \A i \in 1 .. n : SubSeq(stack, 1, n)[i] = stack[i]
  <2> SUFFICES ASSUME NEW i \in 1 .. n PROVE SubSeq(stack, 1, n)[i] = stack[i]
    OBVIOUS
  <2>1. 1 + i - 1 = i
    BY <1>1
  <2> QED BY <1>3, <1>4, <2>1
<1> QED BY <1>2, <1>3, <1>4, <1>5 DEF n

LEMMA AlikeItself == ASSUME NEW f PROVE Alike(f, f)
BY DEF Alike

LEMMA PopResumed ==
  ASSUME TypeOK, stack # <<>>, stack' = Resumed(Below)
  PROVE  stack' \in Seq(Frame) /\ Popped
<1> DEFINE n == Len(stack)
           R == [i \in 1 .. n - 1 |-> IF i = n - 1 /\ stack[i].pc = "call"
                                      THEN [stack[i] EXCEPT !.pc = "write"] ELSE stack[i]]
<1>1. n \in Nat /\ n > 0 /\ stack \in Seq(Frame) /\ \A i \in 1 .. n : stack[i] \in Frame
  BY StackTyped DEF TypeOK
<1>2. Below \in Seq(Frame) /\ Len(Below) = n - 1 /\ \A i \in 1 .. n - 1 : Below[i] = stack[i]
  BY BelowTyped
<1>3. DOMAIN Below = 1 .. n - 1
  BY <1>1, <1>2
<1>4. stack' = R
  BY <1>2, <1>3 DEF Resumed
<1>5. \A i \in 1 .. n - 1 : R[i] \in Frame /\ Alike(stack[i], R[i])
  <2> SUFFICES ASSUME NEW i \in 1 .. n - 1 PROVE R[i] \in Frame /\ Alike(stack[i], R[i])
    OBVIOUS
  <2> DEFINE f == stack[i]
  <2>1. f \in Frame
    BY <1>1
  <2>2. CASE i = n - 1 /\ f.pc = "call"
    <3>1. R[i] = [f EXCEPT !.pc = "write"]
      BY <2>2
    <3> HIDE DEF f, R
    <3>2. "write" \in PCs
      BY DEF PCs
    <3>3. /\ R[i] \in Frame /\ R[i].pc = "write" /\ R[i].cell = f.cell
          /\ R[i].local = f.local /\ R[i].saved = f.saved
          /\ R[i].savedApplied = f.savedApplied
      BY <2>1, <3>1, <3>2, FrameStepped
    <3>4. Holding(f) /\ Holding(R[i]) /\ Live(f) /\ Live(R[i])
      BY <2>2, <3>3 DEF Holding, Live
    <3> QED BY <3>3, <3>4 DEF Alike, f
  <2>3. CASE ~(i = n - 1 /\ f.pc = "call")
    <3>1. R[i] = f
      BY <2>3
    <3> QED BY <2>1, <3>1, AlikeItself
  <2> QED BY <2>2, <2>3
<1> HIDE DEF R
<1>6. DOMAIN R = 1 .. n - 1
  BY DEF R
<1>7. R \in Seq(Frame) /\ Len(R) = n - 1
  <2>1. n - 1 \in Nat /\ R \in [1 .. n - 1 -> Frame]
    BY <1>1, <1>5, <1>6 DEF R
  <2> QED BY <2>1
<1> QED BY <1>4, <1>5, <1>7 DEF Popped

LEMMA PopBelow ==
  ASSUME TypeOK, stack # <<>>, stack' = Below
  PROVE  stack' \in Seq(Frame) /\ Popped
<1> QED BY BelowTyped, AlikeItself DEF Popped

-----------------------------------------------------------------------------
(* The guard *)

LEMMA LockPush ==
  ASSUME TypeOK, LockInv, NEW f \in Frame, ~Holding(f), f.saved = storage, Pushed(f),
         storage'[LockKey] = storage[LockKey]
  PROVE  LockInv'
<1> DEFINE n == Len(stack)
<1>1. n \in Nat /\ Len(stack') = n + 1
  BY StackTyped DEF Pushed
<1>2. \A i \in 1 .. n + 1 : Holding(stack'[i]) => i \in 1 .. n /\ Holding(stack[i])
  BY <1>1 DEF Pushed
<1>3. \A i \in 1 .. n : Holding(stack'[i]) <=> Holding(stack[i])
  BY DEF Pushed
<1>4. OneHolder'
  BY <1>1, <1>2 DEF LockInv, OneHolder
<1>5. LockTaken'
  BY <1>1, <1>2, <1>3 DEF LockInv, LockTaken, Locked
<1>6. LockSaved'
  <2> SUFFICES ASSUME NEW k \in 1 .. n + 1
               PROVE  stack'[k].saved[LockKey] # Null <=> \E i \in 1 .. k - 1 : Holding(stack'[i])
    BY <1>1 DEF LockSaved
  <2>1. CASE k \in 1 .. n
    <3>1. stack'[k] = stack[k]
      BY <2>1 DEF Pushed
    <3>2. stack[k].saved[LockKey] # Null <=> \E i \in 1 .. k - 1 : Holding(stack[i])
      BY <2>1 DEF LockInv, LockSaved
    <3>3. \A i \in 1 .. k - 1 : i \in 1 .. n
      BY <1>1, <2>1
    <3> QED BY <1>3, <3>1, <3>2, <3>3
  <2>2. CASE k = n + 1
    <3>1. stack'[k].saved = storage /\ k - 1 = n
      BY <1>1, <2>2 DEF Pushed
    <3> QED BY <1>3, <3>1 DEF LockInv, LockTaken, Locked
  <2> QED BY <1>1, <2>1, <2>2
<1> QED BY <1>4, <1>5, <1>6 DEF LockInv

\* The top frame leaves the stack; the lock is what the frames below make of it.
LEMMA LockPop ==
  ASSUME TypeOK, LockInv, stack # <<>>, Popped,
         storage'[LockKey] # Null <=> \E i \in 1 .. Len(stack) - 1 : Holding(stack[i])
  PROVE  LockInv'
<1> DEFINE n == Len(stack)
<1>1. n \in Nat /\ n > 0 /\ Len(stack') = n - 1
  BY StackTyped DEF Popped
<1>2. \A i \in 1 .. n - 1 : /\ i \in 1 .. n
                            /\ Holding(stack'[i]) <=> Holding(stack[i])
                            /\ stack'[i].saved = stack[i].saved
  BY <1>1 DEF Popped, Alike
<1>3. OneHolder'
  BY <1>1, <1>2 DEF LockInv, OneHolder
<1>4. LockTaken'
  BY <1>1, <1>2 DEF LockTaken, Locked
<1>5. LockSaved'
  <2> SUFFICES ASSUME NEW k \in 1 .. n - 1
               PROVE  stack'[k].saved[LockKey] # Null <=> \E i \in 1 .. k - 1 : Holding(stack'[i])
    BY <1>1 DEF LockSaved
  <2>1. stack[k].saved[LockKey] # Null <=> \E i \in 1 .. k - 1 : Holding(stack[i])
    BY <1>2 DEF LockInv, LockSaved
  <2>2. \A i \in 1 .. k - 1 : i \in 1 .. n - 1
    BY <1>1
  <2> QED BY <1>2, <2>1, <2>2
<1> QED BY <1>3, <1>4, <1>5 DEF LockInv

\* The top frame goes on: the lock is taken exactly if it holds it now or one
\* below does.
LEMMA LockStep ==
  ASSUME TypeOK, LockInv, stack # <<>>, Stepped,
         Holding(stack'[Len(stack)]) =>
           \A i \in 1 .. Len(stack) - 1 : ~Holding(stack[i]),
         storage'[LockKey] # Null <=>
           (Holding(stack'[Len(stack)]) \/ \E i \in 1 .. Len(stack) - 1 : Holding(stack[i]))
  PROVE  LockInv'
<1> DEFINE n == Len(stack)
<1>1. n \in Nat /\ n > 0 /\ Len(stack') = n /\ Top = stack[n]
  BY StackTyped DEF Stepped
<1>2. \A i \in 1 .. n - 1 : i \in 1 .. n /\ stack'[i] = stack[i]
  BY <1>1 DEF Stepped
<1>3. \A i \in 1 .. n : i \in 1 .. n - 1 \/ i = n
  BY <1>1
<1>4. OneHolder'
  BY <1>1, <1>2, <1>3 DEF LockInv, OneHolder
<1>5. LockTaken'
  <2>1. (\E i \in 1 .. n : Holding(stack'[i]))
          <=> (Holding(stack'[n]) \/ \E i \in 1 .. n - 1 : Holding(stack[i]))
    <3>1. n \in 1 .. n
      BY <1>1
    <3> QED BY <1>2, <1>3, <3>1
  <2> QED BY <1>1, <2>1 DEF LockTaken, Locked
<1>6. LockSaved'
  <2> SUFFICES ASSUME NEW k \in 1 .. n
               PROVE  stack'[k].saved[LockKey] # Null <=> \E i \in 1 .. k - 1 : Holding(stack'[i])
    BY <1>1 DEF LockSaved
  <2>1. stack[k].saved[LockKey] # Null <=> \E i \in 1 .. k - 1 : Holding(stack[i])
    BY DEF LockInv, LockSaved
  <2>2. stack'[k].saved = stack[k].saved
    BY <1>1, <1>2, <1>3 DEF Stepped
  <2>3. \A i \in 1 .. k - 1 : i \in 1 .. n - 1
    BY <1>1
  <2> QED BY <1>2, <2>1, <2>2, <2>3
<1> QED BY <1>4, <1>5, <1>6 DEF LockInv

LEMMA LockSame ==
  ASSUME LockInv, stack' = stack, storage'[LockKey] = storage[LockKey]
  PROVE  LockInv'
BY DEF LockInv, OneHolder, LockTaken, LockSaved, Locked

\* Writing a number leaves the lock, and the other cells, alone.
LEMMA CellWritten ==
  ASSUME TypeOK, NEW c \in Cells, NEW value \in Seq(Nat) \cup {Null},
         storage' = [storage EXCEPT ![BuildKey(c)] = value]
  PROVE  /\ storage' \in [StorageKeys -> Seq(Nat) \cup {Null}]
         /\ storage'[BuildKey(c)] = value
         /\ storage'[LockKey] = storage[LockKey]
         /\ \A d \in Cells : d # c => storage'[BuildKey(d)] = storage[BuildKey(d)]
<1>1. BuildKey(c) \in StorageKeys /\ BuildKey(c) # LockKey /\ LockKey \in StorageKeys
  BY KeysApart
<1>2. storage \in [StorageKeys -> Seq(Nat) \cup {Null}]
  BY DEF TypeOK
<1>3. \A d \in Cells : d # c => BuildKey(d) \in StorageKeys /\ BuildKey(d) # BuildKey(c)
  BY KeysApart
<1> HIDE DEF StorageKeys
<1> QED BY <1>1, <1>2, <1>3

LEMMA LockWritten ==
  ASSUME TypeOK, NEW value \in Seq(Nat) \cup {Null},
         storage' = [storage EXCEPT ![LockKey] = value]
  PROVE  /\ storage' \in [StorageKeys -> Seq(Nat) \cup {Null}]
         /\ storage'[LockKey] = value
         /\ \A d \in Cells : storage'[BuildKey(d)] = storage[BuildKey(d)]
<1>1. LockKey \in StorageKeys
  BY DEF StorageKeys
<1>2. storage \in [StorageKeys -> Seq(Nat) \cup {Null}]
  BY DEF TypeOK
<1>3. \A d \in Cells : BuildKey(d) \in StorageKeys /\ BuildKey(d) # LockKey
  BY KeysApart
<1> QED BY <1>1, <1>2, <1>3

-----------------------------------------------------------------------------
(* The numbers *)

LEMMA NumberPush ==
  ASSUME TypeOK, NumberInv, NEW f \in Frame, ~Live(f), f.saved = storage,
         f.savedApplied = applied, f.cell \in Guarded \X Keys, Pushed(f),
         storage' = storage, applied' = applied
  PROVE  NumberInv'
<1> DEFINE n == Len(stack)
<1>1. n \in Nat /\ Len(stack') = n + 1
  BY StackTyped DEF Pushed
<1>2. /\ \A i \in 1 .. n : stack'[i] = stack[i]
      /\ stack'[n + 1] = f
      /\ \A i \in 1 .. n + 1 : i \in 1 .. n \/ i = n + 1
  BY <1>1 DEF Pushed
<1>3. Kept'
  BY DEF NumberInv, Kept, Consistent
<1>4. KeptSaved'
  BY <1>1, <1>2 DEF NumberInv, Kept, KeptSaved, Consistent
<1>5. OwnCell'
  BY <1>1, <1>2 DEF NumberInv, OwnCell
<1>6. LocalFresh'
  <2> SUFFICES ASSUME NEW i \in 1 .. n + 1, Live(stack'[i])
               PROVE  /\ stack'[i].local = Number(storage[BuildKey(stack'[i].cell)])
                      /\ \A k \in i + 1 .. n + 1 :
                           stack'[i].local = Number(stack'[k].saved[BuildKey(stack'[i].cell)])
    BY <1>1 DEF LocalFresh, GetU256
  <2>1. i \in 1 .. n /\ stack'[i] = stack[i]
    BY <1>2
  <2>2. /\ stack[i].local = Number(storage[BuildKey(stack[i].cell)])
        /\ \A k \in i + 1 .. n :
             stack[i].local = Number(stack[k].saved[BuildKey(stack[i].cell)])
    BY <2>1 DEF NumberInv, LocalFresh, GetU256
  <2>3. \A k \in i + 1 .. n + 1 : (k \in i + 1 .. n /\ k \in 1 .. n) \/ k = n + 1
    BY <1>1
  <2> QED BY <1>2, <2>1, <2>2, <2>3
<1> QED BY <1>3, <1>4, <1>5, <1>6 DEF NumberInv

LEMMA NumberPop ==
  ASSUME TypeOK, NumberInv, stack # <<>>, Popped, Consistent(storage', applied'),
         \A i \in 1 .. Len(stack) - 1 : Live(stack[i]) =>
           stack[i].local = Number(storage'[BuildKey(stack[i].cell)])
  PROVE  NumberInv'
<1> DEFINE n == Len(stack)
<1>1. n \in Nat /\ n > 0 /\ Len(stack') = n - 1
  BY StackTyped DEF Popped
<1>2. \A i \in 1 .. n - 1 : i \in 1 .. n /\ Alike(stack[i], stack'[i])
  BY <1>1 DEF Popped
<1>3. Kept'
  BY DEF Kept
<1>4. KeptSaved'
  BY <1>1, <1>2 DEF NumberInv, KeptSaved, Alike
<1>5. OwnCell'
  BY <1>1, <1>2 DEF NumberInv, OwnCell, Alike
<1>6. LocalFresh'
  <2> SUFFICES ASSUME NEW i \in 1 .. n - 1, Live(stack'[i])
               PROVE  /\ stack'[i].local = Number(storage'[BuildKey(stack'[i].cell)])
                      /\ \A k \in i + 1 .. n - 1 :
                           stack'[i].local = Number(stack'[k].saved[BuildKey(stack'[i].cell)])
    BY <1>1 DEF LocalFresh, GetU256
  <2>1. Live(stack[i]) /\ stack'[i].local = stack[i].local /\ stack'[i].cell = stack[i].cell
    BY <1>2 DEF Alike
  <2>2. \A k \in i + 1 .. n : stack[i].local = Number(stack[k].saved[BuildKey(stack[i].cell)])
    BY <1>2, <2>1 DEF NumberInv, LocalFresh
  <2>3. \A k \in i + 1 .. n - 1 : k \in i + 1 .. n /\ k \in 1 .. n - 1
    BY <1>1
  <2>4. \A k \in 1 .. n - 1 : stack'[k].saved = stack[k].saved
    BY <1>2 DEF Alike
  <2> QED BY <2>1, <2>2, <2>3, <2>4
<1> QED BY <1>3, <1>4, <1>5, <1>6 DEF NumberInv

LEMMA NumberStep ==
  ASSUME TypeOK, NumberInv, stack # <<>>, Stepped, Consistent(storage', applied'),
         \A i \in 1 .. Len(stack) - 1 : Live(stack[i]) =>
           stack[i].local = Number(storage'[BuildKey(stack[i].cell)]),
         Live(stack'[Len(stack)]) =>
           stack'[Len(stack)].local = Number(storage'[BuildKey(Top.cell)])
  PROVE  NumberInv'
<1> DEFINE n == Len(stack)
<1>1. n \in Nat /\ n > 0 /\ Len(stack') = n /\ Top = stack[n]
  BY StackTyped DEF Stepped
<1>2. /\ \A i \in 1 .. n - 1 : i \in 1 .. n /\ stack'[i] = stack[i]
      /\ \A i \in 1 .. n : i \in 1 .. n - 1 \/ i = n
  BY <1>1 DEF Stepped
<1>3. \A k \in 1 .. n : /\ stack'[k].cell = stack[k].cell
                        /\ stack'[k].saved = stack[k].saved
                        /\ stack'[k].savedApplied = stack[k].savedApplied
  BY <1>1, <1>2 DEF Stepped
<1>4. Kept'
  BY DEF Kept
<1>5. KeptSaved'
  BY <1>1, <1>3 DEF NumberInv, KeptSaved
<1>6. OwnCell'
  BY <1>1, <1>3 DEF NumberInv, OwnCell
<1>7. LocalFresh'
  <2> SUFFICES ASSUME NEW i \in 1 .. n, Live(stack'[i])
               PROVE  /\ stack'[i].local = Number(storage'[BuildKey(stack'[i].cell)])
                      /\ \A k \in i + 1 .. n :
                           stack'[i].local = Number(stack'[k].saved[BuildKey(stack'[i].cell)])
    BY <1>1 DEF LocalFresh, GetU256
  <2>1. CASE i \in 1 .. n - 1
    <3>1. stack'[i] = stack[i]
      BY <1>2, <2>1
    <3>2. \A k \in i + 1 .. n : stack[i].local = Number(stack[k].saved[BuildKey(stack[i].cell)])
      BY <1>2, <2>1, <3>1 DEF NumberInv, LocalFresh
    <3>3. \A k \in i + 1 .. n : k \in 1 .. n
      BY <1>1
    <3> QED BY <1>3, <2>1, <3>1, <3>2, <3>3
  <2>2. CASE i = n
    <3>1. ~\E k \in i + 1 .. n : TRUE
      BY <1>1, <2>2
    <3> QED BY <1>1, <1>3, <2>2, <3>1
  <2> QED BY <1>2, <2>1, <2>2
<1> QED BY <1>4, <1>5, <1>6, <1>7 DEF NumberInv

LEMMA NumberSame ==
  ASSUME NumberInv, stack' = stack, Consistent(storage', applied'),
         \A c \in Guarded \X Keys : storage'[BuildKey(c)] = storage[BuildKey(c)]
  PROVE  NumberInv'
<1>1. Kept'
  BY DEF Kept
<1>2. KeptSaved' /\ OwnCell'
  BY DEF NumberInv, KeptSaved, OwnCell
<1>3. LocalFresh'
  BY DEF NumberInv, LocalFresh, OwnCell, GetU256
<1> QED BY <1>1, <1>2, <1>3 DEF NumberInv

\* A number is written and told.
LEMMA NumberWritten ==
  ASSUME TypeOK, Kept, NEW c \in Cells, NEW a \in U256, SetU256(c, a),
         applied' = [applied EXCEPT ![c] = Val(a)]
  PROVE  /\ storage' \in [StorageKeys -> Seq(Nat) \cup {Null}]
         /\ applied' \in [Cells -> Int]
         /\ storage'[LockKey] = storage[LockKey]
         /\ \A d \in Cells : d # c => storage'[BuildKey(d)] = storage[BuildKey(d)]
         /\ Consistent(storage', applied')
<1> DEFINE value == ToBeBytes(a)
<1>1. value \in Seq(Nat) /\ Number(value) = a
  BY BytesRead
<1>2. storage' = [storage EXCEPT ![BuildKey(c)] = value]
  BY DEF SetU256
<1> HIDE DEF value
<1>3. /\ storage' \in [StorageKeys -> Seq(Nat) \cup {Null}]
      /\ storage'[BuildKey(c)] = value
      /\ storage'[LockKey] = storage[LockKey]
      /\ \A d \in Cells : d # c => storage'[BuildKey(d)] = storage[BuildKey(d)]
  BY <1>1, <1>2, CellWritten
<1>4. Val(a) \in Int
  BY ValRange, ModulusIsNat
<1>5. /\ applied' \in [Cells -> Int] /\ applied'[c] = Val(a)
      /\ \A d \in Cells : d # c => applied'[d] = applied[d]
  BY <1>4 DEF TypeOK
<1>6. Consistent(storage', applied')
  <2> SUFFICES ASSUME NEW d \in Cells
               PROVE  /\ Number(storage'[BuildKey(d)]) \in U256
                      /\ Val(Number(storage'[BuildKey(d)])) = applied'[d]
    BY DEF Consistent
  <2>1. CASE d = c
    BY <1>1, <1>3, <1>5, <2>1
  <2>2. CASE d # c
    BY <1>3, <1>5, <2>2 DEF Kept, Consistent
  <2> QED BY <2>1, <2>2
<1> QED BY <1>3, <1>5, <1>6

LEMMA AppliedUpdate ==
  ASSUME TypeOK, Kept, NEW c \in Cells, NEW b \in U256, NEW adding \in BOOLEAN,
         NEW a \in U256, a = GetU256(c), Safe(a, b, adding), Apply(c, b, adding)
  PROVE  applied' = [applied EXCEPT ![c] = Val(Updated(a, b, adding))]
<1>1. applied[c] = Val(a)
  BY DEF Kept, Consistent, GetU256
<1>2. Val(Updated(a, b, adding)) = IF adding THEN Val(a) + Val(b) ELSE Val(a) - Val(b)
  BY SafeExact
<1>3. CASE adding
  <2>1. applied' = [applied EXCEPT ![c] = applied[c] + Val(b)]
    BY <1>3 DEF Apply
  <2> QED BY <1>1, <1>2, <1>3, <2>1
<1>4. CASE ~adding
  <2>1. applied' = [applied EXCEPT ![c] = applied[c] - Val(b)]
    BY <1>4 DEF Apply
  <2> QED BY <1>1, <1>2, <1>4, <2>1
<1> QED BY <1>3, <1>4

-----------------------------------------------------------------------------
(* Every step keeps the invariant *)

LEMMA InitIInv == Init => IInv
<1> SUFFICES ASSUME Init PROVE IInv
  OBVIOUS
<1> USE DEF Init
<1>1. TypeOK
  BY DEF TypeOK
<1>2. \A c \in Cells : storage[BuildKey(c)] = Null
  BY KeysApart
<1>3. Number(Null) = Zero
  BY DEF Number
<1>4. Kept
  BY <1>2, <1>3, ZeroIsU256 DEF Kept, Consistent
<1>5. LockInv
  <2>1. storage[LockKey] = Null
    BY DEF StorageKeys
  <2> QED BY <2>1 DEF LockInv, OneHolder, LockTaken, LockSaved, Locked
<1>6. KeptSaved /\ OwnCell /\ LocalFresh
  BY DEF KeptSaved, OwnCell, LocalFresh
<1> QED BY <1>1, <1>4, <1>5, <1>6 DEF IInv, NumberInv

\* A call of another contract, or of a guarded method, is put on the stack.
LEMMA PushKeeps ==
  ASSUME IInv, NEW f \in Frame, f.pc \in {"other", "enter"}, f.saved = storage,
         f.savedApplied = applied, f.cell \in Guarded \X Keys,
         stack' = Append(stack, f), storage' = storage, applied' = applied,
         invocations' \in Nat
  PROVE  IInv'
<1>1. ~Holding(f) /\ ~Live(f)
  BY DEF Holding, Live
<1>2. stack' \in Seq(Frame) /\ Pushed(f)
  BY Push DEF IInv
<1>3. TypeOK'
  BY <1>2 DEF IInv, TypeOK
<1>4. LockInv'
  BY <1>1, <1>2, LockPush DEF IInv
<1>5. NumberInv'
  BY <1>1, <1>2, NumberPush DEF IInv
<1> QED BY <1>3, <1>4, <1>5 DEF IInv

\* A call returns; it holds no lock.
LEMMA ReturnKeeps ==
  ASSUME IInv, stack # <<>>, Top.pc \in {"other", "return"}, Popped,
         stack' \in Seq(Frame), storage' = storage, applied' = applied,
         invocations' = invocations
  PROVE  IInv'
<1> DEFINE n == Len(stack)
<1>1. n \in Nat /\ n > 0 /\ Top = stack[n]
  BY StackTyped DEF IInv
<1>2. ~Holding(stack[n])
  BY <1>1 DEF Holding
<1>3. TypeOK'
  BY DEF IInv, TypeOK
<1>4. LockInv'
  <2>1. \A i \in 1 .. n : i \in 1 .. n - 1 \/ i = n
    BY <1>1
  <2>2. \A i \in 1 .. n - 1 : i \in 1 .. n
    BY <1>1
  <2>3. storage[LockKey] # Null <=> \E i \in 1 .. n : Holding(stack[i])
    BY DEF IInv, LockInv, LockTaken, Locked
  <2>4. storage'[LockKey] # Null <=> \E i \in 1 .. n - 1 : Holding(stack[i])
    BY <1>2, <2>1, <2>2, <2>3
  <2> QED BY <2>4, LockPop DEF IInv
<1>5. NumberInv'
  <2>1. Consistent(storage', applied')
    BY DEF IInv, NumberInv, Kept
  <2>2. \A i \in 1 .. n - 1 : i \in 1 .. n
    BY <1>1
  <2>3. \A i \in 1 .. n - 1 : Live(stack[i]) =>
          stack[i].local = Number(storage'[BuildKey(stack[i].cell)])
    BY <2>2 DEF IInv, NumberInv, LocalFresh, GetU256
  <2> QED BY <2>1, <2>3, NumberPop DEF IInv
<1> QED BY <1>3, <1>4, <1>5 DEF IInv

LEMMA FailKeeps == IInv /\ Fail => IInv'
<1> SUFFICES ASSUME IInv, Fail PROVE IInv'
  OBVIOUS
<1> DEFINE n == Len(stack)
<1>1. n \in Nat /\ n > 0 /\ Top = stack[n] /\ Top \in Frame /\ n \in 1 .. n
  BY StackTyped DEF IInv, Fail
<1>2. stack' \in Seq(Frame) /\ Popped
  BY PopResumed DEF IInv, Fail
<1>3. /\ storage' = stack[n].saved /\ applied' = stack[n].savedApplied
      /\ invocations' = invocations /\ stack # <<>>
  BY <1>1 DEF Fail
<1>4. TypeOK'
  BY <1>1, <1>2, <1>3, FrameTyping DEF IInv, TypeOK
<1>5. LockInv'
  <2>1. storage'[LockKey] # Null <=> \E i \in 1 .. n - 1 : Holding(stack[i])
    BY <1>1, <1>3 DEF IInv, LockInv, LockSaved
  <2> QED BY <1>2, <1>3, <2>1, LockPop DEF IInv
<1>6. NumberInv'
  <2>1. Consistent(storage', applied')
    BY <1>1, <1>3 DEF IInv, NumberInv, KeptSaved
  <2>2. \A i \in 1 .. n - 1 : i \in 1 .. n /\ n \in i + 1 .. n
    BY <1>1
  <2>3. \A i \in 1 .. n - 1 : Live(stack[i]) =>
          stack[i].local = Number(storage'[BuildKey(stack[i].cell)])
    BY <1>3, <2>2 DEF IInv, NumberInv, LocalFresh
  <2> QED BY <1>2, <1>3, <2>1, <2>3, NumberPop DEF IInv
<1> QED BY <1>4, <1>5, <1>6 DEF IInv

LEMMA RevertKeeps == IInv /\ Revert => IInv'
<1> SUFFICES ASSUME IInv, Revert PROVE IInv'
  OBVIOUS
<1>1. 1 \in 1 .. Len(stack) /\ stack[1] \in Frame /\ Len(stack') = 0
  BY StackTyped DEF IInv, Revert
<1>2. /\ storage' = stack[1].saved /\ applied' = stack[1].savedApplied
      /\ invocations' = invocations /\ stack' = <<>>
  BY DEF Revert
<1>3. TypeOK'
  BY <1>1, <1>2, FrameTyping DEF IInv, TypeOK
<1>4. LockInv'
  <2>1. storage'[LockKey] = Null
    <3>1. stack[1].saved[LockKey] # Null <=> \E i \in 1 .. 1 - 1 : Holding(stack[i])
      BY <1>1 DEF IInv, LockInv, LockSaved
    <3> QED BY <1>2, <3>1
  <2> QED BY <1>2, <2>1 DEF LockInv, OneHolder, LockTaken, LockSaved, Locked
<1>5. Kept'
  BY <1>1, <1>2 DEF IInv, NumberInv, KeptSaved, Kept
<1>6. KeptSaved' /\ OwnCell' /\ LocalFresh'
  BY <1>1 DEF KeptSaved, OwnCell, LocalFresh
<1> QED BY <1>3, <1>4, <1>5, <1>6 DEF IInv, NumberInv

LEMMA EnterKeeps == IInv /\ Enter => IInv'
<1> SUFFICES ASSUME IInv, Enter PROVE IInv'
  OBVIOUS
<1> DEFINE n == Len(stack)
<1>1. n \in Nat /\ n > 0 /\ n \in 1 .. n /\ \A i \in 1 .. n - 1 : i \in 1 .. n
  BY StackTyped DEF IInv, Enter, Running
<1>2. stack' \in Seq(Frame) /\ Stepped /\ stack'[n].pc = "read" /\ stack # <<>>
  BY Step DEF IInv, Enter, Running, PCs
<1>3. /\ storage' \in [StorageKeys -> Seq(Nat) \cup {Null}]
      /\ storage'[LockKey] = <<1>>
      /\ \A c \in Cells : storage'[BuildKey(c)] = storage[BuildKey(c)]
  BY LockWritten, LockValue DEF IInv, Enter
<1>4. applied' = applied /\ invocations' = invocations
  BY DEF Enter
<1>5. TypeOK'
  BY <1>2, <1>3, <1>4 DEF IInv, TypeOK
<1>6. LockInv'
  <2>1. \A i \in 1 .. n : ~Holding(stack[i])
    BY DEF IInv, LockInv, LockTaken, Enter
  <2>2. Holding(stack'[n]) /\ storage'[LockKey] # Null
    BY <1>2, <1>3, LockValue DEF Holding
  <2> QED BY <1>1, <1>2, <2>1, <2>2, LockStep DEF IInv
<1>7. NumberInv'
  <2>1. Consistent(storage', applied')
    BY <1>3, <1>4 DEF IInv, NumberInv, Kept, Consistent
  <2>2. \A i \in 1 .. n - 1 : stack[i].cell \in Cells
    BY <1>1 DEF IInv, NumberInv, OwnCell, Cells, Maps
  <2>3. \A i \in 1 .. n - 1 : Live(stack[i]) =>
          stack[i].local = Number(storage'[BuildKey(stack[i].cell)])
    BY <1>1, <1>3, <2>2 DEF IInv, NumberInv, LocalFresh, GetU256
  <2>4. ~Live(stack'[n])
    BY <1>2 DEF Live
  <2> QED BY <1>2, <2>1, <2>3, <2>4, NumberStep DEF IInv
<1> QED BY <1>5, <1>6, <1>7 DEF IInv

LEMMA ExitKeeps == IInv /\ Exit => IInv'
<1> SUFFICES ASSUME IInv, Exit PROVE IInv'
  OBVIOUS
<1> DEFINE n == Len(stack)
<1>1. /\ n \in Nat /\ n > 0 /\ n \in 1 .. n /\ \A i \in 1 .. n - 1 : i \in 1 .. n /\ i # n
      /\ Top = stack[n]
  BY StackTyped DEF IInv, Exit, Running
<1>2. stack' \in Seq(Frame) /\ Stepped /\ stack'[n].pc = "return" /\ stack # <<>>
  BY Step DEF IInv, Exit, Running, PCs
<1>3. /\ storage' \in [StorageKeys -> Seq(Nat) \cup {Null}]
      /\ storage'[LockKey] = Null
      /\ \A c \in Cells : storage'[BuildKey(c)] = storage[BuildKey(c)]
  BY LockWritten DEF IInv, Exit
<1>4. applied' = applied /\ invocations' = invocations
  BY DEF Exit
<1>5. TypeOK'
  BY <1>2, <1>3, <1>4 DEF IInv, TypeOK
<1>6. LockInv'
  <2>1. Holding(stack[n])
    BY <1>1 DEF Exit, Running, Holding
  <2>2. \A i \in 1 .. n - 1 : ~Holding(stack[i])
    BY <1>1, <2>1 DEF IInv, LockInv, OneHolder
  <2>3. ~Holding(stack'[n])
    BY <1>2 DEF Holding
  <2> QED BY <1>2, <1>3, <2>2, <2>3, LockStep DEF IInv
<1>7. NumberInv'
  <2>1. Consistent(storage', applied')
    BY <1>3, <1>4 DEF IInv, NumberInv, Kept, Consistent
  <2>2. \A i \in 1 .. n - 1 : stack[i].cell \in Cells
    BY <1>1 DEF IInv, NumberInv, OwnCell, Cells, Maps
  <2>3. \A i \in 1 .. n - 1 : Live(stack[i]) =>
          stack[i].local = Number(storage'[BuildKey(stack[i].cell)])
    BY <1>1, <1>3, <2>2 DEF IInv, NumberInv, LocalFresh, GetU256
  <2>4. ~Live(stack'[n])
    BY <1>2 DEF Live
  <2> QED BY <1>2, <2>1, <2>3, <2>4, NumberStep DEF IInv
<1> QED BY <1>5, <1>6, <1>7 DEF IInv

LEMMA ReadKeeps == IInv /\ Read => IInv'
<1> SUFFICES ASSUME IInv, Read PROVE IInv'
  OBVIOUS
<1> DEFINE n == Len(stack)
           a == GetU256(Top.cell)
           g == [Top EXCEPT !.pc = "call", !.local = a]
<1>1. /\ n \in Nat /\ n > 0 /\ n \in 1 .. n /\ \A i \in 1 .. n - 1 : i \in 1 .. n /\ i # n
      /\ Top = stack[n] /\ Top \in Frame /\ stack \in Seq(Frame) /\ Top.pc = "read"
      /\ stack # <<>>
  BY StackTyped DEF IInv, TypeOK, Read, Running
<1>2. Top.cell \in Cells
  BY <1>1, FrameTyping
<1>3. a \in U256
  BY <1>2 DEF IInv, NumberInv, Kept, Consistent, GetU256
<1>4. stack' = [stack EXCEPT ![n] = g]
  BY DEF Read, Top
<1> HIDE DEF a
<1>5. /\ g \in Frame /\ g.pc = "call" /\ g.local = a /\ g.cell = Top.cell
      /\ g.saved = Top.saved /\ g.savedApplied = Top.savedApplied
  <2> DEFINE f == Top
  <2>1. f \in Frame /\ g = [f EXCEPT !.pc = "call", !.local = a]
    BY <1>1
  <2> HIDE DEF f, g
  <2>2. /\ g \in Frame /\ g.pc = "call" /\ g.local = a
        /\ g.cell = f.cell /\ g.saved = f.saved /\ g.savedApplied = f.savedApplied
    BY <1>3, <2>1 DEF Frame
  <2> QED BY <2>2 DEF f
<1> HIDE DEF g
<1>6. /\ stack' \in Seq(Frame) /\ Len(stack') = n /\ stack'[n] = g
      /\ \A i \in 1 .. n - 1 : stack'[i] = stack[i]
  BY <1>1, <1>4, <1>5
<1>7. Stepped
  BY <1>5, <1>6 DEF Stepped
<1>8. storage' = storage /\ applied' = applied /\ invocations' = invocations
  BY DEF Read
<1>9. TypeOK'
  BY <1>6, <1>8 DEF IInv, TypeOK
<1>10. LockInv'
  <2>1. Holding(stack[n]) /\ Holding(stack'[n])
    BY <1>1, <1>5, <1>6 DEF Holding
  <2>2. \A i \in 1 .. n - 1 : ~Holding(stack[i])
    BY <1>1, <2>1 DEF IInv, LockInv, OneHolder
  <2>3. storage'[LockKey] # Null
    BY <1>1, <1>8, <2>1 DEF IInv, LockInv, LockTaken, Locked
  <2> QED BY <1>1, <1>7, <2>1, <2>2, <2>3, LockStep DEF IInv
<1>11. NumberInv'
  <2>1. Consistent(storage', applied')
    BY <1>8 DEF IInv, NumberInv, Kept
  <2>2. \A i \in 1 .. n - 1 : Live(stack[i]) =>
          stack[i].local = Number(storage'[BuildKey(stack[i].cell)])
    BY <1>1, <1>8 DEF IInv, NumberInv, LocalFresh, GetU256
  <2>3. stack'[n].local = Number(storage'[BuildKey(Top.cell)])
    BY <1>5, <1>6, <1>8 DEF a, GetU256
  <2> QED BY <1>1, <1>7, <2>1, <2>2, <2>3, NumberStep DEF IInv
<1> QED BY <1>9, <1>10, <1>11 DEF IInv

LEMMA WriteKeeps == IInv /\ Write => IInv'
<1> SUFFICES ASSUME IInv, Write PROVE IInv'
  OBVIOUS
<1> DEFINE n == Len(stack)
           c == Top.cell
           a == Top.local
           b == Top.amount
           adding == Top.adding
           new == Updated(a, b, adding)
<1>1. /\ n \in Nat /\ n > 0 /\ n \in 1 .. n /\ \A i \in 1 .. n - 1 : i \in 1 .. n /\ i # n
      /\ Top = stack[n] /\ Top \in Frame /\ Top.pc = "write" /\ stack # <<>>
  BY StackTyped DEF IInv, Write, Running
<1>2. stack' \in Seq(Frame) /\ Stepped /\ stack'[n].pc = "exit"
  BY Step DEF IInv, Write, Running, PCs
<1>3. c \in Cells /\ a \in U256 /\ b \in U256 /\ adding \in BOOLEAN
  BY <1>1, FrameTyping
<1>4. a = GetU256(c)
  BY <1>1 DEF IInv, NumberInv, LocalFresh, Live
<1>5. Safe(a, b, adding) /\ SetU256(c, new) /\ Apply(c, b, adding) /\ invocations' = invocations
  BY Zenon DEF Write
<1> HIDE DEF c, a, b, adding
<1>6. new \in U256
  BY <1>3, UpdatedTyped
<1>7. applied' = [applied EXCEPT ![c] = Val(new)]
  BY <1>3, <1>4, <1>5, AppliedUpdate DEF IInv, NumberInv
<1> HIDE DEF new
<1>8. /\ storage' \in [StorageKeys -> Seq(Nat) \cup {Null}]
      /\ applied' \in [Cells -> Int]
      /\ storage'[LockKey] = storage[LockKey]
      /\ Consistent(storage', applied')
  BY <1>3, <1>5, <1>6, <1>7, NumberWritten DEF IInv, NumberInv
<1>9. TypeOK'
  BY <1>2, <1>5, <1>8 DEF IInv, TypeOK
<1>10. Holding(stack[n]) /\ Holding(stack'[n])
  BY <1>1, <1>2 DEF Holding
<1>11. \A i \in 1 .. n - 1 : ~Holding(stack[i])
  BY <1>1, <1>10 DEF IInv, LockInv, OneHolder
<1>12. LockInv'
  <2>1. storage'[LockKey] # Null
    BY <1>1, <1>8, <1>10 DEF IInv, LockInv, LockTaken, Locked
  <2> QED BY <1>1, <1>2, <1>10, <1>11, <2>1, LockStep DEF IInv
<1>13. NumberInv'
  <2>1. \A i \in 1 .. n - 1 : ~Live(stack[i])
    BY <1>11 DEF Live, Holding
  <2>2. ~Live(stack'[n])
    BY <1>2 DEF Live
  <2> QED BY <1>1, <1>2, <1>8, <2>1, <2>2, NumberStep DEF IInv
<1> QED BY <1>9, <1>12, <1>13 DEF IInv

\* A method without the guard writes a number of its own maps.
LEMMA PlainWriteKeeps ==
  ASSUME IInv, NEW c \in Plain \X Keys, NEW a \in U256, SetU256(c, a),
         applied' = [applied EXCEPT ![c] = Val(a)], stack' = stack, invocations' \in Nat
  PROVE  IInv'
<1>1. c \in Cells /\ \A d \in Guarded \X Keys : d \in Cells /\ d # c
  BY MapsApart DEF Cells, Maps
<1>2. /\ storage' \in [StorageKeys -> Seq(Nat) \cup {Null}]
      /\ applied' \in [Cells -> Int]
      /\ storage'[LockKey] = storage[LockKey]
      /\ \A d \in Cells : d # c => storage'[BuildKey(d)] = storage[BuildKey(d)]
      /\ Consistent(storage', applied')
  BY <1>1, NumberWritten DEF IInv, NumberInv
<1>3. TypeOK'
  BY <1>2 DEF IInv, TypeOK
<1>4. LockInv'
  BY <1>2, LockSame DEF IInv
<1>5. NumberInv'
  BY <1>1, <1>2, NumberSame DEF IInv
<1> QED BY <1>3, <1>4, <1>5 DEF IInv

LEMMA StoredTyped ==
  ASSUME IInv, NEW c \in Cells
  PROVE  GetU256(c) \in U256 /\ applied[c] = Val(GetU256(c))
BY DEF IInv, NumberInv, Kept, Consistent, GetU256

LEMMA UpdateKeeps ==
  ASSUME IInv, NEW c \in Plain \X Keys, NEW b \in Amounts, NEW adding \in BOOLEAN,
         Update(c, b, adding)
  PROVE  IInv'
<1> DEFINE a == GetU256(c)
           new == Updated(a, b, adding)
<1>1. c \in Cells /\ b \in U256
  BY AmountsAssumption DEF Cells, Maps
<1>2. a \in U256
  BY <1>1, StoredTyped
<1>3. /\ Safe(a, b, adding) /\ SetU256(c, new) /\ Apply(c, b, adding)
      /\ stack' = stack /\ invocations' = invocations + 1
  BY Zenon DEF Update
<1>4. invocations' \in Nat
  BY <1>3 DEF IInv, TypeOK
<1>5. applied' = [applied EXCEPT ![c] = Val(new)]
  BY <1>1, <1>2, <1>3, AppliedUpdate DEF IInv, NumberInv
<1>6. new \in U256
  BY <1>1, <1>2, UpdatedTyped
<1> HIDE DEF new
<1> QED BY <1>3, <1>4, <1>5, <1>6, PlainWriteKeeps

LEMMA ScaleKeeps ==
  ASSUME IInv, NEW c \in Plain \X Keys, NEW n \in Factors, Scale(c, n)
  PROVE  IInv'
<1> DEFINE a == GetU256(c)
           new == MulU64(a, n)
<1>1. c \in Cells /\ n \in 0 .. H - 1
  BY FactorsAssumption DEF Cells, Maps
<1>2. a \in U256 /\ applied[c] = Val(a)
  BY <1>1, StoredTyped
<1>3. /\ applied[c] * n < Modulus /\ SetU256(c, new)
      /\ applied' = [applied EXCEPT ![c] = applied[c] * n]
      /\ stack' = stack /\ invocations' = invocations + 1
  BY DEF Scale
<1>4. invocations' \in Nat
  BY <1>3 DEF IInv, TypeOK
<1>5. new \in U256 /\ Val(new) = applied[c] * n
  BY <1>1, <1>2, <1>3, MulByHalfExact
<1> HIDE DEF new
<1>6. applied' = [applied EXCEPT ![c] = Val(new)]
  BY <1>3, <1>5
<1> QED BY <1>3, <1>4, <1>5, <1>6, PlainWriteKeeps

LEMMA RemoveKeeps ==
  ASSUME IInv, NEW c \in Plain \X Keys, Remove(c)
  PROVE  IInv'
<1>1. c \in Cells /\ \A d \in Guarded \X Keys : d \in Cells /\ d # c
  BY MapsApart DEF Cells, Maps
<1>2. /\ storage' = [storage EXCEPT ![BuildKey(c)] = Null]
      /\ applied' = [applied EXCEPT ![c] = 0]
      /\ stack' = stack /\ invocations' = invocations
  BY DEF Remove
<1>3. /\ storage' \in [StorageKeys -> Seq(Nat) \cup {Null}]
      /\ storage'[BuildKey(c)] = Null
      /\ storage'[LockKey] = storage[LockKey]
      /\ \A d \in Cells : d # c => storage'[BuildKey(d)] = storage[BuildKey(d)]
  BY <1>1, <1>2, CellWritten DEF IInv
<1>4. /\ applied' \in [Cells -> Int] /\ applied'[c] = 0
      /\ \A d \in Cells : d # c => applied'[d] = applied[d]
  BY <1>1, <1>2 DEF IInv, TypeOK
<1>5. Number(Null) = Zero
  BY DEF Number
<1>6. Consistent(storage', applied')
  BY <1>1, <1>3, <1>4, <1>5, ZeroIsU256 DEF IInv, NumberInv, Kept, Consistent
<1>7. TypeOK'
  BY <1>2, <1>3, <1>4 DEF IInv, TypeOK
<1>8. LockInv'
  BY <1>2, <1>3, LockSame DEF IInv
<1>9. NumberInv'
  BY <1>1, <1>2, <1>3, <1>6, NumberSame DEF IInv
<1> QED BY <1>7, <1>8, <1>9 DEF IInv

LEMMA NextIInv == IInv /\ [Next]_vars => IInv'
<1> SUFFICES ASSUME IInv, [Next]_vars PROVE IInv'
  OBVIOUS
<1>1. CASE Begin
  <2>1. stack' = Append(stack, OtherFrame)
    BY <1>1, OtherFrameTyped DEF Begin, IInv
  <2> QED BY <1>1, <2>1, OtherFrameTyped, PushKeeps DEF Begin, IInv, TypeOK
<1>2. CASE OtherReturns
  <2>1. stack # <<>> /\ Top.pc = "other" /\ stack' = Resumed(Below)
    BY <1>2 DEF OtherReturns, Running
  <2>2. stack' \in Seq(Frame) /\ Popped
    BY <2>1, PopResumed DEF IInv
  <2> QED BY <1>2, <2>1, <2>2, ReturnKeeps DEF OtherReturns
<1>3. CASE Fail
  BY <1>3, FailKeeps
<1>4. CASE Revert
  BY <1>4, RevertKeeps
<1>5. ASSUME NEW c \in Guarded \X Keys, NEW b \in Amounts, NEW adding \in BOOLEAN,
             Invoke(c, b, adding)
      PROVE  IInv'
  <2> DEFINE f == NewFrame("enter", c, b, adding)
  <2>1. "enter" \in PCs /\ b \in U256
    BY AmountsAssumption DEF PCs
  <2>2. /\ f \in Frame /\ f.pc = "enter" /\ f.cell = c
        /\ f.saved = storage /\ f.savedApplied = applied
    <3>1. f = NewFrame("enter", c, b, adding)
      OBVIOUS
    <3> HIDE DEF f
    <3> QED BY <2>1, <3>1, NewFrameTyped DEF IInv
  <2>3. stack' = Append(stack, f)
    BY <1>5, Zenon DEF Invoke
  <2>4. storage' = storage /\ applied' = applied /\ invocations' = invocations + 1
    BY <1>5 DEF Invoke
  <2>5. invocations' \in Nat
    BY <2>4 DEF IInv, TypeOK
  <2> HIDE DEF f
  <2> QED BY <2>2, <2>3, <2>4, <2>5, PushKeeps
<1>6. ASSUME NEW c \in Plain \X Keys, NEW b \in Amounts, NEW adding \in BOOLEAN,
             Update(c, b, adding)
      PROVE  IInv'
  BY <1>6, UpdateKeeps
<1>7. ASSUME NEW c \in Plain \X Keys, Remove(c) PROVE IInv'
  BY <1>7, RemoveKeeps
<1>8. ASSUME NEW c \in Plain \X Keys, NEW n \in Factors, Scale(c, n) PROVE IInv'
  BY <1>8, ScaleKeeps
<1>9. CASE Enter
  BY <1>9, EnterKeeps
<1>10. CASE Read
  BY <1>10, ReadKeeps
<1>11. CASE CallOther
  <2>1. stack' = Append(stack, OtherFrame)
    BY <1>11 DEF CallOther
  <2> QED BY <1>11, <2>1, OtherFrameTyped, PushKeeps DEF CallOther, IInv, TypeOK
<1>12. CASE Write
  BY <1>12, WriteKeeps
<1>13. CASE Exit
  BY <1>13, ExitKeeps
<1>14. CASE Return
  <2>1. stack # <<>> /\ Top.pc = "return" /\ stack' = Below
    BY <1>14 DEF Return, Running
  <2>2. stack' \in Seq(Frame) /\ Popped
    BY <2>1, PopBelow DEF IInv
  <2> QED BY <1>14, <2>1, <2>2, ReturnKeeps DEF Return
<1>15. CASE UNCHANGED vars
  <2>1. stack' = stack /\ storage' = storage /\ applied' = applied /\ invocations' = invocations
    BY <1>15 DEF vars
  <2>2. TypeOK'
    BY <2>1 DEF IInv, TypeOK
  <2>3. LockInv'
    BY <2>1, LockSame DEF IInv
  <2>4. NumberInv'
    BY <2>1, NumberSame DEF IInv, NumberInv, Kept
  <2> QED BY <2>2, <2>3, <2>4 DEF IInv
<1> QED BY <1>1, <1>2, <1>3, <1>4, <1>5, <1>6, <1>7, <1>8, <1>9, <1>10, <1>11, <1>12,
           <1>13, <1>14, <1>15, Zenon DEF Next

\* The invariant holds in every state of every contract.
THEOREM Invariant == Spec => []IInv
BY InitIInv, NextIInv, PTL DEF Spec

\* However deep the calls are and whatever is undone, one open call at most is
\* between enter and exit, and the lock says whether one is (sdk.ts:773-788).
THEOREM GuardExcludes == Spec => []GuardExclusive
<1>1. IInv => GuardExclusive
  <2> SUFFICES ASSUME IInv PROVE GuardExclusive
    OBVIOUS
  <2>1. DOMAIN stack = 1 .. Len(stack)
    BY DEF IInv, TypeOK
  <2> QED BY <2>1 DEF IInv, LockInv, OneHolder, LockTaken, GuardExclusive
<1> QED BY <1>1, Invariant, PTL

\* No cell loses an update or takes one of another, for limbs of any width
\* (sdk.ts:174-225, 733-749; types.ts:187-295).
THEOREM NothingLost == Spec => []StoredIsApplied
<1>1. IInv => StoredIsApplied
  BY DEF IInv, NumberInv, Kept, Consistent, StoredIsApplied, GetU256
<1> QED BY <1>1, Invariant, PTL

=============================================================================
