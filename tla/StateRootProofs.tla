-------------------------- MODULE StateRootProofs --------------------------
(***************************************************************************)
(* The properties of StateRoot for every set of roots and outcomes and for *)
(* every bound.  What a document may say is bound to L0 by the two seals;  *)
(* what L0 says is true by an invariant on when leaves were recorded: a    *)
(* leaf that lies beyond an anchored tree was recorded after its anchor.   *)
(***************************************************************************)
EXTENDS StateRoot, SequenceTheorems, TLAPS

-----------------------------------------------------------------------------
(***************************************************************************)
(* Typing                                                                  *)
(***************************************************************************)

LEMMA RecordType ==
  ASSUME TypeOK, NEW leafRoot \in Roots, NEW consumer \in Outcomes \cup {None},
         Record(leafRoot, consumer)
  PROVE  /\ history' \in Seq(Leaves) /\ Len(history') = Len(history) + 1
         /\ since' \in Seq(Heights) /\ Len(since') = Len(since) + 1
         /\ \A k \in 1 .. Len(since) : since'[k] = since[k]
         /\ since'[Len(since) + 1] = height
         /\ records' \in 1 .. MaxRecords
<1>1. PICK stated \in Misstated \cup {height} :
        history' = Append(history, [height |-> stated, root |-> leafRoot, consumer |-> consumer])
  BY DEF Record
<1>2. [height |-> stated, root |-> leafRoot, consumer |-> consumer] \in Leaves
  BY MisstatedAssumption DEF TypeOK, Heights, Leaves
<1>3. history' \in Seq(Leaves) /\ Len(history') = Len(history) + 1
  BY <1>1, <1>2, AppendProperties DEF TypeOK
<1>4. /\ since' \in Seq(Heights) /\ Len(since') = Len(since) + 1
      /\ \A k \in 1 .. Len(since) : since'[k] = since[k]
      /\ since'[Len(since) + 1] = height
  BY AppendProperties DEF TypeOK, Record
<1>5. records' \in 1 .. MaxRecords
  BY BoundsAssumption DEF TypeOK, Record
<1> QED BY <1>3, <1>4, <1>5

LEMMA RestoreType ==
  ASSUME TypeOK, Len(since) = Len(history), NEW size \in 0 .. MaxRecords, Restore(size)
  PROVE  /\ history' \in Seq(Leaves) /\ Len(history') = size
         /\ since' \in Seq(Heights) /\ Len(since') = size /\ size < Len(since)
         /\ \A k \in 1 .. size : since'[k] = since[k]
<1>1. history' \in Seq(Leaves) /\ Len(history') = size
  <2>1. \A k \in 1 .. size : history[k] \in Leaves
    BY DEF TypeOK, Restore
  <2> QED BY <2>1, SubSeqProperties DEF Restore
<1>2. /\ since' \in Seq(Heights) /\ Len(since') = size
      /\ \A k \in 1 .. size : since'[k] = since[k]
  <2>1. \A k \in 1 .. size : since[k] \in Heights
    BY DEF TypeOK, Restore
  <2> QED BY <2>1, SubSeqProperties DEF Restore
<1> QED BY <1>1, <1>2 DEF Restore

LEMMA WindowFacts ==
  ASSUME TypeOK, NEW w \in Windows
  PROVE  /\ w[1] \in Nat /\ w[2] \in Nat /\ w[1] =< w[2] /\ w[2] =< height
         /\ w[2] # 0 => \A tx \in DOMAIN l0 : l0[tx].last < w[1]
<1>1. CASE w = <<0, 0>>
  BY <1>1 DEF TypeOK, Heights
<1>2. CASE w # <<0, 0>>
  <2>1. PICK first \in 1 .. height : w = <<first, height>> /\ \A tx \in DOMAIN l0 : l0[tx].last < first
    BY <1>2 DEF Windows
  <2> QED BY <2>1 DEF TypeOK, Heights
<1> QED BY <1>1, <1>2

Entry(w) == [root |-> Seal(Len(history), history), first |-> w[1], last |-> w[2], since |-> since]

LEMMA AnchorType ==
  ASSUME TypeOK, NEW w \in Windows, l0' = Append(l0, Entry(w))
  PROVE  /\ Entry(w) \in Entries
         /\ l0' \in Seq(Entries) /\ Len(l0') = Len(l0) + 1
         /\ \A tx \in 1 .. Len(l0) : l0'[tx] = l0[tx]
         /\ l0'[Len(l0) + 1] = Entry(w)
<1>1. Entry(w) \in Entries
  BY WindowFacts DEF Entry, Entries, Seals, Seal, TypeOK
<1> QED BY <1>1, AppendProperties DEF TypeOK

(* A history and its times have one length, and what is anchored is a      *)
(* history that was not empty.                                             *)
Sized ==
  /\ Len(since) = Len(history)
  /\ \A tx \in 1 .. Len(l0) :
       /\ l0[tx].root.size = Len(l0[tx].root.tree)
       /\ Len(l0[tx].since) = l0[tx].root.size
       /\ l0[tx].root.size > 0

LEMMA Numbers ==
  ASSUME TypeOK
  PROVE  /\ height \in Nat /\ Len(history) \in Nat /\ Len(since) \in Nat /\ Len(l0) \in Nat
         /\ \A k \in 1 .. Len(since) : since[k] \in Nat
         /\ \A tx \in 1 .. Len(l0) :
              /\ l0[tx] \in Entries
              /\ l0[tx].first \in Nat /\ l0[tx].last \in Nat /\ l0[tx].root \in Seals
              /\ l0[tx].root.size \in Nat /\ l0[tx].root.tree \in Seq(Leaves)
              /\ \A k \in 1 .. Len(l0[tx].since) : l0[tx].since[k] \in Nat
<1>1. Heights \subseteq Nat
  BY DEF Heights
<1>2. \A times \in Seq(Heights) : \A k \in 1 .. Len(times) : times[k] \in Nat
  BY <1>1, ElementOfSeq
<1>3. \A tx \in 1 .. Len(l0) : l0[tx] \in Entries
  BY DEF TypeOK
<1>4. \A e \in Entries :
        /\ e.first \in Nat /\ e.last \in Nat /\ e.root \in Seals /\ e.since \in Seq(Heights)
        /\ e.root.size \in Nat /\ e.root.tree \in Seq(Leaves)
  <2>1. \A e \in Entries :
          e.first \in Nat /\ e.last \in Nat /\ e.root \in Seals /\ e.since \in Seq(Heights)
    BY DEF Entries
  <2>2. \A seal \in Seals : seal.size \in Nat /\ seal.tree \in Seq(Leaves)
    BY DEF Seals
  <2> QED BY <2>1, <2>2
<1>5. \A tx \in 1 .. Len(l0) :
        /\ l0[tx].first \in Nat /\ l0[tx].last \in Nat /\ l0[tx].root \in Seals
        /\ l0[tx].root.size \in Nat /\ l0[tx].root.tree \in Seq(Leaves)
        /\ l0[tx].since \in Seq(Heights)
  BY <1>3, <1>4
<1>6. \A tx \in 1 .. Len(l0) : \A k \in 1 .. Len(l0[tx].since) : l0[tx].since[k] \in Nat
  BY <1>2, <1>5
<1>7. /\ height \in Nat /\ Len(history) \in Nat /\ Len(since) \in Nat /\ Len(l0) \in Nat
      /\ since \in Seq(Heights)
  BY <1>1, LenProperties DEF TypeOK
<1> QED BY <1>2, <1>3, <1>5, <1>6, <1>7

LEMMA InitSized == Init => TypeOK /\ Sized
<1> SUFFICES ASSUME Init PROVE TypeOK /\ Sized
  OBVIOUS
<1>1. [height |-> 1, root |-> root, consumer |-> None] \in Leaves /\ 1 \in Heights
  BY BoundsAssumption DEF Init, Leaves, Heights
<1> QED BY <1>1, BoundsAssumption DEF Init, TypeOK, Sized, Heights

LEMMA NextSized ==
  ASSUME TypeOK, Sized, [Next]_vars
  PROVE  TypeOK' /\ Sized'
<1>1. CASE NewBlock
  <2>1. height' \in Heights
    BY <1>1, BoundsAssumption DEF NewBlock, TypeOK, Heights
  <2>2. UNCHANGED <<root, history, since, l0, records>>
    BY <1>1 DEF NewBlock
  <2>3. TypeOK'
    BY <2>1, <2>2 DEF TypeOK
  <2> QED BY <2>2, <2>3 DEF Sized
<1>2. CASE ChangeRoot
  <2>1. root' \in Roots /\ Record(root', None) /\ UNCHANGED <<height, l0>>
    BY <1>2 DEF ChangeRoot
  <2>2. /\ history' \in Seq(Leaves) /\ Len(history') = Len(history) + 1
        /\ since' \in Seq(Heights) /\ Len(since') = Len(since) + 1
        /\ records' \in 1 .. MaxRecords
    BY <2>1, RecordType
  <2> QED BY <2>1, <2>2 DEF TypeOK, Sized
<1>3. ASSUME NEW outcome \in Outcomes, Consume(outcome) PROVE TypeOK' /\ Sized'
  <2>1. Record(root, outcome) /\ UNCHANGED <<height, root, l0>>
    BY <1>3 DEF Consume
  <2>2. /\ history' \in Seq(Leaves) /\ Len(history') = Len(history) + 1
        /\ since' \in Seq(Heights) /\ Len(since') = Len(since) + 1
        /\ records' \in 1 .. MaxRecords
    <3>1. root \in Roots
      BY DEF TypeOK
    <3> QED BY <2>1, <3>1, RecordType
  <2> QED BY <2>1, <2>2 DEF TypeOK, Sized
<1>4. ASSUME NEW size \in 0 .. MaxRecords, Restore(size) PROVE TypeOK' /\ Sized'
  <2>1. Len(since) = Len(history)
    BY DEF Sized
  <2>2. /\ history' \in Seq(Leaves) /\ Len(history') = size
        /\ since' \in Seq(Heights) /\ Len(since') = size
    BY <1>4, <2>1, RestoreType
  <2> QED BY <1>4, <2>2 DEF Restore, TypeOK, Sized
<1>5. CASE Anchor
  <2>1. PICK w \in Windows : l0' = Append(l0, Entry(w))
    BY <1>5 DEF Anchor, Entry
  <2>2. /\ l0' \in Seq(Entries) /\ Len(l0') = Len(l0) + 1
        /\ \A tx \in 1 .. Len(l0) : l0'[tx] = l0[tx]
        /\ l0'[Len(l0) + 1] = Entry(w)
    BY <2>1, AnchorType
  <2>3. UNCHANGED <<height, root, history, since, records>> /\ history # <<>>
    BY <1>5 DEF Anchor
  <2>4. TypeOK'
    BY <2>2, <2>3 DEF TypeOK
  <2>5. Len(history) > 0
    BY <2>3 DEF TypeOK
  <2>6. ASSUME NEW tx \in 1 .. Len(l0')
        PROVE  /\ l0'[tx].root.size = Len(l0'[tx].root.tree)
               /\ Len(l0'[tx].since) = l0'[tx].root.size
               /\ l0'[tx].root.size > 0
    <3>1. CASE tx \in 1 .. Len(l0)
      BY <2>2, <3>1 DEF Sized
    <3>2. CASE tx = Len(l0) + 1
      BY <2>2, <2>5, <3>2 DEF Sized, Entry, Seal
    <3> QED BY <2>2, <3>1, <3>2 DEF TypeOK
  <2> QED BY <2>3, <2>4, <2>6 DEF Sized
<1>6. CASE UNCHANGED vars
  BY <1>6 DEF vars, TypeOK, Sized
<1> QED BY <1>1, <1>2, <1>3, <1>4, <1>5, <1>6 DEF Next

(* Every variable of the node and of L0 keeps its type.                    *)
THEOREM TypeCorrect == Spec => []TypeOK
<1>1. TypeOK /\ Sized /\ [Next]_vars => TypeOK' /\ Sized'
  BY NextSized
<1> QED BY <1>1, InitSized, PTL DEF Spec

-----------------------------------------------------------------------------
(***************************************************************************)
(* When leaves were recorded                                               *)
(***************************************************************************)

(* The windows of L0 end by now and follow on each other.                  *)
WindowsOrdered ==
  \A tx \in 1 .. Len(l0) :
    /\ l0[tx].first =< l0[tx].last /\ l0[tx].last =< height
    /\ l0[tx].last # 0 => \A earlier \in 1 .. tx - 1 : l0[earlier].last < l0[tx].first

(* A leaf was recorded by now, and by the end of a window it is anchored in. *)
RecordedByNow ==
  /\ \A k \in 1 .. Len(since) : since[k] =< height
  /\ \A tx \in 1 .. Len(l0) : l0[tx].last # 0 =>
       \A k \in 1 .. Len(l0[tx].since) : l0[tx].since[k] =< l0[tx].last

(* A leaf beyond an anchored tree was recorded after its anchor: when the  *)
(* anchor was made, the history did not reach so far.                      *)
RecordedAfterAnchors ==
  \A tx \in 1 .. Len(l0) :
    /\ \A k \in 1 .. Len(since) : k > l0[tx].root.size => l0[tx].last =< since[k]
    /\ \A later \in tx + 1 .. Len(l0) : \A k \in 1 .. Len(l0[later].since) :
         k > l0[tx].root.size => l0[tx].last =< l0[later].since[k]

InTime == WindowsOrdered /\ RecordedByNow /\ RecordedAfterAnchors

LEMMA InitInTime == Init => InTime
BY DEF Init, InTime, WindowsOrdered, RecordedByNow, RecordedAfterAnchors

LEMMA RecordInTime ==
  ASSUME TypeOK, InTime, UNCHANGED <<height, l0>>,
         NEW leafRoot \in Roots, NEW consumer \in Outcomes \cup {None},
         Record(leafRoot, consumer)
  PROVE  InTime'
<1>1. /\ Len(since') = Len(since) + 1 /\ since' \in Seq(Heights)
      /\ \A k \in 1 .. Len(since) : since'[k] = since[k]
      /\ since'[Len(since) + 1] = height
  BY RecordType
<1>2. \A k \in 1 .. Len(since') : since'[k] = height \/ (k \in 1 .. Len(since) /\ since'[k] = since[k])
  BY <1>1, Numbers
<1>3. WindowsOrdered'
  BY DEF InTime, WindowsOrdered
<1>4. RecordedByNow'
  <2>1. \A k \in 1 .. Len(since') : since'[k] =< height
    BY <1>2, Numbers DEF InTime, RecordedByNow
  <2> QED BY <2>1 DEF InTime, RecordedByNow
<1>5. ASSUME NEW tx \in 1 .. Len(l0), NEW k \in 1 .. Len(since'), k > l0[tx].root.size
      PROVE  l0[tx].last =< since'[k]
  BY <1>2, <1>5 DEF InTime, RecordedAfterAnchors, WindowsOrdered
<1>6. RecordedAfterAnchors'
  BY <1>5 DEF InTime, RecordedAfterAnchors
<1> QED BY <1>3, <1>4, <1>6 DEF InTime

LEMMA RestoreInTime ==
  ASSUME TypeOK, Sized, InTime, NEW size \in 0 .. MaxRecords, Restore(size)
  PROVE  InTime'
<1>1. /\ Len(since') = size /\ size < Len(since)
      /\ \A k \in 1 .. size : since'[k] = since[k]
  BY RestoreType DEF Sized
<1>2. \A k \in 1 .. Len(since') : k \in 1 .. Len(since) /\ since'[k] = since[k]
  BY <1>1 DEF TypeOK
<1>3. UNCHANGED <<height, l0>>
  BY DEF Restore
<1>4. WindowsOrdered'
  BY <1>3 DEF InTime, WindowsOrdered
<1>5. RecordedByNow'
  BY <1>2, <1>3 DEF InTime, RecordedByNow
<1>6. RecordedAfterAnchors'
  BY <1>2, <1>3 DEF InTime, RecordedAfterAnchors
<1> QED BY <1>4, <1>5, <1>6 DEF InTime

LEMMA AnchorInTime ==
  ASSUME TypeOK, Sized, InTime, Anchor
  PROVE  InTime'
<1>1. PICK w \in Windows : l0' = Append(l0, Entry(w))
  BY DEF Anchor, Entry
<1>2. /\ l0' \in Seq(Entries) /\ Len(l0') = Len(l0) + 1
      /\ \A tx \in 1 .. Len(l0) : l0'[tx] = l0[tx]
      /\ l0'[Len(l0) + 1] = Entry(w)
  BY <1>1, AnchorType
<1>3. UNCHANGED <<height, since>>
  BY DEF Anchor
<1>4. /\ Entry(w).first = w[1] /\ Entry(w).last = w[2] /\ Entry(w).since = since
      /\ Entry(w).root.size = Len(history)
  BY DEF Entry, Seal
<1>5. /\ w[1] \in Nat /\ w[2] \in Nat /\ w[1] =< w[2] /\ w[2] =< height
      /\ w[2] # 0 => \A tx \in 1 .. Len(l0) : l0[tx].last < w[1]
  BY WindowFacts DEF TypeOK
<1>6. \A tx \in 1 .. Len(l0') : tx \in 1 .. Len(l0) \/ tx = Len(l0) + 1
  BY <1>2 DEF TypeOK
<1>7. WindowsOrdered'
  <2>1. ASSUME NEW tx \in 1 .. Len(l0')
        PROVE  /\ l0'[tx].first =< l0'[tx].last /\ l0'[tx].last =< height
               /\ l0'[tx].last # 0 => \A earlier \in 1 .. tx - 1 : l0'[earlier].last < l0'[tx].first
    <3>1. CASE tx \in 1 .. Len(l0)
      <4>1. \A earlier \in 1 .. tx - 1 : l0'[earlier] = l0[earlier]
        BY <1>2, <3>1, Numbers
      <4> QED BY <1>2, <3>1, <4>1 DEF InTime, WindowsOrdered
    <3>2. CASE tx = Len(l0) + 1
      <4>1. l0'[tx].first = w[1] /\ l0'[tx].last = w[2]
        BY <1>2, <1>4, <3>2
      <4>2. \A earlier \in 1 .. tx - 1 : earlier \in 1 .. Len(l0) /\ l0'[earlier] = l0[earlier]
        BY <1>2, <3>2, Numbers
      <4> QED BY <1>5, <4>1, <4>2
    <3> QED BY <1>6, <3>1, <3>2
  <2> QED BY <1>3, <2>1 DEF WindowsOrdered
<1>8. RecordedByNow'
  <2>1. ASSUME NEW tx \in 1 .. Len(l0'), l0'[tx].last # 0,
               NEW k \in 1 .. Len(l0'[tx].since)
        PROVE  l0'[tx].since[k] =< l0'[tx].last
    <3>1. CASE tx \in 1 .. Len(l0)
      BY <1>2, <2>1, <3>1 DEF InTime, RecordedByNow
    <3>2. CASE tx = Len(l0) + 1
      <4>1. w[2] = height
        BY <1>2, <1>4, <2>1, <3>2 DEF Windows
      <4> QED BY <1>2, <1>4, <2>1, <3>2, <4>1 DEF InTime, RecordedByNow
    <3> QED BY <1>6, <3>1, <3>2
  <2> QED BY <1>3, <2>1 DEF InTime, RecordedByNow
<1>9. RecordedAfterAnchors'
  <2>1. ASSUME NEW tx \in 1 .. Len(l0'), NEW k \in 1 .. Len(since), k > l0'[tx].root.size
        PROVE  l0'[tx].last =< since[k]
    <3>1. CASE tx \in 1 .. Len(l0)
      BY <1>2, <2>1, <3>1 DEF InTime, RecordedAfterAnchors
    <3>2. CASE tx = Len(l0) + 1
      BY <1>2, <1>4, <2>1, <3>2 DEF Sized, TypeOK
    <3> QED BY <1>6, <3>1, <3>2
  <2>2. ASSUME NEW tx \in 1 .. Len(l0'), NEW later \in tx + 1 .. Len(l0'),
               NEW k \in 1 .. Len(l0'[later].since), k > l0'[tx].root.size
        PROVE  l0'[tx].last =< l0'[later].since[k]
    <3>1. tx \in 1 .. Len(l0)
      BY <1>2 DEF TypeOK
    <3>2. CASE later \in 1 .. Len(l0)
      BY <1>2, <2>2, <3>1, <3>2 DEF InTime, RecordedAfterAnchors
    <3>3. CASE later = Len(l0) + 1
      BY <1>2, <1>4, <2>1, <2>2, <3>3
    <3> QED BY <1>6, <3>2, <3>3
  <2> QED BY <1>3, <2>1, <2>2 DEF RecordedAfterAnchors
<1> QED BY <1>7, <1>8, <1>9 DEF InTime

LEMMA NextInTime ==
  ASSUME TypeOK, Sized, InTime, [Next]_vars
  PROVE  InTime'
<1>1. CASE NewBlock
  <2>1. height < height' /\ UNCHANGED <<since, l0>> /\ height \in Nat /\ height' \in Nat
    BY <1>1 DEF NewBlock, TypeOK, Heights
  <2>2. WindowsOrdered'
    <3>1. \A tx \in 1 .. Len(l0) : l0[tx].last \in Nat
      BY Numbers
    <3> QED BY <2>1, <3>1 DEF InTime, WindowsOrdered
  <2>3. RecordedByNow'
    <3>1. \A k \in 1 .. Len(since) : since[k] \in Nat
      BY Numbers
    <3> QED BY <2>1, <3>1 DEF InTime, RecordedByNow
  <2>4. RecordedAfterAnchors'
    BY <2>1 DEF InTime, RecordedAfterAnchors
  <2> QED BY <2>2, <2>3, <2>4 DEF InTime
<1>2. CASE ChangeRoot
  <2>1. root' \in Roots /\ Record(root', None) /\ UNCHANGED <<height, l0>>
    BY <1>2 DEF ChangeRoot
  <2> QED BY <2>1, RecordInTime
<1>3. ASSUME NEW outcome \in Outcomes, Consume(outcome) PROVE InTime'
  <2>1. root \in Roots /\ Record(root, outcome) /\ UNCHANGED <<height, l0>>
    BY <1>3 DEF Consume, TypeOK
  <2> QED BY <2>1, RecordInTime
<1>4. ASSUME NEW size \in 0 .. MaxRecords, Restore(size) PROVE InTime'
  BY <1>4, RestoreInTime
<1>5. CASE Anchor
  BY <1>5, AnchorInTime
<1>6. CASE UNCHANGED vars
  BY <1>6 DEF vars, InTime, WindowsOrdered, RecordedByNow, RecordedAfterAnchors
<1> QED BY <1>1, <1>2, <1>3, <1>4, <1>5, <1>6 DEF Next

Inductive == TypeOK /\ Sized /\ InTime

LEMMA Invariant == Spec => []Inductive
<1>1. Init => Inductive
  BY InitSized, InitInTime DEF Inductive
<1>2. Inductive /\ [Next]_vars => Inductive'
  BY NextSized, NextInTime DEF Inductive
<1> QED BY <1>1, <1>2, PTL DEF Spec

-----------------------------------------------------------------------------
(***************************************************************************)
(* What an accepted document shows                                         *)
(***************************************************************************)

(* All the guards of the check, in its order.                              *)
LEMMA AcceptedMeans ==
  ASSUME NEW doc, NEW bundle, NEW reader, Accepted(doc, bundle, reader)
  PROVE  /\ ~Unbindable(doc, bundle) /\ ~OfAnotherBundle(doc, bundle) /\ ProvesIntoSeal(doc)
         /\ Lists(reader, doc.anchor, doc.accumulatorRoot) /\ HasWindow(reader, doc.anchor)
         /\ ~AfterCover(doc.leafHeight, l0[doc.anchor])
         /\ doc.prior # None /\ PriorIsPrefix(doc, doc.prior)
         /\ ~InsidePrior(doc.leafIndex, doc.prior.treeSize)
         /\ Lists(reader, doc.prior.anchor, doc.prior.accumulatorRoot)
         /\ HasWindow(reader, doc.prior.anchor)
         /\ ~BeforePrior(doc.leafHeight, l0[doc.prior.anchor])
BY DEF Accepted, VerifyStateRootOfExport, CheckStateRootProof

(* The seal that L0 lists is of a tree that has the leaf at its place.     *)
LEMMA CoverHoldsLeaf ==
  ASSUME Inductive, NEW doc \in DocumentType, NEW reader,
         ProvesIntoSeal(doc), Lists(reader, doc.anchor, doc.accumulatorRoot)
  PROVE  /\ doc.anchor \in 1 .. Len(l0)
         /\ SizeOf(doc.anchor) = doc.treeSize /\ doc.leafIndex < doc.treeSize
         /\ TreeOf(doc.anchor) \in Seq(Leaves) /\ Len(TreeOf(doc.anchor)) = doc.treeSize
         /\ TreeOf(doc.anchor)[doc.leafIndex + 1] = LeafOf(doc)
<1>1. /\ doc.leafIndex \in Nat /\ doc.treeSize \in Nat /\ doc.path \in Seq(Leaves)
      /\ doc.accumulatorRoot \in Seals
  BY DEF DocumentType
<1>2. doc.anchor \in 1 .. Len(l0) /\ doc.accumulatorRoot = l0[doc.anchor].root
  BY DEF Lists, Inductive, TypeOK
<1>3. /\ doc.leafIndex < doc.treeSize /\ doc.treeSize = Len(doc.path)
      /\ Seal(doc.treeSize, [doc.path EXCEPT ![doc.leafIndex + 1] = LeafOf(doc)])
           = doc.accumulatorRoot
  BY <1>1, AbsenceAssumption DEF ProvesIntoSeal, SealedRootOf
<1>4. /\ SizeOf(doc.anchor) = doc.treeSize
      /\ TreeOf(doc.anchor) = [doc.path EXCEPT ![doc.leafIndex + 1] = LeafOf(doc)]
  BY <1>2, <1>3 DEF Seal, SizeOf, TreeOf
<1>5. doc.leafIndex + 1 \in 1 .. Len(doc.path)
  BY <1>1, <1>3
<1>6. TreeOf(doc.anchor)[doc.leafIndex + 1] = LeafOf(doc)
  BY <1>1, <1>4, <1>5
<1>7. TreeOf(doc.anchor) \in Seq(Leaves) /\ Len(TreeOf(doc.anchor)) = SizeOf(doc.anchor)
  BY <1>2, Numbers DEF Inductive, Sized, TreeOf, SizeOf
<1> QED BY <1>2, <1>3, <1>4, <1>6, <1>7

(* The prior seal that L0 lists is of a beginning of that tree, and of a   *)
(* proper one if it does not hold the leaf.                                *)
LEMMA PriorIsABeginning ==
  ASSUME Inductive, NEW doc \in DocumentType, NEW reader,
         ProvesIntoSeal(doc), Lists(reader, doc.anchor, doc.accumulatorRoot),
         doc.prior # None, PriorIsPrefix(doc, doc.prior),
         Lists(reader, doc.prior.anchor, doc.prior.accumulatorRoot),
         ~InsidePrior(doc.leafIndex, doc.prior.treeSize)
  PROVE  /\ doc.prior.anchor \in 1 .. Len(l0)
         /\ SizeOf(doc.prior.anchor) =< doc.leafIndex
         /\ SubSeq(TreeOf(doc.anchor), 1, SizeOf(doc.prior.anchor)) = TreeOf(doc.prior.anchor)
<1> DEFINE prior == doc.prior
           coverTree == VerifyConsistency(prior.treeSize, doc.treeSize, prior.mth, prior.consistency)
<1>1. prior \in PriorType
  BY DEF DocumentType
<1>2. /\ prior.treeSize \in Nat /\ prior.mth \in Seq(Leaves) /\ prior.accumulatorRoot \in Seals
      /\ doc.leafIndex \in Nat /\ doc.treeSize \in Nat
  BY <1>1 DEF PriorType, DocumentType
<1>3. prior.anchor \in 1 .. Len(l0) /\ prior.accumulatorRoot = l0[prior.anchor].root
  BY DEF Lists, Inductive, TypeOK
<1>4. /\ Seal(prior.treeSize, prior.mth) = prior.accumulatorRoot
      /\ coverTree # Refused /\ Seal(doc.treeSize, coverTree) = doc.accumulatorRoot
  BY DEF PriorIsPrefix
<1>5. SizeOf(prior.anchor) = prior.treeSize /\ TreeOf(prior.anchor) = prior.mth
  BY <1>3, <1>4 DEF Seal, SizeOf, TreeOf
<1>6. coverTree = TreeOf(doc.anchor)
  BY <1>4 DEF Seal, TreeOf, Lists
<1>7. prior.treeSize =< doc.leafIndex /\ doc.leafIndex < doc.treeSize
  BY SMTT(30), <1>2, CoverHoldsLeaf DEF InsidePrior
<1>8. coverTree = prior.consistency /\ SubSeq(prior.consistency, 1, prior.treeSize) = prior.mth
  BY <1>2, <1>4, <1>7 DEF VerifyConsistency
<1> QED BY <1>3, <1>5, <1>6, <1>7, <1>8

(* The leaf was recorded after the prior anchor and before the covering    *)
(* one, which is a later one.                                              *)
LEMMA LeafIsDated ==
  ASSUME Inductive, NEW cover \in 1 .. Len(l0), NEW prior \in 1 .. Len(l0), NEW index \in Nat,
         NEW leafHeight \in Nat,
         index < SizeOf(cover), SizeOf(prior) =< index,
         l0[cover].last # 0, l0[prior].last # 0,
         leafHeight =< l0[cover].last, l0[prior].first =< leafHeight
  PROVE  l0[cover].since[index + 1] \in l0[prior].first .. l0[cover].last
<1>1. /\ l0[cover].first \in Nat /\ l0[cover].last \in Nat /\ SizeOf(cover) \in Nat
      /\ l0[prior].first \in Nat /\ l0[prior].last \in Nat /\ SizeOf(prior) \in Nat
      /\ \A k \in 1 .. Len(l0[cover].since) : l0[cover].since[k] \in Nat
  BY Numbers DEF Inductive, SizeOf
<1>2. Len(l0[cover].since) = SizeOf(cover)
  BY DEF Inductive, Sized, SizeOf
<1>3. index + 1 \in 1 .. Len(l0[cover].since)
  BY <1>1, <1>2
<1>4. prior < cover
  <2>1. prior # cover
    BY <1>1
  <2>2. CASE cover < prior
    <3>1. l0[cover].last < l0[prior].first
      BY <1>1, <2>2 DEF Inductive, InTime, WindowsOrdered
    <3> QED BY <1>1, <3>1
  <2> QED BY <2>1, <2>2
<1>5. l0[prior].last =< l0[cover].since[index + 1]
  <2>1. cover \in prior + 1 .. Len(l0)
    BY <1>4
  <2>2. index + 1 > l0[prior].root.size
    BY <1>1 DEF SizeOf
  <2> QED BY <1>3, <2>1, <2>2 DEF Inductive, InTime, RecordedAfterAnchors
<1>6. l0[prior].first =< l0[prior].last
  BY DEF Inductive, InTime, WindowsOrdered
<1>7. l0[cover].since[index + 1] =< l0[cover].last
  BY <1>3 DEF Inductive, InTime, RecordedByNow
<1> QED BY SMTT(30), <1>1, <1>3, <1>5, <1>6, <1>7

LEMMA WindowMeans ==
  ASSUME Inductive, NEW reader, NEW tx \in 1 .. Len(l0), HasWindow(reader, tx)
  PROVE  l0[tx].last # 0
<1>1. l0[tx].first =< l0[tx].last /\ l0[tx].first \in Nat /\ l0[tx].last \in Nat
  BY Numbers DEF Inductive, InTime, WindowsOrdered
<1> QED BY <1>1 DEF HasWindow

-----------------------------------------------------------------------------
(***************************************************************************)
(* The documents that StateRoot puts together                              *)
(***************************************************************************)

LEMMA TreesTyped ==
  ASSUME Inductive
  PROVE  Trees \subseteq Seq(Leaves) /\ Txs = 1 .. Len(l0)
<1>1. Txs = 1 .. Len(l0)
  BY DEF Txs, Inductive, TypeOK
<1>2. \A tx \in Txs : TreeOf(tx) \in Seq(Leaves)
  BY <1>1, Numbers DEF Inductive, TreeOf
<1>3. history \in Seq(Leaves)
  BY DEF Inductive, TypeOK
<1> QED BY <1>1, <1>2, <1>3 DEF Trees

LEMMA PriorTyped ==
  ASSUME Inductive, NEW tx \in Txs, NEW cover \in Txs
  PROVE  PriorAt(tx, cover) \in PriorType
<1>1. /\ tx \in Nat /\ l0[tx].root \in Seals /\ SizeOf(tx) \in Nat
      /\ TreeOf(tx) \in Seq(Leaves) /\ TreeOf(cover) \in Seq(Leaves)
  BY TreesTyped, Numbers DEF Inductive, SizeOf, TreeOf
<1> QED BY <1>1 DEF PriorAt, PriorType

LEMMA ExportTyped ==
  ASSUME Inductive, NEW cover \in Txs, NEW i \in 1 .. SizeOf(cover), NEW prior \in Txs \cup {None}
  PROVE  Exported(i - 1, cover, prior) \in DocumentType
<1>1. /\ cover \in Nat /\ l0[cover].root \in Seals /\ SizeOf(cover) \in Nat
      /\ TreeOf(cover) \in Seq(Leaves) /\ Len(TreeOf(cover)) = SizeOf(cover)
  BY TreesTyped, Numbers DEF Inductive, Sized, SizeOf, TreeOf
<1>2. i - 1 \in Nat /\ (i - 1) + 1 = i
  BY <1>1
<1>3. TreeOf(cover)[(i - 1) + 1] \in Leaves
  BY <1>1, <1>2
<1>4. \A leaf \in Leaves :
        leaf.height \in Nat /\ leaf.root \in Roots /\ leaf.consumer \in Outcomes \cup {None}
  BY DEF Leaves, Heights
<1>5. (IF prior = None THEN None ELSE PriorAt(prior, cover)) \in PriorType \cup {None}
  BY PriorTyped
<1> QED BY <1>1, <1>2, <1>3, <1>4, <1>5 DEF Exported, DocumentType

LEMMA PriorWithTyped ==
  ASSUME Inductive, NEW doc \in DocumentType, doc.prior \in PriorType
  PROVE  PriorWith(doc) \subseteq PriorType
<1> SUFFICES ASSUME NEW p \in PriorWith(doc) PROVE p \in PriorType
  OBVIOUS
<1>1. ASSUME NEW tx \in Txs PROVE [doc.prior EXCEPT !.anchor = tx] \in PriorType
  BY TreesTyped DEF PriorType
<1>2. ASSUME NEW n \in 0 .. MaxRecords PROVE [doc.prior EXCEPT !.treeSize = n] \in PriorType
  BY DEF PriorType
<1>3. ASSUME NEW tree \in Trees PROVE [doc.prior EXCEPT !.mth = tree] \in PriorType
  BY TreesTyped DEF PriorType
<1>4. ASSUME NEW tree \in Trees PROVE [doc.prior EXCEPT !.consistency = tree] \in PriorType
  BY TreesTyped DEF PriorType
<1> QED BY <1>1, <1>2, <1>3, <1>4 DEF PriorWith

LEMMA DocumentsTyped ==
  ASSUME Inductive, NEW d \in Documents
  PROVE  d \in DocumentType
<1>1. PICK base \in Assembled : d \in With(base)
  BY DEF Documents
<1>2. PICK cover \in Txs :
        base \in {Exported(i - 1, cover, prior) : i \in 1 .. SizeOf(cover), prior \in Txs}
  BY DEF Assembled
<1>3. PICK i \in 1 .. SizeOf(cover), prior \in Txs : base = Exported(i - 1, cover, prior)
  BY <1>2
<1>4. base \in DocumentType
  BY <1>3, ExportTyped
<1>5. base.prior \in PriorType
  BY <1>3, PriorTyped, TreesTyped, AbsenceAssumption DEF Exported
<1>6. ASSUME NEW outcome \in Outcomes PROVE [base EXCEPT !.consumer = outcome] \in DocumentType
  BY <1>4 DEF DocumentType
<1>7. ASSUME NEW other \in Roots PROVE [base EXCEPT !.stateRoot = other] \in DocumentType
  BY <1>4 DEF DocumentType
<1>8. ASSUME NEW h \in Heights PROVE [base EXCEPT !.leafHeight = h] \in DocumentType
  BY <1>4 DEF DocumentType, Heights
<1>9. ASSUME NEW n \in 0 .. MaxRecords
      PROVE  /\ [base EXCEPT !.leafIndex = n] \in DocumentType
             /\ [base EXCEPT !.treeSize = n] \in DocumentType
  BY SMTT(30), <1>4 DEF DocumentType
<1>10. ASSUME NEW tree \in Trees PROVE [base EXCEPT !.path = tree] \in DocumentType
  BY <1>4, TreesTyped DEF DocumentType
<1>11. ASSUME NEW tx \in Txs \cup {None} PROVE [base EXCEPT !.anchor = tx] \in DocumentType
  BY SMTT(30), <1>4, TreesTyped DEF DocumentType
<1>12. ASSUME NEW p \in PriorWith(base) \cup {None} PROVE [base EXCEPT !.prior = p] \in DocumentType
  BY <1>4, <1>5, PriorWithTyped DEF DocumentType
<1>13. /\ [base EXCEPT !.status = "awaiting_anchor"] \in DocumentType
       /\ [base EXCEPT !.version = 1] \in DocumentType
  BY <1>4 DEF DocumentType
<1> QED BY <1>1, <1>4, <1>6, <1>7, <1>8, <1>9, <1>10, <1>11, <1>12, <1>13 DEF With

-----------------------------------------------------------------------------
(***************************************************************************)
(* What is accepted is true                                                *)
(***************************************************************************)

LEMMA RecordedLeaf ==
  ASSUME Inductive, NEW doc \in DocumentType, NEW bundle, NEW reader, Accepted(doc, bundle, reader)
  PROVE  TreeOf(doc.anchor)[doc.leafIndex + 1] =
           [height |-> doc.leafHeight, root |-> bundle.root, consumer |-> bundle.outcome]
<1>1. doc.consumer = bundle.outcome /\ doc.stateRoot = bundle.root
  BY AcceptedMeans DEF OfAnotherBundle
<1>2. TreeOf(doc.anchor)[doc.leafIndex + 1] = LeafOf(doc)
  BY AcceptedMeans, CoverHoldsLeaf
<1> QED BY <1>1, <1>2 DEF LeafOf

(* A bundle is accepted only if the node recorded a leaf for its own       *)
(* outcome and its own root, where and with the height that the document   *)
(* says.                                                                   *)
THEOREM AcceptedWasRecorded == Spec => []AcceptedIsRecorded
<1>1. Inductive => AcceptedIsRecorded
  BY DocumentsTyped, RecordedLeaf DEF AcceptedIsRecorded
<1> QED BY <1>1, Invariant, PTL

(* The two anchors of an accepted bundle are of one history.               *)
THEOREM AcceptedHasOneHistory == Spec => []AcceptedOfOneHistory
<1>1. ASSUME Inductive, NEW doc \in Documents, NEW bundle \in Bundles, Accepted(doc, bundle, "l0")
      PROVE  /\ SizeOf(doc.prior.anchor) =< doc.leafIndex
             /\ SubSeq(TreeOf(doc.anchor), 1, SizeOf(doc.prior.anchor)) = TreeOf(doc.prior.anchor)
  BY <1>1, DocumentsTyped, AcceptedMeans, PriorIsABeginning
<1>2. Inductive => AcceptedOfOneHistory
  BY <1>1 DEF AcceptedOfOneHistory
<1> QED BY <1>2, Invariant, PTL

(* The leaf of an accepted bundle was recorded in the span of its anchors, *)
(* whatever height the node stated for it.                                 *)
THEOREM AcceptedWasDated == Spec => []AcceptedIsDated
<1>1. ASSUME Inductive, NEW doc \in Documents, NEW bundle \in Bundles, Accepted(doc, bundle, "l0")
      PROVE  l0[doc.anchor].since[doc.leafIndex + 1]
               \in l0[doc.prior.anchor].first .. l0[doc.anchor].last
  <2>1. doc \in DocumentType
    BY <1>1, DocumentsTyped
  <2>2. doc.anchor \in 1 .. Len(l0) /\ doc.leafIndex < SizeOf(doc.anchor)
    BY <1>1, <2>1, AcceptedMeans, CoverHoldsLeaf
  <2>3. doc.prior.anchor \in 1 .. Len(l0) /\ SizeOf(doc.prior.anchor) =< doc.leafIndex
    BY <1>1, <2>1, AcceptedMeans, PriorIsABeginning
  <2>4. l0[doc.anchor].last # 0 /\ l0[doc.prior.anchor].last # 0
    BY <1>1, <2>2, <2>3, AcceptedMeans, WindowMeans
  <2>5. /\ doc.leafHeight \in Nat /\ doc.leafIndex \in Nat
        /\ l0[doc.anchor].last \in Nat /\ l0[doc.prior.anchor].first \in Nat
    BY <1>1, <2>1, <2>2, <2>3, Numbers DEF DocumentType, Inductive
  <2>6. doc.leafHeight =< l0[doc.anchor].last /\ l0[doc.prior.anchor].first =< doc.leafHeight
    BY <1>1, <2>5, AcceptedMeans DEF AfterCover, BeforePrior
  <2> QED BY <1>1, <2>2, <2>3, <2>4, <2>5, <2>6, LeafIsDated
<1>2. Inductive => AcceptedIsDated
  BY <1>1 DEF AcceptedIsDated
<1> QED BY <1>2, Invariant, PTL

-----------------------------------------------------------------------------
(***************************************************************************)
(* What is true is not refused                                             *)
(***************************************************************************)

LEMMA ExportProves ==
  ASSUME Inductive, NEW cover \in Txs, NEW i \in 1 .. SizeOf(cover), NEW prior \in PriorsFor(i - 1, cover)
  PROVE  ProvesIntoSeal(Exported(i - 1, cover, prior))
<1> DEFINE tree == TreeOf(cover)
           doc == Exported(i - 1, cover, prior)
<1>1. /\ SizeOf(cover) \in Nat /\ tree \in Seq(Leaves) /\ Len(tree) = SizeOf(cover)
      /\ l0[cover].root \in Seals
  BY TreesTyped, Numbers DEF Inductive, Sized, SizeOf, TreeOf
<1>2. i - 1 < SizeOf(cover) /\ (i - 1) + 1 = i /\ i - 1 \in Nat
  BY <1>1
<1>3. tree[i] \in Leaves
  BY <1>1
<1>4. LeafOf(doc) = tree[i]
  BY <1>2, <1>3 DEF Exported, LeafOf, Leaves
<1>5. [tree EXCEPT ![i] = tree[i]] = tree
  BY <1>1
<1>6. Seal(SizeOf(cover), tree) = l0[cover].root
  BY <1>1 DEF Seal, SizeOf, TreeOf, Seals
<1>7. /\ doc.leafIndex = i - 1 /\ doc.treeSize = SizeOf(cover) /\ doc.path = tree
      /\ doc.accumulatorRoot = l0[cover].root
  BY DEF Exported
<1>8. SealedRootOf(i - 1, SizeOf(cover), tree[i], tree) = l0[cover].root
  BY <1>1, <1>2, <1>5, <1>6 DEF SealedRootOf
<1> QED BY <1>4, <1>7, <1>8 DEF ProvesIntoSeal

LEMMA ExportHasPrior ==
  ASSUME Inductive, NEW cover \in Txs, NEW i \in 1 .. SizeOf(cover),
         NEW prior \in PriorsFor(i - 1, cover), prior # None
  PROVE  LET doc == Exported(i - 1, cover, prior)
         IN /\ prior \in 1 .. cover - 1 /\ SizeOf(prior) < i
            /\ doc.prior = PriorAt(prior, cover)
            /\ PriorIsPrefix(doc, doc.prior)
            /\ ~InsidePrior(doc.leafIndex, doc.prior.treeSize)
<1> DEFINE doc == Exported(i - 1, cover, prior)
<1>1. /\ prior \in 1 .. cover - 1 /\ SizeOf(prior) =< i - 1
      /\ SubSeq(TreeOf(cover), 1, SizeOf(prior)) = TreeOf(prior)
  BY DEF PriorsFor
<1>2. cover \in 1 .. Len(l0) /\ prior \in 1 .. Len(l0)
  BY <1>1, TreesTyped, Numbers DEF Inductive
<1>3. /\ SizeOf(cover) \in Nat /\ SizeOf(prior) \in Nat /\ SizeOf(prior) > 0
      /\ TreeOf(cover) \in Seq(Leaves) /\ Len(TreeOf(cover)) = SizeOf(cover)
      /\ l0[cover].root \in Seals /\ l0[prior].root \in Seals
  BY <1>2, Numbers DEF Inductive, Sized, SizeOf, TreeOf
<1>4. SizeOf(prior) < i /\ SizeOf(prior) < SizeOf(cover) /\ ~(i - 1 < SizeOf(prior))
  BY <1>1, <1>3
<1>5. /\ doc.prior = PriorAt(prior, cover)
      /\ doc.treeSize = SizeOf(cover) /\ doc.accumulatorRoot = l0[cover].root
      /\ doc.leafIndex = i - 1
  BY DEF Exported
<1>6. /\ doc.prior.treeSize = SizeOf(prior) /\ doc.prior.mth = TreeOf(prior)
      /\ doc.prior.accumulatorRoot = l0[prior].root /\ doc.prior.consistency = TreeOf(cover)
  BY <1>4, <1>5, <1>3 DEF PriorAt
<1>7. /\ Seal(SizeOf(cover), TreeOf(cover)) = l0[cover].root
      /\ Seal(SizeOf(prior), TreeOf(prior)) = l0[prior].root
  BY <1>3 DEF Seal, SizeOf, TreeOf, Seals
<1>8. VerifyConsistency(SizeOf(prior), SizeOf(cover), TreeOf(prior), TreeOf(cover)) = TreeOf(cover)
  BY <1>1, <1>3, <1>4 DEF VerifyConsistency
<1>9. PriorIsPrefix(doc, doc.prior)
  BY <1>3, <1>5, <1>6, <1>7, <1>8, AbsenceAssumption DEF PriorIsPrefix
<1>10. ~InsidePrior(doc.leafIndex, doc.prior.treeSize)
  BY <1>4, <1>5, <1>6 DEF InsidePrior
<1> QED BY <1>1, <1>4, <1>5, <1>9, <1>10

LEMMA ExportInTime ==
  ASSUME Inductive, NEW cover \in 1 .. Len(l0), NEW i \in 1 .. SizeOf(cover)
  PROVE  /\ l0[cover].since[i] \in Nat
         /\ l0[cover].last # 0 => ~AfterCover(l0[cover].since[i], l0[cover])
         /\ \A prior \in 1 .. cover - 1 :
              SizeOf(prior) < i => ~BeforePrior(l0[cover].since[i], l0[prior])
<1>1. /\ SizeOf(cover) \in Nat /\ Len(l0[cover].since) = SizeOf(cover)
      /\ \A k \in 1 .. Len(l0[cover].since) : l0[cover].since[k] \in Nat
      /\ \A tx \in 1 .. Len(l0) : l0[tx].first \in Nat /\ l0[tx].last \in Nat
  BY Numbers DEF Inductive, Sized, SizeOf
<1>2. l0[cover].since[i] \in Nat
  BY <1>1
<1>3. l0[cover].last # 0 => ~AfterCover(l0[cover].since[i], l0[cover])
  BY <1>1, <1>2 DEF AfterCover, Inductive, InTime, RecordedByNow
<1>4. ASSUME NEW prior \in 1 .. cover - 1, SizeOf(prior) < i
      PROVE  ~BeforePrior(l0[cover].since[i], l0[prior])
  <2>1. prior \in 1 .. Len(l0) /\ cover \in prior + 1 .. Len(l0)
    BY Numbers DEF Inductive
  <2>2. l0[prior].last =< l0[cover].since[i]
    BY <1>1, <1>4, <2>1 DEF Inductive, InTime, RecordedAfterAnchors, SizeOf
  <2>3. l0[prior].first =< l0[prior].last
    BY <2>1 DEF Inductive, InTime, WindowsOrdered
  <2> QED BY <1>1, <1>2, <2>1, <2>2, <2>3 DEF BeforePrior
<1> QED BY <1>2, <1>3, <1>4

(* What the node exports is never refused, and is accepted once both its   *)
(* anchors carry a window, whatever the node and L0 have done since.       *)
THEOREM ExportIsNeverRefused == Spec => []ExportNeverRefused
<1>1. ASSUME Inductive, NEW cover \in Txs, NEW i \in 1 .. SizeOf(cover),
             NEW prior \in PriorsFor(i - 1, cover), NEW reader \in {"l0", "roots", "none"},
             TreeOf(cover)[i].consumer # None, TreeOf(cover)[i].height = l0[cover].since[i]
      PROVE  LET leaf == TreeOf(cover)[i]
                 verdict == CheckStateRootProof(Exported(i - 1, cover, prior),
                              [root |-> leaf.root, outcome |-> leaf.consumer], reader)
             IN /\ verdict # "fail"
                /\ (prior # None /\ l0[cover].last # 0 /\ l0[prior].last # 0 /\ reader = "l0")
                     => verdict = "pass"
  <2> DEFINE leaf == TreeOf(cover)[i]
             doc == Exported(i - 1, cover, prior)
             bundle == [root |-> leaf.root, outcome |-> leaf.consumer]
  <2>1. cover \in 1 .. Len(l0) /\ SizeOf(cover) \in Nat /\ leaf \in Leaves
    BY SMTT(30), <1>1, TreesTyped, Numbers DEF Inductive, Sized, SizeOf, TreeOf
  <2>2. (i - 1) + 1 = i
    BY <2>1
  <2>3. /\ doc.status = "proven" /\ doc.version = 2
        /\ doc.consumer = leaf.consumer /\ doc.stateRoot = leaf.root
        /\ doc.leafHeight = l0[cover].since[i] /\ doc.anchor = cover
        /\ doc.accumulatorRoot = l0[cover].root
        /\ prior = None => doc.prior = None
        /\ prior # None => doc.prior = PriorAt(prior, cover)
    BY <1>1, <2>2 DEF Exported
  <2>4. ~OfAnotherBundle(doc, bundle)
    BY <2>1, <2>3, AbsenceAssumption DEF OfAnotherBundle, Leaves
  <2>5. ProvesIntoSeal(doc)
    BY <1>1, ExportProves
  <2>6. reader # "none" => Lists(reader, doc.anchor, doc.accumulatorRoot)
    BY <1>1, <2>3 DEF Lists, Txs
  <2>7. HasWindow(reader, doc.anchor) => ~AfterCover(doc.leafHeight, l0[doc.anchor])
    BY <1>1, <2>1, <2>3, WindowMeans, ExportInTime
  <2>8. ASSUME prior # None
        PROVE  /\ PriorIsPrefix(doc, doc.prior)
               /\ ~InsidePrior(doc.leafIndex, doc.prior.treeSize)
               /\ prior \in 1 .. cover - 1 /\ SizeOf(prior) < i
    BY <1>1, <2>8, ExportHasPrior
  <2>9. ASSUME prior # None, reader # "none"
        PROVE  /\ Lists(reader, doc.prior.anchor, doc.prior.accumulatorRoot)
               /\ doc.prior.anchor = prior
               /\ ~BeforePrior(doc.leafHeight, l0[doc.prior.anchor])
    <3>1. doc.prior.anchor = prior /\ doc.prior.accumulatorRoot = l0[prior].root
      BY <2>3, <2>9 DEF PriorAt
    <3>2. prior \in Txs
      BY <1>1, <2>1, <2>8, <2>9, TreesTyped, Numbers DEF Inductive
    <3>3. Lists(reader, doc.prior.anchor, doc.prior.accumulatorRoot)
      BY <1>1, <2>9, <3>1, <3>2 DEF Lists, Txs
    <3>4. ~BeforePrior(l0[cover].since[i], l0[prior])
      BY <1>1, <2>1, <2>8, <2>9, ExportInTime
    <3> QED BY <2>3, <3>1, <3>3, <3>4
  <2>10. doc # None /\ (prior # None => doc.prior # None)
    <3>1. doc \in DocumentType
      <4>1. prior \in Txs \cup {None}
        <5>1. prior # None => prior \in 1 .. Len(l0)
          BY <2>1, <2>8, Numbers, <1>1 DEF Inductive
        <5> QED BY <1>1, <5>1, TreesTyped
      <4> QED BY <1>1, <4>1, ExportTyped
    <3>2. prior # None => doc.prior \in PriorType
      <4>1. prior # None => prior \in 1 .. Len(l0)
        BY <2>1, <2>8, Numbers, <1>1 DEF Inductive
      <4>2. prior # None => PriorAt(prior, cover) \in PriorType
        BY <1>1, <4>1, PriorTyped, TreesTyped
      <4> QED BY <2>3, <4>2
    <3> QED BY <3>1, <3>2, AbsenceAssumption
  <2> DEFINE verdict == CheckStateRootProof(doc, bundle, reader)
  <2>11. ~Unbindable(doc, bundle)
    BY <1>1, <2>3, <2>10 DEF Unbindable
  <2>12. verdict # "fail"
    <3>1. CASE reader = "none"
      BY <2>4, <2>5, <3>1 DEF CheckStateRootProof
    <3>2. CASE reader # "none" /\ prior = None
      BY <2>3, <2>4, <2>5, <2>6, <2>7, <3>2 DEF CheckStateRootProof
    <3>3. CASE reader # "none" /\ prior # None
      BY <2>4, <2>5, <2>6, <2>7, <2>8, <2>9, <3>3 DEF CheckStateRootProof
    <3> QED BY <3>1, <3>2, <3>3
  <2>13. ASSUME prior # None, l0[cover].last # 0, l0[prior].last # 0, reader = "l0"
         PROVE  verdict = "pass"
    <3>1. HasWindow(reader, doc.anchor) /\ HasWindow(reader, doc.prior.anchor)
      BY <2>3, <2>9, <2>13 DEF HasWindow
    <3> QED BY <2>4, <2>5, <2>6, <2>7, <2>8, <2>9, <2>10, <2>11, <2>13, <3>1 DEF CheckStateRootProof
  <2> QED BY <2>12, <2>13
<1>2. Inductive => ExportNeverRefused
  BY <1>1 DEF ExportNeverRefused
<1> QED BY <1>2, Invariant, PTL

-----------------------------------------------------------------------------
(***************************************************************************)
(* A tree that stands for its own hash, and for each proof cut from it,    *)
(* proves exactly what the algorithms on hashes accept of it.              *)
(***************************************************************************)

Hashed == INSTANCE RootAccumulatorProofs WITH tree <- history, MaxSize <- MaxRecords

(* Some path leads the algorithm of sealedRootOf from a leaf to the sealed *)
(* root of a tree if and only if the leaf, its number and the size prove   *)
(* into the seal of that tree here (stateRootAccumulator.js:108-133).      *)
THEOREM AuditAbstracted ==
  ASSUME NEW s \in Seq(Leaves), s # <<>>,
         NEW index \in Nat, NEW size \in Nat, NEW leaf \in Leaves
  PROVE  (\E path : Hashed!IsSeq(path) /\ Hashed!SealedRootOf(index, size, leaf, path) = Hashed!Sealed(s))
           <=> \E path \in Seq(Leaves) : SealedRootOf(index, size, leaf, path) = Seal(Len(s), s)
<1> DEFINE Proved == size = Len(s) /\ index < size /\ leaf = s[index + 1]
<1>1. ASSUME NEW path, Hashed!IsSeq(path),
             Hashed!SealedRootOf(index, size, leaf, path) = Hashed!Sealed(s)
      PROVE  Proved
  <2>1. Len(path) \in Nat
    BY <1>1 DEF Hashed!IsSeq
  <2> QED BY ONLY <1>1, <2>1, s \in Seq(Leaves), s # <<>>, index \in Nat, Hashed!AuditPathBinds
<1>2. ASSUME Proved
      PROVE  \E path : /\ Hashed!IsSeq(path)
                       /\ Hashed!SealedRootOf(index, size, leaf, path) = Hashed!Sealed(s)
  <2>1. index \in 0 .. Len(s) - 1
    BY <1>2
  <2>2. Hashed!IsSeq(Hashed!AuditPath(index, s))
    BY ONLY <2>1, s \in Seq(Leaves), Hashed!AuditPathIsSeq
  <2>3. Hashed!SealedRootOf(index, Len(s), s[index + 1], Hashed!AuditPath(index, s)) = Hashed!Sealed(s)
    BY ONLY <2>1, s \in Seq(Leaves), Hashed!AuditPathProves
  <2>4. size = Len(s) /\ leaf = s[index + 1]
    BY <1>2
  <2> QED BY ONLY <2>2, <2>3, <2>4
<1>3. ASSUME NEW path \in Seq(Leaves), SealedRootOf(index, size, leaf, path) = Seal(Len(s), s)
      PROVE  Proved
  <2>1. Seal(Len(s), s) \in Seals
    BY DEF Seal, Seals
  <2>2. Seal(Len(s), s) # Refused
    BY <2>1, AbsenceAssumption
  <2>3. /\ index < size /\ size = Len(path)
        /\ Seal(size, [path EXCEPT ![index + 1] = leaf]) = Seal(Len(s), s)
    BY <1>3, <2>2 DEF SealedRootOf
  <2>4. size = Len(s) /\ [path EXCEPT ![index + 1] = leaf] = s
    BY <2>3 DEF Seal
  <2>5. [path EXCEPT ![index + 1] = leaf][index + 1] = leaf
    BY <2>3
  <2> QED BY ONLY <2>3, <2>4, <2>5
<1>4. ASSUME Proved
      PROVE  \E path \in Seq(Leaves) : SealedRootOf(index, size, leaf, path) = Seal(Len(s), s)
  <2>1. [s EXCEPT ![index + 1] = leaf] = s
    BY <1>4
  <2>2. SealedRootOf(index, size, leaf, s) = Seal(Len(s), s)
    BY <1>4, <2>1 DEF SealedRootOf
  <2> QED BY <2>2
<1> HIDE DEF Proved
<1> QED BY ONLY <1>1, <1>2, <1>3, <1>4

(* Some proof leads the algorithm of verifyConsistency from the hash of a  *)
(* first tree, taken for one of first leaves, to the hash of a second tree *)
(* if and only if one does so here (:135-178).                             *)
THEOREM ConsistencyAbstracted ==
  ASSUME NEW s \in Seq(Leaves), s # <<>>, NEW t \in Seq(Leaves), t # <<>>, NEW first \in Nat
  PROVE  (\E path : /\ Hashed!IsSeq(path)
                    /\ Hashed!VerifyConsistency(first, Len(s), Hashed!TreeHash(t), path)
                         = Hashed!TreeHash(s))
           <=> \E path \in Seq(Leaves) : VerifyConsistency(first, Len(s), t, path) = s
<1> DEFINE Begins == first \in 1 .. Len(s) /\ t = SubSeq(s, 1, first)
<1>0. Len(s) \in Nat \ {0} /\ s # Refused
  BY AbsenceAssumption
<1>1. ASSUME NEW path, Hashed!IsSeq(path),
             Hashed!VerifyConsistency(first, Len(s), Hashed!TreeHash(t), path) = Hashed!TreeHash(s)
      PROVE  Begins
  <2>1. first \in 1 .. Len(s) /\ Hashed!TreeHash(t) = Hashed!TreeHash(SubSeq(s, 1, first))
    BY ONLY <1>1, s \in Seq(Leaves), s # <<>>, first \in Nat, Hashed!ConsistencyPathBinds
  <2>2. SubSeq(s, 1, first) \in Seq(Leaves) /\ SubSeq(s, 1, first) # <<>>
    BY <2>1
  <2>3. t = SubSeq(s, 1, first)
    BY ONLY <2>1, <2>2, t \in Seq(Leaves), t # <<>>, Hashed!TreeHashesApart
  <2> QED BY <2>1, <2>3
<1>2. ASSUME Begins
      PROVE  \E path : /\ Hashed!IsSeq(path)
                       /\ Hashed!VerifyConsistency(first, Len(s), Hashed!TreeHash(t), path)
                            = Hashed!TreeHash(s)
  <2>1. first \in 1 .. Len(s) /\ t = SubSeq(s, 1, first)
    BY <1>2
  <2>2. Hashed!IsSeq(Hashed!ConsistencyPath(first, s))
    BY ONLY <2>1, s \in Seq(Leaves), Hashed!ConsistencyPathIsSeq
  <2>3. Hashed!VerifyConsistency(first, Len(s), Hashed!TreeHash(SubSeq(s, 1, first)),
                                 Hashed!ConsistencyPath(first, s)) = Hashed!TreeHash(s)
    BY ONLY <2>1, s \in Seq(Leaves), Hashed!ConsistencyPathProves
  <2> QED BY ONLY <2>1, <2>2, <2>3
<1>3. ASSUME NEW path \in Seq(Leaves), VerifyConsistency(first, Len(s), t, path) = s
      PROVE  Begins
  <2>1. first # 0 /\ ~ (first > Len(s))
    BY <1>0, <1>3 DEF VerifyConsistency
  <2>2. first \in 1 .. Len(s)
    BY <1>0, <2>1
  <2>3. CASE first = Len(s)
    <3>1. t = s
      BY ONLY <1>0, <1>3, <2>1, <2>3 DEF VerifyConsistency
    <3> QED BY <2>2, <2>3, <3>1
  <2>4. CASE first # Len(s)
    <3>1. SubSeq(path, 1, first) = t /\ path = s
      BY ONLY <1>0, <1>3, <2>1, <2>4 DEF VerifyConsistency
    <3> QED BY ONLY <2>2, <3>1
  <2> QED BY <2>3, <2>4
<1>4. ASSUME Begins
      PROVE  \E path \in Seq(Leaves) : VerifyConsistency(first, Len(s), t, path) = s
  <2>1. first \in 1 .. Len(s) /\ t = SubSeq(s, 1, first)
    BY <1>4
  <2>2. first # 0 /\ ~ (first > Len(s))
    BY <1>0, <2>1
  <2>3. CASE first = Len(s)
    <3>1. t = s
      BY <2>1, <2>3
    <3>2. VerifyConsistency(first, Len(s), t, <<>>) = s
      BY ONLY <2>2, <2>3, <3>1 DEF VerifyConsistency
    <3>3. <<>> \in Seq(Leaves)
      OBVIOUS
    <3> QED BY ONLY <3>2, <3>3
  <2>4. CASE first # Len(s)
    <3>1. VerifyConsistency(first, Len(s), t, s) = s
      BY ONLY <2>1, <2>2, <2>4 DEF VerifyConsistency
    <3> QED BY ONLY <3>1, s \in Seq(Leaves)
  <2> QED BY ONLY <2>3, <2>4
<1> HIDE DEF Begins
<1> QED BY ONLY <1>1, <1>2, <1>3, <1>4

-----------------------------------------------------------------------------
(***************************************************************************)
(* The check as it is carried out, on documents of hashes.  L0 lists the   *)
(* hash of a seal; a path and a consistency proof are sequences of any     *)
(* hashes; the rest of checkStateRootProof is the same (:201-359).         *)
(***************************************************************************)

PriorsOfHashes(H) ==
  [anchor : Nat \cup {None}, accumulatorRoot : H, treeSize : Nat, mth : H, consistency : Seq(H)]

DocumentsOfHashes(H) ==
  [status : {"proven", "awaiting_anchor", "unavailable"}, version : {1, 2},
   consumer : Outcomes \cup {None}, stateRoot : Roots, leafHeight : Nat,
   leafIndex : Nat, treeSize : Nat, path : Seq(H), accumulatorRoot : H,
   anchor : Nat \cup {None}, prior : PriorsOfHashes(H) \cup {None}]

SealedAt(tx) == Hashed!Sealed(TreeOf(tx))
ListsHash(reader, tx, hash) == reader # "unreadable" /\ tx \in DOMAIN l0 /\ hash = SealedAt(tx)

ProvesIntoHash(doc) ==
  Hashed!SealedRootOf(doc.leafIndex, doc.treeSize, LeafOf(doc), doc.path) = doc.accumulatorRoot

PriorHashIsPrefix(doc, prior) ==
  LET coverMth == Hashed!VerifyConsistency(prior.treeSize, doc.treeSize, prior.mth, prior.consistency)
  IN /\ Hashed!Seal(prior.treeSize, prior.mth) = prior.accumulatorRoot
     /\ coverMth # Hashed!Refused /\ Hashed!Seal(doc.treeSize, coverMth) = doc.accumulatorRoot

CheckHashes(doc, bundle, reader) ==
  IF Unbindable(doc, bundle) THEN "skip"
  ELSE IF OfAnotherBundle(doc, bundle) \/ ~ProvesIntoHash(doc) THEN "fail"
  ELSE IF reader = "none" THEN "skip"
  ELSE IF ~ListsHash(reader, doc.anchor, doc.accumulatorRoot) THEN "fail"
  ELSE IF ~HasWindow(reader, doc.anchor) THEN "skip"
  ELSE IF AfterCover(doc.leafHeight, l0[doc.anchor]) THEN "fail"
  ELSE IF doc.prior = None THEN "skip"
  ELSE IF ~PriorHashIsPrefix(doc, doc.prior) \/ InsidePrior(doc.leafIndex, doc.prior.treeSize)
       THEN "fail"
  ELSE IF ~ListsHash(reader, doc.prior.anchor, doc.prior.accumulatorRoot) THEN "fail"
  ELSE IF ~HasWindow(reader, doc.prior.anchor) THEN "skip"
  ELSE IF BeforePrior(doc.leafHeight, l0[doc.prior.anchor]) THEN "fail"
  ELSE "pass"

(* What AcceptedIsRecorded, AcceptedOfOneHistory and AcceptedIsDated say,  *)
(* of every document of hashes that passes.                                *)
HashesThatPassAreTrue ==
  \A H : \A doc \in DocumentsOfHashes(H) : \A bundle, reader :
    CheckHashes(doc, bundle, reader) = "pass" =>
      /\ TreeOf(doc.anchor)[doc.leafIndex + 1] =
           [height |-> doc.leafHeight, root |-> bundle.root, consumer |-> bundle.outcome]
      /\ SizeOf(doc.prior.anchor) =< doc.leafIndex
      /\ SubSeq(TreeOf(doc.anchor), 1, SizeOf(doc.prior.anchor)) = TreeOf(doc.prior.anchor)
      /\ l0[doc.anchor].since[doc.leafIndex + 1]
           \in l0[doc.prior.anchor].first .. l0[doc.anchor].last

(* All the guards of the check, in its order. *)
LEMMA PassedMeans ==
  ASSUME NEW doc, NEW bundle, NEW reader, CheckHashes(doc, bundle, reader) = "pass"
  PROVE  /\ ~OfAnotherBundle(doc, bundle) /\ ProvesIntoHash(doc)
         /\ ListsHash(reader, doc.anchor, doc.accumulatorRoot) /\ HasWindow(reader, doc.anchor)
         /\ ~AfterCover(doc.leafHeight, l0[doc.anchor])
         /\ doc.prior # None /\ PriorHashIsPrefix(doc, doc.prior)
         /\ ~InsidePrior(doc.leafIndex, doc.prior.treeSize)
         /\ ListsHash(reader, doc.prior.anchor, doc.prior.accumulatorRoot)
         /\ HasWindow(reader, doc.prior.anchor)
         /\ ~BeforePrior(doc.leafHeight, l0[doc.prior.anchor])
BY DEF CheckHashes

LEMMA SealedTrees ==
  ASSUME Inductive, NEW tx \in 1 .. Len(l0)
  PROVE  /\ TreeOf(tx) \in Seq(Leaves) /\ TreeOf(tx) # <<>>
         /\ SizeOf(tx) \in Nat /\ Len(TreeOf(tx)) = SizeOf(tx) /\ SizeOf(tx) > 0
BY Numbers DEF Inductive, Sized, SizeOf, TreeOf

(* A seal is of one size and of one hash. *)
LEMMA HashSealsApart ==
  ASSUME NEW n, NEW h, NEW m, NEW g, Hashed!Seal(n, h) = Hashed!Seal(m, g)
  PROVE  n = m /\ h = g
BY DEF Hashed!Seal

(* The leaf is where the document says in the tree whose seal L0 lists. *)
LEMMA HashedCoverHoldsLeaf ==
  ASSUME Inductive, NEW H, NEW doc \in DocumentsOfHashes(H), NEW reader,
         ProvesIntoHash(doc), ListsHash(reader, doc.anchor, doc.accumulatorRoot)
  PROVE  /\ doc.anchor \in 1 .. Len(l0) /\ doc.accumulatorRoot = SealedAt(doc.anchor)
         /\ doc.treeSize = SizeOf(doc.anchor) /\ doc.leafIndex < SizeOf(doc.anchor)
         /\ TreeOf(doc.anchor)[doc.leafIndex + 1] = LeafOf(doc)
<1>1. doc.anchor \in 1 .. Len(l0) /\ doc.accumulatorRoot = SealedAt(doc.anchor)
  BY DEF ListsHash, Inductive, TypeOK
<1>2. doc.leafIndex \in Nat /\ doc.path \in Seq(H) /\ Len(doc.path) \in Nat
  BY DEF DocumentsOfHashes
<1>3. PICK tree : tree = TreeOf(doc.anchor)
  OBVIOUS
<1>4. tree \in Seq(Leaves) /\ tree # <<>> /\ Len(tree) = SizeOf(doc.anchor)
  BY <1>1, <1>3, SealedTrees
<1>5. Hashed!SealedRootOf(doc.leafIndex, doc.treeSize, LeafOf(doc), doc.path) = Hashed!Sealed(tree)
  BY <1>1, <1>3 DEF ProvesIntoHash, SealedAt
<1>6. doc.treeSize = Len(tree) /\ doc.leafIndex < doc.treeSize /\ LeafOf(doc) = tree[doc.leafIndex + 1]
  BY ONLY <1>2, <1>4, <1>5, Hashed!AuditPathBinds
<1> QED BY <1>1, <1>3, <1>4, <1>6

(* The prior tree whose seal L0 lists is a beginning of it. *)
LEMMA HashedPriorIsABeginning ==
  ASSUME Inductive, NEW H, NEW doc \in DocumentsOfHashes(H), NEW reader,
         doc.anchor \in 1 .. Len(l0), doc.accumulatorRoot = SealedAt(doc.anchor),
         doc.prior # None, PriorHashIsPrefix(doc, doc.prior),
         ListsHash(reader, doc.prior.anchor, doc.prior.accumulatorRoot)
  PROVE  /\ doc.prior.anchor \in 1 .. Len(l0) /\ doc.prior.treeSize = SizeOf(doc.prior.anchor)
         /\ SubSeq(TreeOf(doc.anchor), 1, SizeOf(doc.prior.anchor)) = TreeOf(doc.prior.anchor)
<1>1. PICK prior : prior = doc.prior
  OBVIOUS
<1>2. prior.treeSize \in Nat /\ prior.consistency \in Seq(H)
  <2>1. prior \in PriorsOfHashes(H)
    BY <1>1 DEF DocumentsOfHashes
  <2> QED BY ONLY <2>1 DEF PriorsOfHashes
<1>3. prior.anchor \in 1 .. Len(l0) /\ prior.accumulatorRoot = SealedAt(prior.anchor)
  BY <1>1 DEF ListsHash, Inductive, TypeOK
<1>4. PICK tree : tree = TreeOf(doc.anchor)
  OBVIOUS
<1>5. PICK first : first = TreeOf(prior.anchor)
  OBVIOUS
<1>6. /\ tree \in Seq(Leaves) /\ tree # <<>>
      /\ first \in Seq(Leaves) /\ first # <<>> /\ Len(first) = SizeOf(prior.anchor)
  BY <1>3, <1>4, <1>5, SealedTrees
<1>7. PICK coverMth :
        coverMth = Hashed!VerifyConsistency(prior.treeSize, doc.treeSize, prior.mth, prior.consistency)
  OBVIOUS
<1>8. /\ Hashed!Seal(prior.treeSize, prior.mth) = Hashed!Seal(Len(first), Hashed!TreeHash(first))
      /\ Hashed!Seal(doc.treeSize, coverMth) = Hashed!Seal(Len(tree), Hashed!TreeHash(tree))
  BY <1>1, <1>3, <1>4, <1>5, <1>7, Zenon DEF PriorHashIsPrefix, SealedAt, Hashed!Sealed
<1>9. /\ prior.treeSize = Len(first) /\ prior.mth = Hashed!TreeHash(first)
      /\ doc.treeSize = Len(tree) /\ coverMth = Hashed!TreeHash(tree)
  BY ONLY <1>8, HashSealsApart
<1>10. Hashed!VerifyConsistency(prior.treeSize, Len(tree), prior.mth, prior.consistency)
         = Hashed!TreeHash(tree)
  BY ONLY <1>7, <1>9
<1>11. Hashed!IsSeq(prior.consistency)
  BY ONLY <1>2 DEF Hashed!IsSeq
<1>12. /\ prior.treeSize \in 1 .. Len(tree)
       /\ Hashed!TreeHash(first) = Hashed!TreeHash(SubSeq(tree, 1, prior.treeSize))
  BY ONLY <1>2, <1>6, <1>9, <1>10, <1>11, Hashed!ConsistencyPathBinds
<1>13. SubSeq(tree, 1, prior.treeSize) \in Seq(Leaves) /\ SubSeq(tree, 1, prior.treeSize) # <<>>
  BY ONLY <1>6, <1>12
<1>14. first = SubSeq(tree, 1, prior.treeSize)
  <2>1. PICK beginning : beginning = SubSeq(tree, 1, prior.treeSize)
    OBVIOUS
  <2>2. beginning \in Seq(Leaves) /\ beginning # <<>>
    BY ONLY <1>13, <2>1
  <2>3. Hashed!TreeHash(first) = Hashed!TreeHash(beginning)
    BY ONLY <1>12, <2>1
  <2>4. first = beginning
    BY ONLY <1>6, <2>2, <2>3, Hashed!TreeHashesApart
  <2> QED BY ONLY <2>1, <2>4
<1> QED BY <1>1, <1>3, <1>4, <1>5, <1>6, <1>9, <1>14

(* Whatever hashes a document is put together of, it passes only for a     *)
(* leaf that the node recorded for the bundle's own outcome and root, in   *)
(* the one history that both anchors are of and between the two of them    *)
(* (:201-359).                                                             *)
THEOREM PassedHashesAreTrue == Spec => []HashesThatPassAreTrue
<1>1. ASSUME Inductive, NEW H, NEW doc \in DocumentsOfHashes(H), NEW bundle, NEW reader,
             CheckHashes(doc, bundle, reader) = "pass"
      PROVE  /\ TreeOf(doc.anchor)[doc.leafIndex + 1] =
                  [height |-> doc.leafHeight, root |-> bundle.root, consumer |-> bundle.outcome]
             /\ SizeOf(doc.prior.anchor) =< doc.leafIndex
             /\ SubSeq(TreeOf(doc.anchor), 1, SizeOf(doc.prior.anchor)) = TreeOf(doc.prior.anchor)
             /\ l0[doc.anchor].since[doc.leafIndex + 1]
                  \in l0[doc.prior.anchor].first .. l0[doc.anchor].last
  <2>1. /\ doc.anchor \in 1 .. Len(l0) /\ doc.accumulatorRoot = SealedAt(doc.anchor)
        /\ doc.leafIndex < SizeOf(doc.anchor)
        /\ TreeOf(doc.anchor)[doc.leafIndex + 1] = LeafOf(doc)
    BY <1>1, PassedMeans, HashedCoverHoldsLeaf
  <2>2. LeafOf(doc) = [height |-> doc.leafHeight, root |-> bundle.root, consumer |-> bundle.outcome]
    BY <1>1, PassedMeans DEF OfAnotherBundle, LeafOf
  <2>3. /\ doc.prior.anchor \in 1 .. Len(l0) /\ doc.prior.treeSize = SizeOf(doc.prior.anchor)
        /\ SubSeq(TreeOf(doc.anchor), 1, SizeOf(doc.prior.anchor)) = TreeOf(doc.prior.anchor)
    BY <1>1, <2>1, PassedMeans, HashedPriorIsABeginning
  <2>4. /\ doc.leafHeight \in Nat /\ doc.leafIndex \in Nat /\ SizeOf(doc.prior.anchor) \in Nat
        /\ l0[doc.anchor].last \in Nat /\ l0[doc.prior.anchor].first \in Nat
    BY <1>1, <2>1, <2>3, Numbers DEF DocumentsOfHashes, Inductive, SizeOf
  <2>5. SizeOf(doc.prior.anchor) =< doc.leafIndex
    BY <1>1, <2>3, <2>4, PassedMeans DEF InsidePrior
  <2>6. l0[doc.anchor].last # 0 /\ l0[doc.prior.anchor].last # 0
    BY <1>1, <2>1, <2>3, PassedMeans, WindowMeans
  <2>7. doc.leafHeight =< l0[doc.anchor].last /\ l0[doc.prior.anchor].first =< doc.leafHeight
    BY <1>1, <2>4, PassedMeans DEF AfterCover, BeforePrior
  <2>8. l0[doc.anchor].since[doc.leafIndex + 1]
          \in l0[doc.prior.anchor].first .. l0[doc.anchor].last
    BY <1>1, <2>1, <2>3, <2>4, <2>5, <2>6, <2>7, LeafIsDated
  <2> QED BY <2>1, <2>2, <2>3, <2>5, <2>8
<1>2. Inductive => HashesThatPassAreTrue
  BY <1>1 DEF HashesThatPassAreTrue
<1> QED BY <1>2, Invariant, PTL

(* The document of hashes that the node exports.                           *)
HashedPrior(tx, cover) ==
  [anchor |-> tx, accumulatorRoot |-> SealedAt(tx), treeSize |-> SizeOf(tx),
   mth |-> Hashed!TreeHash(TreeOf(tx)),
   consistency |-> Hashed!ConsistencyPath(SizeOf(tx), TreeOf(cover))]

HashedExport(index, cover, prior) ==
  [Exported(index, cover, prior) EXCEPT
     !.path = Hashed!AuditPath(index, TreeOf(cover)),
     !.accumulatorRoot = SealedAt(cover),
     !.prior = IF prior = None THEN None ELSE HashedPrior(prior, cover)]

(* Of what the node exports both checks say the same, to every reader and  *)
(* of every bundle (a record of hashes is not mistaken for an absent one). *)
ChecksAgreeOnExports ==
  \A cover \in Txs : \A i \in 1 .. SizeOf(cover) : \A prior \in PriorsFor(i - 1, cover) :
    \A bundle, reader :
      /\ HashedExport(i - 1, cover, prior) # None
      /\ prior # None => HashedPrior(prior, cover) # None
      => CheckHashes(HashedExport(i - 1, cover, prior), bundle, reader) =
           CheckStateRootProof(Exported(i - 1, cover, prior), bundle, reader)

LEMMA PriorIsEarlier ==
  ASSUME Inductive, NEW cover \in Txs, NEW i \in 1 .. SizeOf(cover),
         NEW prior \in PriorsFor(i - 1, cover), prior # None
  PROVE  prior \in 1 .. Len(l0) /\ cover \in 1 .. Len(l0) /\ SizeOf(prior) < i
<1>1. cover \in 1 .. Len(l0) /\ Len(l0) \in Nat
  BY TreesTyped, Numbers DEF Inductive
<1>2. prior \in 1 .. cover - 1 /\ SizeOf(prior) < i
  BY ExportHasPrior
<1> QED BY ONLY <1>1, <1>2

LEMMA HashedExportProves ==
  ASSUME Inductive, NEW cover \in Txs, NEW i \in 1 .. SizeOf(cover),
         NEW prior \in PriorsFor(i - 1, cover)
  PROVE  ProvesIntoHash(HashedExport(i - 1, cover, prior))
<1>1. PICK tree : tree = TreeOf(cover)
  OBVIOUS
<1>2. /\ tree \in Seq(Leaves) /\ Len(tree) = SizeOf(cover) /\ SizeOf(cover) \in Nat
      /\ i - 1 \in 0 .. Len(tree) - 1 /\ (i - 1) + 1 = i
  BY <1>1, TreesTyped, SealedTrees
<1>3. tree[i] \in Leaves
  BY <1>2
<1>4. PICK doc : doc = HashedExport(i - 1, cover, prior)
  OBVIOUS
<1>5. /\ doc.leafIndex = i - 1 /\ doc.treeSize = Len(tree)
      /\ doc.path = Hashed!AuditPath(i - 1, tree) /\ doc.accumulatorRoot = Hashed!Sealed(tree)
      /\ doc.leafHeight = tree[i].height /\ doc.stateRoot = tree[i].root
      /\ doc.consumer = tree[i].consumer
  BY <1>1, <1>2, <1>4 DEF HashedExport, Exported, SealedAt
<1>6. LeafOf(doc) = tree[i]
  BY ONLY <1>3, <1>5 DEF LeafOf, Leaves
<1>7. Hashed!SealedRootOf(i - 1, Len(tree), tree[i], Hashed!AuditPath(i - 1, tree))
        = Hashed!Sealed(tree)
  <2>1. Hashed!SealedRootOf(i - 1, Len(tree), tree[(i - 1) + 1], Hashed!AuditPath(i - 1, tree))
          = Hashed!Sealed(tree)
    BY ONLY <1>2, Hashed!AuditPathProves
  <2> QED BY ONLY <1>2, <2>1
<1>8. ProvesIntoHash(doc)
  BY ONLY <1>5, <1>6, <1>7 DEF ProvesIntoHash
<1> QED BY ONLY <1>4, <1>8

LEMMA HashedExportHasPrior ==
  ASSUME Inductive, NEW cover \in Txs, NEW i \in 1 .. SizeOf(cover),
         NEW prior \in PriorsFor(i - 1, cover), prior # None
  PROVE  LET doc == HashedExport(i - 1, cover, prior)
         IN PriorHashIsPrefix(doc, doc.prior) /\ doc.prior = HashedPrior(prior, cover)
<1>1. PICK tree : tree = TreeOf(cover)
  OBVIOUS
<1>2. PICK first : first = TreeOf(prior)
  OBVIOUS
<1>3. prior \in 1 .. Len(l0) /\ cover \in 1 .. Len(l0) /\ SizeOf(prior) < i
  BY PriorIsEarlier
<1>4. /\ tree \in Seq(Leaves) /\ Len(tree) = SizeOf(cover) /\ Len(tree) \in Nat /\ tree # <<>>
      /\ first \in Seq(Leaves) /\ Len(first) = SizeOf(prior) /\ Len(first) \in Nat \ {0}
      /\ first = SubSeq(tree, 1, Len(first))
  BY <1>1, <1>2, <1>3, SealedTrees DEF PriorsFor
<1>5. Len(first) \in 1 .. Len(tree)
  BY <1>3, <1>4
<1>6. PICK doc : doc = HashedExport(i - 1, cover, prior)
  OBVIOUS
<1>7. /\ doc.treeSize = Len(tree) /\ doc.accumulatorRoot = Hashed!Sealed(tree)
      /\ doc.prior = HashedPrior(prior, cover)
  BY <1>1, <1>4, <1>6 DEF HashedExport, Exported, SealedAt
<1>8. /\ doc.prior.treeSize = Len(first) /\ doc.prior.mth = Hashed!TreeHash(first)
      /\ doc.prior.accumulatorRoot = Hashed!Sealed(first)
      /\ doc.prior.consistency = Hashed!ConsistencyPath(Len(first), tree)
  BY <1>1, <1>2, <1>4, <1>7 DEF HashedPrior, SealedAt
<1>9. Hashed!VerifyConsistency(Len(first), Len(tree), Hashed!TreeHash(first),
                               Hashed!ConsistencyPath(Len(first), tree)) = Hashed!TreeHash(tree)
  BY ONLY <1>4, <1>5, Hashed!ConsistencyPathProves
<1>10. Hashed!TreeHash(tree) # Hashed!Refused
  BY ONLY <1>4, Len(tree) \in Nat \ {0}, Hashed!TreeHashIsNoRefusal
<1>11. PriorHashIsPrefix(doc, doc.prior)
  BY ONLY <1>7, <1>8, <1>9, <1>10 DEF PriorHashIsPrefix, Hashed!Sealed
<1> QED BY ONLY <1>6, <1>7, <1>11

(* The algorithms on hashes let every honest proof through, so that what   *)
(* is shown of exports with trees in place of hashes holds of them.        *)
THEOREM ExportsCheckAlike == Spec => []ChecksAgreeOnExports
<1>1. ASSUME Inductive, NEW cover \in Txs, NEW i \in 1 .. SizeOf(cover),
             NEW prior \in PriorsFor(i - 1, cover), NEW bundle, NEW reader,
             HashedExport(i - 1, cover, prior) # None,
             prior # None => HashedPrior(prior, cover) # None
      PROVE  CheckHashes(HashedExport(i - 1, cover, prior), bundle, reader) =
               CheckStateRootProof(Exported(i - 1, cover, prior), bundle, reader)
  <2>1. PICK doc : doc = Exported(i - 1, cover, prior)
    OBVIOUS
  <2>2. PICK hashed : hashed = HashedExport(i - 1, cover, prior)
    OBVIOUS
  <2>3. /\ hashed.status = doc.status /\ hashed.version = doc.version
        /\ hashed.consumer = doc.consumer /\ hashed.stateRoot = doc.stateRoot
        /\ hashed.leafHeight = doc.leafHeight /\ hashed.leafIndex = doc.leafIndex
        /\ hashed.treeSize = doc.treeSize /\ hashed.anchor = doc.anchor
        /\ doc.anchor = cover
        /\ hashed.accumulatorRoot = SealedAt(cover) /\ doc.accumulatorRoot = l0[cover].root
    BY <2>1, <2>2 DEF HashedExport, Exported
  <2>4. prior # None => prior \in 1 .. Len(l0)
    BY <1>1, PriorIsEarlier
  <2>5. doc \in DocumentType
    <3>1. prior \in Txs \cup {None}
      BY <1>1, <2>4, TreesTyped
    <3> QED BY <1>1, <2>1, <3>1, ExportTyped
  <2>6. doc # None /\ hashed # None
    BY <1>1, <2>2, <2>5, AbsenceAssumption
  <2>7. Unbindable(hashed, bundle) = Unbindable(doc, bundle)
    BY ONLY <2>3, <2>6 DEF Unbindable
  <2>8. OfAnotherBundle(hashed, bundle) = OfAnotherBundle(doc, bundle)
    BY ONLY <2>3 DEF OfAnotherBundle
  <2>9. ProvesIntoHash(hashed) /\ ProvesIntoSeal(doc)
    BY <1>1, <2>1, <2>2, ExportProves, HashedExportProves
  <2>10. ListsHash(reader, hashed.anchor, hashed.accumulatorRoot) =
           Lists(reader, doc.anchor, doc.accumulatorRoot)
    BY ONLY <2>3 DEF ListsHash, Lists
  <2>11. CASE prior = None
    <3>1. hashed.prior = None /\ doc.prior = None
      BY <2>1, <2>2, <2>11 DEF HashedExport, Exported
    <3>2. CheckHashes(hashed, bundle, reader) = CheckStateRootProof(doc, bundle, reader)
      BY ONLY <2>3, <2>7, <2>8, <2>9, <2>10, <3>1 DEF CheckHashes, CheckStateRootProof
    <3> QED BY <2>1, <2>2, <3>2
  <2>12. CASE prior # None
    <3>1. /\ PriorHashIsPrefix(hashed, hashed.prior) /\ hashed.prior = HashedPrior(prior, cover)
          /\ PriorIsPrefix(doc, doc.prior) /\ doc.prior = PriorAt(prior, cover)
      BY <1>1, <2>1, <2>2, <2>12, ExportHasPrior, HashedExportHasPrior
    <3>2. doc.prior # None /\ hashed.prior # None
      <4>1. PriorAt(prior, cover) \in PriorType
        BY <1>1, <2>4, <2>12, PriorTyped, TreesTyped
      <4> QED BY <1>1, <2>12, <3>1, <4>1, AbsenceAssumption
    <3>3. /\ hashed.prior.treeSize = doc.prior.treeSize /\ hashed.prior.anchor = prior
          /\ doc.prior.anchor = prior
          /\ hashed.prior.accumulatorRoot = SealedAt(prior)
          /\ doc.prior.accumulatorRoot = l0[prior].root
      BY ONLY <3>1 DEF HashedPrior, PriorAt
    <3>4. ListsHash(reader, hashed.prior.anchor, hashed.prior.accumulatorRoot) =
            Lists(reader, doc.prior.anchor, doc.prior.accumulatorRoot)
      BY ONLY <3>3 DEF ListsHash, Lists
    <3>5. CheckHashes(hashed, bundle, reader) = CheckStateRootProof(doc, bundle, reader)
      BY ONLY <2>3, <2>7, <2>8, <2>9, <2>10, <3>1, <3>2, <3>3, <3>4
         DEF CheckHashes, CheckStateRootProof
    <3> QED BY <2>1, <2>2, <3>5
  <2> QED BY <2>11, <2>12
<1>2. Inductive => ChecksAgreeOnExports
  BY <1>1 DEF ChecksAgreeOnExports
<1> QED BY <1>2, Invariant, PTL

=============================================================================
