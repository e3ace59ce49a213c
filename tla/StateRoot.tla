------------------------------ MODULE StateRoot ------------------------------
(***************************************************************************)
(* The state root check of stateRootAccumulator.js, and the world it       *)
(* judges: a node that records in an append-only history each root that it *)
(* holds and each outcome that it reads its root for, anchors the seal of  *)
(* that history on L0, and exports documents that prove a leaf of it.      *)
(*                                                                         *)
(* A leaf states a canonical height; at what height it was recorded is     *)
(* known here and not to the check, which dates the leaf from L0.          *)
(*                                                                         *)
(* A tree is the sequence of its leaves and stands for its own hash.  An   *)
(* audit path, and a consistency proof, is the tree that it was cut from   *)
(* (RootAccumulator has the algorithms on hashes, and StateRootProofs the  *)
(* proof that the check on hashes accepts no more).                        *)
(***************************************************************************)
EXTENDS Integers, Sequences

CONSTANTS
  Roots,      \* state roots
  Outcomes,   \* outcome ids: the consumers of a leaf
  None,       \* an absent value
  Refused,    \* a proof that does not verify
  MaxHeight,  \* bound on the canonical height
  WindowsFrom,\* the height from which on L0's entries carry their window
  Misstated,  \* heights that the node may state falsely for a leaf
  MaxRecords, \* bound on the leaves that are ever recorded
  MaxAnchors  \* bound on the entries of L0

ASSUME BoundsAssumption ==
  MaxHeight \in Nat \ {0} /\ WindowsFrom \in Nat /\ MaxRecords \in Nat \ {0} /\ MaxAnchors \in Nat
ASSUME MisstatedAssumption == Misstated \subseteq 1 .. MaxHeight

VARIABLES
  height,    \* the canonical height
  root,      \* the node's state root
  history,   \* the leaves of the node's tree
  since,     \* at what height each of them was recorded
  l0,        \* the anchor entries of L0; their transactions are 1, 2, ...
  records    \* bound: the leaves recorded so far

vars == <<height, root, history, since, l0, records>>

Heights == 1 .. MaxHeight
Leaves == [height : Heights, root : Roots, consumer : Outcomes \cup {None}]
Seals == [size : Nat, tree : Seq(Leaves)]

Entries == [root : Seals, first : Nat, last : Nat, since : Seq(Heights)]

(* The documents beside an exported package.                               *)
PriorType ==
  [anchor : Nat \cup {None}, accumulatorRoot : Seals, treeSize : Nat,
   mth : Seq(Leaves), consistency : Seq(Leaves)]

DocumentType ==
  [status : {"proven", "awaiting_anchor", "unavailable"}, version : {1, 2}, consumer : Outcomes \cup {None}, stateRoot : Roots,
   leafHeight : Nat, leafIndex : Nat, treeSize : Nat, path : Seq(Leaves),
   accumulatorRoot : Seals, anchor : Nat \cup {None}, prior : PriorType \cup {None}]

(* An absent value and a refusal are not mistaken for a value.             *)
ASSUME AbsenceAssumption ==
  /\ None \notin Roots /\ None \notin Outcomes /\ None \notin Nat
  /\ None \notin PriorType /\ None \notin DocumentType
  /\ Refused \notin Seals /\ Refused \notin Seq(Leaves)

TypeOK ==
  /\ height \in Heights
  /\ root \in Roots
  /\ history \in Seq(Leaves)
  /\ since \in Seq(Heights)
  /\ l0 \in Seq(Entries)
  /\ records \in 1 .. MaxRecords

Init ==
  /\ height = 1
  /\ root \in Roots
  /\ history = <<[height |-> 1, root |-> root, consumer |-> None]>>
  /\ since = <<1>>
  /\ l0 = <<>>
  /\ records = 1

-----------------------------------------------------------------------------
(* The node and L0. *)

NewBlock ==
  /\ height < MaxHeight
  /\ height' = height + 1
  /\ UNCHANGED <<root, history, since, l0, records>>

(* The leaf's height is the node's own statement. *)
Record(leafRoot, consumer) ==
  /\ records < MaxRecords
  /\ records' = records + 1
  /\ \E stated \in Misstated \cup {height} :
       history' = Append(history, [height |-> stated, root |-> leafRoot, consumer |-> consumer])
  /\ since' = Append(since, height)

ChangeRoot ==
  /\ root' \in Roots \ {root}
  /\ Record(root', None)
  /\ UNCHANGED <<height, l0>>

Consume(outcome) ==
  /\ Record(root, outcome)
  /\ UNCHANGED <<height, root, l0>>

(* The node is put back on an older copy of its history. *)
Restore(size) ==
  /\ size < Len(history)
  /\ history' = SubSeq(history, 1, size)
  /\ since' = SubSeq(since, 1, size)
  /\ UNCHANGED <<height, root, l0, records>>

Seal(size, tree) == [size |-> size, tree |-> tree]

(* The blocks that an anchor covers: they end here and begin after those   *)
(* of every earlier entry.  An early entry carries no window.              *)
Windows ==
  IF height < WindowsFrom THEN {<<0, 0>>}
  ELSE {<<first, height>> : first \in {f \in 1 .. height : \A i \in DOMAIN l0 : l0[i].last < f}}

(* The node anchors only what has changed.                                 *)
Anchor ==
  /\ Len(l0) < MaxAnchors
  /\ history # <<>>
  /\ l0 # <<>> => l0[Len(l0)].root # Seal(Len(history), history)
  /\ \E w \in Windows :
       l0' = Append(l0, [root |-> Seal(Len(history), history),
                         first |-> w[1], last |-> w[2], since |-> since])
  /\ UNCHANGED <<height, root, history, since, records>>

Next ==
  \/ NewBlock
  \/ ChangeRoot
  \/ \E outcome \in Outcomes : Consume(outcome)
  \/ \E size \in 0 .. MaxRecords : Restore(size)
  \/ Anchor

Spec == Init /\ [][Next]_vars

-----------------------------------------------------------------------------
(* The proofs, as RootAccumulator shows them to be. *)

\* MUTANT of SealedRootOf: the leaf does not commit to its consumer.
SealedRootOfAnyConsumer(index, size, leaf, path) ==
  IF index < size /\ size = Len(path)
  THEN Seal(size, [path EXCEPT ![index + 1].height = leaf.height, ![index + 1].root = leaf.root])
  ELSE Refused

SealedRootOf(index, size, leaf, path) ==
  IF index < size /\ size = Len(path)
  THEN Seal(size, [path EXCEPT ![index + 1] = leaf]) ELSE Refused

\* MUTANT of VerifyConsistency: the first tree's hash is not rebuilt.
VerifyConsistencyAnyPrefix(first, second, firstTree, path) ==
  IF first = 0 \/ first > second THEN Refused
  ELSE IF first = second THEN IF path = <<>> THEN firstTree ELSE Refused
  ELSE IF Len(path) = second THEN path ELSE Refused

VerifyConsistency(first, second, firstTree, path) ==
  IF first = 0 \/ first > second THEN Refused
  ELSE IF first = second THEN IF path = <<>> THEN firstTree ELSE Refused
  ELSE IF Len(path) = second /\ SubSeq(path, 1, first) = firstTree THEN path ELSE Refused

-----------------------------------------------------------------------------
(* checkStateRootProof.  A reader reads L0 whole ("l0"), only the roots of *)
(* its entries ("roots") or nothing ("unreadable"); or there is none.      *)

Lists(reader, tx, seal) == reader # "unreadable" /\ tx \in DOMAIN l0 /\ seal = l0[tx].root
HasWindow(reader, tx) == reader = "l0" /\ (l0[tx].first # 0 \/ l0[tx].last # 0)

(* The check cannot bind the document to the bundle. *)
Unbindable(doc, bundle) ==
  \/ doc = None
  \/ doc.status # "proven" \/ doc.version # 2 \/ doc.consumer = None
  \/ bundle.outcome = None

OfAnotherBundle(doc, bundle) ==
  doc.consumer # bundle.outcome \/ bundle.root = None \/ doc.stateRoot # bundle.root

LeafOf(doc) == [height |-> doc.leafHeight, root |-> doc.stateRoot, consumer |-> doc.consumer]

ProvesIntoSeal(doc) ==
  SealedRootOf(doc.leafIndex, doc.treeSize, LeafOf(doc), doc.path) = doc.accumulatorRoot

\* MUTANT of AfterCover: a leaf of the batch's last block is refused.
AfterCoverOrAtItsEnd(leafHeight, entry) == leafHeight >= entry.last

AfterCover(leafHeight, entry) == leafHeight > entry.last

PriorIsPrefix(doc, prior) ==
  LET coverTree == VerifyConsistency(prior.treeSize, doc.treeSize, prior.mth, prior.consistency)
  IN /\ Seal(prior.treeSize, prior.mth) = prior.accumulatorRoot
     /\ coverTree # Refused /\ Seal(doc.treeSize, coverTree) = doc.accumulatorRoot

\* MUTANT of InsidePrior: the last leaf of the prior tree is taken for a later one.
InsidePriorBarTheLast(index, size) == index < size - 1

InsidePrior(index, size) == index < size

BeforePrior(leafHeight, entry) == leafHeight < entry.first

CheckStateRootProof(doc, bundle, reader) ==
  IF Unbindable(doc, bundle) THEN "skip"
  ELSE IF OfAnotherBundle(doc, bundle) \/ ~ProvesIntoSeal(doc) THEN "fail"
  ELSE IF reader = "none" THEN "skip"
  ELSE IF ~Lists(reader, doc.anchor, doc.accumulatorRoot) THEN "fail"
  ELSE IF ~HasWindow(reader, doc.anchor) THEN "skip"
  ELSE IF AfterCover(doc.leafHeight, l0[doc.anchor]) THEN "fail"
  ELSE IF doc.prior = None THEN "skip"
  ELSE IF ~PriorIsPrefix(doc, doc.prior) \/ InsidePrior(doc.leafIndex, doc.prior.treeSize) THEN "fail"
  ELSE IF ~Lists(reader, doc.prior.anchor, doc.prior.accumulatorRoot) THEN "fail"
  ELSE IF ~HasWindow(reader, doc.prior.anchor) THEN "skip"
  ELSE IF BeforePrior(doc.leafHeight, l0[doc.prior.anchor]) THEN "fail"
  ELSE "pass"

(* options.require turns a skip into a failure. *)
VerifyStateRootOfExport(doc, bundle, reader, require) ==
  LET verdict == CheckStateRootProof(doc, bundle, reader)
  IN IF require /\ verdict = "skip" THEN "fail" ELSE verdict

-----------------------------------------------------------------------------
(* Documents. *)

Txs == DOMAIN l0
TreeOf(tx) == l0[tx].root.tree
SizeOf(tx) == l0[tx].root.size

PriorAt(tx, cover) ==
  [anchor |-> tx, accumulatorRoot |-> l0[tx].root, treeSize |-> SizeOf(tx), mth |-> TreeOf(tx),
   consistency |-> IF SizeOf(tx) = SizeOf(cover) THEN <<>> ELSE TreeOf(cover)]

(* What the node exports for leaf number index of the tree that it         *)
(* anchored in transaction cover.                                          *)
Exported(index, cover, prior) ==
  LET leaf == TreeOf(cover)[index + 1] IN
  [status |-> "proven", version |-> 2,
   consumer |-> leaf.consumer, stateRoot |-> leaf.root, leafHeight |-> leaf.height,
   leafIndex |-> index, treeSize |-> SizeOf(cover), path |-> TreeOf(cover),
   accumulatorRoot |-> l0[cover].root, anchor |-> cover,
   prior |-> IF prior = None THEN None ELSE PriorAt(prior, cover)]

(* The node names a prior anchor of the same history. *)
PriorsFor(index, cover) ==
  {None} \cup {tx \in 1 .. cover - 1 :
                 SizeOf(tx) =< index /\ SubSeq(TreeOf(cover), 1, SizeOf(tx)) = TreeOf(tx)}

Bundles == [root : Roots \cup {None}, outcome : Outcomes \cup {None}]
Trees == {history} \cup {TreeOf(tx) : tx \in Txs}

(* A document put together of parts that do not belong together: any prior *)
(* anchor, and one field, or one of the prior's, from elsewhere.           *)
Assembled ==
  UNION {{Exported(i - 1, cover, prior) : i \in 1 .. SizeOf(cover), prior \in Txs} : cover \in Txs}

PriorWith(doc) ==
  {[doc.prior EXCEPT !.anchor = tx] : tx \in Txs}
    \cup {[doc.prior EXCEPT !.treeSize = n] : n \in 0 .. MaxRecords}
    \cup {[doc.prior EXCEPT !.mth = tree] : tree \in Trees}
    \cup {[doc.prior EXCEPT !.consistency = tree] : tree \in Trees}

With(doc) ==
  {doc, [doc EXCEPT !.status = "awaiting_anchor"], [doc EXCEPT !.version = 1]}
    \cup {[doc EXCEPT !.consumer = outcome] : outcome \in Outcomes}
    \cup {[doc EXCEPT !.stateRoot = other] : other \in Roots}
    \cup {[doc EXCEPT !.leafHeight = h] : h \in Heights}
    \cup {[doc EXCEPT !.leafIndex = i] : i \in 0 .. MaxRecords}
    \cup {[doc EXCEPT !.treeSize = n] : n \in 0 .. MaxRecords}
    \cup {[doc EXCEPT !.path = tree] : tree \in Trees}
    \cup {[doc EXCEPT !.anchor = tx] : tx \in Txs \cup {None}}
    \cup {[doc EXCEPT !.prior = p] : p \in PriorWith(doc) \cup {None}}

Documents == UNION {With(doc) : doc \in Assembled}

-----------------------------------------------------------------------------
(* Properties.  Only a reader of L0 whole can ever accept a document. *)

Accepted(doc, bundle, reader) == VerifyStateRootOfExport(doc, bundle, reader, TRUE) # "fail"

(* The document that the node exports for a leaf, with the height at which *)
(* the node recorded it, is refused to nobody who can read L0, however far *)
(* the node and L0 are by then, and is accepted once both its anchors      *)
(* carry a window (stateRootAccumulator.js:201-359).                       *)
ExportNeverRefused ==
  \A cover \in Txs : \A i \in 1 .. SizeOf(cover) :
    LET leaf == TreeOf(cover)[i] IN
    leaf.consumer # None /\ leaf.height = l0[cover].since[i] =>
      \A prior \in PriorsFor(i - 1, cover) :
        LET verdict(reader) ==
              CheckStateRootProof(Exported(i - 1, cover, prior),
                                  [root |-> leaf.root, outcome |-> leaf.consumer], reader)
        IN /\ \A reader \in {"l0", "roots", "none"} : verdict(reader) # "fail"
           /\ prior # None /\ l0[cover].last # 0 /\ l0[prior].last # 0 => verdict("l0") = "pass"

(* Whatever parts a document is put together of, a bundle is accepted only *)
(* if the node recorded a leaf for its own outcome and its own root, where *)
(* the document says and with the height that it says (:225-267).          *)
AcceptedIsRecorded ==
  \A doc \in Documents, bundle \in Bundles :
    Accepted(doc, bundle, "l0") =>
      TreeOf(doc.anchor)[doc.leafIndex + 1] =
        [height |-> doc.leafHeight, root |-> bundle.root, consumer |-> bundle.outcome]

(* The prior tree of an accepted bundle is a beginning of the covering one *)
(* that does not hold the leaf: both are of one history (:322-338).        *)
AcceptedOfOneHistory ==
  \A doc \in Documents, bundle \in Bundles :
    Accepted(doc, bundle, "l0") =>
      /\ SizeOf(doc.prior.anchor) =< doc.leafIndex
      /\ SubSeq(TreeOf(doc.anchor), 1, SizeOf(doc.prior.anchor)) = TreeOf(doc.prior.anchor)

(* The leaf of an accepted bundle was recorded within the span of its two  *)
(* anchors, whatever height the node stated for it (:285-354).             *)
AcceptedIsDated ==
  \A doc \in Documents, bundle \in Bundles :
    Accepted(doc, bundle, "l0") =>
      l0[doc.anchor].since[doc.leafIndex + 1]
        \in l0[doc.prior.anchor].first .. l0[doc.anchor].last

=============================================================================
