--------------------------- MODULE RootAccumulator ---------------------------
(***************************************************************************)
(* The proof algorithms of stateRootAccumulator.js over the tree that the  *)
(* node grows one leaf at a time: sealedRootOf folds an audit path,        *)
(* verifyConsistency a consistency proof.  The tree, its hash and the      *)
(* proofs that the node makes are those of RFC 9162, the reference that    *)
(* the algorithms are held to.                                             *)
(*                                                                         *)
(* A hash is a term that shows what was hashed, so two hashes are equal    *)
(* only if what they hash is.                                              *)
(***************************************************************************)
EXTENDS Integers, Sequences, SequencesExt

CONSTANTS
  Leaves,   \* what a leaf may commit to
  MaxSize   \* bound on the size of the tree

VARIABLE tree   \* the leaves of the node's tree

RootsInit == tree = <<>>

AppendLeaf ==
  /\ Len(tree) < MaxSize
  /\ \E x \in Leaves : tree' = Append(tree, x)

RootsNext == AppendLeaf
RootsSpec == RootsInit /\ [][RootsNext]_tree

-----------------------------------------------------------------------------
(* Hashes, told apart by their first byte or their domain; and the error   *)
(* BAD_PROOF, which is none of them.                                       *)

LeafHash(x) == <<"leaf", x>>
NodeHash(left, right) == <<"node", left, right>>

\* MUTANT of Seal: the sealed root does not commit to the number of leaves.
SealWithoutSize(size, hash) == <<"seal", 0, hash>>

Seal(size, hash) == <<"seal", size, hash>>

Refused == <<"BAD_PROOF">>

-----------------------------------------------------------------------------
(* RFC 9162, section 2.1, over the hashes of the leaves: the hash of a     *)
(* range of n of them, the audit path of number m of a range, and the      *)
(* consistency proof of the first m of a range, which leaves out their own *)
(* hash if they are a whole tree that the verifier has the hash of.        *)

TwoTo[j \in Nat] == IF j = 0 THEN 1 ELSE 2 * TwoTo[j - 1]
Powers(n) == {TwoTo[j] : j \in 0 .. n}
Split(n) == CHOOSE k \in Powers(n) : k < n /\ n <= 2 * k

RangeHash(nodes) ==
  LET hash[n \in 1 .. Len(nodes)] ==
        [from \in Nat |->
          IF n = 1 THEN nodes[from + 1]
          ELSE NodeHash(hash[Split(n)][from], hash[n - Split(n)][from + Split(n)])]
  IN hash

RangePath(nodes) ==
  LET hash == RangeHash(nodes)
      path[n \in 1 .. Len(nodes)] ==
        [m \in Nat |-> [from \in Nat |->
          IF n = 1 THEN <<>>
          ELSE IF m < Split(n)
               THEN Append(path[Split(n)][m][from], hash[n - Split(n)][from + Split(n)])
               ELSE Append(path[n - Split(n)][m - Split(n)][from + Split(n)],
                           hash[Split(n)][from])]]
  IN path

RangeProof(nodes) ==
  LET hash == RangeHash(nodes)
      proof[n \in 1 .. Len(nodes)] ==
        [m \in 1 .. n |-> [whole \in BOOLEAN |-> [from \in Nat |->
          IF m = n THEN IF whole THEN <<>> ELSE <<hash[n][from]>>
          ELSE IF m <= Split(n)
               THEN Append(proof[Split(n)][m][whole][from], hash[n - Split(n)][from + Split(n)])
               ELSE Append(proof[n - Split(n)][m - Split(n)][FALSE][from + Split(n)],
                           hash[Split(n)][from])]]]
  IN proof

LeafHashes(s) == [i \in 1 .. Len(s) |-> LeafHash(s[i])]

TreeHash(s) == RangeHash(LeafHashes(s))[Len(s)][0]
Sealed(s) == Seal(Len(s), TreeHash(s))
AuditPath(index, s) == RangePath(LeafHashes(s))[Len(s)][index][0]
ConsistencyPath(first, s) == RangeProof(LeafHashes(s))[Len(s)][first][TRUE][0]

-----------------------------------------------------------------------------
(* sealedRootOf and verifyConsistency walk up the tree: fn is the place of *)
(* the node reached among those of its level, sn that of the last node.    *)

Odd(n) == n % 2 = 1
Up(at) == [fn |-> at.fn \div 2, sn |-> at.sn \div 2]

(* while ((fn & 1n) === bit && fn !== 0n) *)
SkipWhile(bit, at) ==
  LET skip[fn \in 0 .. at.fn] ==
        [sn \in Nat |->
          IF fn % 2 = bit /\ fn # 0 THEN skip[fn \div 2][sn \div 2]
          ELSE [fn |-> fn, sn |-> sn]]
  IN skip[at.fn][at.sn]

(* The next sibling is to the left: the node is a right child, or it has   *)
(* none to its right.                                                      *)
OnTheLeft(at) == Odd(at.fn) \/ at.fn = at.sn

NextPlace(at) == IF OnTheLeft(at) THEN Up(SkipWhile(0, at)) ELSE Up(at)

(* A path is refused if it goes on above the top or ends below it. *)
EndsAtTheTop(walk, end) == \A k \in 0 .. end : walk[k].at.sn = 0 <=> k = end

AuditWalk(index, size, leaf, path) ==
  LET walk[k \in 0 .. Len(path)] ==
        IF k = 0 THEN [at |-> [fn |-> index, sn |-> size - 1], acc |-> LeafHash(leaf)]
        ELSE LET w == walk[k - 1] IN
             [at |-> NextPlace(w.at),
              acc |-> IF OnTheLeft(w.at) THEN NodeHash(path[k], w.acc)
                                         ELSE NodeHash(w.acc, path[k])]
  IN walk

SealedRootOf(index, size, leaf, path) ==
  LET walk == AuditWalk(index, size, leaf, path) IN
  IF index < size /\ EndsAtTheTop(walk, Len(path))
  THEN Seal(size, walk[Len(path)].acc) ELSE Refused

\* MUTANT of Nodes: the first tree's hash is never put in front.
NodesOfPath(first, firstHash, path) == path

(* An exact power of two: the first tree is a node of the second. *)
Nodes(first, firstHash, path) ==
  IF first \in Powers(first) THEN <<firstHash>> \o path ELSE path

ConsistencyWalk(first, second, nodes) ==
  LET walk[k \in 0 .. Len(nodes) - 1] ==
        IF k = 0 THEN [at |-> SkipWhile(1, [fn |-> first - 1, sn |-> second - 1]),
                       fr |-> nodes[1], sr |-> nodes[1]]
        ELSE LET w == walk[k - 1] node == nodes[k + 1] IN
             [at |-> NextPlace(w.at),
              fr |-> IF OnTheLeft(w.at) THEN NodeHash(node, w.fr) ELSE w.fr,
              sr |-> IF OnTheLeft(w.at) THEN NodeHash(node, w.sr) ELSE NodeHash(w.sr, node)]
  IN walk

VerifyConsistency(first, second, firstHash, path) ==
  LET nodes == Nodes(first, firstHash, path)
      walk == ConsistencyWalk(first, second, nodes)
      end == Len(nodes) - 1
  IN IF first = 0 \/ first > second THEN Refused
     ELSE IF first = second THEN IF path = <<>> THEN firstHash ELSE Refused
     ELSE IF nodes = <<>> THEN Refused
     ELSE IF EndsAtTheTop(walk, end) /\ walk[end].fr = firstHash
          THEN walk[end].sr ELSE Refused

-----------------------------------------------------------------------------
(* Properties. *)

Sizes == 1 .. Len(tree)
Prefix(m) == SubSeq(tree, 1, m)

(* A path with an element lost, repeated or replaced by another hash. *)
Damaged(path, hashes) ==
  {path} \cup {RemoveAt(path, i) : i \in DOMAIN path}
    \cup {Append(path, h) : h \in hashes} \cup {<<h>> \o path : h \in hashes}
    \cup {[path EXCEPT ![i] = h] : i \in DOMAIN path, h \in hashes}

(* Hashes that occur in the tree: of each leaf and of each prefix. *)
Hashes == {LeafHash(x) : x \in Leaves} \cup {TreeHash(Prefix(m)) : m \in Sizes}

(* Every leaf of a tree of every size proves into the tree's sealed root   *)
(* by the audit path that the node makes for it, and nothing else does:    *)
(* whatever leaf, leaf number and tree size a document claims, and with    *)
(* whatever loss, repetition or exchange in its path, if the sealed root   *)
(* comes out, the size is the tree's and that leaf is at that place        *)
(* (stateRootAccumulator.js:112-133).                                      *)
AuditPathsExact ==
  LET sealed == Sealed(tree) hashes == Hashes IN
  \A i \in 0 .. Len(tree) - 1 :
    /\ SealedRootOf(i, Len(tree), tree[i + 1], AuditPath(i, tree)) = sealed
    /\ \A path \in Damaged(AuditPath(i, tree), hashes) :
         \A index \in 0 .. Len(tree), size \in Sizes \cup {Len(tree) + 1}, x \in Leaves :
           SealedRootOf(index, size, x, path) = sealed
             => size = Len(tree) /\ index < size /\ x = tree[index + 1]

(* Every prefix of a tree is shown to be one by the consistency proof that *)
(* the node makes for it, and nothing else is: if a consistency proof,     *)
(* damaged or not, computes the tree's hash from the hash of a first tree, *)
(* that is the hash of the prefix of that size (:140-178).                 *)
ConsistencyPathsExact ==
  LET hash == TreeHash(tree) hashes == Hashes prefix == [m \in Sizes |-> TreeHash(Prefix(m))] IN
  \A m \in Sizes :
    /\ VerifyConsistency(m, Len(tree), prefix[m], ConsistencyPath(m, tree)) = hash
    /\ \A path \in Damaged(ConsistencyPath(m, tree), hashes) :
         \A first \in 0 .. Len(tree) + 1, h \in hashes :
           VerifyConsistency(first, Len(tree), h, path) = hash
             => first \in Sizes /\ h = prefix[first]

=============================================================================
