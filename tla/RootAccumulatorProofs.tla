------------------------ MODULE RootAccumulatorProofs ------------------------
(***************************************************************************)
(* The proof algorithms of stateRootAccumulator.js are exact for a tree of *)
(* any size and for any path: what the node makes is accepted, and nothing *)
(* else is.                                                                *)
(*                                                                         *)
(* The tree is described level by level.  A level is the sequence of its   *)
(* nodes; the level above joins neighbours and keeps a last node without   *)
(* one (Lift).  Lifting a level changes neither the hash at the top nor a  *)
(* proof but for the part that the verifier has used, so each step of a    *)
(* verifier goes from one level to one above, and at the top there is one  *)
(* node left.  In the other direction, an equal hash at the top is taken   *)
(* apart step by step down to the leaf.                                    *)
(***************************************************************************)
EXTENDS RootAccumulator, WellFoundedInduction, TLAPS

(* Induction over the naturals, with a set in the place of the predicate. *)
LEMMA StrongInduction ==
  ASSUME NEW S \in SUBSET Nat,
         \A n \in Nat : (\A m \in 0 .. n - 1 : m \in S) => n \in S
  PROVE  S = Nat
<1> SUFFICES ASSUME S # Nat PROVE FALSE
  OBVIOUS
<1> DEFINE T == Nat \ S
           Less == OpToRel(<, Nat)
<1>1. T \subseteq Nat /\ T # {}
  OBVIOUS
<1>2. IsWellFoundedOn(Less, Nat)
  BY NatLessThanWellFounded
<1>3. PICK x \in T : \A y \in T : ~ (<<y, x>> \in Less)
  <2> HIDE DEF T, Less
  <2> QED BY <1>1, <1>2, WFMin
<1>4. ASSUME NEW m \in 0 .. x - 1 PROVE m \in S
  <2>1. m \in Nat /\ <<m, x>> \in Less
    BY DEF OpToRel
  <2> QED BY <1>3, <2>1
<1> QED
  BY <1>4

LEMMA Induction ==
  ASSUME NEW S \in SUBSET Nat, 0 \in S, \A n \in S : n + 1 \in S
  PROVE  S = Nat
<1>1. ASSUME NEW n \in Nat, \A m \in 0 .. n - 1 : m \in S PROVE n \in S
  <2>1. CASE n = 0
    BY <2>1
  <2>2. CASE n # 0
    BY <1>1, <2>2, n - 1 \in S, (n - 1) + 1 = n
  <2> QED BY <2>1, <2>2
<1> QED BY <1>1, StrongInduction

-----------------------------------------------------------------------------
(* Powers of two. *)

LEMMA TwoToIs ==
  /\ TwoTo[0] = 1
  /\ \A j \in Nat : TwoTo[j + 1] = 2 * TwoTo[j]
<1> DEFINE P(g, m) == g = [j \in 0 .. m |-> IF j = 0 THEN 1 ELSE 2 * g[j - 1]]
           G(m) == CHOOSE g : P(g, m)
           F == [m \in Nat |-> G(m)[m]]
           S == {m \in Nat : \E g : P(g, m)}
<1>1. ASSUME NEW g, NEW m \in Nat, P(g, m), NEW j \in 0 .. m
      PROVE  g[j] = IF j = 0 THEN 1 ELSE 2 * g[j - 1]
  <2> DEFINE gg == [k \in 0 .. m |-> IF k = 0 THEN 1 ELSE 2 * g[k - 1]]
  <2>1. g = gg BY <1>1, Zenon
  <2>2. gg[j] = IF j = 0 THEN 1 ELSE 2 * g[j - 1] BY ONLY j \in 0 .. m
  <2> QED BY ONLY <2>1, <2>2
<1>2. S = Nat
  <2>1. 0 \in S
    <3>1. P([j \in 0 .. 0 |-> 1], 0) OBVIOUS
    <3> QED BY <3>1, Zenon
  <2>2. ASSUME NEW m \in S PROVE m + 1 \in S
    <3>1. PICK g : P(g, m) BY Zenon
    <3> DEFINE h == [j \in 0 .. m + 1 |-> IF j = 0 THEN 1 ELSE 2 * g[j - 1]]
               hh == [j \in 0 .. m + 1 |-> IF j = 0 THEN 1 ELSE 2 * h[j - 1]]
    <3>2. ASSUME NEW j \in 0 .. m PROVE h[j] = g[j]
      <4>1. g[j] = IF j = 0 THEN 1 ELSE 2 * g[j - 1] BY <1>1, <3>1
      <4>2. h[j] = IF j = 0 THEN 1 ELSE 2 * g[j - 1] BY ONLY m \in Nat, j \in 0 .. m
      <4> QED BY ONLY <4>1, <4>2
    <3>3. ASSUME NEW j \in 0 .. m + 1 PROVE h[j] = hh[j]
      <4>1. j # 0 => j - 1 \in 0 .. m OBVIOUS
      <4>2. h[j] = IF j = 0 THEN 1 ELSE 2 * g[j - 1] BY ONLY j \in 0 .. m + 1
      <4>3. hh[j] = IF j = 0 THEN 1 ELSE 2 * h[j - 1] BY ONLY j \in 0 .. m + 1
      <4> HIDE DEF h, hh
      <4> QED BY ONLY <4>1, <4>2, <4>3, <3>2
    <3>4. h = hh BY ONLY <3>3, Zenon
    <3>5. m + 1 \in Nat OBVIOUS
    <3> QED BY <3>4, <3>5, Zenon
  <2> QED BY <2>1, <2>2, Induction, Zenon
<1>3. ASSUME NEW m \in Nat PROVE P(G(m), m)
  BY <1>2, Zenon
<1>4. ASSUME NEW m \in Nat PROVE G(m + 1)[m] = G(m)[m]
  <2> DEFINE T == {j \in Nat : j <= m => G(m + 1)[j] = G(m)[j]}
  <2>1. ASSUME NEW j \in 0 .. m
        PROVE  /\ G(m)[j] = IF j = 0 THEN 1 ELSE 2 * G(m)[j - 1]
               /\ G(m + 1)[j] = IF j = 0 THEN 1 ELSE 2 * G(m + 1)[j - 1]
    <3>1. m + 1 \in Nat /\ j \in 0 .. m + 1 OBVIOUS
    <3> HIDE DEF P, G
    <3> QED BY <1>1, <1>3, <3>1, Zenon
  <2> HIDE DEF P, G
  <2>2. 0 \in T BY <2>1
  <2>3. ASSUME NEW j \in T PROVE j + 1 \in T BY <2>1
  <2>4. T = Nat BY <2>2, <2>3, Induction
  <2> QED BY <2>4
<1>5. \A m \in Nat : F[m] = IF m = 0 THEN 1 ELSE 2 * F[m - 1]
  <2> SUFFICES ASSUME NEW m \in Nat PROVE F[m] = IF m = 0 THEN 1 ELSE 2 * F[m - 1]
    OBVIOUS
  <2>1. G(m)[m] = IF m = 0 THEN 1 ELSE 2 * G(m)[m - 1]
    BY <1>1, <1>3, m \in 0 .. m
  <2>2. m # 0 => G(m)[m - 1] = G(m - 1)[m - 1]
    <3> HIDE DEF G
    <3> QED BY <1>4, m # 0 => m - 1 \in Nat /\ (m - 1) + 1 = m
  <2> HIDE DEF P, G
  <2> QED BY <2>1, <2>2
<1>6. F = [m \in Nat |-> IF m = 0 THEN 1 ELSE 2 * F[m - 1]]
  <2> HIDE DEF G
  <2> DEFINE FF == [m \in Nat |-> IF m = 0 THEN 1 ELSE 2 * F[m - 1]]
  <2>1. \A m \in Nat : F[m] = FF[m] BY ONLY <1>5
  <2> QED BY ONLY <2>1, Zenon
<1> HIDE DEF F
<1>7. TwoTo = [m \in Nat |-> IF m = 0 THEN 1 ELSE 2 * TwoTo[m - 1]]
  BY <1>6, Zenon DEF TwoTo
<1> DEFINE t == [m \in Nat |-> IF m = 0 THEN 1 ELSE 2 * TwoTo[m - 1]]
<1>8. \A m \in Nat : TwoTo[m] = t[m]
  BY ONLY <1>7, Zenon
<1>9. t[0] = 1 /\ \A j \in Nat : t[j + 1] = 2 * TwoTo[j]
  OBVIOUS
<1> HIDE DEF t
<1> QED BY ONLY <1>8, <1>9

IsPower(p) == \E j \in Nat : p = TwoTo[j]

LEMMA PowersArePositive == \A j \in Nat : TwoTo[j] \in Nat /\ j < TwoTo[j]
<1> DEFINE S == {j \in Nat : TwoTo[j] \in Nat /\ j < TwoTo[j]}
<1>1. 0 \in S
  BY TwoToIs
<1>2. ASSUME NEW j \in S PROVE j + 1 \in S
  BY TwoToIs
<1>3. S = Nat
  BY <1>1, <1>2, Induction, Zenon
<1> QED BY <1>3

LEMMA PowerFacts ==
  /\ IsPower(1)
  /\ \A p : IsPower(p) => p \in Nat \ {0} /\ IsPower(2 * p)
  /\ \A p : IsPower(p) /\ p # 1 => \E q : IsPower(q) /\ p = 2 * q
<1>1. IsPower(1)
  BY TwoToIs DEF IsPower
<1>2. ASSUME NEW p, IsPower(p) PROVE p \in Nat \ {0} /\ IsPower(2 * p)
  <2>1. PICK j \in Nat : p = TwoTo[j]
    BY <1>2 DEF IsPower
  <2>2. 2 * p = TwoTo[j + 1] /\ j + 1 \in Nat
    BY <2>1, TwoToIs
  <2> QED BY <2>1, <2>2, PowersArePositive DEF IsPower
<1>3. ASSUME NEW p, IsPower(p), p # 1 PROVE \E q : IsPower(q) /\ p = 2 * q
  <2>1. PICK j \in Nat : p = TwoTo[j]
    BY <1>3 DEF IsPower
  <2>2. j - 1 \in Nat /\ (j - 1) + 1 = j
    BY <1>3, <2>1, TwoToIs
  <2>3. p = 2 * TwoTo[j - 1]
    BY <2>1, <2>2, TwoToIs
  <2> QED BY <2>2, <2>3 DEF IsPower
<1> QED BY <1>1, <1>2, <1>3

LEMMA PowerInPowers ==
  ASSUME NEW n \in Nat, NEW p, p <= n
  PROVE  IsPower(p) <=> p \in Powers(n)
<1>1. ASSUME IsPower(p) PROVE p \in Powers(n)
  <2>1. PICK j \in Nat : p = TwoTo[j]
    BY <1>1 DEF IsPower
  <2>2. j \in 0 .. n
    BY <2>1, PowersArePositive
  <2> QED BY <2>1, <2>2 DEF Powers
<1>2. ASSUME p \in Powers(n) PROVE IsPower(p)
  BY <1>2 DEF Powers, IsPower
<1> QED BY <1>1, <1>2

(* Of two different powers of two, one is at least twice the other. *)
LEMMA PowersApart ==
  ASSUME NEW p, NEW q, IsPower(p), IsPower(q), p < q
  PROVE  2 * p <= q
<1> DEFINE S == {n \in Nat : IsPower(n) => \A r : IsPower(r) /\ n < r => 2 * n <= r}
<1>1. ASSUME NEW n \in Nat, \A m \in 0 .. n - 1 : m \in S PROVE n \in S
  <2> SUFFICES ASSUME IsPower(n), NEW r, IsPower(r), n < r PROVE 2 * n <= r
    OBVIOUS
  <2>1. n \in Nat \ {0} /\ r \in Nat \ {0} /\ r # 1
    BY PowerFacts
  <2>2. PICK s : IsPower(s) /\ r = 2 * s
    BY <2>1, PowerFacts
  <2>3. s \in Nat \ {0}
    BY <2>2, PowerFacts
  <2>4. CASE n = 1
    BY <2>2, <2>3, <2>4
  <2>5. CASE n # 1
    <3>1. PICK m : IsPower(m) /\ n = 2 * m
      BY <2>5, PowerFacts
    <3>2. m \in 0 .. n - 1 /\ m < s
      BY <2>1, <2>2, <2>3, <3>1, PowerFacts
    <3>3. 2 * m <= s
      BY <1>1, <2>2, <3>1, <3>2
    <3> QED BY <2>2, <2>3, <3>1, <3>2, <3>3
  <2> QED BY <2>4, <2>5
<1>2. S = Nat
  <2>1. S \in SUBSET Nat
    OBVIOUS
  <2> HIDE DEF S
  <2> QED BY <1>1, <2>1, StrongInduction
<1> QED BY <1>2, PowerFacts

LEMMA SplitExists ==
  ASSUME NEW n \in Nat, n >= 2
  PROVE  \E p : IsPower(p) /\ p < n /\ n <= 2 * p
<1> DEFINE S == {m \in Nat : \E p : IsPower(p) /\ p < m + 2 /\ m + 2 <= 2 * p}
<1>1. 0 \in S
  BY PowerFacts
<1>2. ASSUME NEW m \in S PROVE m + 1 \in S
  <2>1. PICK p : IsPower(p) /\ p < m + 2 /\ m + 2 <= 2 * p
    OBVIOUS
  <2>2. p \in Nat \ {0} /\ IsPower(2 * p)
    BY <2>1, PowerFacts
  <2>3. CASE m + 3 <= 2 * p
    BY <2>1, <2>2, <2>3
  <2>4. CASE 2 * p < m + 3
    BY <2>1, <2>2, <2>4
  <2> QED BY <2>2, <2>3, <2>4
<1>3. S = Nat
  BY <1>1, <1>2, Induction
<1>4. \A m \in Nat : \E p : IsPower(p) /\ p < m + 2 /\ m + 2 <= 2 * p
  BY <1>3
<1> QED BY <1>4, n - 2 \in Nat, (n - 2) + 2 = n

(* A range of two or more splits at a power of two, into two shorter       *)
(* ranges of which the right one is not the longer one.                    *)
LEMMA SplitIs ==
  ASSUME NEW n \in Nat, n >= 2
  PROVE  IsPower(Split(n)) /\ Split(n) \in 1 .. n - 1 /\ n <= 2 * Split(n)
<1>1. PICK p : IsPower(p) /\ p < n /\ n <= 2 * p
  BY SplitExists
<1>2. p \in Powers(n)
  BY <1>1, PowerInPowers, PowerFacts
<1>3. Split(n) \in Powers(n) /\ Split(n) < n /\ n <= 2 * Split(n)
  BY <1>1, <1>2 DEF Split
<1>4. IsPower(Split(n))
  BY <1>3 DEF Powers, IsPower
<1> QED BY <1>3, <1>4, PowerFacts

(* Only one power of two can be the split. *)
LEMMA SplitIsOnly ==
  ASSUME NEW n \in Nat, NEW p, IsPower(p), p < n, n <= 2 * p
  PROVE  Split(n) = p
<1>1. p \in Nat \ {0} /\ n >= 2
  BY PowerFacts
<1>2. IsPower(Split(n)) /\ Split(n) \in 1 .. n - 1 /\ n <= 2 * Split(n)
  BY <1>1, SplitIs
<1>3. ~ (Split(n) < p) /\ ~ (p < Split(n))
  BY <1>1, <1>2, PowersApart
<1> QED BY <1>1, <1>2, <1>3

(* Halving a range halves its split, and a whole tree splits in the middle. *)
LEMMA SplitHalves ==
  ASSUME NEW n \in Nat, n >= 3
  PROVE  \E h \in Nat \ {0} : /\ Split(n) = 2 * h /\ IsPower(h)
                              /\ 2 * h < n /\ n <= 4 * h
                              /\ Split((n + 1) \div 2) = h
<1>1. IsPower(Split(n)) /\ Split(n) \in 1 .. n - 1 /\ n <= 2 * Split(n)
  BY SplitIs
<1>2. PICK h : IsPower(h) /\ Split(n) = 2 * h
  BY <1>1, PowerFacts
<1>3. h \in Nat \ {0}
  BY <1>2, PowerFacts
<1>4. (n + 1) \div 2 \in Nat /\ h < (n + 1) \div 2 /\ (n + 1) \div 2 <= 2 * h
  BY <1>1, <1>2, <1>3
<1>5. Split((n + 1) \div 2) = h
  BY <1>2, <1>4, SplitIsOnly
<1> QED BY <1>1, <1>2, <1>3, <1>5

LEMMA SplitOfTwo == Split(2) = 1
  BY SplitIs

LEMMA SplitOfPower ==
  ASSUME NEW n, IsPower(n), n # 1
  PROVE  n = 2 * Split(n) /\ IsPower(Split(n)) /\ Split(n) \in Nat \ {0}
<1>1. PICK q : IsPower(q) /\ n = 2 * q
  BY PowerFacts
<1>2. n \in Nat \ {0} /\ q \in Nat \ {0}
  BY <1>1, PowerFacts
<1> QED BY <1>1, <1>2, SplitIsOnly

-----------------------------------------------------------------------------
(* The recursive definitions have the values that they say they have. *)

HashRow(nodes, hash, n) ==
  [from \in Nat |->
    IF n = 1 THEN nodes[from + 1]
    ELSE NodeHash(hash[Split(n)][from], hash[n - Split(n)][from + Split(n)])]

(* The row of a recursive function at n is what its definition says of the *)
(* rows below n. It is so for the CHOSEN function because functions with   *)
(* that recursion exist for each length, by induction, each being the      *)
(* extension of a shorter one.                                             *)
LEMMA HashRows ==
  ASSUME NEW nodes, Len(nodes) \in Nat, NEW n \in 1 .. Len(nodes)
  PROVE  RangeHash(nodes)[n] = HashRow(nodes, RangeHash(nodes), n)
<1> DEFINE P(g, m) == g = [k \in 1 .. m |-> HashRow(nodes, g, k)]
           S == {m \in Nat : \E g : P(g, m)}
<1>1. 0 \in S
  <2>1. P([k \in 1 .. 0 |-> 0], 0)
    OBVIOUS
  <2> QED BY <2>1
<1>2. ASSUME NEW m \in S PROVE m + 1 \in S
  <2>1. PICK g : P(g, m)
    BY Zenon
  <2> DEFINE gg == [k \in 1 .. m |-> HashRow(nodes, g, k)]
             h == [k \in 1 .. m + 1 |-> HashRow(nodes, g, k)]
             hh == [k \in 1 .. m + 1 |-> HashRow(nodes, h, k)]
  <2>2. ASSUME NEW k \in 1 .. m PROVE g[k] = h[k]
    <3>1. g = gg
      BY <2>1, Zenon
    <3>2. gg[k] = h[k]
      BY ONLY <2>2, m \in Nat
    <3> QED BY ONLY <3>1, <3>2
  <2>3. ASSUME NEW k \in 1 .. m + 1 PROVE HashRow(nodes, g, k) = HashRow(nodes, h, k)
    <3> HIDE DEF h
    <3>1. CASE k = 1
      BY <3>1, Zenon DEF HashRow
    <3>2. CASE k # 1
      <4>1. Split(k) \in 1 .. m /\ k - Split(k) \in 1 .. m
        BY <3>2, SplitIs
      <4>2. g[Split(k)] = h[Split(k)] /\ g[k - Split(k)] = h[k - Split(k)]
        BY <4>1, <2>2
      <4> QED BY <4>2, Zenon DEF HashRow
    <3> QED BY <3>1, <3>2
  <2>4. h = hh
    BY <2>3, Zenon
  <2>5. m + 1 \in Nat
    OBVIOUS
  <2> QED BY <2>4, <2>5, Zenon
<1>3. S = Nat
  BY <1>1, <1>2, Induction, Zenon
<1> DEFINE f == RangeHash(nodes)
           r == [k \in 1 .. Len(nodes) |-> HashRow(nodes, f, k)]
<1>4. f = r
  <2>1. PICK g : P(g, Len(nodes))
    BY <1>3, Zenon
  <2> QED BY <2>1, Zenon DEF RangeHash, HashRow
<1>5. r[n] = HashRow(nodes, f, n)
  OBVIOUS
<1> HIDE DEF f, r
<1>6. f[n] = HashRow(nodes, f, n)
  BY <1>4, <1>5
<1> QED BY <1>6 DEF f

HashAt(nodes, n, i) == RangeHash(nodes)[n][i]

LEMMA HashOfLeaf ==
  ASSUME NEW nodes, Len(nodes) \in Nat \ {0}, NEW i \in Nat
  PROVE  HashAt(nodes, 1, i) = nodes[i + 1]
<1>1. RangeHash(nodes)[1] = HashRow(nodes, RangeHash(nodes), 1)
  BY HashRows
<1>2. HashRow(nodes, RangeHash(nodes), 1)[i] = nodes[i + 1]
  BY DEF HashRow
<1> QED BY <1>1, <1>2 DEF HashAt

LEMMA HashOfRange ==
  ASSUME NEW nodes, Len(nodes) \in Nat, NEW n \in 2 .. Len(nodes), NEW i \in Nat
  PROVE  HashAt(nodes, n, i) =
           NodeHash(HashAt(nodes, Split(n), i), HashAt(nodes, n - Split(n), i + Split(n)))
<1>1. RangeHash(nodes)[n] = HashRow(nodes, RangeHash(nodes), n)
  BY HashRows
<1>2. HashRow(nodes, RangeHash(nodes), n)[i] =
        NodeHash(RangeHash(nodes)[Split(n)][i], RangeHash(nodes)[n - Split(n)][i + Split(n)])
  BY DEF HashRow
<1> QED BY <1>1, <1>2 DEF HashAt

PathRow(hash, path, n) ==
  [m \in Nat |-> [from \in Nat |->
    IF n = 1 THEN <<>>
    ELSE IF m < Split(n)
         THEN Append(path[Split(n)][m][from], hash[n - Split(n)][from + Split(n)])
         ELSE Append(path[n - Split(n)][m - Split(n)][from + Split(n)], hash[Split(n)][from])]]

(* As HashRows, for the audit paths. *)
LEMMA PathRows ==
  ASSUME NEW nodes, Len(nodes) \in Nat, NEW n \in 1 .. Len(nodes)
  PROVE  RangePath(nodes)[n] = PathRow(RangeHash(nodes), RangePath(nodes), n)
<1> DEFINE hash == RangeHash(nodes)
           P(g, m) == g = [k \in 1 .. m |-> PathRow(hash, g, k)]
           S == {m \in Nat : \E g : P(g, m)}
<1>1. 0 \in S
  <2>1. P([k \in 1 .. 0 |-> 0], 0)
    OBVIOUS
  <2> QED BY <2>1
<1>2. ASSUME NEW m \in S PROVE m + 1 \in S
  <2>1. PICK g : P(g, m)
    BY Zenon
  <2> DEFINE gg == [k \in 1 .. m |-> PathRow(hash, g, k)]
             h == [k \in 1 .. m + 1 |-> PathRow(hash, g, k)]
             hh == [k \in 1 .. m + 1 |-> PathRow(hash, h, k)]
  <2>2. ASSUME NEW k \in 1 .. m PROVE g[k] = h[k]
    <3>1. g = gg
      BY <2>1, Zenon
    <3>2. gg[k] = h[k]
      BY ONLY <2>2, m \in Nat
    <3> QED BY ONLY <3>1, <3>2
  <2>3. ASSUME NEW k \in 1 .. m + 1 PROVE PathRow(hash, g, k) = PathRow(hash, h, k)
    <3> HIDE DEF h, hash
    <3>1. CASE k = 1
      BY <3>1, Zenon DEF PathRow
    <3>2. CASE k # 1
      <4>1. Split(k) \in 1 .. m /\ k - Split(k) \in 1 .. m
        BY <3>2, SplitIs
      <4>2. g[Split(k)] = h[Split(k)] /\ g[k - Split(k)] = h[k - Split(k)]
        BY <4>1, <2>2
      <4> QED BY <4>2, Zenon DEF PathRow
    <3> QED BY <3>1, <3>2
  <2>4. h = hh
    BY <2>3, Zenon
  <2>5. m + 1 \in Nat
    OBVIOUS
  <2> QED BY <2>4, <2>5, Zenon
<1>3. S = Nat
  BY <1>1, <1>2, Induction, Zenon
<1> DEFINE f == RangePath(nodes)
           r == [k \in 1 .. Len(nodes) |-> PathRow(hash, f, k)]
<1>4. f = r
  <2>1. PICK g : P(g, Len(nodes))
    BY <1>3, Zenon
  <2> QED BY <2>1, Zenon DEF RangePath, PathRow
<1>5. r[n] = PathRow(hash, f, n)
  OBVIOUS
<1> HIDE DEF f, r
<1>6. f[n] = PathRow(hash, f, n)
  BY <1>4, <1>5
<1> QED BY <1>6 DEF f

PathAt(nodes, n, m, i) == RangePath(nodes)[n][m][i]

LEMMA PathOfLeaf ==
  ASSUME NEW nodes, Len(nodes) \in Nat \ {0}, NEW m \in Nat, NEW i \in Nat
  PROVE  PathAt(nodes, 1, m, i) = <<>>
<1>1. RangePath(nodes)[1] = PathRow(RangeHash(nodes), RangePath(nodes), 1)
  BY PathRows
<1>2. PathRow(RangeHash(nodes), RangePath(nodes), 1)[m][i] = <<>>
  BY DEF PathRow
<1> QED BY <1>1, <1>2 DEF PathAt

LEMMA PathOnTheLeft ==
  ASSUME NEW nodes, Len(nodes) \in Nat, NEW n \in 2 .. Len(nodes), NEW m \in Nat, NEW i \in Nat,
         m < Split(n)
  PROVE  PathAt(nodes, n, m, i) =
           Append(PathAt(nodes, Split(n), m, i), HashAt(nodes, n - Split(n), i + Split(n)))
<1>1. RangePath(nodes)[n] = PathRow(RangeHash(nodes), RangePath(nodes), n)
  BY PathRows
<1>2. PathRow(RangeHash(nodes), RangePath(nodes), n)[m][i] =
        Append(RangePath(nodes)[Split(n)][m][i], RangeHash(nodes)[n - Split(n)][i + Split(n)])
  <2>1. n # 1
    OBVIOUS
  <2> QED BY <2>1, Zenon DEF PathRow
<1> QED BY <1>1, <1>2 DEF PathAt, HashAt

LEMMA PathOnTheRight ==
  ASSUME NEW nodes, Len(nodes) \in Nat, NEW n \in 2 .. Len(nodes), NEW m \in Nat, NEW i \in Nat,
         ~ (m < Split(n))
  PROVE  PathAt(nodes, n, m, i) =
           Append(PathAt(nodes, n - Split(n), m - Split(n), i + Split(n)), HashAt(nodes, Split(n), i))
<1>1. RangePath(nodes)[n] = PathRow(RangeHash(nodes), RangePath(nodes), n)
  BY PathRows
<1>2. PathRow(RangeHash(nodes), RangePath(nodes), n)[m][i] =
        Append(RangePath(nodes)[n - Split(n)][m - Split(n)][i + Split(n)], RangeHash(nodes)[Split(n)][i])
  BY DEF PathRow
<1> QED BY <1>1, <1>2 DEF PathAt, HashAt

ProofRow(hash, proof, n) ==
  [m \in 1 .. n |-> [whole \in BOOLEAN |-> [from \in Nat |->
    IF m = n THEN IF whole THEN <<>> ELSE <<hash[n][from]>>
    ELSE IF m <= Split(n)
         THEN Append(proof[Split(n)][m][whole][from], hash[n - Split(n)][from + Split(n)])
         ELSE Append(proof[n - Split(n)][m - Split(n)][FALSE][from + Split(n)],
                     hash[Split(n)][from])]]]

(* As HashRows, for the consistency proofs. *)
LEMMA ProofRows ==
  ASSUME NEW nodes, Len(nodes) \in Nat, NEW n \in 1 .. Len(nodes)
  PROVE  RangeProof(nodes)[n] = ProofRow(RangeHash(nodes), RangeProof(nodes), n)
<1> DEFINE hash == RangeHash(nodes)
           P(g, m) == g = [k \in 1 .. m |-> ProofRow(hash, g, k)]
           S == {m \in Nat : \E g : P(g, m)}
<1>1. 0 \in S
  <2>1. P([k \in 1 .. 0 |-> 0], 0)
    OBVIOUS
  <2> QED BY <2>1
<1>2. ASSUME NEW m \in S PROVE m + 1 \in S
  <2>1. PICK g : P(g, m)
    BY Zenon
  <2> DEFINE gg == [k \in 1 .. m |-> ProofRow(hash, g, k)]
             h == [k \in 1 .. m + 1 |-> ProofRow(hash, g, k)]
             hh == [k \in 1 .. m + 1 |-> ProofRow(hash, h, k)]
  <2>2. ASSUME NEW k \in 1 .. m PROVE g[k] = h[k]
    <3>1. g = gg
      BY <2>1, Zenon
    <3>2. gg[k] = h[k]
      BY ONLY <2>2, m \in Nat
    <3> QED BY ONLY <3>1, <3>2
  <2>3. ASSUME NEW k \in 1 .. m + 1 PROVE ProofRow(hash, g, k) = ProofRow(hash, h, k)
    <3> HIDE DEF h, hash
    <3>1. CASE k = 1
      <4>1. \A j \in 1 .. k : j = k
        BY <3>1
      <4> QED BY <4>1, Zenon DEF ProofRow
    <3>2. CASE k # 1
      <4>1. Split(k) \in 1 .. m /\ k - Split(k) \in 1 .. m
        BY <3>2, SplitIs
      <4>2. g[Split(k)] = h[Split(k)] /\ g[k - Split(k)] = h[k - Split(k)]
        BY <4>1, <2>2
      <4> QED BY <4>2, Zenon DEF ProofRow
    <3> QED BY <3>1, <3>2
  <2>4. h = hh
    BY <2>3, Zenon
  <2>5. m + 1 \in Nat
    OBVIOUS
  <2> QED BY <2>4, <2>5, Zenon
<1>3. S = Nat
  BY <1>1, <1>2, Induction, Zenon
<1> DEFINE f == RangeProof(nodes)
           r == [k \in 1 .. Len(nodes) |-> ProofRow(hash, f, k)]
<1>4. f = r
  <2>1. PICK g : P(g, Len(nodes))
    BY <1>3, Zenon
  <2> QED BY <2>1, Zenon DEF RangeProof, ProofRow
<1>5. r[n] = ProofRow(hash, f, n)
  OBVIOUS
<1> HIDE DEF f, r
<1>6. f[n] = ProofRow(hash, f, n)
  BY <1>4, <1>5
<1> QED BY <1>6 DEF f

ProofAt(nodes, n, m, whole, i) == RangeProof(nodes)[n][m][whole][i]

LEMMA ProofOfAll ==
  ASSUME NEW nodes, Len(nodes) \in Nat, NEW n \in 1 .. Len(nodes), NEW i \in Nat
  PROVE  /\ ProofAt(nodes, n, n, TRUE, i) = <<>>
         /\ ProofAt(nodes, n, n, FALSE, i) = <<HashAt(nodes, n, i)>>
<1> DEFINE row == ProofRow(RangeHash(nodes), RangeProof(nodes), n)
<1>1. RangeProof(nodes)[n] = row
  BY ProofRows
<1>2. row[n][TRUE][i] = <<>> /\ row[n][FALSE][i] = <<RangeHash(nodes)[n][i]>>
  <2>1. n \in 1 .. n /\ TRUE \in BOOLEAN /\ FALSE \in BOOLEAN
    OBVIOUS
  <2> QED BY ONLY <2>1, i \in Nat DEF ProofRow
<1> HIDE DEF row
<1> QED BY <1>1, <1>2 DEF ProofAt, HashAt

LEMMA ProofOnTheLeft ==
  ASSUME NEW nodes, Len(nodes) \in Nat, NEW n \in 2 .. Len(nodes),
         NEW m \in 1 .. n - 1, NEW whole \in BOOLEAN, NEW i \in Nat, m <= Split(n)
  PROVE  ProofAt(nodes, n, m, whole, i) =
           Append(ProofAt(nodes, Split(n), m, whole, i), HashAt(nodes, n - Split(n), i + Split(n)))
<1>1. RangeProof(nodes)[n] = ProofRow(RangeHash(nodes), RangeProof(nodes), n)
  BY ProofRows
<1>2. m \in 1 .. n /\ m # n
  OBVIOUS
<1>3. ProofRow(RangeHash(nodes), RangeProof(nodes), n)[m][whole][i] =
        Append(RangeProof(nodes)[Split(n)][m][whole][i], RangeHash(nodes)[n - Split(n)][i + Split(n)])
  BY <1>2 DEF ProofRow
<1> QED BY <1>1, <1>3 DEF ProofAt, HashAt

LEMMA ProofOnTheRight ==
  ASSUME NEW nodes, Len(nodes) \in Nat, NEW n \in 2 .. Len(nodes),
         NEW m \in 1 .. n - 1, NEW whole \in BOOLEAN, NEW i \in Nat, ~ (m <= Split(n))
  PROVE  ProofAt(nodes, n, m, whole, i) =
           Append(ProofAt(nodes, n - Split(n), m - Split(n), FALSE, i + Split(n)),
                  HashAt(nodes, Split(n), i))
<1>1. RangeProof(nodes)[n] = ProofRow(RangeHash(nodes), RangeProof(nodes), n)
  BY ProofRows
<1>2. m \in 1 .. n /\ m # n
  OBVIOUS
<1>3. ProofRow(RangeHash(nodes), RangeProof(nodes), n)[m][whole][i] =
        Append(RangeProof(nodes)[n - Split(n)][m - Split(n)][FALSE][i + Split(n)],
               RangeHash(nodes)[Split(n)][i])
  BY <1>2 DEF ProofRow
<1> QED BY <1>1, <1>3 DEF ProofAt, HashAt

-----------------------------------------------------------------------------
(* One level up: neighbours are joined, and a last node without one is     *)
(* kept.  Ranges that begin at an even place and end at one, or at the end *)
(* of the level, are ranges of the level above.                            *)

Lift(nodes) ==
  [j \in 1 .. (Len(nodes) + 1) \div 2 |->
    IF 2 * j <= Len(nodes) THEN NodeHash(nodes[2 * j - 1], nodes[2 * j]) ELSE nodes[2 * j - 1]]

Above(nodes, n, i) == 2 * i + n <= Len(nodes) /\ (n % 2 = 0 \/ 2 * i + n = Len(nodes))

LEMMA LenOfLift ==
  ASSUME NEW nodes, Len(nodes) \in Nat
  PROVE  Len(Lift(nodes)) = (Len(nodes) + 1) \div 2
BY DEF Lift

(* A range has the hash of its joined nodes one level up. *)
LEMMA LiftedHash ==
  ASSUME NEW nodes, Len(nodes) \in Nat,
         NEW n \in 1 .. Len(nodes), NEW i \in Nat, NEW j \in Nat, j = 2 * i, Above(nodes, n, i),
         NEW r \in Nat, r = (n + 1) \div 2
  PROVE  HashAt(nodes, n, j) = HashAt(Lift(nodes), r, i)
<1> DEFINE top == Lift(nodes)
           S == {m \in Nat : \A a, b, q \in Nat :
                   m \in 1 .. Len(nodes) /\ b = 2 * a /\ Above(nodes, m, a) /\ q = (m + 1) \div 2 =>
                     HashAt(nodes, m, b) = HashAt(top, q, a)}
<1>1. Len(top) = (Len(nodes) + 1) \div 2 /\ Len(top) \in Nat \ {0}
  BY LenOfLift
<1>2. ASSUME NEW m \in Nat, \A k \in 0 .. m - 1 : k \in S PROVE m \in S
  <2> SUFFICES ASSUME NEW a \in Nat, NEW b \in Nat, NEW q \in Nat, m \in 1 .. Len(nodes),
                      b = 2 * a, Above(nodes, m, a), q = (m + 1) \div 2
               PROVE  HashAt(nodes, m, b) = HashAt(top, q, a)
    OBVIOUS
  <2>0. Len(nodes) \in Nat \ {0}
    OBVIOUS
  <2>1. CASE m = 1
    <3>1. HashAt(nodes, 1, b) = nodes[b + 1]
      BY ONLY <2>0, b \in Nat, HashOfLeaf
    <3>2. HashAt(top, 1, a) = top[a + 1]
      <4> HIDE DEF top
      <4> QED BY <1>1, HashOfLeaf
    <3>3. top[a + 1] = nodes[b + 1]
      <4>1. 2 * (a + 1) > Len(nodes) /\ a + 1 \in 1 .. (Len(nodes) + 1) \div 2
        BY <2>1 DEF Above
      <4>2. 2 * (a + 1) - 1 = b + 1
        OBVIOUS
      <4> QED BY <4>1, <4>2 DEF Lift
    <3> HIDE DEF top
    <3> QED BY <2>1, <3>1, <3>2, <3>3
  <2>2. CASE m = 2
    <3>1. HashAt(nodes, 2, b) = NodeHash(HashAt(nodes, 1, b), HashAt(nodes, 1, b + 1))
      BY <2>2, HashOfRange, SplitOfTwo
    <3>2. HashAt(nodes, 1, b) = nodes[b + 1]
      BY ONLY <2>0, b \in Nat, HashOfLeaf
    <3>3. HashAt(nodes, 1, b + 1) = nodes[b + 2]
      BY ONLY <2>0, b \in Nat, HashOfLeaf, b + 1 \in Nat, (b + 1) + 1 = b + 2
    <3>4. HashAt(top, 1, a) = top[a + 1]
      <4> HIDE DEF top
      <4> QED BY <1>1, HashOfLeaf
    <3>5. top[a + 1] = NodeHash(nodes[b + 1], nodes[b + 2])
      <4>1. 2 * (a + 1) <= Len(nodes) /\ a + 1 \in 1 .. (Len(nodes) + 1) \div 2
        BY <2>2 DEF Above
      <4>2. 2 * (a + 1) - 1 = b + 1 /\ 2 * (a + 1) = b + 2
        OBVIOUS
      <4> QED BY <4>1, <4>2 DEF Lift
    <3>6. q = 1
      BY <2>2
    <3> HIDE DEF top
    <3> QED BY <2>2, <3>1, <3>2, <3>3, <3>4, <3>5, <3>6
  <2>3. CASE m >= 3
    <3> HIDE DEF top
    <3>1. PICK h \in Nat \ {0} : /\ Split(m) = 2 * h /\ 2 * h < m /\ m <= 4 * h
                                 /\ Split((m + 1) \div 2) = h
      BY <2>3, SplitHalves
    <3>2. PICK p \in Nat : p = 2 * h
      OBVIOUS
    <3>3. HashAt(nodes, m, b) = NodeHash(HashAt(nodes, p, b), HashAt(nodes, m - p, b + p))
      <4>1. m \in 2 .. Len(nodes) /\ Split(m) = p
        BY <2>3, <3>1, <3>2
      <4> QED BY ONLY <4>1, b \in Nat, Len(nodes) \in Nat, HashOfRange
    <3>4. HashAt(nodes, p, b) = HashAt(top, h, a)
      <4>1. p \in 0 .. m - 1 /\ p \in 1 .. Len(nodes) /\ Above(nodes, p, a)
        BY <3>1, <3>2 DEF Above
      <4>2. h = (p + 1) \div 2
        BY <3>2
      <4> QED BY <1>2, <4>1, <4>2
    <3>5. HashAt(nodes, m - p, b + p) = HashAt(top, q - h, a + h)
      <4>1. m - p \in 0 .. m - 1 /\ m - p \in 1 .. Len(nodes)
        BY <3>1, <3>2
      <4>2. Above(nodes, m - p, a + h)
        BY <3>1, <3>2 DEF Above
      <4>3. q - h = ((m - p) + 1) \div 2 /\ b + p = 2 * (a + h)
        BY <3>1, <3>2
      <4>4. a + h \in Nat /\ b + p \in Nat /\ q - h \in Nat
        BY <3>1, <3>2
      <4> QED BY <1>2, <4>1, <4>2, <4>3, <4>4
    <3>6. q \in 2 .. Len(top)
      BY <1>1, <2>3
    <3>7. HashAt(top, q, a) = NodeHash(HashAt(top, h, a), HashAt(top, q - h, a + h))
      BY <1>1, <3>1, <3>6, HashOfRange
    <3> QED BY <3>3, <3>4, <3>5, <3>7
  <2> QED BY <2>1, <2>2, <2>3
<1>3. S = Nat
  <2>1. S \in SUBSET Nat
    OBVIOUS
  <2> HIDE DEF S
  <2> QED BY <1>2, <2>1, StrongInduction
<1> QED BY <1>3

HashesIn(nodes) == {HashAt(nodes, n, i) : n \in 1 .. Len(nodes), i \in Nat}

(* An audit path is a sequence of hashes. *)
LEMMA PathIsSequence ==
  ASSUME NEW nodes, Len(nodes) \in Nat, NEW n \in 1 .. Len(nodes), NEW m \in Nat, NEW i \in Nat
  PROVE  PathAt(nodes, n, m, i) \in Seq(HashesIn(nodes))
<1> DEFINE T == HashesIn(nodes)
           S == {k \in Nat : k \in 1 .. Len(nodes) =>
                   \A a, b \in Nat : PathAt(nodes, k, a, b) \in Seq(T)}
<1>1. ASSUME NEW k \in Nat, \A l \in 0 .. k - 1 : l \in S PROVE k \in S
  <2> SUFFICES ASSUME k \in 1 .. Len(nodes), NEW a \in Nat, NEW b \in Nat
               PROVE  PathAt(nodes, k, a, b) \in Seq(T)
    OBVIOUS
  <2>1. CASE k = 1
    <3>1. PathAt(nodes, 1, a, b) = <<>>
      BY <2>1, PathOfLeaf
    <3>2. <<>> \in Seq(T)
      OBVIOUS
    <3> QED BY <2>1, <3>1, <3>2, Zenon
  <2>2. CASE k # 1
    <3>1. PICK p \in 1 .. k - 1 : p = Split(k)
      BY <2>2, SplitIs
    <3>2. \A c, d \in Nat : PathAt(nodes, p, c, d) \in Seq(T) /\ PathAt(nodes, k - p, c, d) \in Seq(T)
      <4>1. p \in 0 .. k - 1 /\ k - p \in 0 .. k - 1 /\ p \in 1 .. Len(nodes) /\ k - p \in 1 .. Len(nodes)
        OBVIOUS
      <4>2. p \in S /\ k - p \in S
        BY ONLY <1>1, <4>1
      <4> HIDE DEF T
      <4> QED BY ONLY <4>1, <4>2
    <3>3. \A c \in Nat : HashAt(nodes, p, c) \in T /\ HashAt(nodes, k - p, c) \in T
      <4>1. p \in 1 .. Len(nodes) /\ k - p \in 1 .. Len(nodes)
        OBVIOUS
      <4> QED BY ONLY <4>1 DEF HashesIn
    <3>4. k \in 2 .. Len(nodes)
      BY <2>2
    <3> HIDE DEF T
    <3>5. CASE a < p
      <4>1. PathAt(nodes, k, a, b) = Append(PathAt(nodes, p, a, b), HashAt(nodes, k - p, b + p))
        BY ONLY <3>1, <3>4, <3>5, Len(nodes) \in Nat, a \in Nat, b \in Nat, PathOnTheLeft
      <4> QED BY <3>2, <3>3, <4>1, b + p \in Nat
    <3>6. CASE ~ (a < p)
      <4>1. PathAt(nodes, k, a, b) = Append(PathAt(nodes, k - p, a - p, b + p), HashAt(nodes, p, b))
        BY ONLY <3>1, <3>4, <3>6, Len(nodes) \in Nat, a \in Nat, b \in Nat, PathOnTheRight
      <4> QED BY <3>2, <3>3, <3>6, <4>1, b + p \in Nat, a - p \in Nat
    <3> QED BY <3>5, <3>6
  <2> QED BY <2>1, <2>2
<1>2. S = Nat
  <2>1. S \in SUBSET Nat
    OBVIOUS
  <2> HIDE DEF S
  <2> QED BY <1>1, <2>1, StrongInduction
<1> QED BY <1>2

IsSeq(q) == \E T : q \in Seq(T)

LEMMA PathIsSeq ==
  ASSUME NEW nodes, Len(nodes) \in Nat, NEW n \in 1 .. Len(nodes), NEW m \in Nat, NEW i \in Nat
  PROVE  IsSeq(PathAt(nodes, n, m, i))
BY PathIsSequence DEF IsSeq

LEMMA EmptyBefore ==
  ASSUME NEW q, IsSeq(q)
  PROVE  <<>> \o q = q
<1>1. PICK T : q \in Seq(T)
  BY DEF IsSeq
<1> QED BY <1>1

LEMMA IsSeqOfAppend ==
  ASSUME NEW q, IsSeq(q), NEW x
  PROVE  IsSeq(Append(q, x))
<1>1. PICK T : q \in Seq(T)
  BY DEF IsSeq
<1>2. Append(q, x) \in Seq(T \cup {x})
  BY <1>1
<1> QED BY <1>2 DEF IsSeq

(* The sibling of node m among the n from number i on, if it has one. *)
Sibling(nodes, n, m, i) ==
  IF Odd(m) THEN <<nodes[i + m]>> ELSE IF m + 1 < n THEN <<nodes[i + m + 2]>> ELSE <<>>

LEMMA AppendAfter ==
  ASSUME NEW q, IsSeq(q), NEW s, s = <<>> \/ \E e : s = <<e>>, NEW x
  PROVE  Append(s \o q, x) = s \o Append(q, x)
<1>1. PICK T : q \in Seq(T)
  BY DEF IsSeq
<1>2. CASE s = <<>>
  BY <1>1, <1>2
<1>3. CASE \E e : s = <<e>>
  <2>1. PICK e : s = <<e>>
    BY <1>3
  <2> QED BY <1>1, <2>1
<1> QED BY <1>2, <1>3

LEMMA AppendAfterSibling ==
  ASSUME NEW nodes, NEW n, NEW m, NEW i, NEW q, IsSeq(q), NEW x
  PROVE  Append(Sibling(nodes, n, m, i) \o q, x) = Sibling(nodes, n, m, i) \o Append(q, x)
<1> DEFINE s == Sibling(nodes, n, m, i)
<1>1. s = <<>> \/ \E e : s = <<e>>
  BY DEF Sibling
<1> HIDE DEF s
<1>2. Append(s \o q, x) = s \o Append(q, x)
  BY <1>1, AppendAfter
<1> QED BY <1>2 DEF s

(* An audit path is the sibling of its node, if there is one, and the path *)
(* of the node above.                                                      *)
LEMMA LiftedPath ==
  ASSUME NEW nodes, Len(nodes) \in Nat, NEW n \in 1 .. Len(nodes), n = Len(nodes),
         NEW m \in 0 .. n - 1
  PROVE  PathAt(nodes, n, m, 0) = Sibling(nodes, n, m, 0) \o PathAt(Lift(nodes), (n + 1) \div 2, m \div 2, 0)
<1> DEFINE top == Lift(nodes)
           At(k, a, b, c, d, q) ==
             k \in 1 .. Len(nodes) /\ c \in 0 .. k - 1 /\ b = 2 * a /\ Above(nodes, k, a)
               /\ d = c \div 2 /\ q = (k + 1) \div 2 =>
             PathAt(nodes, k, c, b) = Sibling(nodes, k, c, b) \o PathAt(top, q, d, a)
           Holds(k) == \A a, b, c, d, q \in Nat : At(k, a, b, c, d, q)
           S == {k \in Nat : Holds(k)}
<1>1. Len(top) = (Len(nodes) + 1) \div 2 /\ Len(top) \in Nat \ {0}
  BY LenOfLift
<1>2. ASSUME NEW k \in Nat, \A l \in 0 .. k - 1 : Holds(l) PROVE Holds(k)
  <2> HIDE DEF At
  <2> SUFFICES ASSUME NEW a \in Nat, NEW b \in Nat, NEW c \in Nat, NEW d \in Nat, NEW q \in Nat
               PROVE  At(k, a, b, c, d, q)
    OBVIOUS
  <2> USE DEF At
  <2> SUFFICES ASSUME k \in 1 .. Len(nodes), c \in 0 .. k - 1, b = 2 * a, Above(nodes, k, a),
                      d = c \div 2, q = (k + 1) \div 2
               PROVE  PathAt(nodes, k, c, b) = Sibling(nodes, k, c, b) \o PathAt(top, q, d, a)
    OBVIOUS
  <2> HIDE DEF top
  <2>0. Len(nodes) \in Nat \ {0} /\ Len(top) \in Nat
    BY <1>1
  <2>2. PathAt(top, 1, d, a) = <<>>
    BY ONLY <1>1, a \in Nat, d \in Nat, PathOfLeaf
  <2>3. CASE k = 1
    <3>1. PathAt(nodes, 1, c, b) = <<>>
      BY ONLY <2>0, b \in Nat, c \in Nat, PathOfLeaf
    <3>2. Sibling(nodes, 1, c, b) = <<>>
      BY <2>3 DEF Sibling, Odd
    <3>3. q = 1
      BY <2>3
    <3>4. <<>> \o <<>> = <<>>
      OBVIOUS
    <3> QED BY ONLY <2>2, <2>3, <3>1, <3>2, <3>3, <3>4, Zenon
  <2>4. CASE k = 2
    <3>1. 2 \in 2 .. Len(nodes)
      BY <2>4
    <3>2. HashAt(nodes, 1, b) = nodes[b + 1]
      BY ONLY <2>0, b \in Nat, HashOfLeaf
    <3>3. HashAt(nodes, 1, b + 1) = nodes[b + 2]
      BY ONLY <2>0, b \in Nat, b + 1 \in Nat, (b + 1) + 1 = b + 2, HashOfLeaf
    <3>4. q = 1
      BY <2>4
    <3>5. CASE c = 0
      <4>1. PathAt(nodes, 2, 0, b) = Append(PathAt(nodes, 1, 0, b), HashAt(nodes, 1, b + 1))
        BY ONLY <3>1, Len(nodes) \in Nat, b \in Nat, 0 \in Nat, PathOnTheLeft, SplitOfTwo, 2 - 1 = 1, 0 < 1
      <4>2. PathAt(nodes, 1, 0, b) = <<>>
        BY ONLY <2>0, b \in Nat, PathOfLeaf
      <4>3. Sibling(nodes, 2, 0, b) = <<nodes[b + 2]>>
        BY DEF Sibling, Odd
      <4> QED BY ONLY <2>2, <2>4, <3>3, <3>4, <3>5, <4>1, <4>2, <4>3
    <3>6. CASE c = 1
      <4>1. PathAt(nodes, 2, 1, b) = Append(PathAt(nodes, 1, 0, b + 1), HashAt(nodes, 1, b))
        BY ONLY <3>1, Len(nodes) \in Nat, b \in Nat, 1 \in Nat, PathOnTheRight, SplitOfTwo, 2 - 1 = 1,
                1 - 1 = 0, ~ (1 < 1)
      <4>2. PathAt(nodes, 1, 0, b + 1) = <<>>
        BY ONLY <2>0, b + 1 \in Nat, b \in Nat, PathOfLeaf
      <4>3. Sibling(nodes, 2, 1, b) = <<nodes[b + 1]>>
        BY DEF Sibling, Odd
      <4>4. d = 0
        BY <3>6
      <4> QED BY ONLY <2>2, <2>4, <3>2, <3>4, <3>6, <4>1, <4>2, <4>3
    <3> QED BY <2>4, <3>5, <3>6
  <2>5. CASE k >= 3
    <3>1. PICK h \in Nat \ {0} : /\ Split(k) = 2 * h /\ 2 * h < k /\ k <= 4 * h
                                 /\ Split((k + 1) \div 2) = h
      BY <2>5, SplitHalves
    <3>2. PICK p \in Nat : p = 2 * h
      OBVIOUS
    <3>3. q \in 2 .. Len(top) /\ Split(q) = h /\ h < q
      BY <1>1, <2>5, <3>1
    <3>4. k \in 2 .. Len(nodes) /\ Split(k) = p
      BY <2>5, <3>1, <3>2
    <3>6. HashAt(nodes, p, b) = HashAt(top, h, a)
      <4>1. p \in 1 .. Len(nodes) /\ Above(nodes, p, a) /\ h = (p + 1) \div 2
        BY <3>1, <3>2 DEF Above
      <4> QED BY ONLY <4>1, a \in Nat, b \in Nat, b = 2 * a, h \in Nat \ {0}, Len(nodes) \in Nat,
                      LiftedHash DEF top
    <3>7. HashAt(nodes, k - p, b + p) = HashAt(top, q - h, a + h)
      <4>1. k - p \in 1 .. Len(nodes) /\ Above(nodes, k - p, a + h)
        BY <3>1, <3>2 DEF Above
      <4>2. /\ q - h = ((k - p) + 1) \div 2 /\ b + p = 2 * (a + h)
            /\ a + h \in Nat /\ b + p \in Nat /\ q - h \in Nat
        BY <3>1, <3>2, <3>3
      <4> QED BY ONLY <4>1, <4>2, Len(nodes) \in Nat, LiftedHash DEF top
    <3>8. CASE c < p
      <4>1. PathAt(nodes, k, c, b) = Append(PathAt(nodes, p, c, b), HashAt(nodes, k - p, b + p))
        BY ONLY <3>4, <3>8, b \in Nat, c \in Nat, Len(nodes) \in Nat, PathOnTheLeft
      <4>2. PathAt(nodes, p, c, b) = Sibling(nodes, p, c, b) \o PathAt(top, h, d, a)
        <5>1. p \in 0 .. k - 1 /\ p \in 1 .. Len(nodes) /\ Above(nodes, p, a) /\ c \in 0 .. p - 1
          BY <3>1, <3>2, <3>8 DEF Above
        <5>2. h = (p + 1) \div 2
          BY <3>2
        <5>3. At(p, a, b, c, d, h)
          <6> HIDE DEF At
          <6> QED BY <1>2, <5>1
        <5> QED BY ONLY <5>1, <5>2, <5>3, b = 2 * a, d = c \div 2
      <4>3. Sibling(nodes, p, c, b) = Sibling(nodes, k, c, b)
        BY <3>1, <3>2, <3>8 DEF Sibling, Odd
      <4>4. IsSeq(PathAt(top, h, d, a))
        <5>1. h \in 1 .. Len(top)
          BY <3>1, <3>3
        <5> QED BY ONLY <5>1, <2>0, a \in Nat, d \in Nat, PathIsSeq
      <4>5. PathAt(top, q, d, a) = Append(PathAt(top, h, d, a), HashAt(top, q - h, a + h))
        <5>1. d < h
          BY <3>2, <3>8
        <5> QED BY ONLY <5>1, <2>0, <3>3, a \in Nat, d \in Nat, PathOnTheLeft
      <4>6. Append(Sibling(nodes, k, c, b) \o PathAt(top, h, d, a), HashAt(top, q - h, a + h)) =
              Sibling(nodes, k, c, b) \o Append(PathAt(top, h, d, a), HashAt(top, q - h, a + h))
        <5>1. PICK u : u = PathAt(top, h, d, a)
          OBVIOUS
        <5>2. IsSeq(u)
          BY ONLY <4>4, <5>1
        <5>3. PICK x : x = HashAt(top, q - h, a + h)
          OBVIOUS
        <5>4. Append(Sibling(nodes, k, c, b) \o u, x) = Sibling(nodes, k, c, b) \o Append(u, x)
          BY ONLY <5>2, AppendAfterSibling
        <5> QED BY ONLY <5>1, <5>3, <5>4
      <4> QED BY ONLY <3>7, <4>1, <4>2, <4>3, <4>5, <4>6
    <3>9. CASE ~ (c < p)
      <4>0. c - p \in Nat /\ d - h \in Nat /\ d - h = (c - p) \div 2 /\ a + h \in Nat /\ b + p \in Nat
        BY <3>2, <3>9
      <4>1. PathAt(nodes, k, c, b) = Append(PathAt(nodes, k - p, c - p, b + p), HashAt(nodes, p, b))
        BY ONLY <3>4, <3>9, b \in Nat, c \in Nat, Len(nodes) \in Nat, PathOnTheRight
      <4>2. PathAt(nodes, k - p, c - p, b + p) =
              Sibling(nodes, k - p, c - p, b + p) \o PathAt(top, q - h, d - h, a + h)
        <5>1. k - p \in 0 .. k - 1 /\ k - p \in 1 .. Len(nodes) /\ c - p \in 0 .. k - p - 1
          BY <3>1, <3>2, <3>9
        <5>2. Above(nodes, k - p, a + h)
          BY <3>1, <3>2 DEF Above
        <5>3. q - h = (k - p + 1) \div 2 /\ b + p = 2 * (a + h) /\ q - h \in Nat
          BY <3>1, <3>2, <3>3
        <5>4. At(k - p, a + h, b + p, c - p, d - h, q - h)
          <6> HIDE DEF At
          <6> QED BY ONLY <1>2, <5>1, <5>3, <4>0
        <5> QED BY ONLY <5>1, <5>2, <5>3, <5>4, <4>0
      <4>3. Sibling(nodes, k - p, c - p, b + p) = Sibling(nodes, k, c, b)
        <5>1. Odd(c - p) <=> Odd(c)
          BY <3>2, <3>9 DEF Odd
        <5>2. (c - p) + 1 < k - p <=> c + 1 < k
          BY <3>2
        <5>3. (b + p) + (c - p) = b + c /\ (b + p) + (c - p) + 2 = b + c + 2
          BY <3>2
        <5> QED BY ONLY <5>1, <5>2, <5>3 DEF Sibling
      <4>4. IsSeq(PathAt(top, q - h, d - h, a + h))
        <5>1. q - h \in 1 .. Len(top) /\ a + h \in Nat
          BY <3>1, <3>3
        <5> QED BY ONLY <5>1, <2>0, <4>0, PathIsSeq
      <4>5. PathAt(top, q, d, a) = Append(PathAt(top, q - h, d - h, a + h), HashAt(top, h, a))
        <5>1. ~ (d < h)
          BY <3>2, <3>9
        <5> QED BY ONLY <5>1, <2>0, <3>3, a \in Nat, d \in Nat, PathOnTheRight
      <4>6. Append(Sibling(nodes, k, c, b) \o PathAt(top, q - h, d - h, a + h), HashAt(top, h, a)) =
              Sibling(nodes, k, c, b) \o Append(PathAt(top, q - h, d - h, a + h), HashAt(top, h, a))
        <5>1. PICK u : u = PathAt(top, q - h, d - h, a + h)
          OBVIOUS
        <5>2. IsSeq(u)
          BY ONLY <4>4, <5>1
        <5>3. PICK x : x = HashAt(top, h, a)
          OBVIOUS
        <5>4. Append(Sibling(nodes, k, c, b) \o u, x) = Sibling(nodes, k, c, b) \o Append(u, x)
          BY ONLY <5>2, AppendAfterSibling
        <5> QED BY ONLY <5>1, <5>3, <5>4
      <4> QED BY ONLY <3>6, <4>1, <4>2, <4>3, <4>5, <4>6
    <3> QED BY <3>8, <3>9
  <2>6. k = 1 \/ k = 2 \/ k >= 3
    OBVIOUS
  <2> QED BY ONLY <2>3, <2>4, <2>5, <2>6, Zenon
<1>3. S = Nat
  <2>1. S \in SUBSET Nat
    OBVIOUS
  <2>2. ASSUME NEW k \in Nat, \A l \in 0 .. k - 1 : l \in S PROVE k \in S
    <3> HIDE DEF Holds
    <3> QED BY <1>2, <2>2
  <2> HIDE DEF S
  <2> QED BY ONLY <2>1, <2>2, StrongInduction
<1>4. Holds(n)
  <2> HIDE DEF Holds
  <2> QED BY <1>3
<1>5. PICK t \in Nat : t = m \div 2
  OBVIOUS
<1>6. PICK r \in Nat : r = (n + 1) \div 2
  OBVIOUS
<1>7. At(n, 0, 0, m, t, r)
  <2>1. m \in Nat
    OBVIOUS
  <2> HIDE DEF At
  <2> QED BY ONLY <1>4, <2>1, 0 \in Nat, t \in Nat, r \in Nat
<1>8. Above(nodes, n, 0) /\ 0 = 2 * 0
  BY DEF Above
<1> QED BY ONLY <1>5, <1>6, <1>7, <1>8, n \in 1 .. Len(nodes), m \in 0 .. n - 1

(* If the first tree is a whole one, its proof within a larger one begins  *)
(* with its own hash, which the proof that the verifier gets leaves out.   *)
LEMMA ProofWithItsOwnHash ==
  ASSUME NEW nodes, Len(nodes) \in Nat, NEW n \in 1 .. Len(nodes), NEW m \in 1 .. n, NEW i \in Nat,
         IsPower(m)
  PROVE  ProofAt(nodes, n, m, FALSE, i) = <<HashAt(nodes, m, i)>> \o ProofAt(nodes, n, m, TRUE, i)
<1> DEFINE At(k, a, b) ==
             k \in 1 .. Len(nodes) /\ b \in 1 .. k /\ IsPower(b) =>
             /\ ProofAt(nodes, k, b, FALSE, a) = <<HashAt(nodes, b, a)>> \o ProofAt(nodes, k, b, TRUE, a)
             /\ IsSeq(ProofAt(nodes, k, b, TRUE, a))
           S == {k \in Nat : \A a, b \in Nat : At(k, a, b)}
<1>1. ASSUME NEW k \in Nat, \A l \in 0 .. k - 1 : \A a, b \in Nat : At(l, a, b),
             NEW a \in Nat, NEW b \in Nat
      PROVE  At(k, a, b)
  <2> SUFFICES ASSUME k \in 1 .. Len(nodes), b \in 1 .. k, IsPower(b)
               PROVE  /\ ProofAt(nodes, k, b, FALSE, a) =
                           <<HashAt(nodes, b, a)>> \o ProofAt(nodes, k, b, TRUE, a)
                      /\ IsSeq(ProofAt(nodes, k, b, TRUE, a))
    OBVIOUS
  <2>1. CASE b = k
    <3>1. ProofAt(nodes, k, k, FALSE, a) = <<HashAt(nodes, k, a)>> /\ ProofAt(nodes, k, k, TRUE, a) = <<>>
      BY ONLY k \in 1 .. Len(nodes), Len(nodes) \in Nat, a \in Nat, ProofOfAll
    <3>2. IsSeq(<<>>)
      BY <<>> \in Seq(Nat) DEF IsSeq
    <3>3. <<HashAt(nodes, k, a)>> = <<HashAt(nodes, k, a)>> \o <<>>
      OBVIOUS
    <3> QED BY ONLY <2>1, <3>1, <3>2, <3>3
  <2>2. CASE b # k
    <3>1. k \in 2 .. Len(nodes) /\ b \in 1 .. k - 1
      BY <2>2
    <3>2. PICK p \in 1 .. k - 1 : p = Split(k) /\ IsPower(p) /\ k <= 2 * p
      BY <3>1, SplitIs
    <3>3. b <= p
      <4>1. CASE p < b
        <5>1. 2 * p <= b
          BY ONLY <3>2, <4>1, IsPower(b), PowersApart
        <5> QED BY <3>1, <3>2, <5>1
      <4> QED BY <3>2, <4>1
    <3>4. At(p, a, b)
      <4> HIDE DEF At
      <4> QED BY <1>1, <3>2
    <3>5. PICK q : q = ProofAt(nodes, p, b, TRUE, a)
      OBVIOUS
    <3>6. IsSeq(q) /\ ProofAt(nodes, p, b, FALSE, a) = <<HashAt(nodes, b, a)>> \o q
      <4>1. p \in 1 .. Len(nodes) /\ b \in 1 .. p
        BY <3>1, <3>2, <3>3
      <4> QED BY ONLY <3>4, <3>5, <4>1, IsPower(b)
    <3>7. PICK x : x = HashAt(nodes, k - p, a + p)
      OBVIOUS
    <3>8. ASSUME NEW w \in BOOLEAN
          PROVE  ProofAt(nodes, k, b, w, a) = Append(ProofAt(nodes, p, b, w, a), x)
      BY ONLY <3>1, <3>2, <3>3, <3>7, <3>8, a \in Nat, Len(nodes) \in Nat, ProofOnTheLeft
    <3>9. ProofAt(nodes, k, b, FALSE, a) = Append(ProofAt(nodes, p, b, FALSE, a), x)
          /\ ProofAt(nodes, k, b, TRUE, a) = Append(q, x)
      BY ONLY <3>5, <3>8
    <3>10. Append(<<HashAt(nodes, b, a)>> \o q, x) = <<HashAt(nodes, b, a)>> \o Append(q, x)
      BY ONLY <3>6, AppendAfter
    <3>11. IsSeq(Append(q, x))
      BY ONLY <3>6, IsSeqOfAppend
    <3> QED BY ONLY <3>6, <3>9, <3>10, <3>11
  <2> QED BY <2>1, <2>2
<1>2. S = Nat
  <2> HIDE DEF At
  <2>1. S \in SUBSET Nat
    OBVIOUS
  <2>2. ASSUME NEW k \in Nat, \A l \in 0 .. k - 1 : l \in S PROVE k \in S
    BY <1>1, <2>2
  <2> HIDE DEF S
  <2> QED BY ONLY <2>1, <2>2, StrongInduction
<1>3. At(n, i, m)
  <2>1. n \in Nat /\ m \in Nat
    OBVIOUS
  <2> HIDE DEF At
  <2> QED BY ONLY <1>2, <2>1, i \in Nat
<1> QED BY <1>3

(* If the first tree is not a whole one, it makes no difference that its   *)
(* hash may be left out.                                                   *)
LEMMA ProofOfARemainder ==
  ASSUME NEW nodes, Len(nodes) \in Nat, NEW n \in 1 .. Len(nodes), NEW m \in 1 .. n - 1, NEW i \in Nat,
         ~ IsPower(m)
  PROVE  ProofAt(nodes, n, m, FALSE, i) = ProofAt(nodes, n, m, TRUE, i)
<1> DEFINE At(k, a, b) ==
             k \in 1 .. Len(nodes) /\ b \in 1 .. k - 1 /\ ~ IsPower(b) =>
             ProofAt(nodes, k, b, FALSE, a) = ProofAt(nodes, k, b, TRUE, a)
           S == {k \in Nat : \A a, b \in Nat : At(k, a, b)}
<1>1. ASSUME NEW k \in Nat, \A l \in 0 .. k - 1 : \A a, b \in Nat : At(l, a, b),
             NEW a \in Nat, NEW b \in Nat
      PROVE  At(k, a, b)
  <2> SUFFICES ASSUME k \in 1 .. Len(nodes), b \in 1 .. k - 1, ~ IsPower(b)
               PROVE  ProofAt(nodes, k, b, FALSE, a) = ProofAt(nodes, k, b, TRUE, a)
    OBVIOUS
  <2>1. k \in 2 .. Len(nodes)
    OBVIOUS
  <2>2. PICK p \in 1 .. k - 1 : p = Split(k) /\ IsPower(p)
    BY <2>1, SplitIs
  <2>3. CASE b <= p
    <3>1. At(p, a, b)
      <4> HIDE DEF At
      <4> QED BY <1>1, <2>2
    <3>2. ProofAt(nodes, p, b, FALSE, a) = ProofAt(nodes, p, b, TRUE, a)
      <4>1. b # p
        BY <2>2
      <4>2. p \in 1 .. Len(nodes) /\ b \in 1 .. p - 1
        BY <2>1, <2>2, <2>3, <4>1
      <4> QED BY ONLY <3>1, <4>2, ~ IsPower(b)
    <3>3. ASSUME NEW w \in BOOLEAN
          PROVE  ProofAt(nodes, k, b, w, a) =
                   Append(ProofAt(nodes, p, b, w, a), HashAt(nodes, k - p, a + p))
      BY ONLY <2>1, <2>2, <2>3, <3>3, b \in 1 .. k - 1, a \in Nat, Len(nodes) \in Nat, ProofOnTheLeft
    <3> QED BY ONLY <3>2, <3>3
  <2>4. CASE ~ (b <= p)
    <3>1. ASSUME NEW w \in BOOLEAN
          PROVE  ProofAt(nodes, k, b, w, a) =
                   Append(ProofAt(nodes, k - p, b - p, FALSE, a + p), HashAt(nodes, p, a))
      BY ONLY <2>1, <2>2, <2>4, <3>1, b \in 1 .. k - 1, a \in Nat, Len(nodes) \in Nat, ProofOnTheRight
    <3> QED BY ONLY <3>1
  <2> QED BY <2>3, <2>4
<1>2. S = Nat
  <2> HIDE DEF At
  <2>1. S \in SUBSET Nat
    OBVIOUS
  <2>2. ASSUME NEW k \in Nat, \A l \in 0 .. k - 1 : l \in S PROVE k \in S
    BY <1>1, <2>2
  <2> HIDE DEF S
  <2> QED BY ONLY <2>1, <2>2, StrongInduction
<1>3. At(n, i, m)
  <2>1. n \in Nat /\ m \in Nat
    OBVIOUS
  <2> HIDE DEF At
  <2> QED BY ONLY <1>2, <2>1, i \in Nat
<1> QED BY <1>3

(* The consistency proof of an even number of nodes is the one of half as  *)
(* many, one level up.                                                     *)
LEMMA LiftedProof ==
  ASSUME NEW nodes, Len(nodes) \in Nat, NEW n \in 2 .. Len(nodes), n = Len(nodes),
         NEW m \in 1 .. n, ~ Odd(m)
  PROVE  ProofAt(nodes, n, m, FALSE, 0) = ProofAt(Lift(nodes), (n + 1) \div 2, m \div 2, FALSE, 0)
<1> DEFINE top == Lift(nodes)
           At(k, a, b, c, d, q) ==
             k \in 2 .. Len(nodes) /\ c \in 1 .. k /\ b = 2 * a /\ Above(nodes, k, a)
               /\ c = 2 * d /\ q = (k + 1) \div 2 =>
             ProofAt(nodes, k, c, FALSE, b) = ProofAt(top, q, d, FALSE, a)
           S == {k \in Nat : \A a, b, c, d, q \in Nat : At(k, a, b, c, d, q)}
<1>1. Len(top) = (Len(nodes) + 1) \div 2 /\ Len(top) \in Nat \ {0}
  BY LenOfLift
<1>2. ASSUME NEW k \in Nat, \A l \in 0 .. k - 1 : \A a, b, c, d, q \in Nat : At(l, a, b, c, d, q),
             NEW a \in Nat, NEW b \in Nat, NEW c \in Nat, NEW d \in Nat, NEW q \in Nat
      PROVE  At(k, a, b, c, d, q)
  <2> SUFFICES ASSUME k \in 2 .. Len(nodes), c \in 1 .. k, b = 2 * a, Above(nodes, k, a),
                      c = 2 * d, q = (k + 1) \div 2
               PROVE  ProofAt(nodes, k, c, FALSE, b) = ProofAt(top, q, d, FALSE, a)
    OBVIOUS
  <2> HIDE DEF top
  <2>1. CASE c = k
    <3>1. ProofAt(nodes, k, k, FALSE, b) = <<HashAt(nodes, k, b)>>
      <4>1. k \in 1 .. Len(nodes)
        OBVIOUS
      <4> QED BY ONLY <4>1, Len(nodes) \in Nat, b \in Nat, ProofOfAll
    <3>2. q = d /\ d \in 1 .. Len(top)
      BY <1>1, <2>1
    <3>3. ProofAt(top, d, d, FALSE, a) = <<HashAt(top, d, a)>>
      BY ONLY <1>1, <3>2, a \in Nat, ProofOfAll
    <3>4. HashAt(nodes, k, b) = HashAt(top, q, a)
      <4>1. k \in 1 .. Len(nodes)
        OBVIOUS
      <4> QED BY ONLY <4>1, a \in Nat, b \in Nat, b = 2 * a, q \in Nat, q = (k + 1) \div 2,
                      Above(nodes, k, a), Len(nodes) \in Nat, LiftedHash DEF top
    <3> QED BY ONLY <2>1, <3>1, <3>2, <3>3, <3>4
  <2>2. CASE c # k
    <3>1. k >= 3 /\ c \in 1 .. k - 1
      BY <2>2
    <3>2. PICK h \in Nat \ {0} : /\ Split(k) = 2 * h /\ 2 * h < k /\ k <= 4 * h
                                 /\ Split((k + 1) \div 2) = h
      BY <3>1, SplitHalves
    <3>3. PICK p \in Nat : p = 2 * h
      OBVIOUS
    <3>4. q \in 2 .. Len(top) /\ Split(q) = h /\ h < q /\ d \in 1 .. q - 1
      BY <1>1, <3>1, <3>2
    <3>5. k \in 2 .. Len(nodes) /\ Split(k) = p
      BY <3>1, <3>2, <3>3
    <3>6. CASE c <= p
      <4>1. ProofAt(nodes, k, c, FALSE, b) =
              Append(ProofAt(nodes, p, c, FALSE, b), HashAt(nodes, k - p, b + p))
        BY ONLY <3>1, <3>5, <3>6, b \in Nat, Len(nodes) \in Nat, ProofOnTheLeft
      <4>2. ProofAt(nodes, p, c, FALSE, b) = ProofAt(top, h, d, FALSE, a)
        <5>1. /\ p \in 0 .. k - 1 /\ p \in 2 .. Len(nodes) /\ Above(nodes, p, a) /\ c \in 1 .. p
              /\ h = (p + 1) \div 2
          BY <3>2, <3>3, <3>6 DEF Above
        <5>2. At(p, a, b, c, d, h)
          <6> HIDE DEF At
          <6> QED BY <1>2, <5>1
        <5> QED BY ONLY <5>1, <5>2, b = 2 * a, c = 2 * d
      <4>3. HashAt(nodes, k - p, b + p) = HashAt(top, q - h, a + h)
        <5>1. k - p \in 1 .. Len(nodes) /\ Above(nodes, k - p, a + h)
          BY <3>2, <3>3 DEF Above
        <5>2. q - h = (k - p + 1) \div 2 /\ b + p = 2 * (a + h) /\ a + h \in Nat /\ b + p \in Nat
              /\ q - h \in Nat
          BY <3>2, <3>3, <3>4
        <5> QED BY ONLY <5>1, <5>2, Len(nodes) \in Nat, LiftedHash DEF top
      <4>4. ProofAt(top, q, d, FALSE, a) =
              Append(ProofAt(top, h, d, FALSE, a), HashAt(top, q - h, a + h))
        <5>1. d <= h
          BY <3>3, <3>6
        <5> QED BY ONLY <5>1, <1>1, <3>4, a \in Nat, ProofOnTheLeft
      <4> QED BY ONLY <4>1, <4>2, <4>3, <4>4
    <3>7. CASE ~ (c <= p)
      <4>1. ProofAt(nodes, k, c, FALSE, b) =
              Append(ProofAt(nodes, k - p, c - p, FALSE, b + p), HashAt(nodes, p, b))
        BY ONLY <3>1, <3>5, <3>7, b \in Nat, Len(nodes) \in Nat, ProofOnTheRight
      <4>2. ProofAt(nodes, k - p, c - p, FALSE, b + p) = ProofAt(top, q - h, d - h, FALSE, a + h)
        <5>1. k - p \in 0 .. k - 1 /\ k - p \in 2 .. Len(nodes) /\ c - p \in 1 .. k - p
              /\ c - p \in Nat
          BY <3>1, <3>2, <3>3, <3>7
        <5>2. Above(nodes, k - p, a + h)
          BY <3>2, <3>3 DEF Above
        <5>3. /\ q - h = (k - p + 1) \div 2 /\ b + p = 2 * (a + h) /\ a + h \in Nat /\ b + p \in Nat
              /\ q - h \in Nat /\ d - h \in Nat /\ c - p = 2 * (d - h)
          BY <3>2, <3>3, <3>4, <3>7
        <5>4. At(k - p, a + h, b + p, c - p, d - h, q - h)
          <6> HIDE DEF At
          <6> QED BY ONLY <1>2, <5>1, <5>3
        <5> QED BY ONLY <5>1, <5>2, <5>3, <5>4
      <4>3. HashAt(nodes, p, b) = HashAt(top, h, a)
        <5>1. p \in 1 .. Len(nodes) /\ Above(nodes, p, a) /\ h = (p + 1) \div 2
          BY <3>2, <3>3 DEF Above
        <5> QED BY ONLY <5>1, a \in Nat, b \in Nat, b = 2 * a, h \in Nat \ {0}, Len(nodes) \in Nat, LiftedHash
                   DEF top
      <4>4. ProofAt(top, q, d, FALSE, a) =
              Append(ProofAt(top, q - h, d - h, FALSE, a + h), HashAt(top, h, a))
        <5>1. ~ (d <= h)
          BY <3>3, <3>7
        <5> QED BY ONLY <5>1, <1>1, <3>4, a \in Nat, ProofOnTheRight
      <4> QED BY ONLY <4>1, <4>2, <4>3, <4>4
    <3> QED BY <3>6, <3>7
  <2> QED BY <2>1, <2>2
<1>3. S = Nat
  <2> HIDE DEF At
  <2>1. S \in SUBSET Nat
    OBVIOUS
  <2>2. ASSUME NEW k \in Nat, \A l \in 0 .. k - 1 : l \in S PROVE k \in S
    BY <1>2, <2>2
  <2> HIDE DEF S
  <2> QED BY ONLY <2>1, <2>2, StrongInduction
<1>4. PICK t \in Nat : t = m \div 2 /\ m = 2 * t
  BY DEF Odd
<1>5. PICK r \in Nat : r = (n + 1) \div 2
  OBVIOUS
<1>6. At(n, 0, 0, m, t, r)
  <2>1. n \in Nat /\ m \in Nat
    OBVIOUS
  <2> HIDE DEF At
  <2> QED BY ONLY <1>3, <2>1, 0 \in Nat, t \in Nat, r \in Nat
<1>7. Above(nodes, n, 0) /\ 0 = 2 * 0
  BY DEF Above
<1> QED BY ONLY <1>4, <1>5, <1>6, <1>7, n \in 2 .. Len(nodes), m \in 1 .. n

(* The consistency proof of an odd number of nodes is the last of them and *)
(* its audit path.                                                         *)
LEMMA ProofIsPath ==
  ASSUME NEW nodes, Len(nodes) \in Nat, NEW n \in 1 .. Len(nodes), NEW m \in 1 .. n, NEW i \in Nat,
         Odd(m), m < n \/ n = 1
  PROVE  ProofAt(nodes, n, m, FALSE, i) = <<nodes[i + m]>> \o PathAt(nodes, n, m - 1, i)
<1> DEFINE At(k, a, b) ==
             k \in 1 .. Len(nodes) /\ b \in 1 .. k /\ Odd(b) /\ (b < k \/ k = 1) =>
             ProofAt(nodes, k, b, FALSE, a) = <<nodes[a + b]>> \o PathAt(nodes, k, b - 1, a)
           S == {k \in Nat : \A a, b \in Nat : At(k, a, b)}
<1>1. ASSUME NEW k \in Nat, \A l \in 0 .. k - 1 : \A a, b \in Nat : At(l, a, b),
             NEW a \in Nat, NEW b \in Nat
      PROVE  At(k, a, b)
  <2> SUFFICES ASSUME k \in 1 .. Len(nodes), b \in 1 .. k, Odd(b), b < k \/ k = 1
               PROVE  ProofAt(nodes, k, b, FALSE, a) = <<nodes[a + b]>> \o PathAt(nodes, k, b - 1, a)
    OBVIOUS
  <2>0. Len(nodes) \in Nat \ {0} /\ 1 \in 1 .. Len(nodes) /\ b - 1 \in Nat
    OBVIOUS
  <2>1. CASE k = 1
    <3>1. ProofAt(nodes, 1, 1, FALSE, a) = <<HashAt(nodes, 1, a)>>
      BY ONLY <2>0, a \in Nat, ProofOfAll
    <3>2. HashAt(nodes, 1, a) = nodes[a + 1]
      BY ONLY <2>0, a \in Nat, HashOfLeaf
    <3>3. PathAt(nodes, 1, b - 1, a) = <<>>
      BY ONLY <2>0, a \in Nat, PathOfLeaf
    <3>4. b = 1
      BY <2>1
    <3>5. <<nodes[a + 1]>> \o <<>> = <<nodes[a + 1]>>
      OBVIOUS
    <3> QED BY ONLY <2>1, <3>1, <3>2, <3>3, <3>4, <3>5
  <2>2. CASE k # 1
    <3>1. k \in 2 .. Len(nodes) /\ b \in 1 .. k - 1
      BY <2>2
    <3>2. PICK p \in 1 .. k - 1 : p = Split(k) /\ (k # 2 => \E h \in Nat : p = 2 * h) /\ (k = 2 => p = 1)
      <4>1. Split(k) \in 1 .. k - 1
        BY <3>1, SplitIs
      <4>2. k # 2 => \E h \in Nat : Split(k) = 2 * h
        <5>1. k # 2 => k >= 3
          BY <3>1
        <5> QED BY <5>1, SplitHalves
      <4>3. k = 2 => Split(k) = 1
        BY SplitOfTwo
      <4> QED BY ONLY <4>1, <4>2, <4>3
    <3>3. CASE b <= p
      <4>1. ProofAt(nodes, k, b, FALSE, a) =
              Append(ProofAt(nodes, p, b, FALSE, a), HashAt(nodes, k - p, a + p))
        BY ONLY <3>1, <3>2, <3>3, a \in Nat, Len(nodes) \in Nat, ProofOnTheLeft
      <4>2. PathAt(nodes, k, b - 1, a) =
              Append(PathAt(nodes, p, b - 1, a), HashAt(nodes, k - p, a + p))
        <5>1. b - 1 < p
          BY <3>3
        <5> QED BY ONLY <5>1, <2>0, <3>1, <3>2, a \in Nat, Len(nodes) \in Nat, PathOnTheLeft
      <4>3. At(p, a, b)
        <5> HIDE DEF At
        <5> QED BY <1>1, <3>2
      <4>4. ProofAt(nodes, p, b, FALSE, a) = <<nodes[a + b]>> \o PathAt(nodes, p, b - 1, a)
        <5>1. p \in 1 .. Len(nodes) /\ b \in 1 .. p
          BY <3>1, <3>2, <3>3
        <5>2. b < p \/ p = 1
          BY <3>1, <3>2, <3>3 DEF Odd
        <5> QED BY ONLY <5>1, <5>2, <4>3, Odd(b)
      <4>5. IsSeq(PathAt(nodes, p, b - 1, a))
        <5>1. p \in 1 .. Len(nodes)
          BY <3>1, <3>2
        <5> QED BY ONLY <5>1, <2>0, a \in Nat, Len(nodes) \in Nat, PathIsSeq
      <4>6. PICK u : u = PathAt(nodes, p, b - 1, a)
        OBVIOUS
      <4>7. PICK x : x = HashAt(nodes, k - p, a + p)
        OBVIOUS
      <4>8. Append(<<nodes[a + b]>> \o u, x) = <<nodes[a + b]>> \o Append(u, x)
        BY ONLY <4>5, <4>6, AppendAfter
      <4> QED BY ONLY <4>1, <4>2, <4>4, <4>6, <4>7, <4>8
    <3>4. CASE ~ (b <= p)
      <4>0. PICK h \in Nat \ {0} : p = 2 * h
        BY <3>1, <3>2, <3>4
      <4>1. ProofAt(nodes, k, b, FALSE, a) =
              Append(ProofAt(nodes, k - p, b - p, FALSE, a + p), HashAt(nodes, p, a))
        BY ONLY <3>1, <3>2, <3>4, a \in Nat, Len(nodes) \in Nat, ProofOnTheRight
      <4>2. PathAt(nodes, k, b - 1, a) =
              Append(PathAt(nodes, k - p, b - 1 - p, a + p), HashAt(nodes, p, a))
        <5>1. ~ (b - 1 < p)
          BY <3>2, <3>4
        <5> QED BY ONLY <5>1, <2>0, <3>1, <3>2, a \in Nat, Len(nodes) \in Nat, PathOnTheRight
      <4>3. /\ k - p \in 1 .. Len(nodes) /\ k - p \in 0 .. k - 1 /\ b - p \in 1 .. k - p /\ b - p < k - p
            /\ a + p \in Nat /\ b - p \in Nat /\ b - 1 - p \in Nat /\ b - p - 1 = b - 1 - p
            /\ a + p + (b - p) = a + b
        BY ONLY <3>1, <3>4, p \in 1 .. k - 1, k \in Nat, b \in Nat, a \in Nat, Len(nodes) \in Nat
      <4>4. Odd(b - p)
        BY <4>0, <3>4 DEF Odd
      <4>5. At(k - p, a + p, b - p)
        <5> HIDE DEF At
        <5> QED BY ONLY <1>1, <4>3
      <4>6. ProofAt(nodes, k - p, b - p, FALSE, a + p) =
              <<nodes[a + b]>> \o PathAt(nodes, k - p, b - 1 - p, a + p)
        BY ONLY <4>3, <4>4, <4>5
      <4>7. PICK u : u = PathAt(nodes, k - p, b - 1 - p, a + p)
        OBVIOUS
      <4>8. IsSeq(u)
        BY ONLY <4>3, <4>7, Len(nodes) \in Nat, PathIsSeq
      <4>9. PICK x : x = HashAt(nodes, p, a)
        OBVIOUS
      <4>10. Append(<<nodes[a + b]>> \o u, x) = <<nodes[a + b]>> \o Append(u, x)
        BY ONLY <4>8, AppendAfter
      <4> QED BY ONLY <4>1, <4>2, <4>6, <4>7, <4>9, <4>10
    <3> QED BY <3>3, <3>4
  <2> QED BY <2>1, <2>2
<1>2. S = Nat
  <2> HIDE DEF At
  <2>1. S \in SUBSET Nat
    OBVIOUS
  <2>2. ASSUME NEW k \in Nat, \A l \in 0 .. k - 1 : l \in S PROVE k \in S
    BY <1>1, <2>2
  <2> HIDE DEF S
  <2> QED BY ONLY <2>1, <2>2, StrongInduction
<1>3. At(n, i, m)
  <2>1. n \in Nat /\ m \in Nat
    OBVIOUS
  <2> HIDE DEF At
  <2> QED BY ONLY <1>2, <2>1, i \in Nat
<1> QED BY <1>3

-----------------------------------------------------------------------------
(* A level of the first tree and the same level of the second: fn is the   *)
(* place of the last node of the first, sn that of the second, and the     *)
(* nodes before fn are those of both.                                      *)

Top(nodes) == HashAt(nodes, Len(nodes), 0)
PathUp(nodes, fn) == PathAt(nodes, Len(nodes), fn, 0)

OnLevel(fn, sn, A, B) ==
  /\ fn \in Nat /\ sn \in Nat /\ fn <= sn
  /\ Len(A) = fn + 1 /\ Len(B) = sn + 1
  /\ \A j \in 1 .. fn : A[j] = B[j]

LEMMA TopOfOne ==
  ASSUME NEW nodes, Len(nodes) = 1
  PROVE  Top(nodes) = nodes[1] /\ PathUp(nodes, 0) = <<>>
<1>1. Len(nodes) \in Nat \ {0}
  OBVIOUS
<1>2. HashAt(nodes, 1, 0) = nodes[0 + 1] /\ PathAt(nodes, 1, 0, 0) = <<>>
  BY ONLY <1>1, 0 \in Nat, HashOfLeaf, PathOfLeaf
<1> QED BY <1>2 DEF Top, PathUp

LEMMA LiftedTop ==
  ASSUME NEW nodes, Len(nodes) \in Nat \ {0}
  PROVE  Top(Lift(nodes)) = Top(nodes)
<1>1. PICK n \in Nat : n = Len(nodes)
  OBVIOUS
<1>2. PICK r \in Nat : r = (n + 1) \div 2
  BY <1>1
<1>3. n \in 1 .. Len(nodes) /\ Above(nodes, n, 0) /\ 0 = 2 * 0 /\ Len(nodes) \in Nat /\ 0 \in Nat
  BY <1>1 DEF Above
<1>4. HashAt(nodes, n, 0) = HashAt(Lift(nodes), r, 0)
  BY ONLY <1>2, <1>3, LiftedHash
<1>5. Len(Lift(nodes)) = r
  BY <1>1, <1>2, LenOfLift
<1> QED BY ONLY <1>1, <1>4, <1>5 DEF Top

LEMMA LiftedPathUp ==
  ASSUME NEW nodes, Len(nodes) \in Nat \ {0}, NEW fn \in 0 .. Len(nodes) - 1
  PROVE  /\ PathUp(nodes, fn) = Sibling(nodes, Len(nodes), fn, 0) \o PathUp(Lift(nodes), fn \div 2)
         /\ IsSeq(PathUp(nodes, fn))
<1>1. PICK n \in Nat : n = Len(nodes)
  OBVIOUS
<1>2. n \in 1 .. Len(nodes) /\ Len(nodes) \in Nat /\ fn \in 0 .. n - 1 /\ fn \in Nat
  BY <1>1
<1>3. PathAt(nodes, n, fn, 0) = Sibling(nodes, n, fn, 0) \o PathAt(Lift(nodes), (n + 1) \div 2, fn \div 2, 0)
  BY ONLY <1>1, <1>2, LiftedPath
<1>4. Len(Lift(nodes)) = (n + 1) \div 2
  BY <1>1, LenOfLift
<1>5. IsSeq(PathAt(nodes, n, fn, 0))
  BY ONLY <1>2, 0 \in Nat, PathIsSeq
<1> QED BY ONLY <1>1, <1>3, <1>4, <1>5 DEF PathUp

LEMMA OneUp ==
  ASSUME NEW fn, NEW sn, NEW A, NEW B, OnLevel(fn, sn, A, B)
  PROVE  /\ OnLevel(fn \div 2, sn \div 2, Lift(A), Lift(B))
         /\ Top(Lift(A)) = Top(A) /\ Top(Lift(B)) = Top(B)
         /\ PathUp(B, fn) = Sibling(B, sn + 1, fn, 0) \o PathUp(Lift(B), fn \div 2)
         /\ IsSeq(PathUp(Lift(B), fn \div 2))
<1>1. /\ fn \in Nat /\ sn \in Nat /\ fn <= sn /\ Len(A) = fn + 1 /\ Len(B) = sn + 1
      /\ \A j \in 1 .. fn : A[j] = B[j]
  BY DEF OnLevel
<1>2. Len(A) \in Nat \ {0} /\ Len(B) \in Nat \ {0} /\ fn \in 0 .. Len(B) - 1
  BY <1>1
<1>3. Len(Lift(A)) = fn \div 2 + 1 /\ Len(Lift(B)) = sn \div 2 + 1
  BY <1>1, LenOfLift
<1>4. fn \div 2 \in Nat /\ sn \div 2 \in Nat /\ fn \div 2 <= sn \div 2
  BY <1>1
<1>5. ASSUME NEW j \in 1 .. fn \div 2 PROVE Lift(A)[j] = Lift(B)[j]
  <2>1. 2 * j <= fn /\ j \in 1 .. (Len(A) + 1) \div 2 /\ j \in 1 .. (Len(B) + 1) \div 2
        /\ 2 * j \in 1 .. fn /\ 2 * j - 1 \in 1 .. fn /\ 2 * j <= Len(A) /\ 2 * j <= Len(B)
    BY <1>1
  <2>2. Lift(A)[j] = NodeHash(A[2 * j - 1], A[2 * j])
    BY ONLY <2>1 DEF Lift
  <2>3. Lift(B)[j] = NodeHash(B[2 * j - 1], B[2 * j])
    BY ONLY <2>1 DEF Lift
  <2> QED BY ONLY <1>1, <2>1, <2>2, <2>3
<1>6. OnLevel(fn \div 2, sn \div 2, Lift(A), Lift(B))
  BY ONLY <1>3, <1>4, <1>5 DEF OnLevel
<1>7. Top(Lift(A)) = Top(A) /\ Top(Lift(B)) = Top(B)
  BY ONLY <1>2, LiftedTop
<1>8. PathUp(B, fn) = Sibling(B, sn + 1, fn, 0) \o PathUp(Lift(B), fn \div 2)
  BY ONLY <1>1, <1>2, LiftedPathUp
<1>9. IsSeq(PathUp(Lift(B), fn \div 2))
  <2>1. Len(Lift(B)) \in Nat \ {0} /\ fn \div 2 \in 0 .. Len(Lift(B)) - 1
    BY <1>3, <1>4
  <2> QED BY ONLY <2>1, LiftedPathUp
<1> QED BY ONLY <1>6, <1>7, <1>8, <1>9

(* What becomes of node fn itself, the three ways. *)
LEMMA JoinedToTheLeft ==
  ASSUME NEW fn, NEW sn, NEW A, NEW B, OnLevel(fn, sn, A, B), Odd(fn)
  PROVE  /\ Lift(A)[fn \div 2 + 1] = NodeHash(B[fn], A[fn + 1])
         /\ Lift(B)[fn \div 2 + 1] = NodeHash(B[fn], B[fn + 1])
         /\ Sibling(B, sn + 1, fn, 0) = <<B[fn]>>
<1>1. /\ fn \in Nat /\ sn \in Nat /\ fn <= sn /\ Len(A) = fn + 1 /\ Len(B) = sn + 1
      /\ \A j \in 1 .. fn : A[j] = B[j]
  BY DEF OnLevel
<1>2. PICK j \in Nat \ {0} : j = fn \div 2 + 1 /\ 2 * j = fn + 1 /\ 2 * j - 1 = fn
  BY <1>1 DEF Odd
<1>3. /\ j \in 1 .. (Len(A) + 1) \div 2 /\ 2 * j <= Len(A) /\ j \in 1 .. (Len(B) + 1) \div 2
      /\ 2 * j <= Len(B) /\ fn \in 1 .. fn
  <2>1. fn \in 1 .. fn
    <3>1. fn \in Nat /\ 2 * j = fn + 1
      BY ONLY <1>1, <1>2
    <3> QED BY ONLY <3>1, j \in Nat \ {0}
  <2>2. 2 * j <= Len(A) /\ 2 * j <= Len(B)
    BY <1>1, <1>2
  <2> QED BY ONLY <1>1, <2>1, <2>2, j \in Nat \ {0}
<1>4. Lift(A)[j] = NodeHash(A[2 * j - 1], A[2 * j]) /\ Lift(B)[j] = NodeHash(B[2 * j - 1], B[2 * j])
  BY ONLY <1>3 DEF Lift
<1>5. A[fn] = B[fn]
  BY ONLY <1>1, <1>3
<1>6. Sibling(B, sn + 1, fn, 0) = <<B[fn]>>
  BY <1>1 DEF Sibling
<1> QED BY ONLY <1>2, <1>4, <1>5, <1>6

LEMMA Promoted ==
  ASSUME NEW fn, NEW sn, NEW A, NEW B, OnLevel(fn, sn, A, B), ~ Odd(fn)
  PROVE  Lift(A)[fn \div 2 + 1] = A[fn + 1]
<1>1. fn \in Nat /\ Len(A) = fn + 1
  BY DEF OnLevel
<1>2. PICK j \in Nat \ {0} : j = fn \div 2 + 1 /\ 2 * j = fn + 2 /\ 2 * j - 1 = fn + 1
  BY <1>1 DEF Odd
<1>3. j \in 1 .. (Len(A) + 1) \div 2 /\ ~ (2 * j <= Len(A))
  BY <1>1, <1>2
<1>4. Lift(A)[j] = A[2 * j - 1]
  BY ONLY <1>3 DEF Lift
<1> QED BY ONLY <1>2, <1>4

LEMMA BothPromoted ==
  ASSUME NEW fn, NEW A, NEW B, OnLevel(fn, fn, A, B), ~ Odd(fn)
  PROVE  Lift(B)[fn \div 2 + 1] = B[fn + 1] /\ Sibling(B, fn + 1, fn, 0) = <<>>
<1>1. fn \in Nat /\ Len(B) = fn + 1
  BY DEF OnLevel
<1>2. PICK j \in Nat \ {0} : j = fn \div 2 + 1 /\ 2 * j = fn + 2 /\ 2 * j - 1 = fn + 1
  BY <1>1 DEF Odd
<1>3. j \in 1 .. (Len(B) + 1) \div 2 /\ ~ (2 * j <= Len(B))
  BY <1>1, <1>2
<1>4. Lift(B)[j] = B[2 * j - 1]
  BY ONLY <1>3 DEF Lift
<1>5. Sibling(B, fn + 1, fn, 0) = <<>>
  BY <1>1 DEF Sibling
<1> QED BY ONLY <1>2, <1>4, <1>5

LEMMA JoinedToTheRight ==
  ASSUME NEW fn, NEW sn, NEW A, NEW B, OnLevel(fn, sn, A, B), ~ Odd(fn), fn # sn
  PROVE  /\ Lift(B)[fn \div 2 + 1] = NodeHash(B[fn + 1], B[fn + 2])
         /\ Sibling(B, sn + 1, fn, 0) = <<B[fn + 2]>>
<1>1. fn \in Nat /\ sn \in Nat /\ fn <= sn /\ Len(B) = sn + 1
  BY DEF OnLevel
<1>2. PICK j \in Nat \ {0} : j = fn \div 2 + 1 /\ 2 * j = fn + 2 /\ 2 * j - 1 = fn + 1
  BY <1>1 DEF Odd
<1>3. j \in 1 .. (Len(B) + 1) \div 2 /\ 2 * j <= Len(B)
  BY <1>1, <1>2
<1>4. Lift(B)[j] = NodeHash(B[2 * j - 1], B[2 * j])
  BY ONLY <1>3 DEF Lift
<1>5. Sibling(B, sn + 1, fn, 0) = <<B[fn + 2]>>
  <2>1. fn + 1 < sn + 1 /\ 0 + fn + 2 = fn + 2
    BY <1>1
  <2> QED BY ONLY <2>1, ~ Odd(fn) DEF Sibling
<1> QED BY ONLY <1>2, <1>4, <1>5

-----------------------------------------------------------------------------
(* The loop of SkipWhile: while it goes on, the nodes it passes are the    *)
(* last of both levels, or pairs of the first tree's.                      *)

SkipRow(bit, skip, fn) ==
  [sn \in Nat |->
    IF fn % 2 = bit /\ fn # 0 THEN skip[fn \div 2][sn \div 2] ELSE [fn |-> fn, sn |-> sn]]

Skips(bit, skip, n) ==
  \A fn \in 0 .. n, sn \in Nat :
    /\ fn % 2 = bit /\ fn # 0 => skip[fn][sn] = skip[fn \div 2][sn \div 2]
    /\ ~ (fn % 2 = bit /\ fn # 0) => skip[fn][sn] = [fn |-> fn, sn |-> sn]

LEMMA SkipRows ==
  ASSUME NEW bit, NEW at, at.fn \in Nat
  PROVE  \E skip : SkipWhile(bit, at) = skip[at.fn][at.sn] /\ Skips(bit, skip, at.fn)
<1> DEFINE P(g, m) == g = [k \in 0 .. m |-> SkipRow(bit, g, k)]
           S == {m \in Nat : \E g : P(g, m)}
<1>1. 0 \in S
  <2> DEFINE g == [k \in 0 .. 0 |-> [sn \in Nat |-> [fn |-> k, sn |-> sn]]]
             gg == [k \in 0 .. 0 |-> SkipRow(bit, g, k)]
  <2>1. ASSUME NEW k \in 0 .. 0 PROVE g[k] = gg[k]
    <3>1. k = 0
      OBVIOUS
    <3>2. SkipRow(bit, g, 0) = [sn \in Nat |-> [fn |-> 0, sn |-> sn]]
      <4> HIDE DEF g
      <4> QED BY DEF SkipRow
    <3> QED BY <3>1, <3>2
  <2>2. g = gg
    BY <2>1, Zenon
  <2> QED BY <2>2, Zenon
<1>2. ASSUME NEW m \in S PROVE m + 1 \in S
  <2>1. PICK g : P(g, m)
    BY Zenon
  <2> DEFINE gg == [k \in 0 .. m |-> SkipRow(bit, g, k)]
             h == [k \in 0 .. m + 1 |-> SkipRow(bit, g, k)]
             hh == [k \in 0 .. m + 1 |-> SkipRow(bit, h, k)]
  <2>2. ASSUME NEW k \in 0 .. m PROVE g[k] = h[k]
    <3>1. g = gg
      BY <2>1, Zenon
    <3>2. gg[k] = h[k]
      BY ONLY <2>2, m \in Nat
    <3> QED BY ONLY <3>1, <3>2
  <2>3. ASSUME NEW k \in 0 .. m + 1 PROVE SkipRow(bit, g, k) = SkipRow(bit, h, k)
    <3> HIDE DEF h
    <3>1. CASE k = 0
      BY <3>1, Zenon DEF SkipRow
    <3>2. CASE k # 0
      <4>1. k \div 2 \in 0 .. m
        BY <3>2
      <4>2. g[k \div 2] = h[k \div 2]
        BY <4>1, <2>2
      <4> QED BY <4>2, Zenon DEF SkipRow
    <3> QED BY <3>1, <3>2
  <2>4. h = hh
    BY <2>3, Zenon
  <2>5. m + 1 \in Nat
    OBVIOUS
  <2> QED BY <2>4, <2>5, Zenon
<1>3. S = Nat
  BY <1>1, <1>2, Induction, Zenon
<1>4. PICK skip : P(skip, at.fn) /\ SkipWhile(bit, at) = skip[at.fn][at.sn]
  <2> DEFINE f == CHOOSE g : P(g, at.fn)
  <2>1. P(f, at.fn)
    BY <1>3, Zenon
  <2>2. SkipWhile(bit, at) = f[at.fn][at.sn]
    BY Zenon DEF SkipWhile, SkipRow
  <2> QED BY <2>1, <2>2, Zenon
<1> DEFINE r == [k \in 0 .. at.fn |-> SkipRow(bit, skip, k)]
<1>5. skip = r
  BY <1>4, Zenon
<1>6. \A k \in 0 .. at.fn : r[k] = SkipRow(bit, skip, k)
  OBVIOUS
<1> HIDE DEF r
<1>7. \A k \in 0 .. at.fn : skip[k] = SkipRow(bit, skip, k)
  BY ONLY <1>5, <1>6
<1>8. ASSUME NEW fn \in 0 .. at.fn, NEW sn \in Nat
      PROVE  /\ fn % 2 = bit /\ fn # 0 => skip[fn][sn] = skip[fn \div 2][sn \div 2]
             /\ ~ (fn % 2 = bit /\ fn # 0) => skip[fn][sn] = [fn |-> fn, sn |-> sn]
  <2>1. skip[fn] = SkipRow(bit, skip, fn)
    BY ONLY <1>7, fn \in 0 .. at.fn
  <2>2. SkipRow(bit, skip, fn)[sn] =
          IF fn % 2 = bit /\ fn # 0 THEN skip[fn \div 2][sn \div 2] ELSE [fn |-> fn, sn |-> sn]
    BY ONLY sn \in Nat DEF SkipRow
  <2> QED BY ONLY <2>1, <2>2, Zenon
<1>9. Skips(bit, skip, at.fn)
  BY ONLY <1>8 DEF Skips
<1> QED BY ONLY <1>4, <1>9, Zenon

(* From node fn of the levels A and B to node r.fn of the levels K and L:  *)
(* the same node, of the same trees, with the same path.                   *)
SameNode(fn, A, B, r, K, L) ==
  /\ OnLevel(r.fn, r.sn, K, L)
  /\ K[r.fn + 1] = A[fn + 1] /\ L[r.fn + 1] = B[fn + 1]
  /\ Top(K) = Top(A) /\ Top(L) = Top(B)
  /\ PathUp(L, r.fn) = PathUp(B, fn)

(* Skipping even places: a last node without a neighbour is its own        *)
(* parent.                                                                 *)
LEMMA PromotionsSkipped ==
  ASSUME NEW n \in Nat, NEW skip, Skips(0, skip, n),
         NEW fn \in 1 .. n, NEW sn, NEW A, NEW B, OnLevel(fn, sn, A, B), Odd(fn) \/ fn = sn
  PROVE  \E K, L : SameNode(fn, A, B, skip[fn][sn], K, L) /\ Odd(skip[fn][sn].fn)
<1> DEFINE Lands(f, s, C, D) == \E K, L : SameNode(f, C, D, skip[f][s], K, L) /\ Odd(skip[f][s].fn)
           At(f) == f \in 1 .. n =>
             \A s, C, D : OnLevel(f, s, C, D) /\ (Odd(f) \/ f = s) => Lands(f, s, C, D)
           S == {f \in Nat : At(f)}
<1>1. ASSUME NEW f \in Nat, \A l \in 0 .. f - 1 : At(l) PROVE At(f)
  <2> SUFFICES ASSUME f \in 1 .. n, NEW s, NEW C, NEW D, OnLevel(f, s, C, D), Odd(f) \/ f = s
               PROVE  Lands(f, s, C, D)
    BY Zenon
  <2>1. s \in Nat /\ f <= s /\ f \in 0 .. n
    BY DEF OnLevel
  <2>2. CASE Odd(f)
    <3>1. skip[f][s] = [fn |-> f, sn |-> s]
      <4>1. ~ (f % 2 = 0)
        BY <2>2 DEF Odd
      <4> QED BY ONLY <2>1, <4>1, Skips(0, skip, n) DEF Skips
    <3>2. skip[f][s].fn = f /\ skip[f][s].sn = s
      BY ONLY <3>1
    <3>3. SameNode(f, C, D, skip[f][s], C, D)
      BY ONLY <3>2, OnLevel(f, s, C, D) DEF SameNode
    <3> QED BY ONLY <2>2, <3>2, <3>3, Zenon
  <2>3. CASE ~ Odd(f)
    <3>1. PICK g \in Nat : g = f \div 2 /\ g \in 0 .. f - 1 /\ g \in 1 .. n
      BY <2>3 DEF Odd
    <3>2. f = s
      BY <2>3
    <3>3. skip[f][s] = skip[g][g]
      <4>1. f % 2 = 0 /\ f # 0
        BY <2>3 DEF Odd
      <4> QED BY ONLY <2>1, <3>1, <3>2, <4>1, Skips(0, skip, n) DEF Skips
    <3>4. /\ OnLevel(g, g, Lift(C), Lift(D)) /\ Top(Lift(C)) = Top(C) /\ Top(Lift(D)) = Top(D)
          /\ PathUp(D, f) = Sibling(D, f + 1, f, 0) \o PathUp(Lift(D), g)
          /\ IsSeq(PathUp(Lift(D), g))
      BY ONLY <3>1, <3>2, OnLevel(f, s, C, D), OneUp
    <3>5. Lift(C)[g + 1] = C[f + 1]
      BY ONLY <2>3, <3>1, OnLevel(f, s, C, D), Promoted
    <3>6. Lift(D)[g + 1] = D[f + 1] /\ Sibling(D, f + 1, f, 0) = <<>>
      BY ONLY <2>3, <3>1, <3>2, OnLevel(f, s, C, D), BothPromoted
    <3>7. PathUp(D, f) = PathUp(Lift(D), g)
      BY ONLY <3>4, <3>6, EmptyBefore
    <3>8. Lands(g, g, Lift(C), Lift(D))
      <4> HIDE DEF Lands
      <4> QED BY ONLY <1>1, <3>1, <3>4
    <3>9. PICK K, L : SameNode(g, Lift(C), Lift(D), skip[g][g], K, L) /\ Odd(skip[g][g].fn)
      BY <3>8
    <3>10. SameNode(f, C, D, skip[f][s], K, L) /\ Odd(skip[f][s].fn)
      BY ONLY <3>3, <3>4, <3>5, <3>6, <3>7, <3>9 DEF SameNode
    <3> QED BY ONLY <3>10, Zenon
  <2> QED BY <2>2, <2>3
<1>2. S = Nat
  <2> HIDE DEF At
  <2>1. S \in SUBSET Nat
    OBVIOUS
  <2>2. ASSUME NEW k \in Nat, \A l \in 0 .. k - 1 : l \in S PROVE k \in S
    BY <1>1, <2>2
  <2> HIDE DEF S
  <2> QED BY ONLY <2>1, <2>2, StrongInduction
<1>3. At(fn)
  <2>1. fn \in Nat
    OBVIOUS
  <2> HIDE DEF At
  <2> QED BY ONLY <1>2, <2>1
<1> QED BY ONLY <1>3, fn \in 1 .. n, OnLevel(fn, sn, A, B), Odd(fn) \/ fn = sn, Zenon

(* From node at.fn of the levels A and B to node to.fn of the levels K and *)
(* L above it: c is its sibling, and what is left of its path is to.fn's.  *)
NextNode(at, A, B, to, K, L, c) ==
  /\ OnLevel(to.fn, to.sn, K, L)
  /\ Top(K) = Top(A) /\ Top(L) = Top(B)
  /\ PathUp(B, at.fn) = <<c>> \o PathUp(L, to.fn) /\ IsSeq(PathUp(L, to.fn))
  /\ OnTheLeft(at) => /\ K[to.fn + 1] = NodeHash(c, A[at.fn + 1])
                      /\ L[to.fn + 1] = NodeHash(c, B[at.fn + 1])
  /\ ~ OnTheLeft(at) => /\ K[to.fn + 1] = A[at.fn + 1]
                        /\ L[to.fn + 1] = NodeHash(B[at.fn + 1], c)

LEMMA UpToTheNextNode ==
  ASSUME NEW at, NEW A, NEW B, OnLevel(at.fn, at.sn, A, B), at.sn # 0
  PROVE  \E K, L, c : NextNode(at, A, B, NextPlace(at), K, L, c)
<1>1. at.fn \in Nat /\ at.sn \in Nat /\ at.fn <= at.sn
  BY DEF OnLevel
<1>2. CASE OnTheLeft(at)
  <2>1. at.fn \in 1 .. at.fn /\ (Odd(at.fn) \/ at.fn = at.sn)
    BY <1>1, <1>2 DEF OnTheLeft, Odd
  <2>2. PICK skip : SkipWhile(0, at) = skip[at.fn][at.sn] /\ Skips(0, skip, at.fn)
    BY ONLY <1>1, SkipRows
  <2>3. PICK r : r = SkipWhile(0, at)
    OBVIOUS
  <2>4. PICK C, D : SameNode(at.fn, A, B, r, C, D) /\ Odd(r.fn)
    BY ONLY <1>1, <2>1, <2>2, <2>3, OnLevel(at.fn, at.sn, A, B), PromotionsSkipped
  <2>5. OnLevel(r.fn, r.sn, C, D)
    BY ONLY <2>4 DEF SameNode
  <2>6. /\ OnLevel(r.fn \div 2, r.sn \div 2, Lift(C), Lift(D))
        /\ Top(Lift(C)) = Top(C) /\ Top(Lift(D)) = Top(D)
        /\ PathUp(D, r.fn) = Sibling(D, r.sn + 1, r.fn, 0) \o PathUp(Lift(D), r.fn \div 2)
        /\ IsSeq(PathUp(Lift(D), r.fn \div 2))
    BY ONLY <2>5, OneUp
  <2>7. /\ Lift(C)[r.fn \div 2 + 1] = NodeHash(D[r.fn], C[r.fn + 1])
        /\ Lift(D)[r.fn \div 2 + 1] = NodeHash(D[r.fn], D[r.fn + 1])
        /\ Sibling(D, r.sn + 1, r.fn, 0) = <<D[r.fn]>>
    BY ONLY <2>4, <2>5, JoinedToTheLeft
  <2>8. PICK to : to = NextPlace(at)
    OBVIOUS
  <2>9. to.fn = r.fn \div 2 /\ to.sn = r.sn \div 2
    BY <1>2, <2>3, <2>8 DEF NextPlace, Up
  <2>10. NextNode(at, A, B, to, Lift(C), Lift(D), D[r.fn])
    BY ONLY <1>2, <2>4, <2>6, <2>7, <2>9, Zenon DEF NextNode, SameNode
  <2> QED BY ONLY <2>8, <2>10, Zenon
<1>3. CASE ~ OnTheLeft(at)
  <2>1. ~ Odd(at.fn) /\ at.fn # at.sn
    BY <1>3 DEF OnTheLeft
  <2>2. /\ OnLevel(at.fn \div 2, at.sn \div 2, Lift(A), Lift(B))
        /\ Top(Lift(A)) = Top(A) /\ Top(Lift(B)) = Top(B)
        /\ PathUp(B, at.fn) = Sibling(B, at.sn + 1, at.fn, 0) \o PathUp(Lift(B), at.fn \div 2)
        /\ IsSeq(PathUp(Lift(B), at.fn \div 2))
    BY ONLY OnLevel(at.fn, at.sn, A, B), OneUp
  <2>3. Lift(A)[at.fn \div 2 + 1] = A[at.fn + 1]
    BY ONLY <2>1, OnLevel(at.fn, at.sn, A, B), Promoted
  <2>4. /\ Lift(B)[at.fn \div 2 + 1] = NodeHash(B[at.fn + 1], B[at.fn + 2])
        /\ Sibling(B, at.sn + 1, at.fn, 0) = <<B[at.fn + 2]>>
    BY ONLY <2>1, OnLevel(at.fn, at.sn, A, B), JoinedToTheRight
  <2>5. PICK to : to = NextPlace(at)
    OBVIOUS
  <2>6. to.fn = at.fn \div 2 /\ to.sn = at.sn \div 2
    BY <1>3, <2>5 DEF NextPlace, Up
  <2>7. NextNode(at, A, B, to, Lift(A), Lift(B), B[at.fn + 2])
    BY ONLY <1>3, <2>2, <2>3, <2>4, <2>6, Zenon DEF NextNode
  <2> QED BY ONLY <2>5, <2>7, Zenon
<1> QED BY <1>2, <1>3

(* From the last node of the first tree to the largest whole tree that     *)
(* ends with it: the same hash in both, and the same consistency proof.    *)
FirstNode(fn, A, B, r, K, L) ==
  /\ OnLevel(r.fn, r.sn, K, L) /\ r.fn < r.sn /\ ~ Odd(r.fn)
  /\ K[r.fn + 1] = L[r.fn + 1]
  /\ Top(K) = Top(A) /\ Top(L) = Top(B)
  /\ ProofAt(L, Len(L), r.fn + 1, FALSE, 0) = ProofAt(B, Len(B), fn + 1, FALSE, 0)

(* Skipping odd places: two last nodes of the first tree that are joined. *)
LEMMA PairsSkipped ==
  ASSUME NEW n \in Nat, NEW skip, Skips(1, skip, n), NEW fn \in 0 .. n, NEW sn, NEW A, NEW B,
         OnLevel(fn, sn, A, B), fn < sn, A[fn + 1] = B[fn + 1]
  PROVE  \E K, L : FirstNode(fn, A, B, skip[fn][sn], K, L)
<1> DEFINE Lands(f, s, C, D) == \E K, L : FirstNode(f, C, D, skip[f][s], K, L)
           At(f) == f \in 0 .. n =>
             \A s, C, D : OnLevel(f, s, C, D) /\ f < s /\ C[f + 1] = D[f + 1] => Lands(f, s, C, D)
           S == {f \in Nat : At(f)}
<1>1. ASSUME NEW f \in Nat, \A l \in 0 .. f - 1 : At(l) PROVE At(f)
  <2> SUFFICES ASSUME f \in 0 .. n, NEW s, NEW C, NEW D, OnLevel(f, s, C, D), f < s,
                      C[f + 1] = D[f + 1]
               PROVE  Lands(f, s, C, D)
    BY Zenon
  <2>1. s \in Nat /\ f \in 0 .. n /\ Len(D) = s + 1
    BY DEF OnLevel
  <2>2. CASE ~ Odd(f)
    <3>1. skip[f][s] = [fn |-> f, sn |-> s]
      <4>1. ~ (f % 2 = 1)
        BY <2>2 DEF Odd
      <4> QED BY ONLY <2>1, <4>1, Skips(1, skip, n) DEF Skips
    <3>2. skip[f][s].fn = f /\ skip[f][s].sn = s
      BY ONLY <3>1
    <3>3. FirstNode(f, C, D, skip[f][s], C, D)
      BY ONLY <2>2, <3>2, OnLevel(f, s, C, D), f < s, C[f + 1] = D[f + 1] DEF FirstNode
    <3> QED BY ONLY <3>3, Zenon
  <2>3. CASE Odd(f)
    <3>1. PICK g \in Nat : g = f \div 2 /\ g \in 0 .. f - 1 /\ g \in 0 .. n
      BY <2>3 DEF Odd
    <3>2. PICK t \in Nat : t = s \div 2
      BY <2>1
    <3>3. g < t
      BY <2>1, <2>3, <3>1, <3>2 DEF Odd
    <3>4. skip[f][s] = skip[g][t]
      <4>1. f % 2 = 1 /\ f # 0
        BY <2>3 DEF Odd
      <4> QED BY ONLY <2>1, <3>1, <3>2, <4>1, Skips(1, skip, n) DEF Skips
    <3>5. /\ OnLevel(g, t, Lift(C), Lift(D)) /\ Top(Lift(C)) = Top(C) /\ Top(Lift(D)) = Top(D)
      BY ONLY <3>1, <3>2, OnLevel(f, s, C, D), OneUp
    <3>6. Lift(C)[g + 1] = NodeHash(D[f], C[f + 1]) /\ Lift(D)[g + 1] = NodeHash(D[f], D[f + 1])
      BY ONLY <2>3, <3>1, OnLevel(f, s, C, D), JoinedToTheLeft
    <3>7. ProofAt(Lift(D), Len(Lift(D)), g + 1, FALSE, 0) = ProofAt(D, Len(D), f + 1, FALSE, 0)
      <4>1. Len(D) \in Nat /\ Len(D) \in 2 .. Len(D) /\ f + 1 \in 1 .. Len(D) /\ ~ Odd(f + 1)
            /\ (f + 1) \div 2 = g + 1
        BY <2>1, <2>3, <3>1 DEF Odd
      <4>2. Len(Lift(D)) = (Len(D) + 1) \div 2
        BY ONLY <4>1, LenOfLift
      <4>3. ProofAt(D, Len(D), f + 1, FALSE, 0) =
              ProofAt(Lift(D), (Len(D) + 1) \div 2, (f + 1) \div 2, FALSE, 0)
        BY ONLY <4>1, LiftedProof
      <4> QED BY ONLY <4>1, <4>2, <4>3
    <3>8. Lands(g, t, Lift(C), Lift(D))
      <4> HIDE DEF Lands
      <4> QED BY ONLY <1>1, <3>1, <3>3, <3>5, <3>6, C[f + 1] = D[f + 1]
    <3>9. PICK K, L : FirstNode(g, Lift(C), Lift(D), skip[g][t], K, L)
      BY <3>8
    <3>10. FirstNode(f, C, D, skip[f][s], K, L)
      BY ONLY <3>4, <3>5, <3>7, <3>9 DEF FirstNode
    <3> QED BY ONLY <3>10, Zenon
  <2> QED BY <2>2, <2>3
<1>2. S = Nat
  <2> HIDE DEF At
  <2>1. S \in SUBSET Nat
    OBVIOUS
  <2>2. ASSUME NEW k \in Nat, \A l \in 0 .. k - 1 : l \in S PROVE k \in S
    BY <1>1, <2>2
  <2> HIDE DEF S
  <2> QED BY ONLY <2>1, <2>2, StrongInduction
<1>3. At(fn)
  <2>1. fn \in Nat
    OBVIOUS
  <2> HIDE DEF At
  <2> QED BY ONLY <1>2, <2>1
<1> QED BY ONLY <1>3, fn \in 0 .. n, OnLevel(fn, sn, A, B), fn < sn, A[fn + 1] = B[fn + 1], Zenon

-----------------------------------------------------------------------------
(* A walk up the tree: its places, and the hashes it computes from a path. *)

Climbs(at, acc, path) ==
  \A k \in 0 .. Len(path) - 1 :
    /\ at[k + 1] = NextPlace(at[k])
    /\ OnTheLeft(at[k]) => acc[k + 1] = NodeHash(path[k + 1], acc[k])
    /\ ~ OnTheLeft(at[k]) => acc[k + 1] = NodeHash(acc[k], path[k + 1])

Ends(at, e) == \A k \in 0 .. e : at[k].sn = 0 <=> k = e

(* Equal hashes of two nodes are of equal children. *)
LEMMA HashesDiffer ==
  ASSUME NEW a, NEW b, NEW c, NEW d
  PROVE  /\ NodeHash(a, b) = NodeHash(c, d) => a = c /\ b = d
         /\ LeafHash(a) = LeafHash(c) => a = c
         /\ Seal(a, b) = Seal(c, d) => a = c /\ b = d
         /\ LeafHash(a) # NodeHash(c, d)
<1>1. NodeHash(a, b)[2] = a /\ NodeHash(a, b)[3] = b /\ NodeHash(c, d)[2] = c /\ NodeHash(c, d)[3] = d
  BY DEF NodeHash
<1>2. LeafHash(a)[2] = a /\ LeafHash(c)[2] = c
  BY DEF LeafHash
<1>3. Seal(a, b)[2] = a /\ Seal(a, b)[3] = b /\ Seal(c, d)[2] = c /\ Seal(c, d)[3] = d
  BY DEF Seal
<1>4. LeafHash(a) # NodeHash(c, d)
  <2>1. Len(LeafHash(a)) = 2 /\ Len(NodeHash(c, d)) = 3
    BY ONLY DEF LeafHash, NodeHash
  <2> QED BY ONLY <2>1
<1>5. /\ NodeHash(a, b) = NodeHash(c, d) => a = c /\ b = d
      /\ LeafHash(a) = LeafHash(c) => a = c
      /\ Seal(a, b) = Seal(c, d) => a = c /\ b = d
  BY ONLY <1>1, <1>2, <1>3, Zenon
<1> QED BY ONLY <1>4, <1>5

LEMMA OneBefore ==
  ASSUME NEW c, NEW q, IsSeq(q)
  PROVE  /\ Len(q) \in Nat /\ Len(<<c>> \o q) = Len(q) + 1 /\ (<<c>> \o q)[1] = c
         /\ \A j \in 1 .. Len(q) : (<<c>> \o q)[j + 1] = q[j]
<1>1. PICK T : q \in Seq(T)
  BY DEF IsSeq
<1> QED BY <1>1

(* At the top there is one node, which is the root of both trees or of the *)
(* second.                                                                 *)
LEMMA AtTheTop ==
  ASSUME NEW fn, NEW A, NEW B, OnLevel(fn, 0, A, B)
  PROVE  fn = 0 /\ Top(A) = A[1] /\ Top(B) = B[1] /\ PathUp(B, 0) = <<>>
<1>1. fn = 0 /\ Len(A) = 1 /\ Len(B) = 1
  BY DEF OnLevel
<1> QED BY ONLY <1>1, TopOfOne

(* It starts from a node of the levels A and B and ends with B's hash. *)
Reaches(at, acc, path, A, B) ==
  /\ Len(path) \in Nat /\ Climbs(at, acc, path) /\ Ends(at, Len(path))
  /\ OnLevel(at[0].fn, at[0].sn, A, B) /\ acc[Len(path)] = Top(B)

(* If the hash at the end of a walk is the tree's, the hash at its begin   *)
(* is the one of the node that it began at: each step hashes what the hash *)
(* at the level above shows that it must.                                  *)
LEMMA WalkFindsTheNode ==
  ASSUME NEW at, NEW acc, NEW path, NEW A, NEW B, Reaches(at, acc, path, A, B)
  PROVE  acc[0] = B[at[0].fn + 1]
<1> USE DEF Reaches
<1> DEFINE Knows(k, K, L) == /\ OnLevel(at[k].fn, at[k].sn, K, L) /\ Top(L) = Top(B)
                             /\ acc[k] = L[at[k].fn + 1] => acc[0] = B[at[0].fn + 1]
           S == {k \in Nat : k <= Len(path) => \E K, L : Knows(k, K, L)}
<1>1. 0 \in S
  <2>1. Knows(0, A, B)
    OBVIOUS
  <2> HIDE DEF Knows
  <2> QED BY <2>1
<1>2. ASSUME NEW k \in S PROVE k + 1 \in S
  <2> SUFFICES ASSUME k + 1 <= Len(path) PROVE \E K, L : Knows(k + 1, K, L)
    <3> HIDE DEF Knows
    <3> QED OBVIOUS
  <2>1. k \in 0 .. Len(path) - 1 /\ k \in 0 .. Len(path) /\ k # Len(path) /\ k <= Len(path)
    OBVIOUS
  <2>2. PICK C, D : Knows(k, C, D)
    <3> HIDE DEF Knows
    <3> QED BY <2>1
  <2>3. at[k].sn # 0
    BY ONLY <2>1, Reaches(at, acc, path, A, B) DEF Ends, Reaches
  <2>4. PICK K, L, c : NextNode(at[k], C, D, NextPlace(at[k]), K, L, c)
    BY ONLY <2>2, <2>3, UpToTheNextNode
  <2>5. /\ at[k + 1] = NextPlace(at[k])
        /\ OnTheLeft(at[k]) => acc[k + 1] = NodeHash(path[k + 1], acc[k])
        /\ ~ OnTheLeft(at[k]) => acc[k + 1] = NodeHash(acc[k], path[k + 1])
    BY ONLY <2>1, Reaches(at, acc, path, A, B) DEF Climbs, Reaches
  <2>6. OnLevel(at[k + 1].fn, at[k + 1].sn, K, L) /\ Top(L) = Top(B)
    BY ONLY <2>2, <2>4, <2>5 DEF NextNode
  <2>7. ASSUME acc[k + 1] = L[at[k + 1].fn + 1] PROVE acc[k] = D[at[k].fn + 1]
    <3>1. CASE OnTheLeft(at[k])
      <4>1. NodeHash(path[k + 1], acc[k]) = NodeHash(c, D[at[k].fn + 1])
        BY ONLY <2>4, <2>5, <2>7, <3>1 DEF NextNode
      <4> QED BY ONLY <4>1, HashesDiffer
    <3>2. CASE ~ OnTheLeft(at[k])
      <4>1. NodeHash(acc[k], path[k + 1]) = NodeHash(D[at[k].fn + 1], c)
        BY ONLY <2>4, <2>5, <2>7, <3>2 DEF NextNode
      <4> QED BY ONLY <4>1, HashesDiffer
    <3> QED BY <3>1, <3>2
  <2>8. Knows(k + 1, K, L)
    BY ONLY <2>2, <2>6, <2>7
  <2> HIDE DEF Knows
  <2> QED BY ONLY <2>8
<1>3. S = Nat
  BY <1>1, <1>2, Induction, Zenon
<1>4. PICK K, L : Knows(Len(path), K, L)
  <2> HIDE DEF Knows
  <2> QED BY <1>3
<1>5. at[Len(path)].sn = 0
  BY Len(path) \in 0 .. Len(path) DEF Ends
<1> QED BY ONLY <1>4, <1>5, Reaches(at, acc, path, A, B), AtTheTop, 0 + 1 = 1

(* It starts from a node of the levels A and B and has that node's path. *)
Follows(at, acc, path, A, B) ==
  /\ Climbs(at, acc, path) /\ OnLevel(at[0].fn, at[0].sn, A, B)
  /\ path = PathUp(B, at[0].fn) /\ acc[0] = B[at[0].fn + 1]

(* From a node, by its own path, a walk ends at the top with the hash of   *)
(* the tree.                                                               *)
LEMMA WalkFindsTheTop ==
  ASSUME NEW at, NEW acc, NEW path, NEW A, NEW B, Follows(at, acc, path, A, B)
  PROVE  Reaches(at, acc, path, A, B)
<1> USE DEF Follows
<1> DEFINE Knows(k, K, L) ==
             /\ OnLevel(at[k].fn, at[k].sn, K, L) /\ Top(L) = Top(B) /\ acc[k] = L[at[k].fn + 1]
             /\ IsSeq(PathUp(L, at[k].fn)) /\ Len(PathUp(L, at[k].fn)) = Len(path) - k
             /\ \A j \in 1 .. Len(path) - k : PathUp(L, at[k].fn)[j] = path[k + j]
           S == {k \in Nat : k <= Len(path) => \E K, L : Knows(k, K, L)}
<1>1. IsSeq(path) /\ Len(path) \in Nat
  <2>1. Len(B) \in Nat \ {0} /\ at[0].fn \in 0 .. Len(B) - 1
    BY DEF OnLevel
  <2>2. IsSeq(PathUp(B, at[0].fn))
    BY ONLY <2>1, LiftedPathUp
  <2> QED BY <2>2, OneBefore
<1>2. ASSUME NEW k \in Nat, NEW C, NEW D, Knows(k, C, D)
      PROVE  at[k].sn = 0 <=> k = Len(path)
  <2>1. CASE at[k].sn = 0
    <3>1. PathUp(D, at[k].fn) = <<>>
      BY ONLY <1>2, <2>1, AtTheTop
    <3> QED BY <1>1, <1>2, <2>1, <3>1
  <2>2. CASE at[k].sn # 0
    <3>1. PICK K, L, c : NextNode(at[k], C, D, NextPlace(at[k]), K, L, c)
      BY ONLY <1>2, <2>2, UpToTheNextNode
    <3>2. PICK q : IsSeq(q) /\ PathUp(D, at[k].fn) = <<c>> \o q
      BY ONLY <3>1 DEF NextNode
    <3>3. Len(q) \in Nat /\ Len(PathUp(D, at[k].fn)) = Len(q) + 1
      BY ONLY <3>2, OneBefore
    <3> QED BY <1>1, <1>2, <2>2, <3>3
  <2> QED BY <2>1, <2>2
<1>3. 0 \in S
  <2>1. Knows(0, A, B)
    BY <1>1
  <2> HIDE DEF Knows
  <2> QED BY <2>1
<1>4. ASSUME NEW k \in S PROVE k + 1 \in S
  <2> SUFFICES ASSUME k + 1 <= Len(path) PROVE \E K, L : Knows(k + 1, K, L)
    <3> HIDE DEF Knows
    <3> QED OBVIOUS
  <2>1. k \in 0 .. Len(path) - 1 /\ k \in Nat /\ k # Len(path) /\ k <= Len(path)
    BY <1>1
  <2>2. PICK C, D : Knows(k, C, D)
    <3> HIDE DEF Knows
    <3> QED BY <2>1
  <2>3. at[k].sn # 0
    <3> HIDE DEF Knows
    <3> QED BY ONLY <1>2, <2>1, <2>2
  <2>4. PICK K, L, c : NextNode(at[k], C, D, NextPlace(at[k]), K, L, c)
    BY ONLY <2>2, <2>3, UpToTheNextNode
  <2>5. /\ at[k + 1] = NextPlace(at[k])
        /\ OnTheLeft(at[k]) => acc[k + 1] = NodeHash(path[k + 1], acc[k])
        /\ ~ OnTheLeft(at[k]) => acc[k + 1] = NodeHash(acc[k], path[k + 1])
    BY ONLY <2>1, Follows(at, acc, path, A, B) DEF Climbs, Follows
  <2>6. OnLevel(at[k + 1].fn, at[k + 1].sn, K, L) /\ Top(L) = Top(B)
    BY ONLY <2>2, <2>4, <2>5 DEF NextNode
  <2>7. PICK q : q = PathUp(L, at[k + 1].fn)
    OBVIOUS
  <2>8. IsSeq(q) /\ PathUp(D, at[k].fn) = <<c>> \o q
    BY ONLY <2>4, <2>5, <2>7 DEF NextNode
  <2>9. /\ Len(q) \in Nat /\ Len(PathUp(D, at[k].fn)) = Len(q) + 1 /\ PathUp(D, at[k].fn)[1] = c
        /\ \A j \in 1 .. Len(q) : PathUp(D, at[k].fn)[j + 1] = q[j]
    BY ONLY <2>8, OneBefore
  <2>10. Len(q) = Len(path) - (k + 1)
    BY <1>1, <2>1, <2>2, <2>9
  <2>11. path[k + 1] = c
    <3>1. 1 \in 1 .. Len(path) - k
      BY <1>1, <2>1
    <3> QED BY ONLY <2>2, <2>9, <3>1
  <2>12. ASSUME NEW j \in 1 .. Len(path) - (k + 1) PROVE q[j] = path[k + 1 + j]
    <3>1. j + 1 \in 1 .. Len(path) - k /\ j \in 1 .. Len(q) /\ k + (j + 1) = k + 1 + j
      BY <1>1, <2>1, <2>10
    <3> QED BY ONLY <2>2, <2>9, <3>1
  <2>13. acc[k + 1] = L[at[k + 1].fn + 1]
    <3>1. CASE OnTheLeft(at[k])
      BY ONLY <2>2, <2>4, <2>5, <2>11, <3>1 DEF NextNode
    <3>2. CASE ~ OnTheLeft(at[k])
      BY ONLY <2>2, <2>4, <2>5, <2>11, <3>2 DEF NextNode
    <3> QED BY <3>1, <3>2
  <2>14. Knows(k + 1, K, L)
    BY ONLY <2>6, <2>7, <2>8, <2>10, <2>12, <2>13
  <2> HIDE DEF Knows
  <2> QED BY ONLY <2>14
<1>5. S = Nat
  BY <1>3, <1>4, Induction, Zenon
<1>6. Ends(at, Len(path))
  <2>1. ASSUME NEW k \in 0 .. Len(path) PROVE at[k].sn = 0 <=> k = Len(path)
    <3>1. k \in Nat /\ k <= Len(path)
      BY <1>1
    <3>2. PICK K, L : Knows(k, K, L)
      <4> HIDE DEF Knows
      <4> QED BY <1>5, <3>1
    <3> HIDE DEF Knows
    <3> QED BY ONLY <1>2, <3>1, <3>2
  <2> QED BY ONLY <2>1 DEF Ends
<1>7. PICK K, L : Knows(Len(path), K, L)
  <2> HIDE DEF Knows
  <2> QED BY <1>1, <1>5
<1>8. at[Len(path)].sn = 0
  BY <1>1, <1>6, Len(path) \in 0 .. Len(path) DEF Ends
<1>9. acc[Len(path)] = Top(B)
  BY ONLY <1>7, <1>8, AtTheTop, 0 + 1 = 1
<1> QED BY <1>1, <1>6, <1>9 DEF Reaches

(* The walk of a consistency proof keeps the first tree's hash as well:    *)
(* that hash takes part in the steps to the left alone.                    *)
ClimbsBehind(at, old, path) ==
  \A k \in 0 .. Len(path) - 1 :
    /\ OnTheLeft(at[k]) => old[k + 1] = NodeHash(path[k + 1], old[k])
    /\ ~ OnTheLeft(at[k]) => old[k + 1] = old[k]

(* With a right hash at its end, a walk along a consistency proof has the  *)
(* first tree's hash as well.                                              *)
LEMMA WalkFindsTheFirstTree ==
  ASSUME NEW at, NEW acc, NEW old, NEW path, NEW A, NEW B, Reaches(at, acc, path, A, B),
         ClimbsBehind(at, old, path), acc[0] = B[at[0].fn + 1] => old[0] = A[at[0].fn + 1]
  PROVE  old[Len(path)] = Top(A)
<1> USE DEF Reaches
<1> DEFINE Knows(k, K, L) ==
             /\ OnLevel(at[k].fn, at[k].sn, K, L) /\ Top(K) = Top(A) /\ Top(L) = Top(B)
             /\ acc[k] = L[at[k].fn + 1] => old[k] = K[at[k].fn + 1]
           S == {k \in Nat : k <= Len(path) => \E K, L : Knows(k, K, L)}
<1>1. 0 \in S
  <2>1. Knows(0, A, B)
    OBVIOUS
  <2> HIDE DEF Knows
  <2> QED BY <2>1
<1>2. ASSUME NEW k \in S PROVE k + 1 \in S
  <2> SUFFICES ASSUME k + 1 <= Len(path) PROVE \E K, L : Knows(k + 1, K, L)
    <3> HIDE DEF Knows
    <3> QED OBVIOUS
  <2>1. k \in 0 .. Len(path) - 1 /\ k \in 0 .. Len(path) /\ k # Len(path) /\ k <= Len(path)
    OBVIOUS
  <2>2. PICK C, D : Knows(k, C, D)
    <3> HIDE DEF Knows
    <3> QED BY <2>1
  <2>3. at[k].sn # 0
    BY ONLY <2>1, Reaches(at, acc, path, A, B) DEF Ends, Reaches
  <2>4. PICK K, L, c : NextNode(at[k], C, D, NextPlace(at[k]), K, L, c)
    BY ONLY <2>2, <2>3, UpToTheNextNode
  <2>5. /\ at[k + 1] = NextPlace(at[k])
        /\ OnTheLeft(at[k]) => /\ acc[k + 1] = NodeHash(path[k + 1], acc[k])
                               /\ old[k + 1] = NodeHash(path[k + 1], old[k])
        /\ ~ OnTheLeft(at[k]) => acc[k + 1] = NodeHash(acc[k], path[k + 1]) /\ old[k + 1] = old[k]
    BY ONLY <2>1, Reaches(at, acc, path, A, B), ClimbsBehind(at, old, path)
       DEF Climbs, ClimbsBehind, Reaches
  <2>6. OnLevel(at[k + 1].fn, at[k + 1].sn, K, L) /\ Top(K) = Top(A) /\ Top(L) = Top(B)
    BY ONLY <2>2, <2>4, <2>5 DEF NextNode
  <2>7. ASSUME acc[k + 1] = L[at[k + 1].fn + 1] PROVE old[k + 1] = K[at[k + 1].fn + 1]
    <3>1. CASE OnTheLeft(at[k])
      <4>1. NodeHash(path[k + 1], acc[k]) = NodeHash(c, D[at[k].fn + 1])
        BY ONLY <2>4, <2>5, <2>7, <3>1 DEF NextNode
      <4>2. path[k + 1] = c /\ old[k] = C[at[k].fn + 1]
        BY ONLY <2>2, <4>1, HashesDiffer
      <4> QED BY ONLY <2>4, <2>5, <3>1, <4>2 DEF NextNode
    <3>2. CASE ~ OnTheLeft(at[k])
      <4>1. NodeHash(acc[k], path[k + 1]) = NodeHash(D[at[k].fn + 1], c)
        BY ONLY <2>4, <2>5, <2>7, <3>2 DEF NextNode
      <4>2. old[k] = C[at[k].fn + 1]
        BY ONLY <2>2, <4>1, HashesDiffer
      <4> QED BY ONLY <2>4, <2>5, <3>2, <4>2 DEF NextNode
    <3> QED BY <3>1, <3>2
  <2>8. Knows(k + 1, K, L)
    BY ONLY <2>6, <2>7
  <2> HIDE DEF Knows
  <2> QED BY ONLY <2>8
<1>3. S = Nat
  BY <1>1, <1>2, Induction, Zenon
<1>4. PICK K, L : Knows(Len(path), K, L)
  <2> HIDE DEF Knows
  <2> QED BY <1>3
<1>5. at[Len(path)].sn = 0
  BY Len(path) \in 0 .. Len(path) DEF Ends
<1> QED BY ONLY <1>4, <1>5, Reaches(at, acc, path, A, B), AtTheTop, 0 + 1 = 1

-----------------------------------------------------------------------------
(* The walks of the two verifiers. *)

AuditRow(w, c) ==
  [at |-> NextPlace(w.at),
   acc |-> IF OnTheLeft(w.at) THEN NodeHash(c, w.acc) ELSE NodeHash(w.acc, c)]

IsAuditWalk(w, index, size, leaf, path) ==
  /\ w[0] = [at |-> [fn |-> index, sn |-> size - 1], acc |-> LeafHash(leaf)]
  /\ \A k \in 0 .. Len(path) - 1 : w[k + 1] = AuditRow(w[k], path[k + 1])

(* AuditWalk takes its steps one by one. *)
LEMMA AuditRows ==
  ASSUME NEW index, NEW size, NEW leaf, NEW path, Len(path) \in Nat
  PROVE  IsAuditWalk(AuditWalk(index, size, leaf, path), index, size, leaf, path)
<1> DEFINE start == [at |-> [fn |-> index, sn |-> size - 1], acc |-> LeafHash(leaf)]
           Row(g, k) == IF k = 0 THEN start ELSE AuditRow(g[k - 1], path[k])
           P(g, m) == g = [k \in 0 .. m |-> Row(g, k)]
           S == {m \in Nat : \E g : P(g, m)}
<1>1. 0 \in S
  <2> DEFINE g == [k \in 0 .. 0 |-> start]
             gg == [k \in 0 .. 0 |-> Row(g, k)]
  <2>1. ASSUME NEW k \in 0 .. 0 PROVE g[k] = gg[k]
    <3> HIDE DEF start
    <3> QED OBVIOUS
  <2>2. g = gg
    BY <2>1, Zenon
  <2> QED BY <2>2, Zenon
<1>2. ASSUME NEW m \in S PROVE m + 1 \in S
  <2>1. PICK g : P(g, m)
    BY Zenon
  <2> DEFINE gg == [k \in 0 .. m |-> Row(g, k)]
             h == [k \in 0 .. m + 1 |-> Row(g, k)]
             hh == [k \in 0 .. m + 1 |-> Row(h, k)]
  <2>2. ASSUME NEW k \in 0 .. m PROVE g[k] = h[k]
    <3>1. g = gg
      BY <2>1, Zenon
    <3>2. gg[k] = h[k]
      <4> HIDE DEF Row
      <4> QED BY ONLY <2>2, m \in Nat
    <3> QED BY ONLY <3>1, <3>2
  <2>3. ASSUME NEW k \in 0 .. m + 1 PROVE Row(g, k) = Row(h, k)
    <3> HIDE DEF h, start
    <3>1. CASE k = 0
      BY <3>1, Zenon
    <3>2. CASE k # 0
      <4>1. k - 1 \in 0 .. m
        BY <3>2
      <4>2. g[k - 1] = h[k - 1]
        BY <4>1, <2>2
      <4> QED BY <4>2, Zenon
    <3> QED BY <3>1, <3>2
  <2>4. h = hh
    BY <2>3, Zenon
  <2>5. m + 1 \in Nat
    OBVIOUS
  <2> QED BY <2>4, <2>5, Zenon
<1>3. S = Nat
  BY <1>1, <1>2, Induction, Zenon
<1> DEFINE w == AuditWalk(index, size, leaf, path)
           r == [k \in 0 .. Len(path) |-> Row(w, k)]
<1>4. w = r
  <2>1. PICK g : P(g, Len(path))
    BY <1>3, Zenon
  <2> QED BY <2>1, Zenon DEF AuditWalk, AuditRow
<1>5. \A k \in 0 .. Len(path) : r[k] = Row(w, k)
  <2> HIDE DEF Row, w
  <2> QED OBVIOUS
<1> HIDE DEF w, r, start
<1>6. \A k \in 0 .. Len(path) : w[k] = Row(w, k)
  BY ONLY <1>4, <1>5
<1>7. w[0] = start
  BY ONLY <1>6, Len(path) \in Nat
<1>8. ASSUME NEW k \in 0 .. Len(path) - 1 PROVE w[k + 1] = AuditRow(w[k], path[k + 1])
  <2>1. k + 1 \in 0 .. Len(path) /\ k + 1 # 0 /\ (k + 1) - 1 = k
    OBVIOUS
  <2> QED BY ONLY <1>6, <2>1
<1> QED BY ONLY <1>7, <1>8 DEF w, start, IsAuditWalk

ConsistencyRow(w, c) ==
  [at |-> NextPlace(w.at),
   fr |-> IF OnTheLeft(w.at) THEN NodeHash(c, w.fr) ELSE w.fr,
   sr |-> IF OnTheLeft(w.at) THEN NodeHash(c, w.sr) ELSE NodeHash(w.sr, c)]

IsConsistencyWalk(w, first, second, nodes) ==
  /\ w[0] = [at |-> SkipWhile(1, [fn |-> first - 1, sn |-> second - 1]),
             fr |-> nodes[1], sr |-> nodes[1]]
  /\ \A k \in 0 .. Len(nodes) - 2 : w[k + 1] = ConsistencyRow(w[k], nodes[k + 2])

(* ConsistencyWalk takes its steps one by one. *)
LEMMA ConsistencyRows ==
  ASSUME NEW first, NEW second, NEW nodes, Len(nodes) \in Nat \ {0}
  PROVE  IsConsistencyWalk(ConsistencyWalk(first, second, nodes), first, second, nodes)
<1> DEFINE start == [at |-> SkipWhile(1, [fn |-> first - 1, sn |-> second - 1]),
                     fr |-> nodes[1], sr |-> nodes[1]]
           Row(g, k) == IF k = 0 THEN start ELSE ConsistencyRow(g[k - 1], nodes[k + 1])
           P(g, m) == g = [k \in 0 .. m |-> Row(g, k)]
           S == {m \in Nat : \E g : P(g, m)}
<1>1. 0 \in S
  <2> DEFINE g == [k \in 0 .. 0 |-> start]
             gg == [k \in 0 .. 0 |-> Row(g, k)]
  <2>1. ASSUME NEW k \in 0 .. 0 PROVE g[k] = gg[k]
    <3> HIDE DEF start
    <3> QED OBVIOUS
  <2>2. g = gg
    BY <2>1, Zenon
  <2> QED BY <2>2, Zenon
<1>2. ASSUME NEW m \in S PROVE m + 1 \in S
  <2>1. PICK g : P(g, m)
    BY Zenon
  <2> DEFINE gg == [k \in 0 .. m |-> Row(g, k)]
             h == [k \in 0 .. m + 1 |-> Row(g, k)]
             hh == [k \in 0 .. m + 1 |-> Row(h, k)]
  <2>2. ASSUME NEW k \in 0 .. m PROVE g[k] = h[k]
    <3>1. g = gg
      BY <2>1, Zenon
    <3>2. gg[k] = h[k]
      <4> HIDE DEF Row
      <4> QED BY ONLY <2>2, m \in Nat
    <3> QED BY ONLY <3>1, <3>2
  <2>3. ASSUME NEW k \in 0 .. m + 1 PROVE Row(g, k) = Row(h, k)
    <3> HIDE DEF h, start
    <3>1. CASE k = 0
      BY <3>1, Zenon
    <3>2. CASE k # 0
      <4>1. k - 1 \in 0 .. m
        BY <3>2
      <4>2. g[k - 1] = h[k - 1]
        BY <4>1, <2>2
      <4> QED BY <4>2, Zenon
    <3> QED BY <3>1, <3>2
  <2>4. h = hh
    BY <2>3, Zenon
  <2>5. m + 1 \in Nat
    OBVIOUS
  <2> QED BY <2>4, <2>5, Zenon
<1>3. S = Nat
  BY <1>1, <1>2, Induction, Zenon
<1> DEFINE w == ConsistencyWalk(first, second, nodes)
           r == [k \in 0 .. Len(nodes) - 1 |-> Row(w, k)]
<1>4. w = r
  <2>1. Len(nodes) - 1 \in Nat
    OBVIOUS
  <2>2. PICK g : P(g, Len(nodes) - 1)
    BY <1>3, <2>1, Zenon
  <2> QED BY <2>2, Zenon DEF ConsistencyWalk, ConsistencyRow
<1>5. \A k \in 0 .. Len(nodes) - 1 : r[k] = Row(w, k)
  <2> HIDE DEF Row, w
  <2> QED OBVIOUS
<1> HIDE DEF w, r, start
<1>6. \A k \in 0 .. Len(nodes) - 1 : w[k] = Row(w, k)
  BY ONLY <1>4, <1>5
<1>7. w[0] = start
  BY ONLY <1>6, Len(nodes) \in Nat \ {0}
<1>8. ASSUME NEW k \in 0 .. Len(nodes) - 2 PROVE w[k + 1] = ConsistencyRow(w[k], nodes[k + 2])
  <2>1. k + 1 \in 0 .. Len(nodes) - 1 /\ k + 1 # 0 /\ (k + 1) - 1 = k /\ (k + 1) + 1 = k + 2
    OBVIOUS
  <2> QED BY ONLY <1>6, <2>1
<1> QED BY ONLY <1>7, <1>8 DEF w, start, IsConsistencyWalk

-----------------------------------------------------------------------------
(* The paths that the node makes, and every other. *)

LEMMA LeavesOnLevel ==
  ASSUME NEW T, NEW s \in Seq(T), NEW m \in 1 .. Len(s)
  PROVE  /\ OnLevel(m - 1, Len(s) - 1, LeafHashes(SubSeq(s, 1, m)), LeafHashes(s))
         /\ LeafHashes(SubSeq(s, 1, m))[m] = LeafHash(s[m]) /\ LeafHashes(s)[m] = LeafHash(s[m])
<1> DEFINE A == LeafHashes(SubSeq(s, 1, m))
           B == LeafHashes(s)
<1>1. Len(SubSeq(s, 1, m)) = m /\ \A j \in 1 .. m : SubSeq(s, 1, m)[j] = s[j]
  OBVIOUS
<1>2. Len(A) = m /\ \A j \in 1 .. m : A[j] = LeafHash(s[j])
  BY <1>1 DEF LeafHashes
<1>3. Len(B) = Len(s) /\ \A j \in 1 .. Len(s) : B[j] = LeafHash(s[j])
  BY DEF LeafHashes
<1>4. m - 1 \in Nat /\ Len(s) - 1 \in Nat /\ m - 1 <= Len(s) - 1 /\ m = (m - 1) + 1
      /\ Len(s) = (Len(s) - 1) + 1
  OBVIOUS
<1>5. \A j \in 1 .. m - 1 : A[j] = B[j]
  <2> HIDE DEF A, B
  <2> QED BY <1>2, <1>3
<1> HIDE DEF A, B
<1>6. OnLevel(m - 1, Len(s) - 1, A, B)
  BY ONLY <1>2, <1>3, <1>4, <1>5 DEF OnLevel
<1>7. A[m] = LeafHash(s[m]) /\ B[m] = LeafHash(s[m])
  BY <1>2, <1>3
<1> QED BY ONLY <1>6, <1>7 DEF A, B

(* The hash of a tree, its audit paths and its consistency proofs are      *)
(* those of the level of its leaves.                                       *)
LEMMA TreeHashIsTop ==
  ASSUME NEW s, Len(s) \in Nat
  PROVE  /\ TreeHash(s) = Top(LeafHashes(s))
         /\ \A i : AuditPath(i, s) = PathUp(LeafHashes(s), i)
         /\ \A m : ConsistencyPath(m, s) = ProofAt(LeafHashes(s), Len(s), m, TRUE, 0)
<1>1. Len(LeafHashes(s)) = Len(s)
  BY DEF LeafHashes
<1> QED BY ONLY <1>1 DEF TreeHash, AuditPath, ConsistencyPath, Top, PathUp, HashAt, PathAt, ProofAt

LEMMA WholeSubSeq ==
  ASSUME NEW T, NEW s \in Seq(T)
  PROVE  SubSeq(s, 1, Len(s)) = s
OBVIOUS

LEMMA TreeHashIsNoRefusal ==
  ASSUME NEW s, Len(s) \in Nat \ {0}
  PROVE  TreeHash(s) # Refused
<1>1. PICK n \in Nat \ {0} : n = Len(s)
  OBVIOUS
<1>2. Len(LeafHashes(s)) = n /\ LeafHashes(s)[1] = LeafHash(s[1])
  BY <1>1 DEF LeafHashes
<1>3. TreeHash(s) = HashAt(LeafHashes(s), n, 0)
  BY <1>1 DEF TreeHash, HashAt
<1>4. CASE n = 1
  <2>1. HashAt(LeafHashes(s), 1, 0) = LeafHash(s[1])
    <3>1. Len(LeafHashes(s)) \in Nat \ {0} /\ 0 + 1 = 1
      BY <1>2
    <3> QED BY ONLY <1>2, <3>1, 0 \in Nat, HashOfLeaf
  <2>2. LeafHash(s[1]) # Refused
    BY DEF LeafHash, Refused
  <2> QED BY <1>3, <1>4, <2>1, <2>2
<1>5. CASE n # 1
  <2>1. \E a, b : HashAt(LeafHashes(s), n, 0) = NodeHash(a, b)
    <3>1. n \in 2 .. Len(LeafHashes(s)) /\ Len(LeafHashes(s)) \in Nat
      BY <1>2, <1>5
    <3> QED BY ONLY <3>1, 0 \in Nat, HashOfRange
  <2>2. \A a, b : NodeHash(a, b) # Refused
    BY DEF NodeHash, Refused
  <2> QED BY <1>3, <2>1, <2>2
<1> QED BY <1>4, <1>5

AuditClimb(index, size, leaf, path, at, acc) ==
  /\ at[0] = [fn |-> index, sn |-> size - 1] /\ acc[0] = LeafHash(leaf)
  /\ Climbs(at, acc, path)
  /\ Ends(at, Len(path)) <=> EndsAtTheTop(AuditWalk(index, size, leaf, path), Len(path))
  /\ acc[Len(path)] = AuditWalk(index, size, leaf, path)[Len(path)].acc

LEMMA AuditWalkClimbs ==
  ASSUME NEW index, NEW size, NEW leaf, NEW path, Len(path) \in Nat
  PROVE  \E at, acc : AuditClimb(index, size, leaf, path, at, acc)
<1>1. PICK w : w = AuditWalk(index, size, leaf, path) /\ IsAuditWalk(w, index, size, leaf, path)
  BY ONLY Len(path) \in Nat, AuditRows
<1> DEFINE at == [k \in 0 .. Len(path) |-> w[k].at]
           acc == [k \in 0 .. Len(path) |-> w[k].acc]
<1>2. \A k \in 0 .. Len(path) : at[k] = w[k].at /\ acc[k] = w[k].acc
  OBVIOUS
<1> HIDE DEF at, acc
<1>3. at[0] = [fn |-> index, sn |-> size - 1] /\ acc[0] = LeafHash(leaf)
  BY ONLY <1>1, <1>2, Len(path) \in Nat DEF IsAuditWalk
<1>4. ASSUME NEW k \in 0 .. Len(path) - 1
      PROVE  /\ at[k + 1] = NextPlace(at[k])
             /\ OnTheLeft(at[k]) => acc[k + 1] = NodeHash(path[k + 1], acc[k])
             /\ ~ OnTheLeft(at[k]) => acc[k + 1] = NodeHash(acc[k], path[k + 1])
  <2>1. k \in 0 .. Len(path) /\ k + 1 \in 0 .. Len(path)
    OBVIOUS
  <2>2. w[k + 1] = AuditRow(w[k], path[k + 1])
    BY ONLY <1>1, k \in 0 .. Len(path) - 1 DEF IsAuditWalk
  <2>3. /\ w[k + 1].at = NextPlace(w[k].at)
        /\ OnTheLeft(w[k].at) => w[k + 1].acc = NodeHash(path[k + 1], w[k].acc)
        /\ ~ OnTheLeft(w[k].at) => w[k + 1].acc = NodeHash(w[k].acc, path[k + 1])
    BY ONLY <2>2 DEF AuditRow
  <2> QED BY ONLY <1>2, <2>1, <2>3
<1>5. Climbs(at, acc, path)
  BY ONLY <1>4 DEF Climbs
<1>6. Ends(at, Len(path)) <=> EndsAtTheTop(w, Len(path))
  BY ONLY <1>2 DEF Ends, EndsAtTheTop
<1>7. acc[Len(path)] = w[Len(path)].acc
  BY ONLY <1>2, Len(path) \in Nat
<1>8. AuditClimb(index, size, leaf, path, at, acc)
  BY ONLY <1>1, <1>3, <1>5, <1>6, <1>7 DEF AuditClimb
<1> QED BY ONLY <1>8

(* The audit path that the node makes for leaf number i of a tree of any   *)
(* size leads sealedRootOf to the sealed root of that tree                 *)
(* (stateRootAccumulator.js:112-133).                                      *)
THEOREM AuditPathProves ==
  ASSUME NEW T, NEW s \in Seq(T), NEW i \in 0 .. Len(s) - 1
  PROVE  SealedRootOf(i, Len(s), s[i + 1], AuditPath(i, s)) = Sealed(s)
<1>1. PICK A, B : OnLevel(i, Len(s) - 1, A, B) /\ B[i + 1] = LeafHash(s[i + 1]) /\ B = LeafHashes(s)
  <2>1. i + 1 \in 1 .. Len(s) /\ (i + 1) - 1 = i
    OBVIOUS
  <2> QED BY ONLY <2>1, s \in Seq(T), LeavesOnLevel
<1>2. Len(s) \in Nat /\ i \in Nat /\ i < Len(s)
  OBVIOUS
<1>3. TreeHash(s) = Top(B) /\ AuditPath(i, s) = PathUp(B, i)
  BY ONLY <1>1, <1>2, TreeHashIsTop
<1>4. PICK path : path = PathUp(B, i)
  OBVIOUS
<1>5. Len(path) \in Nat
  <2>1. Len(B) \in Nat \ {0} /\ i \in 0 .. Len(B) - 1
    BY <1>1 DEF OnLevel
  <2> QED BY ONLY <1>4, <2>1, LiftedPathUp, OneBefore
<1>6. PICK at, acc : AuditClimb(i, Len(s), s[i + 1], path, at, acc)
  BY ONLY <1>5, AuditWalkClimbs
<1>7. at[0].fn = i /\ at[0].sn = Len(s) - 1 /\ acc[0] = LeafHash(s[i + 1]) /\ Climbs(at, acc, path)
  BY ONLY <1>6 DEF AuditClimb
<1>8. Ends(at, Len(path)) /\ acc[Len(path)] = Top(B)
  <2>1. Follows(at, acc, path, A, B)
    BY ONLY <1>1, <1>4, <1>7 DEF Follows
  <2>2. Reaches(at, acc, path, A, B)
    BY ONLY <2>1, WalkFindsTheTop
  <2> QED BY ONLY <2>2 DEF Reaches
<1>9. /\ EndsAtTheTop(AuditWalk(i, Len(s), s[i + 1], path), Len(path))
      /\ AuditWalk(i, Len(s), s[i + 1], path)[Len(path)].acc = Top(B)
  BY ONLY <1>6, <1>8 DEF AuditClimb
<1> QED BY ONLY <1>2, <1>3, <1>4, <1>9 DEF SealedRootOf, Sealed

(* Whatever index, size, leaf and path a document gives, if sealedRootOf   *)
(* computes the sealed root of a tree, the size is the tree's and the leaf *)
(* is the one at that index (:112-133).                                    *)
THEOREM AuditPathBinds ==
  ASSUME NEW T, NEW s \in Seq(T), s # <<>>, NEW index \in Nat, NEW size, NEW leaf,
         NEW path, Len(path) \in Nat, SealedRootOf(index, size, leaf, path) = Sealed(s)
  PROVE  size = Len(s) /\ index < size /\ leaf = s[index + 1]
<1>1. Len(s) \in Nat \ {0}
  OBVIOUS
<1>2. Refused # Sealed(s)
  BY DEF Refused, Sealed, Seal
<1>3. /\ index < size /\ EndsAtTheTop(AuditWalk(index, size, leaf, path), Len(path))
      /\ Seal(size, AuditWalk(index, size, leaf, path)[Len(path)].acc) = Seal(Len(s), TreeHash(s))
  BY ONLY <1>2, SealedRootOf(index, size, leaf, path) = Sealed(s), Zenon DEF SealedRootOf, Sealed
<1>4. size = Len(s) /\ AuditWalk(index, size, leaf, path)[Len(path)].acc = TreeHash(s)
  <2>1. PICK hash : hash = AuditWalk(index, size, leaf, path)[Len(path)].acc
    OBVIOUS
  <2>2. PICK top : top = TreeHash(s)
    OBVIOUS
  <2>3. Seal(size, hash) = Seal(Len(s), top)
    BY ONLY <1>3, <2>1, <2>2
  <2>4. size = Len(s) /\ hash = top
    BY ONLY <2>3, HashesDiffer
  <2> QED BY ONLY <2>1, <2>2, <2>4
<1>5. PICK A, B : /\ OnLevel(index, size - 1, A, B) /\ B[index + 1] = LeafHash(s[index + 1])
                  /\ B = LeafHashes(s)
  <2>1. index + 1 \in 1 .. Len(s) /\ (index + 1) - 1 = index
    BY <1>1, <1>3, <1>4
  <2> QED BY ONLY <1>4, <2>1, s \in Seq(T), LeavesOnLevel
<1>6. TreeHash(s) = Top(B)
  BY ONLY <1>1, <1>5, TreeHashIsTop
<1>7. PICK at, acc : AuditClimb(index, size, leaf, path, at, acc)
  BY ONLY Len(path) \in Nat, AuditWalkClimbs
<1>8. /\ at[0].fn = index /\ at[0].sn = size - 1 /\ acc[0] = LeafHash(leaf) /\ Climbs(at, acc, path)
      /\ Ends(at, Len(path)) /\ acc[Len(path)] = Top(B)
  BY ONLY <1>3, <1>4, <1>6, <1>7 DEF AuditClimb
<1>9. LeafHash(leaf) = LeafHash(s[index + 1])
  <2>1. Reaches(at, acc, path, A, B)
    BY ONLY <1>5, <1>8, Len(path) \in Nat DEF Reaches
  <2>2. acc[0] = B[at[0].fn + 1]
    BY ONLY <2>1, WalkFindsTheNode
  <2> QED BY ONLY <1>5, <1>8, <2>2
<1> QED BY ONLY <1>3, <1>4, <1>9, HashesDiffer

LeafLevel(nodes) ==
  Len(nodes) \in Nat \ {0} /\ \A j \in 1 .. Len(nodes) : \E x : nodes[j] = LeafHash(x)

(* Two ranges of one hash are of the same length and have the same nodes.  *)
LEMMA HashOfOneRange ==
  ASSUME NEW A, NEW B, LeafLevel(A), LeafLevel(B),
         NEW n \in 1 .. Len(A), NEW m \in 1 .. Len(B), HashAt(A, n, 0) = HashAt(B, m, 0)
  PROVE  n = m /\ \A j \in 1 .. n : A[j] = B[j]
<1> DEFINE Same(k, l, a, b) == k = l /\ \A j \in 1 .. k : A[a + j] = B[b + j]
           At(k, l, a, b) ==
             k \in 1 .. Len(A) - a /\ l \in 1 .. Len(B) - b /\ HashAt(A, k, a) = HashAt(B, l, b) =>
             Same(k, l, a, b)
           S == {k \in Nat : \A l, a, b \in Nat : At(k, l, a, b)}
<1>0. Len(A) \in Nat \ {0} /\ Len(B) \in Nat \ {0}
  BY DEF LeafLevel
<1>1. ASSUME NEW k \in Nat, \A c \in 0 .. k - 1 : \A l, a, b \in Nat : At(c, l, a, b),
             NEW l \in Nat, NEW a \in Nat, NEW b \in Nat
      PROVE  At(k, l, a, b)
  <2> SUFFICES ASSUME k \in 1 .. Len(A) - a, l \in 1 .. Len(B) - b,
                      HashAt(A, k, a) = HashAt(B, l, b)
               PROVE  Same(k, l, a, b)
    OBVIOUS
  <2>1. k = 1 => HashAt(A, k, a) = A[a + 1] /\ \E x : A[a + 1] = LeafHash(x)
    <3>1. a + 1 \in 1 .. Len(A)
      BY <1>0
    <3> QED BY ONLY <1>0, <3>1, a \in Nat, LeafLevel(A), HashOfLeaf DEF LeafLevel
  <2>2. l = 1 => HashAt(B, l, b) = B[b + 1] /\ \E x : B[b + 1] = LeafHash(x)
    <3>1. b + 1 \in 1 .. Len(B)
      BY <1>0
    <3> QED BY ONLY <1>0, <3>1, b \in Nat, LeafLevel(B), HashOfLeaf DEF LeafLevel
  <2>3. k # 1 => \E p \in 1 .. k - 1 :
          HashAt(A, k, a) = NodeHash(HashAt(A, p, a), HashAt(A, k - p, a + p))
    <3> SUFFICES ASSUME k # 1 PROVE \E p \in 1 .. k - 1 :
                   HashAt(A, k, a) = NodeHash(HashAt(A, p, a), HashAt(A, k - p, a + p))
      OBVIOUS
    <3>1. k \in 2 .. Len(A) /\ k >= 2
      BY <1>0
    <3>2. PICK p \in 1 .. k - 1 : p = Split(k)
      BY <3>1, SplitIs
    <3>3. HashAt(A, k, a) = NodeHash(HashAt(A, p, a), HashAt(A, k - p, a + p))
      BY ONLY <1>0, <3>1, <3>2, a \in Nat, HashOfRange
    <3> QED BY ONLY <3>3, p \in 1 .. k - 1
  <2>4. l # 1 => \E q \in 1 .. l - 1 :
          HashAt(B, l, b) = NodeHash(HashAt(B, q, b), HashAt(B, l - q, b + q))
    <3> SUFFICES ASSUME l # 1 PROVE \E q \in 1 .. l - 1 :
                   HashAt(B, l, b) = NodeHash(HashAt(B, q, b), HashAt(B, l - q, b + q))
      OBVIOUS
    <3>1. l \in 2 .. Len(B) /\ l >= 2
      BY <1>0
    <3>2. PICK q \in 1 .. l - 1 : q = Split(l)
      BY <3>1, SplitIs
    <3>3. HashAt(B, l, b) = NodeHash(HashAt(B, q, b), HashAt(B, l - q, b + q))
      BY ONLY <1>0, <3>1, <3>2, b \in Nat, HashOfRange
    <3> QED BY ONLY <3>3, q \in 1 .. l - 1
  <2>5. (k = 1) <=> (l = 1)
    <3> HIDE DEF Same
    <3>1. \A x, c, d : LeafHash(x) # NodeHash(c, d)
      BY HashesDiffer
    <3> QED BY ONLY <2>1, <2>2, <2>3, <2>4, <3>1, HashAt(A, k, a) = HashAt(B, l, b)
  <2>6. CASE k = 1
    <3>1. l = 1 /\ A[a + 1] = B[b + 1]
      BY ONLY <2>1, <2>2, <2>5, <2>6, HashAt(A, k, a) = HashAt(B, l, b)
    <3> QED BY <2>6, <3>1
  <2>7. CASE k # 1
    <3>1. PICK p \in 1 .. k - 1 :
            HashAt(A, k, a) = NodeHash(HashAt(A, p, a), HashAt(A, k - p, a + p))
      BY ONLY <2>3, <2>7
    <3>2. PICK q \in 1 .. l - 1 :
            HashAt(B, l, b) = NodeHash(HashAt(B, q, b), HashAt(B, l - q, b + q))
      BY ONLY <2>4, <2>5, <2>7
    <3>3. HashAt(A, p, a) = HashAt(B, q, b) /\ HashAt(A, k - p, a + p) = HashAt(B, l - q, b + q)
      BY ONLY <3>1, <3>2, HashAt(A, k, a) = HashAt(B, l, b), HashesDiffer
    <3>4. At(p, q, a, b) /\ At(k - p, l - q, a + p, b + q)
      <4>1. /\ p \in 0 .. k - 1 /\ k - p \in 0 .. k - 1 /\ q \in Nat /\ l - q \in Nat
            /\ a + p \in Nat /\ b + q \in Nat
        OBVIOUS
      <4> HIDE DEF At
      <4> QED BY ONLY <1>1, <4>1, a \in Nat, b \in Nat
    <3>5. Same(p, q, a, b) /\ Same(k - p, l - q, a + p, b + q)
      <4>1. /\ p \in 1 .. Len(A) - a /\ q \in 1 .. Len(B) - b
            /\ k - p \in 1 .. Len(A) - (a + p) /\ l - q \in 1 .. Len(B) - (b + q)
        BY ONLY <1>0, k \in Nat, l \in Nat, a \in Nat, b \in Nat, k \in 1 .. Len(A) - a,
                l \in 1 .. Len(B) - b, p \in 1 .. k - 1, q \in 1 .. l - 1
      <4> HIDE DEF Same
      <4> QED BY ONLY <3>3, <3>4, <4>1
    <3>6. k = l /\ p = q
      BY ONLY <3>5, k \in Nat, l \in Nat, p \in 1 .. k - 1, q \in 1 .. l - 1
    <3>7. ASSUME NEW j \in 1 .. k PROVE A[a + j] = B[b + j]
      <4>1. CASE j <= p
        BY ONLY <3>5, <4>1, j \in 1 .. k, p \in 1 .. k - 1
      <4>2. CASE p < j
        <5>1. PICK i \in 1 .. k - p : i = j - p
          BY <4>2
        <5>2. (a + p) + i = a + j /\ (b + q) + i = b + j
          BY ONLY <3>6, <5>1, p \in 1 .. k - 1, a \in Nat, b \in Nat, k \in Nat, j \in 1 .. k
        <5> QED BY ONLY <3>5, <5>1, <5>2
      <4> QED BY ONLY <4>1, <4>2, j \in 1 .. k, p \in 1 .. k - 1, k \in Nat
    <3> QED BY ONLY <3>6, <3>7
  <2> QED BY ONLY <2>6, <2>7
<1>2. S = Nat
  <2>1. S \in SUBSET Nat
    OBVIOUS
  <2>2. ASSUME NEW k \in Nat, \A c \in 0 .. k - 1 : c \in S PROVE k \in S
    <3> HIDE DEF At
    <3> QED BY <1>1, <2>2
  <2> HIDE DEF S
  <2> QED BY ONLY <2>1, <2>2, StrongInduction
<1>3. At(n, m, 0, 0)
  <2>1. n \in Nat /\ m \in Nat /\ 0 \in Nat
    BY <1>0
  <2> HIDE DEF At
  <2> QED BY ONLY <1>2, <2>1
<1>4. Same(n, m, 0, 0)
  <2>1. n \in 1 .. Len(A) - 0 /\ m \in 1 .. Len(B) - 0
    BY <1>0
  <2> HIDE DEF Same
  <2> QED BY ONLY <1>3, <2>1, HashAt(A, n, 0) = HashAt(B, m, 0)
<1> QED BY ONLY <1>0, <1>4, n \in 1 .. Len(A)

(* Two trees of one hash are the same, leaf by leaf and in their length:   *)
(* what the node anchors fixes its whole history (:66-82).                 *)
THEOREM TreeHashesApart ==
  ASSUME NEW T, NEW s \in Seq(T), NEW U, NEW t \in Seq(U), s # <<>>, t # <<>>,
         TreeHash(s) = TreeHash(t)
  PROVE  s = t
<1>1. Len(s) \in Nat \ {0} /\ Len(t) \in Nat \ {0}
  OBVIOUS
<1>2. PICK A : A = LeafHashes(s)
  OBVIOUS
<1>3. PICK B : B = LeafHashes(t)
  OBVIOUS
<1>4. /\ Len(A) = Len(s) /\ \A j \in 1 .. Len(s) : A[j] = LeafHash(s[j])
      /\ Len(B) = Len(t) /\ \A j \in 1 .. Len(t) : B[j] = LeafHash(t[j])
  BY <1>1, <1>2, <1>3 DEF LeafHashes
<1>5. LeafLevel(A) /\ LeafLevel(B)
  BY ONLY <1>1, <1>4 DEF LeafLevel
<1>6. HashAt(A, Len(s), 0) = HashAt(B, Len(t), 0)
  BY ONLY <1>2, <1>3, TreeHash(s) = TreeHash(t) DEF TreeHash, HashAt
<1>7. Len(s) = Len(t) /\ \A j \in 1 .. Len(s) : A[j] = B[j]
  <2>1. Len(s) \in 1 .. Len(A) /\ Len(t) \in 1 .. Len(B)
    BY ONLY <1>1, <1>4
  <2> QED BY ONLY <1>5, <1>6, <2>1, HashOfOneRange
<1>8. \A j \in 1 .. Len(s) : s[j] = t[j]
  <2>1. \A x, y : LeafHash(x) = LeafHash(y) => x = y
    BY HashesDiffer
  <2> QED BY ONLY <1>4, <1>7, <2>1
<1> QED BY <1>7, <1>8

(* A range of a beginning of a tree has the same hash in both. *)
LEMMA HashOfSharedRange ==
  ASSUME NEW A, NEW B, Len(A) \in Nat, Len(B) \in Nat, NEW n \in 1 .. Len(A), n <= Len(B),
         \A j \in 1 .. n : A[j] = B[j]
  PROVE  HashAt(A, n, 0) = HashAt(B, n, 0)
<1> DEFINE At(k, i) == 1 <= k /\ i + k <= n => HashAt(A, k, i) = HashAt(B, k, i)
           S == {k \in Nat : \A i \in Nat : At(k, i)}
<1>1. ASSUME NEW k \in Nat, \A l \in 0 .. k - 1 : \A i \in Nat : At(l, i), NEW i \in Nat
      PROVE  At(k, i)
  <2> SUFFICES ASSUME 1 <= k, i + k <= n PROVE HashAt(A, k, i) = HashAt(B, k, i)
    OBVIOUS
  <2>1. CASE k = 1
    <3>1. Len(A) \in Nat \ {0} /\ Len(B) \in Nat \ {0} /\ i + 1 \in 1 .. n
      BY <2>1
    <3>2. HashAt(A, 1, i) = A[i + 1] /\ HashAt(B, 1, i) = B[i + 1]
      BY ONLY <3>1, i \in Nat, HashOfLeaf
    <3> QED BY <2>1, <3>1, <3>2
  <2>2. CASE k # 1
    <3>1. k >= 2 /\ k \in 2 .. Len(A) /\ k \in 2 .. Len(B)
      BY <2>2
    <3>2. PICK p \in 1 .. k - 1 : p = Split(k)
      BY <3>1, SplitIs
    <3>3. HashAt(A, k, i) = NodeHash(HashAt(A, p, i), HashAt(A, k - p, i + p))
      BY ONLY <3>1, <3>2, i \in Nat, Len(A) \in Nat, HashOfRange
    <3>4. HashAt(B, k, i) = NodeHash(HashAt(B, p, i), HashAt(B, k - p, i + p))
      BY ONLY <3>1, <3>2, i \in Nat, Len(B) \in Nat, HashOfRange
    <3>5. At(p, i) /\ At(k - p, i + p)
      <4>1. p \in 0 .. k - 1 /\ k - p \in 0 .. k - 1 /\ i + p \in Nat
        OBVIOUS
      <4> HIDE DEF At
      <4> QED BY ONLY <1>1, <4>1, i \in Nat
    <3>6. 1 <= p /\ i + p <= n /\ 1 <= k - p /\ i + p + (k - p) <= n
      OBVIOUS
    <3> QED BY ONLY <3>3, <3>4, <3>5, <3>6
  <2> QED BY <2>1, <2>2
<1>2. S = Nat
  <2> HIDE DEF At
  <2>1. S \in SUBSET Nat
    OBVIOUS
  <2>2. ASSUME NEW k \in Nat, \A l \in 0 .. k - 1 : l \in S PROVE k \in S
    BY <1>1, <2>2
  <2> HIDE DEF S
  <2> QED BY ONLY <2>1, <2>2, StrongInduction
<1>3. At(n, 0)
  <2>1. n \in Nat /\ 0 \in Nat
    OBVIOUS
  <2> HIDE DEF At
  <2> QED BY ONLY <1>2, <2>1
<1> QED BY <1>3

ConsistencyClimb(first, second, nodes, rest, at, old, acc) ==
  /\ at[0] = SkipWhile(1, [fn |-> first - 1, sn |-> second - 1])
  /\ old[0] = nodes[1] /\ acc[0] = nodes[1]
  /\ Climbs(at, acc, rest) /\ ClimbsBehind(at, old, rest)
  /\ Ends(at, Len(rest)) <=> EndsAtTheTop(ConsistencyWalk(first, second, nodes), Len(nodes) - 1)
  /\ old[Len(rest)] = ConsistencyWalk(first, second, nodes)[Len(nodes) - 1].fr
  /\ acc[Len(rest)] = ConsistencyWalk(first, second, nodes)[Len(nodes) - 1].sr

After(nodes, rest) ==
  /\ Len(rest) \in Nat /\ Len(nodes) = Len(rest) + 1
  /\ \A j \in 1 .. Len(rest) : nodes[j + 1] = rest[j]

LEMMA ConsistencyWalkClimbs ==
  ASSUME NEW first, NEW second, NEW nodes, NEW rest, After(nodes, rest)
  PROVE  \E at, old, acc : ConsistencyClimb(first, second, nodes, rest, at, old, acc)
<1>0. Len(rest) \in Nat /\ Len(nodes) \in Nat \ {0} /\ Len(nodes) - 1 = Len(rest)
      /\ Len(nodes) - 2 = Len(rest) - 1
  BY DEF After
<1>1. PICK w : w = ConsistencyWalk(first, second, nodes) /\ IsConsistencyWalk(w, first, second, nodes)
  BY ONLY <1>0, ConsistencyRows
<1> DEFINE at == [k \in 0 .. Len(rest) |-> w[k].at]
           old == [k \in 0 .. Len(rest) |-> w[k].fr]
           acc == [k \in 0 .. Len(rest) |-> w[k].sr]
<1>2. \A k \in 0 .. Len(rest) : at[k] = w[k].at /\ old[k] = w[k].fr /\ acc[k] = w[k].sr
  OBVIOUS
<1> HIDE DEF at, old, acc
<1>3. at[0] = SkipWhile(1, [fn |-> first - 1, sn |-> second - 1])
      /\ old[0] = nodes[1] /\ acc[0] = nodes[1]
  BY ONLY <1>0, <1>1, <1>2 DEF IsConsistencyWalk
<1>4. ASSUME NEW k \in 0 .. Len(rest) - 1
      PROVE  /\ at[k + 1] = NextPlace(at[k])
             /\ OnTheLeft(at[k]) => acc[k + 1] = NodeHash(rest[k + 1], acc[k])
             /\ ~ OnTheLeft(at[k]) => acc[k + 1] = NodeHash(acc[k], rest[k + 1])
             /\ OnTheLeft(at[k]) => old[k + 1] = NodeHash(rest[k + 1], old[k])
             /\ ~ OnTheLeft(at[k]) => old[k + 1] = old[k]
  <2>1. k \in 0 .. Len(rest) /\ k + 1 \in 0 .. Len(rest) /\ k + 1 \in 1 .. Len(rest) /\ k + 1 + 1 = k + 2
    BY <1>0
  <2>2. w[k + 1] = ConsistencyRow(w[k], nodes[k + 2])
    BY ONLY <1>0, <1>1, k \in 0 .. Len(rest) - 1 DEF IsConsistencyWalk
  <2>3. nodes[k + 2] = rest[k + 1]
    BY ONLY <2>1, After(nodes, rest) DEF After
  <2>4. /\ w[k + 1].at = NextPlace(w[k].at)
        /\ OnTheLeft(w[k].at) => w[k + 1].sr = NodeHash(rest[k + 1], w[k].sr)
        /\ ~ OnTheLeft(w[k].at) => w[k + 1].sr = NodeHash(w[k].sr, rest[k + 1])
        /\ OnTheLeft(w[k].at) => w[k + 1].fr = NodeHash(rest[k + 1], w[k].fr)
        /\ ~ OnTheLeft(w[k].at) => w[k + 1].fr = w[k].fr
    BY ONLY <2>2, <2>3 DEF ConsistencyRow
  <2> QED BY ONLY <1>2, <2>1, <2>4
<1>5. Climbs(at, acc, rest) /\ ClimbsBehind(at, old, rest)
  BY ONLY <1>4 DEF Climbs, ClimbsBehind
<1>6. Ends(at, Len(rest)) <=> EndsAtTheTop(w, Len(nodes) - 1)
  BY ONLY <1>0, <1>2 DEF Ends, EndsAtTheTop
<1>7. old[Len(rest)] = w[Len(nodes) - 1].fr /\ acc[Len(rest)] = w[Len(nodes) - 1].sr
  BY ONLY <1>0, <1>2
<1>8. ConsistencyClimb(first, second, nodes, rest, at, old, acc)
  BY ONLY <1>1, <1>3, <1>5, <1>6, <1>7 DEF ConsistencyClimb
<1> QED BY ONLY <1>8

(* Where verifyConsistency begins: at the root of the largest whole tree   *)
(* that ends with the last leaf of the first tree.                         *)
LEMMA FirstLevel ==
  ASSUME NEW T, NEW s \in Seq(T), NEW m \in 1 .. Len(s) - 1
  PROVE  \E K, L : FirstNode(m - 1, LeafHashes(SubSeq(s, 1, m)), LeafHashes(s),
                             SkipWhile(1, [fn |-> m - 1, sn |-> Len(s) - 1]), K, L)
<1>1. PICK A : A = LeafHashes(SubSeq(s, 1, m))
  OBVIOUS
<1>2. PICK B : B = LeafHashes(s)
  OBVIOUS
<1>3. OnLevel(m - 1, Len(s) - 1, A, B) /\ A[m] = B[m]
  <2>1. m \in 1 .. Len(s)
    OBVIOUS
  <2> QED BY ONLY <1>1, <1>2, <2>1, s \in Seq(T), LeavesOnLevel
<1>4. PICK fn \in Nat : fn = m - 1 /\ fn + 1 = m /\ fn \in 0 .. fn
  OBVIOUS
<1>5. PICK sn \in Nat : sn = Len(s) - 1 /\ fn < sn
  BY <1>4
<1>6. PICK at : at = [fn |-> fn, sn |-> sn] /\ at.fn = fn /\ at.sn = sn
  <2>1. PICK at : at = [fn |-> fn, sn |-> sn]
    OBVIOUS
  <2>2. at.fn = fn /\ at.sn = sn
    BY ONLY <2>1
  <2> QED BY ONLY <2>1, <2>2
<1>7. PICK skip : SkipWhile(1, at) = skip[fn][sn] /\ Skips(1, skip, fn)
  BY ONLY <1>6, fn \in Nat, SkipRows
<1>8. \E K, L : FirstNode(fn, A, B, skip[fn][sn], K, L)
  BY ONLY <1>3, <1>4, <1>5, <1>7, fn \in Nat, PairsSkipped
<1> QED BY ONLY <1>1, <1>2, <1>4, <1>5, <1>6, <1>7, <1>8

(* What verifyConsistency walks along is the full proof, with the hash     *)
(* that the node left out put back.                                        *)
LEMMA NodesAreTheProof ==
  ASSUME NEW T, NEW s \in Seq(T), NEW m \in 1 .. Len(s) - 1
  PROVE  Nodes(m, TreeHash(SubSeq(s, 1, m)), ConsistencyPath(m, s)) =
           ProofAt(LeafHashes(s), Len(s), m, FALSE, 0)
<1>1. PICK A : A = LeafHashes(SubSeq(s, 1, m))
  OBVIOUS
<1>2. PICK B : B = LeafHashes(s)
  OBVIOUS
<1>3. /\ m \in 1 .. Len(s) /\ m \in Nat /\ m <= m
      /\ Len(s) \in Nat \ {0} /\ Len(s) \in Nat /\ Len(s) \in 1 .. Len(s)
  OBVIOUS
<1>4. Len(A) = m /\ Len(B) = Len(s) /\ \A j \in 1 .. m : A[j] = B[j]
  <2>1. Len(SubSeq(s, 1, m)) = m /\ \A j \in 1 .. m : SubSeq(s, 1, m)[j] = s[j]
    OBVIOUS
  <2>2. Len(A) = m /\ \A j \in 1 .. m : A[j] = LeafHash(s[j])
    BY <1>1, <2>1 DEF LeafHashes
  <2>3. Len(B) = Len(s) /\ \A j \in 1 .. Len(s) : B[j] = LeafHash(s[j])
    BY <1>2 DEF LeafHashes
  <2> QED BY <2>2, <2>3
<1>5. TreeHash(SubSeq(s, 1, m)) = HashAt(B, m, 0)
  <2>1. Len(SubSeq(s, 1, m)) = m
    OBVIOUS
  <2>2. TreeHash(SubSeq(s, 1, m)) = HashAt(A, m, 0)
    BY ONLY <1>1, <2>1 DEF TreeHash, HashAt
  <2>3. HashAt(A, m, 0) = HashAt(B, m, 0)
    <3>1. Len(A) \in Nat /\ Len(B) \in Nat /\ m \in 1 .. Len(A) /\ m <= Len(B)
      BY <1>3, <1>4
    <3> QED BY ONLY <1>4, <3>1, HashOfSharedRange
  <2> QED BY ONLY <2>2, <2>3
<1>6. ConsistencyPath(m, s) = ProofAt(B, Len(s), m, TRUE, 0)
  BY ONLY <1>2, <1>3, TreeHashIsTop
<1>7. IsPower(m) <=> m \in Powers(m)
  BY ONLY <1>3, PowerInPowers
<1>8. Len(B) \in Nat /\ Len(s) \in 1 .. Len(B) /\ m \in 1 .. Len(s) /\ 0 \in Nat
  BY ONLY <1>3, <1>4
<1>9. CASE IsPower(m)
  <2>1. ProofAt(B, Len(s), m, FALSE, 0) = <<HashAt(B, m, 0)>> \o ProofAt(B, Len(s), m, TRUE, 0)
    BY ONLY <1>8, <1>9, ProofWithItsOwnHash
  <2> QED BY ONLY <1>2, <1>5, <1>6, <1>7, <1>9, <2>1 DEF Nodes
<1>10. CASE ~ IsPower(m)
  <2>1. ProofAt(B, Len(s), m, FALSE, 0) = ProofAt(B, Len(s), m, TRUE, 0)
    BY ONLY <1>8, <1>10, m \in 1 .. Len(s) - 1, ProofOfARemainder
  <2> QED BY ONLY <1>2, <1>5, <1>6, <1>7, <1>10, <2>1 DEF Nodes
<1> QED BY <1>9, <1>10

LEMMA AllNodes ==
  ASSUME NEW nodes, NEW n \in Nat \ {0}, Len(nodes) = n
  PROVE  \E rest : After(nodes, rest)
<1> DEFINE rest == [j \in 1 .. n - 1 |-> nodes[j + 1]]
<1>1. Len(rest) = n - 1 /\ \A j \in 1 .. n - 1 : rest[j] = nodes[j + 1]
  OBVIOUS
<1> HIDE DEF rest
<1>2. After(nodes, rest)
  BY <1>1 DEF After
<1> QED BY <1>2

(* The consistency proof that the node makes for the first m leaves of a   *)
(* tree of any size leads verifyConsistency from their hash to the hash of *)
(* the tree (:140-178).                                                    *)
THEOREM ConsistencyPathProves ==
  ASSUME NEW T, NEW s \in Seq(T), NEW m \in 1 .. Len(s)
  PROVE  VerifyConsistency(m, Len(s), TreeHash(SubSeq(s, 1, m)), ConsistencyPath(m, s)) = TreeHash(s)
<1>0. Len(s) \in Nat \ {0} /\ Len(s) \in Nat
  OBVIOUS
<1>1. CASE m = Len(s)
  <2>1. ConsistencyPath(m, s) = <<>>
    <3>1. ConsistencyPath(m, s) = ProofAt(LeafHashes(s), Len(s), Len(s), TRUE, 0)
      BY ONLY <1>0, <1>1, TreeHashIsTop
    <3>2. Len(LeafHashes(s)) \in Nat /\ Len(s) \in 1 .. Len(LeafHashes(s))
      BY DEF LeafHashes
    <3>3. ProofAt(LeafHashes(s), Len(s), Len(s), TRUE, 0) = <<>>
      BY ONLY <3>2, 0 \in Nat, ProofOfAll
    <3> QED BY ONLY <3>1, <3>3
  <2>2. SubSeq(s, 1, m) = s
    BY ONLY <1>1, s \in Seq(T), WholeSubSeq
  <2>3. ~ (m = 0 \/ m > Len(s))
    OBVIOUS
  <2> QED BY ONLY <1>1, <2>1, <2>2, <2>3 DEF VerifyConsistency
<1>2. CASE m # Len(s)
  <2>1. m \in 1 .. Len(s) - 1
    BY <1>2
  <2>2. PICK h : h = TreeHash(SubSeq(s, 1, m))
    OBVIOUS
  <2>3. PICK P : P = LeafHashes(SubSeq(s, 1, m))
    OBVIOUS
  <2>4. PICK F : F = LeafHashes(s)
    OBVIOUS
  <2>5. PICK r : r = SkipWhile(1, [fn |-> m - 1, sn |-> Len(s) - 1])
    OBVIOUS
  <2>6. PICK A, B : FirstNode(m - 1, P, F, r, A, B)
    BY ONLY <2>1, <2>3, <2>4, <2>5, s \in Seq(T), FirstLevel
  <2>7. /\ OnLevel(r.fn, r.sn, A, B) /\ r.fn < r.sn /\ ~ Odd(r.fn) /\ A[r.fn + 1] = B[r.fn + 1]
        /\ Top(A) = Top(P) /\ Top(B) = Top(F)
        /\ ProofAt(B, Len(B), r.fn + 1, FALSE, 0) = ProofAt(F, Len(F), m - 1 + 1, FALSE, 0)
    BY ONLY <2>6 DEF FirstNode
  <2>8. Top(P) = h /\ Top(F) = TreeHash(s)
    <3>1. Len(SubSeq(s, 1, m)) \in Nat
      OBVIOUS
    <3> QED BY ONLY <1>0, <2>2, <2>3, <2>4, <3>1, TreeHashIsTop
  <2>9. PICK nodes : nodes = Nodes(m, h, ConsistencyPath(m, s))
    OBVIOUS
  <2>10. PICK rest : rest = PathUp(B, r.fn)
    OBVIOUS
  <2>11. nodes = <<B[r.fn + 1]>> \o rest /\ IsSeq(rest)
    <3>1. nodes = ProofAt(F, Len(s), m, FALSE, 0)
      BY ONLY <2>1, <2>2, <2>4, <2>9, s \in Seq(T), NodesAreTheProof
    <3>2. Len(F) = Len(s) /\ m - 1 + 1 = m
      BY <2>4 DEF LeafHashes
    <3>3. PICK n \in Nat : n = Len(B) /\ n = r.sn + 1 /\ r.fn \in Nat /\ r.sn \in Nat
      BY <2>7 DEF OnLevel
    <3>4. PICK i \in Nat : i = r.fn + 1 /\ i - 1 = r.fn
      BY <3>3
    <3>5. Odd(i)
      <4>1. PICK f \in Nat : f = r.fn
        BY <3>3
      <4>2. ~ Odd(f) /\ i = f + 1
        BY ONLY <2>7, <3>4, <4>1
      <4> QED BY ONLY <4>2, f \in Nat DEF Odd
    <3>6. n \in 1 .. Len(B) /\ Len(B) \in Nat /\ i \in 1 .. n /\ i < n
      BY <2>7, <3>3, <3>4
    <3>7. ProofAt(B, n, i, FALSE, 0) = <<B[0 + i]>> \o PathAt(B, n, i - 1, 0)
      BY ONLY <3>5, <3>6, 0 \in Nat, ProofIsPath
    <3>8. 0 + i = i
      OBVIOUS
    <3>9. IsSeq(PathUp(B, r.fn))
      <4>1. Len(B) \in Nat \ {0} /\ r.fn \in 0 .. Len(B) - 1
        BY <2>7, <3>3
      <4> QED BY ONLY <4>1, LiftedPathUp
    <3> QED BY ONLY <2>7, <2>10, <3>1, <3>2, <3>3, <3>4, <3>7, <3>8, <3>9 DEF PathUp
  <2>12. After(nodes, rest) /\ nodes[1] = B[r.fn + 1] /\ Len(nodes) # 0 /\ Len(nodes) - 1 = Len(rest)
    <3>1. /\ Len(rest) \in Nat /\ Len(nodes) = Len(rest) + 1 /\ nodes[1] = B[r.fn + 1]
          /\ \A j \in 1 .. Len(rest) : nodes[j + 1] = rest[j]
      BY ONLY <2>11, OneBefore
    <3>2. Len(nodes) # 0 /\ Len(nodes) - 1 = Len(rest)
      BY <3>1
    <3> QED BY ONLY <3>1, <3>2 DEF After
  <2>13. PICK at, old, acc : ConsistencyClimb(m, Len(s), nodes, rest, at, old, acc)
    BY ONLY <2>12, ConsistencyWalkClimbs
  <2>14. /\ at[0] = r /\ old[0] = B[r.fn + 1] /\ acc[0] = B[r.fn + 1]
         /\ Climbs(at, acc, rest) /\ ClimbsBehind(at, old, rest)
    BY ONLY <2>5, <2>12, <2>13 DEF ConsistencyClimb
  <2>15. Follows(at, acc, rest, A, B)
    BY ONLY <2>7, <2>10, <2>14 DEF Follows
  <2>16. Reaches(at, acc, rest, A, B)
    BY ONLY <2>15, WalkFindsTheTop
  <2>17. old[Len(rest)] = Top(A)
    <3>1. acc[0] = B[at[0].fn + 1] => old[0] = A[at[0].fn + 1]
      BY ONLY <2>7, <2>14
    <3> QED BY ONLY <2>14, <2>16, <3>1, WalkFindsTheFirstTree
  <2>18. /\ EndsAtTheTop(ConsistencyWalk(m, Len(s), nodes), Len(nodes) - 1)
         /\ ConsistencyWalk(m, Len(s), nodes)[Len(nodes) - 1].fr = h
         /\ ConsistencyWalk(m, Len(s), nodes)[Len(nodes) - 1].sr = TreeHash(s)
    BY ONLY <2>7, <2>8, <2>13, <2>16, <2>17 DEF ConsistencyClimb, Reaches
  <2>19. nodes # <<>>
    BY <2>12
  <2>20. ~ (m = 0 \/ m > Len(s))
    OBVIOUS
  <2> QED BY ONLY <1>2, <2>2, <2>9, <2>18, <2>19, <2>20 DEF VerifyConsistency
<1> QED BY <1>1, <1>2

(* Whatever size, hash and proof a document gives of a first tree, if      *)
(* verifyConsistency computes the hash of the second tree, that hash is    *)
(* the one of its beginning of that size (:140-178).                       *)
THEOREM ConsistencyPathBinds ==
  ASSUME NEW T, NEW s \in Seq(T), s # <<>>, NEW first \in Nat, NEW h, NEW path, IsSeq(path),
         VerifyConsistency(first, Len(s), h, path) = TreeHash(s)
  PROVE  first \in 1 .. Len(s) /\ h = TreeHash(SubSeq(s, 1, first))
<1>0. Len(s) \in Nat \ {0}
  OBVIOUS
<1>1. TreeHash(s) # Refused
  BY ONLY <1>0, TreeHashIsNoRefusal
<1>2. first # 0 /\ ~ (first > Len(s))
  BY <1>1 DEF VerifyConsistency
<1>3. first \in 1 .. Len(s)
  BY <1>0, <1>2
<1>4. CASE first = Len(s)
  <2>1. h = TreeHash(s)
    BY ONLY <1>1, <1>2, <1>4, VerifyConsistency(first, Len(s), h, path) = TreeHash(s), Zenon
       DEF VerifyConsistency
  <2>2. SubSeq(s, 1, first) = s
    BY ONLY <1>4, s \in Seq(T), WholeSubSeq
  <2> QED BY ONLY <1>3, <2>1, <2>2
<1>5. CASE first # Len(s)
  <2>1. first \in 1 .. Len(s) - 1
    BY <1>0, <1>3, <1>5
  <2>2. PICK nodes : nodes = Nodes(first, h, path)
    OBVIOUS
  <2>3. /\ nodes # <<>> /\ EndsAtTheTop(ConsistencyWalk(first, Len(s), nodes), Len(nodes) - 1)
        /\ ConsistencyWalk(first, Len(s), nodes)[Len(nodes) - 1].fr = h
        /\ ConsistencyWalk(first, Len(s), nodes)[Len(nodes) - 1].sr = TreeHash(s)
    BY ONLY <1>1, <1>2, <1>5, <2>2, VerifyConsistency(first, Len(s), h, path) = TreeHash(s), Zenon
       DEF VerifyConsistency
  <2>4. PICK rest : After(nodes, rest)
    <3>1. PICK V : path \in Seq(V)
      BY DEF IsSeq
    <3>2. nodes \in Seq(V \cup {h})
      <4>1. path \in Seq(V \cup {h}) /\ <<h>> \o path \in Seq(V \cup {h})
        BY <3>1
      <4>2. nodes = path \/ nodes = <<h>> \o path
        BY ONLY <2>2 DEF Nodes
      <4> QED BY ONLY <4>1, <4>2
    <3>3. PICK n \in Nat \ {0} : Len(nodes) = n
      BY <2>3, <3>2
    <3> QED BY ONLY <3>3, AllNodes
  <2>5. Len(rest) \in Nat /\ Len(nodes) - 1 = Len(rest)
    BY <2>4 DEF After
  <2>6. PICK P : P = LeafHashes(SubSeq(s, 1, first))
    OBVIOUS
  <2>7. PICK F : F = LeafHashes(s)
    OBVIOUS
  <2>8. PICK r : r = SkipWhile(1, [fn |-> first - 1, sn |-> Len(s) - 1])
    OBVIOUS
  <2>9. PICK A, B : FirstNode(first - 1, P, F, r, A, B)
    BY ONLY <2>1, <2>6, <2>7, <2>8, s \in Seq(T), FirstLevel
  <2>10. /\ OnLevel(r.fn, r.sn, A, B) /\ A[r.fn + 1] = B[r.fn + 1]
         /\ Top(A) = Top(P) /\ Top(B) = Top(F)
    BY ONLY <2>9 DEF FirstNode
  <2>11. Top(P) = TreeHash(SubSeq(s, 1, first)) /\ Top(F) = TreeHash(s)
    <3>1. Len(SubSeq(s, 1, first)) \in Nat /\ Len(s) \in Nat
      BY <1>3
    <3> QED BY ONLY <2>6, <2>7, <3>1, TreeHashIsTop
  <2>12. PICK at, old, acc : ConsistencyClimb(first, Len(s), nodes, rest, at, old, acc)
    BY ONLY <2>4, ConsistencyWalkClimbs
  <2>13. /\ at[0] = r /\ old[0] = nodes[1] /\ acc[0] = nodes[1]
         /\ Climbs(at, acc, rest) /\ ClimbsBehind(at, old, rest)
         /\ Ends(at, Len(rest)) /\ old[Len(rest)] = h /\ acc[Len(rest)] = TreeHash(s)
    BY ONLY <2>3, <2>8, <2>12 DEF ConsistencyClimb
  <2>14. Reaches(at, acc, rest, A, B)
    BY ONLY <2>5, <2>10, <2>11, <2>13 DEF Reaches
  <2>15. acc[0] = B[at[0].fn + 1] => old[0] = A[at[0].fn + 1]
    BY ONLY <2>10, <2>13
  <2>16. old[Len(rest)] = Top(A)
    BY ONLY <2>13, <2>14, <2>15, WalkFindsTheFirstTree
  <2> QED BY ONLY <1>3, <2>10, <2>11, <2>13, <2>16
<1> QED BY <1>4, <1>5

(* A consistency proof is a sequence. *)
LEMMA ProofIsSeq ==
  ASSUME NEW nodes, Len(nodes) \in Nat, NEW n \in 1 .. Len(nodes), NEW m \in 1 .. n,
         NEW whole \in BOOLEAN, NEW i \in Nat
  PROVE  IsSeq(ProofAt(nodes, n, m, whole, i))
<1> DEFINE At(k, a, b, w) ==
             k \in 1 .. Len(nodes) /\ b \in 1 .. k => IsSeq(ProofAt(nodes, k, b, w, a))
           S == {k \in Nat : \A a, b \in Nat : \A w \in BOOLEAN : At(k, a, b, w)}
<1>1. ASSUME NEW k \in Nat, \A l \in 0 .. k - 1 : \A a, b \in Nat : \A w \in BOOLEAN : At(l, a, b, w),
             NEW a \in Nat, NEW b \in Nat, NEW w \in BOOLEAN
      PROVE  At(k, a, b, w)
  <2> SUFFICES ASSUME k \in 1 .. Len(nodes), b \in 1 .. k
               PROVE  IsSeq(ProofAt(nodes, k, b, w, a))
    OBVIOUS
  <2>1. CASE b = k
    <3>1. /\ ProofAt(nodes, k, k, FALSE, a) = <<HashAt(nodes, k, a)>>
          /\ ProofAt(nodes, k, k, TRUE, a) = <<>>
      BY ONLY k \in 1 .. Len(nodes), Len(nodes) \in Nat, a \in Nat, ProofOfAll
    <3>2. IsSeq(<<>>) /\ IsSeq(<<HashAt(nodes, k, a)>>)
      <4>1. <<>> \in Seq(Nat)
        OBVIOUS
      <4>2. <<HashAt(nodes, k, a)>> \in Seq({HashAt(nodes, k, a)})
        OBVIOUS
      <4> QED BY ONLY <4>1, <4>2 DEF IsSeq
    <3>3. w = TRUE \/ w = FALSE
      OBVIOUS
    <3> QED BY ONLY <2>1, <3>1, <3>2, <3>3
  <2>2. CASE b # k
    <3>1. k \in 2 .. Len(nodes) /\ b \in 1 .. k - 1
      BY <2>2
    <3>2. PICK p \in 1 .. k - 1 : p = Split(k)
      BY <3>1, SplitIs
    <3>3. CASE b <= p
      <4>1. At(p, a, b, w)
        <5>1. p \in 0 .. k - 1
          OBVIOUS
        <5> HIDE DEF At
        <5> QED BY ONLY <1>1, <5>1, a \in Nat, b \in Nat, w \in BOOLEAN
      <4>2. IsSeq(ProofAt(nodes, p, b, w, a))
        <5>1. p \in 1 .. Len(nodes) /\ b \in 1 .. p
          BY <3>3
        <5> QED BY ONLY <4>1, <5>1
      <4>3. ProofAt(nodes, k, b, w, a) = Append(ProofAt(nodes, p, b, w, a), HashAt(nodes, k - p, a + p))
        BY ONLY <3>1, <3>2, <3>3, Len(nodes) \in Nat, a \in Nat, w \in BOOLEAN, ProofOnTheLeft
      <4> QED BY ONLY <4>2, <4>3, IsSeqOfAppend
    <3>4. CASE ~ (b <= p)
      <4>0. k - p \in 0 .. k - 1 /\ b - p \in Nat /\ a + p \in Nat /\ b - p \in 1 .. k - p
            /\ k - p \in 1 .. Len(nodes) /\ FALSE \in BOOLEAN
        BY <3>4
      <4>1. At(k - p, a + p, b - p, FALSE)
        <5> HIDE DEF At
        <5> QED BY ONLY <1>1, <4>0
      <4>2. IsSeq(ProofAt(nodes, k - p, b - p, FALSE, a + p))
        BY ONLY <4>0, <4>1
      <4>3. ProofAt(nodes, k, b, w, a) =
              Append(ProofAt(nodes, k - p, b - p, FALSE, a + p), HashAt(nodes, p, a))
        BY ONLY <3>1, <3>2, <3>4, Len(nodes) \in Nat, a \in Nat, w \in BOOLEAN, ProofOnTheRight
      <4> QED BY ONLY <4>2, <4>3, IsSeqOfAppend
    <3> QED BY <3>3, <3>4
  <2> QED BY <2>1, <2>2
<1>2. S = Nat
  <2>1. S \in SUBSET Nat
    OBVIOUS
  <2>2. ASSUME NEW k \in Nat, \A l \in 0 .. k - 1 : l \in S PROVE k \in S
    <3> HIDE DEF At
    <3> QED BY <1>1, <2>2
  <2> HIDE DEF S
  <2> QED BY <2>1, <2>2, StrongInduction
<1>3. At(n, i, m, whole)
  <2>1. n \in Nat /\ m \in Nat
    OBVIOUS
  <2> HIDE DEF At
  <2> QED BY ONLY <1>2, <2>1, i \in Nat, whole \in BOOLEAN
<1> QED BY <1>3

-----------------------------------------------------------------------------
(* The invariants. *)

LEMMA AuditPathIsSeq ==
  ASSUME NEW T, NEW s \in Seq(T), NEW i \in 0 .. Len(s) - 1
  PROVE  IsSeq(AuditPath(i, s))
<1>1. Len(LeafHashes(s)) \in Nat /\ Len(s) \in 1 .. Len(LeafHashes(s)) /\ i \in Nat
  BY DEF LeafHashes
<1>2. AuditPath(i, s) = PathAt(LeafHashes(s), Len(s), i, 0)
  BY ONLY DEF AuditPath, PathAt
<1> QED BY ONLY <1>1, <1>2, 0 \in Nat, PathIsSeq

LEMMA ConsistencyPathIsSeq ==
  ASSUME NEW T, NEW s \in Seq(T), NEW m \in 1 .. Len(s)
  PROVE  IsSeq(ConsistencyPath(m, s))
<1>1. Len(LeafHashes(s)) \in Nat /\ Len(s) \in 1 .. Len(LeafHashes(s))
  BY DEF LeafHashes
<1>2. ConsistencyPath(m, s) = ProofAt(LeafHashes(s), Len(s), m, TRUE, 0)
  BY ONLY DEF ConsistencyPath, ProofAt
<1> QED BY ONLY <1>1, <1>2, 0 \in Nat, TRUE \in BOOLEAN, ProofIsSeq

(* What is left of a damaged path is a sequence. *)
LEMMA DamagedIsSeq ==
  ASSUME NEW q, IsSeq(q), NEW hashes, NEW path \in Damaged(q, hashes)
  PROVE  IsSeq(path) /\ Len(path) \in Nat
<1>1. PICK T : q \in Seq(T)
  BY DEF IsSeq
<1>2. PICK V : V = T \cup hashes
  OBVIOUS
<1>3. q \in Seq(V) /\ Len(q) \in Nat
  BY <1>1, <1>2
<1>4. path \in Seq(V)
  <2> DEFINE Kept == {q}
             Lost == {RemoveAt(q, i) : i \in DOMAIN q}
             Longer == {Append(q, h) : h \in hashes} \cup {<<h>> \o q : h \in hashes}
             Changed == {[q EXCEPT ![i] = h] : i \in DOMAIN q, h \in hashes}
  <2>1. path \in Kept \cup Lost \cup Longer \cup Changed
    <3>1. Damaged(q, hashes) = Kept \cup Lost \cup Longer \cup Changed
      BY ONLY DEF Damaged
    <3> QED BY ONLY <3>1, path \in Damaged(q, hashes)
  <2>2. Kept \subseteq Seq(V)
    BY <1>3
  <2>3. ASSUME NEW i \in DOMAIN q PROVE RemoveAt(q, i) \in Seq(V)
    <3>1. i \in 1 .. Len(q)
      BY <1>3
    <3>2. SubSeq(q, 1, i - 1) \in Seq(V) /\ SubSeq(q, i + 1, Len(q)) \in Seq(V)
      BY <1>3, <3>1
    <3> QED BY ONLY <3>2 DEF RemoveAt
  <2>4. ASSUME NEW h \in hashes PROVE Append(q, h) \in Seq(V) /\ <<h>> \o q \in Seq(V)
    BY <1>2, <1>3
  <2>5. ASSUME NEW i \in DOMAIN q, NEW h \in hashes PROVE [q EXCEPT ![i] = h] \in Seq(V)
    BY <1>2, <1>3
  <2>6. \A p \in Lost : p \in Seq(V)
    BY ONLY <2>3, Zenon
  <2>7. \A p \in Longer : p \in Seq(V)
    BY ONLY <2>4, Zenon
  <2>8. \A p \in Changed : p \in Seq(V)
    BY ONLY <2>5, SMT
  <2> HIDE DEF Kept, Lost, Longer, Changed
  <2> QED BY ONLY <2>1, <2>2, <2>6, <2>7, <2>8
<1>5. Len(path) \in Nat
  BY ONLY <1>4
<1> QED BY <1>4, <1>5 DEF IsSeq

TreeOK == tree \in Seq(Leaves)

(* The node's tree is a sequence of leaves, whatever their number. *)
THEOREM TreeTyped == RootsSpec => []TreeOK
<1>1. RootsInit => TreeOK
  BY DEF RootsInit, TreeOK
<1>2. TreeOK /\ [RootsNext]_tree => TreeOK'
  BY DEF RootsNext, AppendLeaf, TreeOK
<1> QED BY <1>1, <1>2, PTL DEF RootsSpec

(* As the node's tree grows, at any size, every leaf proves into the       *)
(* sealed root by its audit path, and no other size, index or leaf does,   *)
(* by that path or a damaged one (stateRootAccumulator.js:112-133).        *)
THEOREM AuditPathsAreExact == RootsSpec => []AuditPathsExact
<1>1. TreeOK => AuditPathsExact
  <2> SUFFICES ASSUME tree \in Seq(Leaves) PROVE AuditPathsExact
    BY DEF TreeOK
  <2>1. ASSUME NEW i \in 0 .. Len(tree) - 1
        PROVE  SealedRootOf(i, Len(tree), tree[i + 1], AuditPath(i, tree)) = Sealed(tree)
    BY ONLY tree \in Seq(Leaves), i \in 0 .. Len(tree) - 1, AuditPathProves
  <2>2. ASSUME NEW i \in 0 .. Len(tree) - 1, NEW path \in Damaged(AuditPath(i, tree), Hashes),
               NEW index \in 0 .. Len(tree), NEW size, NEW x,
               SealedRootOf(index, size, x, path) = Sealed(tree)
        PROVE  size = Len(tree) /\ index < size /\ x = tree[index + 1]
    <3>1. index \in Nat /\ tree # <<>>
      OBVIOUS
    <3>2. IsSeq(AuditPath(i, tree))
      BY ONLY tree \in Seq(Leaves), i \in 0 .. Len(tree) - 1, AuditPathIsSeq
    <3>3. Len(path) \in Nat
      BY ONLY <3>2, path \in Damaged(AuditPath(i, tree), Hashes), DamagedIsSeq
    <3> QED BY ONLY tree \in Seq(Leaves), <2>2, <3>1, <3>3, AuditPathBinds
  <2> QED BY <2>1, <2>2 DEF AuditPathsExact
<1> QED BY <1>1, TreeTyped, PTL

(* As the node's tree grows, at any size, every beginning of it is shown   *)
(* to be one by its consistency proof, and no other hash is, by that proof *)
(* or a damaged one (stateRootAccumulator.js:140-178).                     *)
THEOREM ConsistencyPathsAreExact == RootsSpec => []ConsistencyPathsExact
<1>1. TreeOK => ConsistencyPathsExact
  <2> SUFFICES ASSUME tree \in Seq(Leaves) PROVE ConsistencyPathsExact
    BY DEF TreeOK
  <2> DEFINE prefix == [m \in Sizes |-> TreeHash(Prefix(m))]
  <2>0. \A m \in Sizes : prefix[m] = TreeHash(SubSeq(tree, 1, m)) /\ m \in 1 .. Len(tree)
    BY DEF Sizes, Prefix
  <2>1. ASSUME NEW m \in Sizes
        PROVE  VerifyConsistency(m, Len(tree), prefix[m], ConsistencyPath(m, tree)) = TreeHash(tree)
    <3> HIDE DEF prefix
    <3>1. prefix[m] = TreeHash(SubSeq(tree, 1, m)) /\ m \in 1 .. Len(tree)
      BY ONLY <2>0, m \in Sizes
    <3>2. VerifyConsistency(m, Len(tree), TreeHash(SubSeq(tree, 1, m)), ConsistencyPath(m, tree))
            = TreeHash(tree)
      BY ONLY tree \in Seq(Leaves), <3>1, ConsistencyPathProves
    <3> QED BY ONLY <3>1, <3>2
  <2>2. ASSUME NEW m \in Sizes, NEW path \in Damaged(ConsistencyPath(m, tree), Hashes),
               NEW first \in 0 .. Len(tree) + 1, NEW h,
               VerifyConsistency(first, Len(tree), h, path) = TreeHash(tree)
        PROVE  first \in Sizes /\ h = prefix[first]
    <3>1. m \in 1 .. Len(tree) /\ tree # <<>> /\ first \in Nat
      BY DEF Sizes
    <3>2. IsSeq(ConsistencyPath(m, tree))
      BY ONLY <3>1, tree \in Seq(Leaves), ConsistencyPathIsSeq
    <3>3. IsSeq(path)
      BY ONLY <3>2, path \in Damaged(ConsistencyPath(m, tree), Hashes), DamagedIsSeq
    <3>4. first \in 1 .. Len(tree) /\ h = TreeHash(SubSeq(tree, 1, first))
      BY ONLY tree \in Seq(Leaves), <2>2, <3>1, <3>3, ConsistencyPathBinds
    <3> QED BY ONLY <2>0, <3>4 DEF Sizes
  <2> HIDE DEF prefix
  <2>3. /\ \A m \in Sizes :
             VerifyConsistency(m, Len(tree), prefix[m], ConsistencyPath(m, tree)) = TreeHash(tree)
        /\ \A m \in Sizes : \A path \in Damaged(ConsistencyPath(m, tree), Hashes) :
             \A first \in 0 .. Len(tree) + 1, h \in Hashes :
               VerifyConsistency(first, Len(tree), h, path) = TreeHash(tree)
                 => first \in Sizes /\ h = prefix[first]
    BY ONLY <2>1, <2>2
  <2> QED BY ONLY <2>3, Zenon DEF ConsistencyPathsExact, prefix
<1> QED BY <1>1, TreeTyped, PTL
=============================================================================
