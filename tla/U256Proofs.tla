----------------------------- MODULE U256Proofs -----------------------------
(* The arithmetic of U256, for every width of a limb. *)
EXTENDS U256, TLAPS

LEMMA WIsNat == W \in Nat /\ W > 1 /\ W > H
  BY HalfLimb DEF W

\* The quotient of a number below two divisors is zero or one.
LEMMA QuotientSmall ==
  ASSUME NEW d \in Nat, d > 0, NEW q \in Int, NEW r \in Int, NEW s \in Int,
         s = d * q + r, 0 <= r, r < d, 0 - d <= s, s < 2 * d
  PROVE  q \in {-1, 0, 1}
<1>1. q < 2
  <2>1. SUFFICES ASSUME q >= 2 PROVE FALSE
    OBVIOUS
  <2>2. d * q >= d * 2
    BY <2>1
  <2> QED BY <2>2
<1>2. q > -2
  <2>1. SUFFICES ASSUME q <= -2 PROVE FALSE
    OBVIOUS
  <2>2. d * q <= d * (-2)
    BY <2>1
  <2> QED BY <2>2
<1> QED BY <1>1, <1>2

LEMMA DivMod ==
  ASSUME NEW d \in Nat, d > 0, NEW s \in Int
  PROVE  /\ s % d \in 0 .. d - 1
         /\ s \div d \in Int
         /\ s = d * (s \div d) + (s % d)
OBVIOUS

LEMMA ModNear ==
  ASSUME NEW d \in Nat, d > 0, NEW s \in Int, 0 - d <= s, s < 2 * d
  PROVE  s % d = IF s < 0 THEN s + d ELSE IF s < d THEN s ELSE s - d
<1>1. s % d \in 0 .. d - 1 /\ s \div d \in Int /\ s = d * (s \div d) + (s % d)
  BY DivMod
<1>2. s \div d \in {-1, 0, 1}
  BY <1>1, QuotientSmall
<1>3. CASE s \div d = -1
  <2>1. s = (s % d) - d
    BY <1>1, <1>3
  <2> QED BY <1>1, <2>1
<1>4. CASE s \div d = 0
  <2>1. s = s % d
    BY <1>1, <1>4
  <2> QED BY <1>1, <2>1
<1>5. CASE s \div d = 1
  <2>1. s = (s % d) + d
    BY <1>1, <1>5
  <2> QED BY <1>1, <2>1
<1> QED BY <1>2, <1>3, <1>4, <1>5

LEMMA AddLimbExact ==
  ASSUME NEW x \in Limb, NEW y \in Limb, NEW c \in {0, 1}
  PROVE  /\ AddLimb(x, y, c) \in Limb
         /\ Carry(x, y, c) \in {0, 1}
         /\ x + y + c = AddLimb(x, y, c) + W * Carry(x, y, c)
<1> DEFINE s == x + y + c
<1>1. s \in Int /\ 0 <= s /\ s < 2 * W
  BY WIsNat DEF Limb
<1>2. s % W = IF s < W THEN s ELSE s - W
  BY <1>1, WIsNat, ModNear
<1>3. AddLimb(x, y, c) = s % W
  BY DEF AddLimb
<1> HIDE DEF s
<1>4. CASE s < W
  <2>1. AddLimb(x, y, c) = s /\ s >= x /\ (c = 1 => s # x)
    BY <1>1, <1>2, <1>3, <1>4 DEF s, Limb
  <2>2. Carry(x, y, c) = 0
    BY <2>1, <1>1, WIsNat DEF Carry, Limb
  <2> QED BY <2>1, <2>2, <1>1, <1>4, WIsNat DEF s, Limb
<1>5. CASE s >= W
  <2>1. AddLimb(x, y, c) = s - W
    BY <1>1, <1>2, <1>3, <1>5, WIsNat
  <2>2. s - W < x \/ (c = 1 /\ s - W = x)
    BY <1>1, WIsNat DEF s, Limb
  <2>3. Carry(x, y, c) = 1
    BY <2>1, <2>2, <1>1, WIsNat DEF Carry, Limb
  <2>4. s - W \in Limb
    BY <1>1, <1>5, WIsNat DEF Limb
  <2> QED BY <2>1, <2>3, <2>4, <1>1, WIsNat DEF s, Limb
<1> QED BY <1>1, <1>4, <1>5, WIsNat

LEMMA SubLimbExact ==
  ASSUME NEW x \in Limb, NEW y \in Limb, NEW b \in {0, 1}
  PROVE  /\ SubLimb(x, y, b) \in Limb
         /\ Borrow(x, y, b) \in {0, 1}
         /\ y + SubLimb(x, y, b) + b = x + W * Borrow(x, y, b)
<1>1. WithBorrow(y, b) = IF y + b < W THEN y + b ELSE 0
  <2>1. y + b \in Int /\ 0 <= y + b /\ y + b <= W
    BY WIsNat DEF Limb
  <2>2. (y + b) % W = IF y + b < W THEN y + b ELSE y + b - W
    <3> DEFINE z == y + b
    <3> HIDE DEF z
    <3>1. z \in Int /\ 0 <= z /\ z < 2 * W /\ 0 - W <= z
      BY <2>1, WIsNat DEF z
    <3>2. z % W = IF z < W THEN z ELSE z - W
      BY <3>1, WIsNat, ModNear
    <3>3. z = y + b
      BY DEF z
    <3> QED BY <3>1, <3>2, <3>3, WIsNat DEF Limb
  <2> QED BY <2>1, <2>2, WIsNat DEF WithBorrow
<1> DEFINE t == WithBorrow(y, b)
<1>2. t \in Limb
  BY <1>1, WIsNat DEF Limb
<1>3. (x - t) % W = IF x - t < 0 THEN x - t + W ELSE x - t
  <2>1. x - t \in Int /\ 0 - W <= x - t /\ x - t < W
    BY <1>2, WIsNat DEF Limb
  <2> HIDE DEF t
  <2> QED BY <2>1, WIsNat, ModNear
<1>4. SubLimb(x, y, b) = (x - t) % W
  BY DEF SubLimb
<1> HIDE DEF t
<1>5. CASE y + b < W
  <2>1. t = y + b
    BY <1>1, <1>5 DEF t
  <2>2. ~(b = 1 /\ y = W - 1)
    BY <1>5, WIsNat DEF Limb
  <2>3. Borrow(x, y, b) = IF x < t THEN 1 ELSE 0
    BY <2>2 DEF Borrow, t
  <2>4. CASE x < t
    BY <2>1, <2>3, <2>4, <1>2, <1>3, <1>4, WIsNat DEF Limb
  <2>5. CASE x >= t
    BY <2>1, <2>3, <2>5, <1>2, <1>3, <1>4, WIsNat DEF Limb
  <2> QED BY <2>4, <2>5, <1>2, WIsNat DEF Limb
<1>6. CASE y + b >= W
  <2>1. b = 1 /\ y = W - 1 /\ t = 0
    BY <1>1, <1>6, WIsNat DEF Limb, t
  <2>2. Borrow(x, y, b) = 1
    BY <2>1 DEF Borrow
  <2>3. SubLimb(x, y, b) = x
    BY <2>1, <1>3, <1>4, WIsNat DEF Limb
  <2> QED BY <2>1, <2>2, <2>3, WIsNat DEF Limb
<1> QED BY <1>5, <1>6, WIsNat DEF Limb

LEMMA Typing ==
  ASSUME NEW a \in U256
  PROVE  /\ a.lo1 \in Limb /\ a.lo2 \in Limb /\ a.hi1 \in Limb /\ a.hi2 \in Limb
         /\ a = [lo1 |-> a.lo1, lo2 |-> a.lo2, hi1 |-> a.hi1, hi2 |-> a.hi2]
BY DEF U256

-----------------------------------------------------------------------------
(* Values *)

LEMMA Digit ==
  ASSUME NEW d \in Nat, NEW m \in Nat, d > 0, m > 0,
         NEW x \in 0 .. d - 1, NEW h \in 0 .. m - 1
  PROVE  x + d * h \in 0 .. d * m - 1
<1>1. d * h \in Nat /\ d * m \in Nat
  OBVIOUS
<1>2. d * h <= d * (m - 1)
  OBVIOUS
<1>3. d * (m - 1) = d * m - d
  OBVIOUS
<1> QED BY <1>1, <1>2, <1>3

LEMMA Lexicographic ==
  ASSUME NEW d \in Nat, d > 0, NEW x \in 0 .. d - 1, NEW y \in 0 .. d - 1,
         NEW g \in Int, NEW h \in Int
  PROVE  /\ x + d * g < y + d * h <=> (g < h \/ (g = h /\ x < y))
         /\ x + d * g = y + d * h <=> g = h /\ x = y
<1>1. ASSUME NEW u \in 0 .. d - 1, NEW v \in 0 .. d - 1, NEW i \in Int, NEW j \in Int, i < j
      PROVE  u + d * i < v + d * j
  <2>1. d * (i + 1) <= d * j
    BY <1>1
  <2>2. d * (i + 1) = d * i + d
    OBVIOUS
  <2>3. d * i \in Int /\ d * j \in Int
    OBVIOUS
  <2> QED BY <2>1, <2>2, <2>3
<1>2. CASE g < h
  BY <1>1, <1>2
<1>3. CASE h < g
  <2>1. y + d * h < x + d * g
    BY <1>1, <1>3
  <2>2. d * g \in Int /\ d * h \in Int
    OBVIOUS
  <2> QED BY <1>3, <2>1, <2>2
<1>4. CASE g = h
  BY <1>4
<1> QED BY <1>2, <1>3, <1>4

LEMMA ModulusIsNat == Modulus \in Nat /\ Modulus > 0
<1>1. W \in Nat /\ W > 0
  BY WIsNat
<1>2. W * W \in Nat /\ W * W > 0
  BY <1>1
<1>3. W * (W * W) \in Nat /\ W * (W * W) > 0
  BY <1>1, <1>2
<1>4. W * (W * (W * W)) \in Nat /\ W * (W * (W * W)) > 0
  BY <1>1, <1>3
<1> QED BY <1>4 DEF Modulus

\* Four limbs hold the numbers below the modulus.
LEMMA ValRange ==
  ASSUME NEW a \in U256
  PROVE  Val(a) \in 0 .. Modulus - 1
<1> DEFINE v1 == a.hi1 + W * a.hi2
           v2 == a.lo2 + W * v1
<1>1. W \in Nat /\ W > 0 /\ W * W \in Nat /\ W * W > 0
  BY WIsNat
<1>2. W * (W * W) \in Nat /\ W * (W * W) > 0
  BY <1>1
<1>3. /\ a.lo1 \in 0 .. W - 1 /\ a.lo2 \in 0 .. W - 1
      /\ a.hi1 \in 0 .. W - 1 /\ a.hi2 \in 0 .. W - 1
  BY Typing DEF Limb
<1>4. v1 \in 0 .. W * W - 1
  BY <1>1, <1>3, Digit
<1> HIDE DEF v1
<1>5. v2 \in 0 .. W * (W * W) - 1
  BY <1>1, <1>3, <1>4, Digit
<1> HIDE DEF v2
<1>6. a.lo1 + W * v2 \in 0 .. W * (W * (W * W)) - 1
  BY <1>1, <1>2, <1>3, <1>5, Digit
<1> QED BY <1>6 DEF Val, Modulus, v1, v2

LEMMA ZeroIsU256 == Zero \in U256 /\ Val(Zero) = 0
<1>1. 0 \in Limb
  BY WIsNat DEF Limb
<1>2. W * 0 = 0
  BY WIsNat
<1> QED BY <1>1, <1>2 DEF Zero, U256, Val

\* The order of the limbs is the order of the numbers, and equal numbers have
\* equal limbs.
THEOREM LtIsLess ==
  ASSUME NEW a \in U256, NEW b \in U256
  PROVE  Lt(a, b) <=> Val(a) < Val(b)
<1> DEFINE a1 == a.hi1 + W * a.hi2
           a2 == a.lo2 + W * a1
           b1 == b.hi1 + W * b.hi2
           b2 == b.lo2 + W * b1
<1>1. W \in Nat /\ W > 0
  BY WIsNat
<1>2. /\ a.lo1 \in 0 .. W - 1 /\ a.lo2 \in 0 .. W - 1
      /\ a.hi1 \in 0 .. W - 1 /\ a.hi2 \in 0 .. W - 1
      /\ b.lo1 \in 0 .. W - 1 /\ b.lo2 \in 0 .. W - 1
      /\ b.hi1 \in 0 .. W - 1 /\ b.hi2 \in 0 .. W - 1
  BY Typing DEF Limb
<1>3. a1 \in Int /\ b1 \in Int
  BY <1>1, <1>2
<1>4. /\ a1 < b1 <=> (a.hi2 < b.hi2 \/ (a.hi2 = b.hi2 /\ a.hi1 < b.hi1))
      /\ a1 = b1 <=> a.hi2 = b.hi2 /\ a.hi1 = b.hi1
  <2> DEFINE g == a.hi2
             h == b.hi2
             x == a.hi1
             y == b.hi1
  <2>1. g \in Int /\ h \in Int /\ x \in 0 .. W - 1 /\ y \in 0 .. W - 1
    BY <1>2
  <2> HIDE DEF g, h, x, y
  <2>2. /\ x + W * g < y + W * h <=> (g < h \/ (g = h /\ x < y))
        /\ x + W * g = y + W * h <=> g = h /\ x = y
    BY <1>1, <2>1, Lexicographic
  <2> QED BY <2>2 DEF g, h, x, y
<1> HIDE DEF a1, b1
<1>5. a2 \in Int /\ b2 \in Int
  BY <1>1, <1>2, <1>3
<1>6. /\ a2 < b2 <=> (a1 < b1 \/ (a1 = b1 /\ a.lo2 < b.lo2))
      /\ a2 = b2 <=> a1 = b1 /\ a.lo2 = b.lo2
  BY <1>1, <1>2, <1>3, Lexicographic
<1> HIDE DEF a2, b2
<1>7. a.lo1 + W * a2 < b.lo1 + W * b2 <=> (a2 < b2 \/ (a2 = b2 /\ a.lo1 < b.lo1))
  BY <1>1, <1>2, <1>5, Lexicographic
<1>8. Val(a) = a.lo1 + W * a2 /\ Val(b) = b.lo1 + W * b2
  BY DEF Val, a1, a2, b1, b2
<1> QED BY <1>4, <1>6, <1>7, <1>8 DEF Lt

-----------------------------------------------------------------------------
(* Sums and differences *)

\* The limbs of r are the sums of those of x and y, each with the carry of the
\* limb before.
Sums(x, y, r, c1, c2, c3, c4) ==
  /\ x.lo1 + y.lo1 + 0 = r.lo1 + W * c1
  /\ x.lo2 + y.lo2 + c1 = r.lo2 + W * c2
  /\ x.hi1 + y.hi1 + c2 = r.hi1 + W * c3
  /\ x.hi2 + y.hi2 + c3 = r.hi2 + W * c4

\* Only what the last limb carries is lost.
LEMMA SumChain ==
  ASSUME NEW x \in U256, NEW y \in U256, NEW r \in U256,
         NEW c1 \in {0, 1}, NEW c2 \in {0, 1}, NEW c3 \in {0, 1}, NEW c4 \in {0, 1},
         Sums(x, y, r, c1, c2, c3, c4)
  PROVE  Val(x) + Val(y) = Val(r) + Modulus * c4
<1> DEFINE d == W
           x1 == x.lo1  x2 == x.lo2  x3 == x.hi1  x4 == x.hi2
           y1 == y.lo1  y2 == y.lo2  y3 == y.hi1  y4 == y.hi2
           r1 == r.lo1  r2 == r.lo2  r3 == r.hi1  r4 == r.hi2
<1>1. /\ d \in Int
      /\ x1 \in Int /\ x2 \in Int /\ x3 \in Int /\ x4 \in Int
      /\ y1 \in Int /\ y2 \in Int /\ y3 \in Int /\ y4 \in Int
      /\ r1 \in Int /\ r2 \in Int /\ r3 \in Int /\ r4 \in Int
  BY Typing, WIsNat DEF Limb
<1>2. x1 + y1 + 0 = r1 + d * c1 /\ x2 + y2 + c1 = r2 + d * c2
  BY DEF Sums
<1>3. x3 + y3 + c2 = r3 + d * c3 /\ x4 + y4 + c3 = r4 + d * c4
  BY DEF Sums
<1>4. /\ Val(x) = x1 + d * (x2 + d * (x3 + d * x4))
      /\ Val(y) = y1 + d * (y2 + d * (y3 + d * y4))
      /\ Val(r) = r1 + d * (r2 + d * (r3 + d * r4))
      /\ Modulus = d * (d * (d * d))
  BY Zenon DEF Val, Modulus
<1> HIDE DEF d, x1, x2, x3, x4, y1, y2, y3, y4, r1, r2, r3, r4
<1>5. x3 + d * x4 + (y3 + d * y4) + c2 = r3 + d * r4 + (d * d) * c4
  <2>1. d * x4 + d * y4 + d * c3 = d * (x4 + y4 + c3)
    BY <1>1
  <2>2. d * (r4 + d * c4) = d * r4 + (d * d) * c4
    BY <1>1
  <2> QED BY <1>1, <1>3, <2>1, <2>2
<1> DEFINE u == x3 + d * x4
           v == y3 + d * y4
           t == r3 + d * r4
           e == (d * d) * c4
<1>6. u \in Int /\ v \in Int /\ t \in Int /\ e \in Int /\ u + v + c2 = t + e
  BY <1>1, <1>5
<1> HIDE DEF u, v, t, e
<1>7. x2 + d * u + (y2 + d * v) + c1 = r2 + d * t + d * e
  <2>1. d * u + d * v + d * c2 = d * (u + v + c2)
    BY <1>1, <1>6
  <2>2. d * (t + e) = d * t + d * e
    BY <1>1, <1>6
  <2> QED BY <1>1, <1>2, <1>6, <2>1, <2>2
<1> DEFINE uu == x2 + d * u
           vv == y2 + d * v
           tt == r2 + d * t
           ee == d * e
<1>8. uu \in Int /\ vv \in Int /\ tt \in Int /\ ee \in Int /\ uu + vv + c1 = tt + ee
  BY <1>1, <1>6, <1>7
<1> HIDE DEF uu, vv, tt, ee
<1>9. x1 + d * uu + (y1 + d * vv) = r1 + d * tt + d * ee
  <2>1. d * uu + d * vv + d * c1 = d * (uu + vv + c1)
    BY <1>1, <1>8
  <2>2. d * (tt + ee) = d * tt + d * ee
    BY <1>1, <1>8
  <2> QED BY <1>1, <1>2, <1>8, <2>1, <2>2
<1>10. d * ee = d * (d * (d * d)) * c4
  BY <1>1 DEF ee, e
<1> QED BY <1>4, <1>9, <1>10 DEF uu, vv, tt, u, v, t

LEMMA AddExact ==
  ASSUME NEW a \in U256, NEW b \in U256
  PROVE  /\ Add(a, b) \in U256
         /\ \E c \in {0, 1} : Val(a) + Val(b) = Val(Add(a, b)) + Modulus * c
<1> DEFINE c1 == Carry(a.lo1, b.lo1, 0)
           c2 == Carry(a.lo2, b.lo2, c1)
           c3 == Carry(a.hi1, b.hi1, c2)
           c4 == Carry(a.hi2, b.hi2, c3)
           r == Add(a, b)
<1>1. /\ a.lo1 \in Limb /\ a.lo2 \in Limb /\ a.hi1 \in Limb /\ a.hi2 \in Limb
      /\ b.lo1 \in Limb /\ b.lo2 \in Limb /\ b.hi1 \in Limb /\ b.hi2 \in Limb
  BY Typing
<1>2. /\ r.lo1 = AddLimb(a.lo1, b.lo1, 0) /\ r.lo2 = AddLimb(a.lo2, b.lo2, c1)
      /\ r.hi1 = AddLimb(a.hi1, b.hi1, c2) /\ r.hi2 = AddLimb(a.hi2, b.hi2, c3)
      /\ r = [lo1 |-> r.lo1, lo2 |-> r.lo2, hi1 |-> r.hi1, hi2 |-> r.hi2]
  BY Zenon DEF Add
<1> HIDE DEF r
<1>3. c1 \in {0, 1} /\ r.lo1 \in Limb /\ a.lo1 + b.lo1 + 0 = r.lo1 + W * c1
  BY <1>1, <1>2, AddLimbExact
<1> HIDE DEF c1
<1>4. c2 \in {0, 1} /\ r.lo2 \in Limb /\ a.lo2 + b.lo2 + c1 = r.lo2 + W * c2
  BY <1>1, <1>2, <1>3, AddLimbExact
<1> HIDE DEF c2
<1>5. c3 \in {0, 1} /\ r.hi1 \in Limb /\ a.hi1 + b.hi1 + c2 = r.hi1 + W * c3
  BY <1>1, <1>2, <1>4, AddLimbExact
<1> HIDE DEF c3
<1>6. c4 \in {0, 1} /\ r.hi2 \in Limb /\ a.hi2 + b.hi2 + c3 = r.hi2 + W * c4
  BY <1>1, <1>2, <1>5, AddLimbExact
<1> HIDE DEF c4
<1>7. r \in U256
  BY <1>2, <1>3, <1>4, <1>5, <1>6, Zenon DEF U256
<1>8. Sums(a, b, r, c1, c2, c3, c4)
  BY <1>3, <1>4, <1>5, <1>6, Zenon DEF Sums
<1>9. Val(a) + Val(b) = Val(r) + Modulus * c4
  BY <1>3, <1>4, <1>5, <1>6, <1>7, <1>8, SumChain
<1> QED BY <1>6, <1>7, <1>9 DEF r

LEMMA SubExact ==
  ASSUME NEW a \in U256, NEW b \in U256
  PROVE  /\ Sub(a, b) \in U256
         /\ \E c \in {0, 1} : Val(b) + Val(Sub(a, b)) = Val(a) + Modulus * c
<1> DEFINE b1 == Borrow(a.lo1, b.lo1, 0)
           b2 == Borrow(a.lo2, b.lo2, b1)
           b3 == Borrow(a.hi1, b.hi1, b2)
           b4 == Borrow(a.hi2, b.hi2, b3)
           r == Sub(a, b)
<1>1. /\ a.lo1 \in Limb /\ a.lo2 \in Limb /\ a.hi1 \in Limb /\ a.hi2 \in Limb
      /\ b.lo1 \in Limb /\ b.lo2 \in Limb /\ b.hi1 \in Limb /\ b.hi2 \in Limb
  BY Typing
<1>2. /\ r.lo1 = SubLimb(a.lo1, b.lo1, 0) /\ r.lo2 = SubLimb(a.lo2, b.lo2, b1)
      /\ r.hi1 = SubLimb(a.hi1, b.hi1, b2) /\ r.hi2 = SubLimb(a.hi2, b.hi2, b3)
      /\ r = [lo1 |-> r.lo1, lo2 |-> r.lo2, hi1 |-> r.hi1, hi2 |-> r.hi2]
  BY Zenon DEF Sub
<1> HIDE DEF r
<1>3. b1 \in {0, 1} /\ r.lo1 \in Limb /\ b.lo1 + r.lo1 + 0 = a.lo1 + W * b1
  BY <1>1, <1>2, SubLimbExact
<1> HIDE DEF b1
<1>4. b2 \in {0, 1} /\ r.lo2 \in Limb /\ b.lo2 + r.lo2 + b1 = a.lo2 + W * b2
  BY <1>1, <1>2, <1>3, SubLimbExact
<1> HIDE DEF b2
<1>5. b3 \in {0, 1} /\ r.hi1 \in Limb /\ b.hi1 + r.hi1 + b2 = a.hi1 + W * b3
  BY <1>1, <1>2, <1>4, SubLimbExact
<1> HIDE DEF b3
<1>6. b4 \in {0, 1} /\ r.hi2 \in Limb /\ b.hi2 + r.hi2 + b3 = a.hi2 + W * b4
  BY <1>1, <1>2, <1>5, SubLimbExact
<1> HIDE DEF b4
<1>7. r \in U256
  BY <1>2, <1>3, <1>4, <1>5, <1>6, Zenon DEF U256
<1>8. Sums(b, r, a, b1, b2, b3, b4)
  BY <1>3, <1>4, <1>5, <1>6, Zenon DEF Sums
<1>9. Val(b) + Val(r) = Val(a) + Modulus * b4
  BY <1>3, <1>4, <1>5, <1>6, <1>7, <1>8, SumChain
<1> QED BY <1>6, <1>7, <1>9 DEF r

\* What safeAdd looks for is there exactly when the sum is too large for four
\* limbs (sdk.ts:733-741), and the sum that passes is exact.
THEOREM SafeAddExact ==
  ASSUME NEW a \in U256, NEW b \in U256
  PROVE  /\ Lt(Add(a, b), a) <=> Val(a) + Val(b) >= Modulus
         /\ ~Lt(Add(a, b), a) => Val(Add(a, b)) = Val(a) + Val(b)
<1> DEFINE u == Val(a)
           v == Val(b)
           t == Val(Add(a, b))
           z == Modulus
<1>1. PICK c \in {0, 1} : u + v = t + z * c
  BY AddExact
<1>2. z \in Nat /\ u \in 0 .. z - 1 /\ v \in 0 .. z - 1 /\ t \in 0 .. z - 1
  BY AddExact, ValRange, ModulusIsNat
<1>3. Lt(Add(a, b), a) <=> t < u
  BY AddExact, LtIsLess
<1> HIDE DEF u, v, t, z
<1>4. CASE c = 0
  <2>1. u + v = t
    BY <1>1, <1>2, <1>4
  <2>2. ~(t < u) /\ ~(u + v >= z)
    BY <2>1, <1>2
  <2> QED BY <1>3, <2>1, <2>2 DEF u, v, t, z
<1>5. CASE c = 1
  <2>1. u + v = t + z
    BY <1>1, <1>2, <1>5
  <2>2. t < u /\ u + v >= z
    BY <2>1, <1>2
  <2> QED BY <1>3, <2>2 DEF u, v, t, z
<1> QED BY <1>4, <1>5

\* What safeSub looks for is there exactly when there is something to take the
\* difference from (sdk.ts:743-749), and then the difference is exact.
THEOREM SafeSubExact ==
  ASSUME NEW a \in U256, NEW b \in U256
  PROVE  /\ Gte(a, b) <=> Val(a) >= Val(b)
         /\ Gte(a, b) => Val(Sub(a, b)) = Val(a) - Val(b)
<1> DEFINE u == Val(a)
           v == Val(b)
           t == Val(Sub(a, b))
           z == Modulus
<1>1. PICK c \in {0, 1} : v + t = u + z * c
  BY SubExact
<1>2. z \in Nat /\ u \in 0 .. z - 1 /\ v \in 0 .. z - 1 /\ t \in 0 .. z - 1
  BY SubExact, ValRange, ModulusIsNat
<1>3. Lt(b, a) <=> v < u
  BY LtIsLess
<1>4. u = v => a = b
  <2>1. ~Lt(a, b) /\ ~Lt(b, a) => a = b
    <3> DEFINE p1 == a.lo1  p2 == a.lo2  p3 == a.hi1  p4 == a.hi2
               q1 == b.lo1  q2 == b.lo2  q3 == b.hi1  q4 == b.hi2
    <3>1. /\ p1 \in Int /\ p2 \in Int /\ p3 \in Int /\ p4 \in Int
          /\ q1 \in Int /\ q2 \in Int /\ q3 \in Int /\ q4 \in Int
      BY Typing, WIsNat DEF Limb
    <3>2. a = [lo1 |-> p1, lo2 |-> p2, hi1 |-> p3, hi2 |-> p4]
      BY Typing, Zenon
    <3>3. b = [lo1 |-> q1, lo2 |-> q2, hi1 |-> q3, hi2 |-> q4]
      BY Typing, Zenon
    <3>4. /\ Lt(a, b) <=> \/ p4 < q4
                          \/ p4 = q4 /\ p3 < q3
                          \/ p4 = q4 /\ p3 = q3 /\ p2 < q2
                          \/ p4 = q4 /\ p3 = q3 /\ p2 = q2 /\ p1 < q1
          /\ Lt(b, a) <=> \/ q4 < p4
                          \/ q4 = p4 /\ q3 < p3
                          \/ q4 = p4 /\ q3 = p3 /\ q2 < p2
                          \/ q4 = p4 /\ q3 = p3 /\ q2 = p2 /\ q1 < p1
      BY DEF Lt
    <3> HIDE DEF p1, p2, p3, p4, q1, q2, q3, q4
    <3>5. ~Lt(a, b) /\ ~Lt(b, a) => p1 = q1 /\ p2 = q2 /\ p3 = q3 /\ p4 = q4
      BY <3>1, <3>4
    <3> QED BY <3>2, <3>3, <3>5, Zenon
  <2>2. Lt(a, b) <=> u < v
    BY LtIsLess
  <2> HIDE DEF u, v
  <2>3. u = v => ~(u < v) /\ ~(v < u)
    BY <1>2
  <2> QED BY <1>3, <2>1, <2>2, <2>3
<1>5. a = b => u = v
  OBVIOUS
<1> HIDE DEF u, v, t, z
<1>6. Gte(a, b) <=> u >= v
  BY <1>2, <1>3, <1>4, <1>5 DEF Gte
<1>7. CASE c = 0
  <2>1. t = u - v
    BY <1>1, <1>2, <1>7
  <2> QED BY <1>6, <2>1 DEF u, v, t
<1>8. CASE c = 1
  <2>1. ~(u >= v)
    BY <1>1, <1>2, <1>8
  <2> QED BY <1>6, <2>1 DEF u, v, t
<1> QED BY <1>7, <1>8

-----------------------------------------------------------------------------
(* Products by a factor of half a limb *)

LEMMA HalfOfLimb ==
  ASSUME NEW x \in Limb
  PROVE  /\ Low(x) \in 0 .. H - 1 /\ High(x) \in 0 .. H - 1
         /\ x = Low(x) + H * High(x)
<1> DEFINE q == x \div H
           r == x % H
<1>1. x \in Int /\ 0 <= x /\ x < W /\ H \in Nat /\ H > 1
  BY HalfLimb, WIsNat DEF Limb
<1>2. r \in 0 .. H - 1 /\ q \in Int /\ x = H * q + r
  BY <1>1, DivMod
<1> HIDE DEF q, r
<1>3. q >= 0
  <2>1. SUFFICES ASSUME q <= -1 PROVE FALSE
    BY <1>2
  <2>2. H * q <= H * (-1)
    BY <1>1, <1>2, <2>1
  <2> QED BY <1>1, <1>2, <2>2
<1>4. q < H
  <2>1. SUFFICES ASSUME q >= H PROVE FALSE
    BY <1>1, <1>2
  <2>2. H * q >= H * H
    BY <1>1, <1>2, <2>1
  <2> QED BY <1>1, <1>2, <2>2 DEF W
<1> QED BY <1>1, <1>2, <1>3, <1>4 DEF Low, High, q, r

\* With a factor below H a column fits in a limb.
LEMMA ColumnFits ==
  ASSUME NEW n \in 0 .. H - 1, NEW x \in 0 .. H - 1, NEW y \in 0 .. H - 1, NEW below \in Limb
  PROVE  /\ Column(x, n, y, 0, below) \in Limb
         /\ Column(x, n, y, 0, below) = x * n + High(below)
<1> DEFINE c == High(below)
           s == x * n + c
<1>1. c \in 0 .. H - 1
  BY HalfOfLimb
<1> HIDE DEF c
<1>2. H \in Nat /\ H > 1 /\ x \in Int /\ n \in Int /\ y * 0 = 0
  BY HalfLimb
<1>3. x * n \in Nat /\ x * n <= (H - 1) * (H - 1)
  <2>1. x * n <= x * (H - 1)
    BY <1>2
  <2>2. x * (H - 1) <= (H - 1) * (H - 1)
    BY <1>2
  <2>3. x * n >= 0
    BY <1>2
  <2> QED BY <1>2, <2>1, <2>2, <2>3
<1>4. (H - 1) * (H - 1) + (H - 1) < W
  BY <1>2 DEF W
<1>5. s \in Int /\ 0 <= s /\ s < W
  BY <1>1, <1>2, <1>3, <1>4, WIsNat
<1> HIDE DEF s
<1>6. s % W = s
  BY <1>5, WIsNat, ModNear
<1>7. x * n + y * 0 + c = s
  BY <1>1, <1>2, <1>3 DEF s
<1>8. Column(x, n, y, 0, below) = s % W
  BY <1>7 DEF Column, c
<1>9. s \in Limb
  BY <1>5, WIsNat DEF Limb
<1> QED BY <1>6, <1>8, <1>9, Zenon DEF s, c

\* Two columns are one limb of the product and what it carries.
LEMMA LimbTimes ==
  ASSUME NEW n \in 0 .. H - 1, NEW x \in Limb, NEW y \in 0 .. H - 1, NEW below \in Limb,
         NEW q0, q0 = Column(Low(x), n, y, 0, below),
         NEW q1, q1 = Column(High(x), n, Low(x), 0, q0)
  PROVE  /\ q0 \in Limb /\ q1 \in Limb
         /\ Join(q0, q1) \in Limb
         /\ x * n + High(below) = Join(q0, q1) + W * High(q1)
<1> DEFINE c == High(below)
           xl == Low(x)   xh == High(x)
           l0 == Low(q0)  h0 == High(q0)
           l1 == Low(q1)  h1 == High(q1)
<1>1. /\ xl \in 0 .. H - 1 /\ xh \in 0 .. H - 1 /\ x = xl + H * xh
      /\ c \in 0 .. H - 1
  BY HalfOfLimb
<1>2. q0 \in Limb /\ q0 = xl * n + c
  BY <1>1, ColumnFits
<1>3. q1 \in Limb /\ q1 = xh * n + h0
  BY <1>1, <1>2, ColumnFits
<1>4. /\ l0 \in 0 .. H - 1 /\ h0 \in 0 .. H - 1 /\ q0 = l0 + H * h0
      /\ l1 \in 0 .. H - 1 /\ h1 \in 0 .. H - 1 /\ q1 = l1 + H * h1
  BY <1>2, <1>3, HalfOfLimb
<1> HIDE DEF c, xl, xh, l0, h0, l1, h1
<1>5. H \in Nat /\ H > 0 /\ n \in Int
  BY HalfLimb
<1>6. /\ xl \in Int /\ xh \in Int /\ c \in Int
      /\ l0 \in Int /\ h0 \in Int /\ l1 \in Int /\ h1 \in Int
  BY <1>1, <1>4, <1>5
<1>7. l0 + H * l1 \in Limb
  BY <1>4, <1>5, Digit DEF W, Limb
<1>8. x * n + c = l0 + H * l1 + W * h1
  <2>1. x * n = xl * n + H * (xh * n)
    BY <1>1, <1>5, <1>6
  <2>2. H * (xh * n) + H * h0 = H * (xh * n + h0)
    BY <1>5, <1>6
  <2>3. xh * n + h0 = l1 + H * h1
    BY <1>3, <1>4
  <2>4. H * (l1 + H * h1) = H * l1 + W * h1
    BY <1>5, <1>6 DEF W
  <2>5. xl * n + c = l0 + H * h0
    BY <1>2, <1>4
  <2> DEFINE a == xl * n
             b == H * (xh * n)
             e == H * h0
             f == H * l1
             g == W * h1
  <2>6. a \in Int /\ b \in Int /\ e \in Int /\ f \in Int /\ g \in Int
    BY <1>5, <1>6, WIsNat
  <2>7. b + e = f + g
    BY <2>2, <2>3, <2>4
  <2> HIDE DEF a, b, e, f, g
  <2>8. a + b + c = l0 + f + g
    <3>1. a + c = l0 + e
      BY <2>5 DEF a, e
    <3> QED BY <1>6, <2>6, <2>7, <3>1
  <2> QED BY <2>1, <2>8 DEF a, b, f, g
<1> QED BY <1>2, <1>3, <1>7, <1>8 DEF Join, c, l0, l1, h1

\* The limbs of r are the products of those of x by n, each with the carry of
\* the limb before.
Products(x, n, r, c1, c2, c3, c4) ==
  /\ x.lo1 * n + 0 = r.lo1 + W * c1
  /\ x.lo2 * n + c1 = r.lo2 + W * c2
  /\ x.hi1 * n + c2 = r.hi1 + W * c3
  /\ x.hi2 * n + c3 = r.hi2 + W * c4

LEMMA ProductChain ==
  ASSUME NEW x \in U256, NEW n \in Nat, NEW r \in U256,
         NEW c1 \in Nat, NEW c2 \in Nat, NEW c3 \in Nat, NEW c4 \in Nat,
         Products(x, n, r, c1, c2, c3, c4)
  PROVE  Val(x) * n = Val(r) + Modulus * c4
<1> DEFINE d == W
           x1 == x.lo1  x2 == x.lo2  x3 == x.hi1  x4 == x.hi2
           r1 == r.lo1  r2 == r.lo2  r3 == r.hi1  r4 == r.hi2
<1>1. /\ d \in Int
      /\ x1 \in Int /\ x2 \in Int /\ x3 \in Int /\ x4 \in Int
      /\ r1 \in Int /\ r2 \in Int /\ r3 \in Int /\ r4 \in Int
  BY Typing, WIsNat DEF Limb
<1>2. x1 * n + 0 = r1 + d * c1 /\ x2 * n + c1 = r2 + d * c2
  BY DEF Products
<1>3. x3 * n + c2 = r3 + d * c3 /\ x4 * n + c3 = r4 + d * c4
  BY DEF Products
<1>4. /\ Val(x) = x1 + d * (x2 + d * (x3 + d * x4))
      /\ Val(r) = r1 + d * (r2 + d * (r3 + d * r4))
      /\ Modulus = d * (d * (d * d))
  BY Zenon DEF Val, Modulus
<1> HIDE DEF d, x1, x2, x3, x4, r1, r2, r3, r4
<1>5. (x3 + d * x4) * n + c2 = r3 + d * r4 + (d * d) * c4
  <2>1. (x3 + d * x4) * n + d * c3 = x3 * n + d * (x4 * n + c3)
    BY <1>1
  <2>2. d * (r4 + d * c4) = d * r4 + (d * d) * c4
    BY <1>1
  <2> QED BY <1>1, <1>3, <2>1, <2>2
<1> DEFINE u == x3 + d * x4
           t == r3 + d * r4
           e == (d * d) * c4
<1>6. u \in Int /\ t \in Int /\ e \in Int /\ u * n + c2 = t + e
  BY <1>1, <1>5
<1> HIDE DEF u, t, e
<1>7. (x2 + d * u) * n + c1 = r2 + d * t + d * e
  <2>1. (x2 + d * u) * n + d * c2 = x2 * n + d * (u * n + c2)
    BY <1>1, <1>6
  <2>2. d * (t + e) = d * t + d * e
    BY <1>1, <1>6
  <2> QED BY <1>1, <1>2, <1>6, <2>1, <2>2
<1> DEFINE uu == x2 + d * u
           tt == r2 + d * t
           ee == d * e
<1>8. uu \in Int /\ tt \in Int /\ ee \in Int /\ uu * n + c1 = tt + ee
  BY <1>1, <1>6, <1>7
<1> HIDE DEF uu, tt, ee
<1>9. (x1 + d * uu) * n = r1 + d * tt + d * ee
  <2>1. (x1 + d * uu) * n + d * c1 = x1 * n + d * (uu * n + c1)
    BY <1>1, <1>8
  <2>2. d * (tt + ee) = d * tt + d * ee
    BY <1>1, <1>8
  <2> QED BY <1>1, <1>2, <1>8, <2>1, <2>2
<1>10. d * ee = d * (d * (d * d)) * c4
  BY <1>1 DEF ee, e
<1> QED BY <1>4, <1>9, <1>10 DEF uu, tt, u, t

\* By a factor of half a limb mulU64 loses nothing but what no four limbs hold.
THEOREM MulByHalfExact ==
  ASSUME NEW a \in U256, NEW n \in 0 .. H - 1
  PROVE  /\ MulU64(a, n) \in U256
         /\ Val(a) * n < Modulus => Val(MulU64(a, n)) = Val(a) * n
<1> DEFINE p0 == Column(Low(a.lo1), n, 0, 0, 0)
           p1 == Column(High(a.lo1), n, Low(a.lo1), 0, p0)
           p2 == Column(Low(a.lo2), n, High(a.lo1), 0, p1)
           p3 == Column(High(a.lo2), n, Low(a.lo2), 0, p2)
           p4 == Column(Low(a.hi1), n, High(a.lo2), 0, p3)
           p5 == Column(High(a.hi1), n, Low(a.hi1), 0, p4)
           p6 == Column(Low(a.hi2), n, High(a.hi1), 0, p5)
           p7 == Column(High(a.hi2), n, Low(a.hi2), 0, p6)
           r == MulU64(a, n)
<1>1. Low(n) = n /\ High(n) = 0 /\ High(0) = 0
  <2>1. n \in Limb /\ 0 \in Limb
    BY WIsNat, HalfLimb DEF Limb
  <2>2. ASSUME NEW x \in 0 .. H - 1 PROVE x \div H = 0 /\ x % H = x
    BY <2>2, HalfLimb
  <2> QED BY <2>2, HalfLimb DEF Low, High
<1>2. /\ r.lo1 = Join(p0, p1) /\ r.lo2 = Join(p2, p3)
      /\ r.hi1 = Join(p4, p5) /\ r.hi2 = Join(p6, p7)
      /\ r = [lo1 |-> r.lo1, lo2 |-> r.lo2, hi1 |-> r.hi1, hi2 |-> r.hi2]
  BY <1>1, Zenon DEF MulU64
<1>3. /\ a.lo1 \in Limb /\ a.lo2 \in Limb /\ a.hi1 \in Limb /\ a.hi2 \in Limb
      /\ 0 \in Limb /\ 0 \in 0 .. H - 1
  BY Typing, WIsNat, HalfLimb DEF Limb
<1>4. /\ High(a.lo1) \in 0 .. H - 1 /\ High(a.lo2) \in 0 .. H - 1
      /\ High(a.hi1) \in 0 .. H - 1
  BY <1>3, HalfOfLimb
<1> HIDE DEF r
<1>5. /\ p1 \in Limb /\ r.lo1 \in Limb
      /\ a.lo1 * n + 0 = r.lo1 + W * High(p1)
  BY <1>1, <1>2, <1>3, LimbTimes
<1> HIDE DEF p0, p1
<1>6. /\ p3 \in Limb /\ r.lo2 \in Limb
      /\ a.lo2 * n + High(p1) = r.lo2 + W * High(p3)
  BY <1>2, <1>3, <1>4, <1>5, LimbTimes
<1> HIDE DEF p2, p3
<1>7. /\ p5 \in Limb /\ r.hi1 \in Limb
      /\ a.hi1 * n + High(p3) = r.hi1 + W * High(p5)
  BY <1>2, <1>3, <1>4, <1>6, LimbTimes
<1> HIDE DEF p4, p5
<1>8. /\ p7 \in Limb /\ r.hi2 \in Limb
      /\ a.hi2 * n + High(p5) = r.hi2 + W * High(p7)
  BY <1>2, <1>3, <1>4, <1>7, LimbTimes
<1> HIDE DEF p6, p7
<1>9. r \in U256
  BY <1>2, <1>5, <1>6, <1>7, <1>8, Zenon DEF U256
<1>10. /\ High(p1) \in Nat /\ High(p3) \in Nat /\ High(p5) \in Nat /\ High(p7) \in Nat
       /\ n \in Nat
  BY <1>5, <1>6, <1>7, <1>8, HalfOfLimb, HalfLimb
<1>11. Products(a, n, r, High(p1), High(p3), High(p5), High(p7))
  BY <1>5, <1>6, <1>7, <1>8, Zenon DEF Products
<1>12. Val(a) * n = Val(r) + Modulus * High(p7)
  BY <1>9, <1>10, <1>11, ProductChain
<1>13. ASSUME Val(a) * n < Modulus PROVE Val(r) = Val(a) * n
  <2> DEFINE c == High(p7)
             t == Val(r)
             z == Modulus
             s == Val(a) * n
  <2>1. c \in Nat /\ t \in Nat /\ z \in Nat /\ z > 0
    BY <1>9, <1>10, ValRange, ModulusIsNat
  <2>2. s = t + z * c /\ s < z
    BY <1>12, <1>13
  <2> HIDE DEF c, t, z, s
  <2>3. c = 0
    <3>1. SUFFICES ASSUME c >= 1 PROVE FALSE
      BY <2>1
    <3>2. z * c >= z
      BY <2>1, <3>1
    <3> QED BY <2>1, <2>2, <3>2
  <2>4. s = t
    BY <2>1, <2>2, <2>3
  <2> QED BY <2>4 DEF s, t
<1> QED BY <1>9, <1>13 DEF r

=============================================================================
