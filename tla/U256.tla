-------------------------------- MODULE U256 --------------------------------
(***************************************************************************)
(* The 256-bit unsigned integers of the contract SDK (assembly/types.ts):  *)
(* four limbs of 64 bits, the least significant first, in arithmetic that  *)
(* wraps.  A limb has W values here and half a limb has H, 2^64 and 2^32   *)
(* in the code; every shift by 32 and mask of 32 bits is a division by H   *)
(* and its remainder.                                                      *)
(***************************************************************************)
EXTENDS Integers, Sequences

CONSTANT H

ASSUME HalfLimb == H \in Nat /\ H > 1

W == H * H
Limb == 0 .. W - 1
U256 == [lo1 : Limb, lo2 : Limb, hi1 : Limb, hi2 : Limb]

Zero == [lo1 |-> 0, lo2 |-> 0, hi1 |-> 0, hi2 |-> 0]

\* The number that the limbs stand for, and the first that they cannot.
Val(a) == a.lo1 + W * (a.lo2 + W * (a.hi1 + W * a.hi2))
Modulus == W * (W * (W * W))

-----------------------------------------------------------------------------
(* Big-endian bytes; a run of eight bytes is one element.                  *)

ToBeBytes(a) == <<a.hi2, a.hi1, a.lo2, a.lo1>>

FromBeBytes(bytes) ==
  IF Len(bytes) < 4 THEN Zero
  ELSE [hi2 |-> bytes[1], hi1 |-> bytes[2], lo2 |-> bytes[3], lo1 |-> bytes[4]]

-----------------------------------------------------------------------------
(* Comparison                                                              *)

Lt(a, b) ==
  \/ a.hi2 < b.hi2
  \/ a.hi2 = b.hi2 /\ a.hi1 < b.hi1
  \/ a.hi2 = b.hi2 /\ a.hi1 = b.hi1 /\ a.lo2 < b.lo2
  \/ a.hi2 = b.hi2 /\ a.hi1 = b.hi1 /\ a.lo2 = b.lo2 /\ a.lo1 < b.lo1

Gte(a, b) == a = b \/ Lt(b, a)

-----------------------------------------------------------------------------
(* Addition and subtraction: one limb after the other.                     *)

AddLimb(x, y, carry) == (x + y + carry) % W

\* The carry is seen in the wrapped sum.
Carry(x, y, carry) ==
  IF \/ AddLimb(x, y, carry) < x
     \/ carry = 1 /\ AddLimb(x, y, carry) = x
  THEN 1 ELSE 0

Add(a, b) ==
  LET c1 == Carry(a.lo1, b.lo1, 0)
      c2 == Carry(a.lo2, b.lo2, c1)
      c3 == Carry(a.hi1, b.hi1, c2)
  IN [lo1 |-> AddLimb(a.lo1, b.lo1, 0), lo2 |-> AddLimb(a.lo2, b.lo2, c1),
      hi1 |-> AddLimb(a.hi1, b.hi1, c2), hi2 |-> AddLimb(a.hi2, b.hi2, c3)]

\* The borrow is added to the limb that is taken away, which may wrap.
WithBorrow(y, borrow) == (y + borrow) % W

SubLimb(x, y, borrow) == (x - WithBorrow(y, borrow)) % W

Borrow(x, y, borrow) ==
  IF x < WithBorrow(y, borrow) \/ (borrow = 1 /\ y = W - 1) THEN 1 ELSE 0

Sub(a, b) ==
  LET b1 == Borrow(a.lo1, b.lo1, 0)
      b2 == Borrow(a.lo2, b.lo2, b1)
      b3 == Borrow(a.hi1, b.hi1, b2)
  IN [lo1 |-> SubLimb(a.lo1, b.lo1, 0), lo2 |-> SubLimb(a.lo2, b.lo2, b1),
      hi1 |-> SubLimb(a.hi1, b.hi1, b2), hi2 |-> SubLimb(a.hi2, b.hi2, b3)]

-----------------------------------------------------------------------------
(* Multiplication by one limb, over half limbs.                            *)

Low(x) == x % H
High(x) == x \div H

\* One column of the product: two products of half limbs and the carry of
\* the column below, in one limb.
Column(x, m, y, n, below) == (x * m + y * n + High(below)) % W

Join(low, high) == Low(low) + H * Low(high)

MulU64(a, n) ==
  LET p0 == Column(Low(a.lo1), Low(n), 0, High(n), 0)
      p1 == Column(High(a.lo1), Low(n), Low(a.lo1), High(n), p0)
      p2 == Column(Low(a.lo2), Low(n), High(a.lo1), High(n), p1)
      p3 == Column(High(a.lo2), Low(n), Low(a.lo2), High(n), p2)
      p4 == Column(Low(a.hi1), Low(n), High(a.lo2), High(n), p3)
      p5 == Column(High(a.hi1), Low(n), Low(a.hi1), High(n), p4)
      p6 == Column(Low(a.hi2), Low(n), High(a.hi1), High(n), p5)
      p7 == Column(High(a.hi2), Low(n), Low(a.hi2), High(n), p6)
  IN [lo1 |-> Join(p0, p1), lo2 |-> Join(p2, p3),
      hi1 |-> Join(p4, p5), hi2 |-> Join(p6, p7)]

=============================================================================
