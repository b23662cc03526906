-------------------------------- MODULE U256 --------------------------------
(***************************************************************************)
(* The two-limb integer of crates/amm-virtualizer/src/curve.rs.  A limb    *)
(* (u128) has 2 * HalfBits bits, so that the partial products of mul_u128  *)
(* carry at values TLC can enumerate.                                      *)
(***************************************************************************)
EXTENDS Integers

CONSTANT HalfBits      \* 64

ASSUME HalfBitsAssumption == HalfBits \in Nat \ {0}

Half == 2 ^ HalfBits
Limb == Half * Half
Bits == 4 * HalfBits

U256 == [hi : 0..Limb - 1, lo : 0..Limb - 1]

FromU128(v) == [hi |-> 0, lo |-> v]
Zero == FromU128(0)
One == FromU128(1)

\* The derived Ord: hi first, then lo.
Less(a, b) == a.hi < b.hi \/ (a.hi = b.hi /\ a.lo < b.lo)

Add(a, b) ==
  LET lo == a.lo + b.lo
  IN  [hi |-> (a.hi + b.hi + (lo \div Limb)) % Limb, lo |-> lo % Limb]

Sub(a, b) ==
  LET borrow == IF a.lo < b.lo THEN 1 ELSE 0
  IN  [hi |-> (a.hi - b.hi - borrow) % Limb, lo |-> (a.lo - b.lo) % Limb]

\* mul_u128: four products of half limbs; mid and lo may carry.
MulU128(a, v) ==
  LET p0 == (a.lo % Half) * (v % Half)
      p1 == (a.lo % Half) * (v \div Half)
      p2 == (a.lo \div Half) * (v % Half)
      p3 == (a.lo \div Half) * (v \div Half)
      mid == (p1 + p2) % Limb
      mid_hi == (mid \div Half) + (IF p1 + p2 >= Limb THEN Half ELSE 0)
      lo == p0 + (mid % Half) * Half
  IN  [hi |-> (p3 + mid_hi + a.hi * v + (lo \div Limb)) % Limb, lo |-> lo % Limb]

Mul(a, b) ==
  LET res == MulU128(a, b.lo)
  IN  [res EXCEPT !.hi = (@ + a.lo * b.hi) % Limb]

ShiftLeft1(a) == [hi |-> ((2 * a.hi) % Limb) + ((2 * a.lo) \div Limb), lo |-> (2 * a.lo) % Limb]

GetBit(a, i) ==
  IF i < 2 * HalfBits THEN (a.lo \div 2 ^ i) % 2 ELSE (a.hi \div 2 ^ (i - 2 * HalfBits)) % 2

\* set_bit of a bit that is clear.
SetBit(a, i) ==
  IF i < 2 * HalfBits THEN [a EXCEPT !.lo = @ + 2 ^ i] ELSE [a EXCEPT !.hi = @ + 2 ^ (i - 2 * HalfBits)]

\* div for a divisor that is not zero (the code panics on zero): long division, bit by bit
\* from the top.
Div(a, b) ==
  LET from[i \in -1..Bits - 1, quotient \in U256, remainder \in U256] ==
        IF i = -1 THEN quotient
        ELSE LET shifted == Add(ShiftLeft1(remainder), FromU128(GetBit(a, i)))
             IN  IF Less(shifted, b) THEN from[i - 1, quotient, shifted]
                 ELSE from[i - 1, SetBit(quotient, i), Sub(shifted, b)]
  IN  CASE Less(a, b) -> Zero [] b = One -> a [] OTHER -> from[Bits - 1, Zero, Zero]
=============================================================================
