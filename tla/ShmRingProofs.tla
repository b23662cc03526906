--------------------------- MODULE ShmRingProofs ----------------------------
(***************************************************************************)
(* Proofs about the shared memory ring, for any number of readers and      *)
(* messages and every capacity that can be asked for: messages are read in *)
(* order and at most once, and, as built, none is lost or torn unnoticed.  *)
(***************************************************************************)
EXTENDS ShmRing, FiniteSetTheorems, TLAPS

-----------------------------------------------------------------------------
(* Numbers                                                                 *)

\* A non-empty set of numbers has a least element: the initial segments below one of its
\* members are well-founded under inclusion.
LEMMA LeastNumber ==
  ASSUME NEW S \in SUBSET Nat, S # {}
  PROVE  \E x \in S : \A y \in S : x <= y
<1>1. PICK k \in S : TRUE
  OBVIOUS
<1> DEFINE below == {n \in S : n <= k}
           T == {0..n : n \in below}
<1>2. IsFiniteSet(0..k)
  BY FS_Interval
<1>3. T \in SUBSET SUBSET (0..k) /\ T # {}
  BY <1>1
<1>4. PICK x \in T : \A y \in T : ~(<<y, x>> \in StrictSubsetOrdering(0..k))
  <2>1. IsWellFoundedOn(StrictSubsetOrdering(0..k), SUBSET (0..k))
    BY <1>2, FS_StrictSubsetOrderingWellFounded, FS_FiniteSubsetsOfFinite
  <2> HIDE DEF T
  <2> QED BY <1>3, <2>1, WFMin
<1>5. PICK n \in below : x = 0..n
  BY <1>4
<1>6. ASSUME NEW m \in S, m < n PROVE FALSE
  <2>1. 0..m \in T /\ 0..m \subseteq 0..n /\ 0..m # 0..n
    BY <1>1, <1>6
  <2>2. <<0..m, x>> \in StrictSubsetOrdering(0..k)
    BY <2>1, <1>3, <1>5, <1>4 DEF StrictSubsetOrdering
  <2> QED BY <2>1, <2>2, <1>4
<1> QED BY <1>5, <1>6

\* Products keep the order of their factors.
LEMMA Monotone ==
  ASSUME NEW a \in Int, NEW b \in Int, NEW c \in Nat, a <= b
  PROVE  c * a <= c * b
BY SMT

\* The quotient is the one number whose multiple lies a remainder below the dividend.
LEMMA Quotient ==
  ASSUME NEW n \in Nat, NEW p \in Nat \ {0}, NEW q \in Nat, NEW r \in Nat, r < p, n = p * q + r
  PROVE  n \div p = q /\ n % p = r
<1> DEFINE d == n \div p
           m == n % p
<1>1. d \in Nat /\ m \in Nat /\ m < p /\ n = p * d + m
  BY SMT
<1> HIDE DEF d, m
<1>2. ~(d >= q + 1)
  <2>1. SUFFICES ASSUME q + 1 <= d PROVE FALSE
    BY <1>1
  <2>2. p * (q + 1) <= p * d
    BY <1>1, <2>1, Monotone
  <2>3. p * (q + 1) = p * q + p
    BY SMT
  <2>4. p * q \in Nat /\ p * d \in Nat
    BY <1>1, SMT
  <2> QED BY <1>1, <2>2, <2>3, <2>4
<1>3. ~(q >= d + 1)
  <2>1. SUFFICES ASSUME d + 1 <= q PROVE FALSE
    BY <1>1
  <2>2. p * (d + 1) <= p * q
    BY <1>1, <2>1, Monotone
  <2>3. p * (d + 1) = p * d + p
    BY <1>1, SMT
  <2>4. p * q \in Nat /\ p * d \in Nat
    BY <1>1, SMT
  <2> QED BY <1>1, <2>2, <2>3, <2>4
<1>4. d = q
  BY <1>1, <1>2, <1>3
<1>5. p * d = p * q /\ p * q \in Nat
  BY <1>4, SMT
<1>6. m = r
  BY <1>1, <1>5
<1> QED BY <1>4, <1>6 DEF d, m

\* Division with remainder.
LEMMA Division ==
  ASSUME NEW n \in Nat, NEW p \in Nat \ {0}
  PROVE  n \div p \in Nat /\ n % p \in Nat /\ n % p < p /\ n = p * (n \div p) + (n % p)
BY SMT

\* A multiple of the divisor goes through a division.
LEMMA DivOfSum ==
  ASSUME NEW x \in Nat, NEW a \in Nat, NEW p \in Nat \ {0}
  PROVE  (p * x + a) \div p = x + a \div p
<1> DEFINE q == a \div p
           r == a % p
<1>1. q \in Nat /\ r \in Nat /\ r < p /\ a = p * q + r
  BY Division
<1> HIDE DEF q, r
<1>2. p * (x + q) = p * x + p * q /\ p * x \in Nat /\ p * q \in Nat
  BY <1>1, SMT
<1>3. p * x + a = p * (x + q) + r /\ p * x + a \in Nat /\ x + q \in Nat
  BY <1>1, <1>2
<1>4. (p * x + a) \div p = x + q
  BY <1>1, <1>3, Quotient
<1> QED BY <1>4 DEF q

-----------------------------------------------------------------------------
(* Powers of two                                                           *)

Logs == 0..MaxLog

\* The powers a ring's capacity can be.
LEMMA Powers ==
  /\ \A k \in Logs : 2^k \in Nat \ {0}
  /\ 2^0 = 1
  /\ \A k \in Logs : k # 0 => k - 1 \in Logs /\ 2^k = 2 * 2^(k - 1)
<1>1. \A k \in Logs : k \in {0, 1, 2, 3, 4, 5, 6, 7, 8, 9, 10, 11, 12, 13, 14, 15, 16}
  BY DEF Logs, MaxLog
<1>2. ASSUME NEW k \in Logs PROVE 2^k \in Nat \ {0}
  <2>1.
        /\ 2^0 \in Nat \ {0} /\ 2^1 \in Nat \ {0} /\ 2^2 \in Nat \ {0} /\ 2^3 \in Nat \ {0}
        /\ 2^4 \in Nat \ {0} /\ 2^5 \in Nat \ {0} /\ 2^6 \in Nat \ {0} /\ 2^7 \in Nat \ {0}
        /\ 2^8 \in Nat \ {0} /\ 2^9 \in Nat \ {0} /\ 2^10 \in Nat \ {0} /\ 2^11 \in Nat \ {0}
        /\ 2^12 \in Nat \ {0} /\ 2^13 \in Nat \ {0} /\ 2^14 \in Nat \ {0} /\ 2^15 \in Nat \ {0}
        /\ 2^16 \in Nat \ {0}
    BY SMT
  <2> QED BY <1>1, <2>1, Zenon
<1>3. ASSUME NEW k \in Logs, k # 0 PROVE k - 1 \in Logs /\ 2^k = 2 * 2^(k - 1)
  <2>1.
        \/ (k = 1 /\ k - 1 = 0) \/ (k = 2 /\ k - 1 = 1) \/ (k = 3 /\ k - 1 = 2) \/ (k = 4 /\ k - 1 = 3)
        \/ (k = 5 /\ k - 1 = 4) \/ (k = 6 /\ k - 1 = 5) \/ (k = 7 /\ k - 1 = 6) \/ (k = 8 /\ k - 1 = 7)
        \/ (k = 9 /\ k - 1 = 8) \/ (k = 10 /\ k - 1 = 9) \/ (k = 11 /\ k - 1 = 10) \/ (k = 12 /\ k - 1 = 11)
        \/ (k = 13 /\ k - 1 = 12) \/ (k = 14 /\ k - 1 = 13) \/ (k = 15 /\ k - 1 = 14) \/ (k = 16 /\ k - 1 = 15)
    BY <1>1, <1>3
  <2>2.
        /\ 2^1 = 2 * 2^0 /\ 2^2 = 2 * 2^1 /\ 2^3 = 2 * 2^2 /\ 2^4 = 2 * 2^3
        /\ 2^5 = 2 * 2^4 /\ 2^6 = 2 * 2^5 /\ 2^7 = 2 * 2^6 /\ 2^8 = 2 * 2^7
        /\ 2^9 = 2 * 2^8 /\ 2^10 = 2 * 2^9 /\ 2^11 = 2 * 2^10 /\ 2^12 = 2 * 2^11
        /\ 2^13 = 2 * 2^12 /\ 2^14 = 2 * 2^13 /\ 2^15 = 2 * 2^14 /\ 2^16 = 2 * 2^15
    BY SMT
  <2>3. 2^k = 2 * 2^(k - 1)
    BY <2>1, <2>2, Zenon
  <2> QED BY <1>3, <2>3 DEF Logs, MaxLog
<1>4. 2^0 = 1
  BY SMT
<1> QED BY <1>2, <1>3, <1>4

\* A smaller power divides a larger one.
LEMMA PowerDivides ==
  ASSUME NEW K \in Logs, NEW k \in Logs, k <= K
  PROVE  \E d \in Nat \ {0} : 2^K = 2^k * d
<1> DEFINE Divides(j) == \E d \in Nat \ {0} : 2^K = 2^j * d
           S == {n \in 0..K : ~Divides(K - n)}
<1>1. S = {}
  <2>1. SUFFICES ASSUME S # {} PROVE FALSE
    OBVIOUS
  <2>2. S \in SUBSET Nat
    BY DEF Logs, MaxLog
  <2>3. PICK n \in S : \A y \in S : n <= y
    <3> HIDE DEF S
    <3> QED BY <2>1, <2>2, LeastNumber
  <2>4. n \in 0..K /\ ~Divides(K - n) /\ K \in Nat /\ n \in Nat
    BY <2>2, <2>3 DEF Logs, MaxLog
  <2>5. n # 0
    <3>1. SUFFICES ASSUME n = 0 PROVE FALSE
      OBVIOUS
    <3>2. 2^K \in Nat \ {0} /\ K - n = K
      BY <2>4, <3>1, Powers
    <3>3. 2^K = 2^K * 1
      BY <3>2
    <3>4. Divides(K - n)
      BY <3>2, <3>3
    <3> QED BY <2>4, <3>4
  <2>6. Divides(K - (n - 1))
    <3>1. n - 1 \in 0..K /\ n - 1 \notin S
      <4> HIDE DEF S
      <4> QED BY <2>3, <2>4, <2>5
    <3> HIDE DEF Divides
    <3> QED BY <3>1
  <2>7. K - (n - 1) \in Logs /\ K - (n - 1) # 0 /\ (K - (n - 1)) - 1 = K - n
    BY <2>4, <2>5 DEF Logs, MaxLog
  <2>8. PICK d \in Nat \ {0} : 2^K = 2^(K - (n - 1)) * d
    BY <2>6
  <2>9. 2^(K - (n - 1)) = 2 * 2^(K - n) /\ 2^(K - n) \in Nat
    <3>1. \A j \in Logs : j # 0 => 2^j = 2 * 2^(j - 1)
      BY Powers
    <3>2. K - n \in Logs
      BY <2>4 DEF Logs, MaxLog
    <3> QED BY <2>7, <3>1, <3>2, Powers
  <2>10. 2^K = 2^(K - n) * (2 * d) /\ 2 * d \in Nat \ {0}
    <3>1. PICK x \in Nat : x = 2^(K - n)
      BY <2>9
    <3>2. 2 * x * d = x * (2 * d) /\ 2 * d \in Nat \ {0}
      BY SMT
    <3> QED BY <2>8, <2>9, <3>1, <3>2
  <2> QED BY <2>4, <2>10
<1>2. K - k \in 0..K /\ K - (K - k) = k
  BY DEF Logs, MaxLog
<1>3. Divides(K - (K - k))
  BY <1>1, <1>2
<1> QED BY <1>2, <1>3

-----------------------------------------------------------------------------
(* Bits                                                                    *)

Bit(n, k) == (n \div 2^k) % 2 = 1

\* The bits of 2^K - 1 are those below K.
LEMMA MaskBits ==
  ASSUME NEW K \in Logs, NEW k \in Logs
  PROVE  Bit(2^K - 1, k) <=> k < K
<1>1. PICK c \in Nat \ {0} : c = 2^K
  BY Powers
<1>2. PICK p \in Nat \ {0} : p = 2^k
  BY Powers
<1>3. CASE k < K
  <2>1. k + 1 \in Logs /\ k + 1 <= K /\ k + 1 # 0 /\ (k + 1) - 1 = k
    BY <1>3 DEF Logs, MaxLog
  <2>2. PICK d \in Nat \ {0} : 2^K = 2^(k + 1) * d
    BY <2>1, PowerDivides
  <2>3. 2^(k + 1) = 2 * p
    <3>1. \A j \in Logs : j # 0 => 2^j = 2 * 2^(j - 1)
      BY Powers
    <3> QED BY <1>2, <2>1, <3>1
  <2>4. c - 1 = p * (2 * d - 1) + (p - 1)
    <3>1. c = 2 * p * d
      BY <1>1, <2>2, <2>3
    <3>2. p * (2 * d - 1) = 2 * p * d - p
      BY SMT
    <3>3. 2 * p * d \in Nat
      BY SMT
    <3> QED BY <3>1, <3>2, <3>3
  <2>5. (c - 1) \div p = 2 * d - 1
    <3>1. 2 * d - 1 \in Nat /\ p - 1 \in Nat /\ p - 1 < p /\ c - 1 \in Nat
      OBVIOUS
    <3> QED BY <2>4, <3>1, Quotient
  <2>6. (2 * d - 1) % 2 = 1
    BY SMT
  <2> QED BY <1>1, <1>2, <1>3, <2>5, <2>6 DEF Bit
<1>4. CASE K <= k
  <2>1. PICK d \in Nat \ {0} : p = c * d
    BY <1>1, <1>2, <1>4, PowerDivides
  <2>2. c <= p
    <3>1. c * 1 <= c * d
      BY Monotone
    <3> QED BY <2>1, <3>1
  <2>3. c - 1 \in Nat /\ c - 1 < p /\ p * 0 + (c - 1) = c - 1
    BY <2>2
  <2>4. (c - 1) \div p = 0
    BY <2>3, Quotient
  <2> QED BY <1>1, <1>2, <1>4, <2>4 DEF Bit, Logs, MaxLog
<1> QED BY <1>3, <1>4 DEF Logs, MaxLog

\* The bits of the remainder are the bits of the number that the mask keeps.
LEMMA RemainderBits ==
  ASSUME NEW s \in Nat, NEW K \in Logs, NEW k \in Logs
  PROVE  Bit(s % 2^K, k) <=> Bit(s, k) /\ k < K
<1>1. PICK c \in Nat \ {0} : c = 2^K
  BY Powers
<1>2. PICK p \in Nat \ {0} : p = 2^k
  BY Powers
<1>3. PICK i \in Nat, a \in Nat : i = s % c /\ i < c /\ s = c * a + i
  BY Division
<1>4. CASE k < K
  <2>1. k + 1 \in Logs /\ k + 1 <= K /\ k + 1 # 0 /\ (k + 1) - 1 = k
    BY <1>4 DEF Logs, MaxLog
  <2>2. PICK d \in Nat \ {0} : 2^K = 2^(k + 1) * d
    BY <2>1, PowerDivides
  <2>3. 2^(k + 1) = 2 * p
    <3>1. \A j \in Logs : j # 0 => 2^j = 2 * 2^(j - 1)
      BY Powers
    <3> QED BY <1>2, <2>1, <3>1
  <2>4. PICK z \in Nat : z = d * a
    BY SMT
  <2>5. s = p * (2 * z) + i
    <3>1. c = 2 * p * d
      BY <1>1, <2>2, <2>3
    <3>2. 2 * p * d * a = p * (2 * (d * a))
      BY SMT
    <3> QED BY <1>3, <2>4, <3>1, <3>2
  <2>6. s \div p = 2 * z + i \div p
    <3>1. 2 * z \in Nat
      OBVIOUS
    <3> QED BY <2>5, <3>1, DivOfSum
  <2>7. PICK y \in Nat : y = i \div p
    BY Division
  <2>8. (2 * z + y) % 2 = y % 2
    BY SMT
  <2> QED BY <1>1, <1>2, <1>3, <1>4, <2>6, <2>7, <2>8 DEF Bit
<1>5. CASE K <= k
  <2>1. PICK d \in Nat \ {0} : p = c * d
    BY <1>1, <1>2, <1>5, PowerDivides
  <2>2. c <= p
    <3>1. c * 1 <= c * d
      BY Monotone
    <3> QED BY <2>1, <3>1
  <2>3. i < p /\ p * 0 + i = i
    BY <1>3, <2>2
  <2>4. i \div p = 0
    BY <2>3, Quotient
  <2> QED BY <1>1, <1>2, <1>3, <1>5, <2>4 DEF Bit, Logs, MaxLog
<1> QED BY <1>4, <1>5 DEF Logs, MaxLog

\* A number below 2^K is known by its bits.
LEMMA SameBits ==
  ASSUME NEW K \in Logs, NEW i \in Nat, NEW j \in Nat, i < 2^K, j < 2^K,
         \A k \in Logs : Bit(i, k) <=> Bit(j, k)
  PROVE  i = j
<1> DEFINE S == {k \in 0..K : i \div 2^k = j \div 2^k}
<1>1. K \in S
  <2>1. PICK c \in Nat \ {0} : c = 2^K
    BY Powers
  <2>2. c * 0 + i = i /\ c * 0 + j = j
    BY <2>1
  <2>3. i \div c = 0 /\ j \div c = 0
    BY <2>1, <2>2, Quotient
  <2> QED BY <2>1, <2>3 DEF Logs, MaxLog
<1>2. S \in SUBSET Nat /\ S # {}
  <2>1. 0..K \in SUBSET Nat /\ S \subseteq 0..K
    BY DEF Logs, MaxLog
  <2> HIDE DEF S
  <2> QED BY <1>1, <2>1
<1>3. PICK k \in S : \A y \in S : k <= y
  <2> HIDE DEF S
  <2> QED BY <1>2, LeastNumber
<1>4. k \in 0..K /\ i \div 2^k = j \div 2^k /\ k \in Logs
  BY <1>3 DEF Logs, MaxLog
<1>5. k = 0
  <2>1. SUFFICES ASSUME k # 0 PROVE FALSE
    OBVIOUS
  <2>2. k - 1 \in Logs /\ 2^k = 2 * 2^(k - 1)
    BY <1>4, <2>1, Powers
  <2>3. PICK p \in Nat \ {0} : p = 2^(k - 1)
    BY <2>2, Powers
  <2>4. (i \div p) % 2 = (j \div p) % 2
    <3>1. (i \div p) % 2 = 1 <=> (j \div p) % 2 = 1
      BY <2>2, <2>3 DEF Bit
    <3>2. i \div p \in Nat /\ j \div p \in Nat
      BY Division
    <3> QED BY <3>1, <3>2
  <2>5. ASSUME NEW n \in Nat PROVE (n \div p) \div 2 = n \div (2 * p)
    <3>1. PICK q \in Nat, r \in Nat : q = n \div p /\ r < p /\ n = p * q + r
      BY Division
    <3>2. PICK h \in Nat, b \in {0, 1} : h = q \div 2 /\ q = 2 * h + b
      BY SMT
    <3>3. p * (2 * h + b) = 2 * p * h + p * b
      BY SMT
    <3>4. p * b \in Nat /\ p * b <= p /\ 2 * p * h \in Nat
      BY SMT
    <3>5. n = 2 * p * h + (p * b + r) /\ p * b + r \in Nat /\ p * b + r < 2 * p
      <4>1. p * q = 2 * p * h + p * b
        BY <3>2, <3>3
      <4> QED BY <3>1, <3>4, <4>1
    <3>6. n \div (2 * p) = h
      BY <3>5, Quotient
    <3> QED BY <3>1, <3>2, <3>6
  <2>6. (i \div p) \div 2 = (j \div p) \div 2
    BY <1>4, <2>2, <2>3, <2>5
  <2>7. i \div p = j \div p
    <3>1. i \div p \in Nat /\ j \div p \in Nat
      BY Division
    <3> QED BY <2>4, <2>6, <3>1
  <2>8. k - 1 \in S
    BY <1>4, <2>1, <2>3, <2>7 DEF Logs, MaxLog
  <2> QED BY <1>3, <1>4, <2>8 DEF Logs, MaxLog
<1>6. i \div 1 = j \div 1
  BY <1>4, <1>5, Powers
<1> QED BY <1>6

-----------------------------------------------------------------------------
(* The slots of a ring whose capacity is a power of two                    *)

Power == \E K \in Logs : capacity = 2^K

\* The mask keeps the remainder.
LEMMA SlotIsRemainder ==
  ASSUME Power, NEW s \in Nat
  PROVE  /\ capacity \in Nat \ {0}
         /\ Slot(s) = s % capacity /\ Slot(s) \in 0..capacity - 1
<1>1. PICK K \in Logs : capacity = 2^K
  BY DEF Power
<1>2. capacity \in Nat \ {0}
  BY <1>1, Powers
<1> DEFINE Fits(i) == \A k \in Logs : Bit(i, k) <=> Bit(s, k) /\ Bit(capacity - 1, k)
           i0 == s % capacity
<1>3. i0 \in 0..capacity - 1
  BY <1>2, Division
<1>4. Fits(i0)
  BY <1>1, RemainderBits, MaskBits
<1>5. ASSUME NEW i \in 0..capacity - 1, Fits(i) PROVE i = i0
  <2>1. \A k \in Logs : Bit(i, k) <=> Bit(i0, k)
    BY <1>4, <1>5
  <2>2. i \in Nat /\ i0 \in Nat /\ i < capacity /\ i0 < capacity
    BY <1>2, <1>3
  <2> HIDE DEF i0
  <2> QED BY <1>1, <2>1, <2>2, SameBits
<1>6. Slot(s) = CHOOSE i \in 0..capacity - 1 : Fits(i)
  BY DEF Slot, Bit, Logs
<1> HIDE DEF Fits, i0
<1>7. Slot(s) = i0
  BY <1>3, <1>4, <1>5, <1>6
<1> QED BY <1>2, <1>3, <1>7 DEF i0

\* Messages less than a lap apart have different slots.
LEMMA SlotInjective ==
  ASSUME Power, NEW s \in Nat, NEW t \in Nat, s < t, t < s + capacity
  PROVE  Slot(s) # Slot(t)
<1>1. capacity \in Nat \ {0} /\ Slot(s) = s % capacity /\ Slot(t) = t % capacity
  BY SlotIsRemainder
<1>2. PICK c \in Nat \ {0} : c = capacity
  BY <1>1
<1>3. SUFFICES ASSUME s % c = t % c PROVE FALSE
  BY <1>1, <1>2
<1>4. PICK a \in Nat, r \in Nat : r = s % c /\ s = c * a + r
  BY Division
<1>5. PICK b \in Nat : t = c * b + r
  <2>1. t \div c \in Nat /\ t = c * (t \div c) + (t % c)
    BY Division
  <2> QED BY <1>3, <1>4, <2>1
<1>6. c * a \in Nat /\ c * b \in Nat
  BY SMT
<1>7. c * a < c * b /\ c * b < c * a + c
  BY <1>2, <1>4, <1>5, <1>6
<1>8. ~(b <= a)
  BY <1>7, <1>6, Monotone
<1>9. ~(a + 1 <= b)
  <2>1. SUFFICES ASSUME a + 1 <= b PROVE FALSE
    OBVIOUS
  <2>2. c * (a + 1) <= c * b
    BY <2>1, Monotone
  <2>3. c * (a + 1) = c * a + c
    BY SMT
  <2> QED BY <1>6, <1>7, <2>2, <2>3
<1> QED BY <1>8, <1>9

\* next_power_of_two: whatever capacity is asked for, the ring gets a power of two.
LEMMA RingCapacityIsPower ==
  ASSUME NEW tier \in Tiers, NEW n \in Requested
  PROVE  \E K \in Logs : RingCapacity(ForTier(tier, n)) = 2^K
<1> DEFINE fits == {k \in 0..MaxLog : 2^k >= n}
<1>1. ForTier(tier, n).capacity = n
  BY DEF ForTier
<1>2. n \in 0..2^MaxLog
  BY ShmAssumption
<1>3. fits \in SUBSET Nat /\ fits \subseteq Logs
  BY DEF Logs, MaxLog
<1>4. fits # {}
  <2>1. MaxLog \in Logs
    BY DEF Logs, MaxLog
  <2>2. PICK c \in Nat : c = 2^MaxLog
    BY <2>1, Powers
  <2>3. 2^MaxLog >= n
    BY <1>2, <2>2
  <2> QED BY <2>1, <2>3 DEF Logs
<1>5. RingCapacity(ForTier(tier, n)) = 2^(CHOOSE k \in fits : \A j \in fits : k <= j)
  BY <1>1 DEF RingCapacity
<1> HIDE DEF fits
<1>6. \E k \in fits : \A j \in fits : k <= j
  BY <1>3, <1>4, LeastNumber
<1>7. (CHOOSE k \in fits : \A j \in fits : k <= j) \in fits
  BY <1>6
<1> QED BY <1>3, <1>5, <1>7

-----------------------------------------------------------------------------
(* The inductive invariant                                                 *)

Record == [sequence : Nat, first : Nat, second : Nat]

Types ==
  /\ shared \in BOOLEAN /\ Power
  /\ head_sequence \in Nat /\ slots \in [0..capacity-1 -> Record]
  /\ wpc \in {"idle", "first", "second", "sequence", "head"}
  /\ rpc \in [Readers -> {"idle", "sequence", "first", "second", "check"}]
  /\ reader_cursor \in [Readers -> Nat] /\ head \in [Readers -> Nat]
  /\ out \in [Readers -> Record] /\ got \in [Readers -> Seq(Record)]
  /\ missed \in [Readers -> Nat]

\* What a reader got is in order and behind its cursor, which is behind the head it loaded
\* for a read that is under way.
OrderInv(r) ==
  /\ \A i \in 1..Len(got[r]) : got[r][i].sequence <= reader_cursor[r]
  /\ \A i, j \in 1..Len(got[r]) : i < j => got[r][i].sequence < got[r][j].sequence
  /\ rpc[r] # "idle" => reader_cursor[r] < head[r]

\* The messages of the last lap, but for the one whose slot the writer is about to reuse.
Kept == {s \in Nat : /\ 0 < s /\ s <= head_sequence /\ head_sequence < s + capacity
                     /\ wpc # "idle" => next_seq < s + capacity}

\* The slots of the last lap hold whole messages, and the slot of the next one those of its
\* fields that are stored.
SlotInv ==
  /\ \A s \in Kept : /\ slots[Slot(s)].sequence = s
                     /\ slots[Slot(s)].first = s /\ slots[Slot(s)].second = s
  /\ wpc \in {"second", "sequence", "head"} => slots[Slot(next_seq)].first = next_seq
  /\ wpc \in {"sequence", "head"} => slots[Slot(next_seq)].second = next_seq
  /\ wpc = "head" => slots[Slot(next_seq)].sequence = next_seq

\* A read under way excludes a publish, is within the last lap, and has copied what the slot
\* holds; what was got is whole, and the cursor accounts for what was missed.
BuiltInv(r) ==
  /\ rpc[r] # "idle" => /\ wpc = "idle"
                        /\ reader_cursor[r] < head_sequence
                        /\ head_sequence <= reader_cursor[r] + capacity
  /\ rpc[r] \in {"first", "second", "check"} => out[r].sequence = reader_cursor[r] + 1
  /\ rpc[r] \in {"second", "check"} => out[r].first = reader_cursor[r] + 1
  /\ rpc[r] = "check" => out[r].second = reader_cursor[r] + 1
  /\ \A i \in 1..Len(got[r]) : Whole(got[r][i])
  /\ Accounted(r)

IndInv ==
  /\ Types
  /\ \A r \in Readers : OrderInv(r)
  /\ ~shared => SlotInv /\ \A r \in Readers : BuiltInv(r)

\* A ring is created with a power of two of empty slots.
LEMMA InitIndInv == Init => IndInv
<1> SUFFICES ASSUME Init PROVE IndInv
  OBVIOUS
<1>1. Power
  BY RingCapacityIsPower DEF Init, Power
<1>2. Types
  BY <1>1, ShmAssumption DEF Init, Types, Record, Empty
<1>3. \A r \in Readers : OrderInv(r) /\ BuiltInv(r)
  <2> TAKE r \in Readers
  <2>1. /\ rpc[r] = "idle" /\ got[r] = << >> /\ Len(got[r]) = 0 /\ missed[r] = 0
        /\ reader_cursor[r] = 0
    BY DEF Init
  <2> QED BY <2>1 DEF OrderInv, BuiltInv, Accounted
<1>4. SlotInv
  <2>1. Kept = {}
    BY DEF Kept, Init
  <2> QED BY <2>1 DEF SlotInv, Init
<1> QED BY <1>2, <1>3, <1>4 DEF IndInv

\* A step of the writer leaves the readers' order alone.
LEMMA WriterOrder ==
  ASSUME IndInv, UNCHANGED readerVars
  PROVE  \A r \in Readers : OrderInv(r)'
BY DEF IndInv, OrderInv, readerVars

\* As built, a writer that is at work finds every reader between reads, and what they know
\* does not depend on the writer then.
LEMMA WriterBuilt ==
  ASSUME IndInv, ~shared, UNCHANGED readerVars, \A r \in Readers : rpc[r] = "idle"
  PROVE  \A r \in Readers : BuiltInv(r)'
BY DEF IndInv, BuiltInv, readerVars, Accounted, Whole

\* As built, nobody reads while the writer is at work.
LEMMA WriterAlone ==
  ASSUME IndInv, ~shared, wpc # "idle"
  PROVE  \A r \in Readers : rpc[r] = "idle"
BY DEF IndInv, BuiltInv

\* The publish of a message begins: the oldest slot is given up.
LEMMA PublishBeginIndInv ==
  ASSUME IndInv, PublishBegin
  PROVE  IndInv'
<1>1. /\ wpc = "idle" /\ wpc' = "first" /\ UNCHANGED <<head_sequence, slots, shared, capacity>>
      /\ UNCHANGED readerVars
      /\ shared \/ \A r \in Readers : rpc[r] = "idle"
  BY DEF PublishBegin, ring
<1>2. Types'
  BY <1>1 DEF IndInv, Types, Power, readerVars
<1>3. ASSUME ~shared PROVE SlotInv'
  <2>1. Kept' \subseteq Kept /\ \A s : Slot(s)' = Slot(s)
    BY <1>1 DEF Kept, next_seq, Slot
  <2> QED BY <1>1, <1>3, <2>1 DEF IndInv, SlotInv
<1>4. ~shared => \A r \in Readers : BuiltInv(r)'
  BY <1>1, WriterBuilt
<1> QED BY <1>1, <1>2, <1>3, <1>4, WriterOrder DEF IndInv

\* A store into the next slot: it touches no message that is kept.
LEMMA StoreIndInv ==
  ASSUME IndInv, PublishPayload \/ PublishSequence
  PROVE  IndInv'
<1>1. /\ wpc # "idle" /\ wpc' # "idle" /\ UNCHANGED <<head_sequence, shared, capacity>>
      /\ UNCHANGED readerVars
  BY DEF PublishPayload, PublishSequence, Store, ring
<1>2. /\ Types /\ slots \in [0..capacity-1 -> Record] /\ next_seq \in Nat /\ head_sequence \in Nat
      /\ Power /\ next_seq = head_sequence + 1
  BY DEF IndInv, Types, next_seq
<1>3. PICK n \in Nat : n = next_seq /\ n = head_sequence + 1
  BY <1>2
<1>4. PICK x \in 0..capacity-1 : x = Slot(n)
  BY <1>2, SlotIsRemainder
<1>5. capacity \in Nat
  BY <1>2, SlotIsRemainder
<1>6. \A s \in Kept : Slot(s) # x /\ Slot(s) \in 0..capacity-1 /\ s \in Nat
  <2>1. ASSUME NEW s \in Kept PROVE Slot(s) # x /\ Slot(s) \in 0..capacity-1 /\ s \in Nat
    <3>1. s \in Nat /\ s < n /\ n < s + capacity
      BY <1>1, <1>2, <1>3, <2>1 DEF Kept
    <3> QED BY <1>2, <1>4, <3>1, SlotInjective, SlotIsRemainder
  <2> QED BY <2>1
<1>7. \/ wpc = "first" /\ wpc' = "second" /\ slots' = [slots EXCEPT ![x].first = n]
      \/ wpc = "second" /\ wpc' = "sequence" /\ slots' = [slots EXCEPT ![x].second = n]
      \/ wpc = "sequence" /\ wpc' = "head" /\ slots' = [slots EXCEPT ![x].sequence = n]
  BY <1>2, <1>3, <1>4 DEF PublishPayload, PublishSequence, Store, Record
<1>8. /\ slots' \in [0..capacity-1 -> Record]
      /\ \A y \in 0..capacity-1 : y # x => slots'[y] = slots[y]
      /\ wpc = "first" => slots'[x].first = n
      /\ wpc = "second" => slots'[x].second = n /\ slots'[x].first = slots[x].first
      /\ wpc = "sequence" => slots'[x].sequence = n /\ slots'[x].first = slots[x].first
                              /\ slots'[x].second = slots[x].second
  BY <1>2, <1>3, <1>7 DEF Record
<1>9. Types'
  BY <1>1, <1>2, <1>7, <1>8 DEF Types, Power, readerVars
<1>10. ASSUME ~shared PROVE SlotInv'
  <2>1. Kept' = Kept /\ next_seq' = n /\ \A s : Slot(s)' = Slot(s)
    BY <1>1, <1>3 DEF Kept, next_seq, Slot
  <2>2. SlotInv
    BY <1>10 DEF IndInv
  <2>3. \A s \in Kept : /\ slots'[Slot(s)].sequence = s
                       /\ slots'[Slot(s)].first = s /\ slots'[Slot(s)].second = s
    BY <1>6, <1>8, <2>2 DEF SlotInv
  <2>4. /\ wpc' \in {"second", "sequence", "head"} => slots'[x].first = n
        /\ wpc' \in {"sequence", "head"} => slots'[x].second = n
        /\ wpc' = "head" => slots'[x].sequence = n
    BY <1>3, <1>4, <1>7, <1>8, <2>2 DEF SlotInv
  <2>5. Slot(next_seq)' = x
    BY <1>1, <1>3, <1>4 DEF Slot, next_seq
  <2> QED BY <2>1, <2>3, <2>4, <2>5 DEF SlotInv
<1>11. ~shared => \A r \in Readers : BuiltInv(r)'
  BY <1>1, WriterAlone, WriterBuilt
<1> QED BY <1>1, <1>9, <1>10, <1>11, WriterOrder DEF IndInv

\* The head moves on: the message just stored joins the last lap.
LEMMA PublishHeadIndInv ==
  ASSUME IndInv, PublishHead
  PROVE  IndInv'
<1>1. /\ wpc = "head" /\ wpc' = "idle" /\ head_sequence' = next_seq
      /\ UNCHANGED <<slots, shared, capacity>> /\ UNCHANGED readerVars
  BY DEF PublishHead, ring
<1>2. head_sequence \in Nat /\ next_seq = head_sequence + 1 /\ capacity \in Nat
  BY SlotIsRemainder DEF IndInv, Types, next_seq
<1>3. Types'
  BY <1>1, <1>2 DEF IndInv, Types, Power, readerVars
<1>4. ASSUME ~shared PROVE SlotInv'
  <2>1. Kept' \subseteq Kept \cup {next_seq} /\ \A s : Slot(s)' = Slot(s)
    BY <1>1, <1>2 DEF Kept, Slot
  <2>2. SlotInv
    BY <1>4 DEF IndInv
  <2> QED BY <1>1, <2>1, <2>2 DEF SlotInv
<1>5. ~shared => \A r \in Readers : BuiltInv(r)'
  BY <1>1, WriterAlone, WriterBuilt
<1> QED BY <1>1, <1>3, <1>4, <1>5, WriterOrder DEF IndInv

\* A step of a reader leaves the slots alone.
LEMMA ReaderSlots ==
  ASSUME IndInv, UNCHANGED writerVars
  PROVE  /\ UNCHANGED <<shared, capacity, head_sequence, slots, wpc>>
         /\ ~shared => SlotInv'
<1>1. UNCHANGED <<shared, capacity, head_sequence, slots, wpc>>
  BY DEF writerVars, ring
<1>2. (\A s : Slot(s)' = Slot(s)) /\ Kept' = Kept /\ next_seq' = next_seq
  BY <1>1 DEF Slot, Kept, next_seq
<1>3. SlotInv => SlotInv'
  <2>1. Slot(next_seq)' = Slot(next_seq)
    BY <1>1 DEF Slot, next_seq
  <2> QED BY <1>1, <1>2, <2>1 DEF SlotInv
<1> QED BY <1>1, <1>3 DEF IndInv

\* A step of one reader leaves the others alone.
LEMMA OtherReaders ==
  ASSUME IndInv, NEW q \in Readers, UNCHANGED <<shared, capacity, head_sequence, wpc>>,
         rpc'[q] = rpc[q], reader_cursor'[q] = reader_cursor[q], head'[q] = head[q],
         out'[q] = out[q], got'[q] = got[q], missed'[q] = missed[q]
  PROVE  OrderInv(q)' /\ (~shared => BuiltInv(q)')
<1>1. OrderInv(q) /\ (~shared => BuiltInv(q))
  BY DEF IndInv
<1>2. OrderInv(q)'
  BY <1>1 DEF OrderInv
<1>3. BuiltInv(q) => BuiltInv(q)'
  BY DEF BuiltInv, Accounted, Whole
<1> QED BY <1>1, <1>2, <1>3

\* The load of the head: an overrun reader moves up and counts what it missed, another one
\* starts a read within the last lap.
LEMMA ReadBeginIndInv ==
  ASSUME IndInv, NEW r \in Readers, ReadBegin(r)
  PROVE  IndInv'
<1>1. Types /\ OrderInv(r) /\ (~shared => BuiltInv(r))
  BY DEF IndInv
<1>2. UNCHANGED writerVars /\ UNCHANGED <<shared, capacity, head_sequence, slots, wpc>>
  BY ReaderSlots DEF ReadBegin
<1>3. /\ rpc[r] = "idle" /\ (shared \/ wpc = "idle") /\ reader_cursor[r] < head_sequence
      /\ head' = [head EXCEPT ![r] = head_sequence] /\ out' = out /\ got' = got
  BY DEF ReadBegin
<1>4. /\ reader_cursor[r] \in Nat /\ head_sequence \in Nat /\ missed[r] \in Nat
      /\ capacity \in Nat \ {0} /\ got[r] \in Seq(Record)
  BY <1>1, SlotIsRemainder DEF Types
<1>5. /\ Types' /\ head'[r] = head_sequence
      /\ \A q \in Readers \ {r} : /\ rpc'[q] = rpc[q] /\ reader_cursor'[q] = reader_cursor[q]
                                  /\ head'[q] = head[q] /\ missed'[q] = missed[q]
      /\ \/ /\ head_sequence > reader_cursor[r] + capacity /\ rpc'[r] = "idle"
            /\ reader_cursor'[r] = head_sequence - capacity
            /\ missed'[r] = missed[r] + (head_sequence - (reader_cursor[r] + capacity))
         \/ /\ head_sequence <= reader_cursor[r] + capacity /\ rpc'[r] = "sequence"
            /\ reader_cursor'[r] = reader_cursor[r] /\ missed'[r] = missed[r]
  <2>1. CASE Overrun(reader_cursor[r])
    <3>1. head_sequence > reader_cursor[r] + capacity
      BY <2>1 DEF Overrun
    <3>2. PICK m \in Nat : m = missed[r] + (head_sequence - (reader_cursor[r] + capacity))
      BY <1>4, <3>1
    <3>3. PICK c \in Nat : c = head_sequence - capacity
      BY <1>4, <3>1
    <3>4. /\ missed' = [missed EXCEPT ![r] = m] /\ reader_cursor' = [reader_cursor EXCEPT ![r] = c]
          /\ rpc' = rpc
      BY <2>1, <3>2, <3>3 DEF ReadBegin, CatchUp
    <3>5. Types'
      BY <1>1, <1>2, <1>3, <1>4, <3>4 DEF Types, Power
    <3> QED BY <1>1, <1>3, <3>1, <3>2, <3>3, <3>4, <3>5 DEF Types
  <2>2. CASE ~Overrun(reader_cursor[r])
    <3>1. head_sequence <= reader_cursor[r] + capacity
      BY <1>4, <2>2 DEF Overrun
    <3>2. rpc' = [rpc EXCEPT ![r] = "sequence"] /\ missed' = missed /\ reader_cursor' = reader_cursor
      BY <2>2 DEF ReadBegin
    <3>3. Types'
      BY <1>1, <1>2, <1>3, <1>4, <3>2 DEF Types, Power
    <3> QED BY <1>1, <1>3, <3>1, <3>2, <3>3 DEF Types
  <2> QED BY <2>1, <2>2
<1>6. OrderInv(r)'
  <2>1. reader_cursor[r] <= reader_cursor'[r] /\ reader_cursor'[r] \in Nat
        /\ (rpc'[r] # "idle" => reader_cursor'[r] < head'[r])
    BY <1>3, <1>4, <1>5
  <2>2. \A i \in 1..Len(got[r]) : got[r][i].sequence \in Nat /\ got[r][i].sequence <= reader_cursor[r]
    <3>1. \A i \in 1..Len(got[r]) : got[r][i] \in Record
      BY <1>4
    <3>2. \A m \in Record : m.sequence \in Nat
      BY DEF Record
    <3> QED BY <1>1, <3>1, <3>2 DEF OrderInv
  <2>3. \A i \in 1..Len(got[r]) : got[r][i].sequence <= reader_cursor'[r]
    BY <1>4, <2>1, <2>2
  <2> QED BY <1>1, <1>3, <2>1, <2>3 DEF OrderInv
<1>7. ASSUME ~shared PROVE BuiltInv(r)'
  <2>1. Accounted(r)'
    <3>1. reader_cursor[r] = Len(got[r]) + missed[r] /\ Len(got[r]) \in Nat
      BY <1>1, <1>4, <1>7 DEF BuiltInv, Accounted
    <3>2. reader_cursor'[r] = Len(got[r]) + missed'[r]
      BY <1>4, <1>5, <3>1
    <3> QED BY <1>3, <3>2 DEF Accounted
  <2>2. \A i \in 1..Len(got[r]) : Whole(got[r][i])
    BY <1>1, <1>7 DEF BuiltInv
  <2> QED BY <1>2, <1>3, <1>5, <1>7, <2>1, <2>2 DEF BuiltInv
<1>8. \A q \in Readers \ {r} : OrderInv(q)' /\ (~shared => BuiltInv(q)')
  BY <1>2, <1>3, <1>5, OtherReaders
<1> QED BY <1>2, <1>5, <1>6, <1>7, <1>8, ReaderSlots DEF IndInv

\* The copy of a field: as built it is the field of the message after the cursor, which the
\* ring still keeps.
LEMMA ReadCopyIndInv ==
  ASSUME IndInv, NEW r \in Readers, ReadCopy(r)
  PROVE  IndInv'
<1>1. Types /\ OrderInv(r) /\ (~shared => BuiltInv(r))
  BY DEF IndInv
<1>2. /\ UNCHANGED writerVars /\ UNCHANGED <<shared, capacity, head_sequence, slots, wpc>>
      /\ UNCHANGED <<reader_cursor, head, got, missed>> /\ rpc[r] # "idle"
  BY ReaderSlots DEF ReadCopy, Copy
<1>3. /\ reader_cursor[r] + 1 \in Nat /\ head_sequence \in Nat /\ reader_cursor[r] \in Nat
      /\ capacity \in Nat \ {0} /\ Power /\ slots \in [0..capacity-1 -> Record]
      /\ out \in [Readers -> Record]
  <2>1. Power /\ slots \in [0..capacity-1 -> Record] /\ out \in [Readers -> Record]
        /\ head_sequence \in Nat /\ reader_cursor[r] \in Nat
    BY <1>1 DEF Types
  <2>2. reader_cursor[r] + 1 \in Nat
    BY <2>1
  <2>3. capacity \in Nat \ {0}
    BY <2>1, SlotIsRemainder
  <2> QED BY <2>1, <2>2, <2>3
<1>4. PICK m \in Record : m = slots[Slot(reader_cursor[r] + 1)]
  BY <1>3, SlotIsRemainder
<1>5. \/ /\ rpc[r] = "sequence" /\ rpc' = [rpc EXCEPT ![r] = "first"]
         /\ out' = [out EXCEPT ![r].sequence = m.sequence]
      \/ /\ rpc[r] = "first" /\ rpc' = [rpc EXCEPT ![r] = "second"]
         /\ out' = [out EXCEPT ![r].first = m.first]
      \/ /\ rpc[r] = "second" /\ rpc' = [rpc EXCEPT ![r] = "check"]
         /\ out' = [out EXCEPT ![r].second = m.second]
  BY <1>3, <1>4 DEF ReadCopy, Copy, Record
<1>6. out' \in [Readers -> Record]
  <2>1. m.sequence \in Nat /\ m.first \in Nat /\ m.second \in Nat
    BY DEF Record
  <2>2. CASE out' = [out EXCEPT ![r].sequence = m.sequence]
    BY <1>3, <2>1, <2>2 DEF Record
  <2>3. CASE out' = [out EXCEPT ![r].first = m.first]
    BY <1>3, <2>1, <2>3 DEF Record
  <2>4. CASE out' = [out EXCEPT ![r].second = m.second]
    BY <1>3, <2>1, <2>4 DEF Record
  <2> QED BY <1>5, <2>2, <2>3, <2>4
<1>7. Types'
  BY <1>1, <1>2, <1>5, <1>6 DEF Types, Power
<1>8. OrderInv(r)'
  BY <1>1, <1>2 DEF OrderInv
<1>9. ASSUME ~shared PROVE BuiltInv(r)'
  <2>1. BuiltInv(r)
    BY <1>1, <1>9
  <2>2. wpc = "idle" /\ reader_cursor[r] < head_sequence /\ head_sequence <= reader_cursor[r] + capacity
    BY <1>2, <2>1 DEF BuiltInv
  <2>3. reader_cursor[r] + 1 \in Kept
    BY <1>3, <2>2 DEF Kept
  <2>4. m = [sequence |-> reader_cursor[r] + 1, first |-> reader_cursor[r] + 1,
             second |-> reader_cursor[r] + 1]
    BY <1>4, <1>9, <2>3 DEF IndInv, SlotInv, Record
  <2>5. /\ rpc'[r] \in {"first", "second", "check"} => out'[r].sequence = reader_cursor[r] + 1
        /\ rpc'[r] \in {"second", "check"} => out'[r].first = reader_cursor[r] + 1
        /\ rpc'[r] = "check" => out'[r].second = reader_cursor[r] + 1
    <3>1. rpc[r] \in {"first", "second"} => out[r].sequence = reader_cursor[r] + 1
      BY <2>1 DEF BuiltInv
    <3>2. rpc[r] = "second" => out[r].first = reader_cursor[r] + 1
      BY <2>1 DEF BuiltInv
    <3>3. rpc \in [Readers -> {"idle", "sequence", "first", "second", "check"}]
      BY <1>1 DEF Types
    <3> QED BY <1>3, <1>5, <2>4, <3>1, <3>2, <3>3 DEF Record
  <2>6. Accounted(r)' /\ \A i \in 1..Len(got[r]) : Whole(got[r][i])
    BY <1>2, <2>1 DEF BuiltInv, Accounted
  <2> QED BY <1>2, <2>2, <2>5, <2>6 DEF BuiltInv
<1>10. \A q \in Readers \ {r} : OrderInv(q)' /\ (~shared => BuiltInv(q)')
  <2>1. \A q \in Readers \ {r} : rpc'[q] = rpc[q] /\ out'[q] = out[q]
    BY <1>1, <1>5 DEF Types
  <2> QED BY <1>2, <2>1, OtherReaders
<1> QED BY <1>2, <1>7, <1>8, <1>9, <1>10, ReaderSlots DEF IndInv

\* The check of the copy: as built the copy is the message after the cursor.
LEMMA ReadCheckIndInv ==
  ASSUME IndInv, NEW r \in Readers, ReadCheck(r)
  PROVE  IndInv'
<1>1. Types /\ OrderInv(r) /\ (~shared => BuiltInv(r))
  BY DEF IndInv
<1>2. /\ UNCHANGED writerVars /\ UNCHANGED <<shared, capacity, head_sequence, slots, wpc>>
      /\ rpc[r] = "check" /\ missed' = missed /\ rpc' = [rpc EXCEPT ![r] = "idle"]
      /\ out' = [out EXCEPT ![r] = Empty] /\ head' = [head EXCEPT ![r] = 0]
  BY ReaderSlots DEF ReadCheck
<1>3. PICK c \in Nat : c = reader_cursor[r]
  BY <1>1 DEF Types
<1>4. PICK g \in Seq(Record) : g = got[r]
  BY <1>1 DEF Types
<1>5. PICK m \in Record : m = out[r]
  BY <1>1 DEF Types
<1>6. /\ c < head[r] /\ head[r] \in Nat
      /\ \A i \in 1..Len(g) : g[i].sequence <= c /\ g[i].sequence \in Nat
      /\ \A i, j \in 1..Len(g) : i < j => g[i].sequence < g[j].sequence
  <2>1. \A i \in 1..Len(g) : g[i] \in Record
    OBVIOUS
  <2>2. \A x \in Record : x.sequence \in Nat
    BY DEF Record
  <2>3. head[r] \in Nat
    BY <1>1 DEF Types
  <2> QED BY <1>1, <1>2, <1>3, <1>4, <2>1, <2>2, <2>3 DEF OrderInv
<1>7. Empty \in Record /\ rpc'[r] = "idle"
  BY <1>1, <1>2 DEF Empty, Record, Types
<1>8. CASE m.sequence = c + 1
  <2>1. PICK a \in Seq(Record) : a = Append(g, m)
    <3>1. Append(g, m) \in Seq(Record)
      OBVIOUS
    <3> QED BY <3>1
  <2>2. /\ reader_cursor' = [reader_cursor EXCEPT ![r] = c + 1] /\ got' = [got EXCEPT ![r] = a]
    BY <1>3, <1>4, <1>5, <1>8, <2>1 DEF ReadCheck, AfterOk
  <2>3. Types'
    BY <1>1, <1>2, <1>7, <2>2 DEF Types, Power
  <2>4. reader_cursor'[r] = c + 1 /\ got'[r] = a
    BY <1>1, <2>2 DEF Types
  <2>5. /\ Len(a) = Len(g) + 1 /\ Len(g) \in Nat /\ a[Len(g) + 1] = m
        /\ \A i \in 1..Len(g) : a[i] = g[i]
        /\ \A i \in 1..Len(a) : i \in 1..Len(g) \/ i = Len(g) + 1
    BY <2>1
  <2>6. OrderInv(r)'
    <3>1. \A i \in 1..Len(a) : a[i].sequence <= c + 1
      BY <1>6, <1>8, <2>5
    <3>2. ASSUME NEW i \in 1..Len(a), NEW j \in 1..Len(a), i < j
          PROVE  a[i].sequence < a[j].sequence
      <4>1. i \in 1..Len(g) /\ a[i] = g[i]
        BY <2>5, <3>2
      <4>2. CASE j \in 1..Len(g)
        BY <1>6, <2>5, <3>2, <4>1, <4>2
      <4>3. CASE j = Len(g) + 1
        <5>1. a[j].sequence = c + 1 /\ g[i].sequence <= c /\ g[i].sequence \in Nat
          BY <1>6, <1>8, <2>5, <4>1, <4>3
        <5> QED BY <4>1, <5>1
      <4> QED BY <2>5, <4>2, <4>3
    <3> QED BY <1>7, <2>4, <3>1, <3>2 DEF OrderInv
  <2>7. ASSUME ~shared PROVE BuiltInv(r)'
    <3>1. /\ m.first = c + 1 /\ m.second = c + 1 /\ c = Len(g) + missed[r]
          /\ \A i \in 1..Len(g) : Whole(g[i])
      BY <1>1, <1>2, <1>3, <1>4, <1>5, <2>7 DEF BuiltInv, Accounted
    <3>2. Whole(m)
      BY <1>8, <3>1 DEF Whole
    <3>3. \A i \in 1..Len(a) : Whole(a[i])
      BY <2>5, <3>1, <3>2
    <3>4. Accounted(r)'
      <4>1. missed[r] \in Nat /\ missed'[r] = missed[r]
        BY <1>1, <1>2 DEF Types
      <4>2. c + 1 = Len(a) + missed[r]
        <5>1. c = Len(g) + missed[r] /\ Len(a) = Len(g) + 1 /\ Len(g) \in Nat
          BY <2>5, <3>1
        <5> QED BY <4>1, <5>1
      <4> QED BY <2>4, <4>1, <4>2 DEF Accounted
    <3> QED BY <1>7, <2>4, <3>3, <3>4 DEF BuiltInv
  <2>8. \A q \in Readers \ {r} : OrderInv(q)' /\ (~shared => BuiltInv(q)')
    <3>1. \A q \in Readers \ {r} : /\ rpc'[q] = rpc[q] /\ reader_cursor'[q] = reader_cursor[q]
                                   /\ head'[q] = head[q] /\ out'[q] = out[q] /\ got'[q] = got[q]
      BY <1>1, <1>2, <2>2 DEF Types
    <3> QED BY <1>2, <3>1, OtherReaders
  <2> QED BY <1>2, <2>3, <2>6, <2>7, <2>8, ReaderSlots DEF IndInv
<1>9. CASE m.sequence # c + 1
  <2>1. reader_cursor' = [reader_cursor EXCEPT ![r] = head[r]] /\ got' = got
    BY <1>3, <1>5, <1>9 DEF ReadCheck
  <2>2. Types'
    BY <1>1, <1>2, <1>6, <1>7, <2>1 DEF Types, Power
  <2>3. OrderInv(r)'
    <3>1. reader_cursor'[r] = head[r] /\ got'[r] = g
      BY <1>1, <1>4, <2>1 DEF Types
    <3>2. \A i \in 1..Len(g) : g[i].sequence <= head[r]
      BY <1>6
    <3> QED BY <1>6, <1>7, <3>1, <3>2 DEF OrderInv
  <2>4. shared
    BY <1>1, <1>2, <1>3, <1>5, <1>9 DEF BuiltInv
  <2>5. \A q \in Readers \ {r} : OrderInv(q)'
    <3>1. \A q \in Readers \ {r} : /\ rpc'[q] = rpc[q] /\ reader_cursor'[q] = reader_cursor[q]
                                   /\ head'[q] = head[q] /\ out'[q] = out[q] /\ got'[q] = got[q]
      BY <1>1, <1>2, <2>1 DEF Types
    <3> QED BY <1>2, <3>1, OtherReaders
  <2> QED BY <1>2, <2>2, <2>3, <2>4, <2>5 DEF IndInv
<1> QED BY <1>8, <1>9

\* Every step of the writer and of a reader keeps the invariant.
LEMMA NextIndInv == IndInv /\ [Next]_vars => IndInv'
<1> SUFFICES ASSUME IndInv, [Next]_vars PROVE IndInv'
  OBVIOUS
<1>1. CASE UNCHANGED vars
  <2>1. UNCHANGED writerVars /\ UNCHANGED readerVars /\ UNCHANGED <<shared, capacity, head_sequence, slots, wpc>>
    BY <1>1, ReaderSlots DEF vars
  <2>2. \A q \in Readers : OrderInv(q)' /\ (~shared => BuiltInv(q)')
    BY <2>1, OtherReaders DEF readerVars
  <2>3. Types'
    BY <2>1 DEF IndInv, Types, Power, readerVars
  <2> QED BY <2>1, <2>2, <2>3, ReaderSlots DEF IndInv
<1> QED BY <1>1, PublishBeginIndInv, StoreIndInv, PublishHeadIndInv, ReadBeginIndInv, ReadCopyIndInv,
           ReadCheckIndInv DEF Next

-----------------------------------------------------------------------------
(* Theorems                                                                *)

\* The inductive invariant holds of every behaviour of the ring.
THEOREM Invariance == Spec => []IndInv
BY InitIndInv, NextIndInv, PTL DEF Spec

\* try_read returns messages in the order of their sequence numbers and none twice, also
\* when the writer runs during the read and laps the reader.
THEOREM InOrder == Spec => []ReadInOrder
<1>1. IndInv => ReadInOrder
  <2> SUFFICES ASSUME IndInv, NEW r \in Readers,
                      NEW i \in DOMAIN got[r], NEW j \in DOMAIN got[r], i < j
               PROVE  got[r][i].sequence < got[r][j].sequence
    BY DEF ReadInOrder
  <2>1. OrderInv(r) /\ got[r] \in Seq(Record)
    BY DEF IndInv, Types
  <2>2. DOMAIN got[r] = 1..Len(got[r])
    BY <2>1
  <2> QED BY <2>1, <2>2 DEF OrderInv
<1> QED BY <1>1, Invariance, PTL

\* As built, with publishes and reads that exclude each other, try_read returns whole
\* messages, and its cursor is what it returned plus what Overrun reported: the slot a
\* publish reuses is never one that a reader within the last lap still has to read,
\* because the capacity is a power of two and the mask keeps the remainder.
THEOREM NothingLost == Spec => []NothingLostSilently
<1>1. IndInv => NothingLostSilently
  <2> SUFFICES ASSUME IndInv, ~shared, NEW r \in Readers
               PROVE  Accounted(r) /\ \A i \in DOMAIN got[r] : Whole(got[r][i])
    BY DEF NothingLostSilently
  <2>1. BuiltInv(r) /\ got[r] \in Seq(Record)
    BY DEF IndInv, Types
  <2>2. DOMAIN got[r] = 1..Len(got[r])
    BY <2>1
  <2> QED BY <2>1, <2>2 DEF BuiltInv
<1> QED BY <1>1, Invariance, PTL
=============================================================================
