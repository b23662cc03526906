---------------------------- MODULE IngestProofs ----------------------------
(***************************************************************************)
(* Proofs about the way in of crates/cefi-ingest: the transports of        *)
(* Transport over the kernel bypass bridge of BypassBridge, for rings,     *)
(* pools and kernel queues of any size and any number of packets, and the  *)
(* SequenceTracker, for any number of events.                              *)
(***************************************************************************)
EXTENDS SequenceTracker, Transport, SequenceTheorems, TLAPS

-----------------------------------------------------------------------------
(* Sequences                                                               *)

\* The smaller of two numbers.
LEMMA MinOfTwo ==
  ASSUME NEW a \in Nat, NEW b \in Nat
  PROVE  Min({a, b}) = IF a <= b THEN a ELSE b
<1> DEFINE m == IF a <= b THEN a ELSE b
<1>1. m \in {a, b} /\ \A y \in {a, b} : m <= y
  OBVIOUS
<1>2. \A x \in {a, b} : (\A y \in {a, b} : x <= y) => x = m
  OBVIOUS
<1> QED BY <1>1, <1>2 DEF Min

\* The smallest of three numbers.
LEMMA MinOfThree ==
  ASSUME NEW a \in Nat, NEW b \in Nat, NEW c \in Nat
  PROVE  Min({a, b, c}) \in Nat /\ Min({a, b, c}) <= b /\ Min({a, b, c}) <= c
<1>1. PICK m \in {a, b, c} : m <= a /\ m <= b /\ m <= c
  <2>1. CASE a <= b /\ a <= c
    BY <2>1
  <2>2. CASE b <= a /\ b <= c
    BY <2>2
  <2>3. CASE c <= a /\ c <= b
    BY <2>3
  <2> QED BY <2>1, <2>2, <2>3
<1>2. m \in {a, b, c} /\ \A y \in {a, b, c} : m <= y
  BY <1>1
<1>3. Min({a, b, c}) \in {a, b, c} /\ \A y \in {a, b, c} : Min({a, b, c}) <= y
  BY <1>2 DEF Min
<1> QED BY <1>3

\* A prefix and the rest are the whole: handing on a batch and keeping the rest changes
\* nothing about what was and will be handed on.
LEMMA MovedOver ==
  ASSUME NEW S, NEW d \in Seq(S), NEW w \in Seq(S), NEW n \in 0..Len(w)
  PROVE  /\ SubSeq(w, 1, n) \in Seq(S) /\ SubSeq(w, n + 1, Len(w)) \in Seq(S)
         /\ (d \o SubSeq(w, 1, n)) \o SubSeq(w, n + 1, Len(w)) = d \o w
<1> DEFINE p == SubSeq(w, 1, n)
           q == SubSeq(w, n + 1, Len(w))
<1>1. Len(w) \in Nat /\ \A i \in 1..Len(w) : w[i] \in S
  BY LenProperties, ElementOfSeq
<1>2. p \in Seq(S) /\ q \in Seq(S)
  BY <1>1, SubSeqProperties
<1>3. p \o q = SubSeq(w, 1, Len(w))
  <2>1. 1 \in 1..Len(w) + 1 /\ n \in 0..Len(w) /\ Len(w) \in n..Len(w) /\ 1 - 1 = 0
    BY <1>1
  <2> QED BY <2>1, ConcatAdjacentSubSeq
<1>4. SubSeq(w, 1, Len(w)) = w
  BY SubSeqFull
<1> HIDE DEF p, q
<1>5. (d \o p) \o q = d \o (p \o q)
  BY <1>2, ConcatAssociative, SMTT(30)
<1>6. (d \o p) \o q = d \o w
  BY <1>3, <1>4, <1>5, Zenon
<1> QED BY <1>2, <1>6 DEF p, q

\* The same for packets, which are numbers.
LEMMA PacketsMovedOver ==
  ASSUME NEW d \in Seq(Nat), NEW w \in Seq(Nat), NEW n \in 0..Len(w)
  PROVE  (d \o SubSeq(w, 1, n)) \o SubSeq(w, n + 1, Len(w)) = d \o w
BY MovedOver, ZenonT(60)

\* Packets in three parts.
LEMMA PacketsAssociative ==
  ASSUME NEW s \in Seq(Nat), NEW t \in Seq(Nat), NEW u \in Seq(Nat)
  PROVE  (s \o t) \o u = s \o (t \o u)
BY SMTT(30)

\* A prefix of a sequence.
LEMMA PrefixAsFunction ==
  ASSUME NEW S, NEW s \in Seq(S), NEW n \in 0..Len(s)
  PROVE  /\ SubSeq(s, 1, n) = [i \in 1..n |-> s[i]]
         /\ SubSeq(s, 1, n) \in Seq(S) /\ Len(SubSeq(s, 1, n)) = n
         /\ DOMAIN SubSeq(s, 1, n) = 1..n /\ \A i \in 1..n : SubSeq(s, 1, n)[i] = s[i] /\ i \in 1..Len(s)
OBVIOUS

\* What comes after a prefix.
LEMMA SuffixAsFunction ==
  ASSUME NEW S, NEW s \in Seq(S), NEW n \in 0..Len(s)
  PROVE  /\ SubSeq(s, n + 1, Len(s)) = [i \in 1..Len(s) - n |-> s[n + i]]
         /\ SubSeq(s, n + 1, Len(s)) \in Seq(S) /\ Len(SubSeq(s, n + 1, Len(s))) = Len(s) - n
         /\ DOMAIN SubSeq(s, n + 1, Len(s)) = 1..Len(s) - n
         /\ \A i \in 1..Len(s) - n : SubSeq(s, n + 1, Len(s))[i] = s[n + i] /\ n + i \in 1..Len(s)
<1> DEFINE t == SubSeq(s, n + 1, Len(s))
<1>1. /\ Len(s) \in Nat /\ n + 1 \in 1..Len(s) + 1 /\ Len(s) \in n..Len(s)
      /\ \A i \in 1..Len(s) - n : n + i \in 1..Len(s)
  BY LenProperties
<1>2. t \in Seq(S) /\ Len(t) = Len(s) - n
  BY <1>1, SMTT(30)
<1>3. DOMAIN t = 1..Len(s) - n /\ t = [i \in DOMAIN t |-> t[i]]
  BY <1>2, SMTT(30)
<1>4. \A i \in 1..Len(s) - n : t[i] = s[n + i]
  BY <1>1, SMTT(30)
<1> HIDE DEF t
<1>5. t = [i \in 1..Len(s) - n |-> s[n + i]]
  BY <1>3, <1>4, SMTT(30)
<1> QED BY <1>1, <1>2, <1>3, <1>4, <1>5 DEF t

\* A function on 1..n is a sequence of length n.
LEMMA FunctionIsSeq ==
  ASSUME NEW S, NEW n \in Nat, NEW f \in [1..n -> S]
  PROVE  f \in Seq(S) /\ Len(f) = n
<1>1. f \in Seq(S)
  BY SeqDef
<1>2. DOMAIN f = 1..n /\ Len(f) \in Nat /\ DOMAIN f = 1..Len(f)
  BY <1>1, LenProperties
<1> QED BY <1>1, <1>2

\* A sequence with one more element.
LEMMA AppendAsFunction ==
  ASSUME NEW S, NEW s \in Seq(S), NEW x \in S
  PROVE  Append(s, x) = [i \in 1..Len(s) + 1 |-> IF i = Len(s) + 1 THEN x ELSE s[i]]
<1> DEFINE n == Len(s) + 1
           t == [i \in 1..n |-> IF i = n THEN x ELSE s[i]]
<1>1. Len(s) \in Nat /\ n \in Nat /\ \A i \in 1..n : i # n => i \in 1..Len(s)
  OBVIOUS
<1>2. /\ Append(s, x) \in Seq(S) /\ Len(Append(s, x)) = n /\ Append(s, x)[n] = x
      /\ \A i \in 1..Len(s) : Append(s, x)[i] = s[i]
  BY AppendProperties
<1> HIDE DEF n
<1>3. t \in [1..n -> S]
  BY <1>1, ElementOfSeq
<1>4. t \in Seq(S) /\ Len(t) = n
  BY <1>1, <1>3, FunctionIsSeq
<1>5. \A i \in 1..n : Append(s, x)[i] = t[i]
  BY <1>1, <1>2
<1> HIDE DEF t
<1>6. Append(s, x) = t
  BY <1>2, <1>4, <1>5, SeqEqual
<1> QED BY <1>6 DEF t, n

\* Appending at the end of the second of two sequences.
LEMMA AppendConcat ==
  ASSUME NEW S, NEW s \in Seq(S), NEW t \in Seq(S), NEW x \in S
  PROVE  s \o Append(t, x) = Append(s \o t, x)
OBVIOUS

\* Two sequences in a row are without repetition when each is and they share nothing.
LEMMA InjectiveConcat ==
  ASSUME NEW S, NEW s \in Seq(S), NEW t \in Seq(S)
  PROVE  IsInjective(s \o t) <=> /\ IsInjective(s) /\ IsInjective(t)
                                 /\ \A i \in 1..Len(s), j \in 1..Len(t) : s[i] # t[j]
<1>1. /\ Len(s) \in Nat /\ Len(t) \in Nat /\ DOMAIN s = 1..Len(s) /\ DOMAIN t = 1..Len(t)
      /\ DOMAIN (s \o t) = 1..Len(s) + Len(t)
      /\ \A i \in 1..Len(s) : (s \o t)[i] = s[i]
      /\ \A j \in 1..Len(t) : (s \o t)[Len(s) + j] = t[j]
  OBVIOUS
<1> DEFINE st == s \o t
<1> HIDE DEF st
<1>2. ASSUME IsInjective(st)
      PROVE  /\ IsInjective(s) /\ IsInjective(t)
             /\ \A i \in 1..Len(s), j \in 1..Len(t) : s[i] # t[j]
  <2>0. \A a, b \in 1..Len(s) + Len(t) : st[a] = st[b] => a = b
    BY <1>1, <1>2 DEF IsInjective, st
  <2>1. /\ \A i \in 1..Len(s) : st[i] = s[i] /\ i \in 1..Len(s) + Len(t)
        /\ \A j \in 1..Len(t) : st[Len(s) + j] = t[j] /\ Len(s) + j \in 1..Len(s) + Len(t)
    BY <1>1 DEF st
  <2>2. ASSUME NEW i \in 1..Len(s), NEW j \in 1..Len(s), s[i] = s[j] PROVE i = j
    BY <2>0, <2>1, <2>2, Zenon
  <2>3. ASSUME NEW i \in 1..Len(t), NEW j \in 1..Len(t), t[i] = t[j] PROVE i = j
    <3>1. Len(s) + i = Len(s) + j
      BY <2>0, <2>1, <2>3, ZenonT(40)
    <3> QED BY <1>1, <3>1
  <2>4. ASSUME NEW i \in 1..Len(s), NEW j \in 1..Len(t), s[i] = t[j] PROVE FALSE
    <3>1. i = Len(s) + j
      BY <2>0, <2>1, <2>4, Zenon
    <3> QED BY <1>1, <3>1
  <2> QED BY <1>1, <2>2, <2>3, <2>4 DEF IsInjective
<1>3. ASSUME IsInjective(s), IsInjective(t), \A i \in 1..Len(s), j \in 1..Len(t) : s[i] # t[j]
      PROVE  IsInjective(st)
  <2>0. SUFFICES ASSUME NEW a \in 1..Len(s) + Len(t), NEW b \in 1..Len(s) + Len(t), st[a] = st[b]
                 PROVE  a = b
    BY <1>1 DEF IsInjective, st
  <2>1. ASSUME NEW c \in 1..Len(s) + Len(t)
        PROVE  \/ c \in 1..Len(s) /\ st[c] = s[c]
               \/ c - Len(s) \in 1..Len(t) /\ st[c] = t[c - Len(s)]
    BY <1>1 DEF st
  <2>2. CASE a \in 1..Len(s) /\ st[a] = s[a]
    <3>1. CASE b \in 1..Len(s) /\ st[b] = s[b]
      BY <1>1, <1>3, <2>0, <2>2, <3>1 DEF IsInjective
    <3>2. CASE b - Len(s) \in 1..Len(t) /\ st[b] = t[b - Len(s)]
      BY <1>3, <2>0, <2>2, <3>2
    <3> QED BY <2>1, <3>1, <3>2
  <2>3. CASE a - Len(s) \in 1..Len(t) /\ st[a] = t[a - Len(s)]
    <3>1. CASE b \in 1..Len(s) /\ st[b] = s[b]
      BY <1>3, <2>0, <2>3, <3>1
    <3>2. CASE b - Len(s) \in 1..Len(t) /\ st[b] = t[b - Len(s)]
      <4>1. a - Len(s) = b - Len(s)
        BY <1>1, <1>3, <2>0, <2>3, <3>2 DEF IsInjective
      <4> QED BY <1>1, <4>1
    <3> QED BY <2>1, <3>1, <3>2
  <2> QED BY <2>1, <2>2, <2>3
<1> QED BY <1>2, <1>3 DEF st
-----------------------------------------------------------------------------
(* BypassBridge                                                            *)

\* No buffer is twice in the first `tail' slots of a ring and a stack.
Unshared(tail, ring, stack) ==
  /\ \A i, j \in 0..tail - 1 : ring[i] = ring[j] => i = j
  /\ IsInjective(stack)
  /\ \A i \in 0..tail - 1 : ~Contains(stack, ring[i])

\* The types of the bridge, and that posted and free buffers are never more than there
\* are: a released buffer always finds room on the stack, and the window never wraps.
BridgeTypes ==
  /\ free \in Seq(Buffers) /\ rx_ring_tail \in 0..N /\ rx_ring_head \in 0..rx_ring_tail
  /\ posted \in [Buffers -> Buffers] /\ storage \in [Buffers -> Nat]
  /\ Len(free) + rx_ring_tail <= N

\* Buffer b is on the stack or in the first `tail' slots of the ring.
InUse(b, tail, ring, stack) == Contains(stack, b) \/ \E i \in 0..tail - 1 : ring[i] = b

HistoryTypes == arrived \in Nat /\ accepted \in Seq(Nat) /\ delivered \in Seq(Nat)

BridgeInv == BridgeTypes /\ NoBufferShared /\ LossAccounted

\* The packets that wait in the ring.
RingWindow == [i \in 1..rx_ring_head |-> storage[posted[i - 1]]]

\* refill_rx_ring moves buffers from the stack to the end of the window and touches nothing
\* that is in it.
LEMMA RefillMoves ==
  ASSUME NEW head \in Nat, NEW tail \in Nat, NEW ring \in [Buffers -> Buffers],
         NEW stack \in Seq(Buffers), head <= tail, tail + Len(stack) <= N,
         Unshared(tail, ring, stack), Refill(head, tail, ring, stack)
  PROVE  /\ free' \in Seq(Buffers) /\ rx_ring_tail' \in tail..N /\ rx_ring_head' = head
         /\ posted' \in [Buffers -> Buffers]
         /\ Len(free') + rx_ring_tail' <= N
         /\ \A i \in 0..tail - 1 : posted'[i] = ring[i]
         /\ NoBufferShared'
         /\ \A b \in Buffers : InUse(b, rx_ring_tail', posted', free') <=> InUse(b, tail, ring, stack)
<1> DEFINE L == Len(stack)
           k == RefillCount(head, tail, stack)
<1>0. N \in Nat \ {0} /\ L \in Nat
  BY BridgeAssumption
<1>1. k \in 0..L /\ tail + k <= N
  BY <1>0, MinOfTwo DEF RefillCount
<1>a. stack \in [1..L -> Buffers] /\ DOMAIN stack = 1..L
  OBVIOUS
<1> HIDE DEF k, L
<1>2. /\ rx_ring_head' = head /\ rx_ring_tail' = tail + k
      /\ free' = SubSeq(stack, 1, L - k)
  BY DEF Refill, k, L
<1>3. \A d \in 0..k - 1 : (tail + d) % N = tail + d
  BY <1>0, <1>1
<1>4. /\ posted' \in [Buffers -> Buffers]
      /\ \A i \in Buffers : posted'[i] = IF i \in tail..tail + k - 1 THEN stack[L - (i - tail)] ELSE ring[i]
  <2>1. posted' = [i \in Buffers |->
                    IF \E d \in 0..k - 1 : i = (tail + d) % N
                      THEN stack[L - CHOOSE d \in 0..k - 1 : i = (tail + d) % N] ELSE ring[i]]
    BY DEF Refill, k, L
  <2>2. ASSUME NEW i \in Buffers
        PROVE  posted'[i] = IF i \in tail..tail + k - 1 THEN stack[L - (i - tail)] ELSE ring[i]
    <3>1. CASE i \in tail..tail + k - 1
      <4>1. i - tail \in 0..k - 1 /\ i = (tail + (i - tail)) % N
        <5>1. i - tail \in 0..k - 1 /\ tail + (i - tail) = i
          BY <1>0, <1>1, <3>1 DEF Buffers
        <5>2. (tail + (i - tail)) % N = tail + (i - tail)
          BY <1>3, <5>1
        <5> QED BY <5>1, <5>2
      <4>2. ASSUME NEW d \in 0..k - 1, i = (tail + d) % N PROVE d = i - tail
        <5>1. i = tail + d
          BY <1>3, <4>2
        <5> QED BY <1>1, <5>1
      <4>3. (CHOOSE d \in 0..k - 1 : i = (tail + d) % N) = i - tail
        BY <4>1, <4>2
      <4> QED BY <2>1, <3>1, <4>1, <4>3
    <3>2. CASE i \notin tail..tail + k - 1
      <4>1. ~ \E d \in 0..k - 1 : i = (tail + d) % N
        <5> SUFFICES ASSUME NEW d \in 0..k - 1, i = (tail + d) % N PROVE FALSE
          OBVIOUS
        <5>1. i = tail + d
          BY <1>3
        <5> QED BY <1>1, <3>2, <5>1
      <4> QED BY <2>1, <3>2, <4>1
    <3> QED BY <3>1, <3>2
  <2>3. ASSUME NEW i \in Buffers PROVE posted'[i] \in Buffers
    <3>1. CASE i \in tail..tail + k - 1
      <4>1. L - (i - tail) \in 1..L
        BY <1>0, <1>1, <3>1
      <4> QED BY <1>a, <2>2, <3>1, <4>1
    <3>2. CASE i \notin tail..tail + k - 1
      BY <2>2, <3>2
    <3> QED BY <3>1, <3>2
  <2> QED BY <2>1, <2>2, <2>3
<1>5. \A i \in 0..tail - 1 : i \in Buffers /\ posted'[i] = ring[i]
  BY <1>0, <1>1, <1>4 DEF Buffers
<1>6. ASSUME NEW i \in tail..tail + k - 1
      PROVE  posted'[i] = stack[L - (i - tail)] /\ L - (i - tail) \in (L - k + 1)..L
  <2>1. i \in Buffers
    BY <1>0, <1>1 DEF Buffers
  <2> QED BY <1>0, <1>1, <1>4, <2>1
<1>7. free' \in Seq(Buffers) /\ Len(free') = L - k /\ \A i \in 1..L - k : free'[i] = stack[i]
  <2>1. L - k \in 0..Len(stack)
    BY <1>0, <1>1 DEF L
  <2> QED BY <1>2, <2>1, PrefixAsFunction
<1>8. /\ \A a, b \in 1..L : stack[a] = stack[b] => a = b
      /\ \A i \in 0..tail - 1, a \in 1..L : stack[a] # ring[i]
  BY <1>a DEF Unshared, IsInjective, Contains, L
<1>9. NoBufferShared'
  <2>1. ASSUME NEW i \in 0..tail + k - 1, NEW j \in 0..tail + k - 1, posted'[i] = posted'[j] PROVE i = j
    <3>1. CASE i \in 0..tail - 1 /\ j \in 0..tail - 1
      BY <1>5, <2>1, <3>1 DEF Unshared
    <3>2. CASE i \in 0..tail - 1 /\ j \in tail..tail + k - 1
      BY <1>0, <1>1, <1>5, <1>6, <1>8, <2>1, <3>2
    <3>3. CASE i \in tail..tail + k - 1 /\ j \in 0..tail - 1
      BY <1>0, <1>1, <1>5, <1>6, <1>8, <2>1, <3>3
    <3>4. CASE i \in tail..tail + k - 1 /\ j \in tail..tail + k - 1
      <4>1. L - (i - tail) \in 1..L /\ L - (j - tail) \in 1..L
        BY <1>0, <1>1, <3>4
      <4>2. L - (i - tail) = L - (j - tail)
        BY <1>6, <1>8, <2>1, <3>4, <4>1
      <4> QED BY <1>0, <1>1, <4>2
    <3> QED BY <1>0, <1>1, <3>1, <3>2, <3>3, <3>4
  <2>2. DOMAIN free' = 1..L - k /\ \A a, b \in 1..L - k : free'[a] = free'[b] => a = b
    <3>1. DOMAIN free' = 1..L - k /\ \A a \in 1..L - k : a \in 1..L
      BY <1>0, <1>1, <1>7
    <3> QED BY <1>7, <1>8, <3>1
  <2>3. ASSUME NEW i \in 0..tail + k - 1, NEW a \in 1..L - k PROVE free'[a] # posted'[i]
    <3>1. CASE i \in 0..tail - 1
      BY <1>0, <1>1, <1>5, <1>7, <1>8, <3>1
    <3>2. CASE i \in tail..tail + k - 1
      <4>1. posted'[i] = stack[L - (i - tail)] /\ L - (i - tail) \in 1..L /\ L - (i - tail) # a
        BY <1>0, <1>1, <1>6, <3>2
      <4>2. a \in 1..L /\ free'[a] = stack[a]
        BY <1>0, <1>1, <1>7
      <4> QED BY <1>8, <4>1, <4>2
    <3> QED BY <1>0, <1>1, <3>1, <3>2
  <2>4. rx_ring_tail' = tail + k /\ Len(free') = L - k
    BY <1>2, <1>7
  <2>5. \A i, j \in 0..rx_ring_tail' - 1 : posted'[i] = posted'[j] => i = j
    BY <1>0, <1>1, <2>1, <2>4
  <2>6. \A a, b \in DOMAIN free' : free'[a] = free'[b] => a = b
    BY <2>2, Zenon
  <2>7. \A i \in 0..rx_ring_tail' - 1 : ~ \E a \in 1..Len(free') : free'[a] = posted'[i]
    BY <1>0, <1>1, <2>3, <2>4
  <2> QED BY <2>5, <2>6, <2>7, Zenon DEF NoBufferShared, Contains, IsInjective
<1>10. tail + k \in tail..N /\ (L - k) + (tail + k) <= N
  BY <1>0, <1>1 DEF L
<1>11. ASSUME NEW b \in Buffers
       PROVE  InUse(b, rx_ring_tail', posted', free') <=> InUse(b, tail, ring, stack)
  <2>1. ASSUME NEW a \in 1..L - k, free'[a] = b PROVE \E c \in 1..L : stack[c] = b
    <3>1. a \in 1..L
      BY <1>0, <1>1
    <3> QED BY <1>7, <2>1, <3>1
  <2>2. ASSUME NEW i \in 0..tail + k - 1, posted'[i] = b
        PROVE  (\E c \in 1..L : stack[c] = b) \/ \E j \in 0..tail - 1 : ring[j] = b
    <3>1. CASE i \in 0..tail - 1
      BY <1>5, <2>2, <3>1
    <3>2. CASE i \in tail..tail + k - 1
      <4>1. L - (i - tail) \in 1..L /\ stack[L - (i - tail)] = b
        BY <1>0, <1>1, <1>6, <2>2, <3>2
      <4> QED BY <4>1
    <3> QED BY <1>0, <1>1, <3>1, <3>2
  <2>3. ASSUME NEW c \in 1..L, stack[c] = b
        PROVE  (\E a \in 1..L - k : free'[a] = b) \/ \E i \in 0..tail + k - 1 : posted'[i] = b
    <3>1. CASE c \in 1..L - k
      BY <1>7, <2>3, <3>1
    <3>2. CASE c \in (L - k + 1)..L
      <4> DEFINE i == tail + (L - c)
      <4>1. i \in tail..tail + k - 1 /\ i \in 0..tail + k - 1 /\ L - (i - tail) = c
        BY <1>0, <1>1, <3>2
      <4> HIDE DEF i
      <4> QED BY <1>6, <2>3, <4>1
    <3> QED BY <1>0, <1>1, <3>1, <3>2
  <2>4. ASSUME NEW j \in 0..tail - 1, ring[j] = b PROVE \E i \in 0..tail + k - 1 : posted'[i] = b
    <3>1. j \in 0..tail + k - 1
      BY <1>0, <1>1
    <3> QED BY <1>5, <2>4, <3>1
  <2>5. Len(free') = L - k /\ rx_ring_tail' = tail + k /\ Len(stack) = L
    BY <1>2, <1>7 DEF L
  <2>6. InUse(b, rx_ring_tail', posted', free')
          <=> (\E a \in 1..L - k : free'[a] = b) \/ \E i \in 0..tail + k - 1 : posted'[i] = b
    <3>1. InUse(b, rx_ring_tail', posted', free')
            <=> (\E a \in 1..Len(free') : free'[a] = b) \/ \E i \in 0..rx_ring_tail' - 1 : posted'[i] = b
      BY Zenon DEF InUse, Contains
    <3>2. 1..Len(free') = 1..L - k /\ 0..rx_ring_tail' - 1 = 0..tail + k - 1
      BY <2>5, <1>0, <1>1
    <3> QED BY <3>1, <3>2, Zenon
  <2>7. InUse(b, tail, ring, stack) <=> (\E c \in 1..L : stack[c] = b) \/ \E j \in 0..tail - 1 : ring[j] = b
    BY <2>5 DEF InUse, Contains
  <2> QED BY <2>1, <2>2, <2>3, <2>4, <2>6, <2>7
<1> QED BY <1>2, <1>4, <1>5, <1>7, <1>9, <1>10, <1>11

\* What it means that the losses are accounted for.
LEMMA Accounts == LossAccounted <=> \A b \in Buffers : b \in abandoned <=> ~InUse(b, rx_ring_tail, posted, free)
BY DEF LossAccounted, InUse

\* The packets that wait are a sequence of packets.
LEMMA WindowType ==
  ASSUME BridgeInv
  PROVE  RingWindow \in Seq(Nat) /\ Len(RingWindow) = rx_ring_head /\ rx_ring_head \in Nat
<1>0. N \in Nat \ {0}
  BY BridgeAssumption
<1>1. /\ rx_ring_head \in 0..N /\ rx_ring_tail \in 0..N /\ rx_ring_head <= rx_ring_tail
      /\ posted \in [Buffers -> Buffers] /\ storage \in [Buffers -> Nat]
  BY <1>0 DEF BridgeInv, BridgeTypes
<1>2. ASSUME NEW i \in 1..rx_ring_head PROVE storage[posted[i - 1]] \in Nat
  <2>1. i - 1 \in Buffers
    BY <1>0, <1>1 DEF Buffers
  <2> QED BY <1>1, <2>1
<1>3. RingWindow \in [1..rx_ring_head -> Nat]
  BY <1>2 DEF RingWindow
<1> QED BY <1>0, <1>1, <1>3, FunctionIsSeq

\* What a step does to the bridge: the packets that wait are the same, or fewer by those
\* delivered, or more by the one injected; buffers stay in one place.
LEMMA InjectPacketStep ==
  ASSUME BridgeInv, HistoryTypes, InjectPacket
  PROVE  BridgeInv' /\ HistoryTypes' /\ RingWindow' = Append(RingWindow, arrived + 1)
<1>0. N \in Nat \ {0}
  BY BridgeAssumption
<1>1. rx_ring_head \in 0..N - 1 /\ rx_ring_head + 1 \in 0..rx_ring_tail /\ rx_ring_head % N = rx_ring_head
  <2>1. rx_ring_tail \in 0..N /\ rx_ring_head \in 0..rx_ring_tail /\ rx_ring_head < rx_ring_tail
    BY DEF InjectPacket, BridgeInv, BridgeTypes
  <2>2. rx_ring_head \in 0..N - 1 /\ rx_ring_head + 1 \in 0..rx_ring_tail
    BY <1>0, <2>1
  <2> QED BY <1>0, <2>2
<1>2. storage' = [storage EXCEPT ![posted[rx_ring_head]] = arrived + 1]
  BY <1>1 DEF InjectPacket
<1>3. BridgeInv'
  <2>1. storage' \in [Buffers -> Nat]
    <3>1. storage \in [Buffers -> Nat] /\ arrived + 1 \in Nat
      BY DEF BridgeInv, BridgeTypes, HistoryTypes
    <3> QED BY <1>2, <3>1
  <2>2. BridgeTypes'
    BY <1>1, <2>1 DEF InjectPacket, BridgeInv, BridgeTypes
  <2>3. NoBufferShared' /\ LossAccounted'
    BY DEF InjectPacket, BridgeInv, NoBufferShared, LossAccounted
  <2> QED BY <2>2, <2>3 DEF BridgeInv
<1>4. HistoryTypes'
  BY DEF InjectPacket, Arrives, HistoryTypes
<1>5. RingWindow' = Append(RingWindow, arrived + 1)
  <2>1. RingWindow' = [i \in 1..rx_ring_head + 1 |-> storage'[posted[i - 1]]]
    BY DEF RingWindow, InjectPacket
  <2>2. storage'[posted[rx_ring_head]] = arrived + 1
    BY <1>1, <1>2 DEF BridgeInv, BridgeTypes, Buffers
  <2>3. ASSUME NEW i \in 1..rx_ring_head PROVE storage'[posted[i - 1]] = storage[posted[i - 1]]
    <3>1. i - 1 \in 0..rx_ring_tail - 1 /\ rx_ring_head \in 0..rx_ring_tail - 1 /\ i - 1 # rx_ring_head
      BY <1>0, <1>1 DEF BridgeInv, BridgeTypes
    <3>2. i - 1 \in Buffers /\ rx_ring_head \in Buffers
      BY <1>0, <1>1 DEF Buffers
    <3>3. posted[i - 1] # posted[rx_ring_head]
      BY <3>1 DEF BridgeInv, NoBufferShared
    <3> QED BY <1>2, <3>2, <3>3 DEF BridgeInv, BridgeTypes
  <2>4. RingWindow \in Seq(Nat) /\ Len(RingWindow) = rx_ring_head
    BY WindowType
  <2>5. Append(RingWindow, arrived + 1) = [i \in 1..rx_ring_head + 1 |->
             IF i = rx_ring_head + 1 THEN arrived + 1 ELSE storage[posted[i - 1]]]
    BY <1>1, <2>4 DEF RingWindow
  <2>6. \A i \in 1..rx_ring_head + 1 :
           storage'[posted[i - 1]] = IF i = rx_ring_head + 1 THEN arrived + 1 ELSE storage[posted[i - 1]]
    BY <1>1, <2>2, <2>3
  <2> QED BY <2>1, <2>5, <2>6
<1> QED BY <1>3, <1>4, <1>5

\* poll_rx_burst: what is delivered is the front of what waited, and the rest still waits.
LEMMA PollRxBurstStep ==
  ASSUME NEW max \in 1..N, BridgeInv, HistoryTypes, PollRxBurst(max)
  PROVE  BridgeInv' /\ HistoryTypes' /\ delivered' \o RingWindow' = delivered \o RingWindow
<1> DEFINE n == Min({max, rx_ring_head})
           rest == rx_ring_head - n
<1>0. N \in Nat \ {0}
  BY BridgeAssumption
<1>1. /\ rx_ring_tail \in 0..N /\ rx_ring_head \in 0..rx_ring_tail
      /\ free \in Seq(Buffers) /\ Len(free) \in Nat /\ Len(free) + rx_ring_tail <= N
      /\ posted \in [Buffers -> Buffers] /\ storage \in [Buffers -> Nat]
  BY DEF BridgeInv, BridgeTypes
<1>2. n \in 0..rx_ring_head
  <2>1. max \in Nat /\ rx_ring_head \in Nat
    BY <1>0, <1>1
  <2> QED BY <2>1, MinOfTwo
<1>3. /\ delivered' = delivered \o [i \in 1..n |-> storage[Polled(n)[i]]]
      /\ Refill(rest, rest, Shifted(n), Release(n))
      /\ UNCHANGED <<storage, arrived, accepted>>
  BY DEF PollRxBurst
<1> HIDE DEF n
<1>4. rest \in Nat /\ rest + n = rx_ring_head /\ rx_ring_head \in 0..N
  BY <1>0, <1>1, <1>2
<1> HIDE DEF rest
<1>5. Polled(n) = [i \in 1..n |-> posted[i - 1]] /\ Polled(n) \in [1..n -> Buffers]
  <2>1. ASSUME NEW i \in 1..n PROVE i - 1 \in Buffers /\ (i - 1) % N = i - 1
    BY <1>0, <1>2, <1>4 DEF Buffers
  <2> QED BY <1>1, <2>1 DEF Polled
<1>6. Polled(n) \in Seq(Buffers) /\ Len(Polled(n)) = n
  <2>1. n \in Nat
    BY <1>2
  <2> QED BY <1>5, <2>1, FunctionIsSeq
<1>7. Release(n) = free \o Polled(n) /\ Release(n) \in Seq(Buffers) /\ Len(Release(n)) = Len(free) + n
  <2> DEFINE all == free \o Polled(n)
  <2>1. all \in Seq(Buffers) /\ Len(all) = Len(free) + n
    BY <1>1, <1>6, ConcatProperties
  <2>2. Len(free) + n \in Nat /\ Len(free) + n <= N
    BY <1>0, <1>1, <1>2
  <2> HIDE DEF all
  <2>3. Min({Len(all), N}) = Len(all)
    BY <1>0, <2>1, <2>2, MinOfTwo
  <2>4. SubSeq(all, 1, Len(all)) = all
    BY <2>1, SubSeqFull
  <2>5. Release(n) = SubSeq(all, 1, Min({Len(all), N}))
    BY DEF Release, all
  <2>6. Release(n) = all
    BY <2>3, <2>4, <2>5
  <2> QED BY <2>1, <2>6 DEF all
<1>8. /\ Shifted(n) \in [Buffers -> Buffers]
      /\ \A i \in 0..rest - 1 : Shifted(n)[i] = posted[n + i] /\ n + i \in 0..rx_ring_head - 1
  <2>1. rx_ring_head - n = rest
    BY <1>2, <1>4
  <2>2. ASSUME NEW i \in Buffers, i < rest PROVE n + i \in Buffers
    BY <1>0, <1>1, <1>2, <1>4, <2>2 DEF Buffers
  <2>3. Shifted(n) = [i \in Buffers |-> IF i < rest THEN posted[n + i] ELSE posted[i]]
    BY <2>1 DEF Shifted
  <2>4. \A i \in 0..rest - 1 : i \in Buffers /\ i < rest /\ n + i \in 0..rx_ring_head - 1
    BY <1>0, <1>1, <1>2, <1>4 DEF Buffers
  <2>5. Shifted(n) \in [Buffers -> Buffers]
    BY <1>1, <2>2, <2>3
  <2> QED BY <2>3, <2>4, <2>5
<1>9. Unshared(rest, Shifted(n), Release(n))
  <2>0. \A a \in 0..rx_ring_head - 1 : a \in 0..rx_ring_tail - 1
    BY <1>1
  <2>1. ASSUME NEW i \in 0..rest - 1, NEW j \in 0..rest - 1, Shifted(n)[i] = Shifted(n)[j] PROVE i = j
    <3>1. n + i = n + j
      BY <1>8, <2>0, <2>1 DEF BridgeInv, NoBufferShared
    <3> QED BY <1>2, <3>1
  <2>2. \A i \in 1..n : Polled(n)[i] = posted[i - 1] /\ i - 1 \in 0..rx_ring_tail - 1
    BY <1>1, <1>2, <1>5
  <2>3. IsInjective(Polled(n))
    <3> SUFFICES ASSUME NEW i \in 1..n, NEW j \in 1..n, Polled(n)[i] = Polled(n)[j] PROVE i = j
      BY <1>5 DEF IsInjective
    <3>1. i - 1 = j - 1
      BY <2>2 DEF BridgeInv, NoBufferShared
    <3> QED BY <1>2, <3>1
  <2>4. IsInjective(Release(n))
    <3>1. \A i \in 1..Len(free), j \in 1..n : free[i] # Polled(n)[j]
      BY <2>2 DEF BridgeInv, NoBufferShared, Contains
    <3>2. IsInjective(free)
      BY DEF BridgeInv, NoBufferShared
    <3> QED BY <1>1, <1>6, <1>7, <2>3, <3>1, <3>2, InjectiveConcat
  <2>5. ASSUME NEW i \in 0..rest - 1, NEW a \in 1..Len(free) + n PROVE Release(n)[a] # Shifted(n)[i]
    <3>0. n + i \in 0..rx_ring_tail - 1 /\ Shifted(n)[i] = posted[n + i]
      BY <1>8, <2>0
    <3>1. CASE a <= Len(free)
      <4>1. a \in 1..Len(free) /\ Release(n)[a] = free[a]
        BY <1>1, <1>2, <1>6, <1>7, <3>1, ConcatProperties
      <4> QED BY <3>0, <4>1 DEF BridgeInv, NoBufferShared, Contains
    <3>2. CASE a > Len(free)
      <4>1. a - Len(free) \in 1..n /\ Release(n)[a] = Polled(n)[a - Len(free)]
        BY <1>1, <1>2, <1>6, <1>7, <3>2, ConcatProperties
      <4>2. Release(n)[a] = posted[a - Len(free) - 1] /\ a - Len(free) - 1 \in 0..rx_ring_tail - 1
        BY <2>2, <4>1
      <4>3. a - Len(free) - 1 # n + i
        BY <1>2, <1>4, <4>1
      <4> QED BY <3>0, <4>2, <4>3 DEF BridgeInv, NoBufferShared
    <3> QED BY <1>1, <3>1, <3>2
  <2> QED BY <1>7, <2>1, <2>4, <2>5 DEF Unshared, Contains
<1>a. ASSUME NEW b \in Buffers
      PROVE  InUse(b, rest, Shifted(n), Release(n))
               <=> InUse(b, rx_ring_tail, posted, free) /\ b \notin {posted[i] : i \in rx_ring_head..rx_ring_tail - 1}
  <2>1. ASSUME NEW i \in 0..rest - 1, Shifted(n)[i] = b
        PROVE  \E j \in 0..rx_ring_head - 1 : posted[j] = b
    BY <1>8, <2>1
  <2>2. ASSUME NEW a \in 1..Len(free) + n, Release(n)[a] = b
        PROVE  Contains(free, b) \/ \E j \in 0..rx_ring_head - 1 : posted[j] = b
    <3>1. CASE a \in 1..Len(free)
      <4>1. Release(n)[a] = free[a]
        BY <1>1, <1>2, <1>6, <1>7, <3>1, ConcatProperties
      <4> QED BY <2>2, <3>1, <4>1 DEF Contains
    <3>2. CASE a \notin 1..Len(free)
      <4>1. a - Len(free) \in 1..n /\ Release(n)[a] = Polled(n)[a - Len(free)]
        BY <1>1, <1>2, <1>6, <1>7, <3>2, ConcatProperties
      <4>2. Release(n)[a] = posted[a - Len(free) - 1] /\ a - Len(free) - 1 \in 0..rx_ring_head - 1
        BY <1>1, <1>2, <1>5, <4>1
      <4> QED BY <2>2, <4>2
    <3> QED BY <3>1, <3>2
  <2>3. ASSUME NEW a \in 1..Len(free), free[a] = b PROVE \E c \in 1..Len(free) + n : Release(n)[c] = b
    <3>1. a \in 1..Len(free) + n /\ Release(n)[a] = free[a]
      BY <1>1, <1>2, <1>6, <1>7, ConcatProperties
    <3> QED BY <2>3, <3>1
  <2>4. ASSUME NEW j \in 0..rx_ring_head - 1, posted[j] = b
        PROVE  (\E c \in 1..Len(free) + n : Release(n)[c] = b) \/ \E i \in 0..rest - 1 : Shifted(n)[i] = b
    <3>1. CASE j < n
      <4> DEFINE c == Len(free) + (j + 1)
      <4>1. j + 1 \in 1..n /\ c \in 1..Len(free) + n /\ c - Len(free) = j + 1 /\ c > Len(free)
        BY <1>1, <1>2, <3>1
      <4>2. Polled(n)[j + 1] = posted[j]
        BY <1>1, <1>5, <4>1
      <4>3. Release(n)[c] = Polled(n)[j + 1]
        BY <1>1, <1>2, <1>6, <1>7, <4>1, ConcatProperties
      <4> HIDE DEF c
      <4> QED BY <2>4, <4>1, <4>2, <4>3
    <3>2. CASE j >= n
      <4>1. j - n \in 0..rest - 1 /\ n + (j - n) = j
        BY <1>1, <1>2, <1>4, <3>2
      <4> QED BY <1>8, <2>4, <4>1
    <3> QED BY <1>1, <1>2, <3>1, <3>2
  <2>5. /\ InUse(b, rest, Shifted(n), Release(n))
            <=> (\E c \in 1..Len(free) + n : Release(n)[c] = b) \/ \E i \in 0..rest - 1 : Shifted(n)[i] = b
        /\ InUse(b, rx_ring_tail, posted, free)
            <=> (\E a \in 1..Len(free) : free[a] = b) \/ \E i \in 0..rx_ring_tail - 1 : posted[i] = b
        /\ Contains(free, b) <=> \E a \in 1..Len(free) : free[a] = b
    BY <1>7, Zenon DEF InUse, Contains
  <2>6. \A i \in 0..rx_ring_tail - 1 : i \in 0..rx_ring_head - 1 \/ i \in rx_ring_head..rx_ring_tail - 1
    BY <1>1
  <2>7. ASSUME NEW i \in rx_ring_head..rx_ring_tail - 1
        PROVE  /\ i \in 0..rx_ring_tail - 1 /\ \A a \in 1..Len(free) : free[a] # posted[i]
               /\ \A j \in 0..rx_ring_head - 1 : posted[j] # posted[i]
    <3>1. i \in 0..rx_ring_tail - 1 /\ \A j \in 0..rx_ring_head - 1 : j \in 0..rx_ring_tail - 1 /\ j # i
      BY <1>1
    <3> QED BY <3>1 DEF BridgeInv, NoBufferShared, Contains
  <2>8. \A j \in 0..rx_ring_head - 1 : j \in 0..rx_ring_tail - 1
    BY <1>1
  <2>9. (\E c \in 1..Len(free) + n : Release(n)[c] = b) \/ (\E i \in 0..rest - 1 : Shifted(n)[i] = b)
          <=> (\E a \in 1..Len(free) : free[a] = b) \/ \E j \in 0..rx_ring_head - 1 : posted[j] = b
    BY <2>1, <2>2, <2>3, <2>4, <2>5
  <2>10. (\E a \in 1..Len(free) : free[a] = b) \/ (\E j \in 0..rx_ring_head - 1 : posted[j] = b)
           <=> InUse(b, rx_ring_tail, posted, free) /\ b \notin {posted[i] : i \in rx_ring_head..rx_ring_tail - 1}
    <3>1. ASSUME \E a \in 1..Len(free) : free[a] = b PROVE b \notin {posted[i] : i \in rx_ring_head..rx_ring_tail - 1}
      BY <2>7, <3>1
    <3>2. ASSUME \E j \in 0..rx_ring_head - 1 : posted[j] = b
          PROVE  b \notin {posted[i] : i \in rx_ring_head..rx_ring_tail - 1}
      BY <2>7, <3>2
    <3> QED BY <2>5, <2>6, <2>8, <3>1, <3>2
  <2> QED BY <2>5, <2>9, <2>10
<1>10. /\ free' \in Seq(Buffers) /\ rx_ring_tail' \in rest..N /\ rx_ring_head' = rest
       /\ posted' \in [Buffers -> Buffers] /\ Len(free') + rx_ring_tail' <= N
       /\ \A i \in 0..rest - 1 : posted'[i] = Shifted(n)[i]
       /\ NoBufferShared'
       /\ \A b \in Buffers : InUse(b, rx_ring_tail', posted', free') <=> InUse(b, rest, Shifted(n), Release(n))
  <2>1. rest <= rest /\ rest + Len(Release(n)) <= N
    BY <1>0, <1>1, <1>2, <1>4, <1>7
  <2> QED BY <1>3, <1>4, <1>7, <1>8, <1>9, <2>1, RefillMoves
<1>11. BridgeInv'
  <2>1. rx_ring_tail' \in 0..N /\ rx_ring_head' \in 0..rx_ring_tail'
    BY <1>0, <1>4, <1>10
  <2>2. LossAccounted'
    <3>1. abandoned' = abandoned \cup {posted[i] : i \in rx_ring_head..rx_ring_tail - 1}
      BY DEF PollRxBurst
    <3>2. \A b \in Buffers : b \in abandoned <=> ~InUse(b, rx_ring_tail, posted, free)
      BY Accounts DEF BridgeInv
    <3>3. \A b \in Buffers : b \in abandoned' <=> ~InUse(b, rx_ring_tail', posted', free')
      BY <1>a, <1>10, <3>1, <3>2
    <3>4. Buffers' = Buffers
      BY DEF Buffers
    <3> QED BY <3>3, <3>4 DEF LossAccounted, InUse
  <2> QED BY <1>1, <1>3, <1>10, <2>1, <2>2 DEF BridgeInv, BridgeTypes
<1>12. RingWindow \in Seq(Nat) /\ Len(RingWindow) = rx_ring_head
  BY WindowType
<1>13. [i \in 1..n |-> storage[Polled(n)[i]]] = SubSeq(RingWindow, 1, n)
  <2>1. \A i \in 1..n : i \in 1..rx_ring_head /\ storage[Polled(n)[i]] = storage[posted[i - 1]]
    BY <1>1, <1>2, <1>5
  <2>2. \A i \in 1..n : storage[Polled(n)[i]] = RingWindow[i]
    BY <2>1 DEF RingWindow
  <2>3. SubSeq(RingWindow, 1, n) = [i \in 1..n |-> RingWindow[i]]
    BY <1>2, <1>12, PrefixAsFunction
  <2> QED BY <2>2, <2>3
<1>14. RingWindow' = SubSeq(RingWindow, n + 1, Len(RingWindow))
  <2>1. RingWindow' = [i \in 1..rest |-> storage[posted'[i - 1]]]
    BY <1>3, <1>10 DEF RingWindow
  <2>2. ASSUME NEW i \in 1..rest PROVE storage[posted'[i - 1]] = RingWindow[n + i]
    <3>1. i - 1 \in 0..rest - 1 /\ n + i \in 1..rx_ring_head /\ n + (i - 1) = (n + i) - 1
      BY <1>1, <1>2, <1>4
    <3>2. posted'[i - 1] = posted[n + (i - 1)]
      BY <1>8, <1>10, <3>1
    <3> QED BY <3>1, <3>2 DEF RingWindow
  <2>3. SubSeq(RingWindow, n + 1, Len(RingWindow)) = [i \in 1..rx_ring_head - n |-> RingWindow[n + i]]
    BY <1>2, <1>12, SuffixAsFunction
  <2>4. rx_ring_head - n = rest
    BY <1>2, <1>4
  <2> QED BY <2>1, <2>2, <2>3, <2>4
<1>15. HistoryTypes'
  <2>1. SubSeq(RingWindow, 1, n) \in Seq(Nat)
    BY <1>2, <1>12, MovedOver
  <2> QED BY <1>3, <1>13, <2>1, ConcatProperties DEF HistoryTypes
<1>16. delivered' \o RingWindow' = delivered \o RingWindow
  <2>1. delivered \in Seq(Nat) /\ n \in 0..Len(RingWindow)
    BY <1>2, <1>12 DEF HistoryTypes
  <2>2. (delivered \o SubSeq(RingWindow, 1, n)) \o SubSeq(RingWindow, n + 1, Len(RingWindow))
          = delivered \o RingWindow
    BY <1>12, <2>1, PacketsMovedOver, Zenon
  <2> QED BY <1>3, <1>13, <1>14, <2>2
<1> QED BY <1>11, <1>15, <1>16

\* refill_rx_ring called on its own changes nothing about the packets.
LEMMA RefillRxRingStep ==
  ASSUME BridgeInv, HistoryTypes, RefillRxRing
  PROVE  BridgeInv' /\ HistoryTypes' /\ RingWindow' = RingWindow
<1>0. N \in Nat \ {0}
  BY BridgeAssumption
<1>1. /\ rx_ring_tail \in 0..N /\ rx_ring_head \in 0..rx_ring_tail
      /\ free \in Seq(Buffers) /\ Len(free) \in Nat /\ Len(free) + rx_ring_tail <= N
      /\ posted \in [Buffers -> Buffers] /\ storage \in [Buffers -> Nat]
  BY DEF BridgeInv, BridgeTypes
<1>2. /\ Refill(rx_ring_head, rx_ring_tail, posted, free)
      /\ UNCHANGED <<storage, arrived, accepted, delivered, abandoned>>
  BY DEF RefillRxRing
<1>3. Unshared(rx_ring_tail, posted, free)
  BY DEF Unshared, BridgeInv, NoBufferShared
<1>4. /\ free' \in Seq(Buffers) /\ rx_ring_tail' \in rx_ring_tail..N /\ rx_ring_head' = rx_ring_head
      /\ posted' \in [Buffers -> Buffers] /\ Len(free') + rx_ring_tail' <= N
      /\ \A i \in 0..rx_ring_tail - 1 : posted'[i] = posted[i]
      /\ NoBufferShared'
      /\ \A b \in Buffers : InUse(b, rx_ring_tail', posted', free') <=> InUse(b, rx_ring_tail, posted, free)
  <2>1. /\ rx_ring_head \in Nat /\ rx_ring_tail \in Nat /\ rx_ring_head <= rx_ring_tail
        /\ rx_ring_tail + Len(free) <= N
    BY <1>0, <1>1
  <2> QED BY <1>1, <1>2, <1>3, <2>1, RefillMoves
<1>5. BridgeInv'
  <2>1. rx_ring_tail' \in 0..N /\ rx_ring_head' \in 0..rx_ring_tail'
    BY <1>0, <1>1, <1>4
  <2>2. LossAccounted'
    <3>1. \A b \in Buffers : b \in abandoned' <=> ~InUse(b, rx_ring_tail', posted', free')
      BY <1>2, <1>4, Accounts DEF BridgeInv
    <3> QED BY <3>1 DEF LossAccounted, InUse, Buffers
  <2> QED BY <1>1, <1>2, <1>4, <2>1, <2>2 DEF BridgeInv, BridgeTypes
<1>6. RingWindow' = RingWindow
  <2>1. \A i \in 1..rx_ring_head : posted'[i - 1] = posted[i - 1]
    BY <1>1, <1>4
  <2> QED BY <1>2, <1>4, <2>1 DEF RingWindow
<1> QED BY <1>2, <1>5, <1>6 DEF HistoryTypes

IntactInv == BridgeInv /\ HistoryTypes /\ PacketsIntact

\* A new bridge: all buffers posted, no packet.
LEMMA BridgeInitInv == Init => IntactInv
<1> SUFFICES ASSUME Init PROVE IntactInv
  OBVIOUS
<1>0. N \in Nat \ {0}
  BY BridgeAssumption
<1>1. \A i \in Buffers : N - 1 - i \in Buffers
  BY <1>0 DEF Buffers
<1>2. BridgeTypes
  BY <1>0, <1>1 DEF Init, BridgeTypes
<1>3. NoBufferShared
  <2>1. \A i \in 0..rx_ring_tail - 1 : i \in Buffers /\ posted[i] = N - 1 - i
    BY <1>0 DEF Init, Buffers
  <2>2. \A i, j \in 0..rx_ring_tail - 1 : posted[i] = posted[j] => i = j
    BY <1>0, <2>1 DEF Init
  <2>3. DOMAIN free = {} /\ Len(free) = 0
    BY DEF Init
  <2> QED BY <2>2, <2>3 DEF NoBufferShared, IsInjective, Contains
<1>a. LossAccounted
  <2>1. \A b \in Buffers : N - 1 - b \in 0..rx_ring_tail - 1 /\ posted[N - 1 - b] = b
    BY <1>0, <1>1 DEF Init, Buffers
  <2> QED BY <2>1 DEF LossAccounted, Init
<1>4. HistoryTypes
  BY DEF Init, HistoryTypes
<1>5. PacketsIntact
  <2>1. RingWindow = << >>
    BY DEF RingWindow, Init
  <2> QED BY <2>1 DEF PacketsIntact, RingWindow, Init
<1> QED BY <1>2, <1>3, <1>a, <1>4, <1>5 DEF IntactInv, BridgeInv

\* Every call of the bridge keeps it.
LEMMA BridgeNextInv == IntactInv /\ [Next]_vars => IntactInv'
<1> SUFFICES ASSUME IntactInv, [Next]_vars PROVE IntactInv'
  OBVIOUS
<1>0. BridgeInv /\ HistoryTypes /\ accepted = delivered \o RingWindow
  BY DEF IntactInv, PacketsIntact, RingWindow
<1>1. RingWindow \in Seq(Nat)
  BY <1>0, WindowType
<1> SUFFICES BridgeInv' /\ HistoryTypes' /\ accepted' = delivered' \o RingWindow'
  BY DEF IntactInv, PacketsIntact, RingWindow
<1>2. CASE InjectPacket
  <2>1. BridgeInv' /\ HistoryTypes' /\ RingWindow' = Append(RingWindow, arrived + 1)
    BY <1>0, <1>2, InjectPacketStep
  <2>2. accepted' = Append(accepted, arrived + 1) /\ delivered' = delivered
    BY <1>2 DEF InjectPacket
  <2>3. delivered \o Append(RingWindow, arrived + 1) = Append(delivered \o RingWindow, arrived + 1)
    BY <1>0, <1>1, AppendConcat DEF HistoryTypes
  <2> QED BY <1>0, <2>1, <2>2, <2>3
<1>3. CASE InjectDropped
  BY <1>0, <1>3 DEF InjectDropped, Arrives, BridgeInv, BridgeTypes, NoBufferShared, LossAccounted, HistoryTypes, RingWindow
<1>4. CASE RefillRxRing
  BY <1>0, <1>4, RefillRxRingStep DEF RefillRxRing
<1>5. ASSUME NEW max \in 1..N, PollRxBurst(max)
      PROVE  BridgeInv' /\ HistoryTypes' /\ accepted' = delivered' \o RingWindow'
  <2>1. accepted' = accepted
    BY <1>5 DEF PollRxBurst
  <2> QED BY <1>0, <1>5, <2>1, PollRxBurstStep
<1>6. CASE UNCHANGED vars
  BY <1>0, <1>6 DEF vars, BridgeInv, BridgeTypes, NoBufferShared, LossAccounted, HistoryTypes, RingWindow
<1> QED BY <1>2, <1>3, <1>4, <1>5, <1>6 DEF Next

\* The bridge keeps its invariant.
THEOREM BridgeInvariance == Spec => []IntactInv
BY BridgeInitInv, BridgeNextInv, PTL DEF Spec

\* A DMA buffer is posted once or free once and never both, whatever the size of the ring
\* and however injections, bursts of any size and refills follow each other; it is neither
\* exactly when poll_rx_burst found it posted and empty.
THEOREM BridgeBuffers == Spec => [](NoBufferShared /\ LossAccounted)
<1>1. IntactInv => NoBufferShared /\ LossAccounted
  BY DEF IntactInv, BridgeInv
<1> QED BY <1>1, BridgeInvariance, PTL

\* Every packet inject_packet accepted reaches the handler of poll_rx_burst once, in order
\* and with its own content: no refill or shift of the ring touches a waiting packet.
THEOREM BridgeKeepsPackets == Spec => []PacketsIntact
<1>1. IntactInv => PacketsIntact
  BY DEF IntactInv
<1> QED BY <1>1, BridgeInvariance, PTL

-----------------------------------------------------------------------------
(* IoUringTransport                                                        *)

Pool == 0..Entries - 1

\* Every buffer of the pool is free or completed.
UringInv ==
  /\ free_buffer_indices \in Seq(Pool) /\ cq_entries \in Seq(Pool)
  /\ fixed_buffer_pool \in [Pool -> Nat]
  /\ IsInjective(free_buffer_indices \o cq_entries)
  /\ Len(free_buffer_indices) + Len(cq_entries) = Entries

\* The packets in the completed buffers.
Completions == [i \in 1..Len(cq_entries) |-> fixed_buffer_pool[cq_entries[i]]]

\* The completions are a sequence of packets.
LEMMA CompletionsType ==
  ASSUME UringInv
  PROVE  Completions \in Seq(Nat) /\ Len(Completions) = Len(cq_entries)
<1>1. /\ Len(cq_entries) \in Nat /\ fixed_buffer_pool \in [Pool -> Nat]
      /\ \A i \in 1..Len(cq_entries) : cq_entries[i] \in Pool
  BY LenProperties, ElementOfSeq DEF UringInv
<1>2. Completions \in [1..Len(cq_entries) -> Nat]
  BY <1>1 DEF Completions
<1> QED BY <1>1, <1>2, FunctionIsSeq

\* The parts of UringInv that are about single buffers.
LEMMA UringParts ==
  ASSUME UringInv
  PROVE  /\ \A i, j \in 1..Len(free_buffer_indices) :
              free_buffer_indices[i] = free_buffer_indices[j] => i = j
         /\ \A i, j \in 1..Len(cq_entries) : cq_entries[i] = cq_entries[j] => i = j
         /\ \A i \in 1..Len(free_buffer_indices), j \in 1..Len(cq_entries) :
              free_buffer_indices[i] # cq_entries[j]
         /\ Len(free_buffer_indices) \in Nat /\ Len(cq_entries) \in Nat
         /\ \A i \in 1..Len(free_buffer_indices) : free_buffer_indices[i] \in Pool
         /\ \A i \in 1..Len(cq_entries) : cq_entries[i] \in Pool
<1>1. /\ free_buffer_indices \in Seq(Pool) /\ cq_entries \in Seq(Pool)
      /\ IsInjective(free_buffer_indices \o cq_entries)
  BY DEF UringInv
<1>2. /\ IsInjective(free_buffer_indices) /\ IsInjective(cq_entries)
      /\ \A i \in 1..Len(free_buffer_indices), j \in 1..Len(cq_entries) :
           free_buffer_indices[i] # cq_entries[j]
  BY <1>1, InjectiveConcat
<1>3. DOMAIN free_buffer_indices = 1..Len(free_buffer_indices) /\ DOMAIN cq_entries = 1..Len(cq_entries)
  BY <1>1, LenProperties
<1> QED BY <1>1, <1>2, <1>3, LenProperties, ElementOfSeq DEF IsInjective

\* inject_packet of the io_uring transport: one more completion.
LEMMA UringInjectStep ==
  ASSUME UringInv, NEW p \in Nat, free_buffer_indices # << >>, SetUring(Completed(Uring, p))
  PROVE  UringInv' /\ Completions' = Append(Completions, p)
<1> DEFINE L == Len(free_buffer_indices)
           C == Len(cq_entries)
           top == free_buffer_indices[L]
<1>1. /\ free_buffer_indices \in Seq(Pool) /\ cq_entries \in Seq(Pool)
      /\ fixed_buffer_pool \in [Pool -> Nat] /\ L \in Nat \ {0} /\ C \in Nat /\ L + C = Entries
  BY EmptySeq DEF UringInv
<1>2. top \in Pool
  BY <1>1, UringParts
<1>3. /\ fixed_buffer_pool' = [fixed_buffer_pool EXCEPT ![top] = p]
      /\ cq_entries' = Append(cq_entries, top)
      /\ free_buffer_indices' = SubSeq(free_buffer_indices, 1, L - 1)
  BY DEF SetUring, Completed, Uring, Last, Front
<1>4. /\ free_buffer_indices' \in Seq(Pool) /\ Len(free_buffer_indices') = L - 1
      /\ \A i \in 1..L - 1 : free_buffer_indices'[i] = free_buffer_indices[i]
  <2> DEFINE m == L - 1
  <2>1. m \in 0..Len(free_buffer_indices)
    BY <1>1
  <2> HIDE DEF m
  <2>2. /\ SubSeq(free_buffer_indices, 1, m) \in Seq(Pool) /\ Len(SubSeq(free_buffer_indices, 1, m)) = m
        /\ \A i \in 1..m : SubSeq(free_buffer_indices, 1, m)[i] = free_buffer_indices[i]
    BY <1>1, <2>1, PrefixAsFunction
  <2>3. free_buffer_indices' = SubSeq(free_buffer_indices, 1, m)
    BY <1>3 DEF m
  <2> QED BY <2>2, <2>3 DEF m
<1>5. /\ cq_entries' \in Seq(Pool) /\ Len(cq_entries') = C + 1 /\ cq_entries'[C + 1] = top
      /\ \A i \in 1..C : cq_entries'[i] = cq_entries[i]
  BY <1>1, <1>2, <1>3, AppendProperties
<1>6. \A i, j \in 1..L : free_buffer_indices[i] = free_buffer_indices[j] => i = j
  BY UringParts
<1>7. \A i \in 1..L, j \in 1..C : free_buffer_indices[i] # cq_entries[j]
  BY UringParts
<1>8. \A i, j \in 1..C : cq_entries[i] = cq_entries[j] => i = j
  BY UringParts
<1> HIDE DEF L, C, top
<1>9. top = free_buffer_indices[L] /\ L \in 1..L
  BY <1>1 DEF top
<1>10. IsInjective(free_buffer_indices' \o cq_entries')
  <2>1. IsInjective(free_buffer_indices')
    <3>1. DOMAIN free_buffer_indices' = 1..L - 1 /\ \A i \in 1..L - 1 : i \in 1..L
      BY <1>1, <1>4, LenProperties
    <3> QED BY <1>4, <1>6, <3>1 DEF IsInjective
  <2>2. IsInjective(cq_entries')
    <3>1. DOMAIN cq_entries' = 1..C + 1
      BY <1>5, LenProperties
    <3>2. \A i \in 1..C + 1 : i \in 1..C \/ i = C + 1
      BY <1>1
    <3>3. \A i \in 1..C : cq_entries'[i] # top
      BY <1>5, <1>7, <1>9
    <3> QED BY <1>5, <1>8, <3>1, <3>2, <3>3 DEF IsInjective
  <2>3. ASSUME NEW i \in 1..L - 1, NEW j \in 1..C + 1 PROVE free_buffer_indices'[i] # cq_entries'[j]
    <3>1. i \in 1..L /\ i # L /\ free_buffer_indices'[i] = free_buffer_indices[i]
      BY <1>1, <1>4
    <3>2. CASE j \in 1..C
      BY <1>5, <1>7, <3>1, <3>2
    <3>3. CASE j = C + 1
      BY <1>5, <1>6, <1>9, <3>1, <3>3
    <3> QED BY <1>1, <3>2, <3>3
  <2> QED BY <1>4, <1>5, <2>1, <2>2, <2>3, InjectiveConcat
<1>11. UringInv'
  <2>1. fixed_buffer_pool' \in [Pool -> Nat]
    BY <1>1, <1>2, <1>3
  <2>2. (L - 1) + (C + 1) = Entries
    BY <1>1
  <2> QED BY <1>4, <1>5, <1>10, <2>1, <2>2 DEF UringInv
<1>12. Completions' = Append(Completions, p)
  <2>1. Completions' = [i \in 1..C + 1 |-> fixed_buffer_pool'[cq_entries'[i]]]
    BY <1>5 DEF Completions
  <2>2. ASSUME NEW i \in 1..C PROVE fixed_buffer_pool'[cq_entries'[i]] = fixed_buffer_pool[cq_entries[i]]
    <3>1. cq_entries[i] \in Pool /\ cq_entries[i] # top
      BY <1>7, <1>9, UringParts DEF C
    <3> QED BY <1>1, <1>3, <1>5, <3>1
  <2>3. fixed_buffer_pool'[cq_entries'[C + 1]] = p
    BY <1>1, <1>2, <1>3, <1>5
  <2>4. Completions = [i \in 1..C |-> fixed_buffer_pool[cq_entries[i]]]
    BY DEF Completions, C
  <2>5. Completions \in Seq(Nat) /\ Len(Completions) = C
    BY CompletionsType DEF C
  <2>6. Append(Completions, p) = [i \in 1..C + 1 |-> IF i = C + 1 THEN p ELSE Completions[i]]
    <3>1. Append(Completions, p) =
            [i \in 1..Len(Completions) + 1 |-> IF i = Len(Completions) + 1 THEN p ELSE Completions[i]]
      BY <2>5, AppendAsFunction
    <3> QED BY <2>5, <3>1
  <2>7. \A i \in 1..C + 1 : fixed_buffer_pool'[cq_entries'[i]] = IF i = C + 1 THEN p ELSE Completions[i]
    BY <1>1, <2>2, <2>3, <2>4
  <2> QED BY <2>1, <2>6, <2>7
<1> QED BY <1>11, <1>12

\* poll_socket_into_ring: the datagrams read are in buffers of their own, behind the
\* completions that were there; no buffer is lost.
LEMMA SocketRead ==
  ASSUME UringInv, kernel \in Seq(Nat), NEW k \in Nat,
         k <= Len(kernel), k <= Len(free_buffer_indices)
  PROVE  LET st == PollSocketIntoRing(k) IN
         /\ st.pool \in [Pool -> Nat] /\ st.cq \in Seq(Pool) /\ st.free \in Seq(Pool)
         /\ IsInjective(st.free \o st.cq) /\ Len(st.free) + Len(st.cq) = Entries
         /\ [i \in 1..Len(st.cq) |-> st.pool[st.cq[i]]] = Completions \o SubSeq(kernel, 1, k)
<1> DEFINE F == free_buffer_indices
           L == Len(F)
           C == Len(cq_entries)
           taken == TopBuffers(k)
           Read(b) == kernel[CHOOSE i \in 1..k : taken[i] = b]
           pool == [b \in Pool |-> IF b \in ToSet(taken) THEN Read(b) ELSE fixed_buffer_pool[b]]
           cq == cq_entries \o taken
           left == SubSeq(F, 1, L - k)
<1>1. PollSocketIntoRing(k) = [pool |-> pool, cq |-> cq, free |-> left]
  BY DEF PollSocketIntoRing, Pool
<1>2. /\ F \in Seq(Pool) /\ cq_entries \in Seq(Pool) /\ fixed_buffer_pool \in [Pool -> Nat]
      /\ L \in Nat /\ C \in Nat /\ L + C = Entries /\ k \in 0..L /\ k \in 0..Len(kernel)
  BY DEF UringInv
<1>3. /\ \A i, j \in 1..L : F[i] = F[j] => i = j
      /\ \A i \in 1..L, j \in 1..C : F[i] # cq_entries[j]
      /\ \A i \in 1..L : F[i] \in Pool
      /\ \A i \in 1..C : cq_entries[i] \in Pool
      /\ \A i, j \in 1..C : cq_entries[i] = cq_entries[j] => i = j
  BY UringParts
<1>4. taken = [i \in 1..k |-> F[L + 1 - i]]
  BY DEF TopBuffers
<1> HIDE DEF F, L, C, taken
<1>5. \A i \in 1..k : L + 1 - i \in (L - k + 1)..L /\ L + 1 - i \in 1..L
  BY <1>2
<1>6. /\ taken \in [1..k -> Pool] /\ \A i \in 1..k : taken[i] = F[L + 1 - i]
  BY <1>3, <1>4, <1>5
<1>7. taken \in Seq(Pool) /\ Len(taken) = k /\ DOMAIN taken = 1..k
  BY <1>6, FunctionIsSeq
<1>8. ASSUME NEW i \in 1..k, NEW j \in 1..k, taken[i] = taken[j] PROVE i = j
  <2>1. L + 1 - i = L + 1 - j
    BY <1>3, <1>5, <1>6, <1>8
  <2> QED BY <1>2, <2>1
<1>9. ASSUME NEW i \in 1..k, NEW j \in 1..C PROVE cq_entries[j] # taken[i]
  <2>1. taken[i] = F[L + 1 - i] /\ L + 1 - i \in 1..L
    BY <1>5, <1>6
  <2> QED BY <1>3, <2>1, Zenon
<1>10. /\ left \in Seq(Pool) /\ Len(left) = L - k /\ DOMAIN left = 1..L - k
       /\ \A i \in 1..L - k : left[i] = F[i] /\ i \in 1..L
  <2>1. L - k \in 0..Len(F)
    BY <1>2 DEF L
  <2> QED BY <1>2, <2>1, PrefixAsFunction DEF L
<1>11. /\ cq \in Seq(Pool) /\ Len(cq) = C + k
       /\ \A i \in 1..C : cq[i] = cq_entries[i]
       /\ \A i \in 1..k : cq[C + i] = taken[i]
  <2>1. cq_entries \in Seq(Pool) /\ taken \in Seq(Pool) /\ Len(cq_entries) = C /\ Len(taken) = k
    BY <1>2, <1>7 DEF C
  <2>2. /\ cq \in Seq(Pool) /\ Len(cq) = Len(cq_entries) + Len(taken)
        /\ \A i \in 1..Len(cq_entries) + Len(taken) :
             cq[i] = IF i <= Len(cq_entries) THEN cq_entries[i] ELSE taken[i - Len(cq_entries)]
    BY <2>1, ConcatProperties, Zenon
  <2>3. C \in Nat /\ k \in Nat
    BY <1>2
  <2> HIDE DEF cq
  <2> QED BY <2>1, <2>2, <2>3, SMTT(30)
<1> HIDE DEF left
<1>12. IsInjective(left \o cq)
  <2>1. IsInjective(cq)
    <3>1. DOMAIN cq_entries = 1..C
      BY <1>2, LenProperties DEF C
    <3>2. IsInjective(cq_entries) /\ IsInjective(taken)
      BY <1>3, <1>7, <1>8, <3>1 DEF IsInjective
    <3> QED BY <1>2, <1>7, <1>9, <3>2, InjectiveConcat DEF C
  <2>2. IsInjective(left)
    BY <1>3, <1>10 DEF IsInjective
  <2> HIDE DEF cq
  <2>3. ASSUME NEW i \in 1..L - k, NEW j \in 1..C + k PROVE left[i] # cq[j]
    <3>1. CASE j \in 1..C
      <4>1. left[i] = F[i] /\ i \in 1..L /\ cq[j] = cq_entries[j]
        BY <1>10, <1>11, <3>1
      <4> QED BY <1>3, <3>1, <4>1, Zenon
    <3>2. CASE j - C \in 1..k
      <4>1. cq[j] = taken[j - C] /\ taken[j - C] = F[L + 1 - (j - C)]
        <5>1. C + (j - C) = j
          BY <1>2
        <5> QED BY <1>6, <1>11, <3>2, <5>1
      <4>2. L + 1 - (j - C) \in 1..L /\ L + 1 - (j - C) # i
        BY <1>2, <3>2
      <4> QED BY <1>3, <1>10, <4>1, <4>2
    <3> QED BY <1>2, <3>1, <3>2, SMTT(30)
  <2> QED BY <1>10, <1>11, <2>1, <2>2, <2>3, InjectiveConcat
<1> HIDE DEF cq
<1>13. /\ \A j \in 1..k : pool[taken[j]] = kernel[j]
       /\ \A i \in 1..C : pool[cq_entries[i]] = fixed_buffer_pool[cq_entries[i]]
       /\ pool \in [Pool -> Nat]
  <2>1. ASSUME NEW j \in 1..k PROVE pool[taken[j]] = kernel[j]
    <3>1. taken[j] \in Pool /\ taken[j] \in ToSet(taken)
      BY <1>6, <1>7 DEF ToSet
    <3>2. (CHOOSE i \in 1..k : taken[i] = taken[j]) = j
      BY <1>8
    <3> QED BY <3>1, <3>2
  <2>2. ASSUME NEW i \in 1..C PROVE pool[cq_entries[i]] = fixed_buffer_pool[cq_entries[i]]
    <3>1. cq_entries[i] \in Pool /\ cq_entries[i] \notin ToSet(taken)
      BY <1>3, <1>7, <1>9 DEF ToSet
    <3> QED BY <3>1
  <2>3. ASSUME NEW b \in Pool PROVE pool[b] \in Nat
    <3>1. CASE b \in ToSet(taken)
      <4>1. PICK j \in 1..k : taken[j] = b
        BY <1>7, <3>1 DEF ToSet
      <4>2. pool[b] = kernel[j] /\ j \in 1..Len(kernel)
        <5> HIDE DEF pool
        <5>1. pool[b] = kernel[j]
          BY <2>1, <4>1, Zenon
        <5> QED BY <1>2, <5>1
      <4> HIDE DEF pool
      <4> QED BY <4>2, ElementOfSeq
    <3>2. CASE b \notin ToSet(taken)
      BY <1>2, <3>2
    <3> QED BY <3>1, <3>2
  <2> QED BY <2>1, <2>2, <2>3
<1> HIDE DEF pool
<1>14. [i \in 1..Len(cq) |-> pool[cq[i]]] = Completions \o SubSeq(kernel, 1, k)
  <2> DEFINE full == [i \in 1..C + k |-> pool[cq[i]]]
             read == SubSeq(kernel, 1, k)
  <2>1. full \in Seq(Nat) /\ Len(full) = C + k
    <3>1. C + k \in Nat /\ \A i \in 1..C + k : cq[i] \in Pool
      BY <1>2, <1>11, ElementOfSeq
    <3>2. full \in [1..C + k -> Nat]
      BY <1>13, <3>1
    <3> HIDE DEF full
    <3> QED BY <3>1, <3>2, FunctionIsSeq
  <2>2. read \in Seq(Nat) /\ Len(read) = k /\ \A i \in 1..k : read[i] = kernel[i]
    <3>1. k \in 0..Len(kernel)
      BY <1>2
    <3>2. /\ SubSeq(kernel, 1, k) \in Seq(Nat) /\ Len(SubSeq(kernel, 1, k)) = k
          /\ \A i \in 1..k : SubSeq(kernel, 1, k)[i] = kernel[i]
      BY <3>1, PrefixAsFunction
    <3> QED BY <3>2
  <2>3. Completions \in Seq(Nat) /\ Len(Completions) = C /\ \A i \in 1..C : Completions[i] = fixed_buffer_pool[cq_entries[i]]
    BY CompletionsType DEF Completions, C
  <2> HIDE DEF read
  <2>4. /\ Completions \o read \in Seq(Nat) /\ Len(Completions \o read) = C + k
        /\ \A i \in 1..C + k : (Completions \o read)[i] = IF i <= C THEN Completions[i] ELSE read[i - C]
    <3>1. /\ Completions \o read \in Seq(Nat) /\ Len(Completions \o read) = Len(Completions) + Len(read)
          /\ \A i \in 1..Len(Completions) + Len(read) : (Completions \o read)[i] =
                IF i <= Len(Completions) THEN Completions[i] ELSE read[i - Len(Completions)]
      BY <2>2, <2>3, ConcatProperties
    <3> QED BY <2>2, <2>3, <3>1
  <2>5. ASSUME NEW i \in 1..C + k PROVE full[i] = (Completions \o read)[i]
    <3>1. CASE i <= C
      <4>1. i \in 1..C
        BY <1>2, <3>1
      <4>2. full[i] = fixed_buffer_pool[cq_entries[i]]
        BY <1>11, <1>13, <4>1
      <4>3. (Completions \o read)[i] = Completions[i]
        BY <2>4, <3>1
      <4> QED BY <2>3, <4>1, <4>2, <4>3, Zenon
    <3>2. CASE i > C
      <4>1. i - C \in 1..k /\ C + (i - C) = i /\ ~(i <= C)
        BY <1>2, <3>2
      <4>2. cq[i] = taken[i - C]
        BY <1>11, <4>1
      <4>3. full[i] = kernel[i - C]
        BY <1>13, <4>1, <4>2
      <4>4. (Completions \o read)[i] = read[i - C]
        BY <2>4, <4>1
      <4> QED BY <2>2, <4>1, <4>3, <4>4, Zenon
    <3>3. i <= C \/ i > C
      BY <1>2
    <3> QED BY <3>1, <3>2, <3>3, Zenon
  <2>6. full = Completions \o read
    <3> HIDE DEF full
    <3> QED BY <2>1, <2>4, <2>5, SeqEqual
  <2> QED BY <1>11, <2>6 DEF read
<1>15. Len(left) + Len(cq) = Entries
  BY <1>2, <1>10, <1>11
<1>16. /\ PollSocketIntoRing(k).pool = pool /\ PollSocketIntoRing(k).cq = cq
       /\ PollSocketIntoRing(k).free = left
  BY <1>1
<1> QED BY <1>10, <1>11, <1>12, <1>13, <1>14, <1>15, <1>16, Zenon

\* The socket's queue and the mock's hold packets.
QueueTypes == kernel \in Seq(Nat) /\ queue \in Seq(Nat)

\* poll_batch of the io_uring transport, with a socket that may fail after k datagrams: the
\* handler gets the oldest of what waits, in a ring or in the kernel.
LEMMA UringPollStep ==
  ASSUME UringInv, QueueTypes, HistoryTypes, NEW max \in 1..N, NEW k \in 0..max,
         UringPoll(max, k)
  PROVE  /\ UringInv' /\ kernel' \in Seq(Nat) /\ delivered' \in Seq(Nat)
         /\ ToSet(kernel') \subseteq ToSet(kernel)
         /\ delivered' \o (Completions' \o kernel') = delivered \o (Completions \o kernel)
<1> DEFINE pool == PollSocketIntoRing(k).pool
           cq == PollSocketIntoRing(k).cq
           left == PollSocketIntoRing(k).free
           n == Min({max, Len(cq)})
           full == [i \in 1..Len(cq) |-> pool[cq[i]]]
           read == SubSeq(kernel, 1, k)
           rest == SubSeq(kernel, k + 1, Len(kernel))
<1>0. N \in Nat /\ max \in Nat /\ k \in Nat
  BY BridgeAssumption
<1>a. kernel \in Seq(Nat)
  BY DEF QueueTypes
<1>1. k <= Len(kernel) /\ k <= Len(free_buffer_indices)
  <2>1. k <= Min({max, Len(kernel), Len(free_buffer_indices)})
    BY DEF UringPoll, Readable
  <2>2. Len(kernel) \in Nat /\ Len(free_buffer_indices) \in Nat
    BY <1>a, UringParts, LenProperties
  <2>3. /\ Min({max, Len(kernel), Len(free_buffer_indices)}) \in Nat
        /\ Min({max, Len(kernel), Len(free_buffer_indices)}) <= Len(kernel)
        /\ Min({max, Len(kernel), Len(free_buffer_indices)}) <= Len(free_buffer_indices)
    BY <1>0, <2>2, MinOfThree
  <2> QED BY <1>0, <2>1, <2>2, <2>3
<1>2. /\ kernel' = rest
      /\ delivered' = delivered \o [i \in 1..n |-> pool[cq[i]]]
      /\ fixed_buffer_pool' = pool
      /\ cq_entries' = SubSeq(cq, n + 1, Len(cq))
      /\ free_buffer_indices' = left \o SubSeq(cq, 1, n)
  BY DEF UringPoll, SetUring, Recycled
<1>3. /\ pool \in [Pool -> Nat] /\ cq \in Seq(Pool) /\ left \in Seq(Pool)
      /\ IsInjective(left \o cq) /\ Len(left) + Len(cq) = Entries
      /\ full = Completions \o read
  BY <1>0, <1>a, <1>1, SocketRead
<1> HIDE DEF pool, cq, left
<1>4. Len(cq) \in Nat /\ n \in 0..Len(cq)
  <2>1. Len(cq) \in Nat
    BY <1>3, LenProperties
  <2>2. n = IF max <= Len(cq) THEN max ELSE Len(cq)
    BY <1>0, <2>1, MinOfTwo
  <2> HIDE DEF n
  <2> QED BY <1>0, <2>1, <2>2
<1> HIDE DEF n
<1>5. k \in 0..Len(kernel)
  BY <1>0, <1>1
<1>6. /\ rest \in Seq(Nat) /\ read \in Seq(Nat) /\ ToSet(rest) \subseteq ToSet(kernel)
      /\ Completions \in Seq(Nat) /\ (Completions \o read) \o rest = Completions \o kernel
  <2>1. Completions \in Seq(Nat)
    BY CompletionsType
  <2>2. rest \in Seq(Nat) /\ read \in Seq(Nat) /\ (Completions \o read) \o rest = Completions \o kernel
    <3>1. (Completions \o SubSeq(kernel, 1, k)) \o SubSeq(kernel, k + 1, Len(kernel)) = Completions \o kernel
      BY <1>a, <1>5, <2>1, PacketsMovedOver
    <3>2. rest \in Seq(Nat) /\ read \in Seq(Nat)
      BY <1>a, <1>5, PrefixAsFunction, SuffixAsFunction
    <3> QED BY <3>1, <3>2
  <2>3. ToSet(rest) \subseteq ToSet(kernel)
    <3>1. DOMAIN rest = 1..Len(kernel) - k /\ \A i \in 1..Len(kernel) - k : rest[i] = kernel[k + i] /\ k + i \in 1..Len(kernel)
      BY <1>a, <1>5, SuffixAsFunction
    <3>2. DOMAIN kernel = 1..Len(kernel)
      BY <1>a, LenProperties
    <3> HIDE DEF rest
    <3> QED BY <3>1, <3>2 DEF ToSet
  <2> QED BY <2>1, <2>2, <2>3
<1> HIDE DEF read, rest
<1>7. UringInv'
  <2> DEFINE front == SubSeq(cq, 1, n)
             back == SubSeq(cq, n + 1, Len(cq))
  <2>1. /\ front \in Seq(Pool) /\ back \in Seq(Pool) /\ (left \o front) \o back = left \o cq
    <3>1. left \in Seq(Pool) /\ cq \in Seq(Pool) /\ n \in 0..Len(cq)
      BY <1>3, <1>4
    <3>2. (left \o front) \o back = left \o cq
      BY <3>1, MovedOver, ZenonT(60)
    <3>3. front \in Seq(Pool) /\ back \in Seq(Pool)
      BY <3>1, PrefixAsFunction, SuffixAsFunction
    <3> QED BY <3>2, <3>3
  <2>2. Len(front) = n /\ Len(back) = Len(cq) - n
    BY <1>3, <1>4, PrefixAsFunction, SuffixAsFunction
  <2> HIDE DEF front, back
  <2>3. left \o front \in Seq(Pool) /\ Len(left \o front) = Len(left) + n
    BY <1>3, <2>1, <2>2, ConcatProperties
  <2>4. (Len(left) + n) + (Len(cq) - n) = Entries
    <3>1. Len(left) \in Nat
      BY <1>3, LenProperties
    <3> QED BY <1>3, <1>4, <3>1
  <2>5. /\ fixed_buffer_pool' = pool /\ cq_entries' = back /\ free_buffer_indices' = left \o front
    BY <1>2 DEF front, back
  <2> QED BY <1>3, <2>1, <2>2, <2>3, <2>4, <2>5 DEF UringInv
<1>8. /\ full \in Seq(Nat) /\ Len(full) = Len(cq)
  <2>1. full \in [1..Len(cq) -> Nat]
    BY <1>3, ElementOfSeq
  <2> HIDE DEF full
  <2> QED BY <1>4, <2>1, FunctionIsSeq
<1>9. [i \in 1..n |-> pool[cq[i]]] = SubSeq(full, 1, n)
  <2>1. \A i \in 1..n : full[i] = pool[cq[i]]
    BY <1>4
  <2> HIDE DEF full
  <2>2. SubSeq(full, 1, n) = [i \in 1..n |-> full[i]]
    BY <1>4, <1>8, PrefixAsFunction
  <2> QED BY <2>1, <2>2
<1>10. Completions' = SubSeq(full, n + 1, Len(full))
  <2>1. /\ Len(cq_entries') = Len(cq) - n
        /\ \A i \in 1..Len(cq) - n : cq_entries'[i] = cq[n + i] /\ n + i \in 1..Len(cq)
    BY <1>2, <1>3, <1>4, SuffixAsFunction
  <2>2. Completions' = [i \in 1..Len(cq) - n |-> pool[cq_entries'[i]]]
    BY <1>2, <2>1 DEF Completions
  <2>3. \A i \in 1..Len(cq) - n : full[n + i] = pool[cq_entries'[i]]
    BY <2>1
  <2> HIDE DEF full
  <2>4. SubSeq(full, n + 1, Len(full)) = [i \in 1..Len(cq) - n |-> full[n + i]]
    BY <1>4, <1>8, SuffixAsFunction
  <2> QED BY <2>2, <2>3, <2>4
<1> HIDE DEF full
<1>11. /\ delivered' \in Seq(Nat) /\ Completions' \in Seq(Nat) /\ delivered' \o Completions' = delivered \o full
  <2> DEFINE front == SubSeq(full, 1, n)
             back == SubSeq(full, n + 1, Len(full))
  <2>1. n \in 0..Len(full)
    BY <1>4, <1>8
  <2>2. front \in Seq(Nat) /\ back \in Seq(Nat) /\ (delivered \o front) \o back = delivered \o full
    <3>1. delivered \in Seq(Nat) /\ full \in Seq(Nat)
      BY <1>8 DEF HistoryTypes
    <3>2. (delivered \o front) \o back = delivered \o full
      BY <2>1, <3>1, PacketsMovedOver
    <3>3. front \in Seq(Nat) /\ back \in Seq(Nat)
      BY <2>1, <3>1, PrefixAsFunction, SuffixAsFunction
    <3> QED BY <3>2, <3>3
  <2>3. delivered' = delivered \o front /\ Completions' = back
    BY <1>2, <1>9, <1>10
  <2> HIDE DEF front, back
  <2>4. delivered \o front \in Seq(Nat)
    BY <2>2, ConcatProperties DEF HistoryTypes
  <2> QED BY <2>2, <2>3, <2>4, Zenon
<1>12. delivered' \o (Completions' \o kernel') = delivered \o (Completions \o kernel)
  <2>1. delivered' \o (Completions' \o rest) = (delivered' \o Completions') \o rest
    <3>1. delivered' \in Seq(Nat) /\ Completions' \in Seq(Nat) /\ rest \in Seq(Nat)
      BY <1>6, <1>11, Zenon
    <3> QED BY <3>1, PacketsAssociative
  <2>2. (delivered \o full) \o rest = delivered \o (full \o rest)
    <3>1. delivered \in Seq(Nat) /\ full \in Seq(Nat) /\ rest \in Seq(Nat)
      BY <1>6, <1>8, Zenon DEF HistoryTypes
    <3> QED BY <3>1, PacketsAssociative, SMTT(30)
  <2>3. full \o rest = Completions \o kernel
    BY <1>3, <1>6, Zenon
  <2> QED BY <1>2, <1>11, <2>1, <2>2, <2>3, Zenon
<1> QED BY <1>2, <1>6, <1>7, <1>11, <1>12, Zenon

-----------------------------------------------------------------------------
(* Transport: the order of the packets                                     *)

\* Packets of one source, in D or not in D, are in the order of their numbers.
InOrder(s, D) == \A i, j \in DOMAIN s : i < j /\ (s[i] \in D <=> s[j] \in D) => s[i] < s[j]

All == delivered \o Waiting

\* Datagrams and accepted packets have arrived, the kernel queues datagrams, only the socket
\* transports have a socket, and before the factory made one nothing waits in a transport.
SourceInv ==
  /\ datagrams \subseteq 1..arrived /\ ToSet(kernel) \subseteq datagrams
  /\ ToSet(accepted) \subseteq 1..arrived
  /\ has_socket => backend \in {"IoUring", "StandardSocket"}
  /\ backend = "none" => /\ rx_ring_head = 0 /\ cq_entries = << >>
                         /\ kernel = << >> /\ queue = << >>

\* Packet x is newer than those of a and b, and those of b are all of the other source.
Fits(a, b, x, D, E) ==
  /\ InOrder(a \o b, D)
  /\ \A y \in ToSet(a \o b) : y < x /\ (y \in D <=> y \in E)
  /\ b # << >> => x \notin E /\ ToSet(b) \subseteq E

\* The newest packet fits in at the end, or before packets that are all of the other source.
LEMMA Inserted ==
  ASSUME NEW a \in Seq(Nat), NEW b \in Seq(Nat), NEW x \in Nat, NEW D, NEW E, Fits(a, b, x, D, E)
  PROVE  /\ InOrder(Append(a, x) \o b, E)
         /\ ToSet(Append(a, x) \o b) = ToSet(a \o b) \cup {x}
<1> DEFINE A == Len(a)
           B == Len(b)
           s == a \o b
           t == Append(a, x) \o b
           Old(i) == IF i <= A THEN i ELSE i - 1
<1>1. /\ A \in Nat /\ B \in Nat /\ DOMAIN s = 1..A + B /\ DOMAIN t = 1..A + B + 1 /\ DOMAIN b = 1..B
      /\ \A i \in 1..A + B : s[i] = IF i <= A THEN a[i] ELSE b[i - A]
      /\ \A i \in 1..A + B : s[i] \in Nat
  OBVIOUS
<1>2. t[A + 1] = x /\ \A i \in 1..A + B + 1 : i # A + 1 => t[i] = s[Old(i)] /\ Old(i) \in 1..A + B
  <2>1. t[A + 1] = x
    OBVIOUS
  <2>2. ASSUME NEW i \in 1..A PROVE t[i] = a[i] /\ s[i] = a[i] /\ Old(i) = i
    OBVIOUS
  <2>3. ASSUME NEW i \in A + 2..A + B + 1 PROVE t[i] = b[i - A - 1] /\ s[i - 1] = b[i - A - 1] /\ Old(i) = i - 1
    OBVIOUS
  <2> HIDE DEF s, t, A, B
  <2>4. ASSUME NEW i \in 1..A + B + 1, i # A + 1 PROVE t[i] = s[Old(i)] /\ Old(i) \in 1..A + B
    <3>1. i \in 1..A \/ i \in A + 2..A + B + 1
      BY <1>1, <2>4
    <3>2. Old(i) \in 1..A + B
      BY <1>1, <2>4
    <3> HIDE DEF Old
    <3> QED BY <2>2, <2>3, <3>1, <3>2
  <2> QED BY <2>1, <2>4
<1>3. ASSUME NEW i \in A + 2..A + B + 1 PROVE B > 0 /\ t[i] \in ToSet(b)
  <2>1. t[i] = b[i - A - 1] /\ i - A - 1 \in 1..B
    OBVIOUS
  <2> HIDE DEF s, t, A, B
  <2>2. B > 0
    BY <1>1, <2>1
  <2>3. t[i] \in ToSet(b)
    BY <1>1, <2>1 DEF ToSet
  <2> QED BY <2>2, <2>3
<1>4. b = << >> => B = 0
  OBVIOUS
<1>5. /\ InOrder(s, D) /\ \A y \in ToSet(s) : y < x /\ (y \in D <=> y \in E)
      /\ b # << >> => x \notin E /\ ToSet(b) \subseteq E
  BY DEF Fits
<1> HIDE DEF s, t, A, B
<1>6. \A i \in 1..A + B : s[i] < x /\ (s[i] \in D <=> s[i] \in E)
  BY <1>1, <1>5 DEF ToSet
<1>7. InOrder(t, E)
  <2>1. SUFFICES ASSUME NEW i \in 1..A + B + 1, NEW j \in 1..A + B + 1, i < j, t[i] \in E <=> t[j] \in E
                 PROVE  t[i] < t[j]
    BY <1>1 DEF InOrder
  <2>2. CASE i = A + 1
    <3>1. j \in A + 2..A + B + 1
      BY <1>1, <2>1, <2>2
    <3>2. t[j] \in ToSet(b) /\ b # << >>
      BY <1>1, <1>3, <1>4, <3>1
    <3>3. x \notin E /\ t[j] \in E
      BY <1>5, <3>2
    <3> QED BY <1>2, <2>1, <2>2, <3>3
  <2>3. CASE j = A + 1
    <3>1. i # A + 1
      BY <1>1, <2>1, <2>3
    <3>2. t[i] = s[Old(i)] /\ Old(i) \in 1..A + B
      BY <1>2, <3>1
    <3> HIDE DEF Old
    <3> QED BY <1>2, <1>6, <2>3, <3>2
  <2>4. CASE i # A + 1 /\ j # A + 1
    <3>1. Old(i) < Old(j)
      BY <1>1, <2>1, <2>4
    <3>2. /\ t[i] = s[Old(i)] /\ Old(i) \in 1..A + B
          /\ t[j] = s[Old(j)] /\ Old(j) \in 1..A + B
      BY <1>2, <2>4
    <3> HIDE DEF Old
    <3>3. s[Old(i)] \in D <=> s[Old(j)] \in D
      BY <1>6, <2>1, <3>2
    <3>4. s[Old(i)] < s[Old(j)]
      BY <1>1, <1>5, <3>1, <3>2, <3>3 DEF InOrder
    <3> QED BY <3>2, <3>4
  <2> QED BY <2>2, <2>3, <2>4
<1>8. ToSet(t) = ToSet(s) \cup {x}
  <2>1. ASSUME NEW i \in 1..A + B + 1 PROVE t[i] \in ToSet(s) \cup {x}
    <3>1. CASE i = A + 1
      BY <1>2, <3>1
    <3>2. CASE i # A + 1
      <4>1. t[i] = s[Old(i)] /\ Old(i) \in 1..A + B
        BY <1>2, <3>2
      <4> HIDE DEF Old
      <4> QED BY <1>1, <4>1 DEF ToSet
    <3> QED BY <3>1, <3>2
  <2>2. ASSUME NEW i \in 1..A + B PROVE s[i] \in ToSet(t)
    <3> DEFINE n == IF i <= A THEN i ELSE i + 1
    <3>1. n \in 1..A + B + 1 /\ n # A + 1 /\ Old(n) = i
      BY <1>1
    <3> HIDE DEF n, Old
    <3> QED BY <1>1, <1>2, <3>1 DEF ToSet
  <2>3. A + 1 \in 1..A + B + 1
    BY <1>1
  <2>4. x \in ToSet(t)
    BY <1>1, <1>2, <2>3 DEF ToSet
  <2>5. ToSet(t) \subseteq ToSet(s) \cup {x}
    BY <1>1, <2>1 DEF ToSet
  <2>6. ToSet(s) \subseteq ToSet(t)
    BY <1>1, <2>2 DEF ToSet
  <2> QED BY <2>4, <2>5, <2>6
<1> QED BY <1>7, <1>8 DEF s, t

TransportInv == BridgeInv /\ HistoryTypes /\ UringInv /\ QueueTypes /\ SourceInv /\ EachSourceInOrder

\* Where the packets of each backend wait.
LEMMA WaitingIn ==
  /\ backend = "SolarflareEfVi" => Waiting = RingWindow
  /\ backend = "IoUring" => Waiting = Completions \o kernel
  /\ backend = "StandardSocket" => Waiting = kernel
  /\ backend \in {"none", "failed", "Mock"} => Waiting = queue
BY DEF Waiting, RingWindow, Completions

\* The elements of a sequence with one more.
LEMMA ToSetAppend ==
  ASSUME NEW s \in Seq(Nat), NEW x \in Nat
  PROVE  ToSet(Append(s, x)) = ToSet(s) \cup {x}
<1>1. /\ Len(s) \in Nat /\ DOMAIN s = 1..Len(s) /\ DOMAIN Append(s, x) = 1..Len(s) + 1
      /\ Append(s, x)[Len(s) + 1] = x /\ \A i \in 1..Len(s) : Append(s, x)[i] = s[i]
  BY AppendProperties
<1> DEFINE t == Append(s, x)
           n == Len(s)
<1>2. /\ n \in Nat /\ DOMAIN s = 1..n /\ DOMAIN t = 1..n + 1
      /\ t[n + 1] = x /\ \A i \in 1..n : t[i] = s[i]
  BY <1>1
<1> HIDE DEF t, n
<1>3. \A i \in 1..n + 1 : i = n + 1 \/ i \in 1..n
  BY <1>2
<1>4. n + 1 \in 1..n + 1 /\ \A i \in 1..n : i \in 1..n + 1
  BY <1>2
<1>5. ToSet(t) \subseteq ToSet(s) \cup {x}
  BY <1>2, <1>3 DEF ToSet
<1>6. ToSet(s) \cup {x} \subseteq ToSet(t)
  BY <1>2, <1>4 DEF ToSet
<1> QED BY <1>5, <1>6 DEF t

\* The property in terms of All.
LEMMA OrderOfAll == EachSourceInOrder <=> ToSet(All) = ToSet(accepted) /\ InOrder(All, datagrams)
BY DEF EachSourceInOrder, InOrder, All

\* A step that moves packets on keeps their order.
LEMMA MovingKeepsOrder ==
  ASSUME EachSourceInOrder, All' = All, accepted' = accepted, datagrams' = datagrams
  PROVE  EachSourceInOrder'
<1>1. ToSet(All) = ToSet(accepted) /\ InOrder(All, datagrams)
  BY OrderOfAll
<1>2. ToSet(All') = ToSet(accepted') /\ InOrder(All', datagrams')
  BY <1>1
<1> QED BY <1>2 DEF EachSourceInOrder, InOrder, All

\* A step that accepts the packet that just arrived keeps it, too.
LEMMA AcceptingKeepsOrder ==
  ASSUME HistoryTypes, SourceInv, EachSourceInOrder, NEW a \in Seq(Nat), NEW b \in Seq(Nat),
         All = a \o b, All' = Append(a, arrived + 1) \o b,
         accepted' = Append(accepted, arrived + 1),
         \/ datagrams' = datagrams /\ ToSet(b) \subseteq datagrams
         \/ datagrams' = datagrams \cup {arrived + 1} /\ b = << >>
  PROVE  EachSourceInOrder'
<1>1. ToSet(a \o b) = ToSet(accepted) /\ InOrder(a \o b, datagrams)
  BY OrderOfAll
<1>2. /\ arrived \in Nat /\ accepted \in Seq(Nat) /\ ToSet(accepted) \subseteq 1..arrived
      /\ datagrams \subseteq 1..arrived
  BY DEF HistoryTypes, SourceInv
<1>3. \A y \in ToSet(a \o b) : y < arrived + 1 /\ (y \in datagrams <=> y \in datagrams')
  BY <1>1, <1>2
<1>4. b # << >> => arrived + 1 \notin datagrams' /\ ToSet(b) \subseteq datagrams'
  BY <1>2
<1>5. Fits(a, b, arrived + 1, datagrams, datagrams') /\ arrived + 1 \in Nat
  BY <1>1, <1>2, <1>3, <1>4 DEF Fits
<1>6. /\ InOrder(Append(a, arrived + 1) \o b, datagrams')
      /\ ToSet(Append(a, arrived + 1) \o b) = ToSet(a \o b) \cup {arrived + 1}
  BY <1>5, Inserted
<1>7. ToSet(Append(accepted, arrived + 1)) = ToSet(accepted) \cup {arrived + 1}
  BY <1>2, <1>5, ToSetAppend
<1>8. ToSet(All') = ToSet(accepted') /\ InOrder(All', datagrams')
  BY <1>1, <1>6, <1>7
<1> QED BY <1>8 DEF EachSourceInOrder, InOrder, All

\* The packet goes to the end of what waits.
LEMMA AcceptingAtTheEnd ==
  ASSUME HistoryTypes, SourceInv, EachSourceInOrder, Waiting \in Seq(Nat), delivered' = delivered,
         Waiting' = Append(Waiting, arrived + 1), accepted' = Append(accepted, arrived + 1),
         datagrams' = datagrams \/ datagrams' = datagrams \cup {arrived + 1}
  PROVE  EachSourceInOrder'
<1>1. delivered \in Seq(Nat) /\ arrived + 1 \in Nat
  BY DEF HistoryTypes
<1>2. All \in Seq(Nat)
  BY <1>1, ConcatProperties DEF All
<1>3. All' = Append(All, arrived + 1)
  BY <1>1, AppendConcat, SMTT(30) DEF All
<1>4. All = All \o << >> /\ Append(All, arrived + 1) = Append(All, arrived + 1) \o << >>
  BY <1>1, <1>2, AppendProperties, ConcatEmptySeq
<1>5. << >> \in Seq(Nat) /\ ToSet(<< >>) \subseteq datagrams
  BY DEF ToSet
<1> QED BY <1>2, <1>3, <1>4, <1>5, AcceptingKeepsOrder

\* Nothing accepted: the packet that arrived was dropped.
LEMMA DroppingKeepsSources ==
  ASSUME HistoryTypes, SourceInv, arrived' \in {arrived, arrived + 1}
  PROVE  datagrams \subseteq 1..arrived' /\ ToSet(accepted) \subseteq 1..arrived'
BY DEF HistoryTypes, SourceInv

\* A step of another part of the transport leaves the bridge, or the pool, as it is.
LEMMA BridgeUntouched == BridgeInv /\ UNCHANGED bridgeVars => BridgeInv' /\ RingWindow' = RingWindow
BY DEF bridgeVars, BridgeInv, BridgeTypes, NoBufferShared, LossAccounted, RingWindow

\* Steps that leave the io_uring buffers alone keep what holds of them.
LEMMA UringUntouched == UringInv /\ UNCHANGED uringVars => UringInv' /\ Completions' = Completions
BY DEF uringVars, UringInv, Completions

\* TransportFactory: a new transport is empty.
LEMMA CreateStep ==
  ASSUME TransportInv, NEW preferred \in Kinds \cup {"none"}, NEW host \in Hosts, NEW binds \in Binds,
         NEW bound \in BOOLEAN, Create(preferred, host, binds, bound)
  PROVE  TransportInv'
<1>1. /\ backend = "none" /\ rx_ring_head = 0 /\ cq_entries = << >> /\ kernel = << >> /\ queue = << >>
  BY DEF TransportInv, SourceInv, Create
<1>2. /\ UNCHANGED <<vars, kernel, uringVars, mockVars, io_errors, datagrams>>
      /\ has_socket' => backend' \in {"IoUring", "StandardSocket"}
  BY DEF Create
<1>3. /\ UNCHANGED <<bridgeVars, arrived, accepted, delivered>> /\ UNCHANGED uringVars
      /\ kernel' = kernel /\ queue' = queue /\ datagrams' = datagrams
  BY <1>2 DEF vars, bridgeVars, mockVars
<1>4. /\ BridgeInv' /\ UringInv' /\ RingWindow' = RingWindow /\ Completions' = Completions
  BY <1>3, BridgeUntouched, UringUntouched DEF TransportInv
<1>5. HistoryTypes' /\ QueueTypes' /\ SourceInv'
  BY <1>1, <1>2, <1>3 DEF TransportInv, HistoryTypes, QueueTypes, SourceInv, bridgeVars, uringVars
<1>6. RingWindow = << >> /\ Completions \o kernel = << >> /\ kernel = << >> /\ queue = << >>
  BY <1>1 DEF RingWindow, Completions
<1>7. backend' \in {"none", "failed", "Mock", "SolarflareEfVi", "IoUring", "StandardSocket"}
  BY DEF Create, Negotiated, Explicit, Kinds
<1>8. Waiting = << >>
  BY <1>1, WaitingIn
<1>9. Waiting' = << >>
  <2>1. /\ backend' = "SolarflareEfVi" => Waiting' = RingWindow'
        /\ backend' = "IoUring" => Waiting' = Completions' \o kernel'
        /\ backend' = "StandardSocket" => Waiting' = kernel'
        /\ backend' \in {"none", "failed", "Mock"} => Waiting' = queue'
    BY DEF Waiting, RingWindow, Completions
  <2> QED BY <1>3, <1>4, <1>6, <1>7, <2>1
<1>10. All' = All
  BY <1>3, <1>8, <1>9 DEF All
<1>11. EachSourceInOrder'
  BY <1>3, <1>10, MovingKeepsOrder DEF TransportInv
<1> QED BY <1>3, <1>4, <1>5, <1>11 DEF TransportInv

\* What SourceInv needs of a step that accepts the packet that arrived.
LEMMA AcceptingKeepsSources ==
  ASSUME HistoryTypes, SourceInv, arrived' = arrived + 1, delivered' = delivered,
         accepted' = Append(accepted, arrived + 1)
  PROVE  /\ HistoryTypes'
         /\ datagrams \subseteq 1..arrived' /\ datagrams \cup {arrived'} \subseteq 1..arrived'
         /\ ToSet(accepted') \subseteq 1..arrived'
<1>1. arrived \in Nat /\ accepted \in Seq(Nat) /\ delivered \in Seq(Nat)
  BY DEF HistoryTypes
<1>2. datagrams \subseteq 1..arrived /\ ToSet(accepted) \subseteq 1..arrived
  BY DEF SourceInv
<1>3. ToSet(accepted') = ToSet(accepted) \cup {arrived + 1}
  BY <1>1, ToSetAppend
<1>4. accepted' \in Seq(Nat)
  BY <1>1, AppendProperties
<1>5. 1..arrived \subseteq 1..arrived + 1 /\ arrived + 1 \in 1..arrived + 1
  BY <1>1
<1> QED BY <1>1, <1>2, <1>3, <1>4, <1>5 DEF HistoryTypes

\* A datagram reaches the host: the kernel queues it behind the others, or drops it.
LEMMA ArriveStep ==
  ASSUME TransportInv, Arrive
  PROVE  TransportInv'
<1>0. BridgeInv /\ HistoryTypes /\ UringInv /\ QueueTypes /\ SourceInv /\ EachSourceInOrder
  BY DEF TransportInv
<1>1. /\ arrived' = arrived + 1 /\ UNCHANGED bridgeVars /\ UNCHANGED uringVars /\ queue' = queue
      /\ delivered' = delivered /\ backend' = backend /\ has_socket' = has_socket /\ has_socket
  BY DEF Arrive, Arrives, mockVars
<1>2. backend \in {"IoUring", "StandardSocket"}
  BY <1>0, <1>1 DEF SourceInv
<1>3. BridgeInv' /\ UringInv' /\ Completions' = Completions
  BY <1>0, <1>1, BridgeUntouched, UringUntouched
<1>4. CASE kernel' = Append(kernel, arrived + 1) /\ datagrams' = datagrams \cup {arrived + 1}
             /\ accepted' = Append(accepted, arrived + 1)
  <2>1. /\ HistoryTypes' /\ datagrams' \subseteq 1..arrived' /\ ToSet(accepted') \subseteq 1..arrived'
    BY <1>0, <1>1, <1>4, AcceptingKeepsSources
  <2>2. kernel \in Seq(Nat) /\ arrived + 1 \in Nat /\ ToSet(kernel) \subseteq datagrams
    BY <1>0 DEF QueueTypes, HistoryTypes, SourceInv
  <2>3. QueueTypes'
    BY <1>0, <1>1, <1>4, <2>2, AppendProperties DEF QueueTypes
  <2>4. ToSet(kernel') \subseteq datagrams'
    BY <1>4, <2>2, ToSetAppend
  <2>5. SourceInv'
    BY <1>1, <1>2, <2>1, <2>4 DEF SourceInv
  <2>6. Waiting \in Seq(Nat) /\ Waiting' = Append(Waiting, arrived + 1)
    <3>1. CASE backend = "IoUring"
      <4>1. Waiting = Completions \o kernel /\ Waiting' = Completions \o Append(kernel, arrived + 1)
        BY <1>1, <1>3, <1>4, <3>1 DEF Waiting, Completions
      <4>2. Completions \in Seq(Nat)
        BY <1>0, CompletionsType
      <4>3. Completions \o kernel \in Seq(Nat)
        BY <2>2, <4>2, ConcatProperties
      <4>4. Completions \o Append(kernel, arrived + 1) = Append(Completions \o kernel, arrived + 1)
        BY <2>2, <4>2, AppendConcat, SMTT(30)
      <4> QED BY <4>1, <4>3, <4>4
    <3>2. CASE backend = "StandardSocket"
      BY <1>1, <1>4, <2>2, <3>2 DEF Waiting
    <3> QED BY <1>2, <3>1, <3>2
  <2>7. EachSourceInOrder'
    BY <1>0, <1>1, <1>4, <2>6, AcceptingAtTheEnd
  <2> QED BY <1>3, <2>1, <2>3, <2>5, <2>7 DEF TransportInv
<1>5. CASE UNCHANGED <<kernel, datagrams, accepted>>
  <2>1. datagrams \subseteq 1..arrived' /\ ToSet(accepted) \subseteq 1..arrived'
    BY <1>0, <1>1, DroppingKeepsSources
  <2>2. HistoryTypes' /\ QueueTypes'
    BY <1>0, <1>1, <1>5 DEF HistoryTypes, QueueTypes
  <2>3. SourceInv'
    BY <1>0, <1>1, <1>2, <1>5, <2>1 DEF SourceInv
  <2>4. All' = All
    BY <1>1, <1>2, <1>3, <1>5 DEF All, Waiting, Completions
  <2>5. EachSourceInOrder'
    BY <1>0, <1>5, <2>4, MovingKeepsOrder
  <2> QED BY <1>3, <2>2, <2>3, <2>5 DEF TransportInv
<1> QED BY <1>4, <1>5 DEF Arrive

\* SolarflareEfViTransport::inject_packet.
LEMMA EfViInjectStep ==
  ASSUME TransportInv, EfViInject
  PROVE  TransportInv'
<1>0. BridgeInv /\ HistoryTypes /\ UringInv /\ QueueTypes /\ SourceInv /\ EachSourceInOrder
  BY DEF TransportInv
<1>1. /\ backend = "SolarflareEfVi" /\ backend' = backend /\ has_socket' = has_socket
      /\ kernel' = kernel /\ UNCHANGED uringVars /\ queue' = queue /\ datagrams' = datagrams
      /\ (InjectPacket \/ InjectDropped)
  BY DEF EfViInject, mockVars
<1>2. UringInv' /\ QueueTypes'
  BY <1>0, <1>1, UringUntouched DEF QueueTypes
<1>3. Waiting = RingWindow /\ Waiting' = RingWindow'
  BY <1>1 DEF Waiting, RingWindow
<1>4. CASE InjectPacket
  <2>1. BridgeInv' /\ HistoryTypes' /\ RingWindow' = Append(RingWindow, arrived + 1)
    BY <1>0, <1>4, InjectPacketStep
  <2>2. arrived' = arrived + 1 /\ accepted' = Append(accepted, arrived + 1) /\ delivered' = delivered
    BY <1>4 DEF InjectPacket, Arrives
  <2>3. SourceInv'
    <3>1. datagrams' \subseteq 1..arrived' /\ ToSet(accepted') \subseteq 1..arrived'
      BY <1>0, <1>1, <2>2, AcceptingKeepsSources
    <3> QED BY <1>0, <1>1, <3>1 DEF SourceInv
  <2>4. EachSourceInOrder'
    <3>1. RingWindow \in Seq(Nat)
      BY <1>0, WindowType
    <3> QED BY <1>0, <1>1, <1>3, <2>1, <2>2, <3>1, AcceptingAtTheEnd
  <2> QED BY <1>2, <2>1, <2>3, <2>4 DEF TransportInv
<1>5. CASE InjectDropped
  <2>1. arrived' = arrived + 1 /\ accepted' = accepted /\ delivered' = delivered /\ UNCHANGED bridgeVars
    BY <1>5 DEF InjectDropped, Arrives, bridgeVars
  <2>2. BridgeInv' /\ RingWindow' = RingWindow
    BY <1>0, <2>1, BridgeUntouched
  <2>3. HistoryTypes'
    BY <1>0, <2>1 DEF HistoryTypes
  <2>4. SourceInv'
    <3>1. datagrams' \subseteq 1..arrived' /\ ToSet(accepted') \subseteq 1..arrived'
      BY <1>0, <1>1, <2>1, DroppingKeepsSources
    <3> QED BY <1>0, <1>1, <3>1 DEF SourceInv
  <2>5. EachSourceInOrder'
    <3>1. All' = All
      BY <1>3, <2>1, <2>2 DEF All
    <3> QED BY <1>0, <1>1, <2>1, <3>1, MovingKeepsOrder
  <2> QED BY <1>2, <2>2, <2>3, <2>4, <2>5 DEF TransportInv
<1> QED BY <1>1, <1>4, <1>5

\* IoUringTransport::inject_packet: the packet overtakes the datagrams in the kernel.
LEMMA UringInjectKeeps ==
  ASSUME TransportInv, UringInject
  PROVE  TransportInv'
<1>0. BridgeInv /\ HistoryTypes /\ UringInv /\ QueueTypes /\ SourceInv /\ EachSourceInOrder
  BY DEF TransportInv
<1>1. /\ backend = "IoUring" /\ backend' = backend /\ has_socket' = has_socket /\ arrived' = arrived + 1
      /\ kernel' = kernel /\ UNCHANGED bridgeVars /\ queue' = queue /\ datagrams' = datagrams
      /\ delivered' = delivered
  BY DEF UringInject, Arrives, mockVars
<1>2. BridgeInv' /\ QueueTypes'
  BY <1>0, <1>1, BridgeUntouched DEF QueueTypes
<1>3. Waiting = Completions \o kernel /\ Waiting' = Completions' \o kernel
  BY <1>1 DEF Waiting, Completions
<1>4. CASE free_buffer_indices # << >> /\ SetUring(Completed(Uring, arrived + 1))
             /\ accepted' = Append(accepted, arrived + 1)
  <2>0. arrived + 1 \in Nat
    BY <1>0 DEF HistoryTypes
  <2>1. UringInv' /\ Completions' = Append(Completions, arrived + 1)
    BY <1>0, <1>4, <2>0, UringInjectStep
  <2>2. HistoryTypes' /\ SourceInv'
    <3>1. HistoryTypes' /\ datagrams' \subseteq 1..arrived' /\ ToSet(accepted') \subseteq 1..arrived'
      BY <1>0, <1>1, <1>4, AcceptingKeepsSources
    <3> QED BY <1>0, <1>1, <3>1 DEF SourceInv
  <2>3. EachSourceInOrder'
    <3> DEFINE a == delivered \o Completions
               x == arrived + 1
    <3>1. /\ delivered \in Seq(Nat) /\ Completions \in Seq(Nat) /\ kernel \in Seq(Nat)
          /\ ToSet(kernel) \subseteq datagrams
      BY <1>0, CompletionsType DEF HistoryTypes, QueueTypes, SourceInv
    <3>2. a \in Seq(Nat) /\ Append(Completions, x) \in Seq(Nat)
      BY <2>0, <3>1, ConcatProperties, AppendProperties
    <3>3. All = a \o kernel
      BY <1>3, <3>1, PacketsAssociative DEF All
    <3>4. All' = Append(a, x) \o kernel
      <4>1. All' = delivered \o (Append(Completions, x) \o kernel)
        BY <1>1, <1>3, <2>1 DEF All
      <4>2. delivered \o (Append(Completions, x) \o kernel) = (delivered \o Append(Completions, x)) \o kernel
        BY <3>1, <3>2, PacketsAssociative, ZenonT(30)
      <4>3. delivered \o Append(Completions, x) = Append(a, x)
        BY <2>0, <3>1, AppendConcat, SMTT(30)
      <4> QED BY <4>1, <4>2, <4>3
    <3> HIDE DEF a
    <3> QED BY <1>0, <1>1, <1>4, <3>1, <3>2, <3>3, <3>4, AcceptingKeepsOrder
  <2> QED BY <1>2, <2>1, <2>2, <2>3 DEF TransportInv
<1>5. CASE UNCHANGED <<uringVars, accepted>>
  <2>1. UringInv' /\ Completions' = Completions
    BY <1>0, <1>5, UringUntouched
  <2>2. HistoryTypes'
    BY <1>0, <1>1, <1>5 DEF HistoryTypes
  <2>3. SourceInv'
    <3>1. datagrams' \subseteq 1..arrived' /\ ToSet(accepted') \subseteq 1..arrived'
      BY <1>0, <1>1, <1>5, DroppingKeepsSources
    <3> QED BY <1>0, <1>1, <3>1 DEF SourceInv
  <2>4. EachSourceInOrder'
    <3>1. All' = All
      BY <1>1, <1>3, <2>1 DEF All
    <3> QED BY <1>0, <1>1, <1>5, <3>1, MovingKeepsOrder
  <2> QED BY <1>2, <2>1, <2>2, <2>3, <2>4 DEF TransportInv
<1> QED BY <1>4, <1>5 DEF UringInject

\* MockNetworkTransport::push_packet and set_active.
LEMMA MockStep ==
  ASSUME TransportInv, MockPush \/ SetActive
  PROVE  TransportInv'
<1>0. BridgeInv /\ HistoryTypes /\ UringInv /\ QueueTypes /\ SourceInv /\ EachSourceInOrder
  BY DEF TransportInv
<1>1. /\ backend = "Mock" /\ backend' = backend /\ has_socket' = has_socket
      /\ kernel' = kernel /\ UNCHANGED bridgeVars /\ UNCHANGED uringVars /\ datagrams' = datagrams
      /\ delivered' = delivered
  BY DEF MockPush, SetActive, vars, bridgeVars
<1>2. BridgeInv' /\ UringInv'
  BY <1>0, <1>1, BridgeUntouched, UringUntouched
<1>3. Waiting = queue /\ Waiting' = queue'
  BY <1>1 DEF Waiting
<1>4. CASE MockPush
  <2>1. /\ queue' = Append(queue, arrived + 1) /\ accepted' = Append(accepted, arrived + 1)
        /\ arrived' = arrived + 1
    BY <1>4 DEF MockPush, Arrives
  <2>2. HistoryTypes' /\ SourceInv'
    <3>1. HistoryTypes' /\ datagrams' \subseteq 1..arrived' /\ ToSet(accepted') \subseteq 1..arrived'
      BY <1>0, <1>1, <2>1, AcceptingKeepsSources
    <3> QED BY <1>0, <1>1, <3>1 DEF SourceInv
  <2>3. queue \in Seq(Nat) /\ arrived + 1 \in Nat
    BY <1>0 DEF QueueTypes, HistoryTypes
  <2>4. QueueTypes'
    BY <1>0, <1>1, <2>1, <2>3, AppendProperties DEF QueueTypes
  <2>5. EachSourceInOrder'
    BY <1>0, <1>1, <1>3, <2>1, <2>3, AcceptingAtTheEnd
  <2> QED BY <1>2, <2>2, <2>4, <2>5 DEF TransportInv
<1>5. CASE SetActive
  <2>1. queue' = queue /\ accepted' = accepted /\ arrived' = arrived
    BY <1>5 DEF SetActive, vars
  <2>2. HistoryTypes' /\ SourceInv' /\ QueueTypes'
    BY <1>0, <1>1, <2>1 DEF HistoryTypes, QueueTypes, SourceInv
  <2>3. EachSourceInOrder'
    <3>1. All' = All
      BY <1>1, <1>3, <2>1 DEF All
    <3> QED BY <1>0, <1>1, <2>1, <3>1, MovingKeepsOrder
  <2> QED BY <1>2, <2>2, <2>3 DEF TransportInv
<1> QED BY <1>4, <1>5

\* poll_batch of each backend.
LEMMA PollBatchStep ==
  ASSUME TransportInv, PollBatch
  PROVE  TransportInv'
<1>0. BridgeInv /\ HistoryTypes /\ UringInv /\ QueueTypes /\ SourceInv /\ EachSourceInOrder
  BY DEF TransportInv
<1>1. /\ kernel \in Seq(Nat) /\ queue \in Seq(Nat) /\ delivered \in Seq(Nat)
      /\ DOMAIN kernel = 1..Len(kernel) /\ Len(kernel) \in Nat /\ Len(queue) \in Nat
  BY <1>0, LenProperties DEF QueueTypes, HistoryTypes
<1>2. ASSUME NEW max \in 1..N, EfViPoll(max) PROVE TransportInv'
  <2>1. /\ backend = "SolarflareEfVi" /\ backend' = backend /\ has_socket' = has_socket
        /\ kernel' = kernel /\ UNCHANGED uringVars /\ queue' = queue /\ datagrams' = datagrams
        /\ PollRxBurst(max) /\ arrived' = arrived /\ accepted' = accepted
    BY <1>2 DEF EfViPoll, mockVars, PollRxBurst
  <2>2. BridgeInv' /\ HistoryTypes' /\ delivered' \o RingWindow' = delivered \o RingWindow
    BY <1>0, <2>1, PollRxBurstStep
  <2>3. UringInv' /\ QueueTypes' /\ SourceInv'
    BY <1>0, <2>1, UringUntouched DEF QueueTypes, SourceInv
  <2>4. All' = All
    BY <2>1, <2>2 DEF All, Waiting, RingWindow
  <2>5. EachSourceInOrder'
    BY <1>0, <2>1, <2>4, MovingKeepsOrder
  <2> QED BY <2>2, <2>3, <2>5 DEF TransportInv
<1>3. ASSUME NEW max \in 1..N, MockPoll(max) PROVE TransportInv'
  <2> DEFINE n == Min({max, Len(queue)})
  <2>1. /\ backend = "Mock" /\ backend' = backend /\ has_socket' = has_socket
        /\ kernel' = kernel /\ UNCHANGED uringVars /\ UNCHANGED bridgeVars /\ datagrams' = datagrams
        /\ arrived' = arrived /\ accepted' = accepted
        /\ queue' = SubSeq(queue, n + 1, Len(queue)) /\ delivered' = delivered \o SubSeq(queue, 1, n)
    BY <1>3 DEF MockPoll
  <2>2. n \in 0..Len(queue)
    <3>1. max \in Nat
      BY BridgeAssumption
    <3>2. n = IF max <= Len(queue) THEN max ELSE Len(queue)
      BY <1>1, <3>1, MinOfTwo
    <3> HIDE DEF n
    <3> QED BY <1>1, <3>1, <3>2
  <2> HIDE DEF n
  <2>3. BridgeInv' /\ UringInv'
    BY <1>0, <2>1, BridgeUntouched, UringUntouched
  <2>4. SubSeq(queue, 1, n) \in Seq(Nat) /\ SubSeq(queue, n + 1, Len(queue)) \in Seq(Nat)
    BY <1>1, <2>2, PrefixAsFunction, SuffixAsFunction
  <2>5. delivered \o SubSeq(queue, 1, n) \in Seq(Nat)
    BY <1>1, <2>4, ConcatProperties
  <2>6. HistoryTypes' /\ QueueTypes' /\ SourceInv'
    BY <1>0, <2>1, <2>4, <2>5 DEF HistoryTypes, QueueTypes, SourceInv
  <2>7. All' = All
    <3>1. (delivered \o SubSeq(queue, 1, n)) \o SubSeq(queue, n + 1, Len(queue)) = delivered \o queue
      BY <1>1, <2>2, PacketsMovedOver
    <3> QED BY <2>1, <3>1 DEF All, Waiting
  <2>8. EachSourceInOrder'
    BY <1>0, <2>1, <2>7, MovingKeepsOrder
  <2> QED BY <2>3, <2>6, <2>8 DEF TransportInv
<1>4. ASSUME NEW max \in 1..N, NEW k \in 0..max, UringPoll(max, k) PROVE TransportInv'
  <2>1. /\ backend = "IoUring" /\ backend' = backend /\ has_socket' = has_socket
        /\ UNCHANGED bridgeVars /\ queue' = queue /\ datagrams' = datagrams
        /\ arrived' = arrived /\ accepted' = accepted
    BY <1>4 DEF UringPoll, mockVars
  <2>2. /\ UringInv' /\ kernel' \in Seq(Nat) /\ delivered' \in Seq(Nat)
        /\ ToSet(kernel') \subseteq ToSet(kernel)
        /\ delivered' \o (Completions' \o kernel') = delivered \o (Completions \o kernel)
    BY <1>0, <1>4, UringPollStep
  <2>3. BridgeInv'
    BY <1>0, <2>1, BridgeUntouched
  <2>4. HistoryTypes' /\ QueueTypes'
    BY <1>0, <2>1, <2>2 DEF HistoryTypes, QueueTypes
  <2>5. SourceInv'
    BY <1>0, <2>1, <2>2 DEF SourceInv
  <2>6. All' = All
    BY <2>1, <2>2 DEF All, Waiting, Completions
  <2>7. EachSourceInOrder'
    BY <1>0, <2>1, <2>6, MovingKeepsOrder
  <2> QED BY <2>2, <2>3, <2>4, <2>5, <2>7 DEF TransportInv
<1>5. ASSUME NEW max \in 1..N, NEW k \in 0..max, NEW failed \in BOOLEAN, SocketPoll(max, k, failed)
      PROVE  TransportInv'
  <2>1. /\ backend = "StandardSocket" /\ backend' = backend /\ has_socket' = has_socket
        /\ UNCHANGED bridgeVars /\ UNCHANGED uringVars /\ queue' = queue /\ datagrams' = datagrams
        /\ arrived' = arrived /\ accepted' = accepted /\ k <= Len(kernel)
        /\ kernel' = SubSeq(kernel, k + 1, Len(kernel)) /\ delivered' = delivered \o SubSeq(kernel, 1, k)
    BY <1>5 DEF SocketPoll, mockVars
  <2>2. k \in 0..Len(kernel)
    BY <1>1, <2>1, BridgeAssumption
  <2>3. BridgeInv' /\ UringInv'
    BY <1>0, <2>1, BridgeUntouched, UringUntouched
  <2>4. SubSeq(kernel, 1, k) \in Seq(Nat) /\ SubSeq(kernel, k + 1, Len(kernel)) \in Seq(Nat)
    BY <1>1, <2>2, PrefixAsFunction, SuffixAsFunction
  <2>5. delivered \o SubSeq(kernel, 1, k) \in Seq(Nat)
    BY <1>1, <2>4, ConcatProperties
  <2>6. HistoryTypes' /\ QueueTypes'
    BY <1>0, <2>1, <2>4, <2>5 DEF HistoryTypes, QueueTypes
  <2>7. ToSet(kernel') \subseteq ToSet(kernel)
    <3> DEFINE rest == SubSeq(kernel, k + 1, Len(kernel))
    <3>1. /\ DOMAIN rest = 1..Len(kernel) - k
          /\ \A i \in 1..Len(kernel) - k : rest[i] = kernel[k + i] /\ k + i \in 1..Len(kernel)
      BY <1>1, <2>2, SuffixAsFunction
    <3>2. kernel' = rest
      BY <2>1
    <3> HIDE DEF rest
    <3> QED BY <1>1, <3>1, <3>2 DEF ToSet
  <2>8. SourceInv'
    BY <1>0, <2>1, <2>7 DEF SourceInv
  <2>9. All' = All
    <3>1. (delivered \o SubSeq(kernel, 1, k)) \o SubSeq(kernel, k + 1, Len(kernel)) = delivered \o kernel
      BY <1>1, <2>2, PacketsMovedOver
    <3> QED BY <2>1, <3>1 DEF All, Waiting
  <2>10. EachSourceInOrder'
    BY <1>0, <2>1, <2>9, MovingKeepsOrder
  <2> QED BY <2>3, <2>6, <2>8, <2>10 DEF TransportInv
<1> QED BY <1>2, <1>3, <1>4, <1>5 DEF PollBatch

\* Before the factory is called: no packet, all buffers free.
LEMMA TransportInitInv == TransportInit => TransportInv
<1> SUFFICES ASSUME TransportInit PROVE TransportInv
  OBVIOUS
<1>0. Entries \in Nat
  BY TransportAssumption
<1>1. BridgeInv /\ HistoryTypes /\ arrived = 0 /\ accepted = << >> /\ delivered = << >> /\ rx_ring_head = 0
  BY BridgeInitInv DEF TransportInit, IntactInv, Init
<1>2. UringInv
  <2>1. /\ free_buffer_indices = [i \in 1..Entries |-> i - 1] /\ cq_entries = << >>
        /\ fixed_buffer_pool = [b \in Pool |-> 0]
    BY DEF TransportInit, Pool
  <2>2. free_buffer_indices \in [1..Entries -> Pool]
    BY <1>0, <2>1 DEF Pool
  <2>3. free_buffer_indices \in Seq(Pool) /\ Len(free_buffer_indices) = Entries
    BY <1>0, <2>2, FunctionIsSeq
  <2>4. cq_entries \in Seq(Pool) /\ Len(cq_entries) = 0 /\ free_buffer_indices \o cq_entries = free_buffer_indices
    BY <2>1, <2>3, EmptySeq, ConcatEmptySeq
  <2>5. IsInjective(free_buffer_indices)
    BY <1>0, <2>1 DEF IsInjective
  <2>6. fixed_buffer_pool \in [Pool -> Nat]
    BY <2>1
  <2> QED BY <1>0, <2>3, <2>4, <2>5, <2>6 DEF UringInv
<1>3. /\ backend = "none" /\ has_socket = FALSE /\ kernel = << >> /\ cq_entries = << >>
      /\ queue = << >> /\ datagrams = {}
  BY DEF TransportInit
<1>4. QueueTypes
  BY <1>3, EmptySeq DEF QueueTypes
<1>5. ToSet(<< >>) = {}
  BY DEF ToSet
<1>6. SourceInv
  BY <1>1, <1>3, <1>5 DEF SourceInv
<1>7. All = << >>
  BY <1>1, <1>3 DEF All, Waiting
<1>8. EachSourceInOrder
  <2>1. DOMAIN << >> = {}
    OBVIOUS
  <2>2. InOrder(All, datagrams)
    BY <1>7, <2>1 DEF InOrder
  <2> QED BY <1>1, <1>7, <2>2, OrderOfAll
<1> QED BY <1>1, <1>2, <1>4, <1>6, <1>8 DEF TransportInv

\* Every call of a transport, and every datagram, keeps the invariant.
LEMMA TransportNextInv == TransportInv /\ [TransportNext]_transportVars => TransportInv'
<1> SUFFICES ASSUME TransportInv, [TransportNext]_transportVars PROVE TransportInv'
  OBVIOUS
<1>1. CASE UNCHANGED transportVars
  <2>1. /\ UNCHANGED bridgeVars /\ UNCHANGED uringVars
        /\ UNCHANGED <<arrived, accepted, delivered, backend, has_socket, kernel, queue, datagrams>>
    BY <1>1 DEF transportVars, vars, bridgeVars, uringVars, mockVars
  <2>2. BridgeInv' /\ UringInv' /\ RingWindow' = RingWindow /\ Completions' = Completions
    BY <2>1, BridgeUntouched, UringUntouched DEF TransportInv
  <2>3. HistoryTypes' /\ QueueTypes' /\ SourceInv'
    BY <2>1 DEF TransportInv, HistoryTypes, QueueTypes, SourceInv, bridgeVars, uringVars
  <2>4. All' = All
    BY <2>1 DEF All, Waiting, bridgeVars, uringVars
  <2>5. EachSourceInOrder'
    BY <2>1, <2>4, MovingKeepsOrder DEF TransportInv
  <2> QED BY <2>2, <2>3, <2>5 DEF TransportInv
<1> QED BY <1>1, CreateStep, ArriveStep, EfViInjectStep, UringInjectKeeps, MockStep, PollBatchStep
        DEF TransportNext

\* The invariant holds in every reachable state.
THEOREM TransportInvariance == TransportSpec => []TransportInv
BY TransportInitInv, TransportNextInv, PTL DEF TransportSpec

\* No fixed buffer of the io_uring pool is lost or used twice, for a pool and batches of any
\* size, whatever the socket fails at; a DMA buffer of the bridge is in one place, or was
\* posted and empty when poll_rx_burst gave it up.
THEOREM BuffersInOnePlace == TransportSpec => []BuffersAccounted
<1>1. TransportInv => BuffersAccounted
  <2> SUFFICES ASSUME TransportInv PROVE BuffersAccounted
    OBVIOUS
  <2>1. /\ IsInjective(free_buffer_indices \o cq_entries)
        /\ Len(free_buffer_indices \o cq_entries) = Len(free_buffer_indices) + Len(cq_entries)
        /\ Len(free_buffer_indices) + Len(cq_entries) = Entries
    BY ConcatProperties DEF TransportInv, UringInv
  <2> QED BY <2>1 DEF BuffersAccounted, TransportInv, BridgeInv
<1> QED BY <1>1, TransportInvariance, PTL

\* Whatever the backend the factory chose, poll_batch hands on exactly the accepted packets,
\* each once and in the order of its source.
THEOREM EverySourceInOrder == TransportSpec => []EachSourceInOrder
<1>1. TransportInv => EachSourceInOrder
  BY DEF TransportInv
<1> QED BY <1>1, TransportInvariance, PTL

-----------------------------------------------------------------------------
(* SequenceTracker: no sequence of lost, repeated, reordered or merged     *)
(* batches and late snapshots leaves a hole in the book, and a gap is      *)
(* reported only where events are missing.                                 *)

\* A batch is a non-empty run of events that have happened.
BatchInv == \A d \in batches : d.first <= d.final /\ d.final <= published

TrackerInv == TrackerTypeOK /\ BatchInv /\ BookIsPrefix /\ GapIsReal

\* It holds of a tracker that has seen nothing.
LEMMA TrackerInitInv == TrackerInit => TrackerInv
BY MaxSeqAssumption DEF TrackerInit, TrackerInv, TrackerTypeOK, BatchInv, BookIsPrefix, GapIsReal

\* An accepted batch joins the book without a hole.
LEMMA Joined ==
  ASSUME NEW l \in Nat, NEW f \in Nat, NEW e \in Nat, 1 <= f, f <= l + 1, l + 1 <= e
  PROVE  (1..l) \cup (f..e) = 1..e
OBVIOUS

\* Every message of the stream preserves it.
LEMMA TrackerNextInv == TrackerInv /\ [TrackerNext]_trackerVars => TrackerInv'
<1> SUFFICES ASSUME TrackerInv, [TrackerNext]_trackerVars PROVE TrackerInv'
  OBVIOUS
<1> USE MaxSeqAssumption DEF TrackerInv, TrackerTypeOK
<1>1. ASSUME NEW n \in 1..MaxSeq, Publish(n) PROVE TrackerInv'
  <2> DEFINE b == [first |-> published + 1, final |-> published + n]
  <2>1. b \in [first : 1..MaxSeq, final : 1..MaxSeq] /\ b.first <= b.final /\ b.final = published'
    BY <1>1 DEF Publish
  <2>2. batches' = batches \cup {b}
    BY <1>1 DEF Publish
  <2>3. TrackerTypeOK'
    BY <1>1, <2>1, <2>2 DEF Publish, tracker
  <2>4. BatchInv'
    <3>1. published' = published + n
      BY <1>1 DEF Publish
    <3>2. \A d \in batches : d.first <= d.final /\ d.final \in Nat /\ d.final <= published'
      BY <3>1 DEF BatchInv
    <3> QED BY <2>1, <2>2, <3>2 DEF BatchInv
  <2>5. BookIsPrefix' /\ GapIsReal'
    BY <1>1 DEF Publish, tracker, BookIsPrefix, GapIsReal
  <2> QED BY <2>3, <2>4, <2>5
<1>2. ASSUME NEW s \in 0..published, OnSnapshot(s) PROVE TrackerInv'
  BY <1>2 DEF OnSnapshot, BatchInv, BookIsPrefix, GapIsReal
<1>3. ASSUME NEW d \in batches, Apply(d) PROVE TrackerInv'
  <2>1. d.first \in Nat /\ d.final \in Nat /\ 1 <= d.first /\ d.final <= published
    BY DEF BatchInv
  <2>2. BookIsPrefix'
    BY <1>3, <2>1, Joined DEF Apply, Accepts, NewLast, BookIsPrefix
  <2> QED BY <1>3, <2>1, <2>2 DEF Apply, Accepts, NewLast, BatchInv, BookIsPrefix, GapIsReal
<1>4. ASSUME NEW d \in batches, Gap(d) PROVE TrackerInv'
  <2>1. d.first \in 1..MaxSeq /\ d.final \in 1..MaxSeq
    OBVIOUS
  <2>2. d.first > last_sequence + 1
    BY <1>4, <2>1 DEF Gap, IsGap, Accepts
  <2>3. last_sequence + 1 \in 0..MaxSeq
    BY <2>1, <2>2
  <2> QED BY <1>4, <2>1, <2>2, <2>3 DEF Gap, BatchInv, BookIsPrefix, GapIsReal
<1>5. CASE UNCHANGED trackerVars
  BY <1>5 DEF trackerVars, tracker, BatchInv, BookIsPrefix, GapIsReal
<1> QED BY <1>1, <1>2, <1>3, <1>4, <1>5 DEF TrackerNext

\* The inductive invariant holds in every reachable state.
THEOREM TrackerInvariance == TrackerSpec => []TrackerInv
BY TrackerInitInv, TrackerNextInv, PTL DEF TrackerSpec

\* The book is exactly the exchange's events up to last_sequence, whatever was delivered,
\* however often and in whatever order.
THEOREM NoHole == TrackerSpec => []BookIsPrefix
<1>1. TrackerInv => BookIsPrefix
  BY DEF TrackerInv
<1> QED BY <1>1, TrackerInvariance, PTL

\* validate_sequence reports a gap only when events are missing before the batch.
THEOREM NoFalseGap == TrackerSpec => []GapIsReal
<1>1. TrackerInv => GapIsReal
  BY DEF TrackerInv
<1> QED BY <1>1, TrackerInvariance, PTL
=============================================================================
