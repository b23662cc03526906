------------------------- MODULE TokenBucketProofs --------------------------
(***************************************************************************)
(* Proofs about the rate limiter, for any number of threads and any burst, *)
(* times and refills that fit the fields of the word: it never gives a     *)
(* client less than the bucket it stands for holds and, at rates that      *)
(* divide the second or are multiples of it, never a whole token more.     *)
(***************************************************************************)
EXTENDS TokenBucket, TLAPS

-----------------------------------------------------------------------------
(* Arithmetic                                                              *)

\* What a division leaves.
LEMMA DivFacts ==
  ASSUME NEW a \in Nat, NEW b \in Nat \ {0}
  PROVE  a \div b \in Nat /\ (a \div b) * b <= a /\ a < (a \div b) * b + b
BY SMT

\* A number that fits is not cut.
LEMMA SmallMod ==
  ASSUME NEW a \in Nat, NEW b \in Nat, a < b
  PROVE  a % b = a
BY SMT

\* Products keep the order of their factors.
LEMMA Monotone ==
  ASSUME NEW a \in Int, NEW b \in Int, NEW c \in Nat, a <= b
  PROVE  a * c <= b * c
BY SMT

\* And a common factor can be struck from a comparison.
LEMMA Cancel ==
  ASSUME NEW a \in Int, NEW b \in Int, NEW c \in Nat, a * c < b * c
  PROVE  a < b
<1>1. SUFFICES ASSUME b <= a PROVE FALSE
  OBVIOUS
<1>2. b * c <= a * c
  BY <1>1, Monotone
<1> QED BY <1>2, SMT

\* The quotient is the largest number whose product does not exceed the dividend.
LEMMA DivBound ==
  ASSUME NEW a \in Int, NEW b \in Nat \ {0}, NEW q \in Int, a < q * b + b
  PROVE  a \div b <= q
<1>1. /\ a \div b \in Int /\ (a \div b) * b <= a
  BY SMT
<1>2. SUFFICES ASSUME a \div b >= q + 1 PROVE FALSE
  BY <1>1
<1>3. (q + 1) * b <= (a \div b) * b
  BY <1>1, <1>2, Monotone
<1>4. (q + 1) * b = q * b + b
  BY SMT
<1> QED BY <1>1, <1>3, <1>4, SMT

\* Dividing a multiple gives the factor back.
LEMMA DivExact ==
  ASSUME NEW a \in Nat, NEW b \in Nat \ {0}
  PROVE  (a * b) \div b = a
<1> DEFINE q == (a * b) \div b
<1>1. q \in Nat /\ q * b <= a * b /\ a * b < q * b + b
  <2>1. a * b \in Nat
    BY SMT
  <2> QED BY <2>1, DivFacts
<1> HIDE DEF q
<1>2. q * b < (a + 1) * b /\ a * b < (q + 1) * b
  BY <1>1, SMT
<1>3. q < a + 1 /\ a < q + 1
  BY <1>1, <1>2, Cancel
<1>4. q = a
  BY <1>1, <1>3
<1> QED BY <1>4 DEF q

\* The lesser of two numbers.
LEMMA MinOfTwo ==
  ASSUME NEW a \in Int, NEW b \in Int
  PROVE  Min({a, b}) = IF a <= b THEN a ELSE b
<1>1. PICK m \in {a, b} : m = IF a <= b THEN a ELSE b
  OBVIOUS
<1>2. \A y \in {a, b} : m <= y
  BY <1>1
<1>3. \A x \in {a, b} : (\A y \in {a, b} : x <= y) => x = m
  BY <1>1
<1> QED BY <1>1, <1>2, <1>3 DEF Min

\* The greater of two numbers: the latest time a caller brought.
LEMMA MaxOfTwo ==
  ASSUME NEW a \in Int, NEW b \in Int
  PROVE  Max({a, b}) = IF a >= b THEN a ELSE b
<1>1. PICK m \in {a, b} : m = IF a >= b THEN a ELSE b
  OBVIOUS
<1>2. \A y \in {a, b} : m >= y
  BY <1>1
<1>3. \A x \in {a, b} : (\A y \in {a, b} : x >= y) => x = m
  BY <1>1
<1> QED BY <1>1, <1>2, <1>3 DEF Max

-----------------------------------------------------------------------------
(* The parts of try_consume                                                *)

\* Times fit the word's 40 bits, the burst its 24; the longest refill's product fits a u64,
\* and its tokens on top of a full burst a u32.
NoWrap ==
  /\ Start + MaxMs < TsSpan /\ Burst < TokenSpan
  /\ MaxMs * Rate < U64Span /\ Burst + (MaxMs * Rate) \div Second < U32Span

Words == [ts : Start..Start + MaxMs, tokens : 0..Burst]
Times == Start..Start + MaxMs

\* A refill is what the time since the word's brings, in whole tokens.
LEMMA RefilledFacts ==
  ASSUME NoWrap, NEW w \in Words, NEW now \in Times
  PROVE  /\ Refilled(w, now) \in Nat
         /\ w.tokens + Refilled(w, now) < U32Span
         /\ now <= w.ts => Refilled(w, now) = 0
         /\ now > w.ts => /\ Refilled(w, now) * Second <= (now - w.ts) * Rate
                          /\ (now - w.ts) * Rate < Refilled(w, now) * Second + Second
<1> USE BucketAssumption
<1>0. (MaxMs * Rate) \div Second \in Nat /\ w.tokens \in 0..Burst
  BY DivFacts DEF Words
<1>1. CASE now <= w.ts
  BY <1>0, <1>1 DEF Refilled, Words, Times, NoWrap
<1>2. CASE now > w.ts
  <2> DEFINE e == now - w.ts
             q == (e * Rate) \div Second
  <2>1. e \in Nat /\ e <= MaxMs /\ e * Rate \in Nat
    BY <1>2 DEF Words, Times
  <2>2. e * Rate <= MaxMs * Rate
    BY <2>1, Monotone
  <2>3. q \in Nat /\ q * Second <= e * Rate /\ e * Rate < q * Second + Second
    BY <2>1, DivFacts
  <2> DEFINE top == (MaxMs * Rate) \div Second
  <2>4. top \in Nat /\ MaxMs * Rate < top * Second + Second
    BY DivFacts
  <2> HIDE DEF top
  <2>5. q <= top
    <3>1. e * Rate < top * Second + Second
      BY <2>1, <2>2, <2>4
    <3> QED BY <2>1, <2>4, <3>1, DivBound
  <2>6. w.tokens + q < U32Span
    BY <1>0, <2>3, <2>4, <2>5 DEF NoWrap, top
  <2>7. Refilled(w, now) = q % U32Span
    <3>1. e * Rate < U64Span /\ U64Span \in Nat
      BY <2>1, <2>2 DEF NoWrap
    <3>2. (e * Rate) % U64Span = e * Rate
      BY <2>1, <3>1, SmallMod
    <3> QED BY <1>2, <3>2 DEF Refilled
  <2> HIDE DEF q
  <2>8. Refilled(w, now) = q
    BY <1>0, <2>3, <2>6, <2>7, SmallMod
  <2> QED BY <1>2, <2>3, <2>6, <2>8 DEF Words, Times
<1> QED BY <1>1, <1>2 DEF Words, Times

\* A caller finds the tokens left and the refill, up to the burst.
LEMMA AvailableFacts ==
  ASSUME NoWrap, NEW w \in Words, NEW now \in Times
  PROVE  /\ Available(w, now) \in 0..Burst
         /\ Available(w, now) <= w.tokens + Refilled(w, now)
         /\ Available(w, now) < Burst => Available(w, now) = w.tokens + Refilled(w, now)
         /\ Refilled(w, now) = 0 => Available(w, now) = w.tokens
<1> USE BucketAssumption
<1> DEFINE r == Refilled(w, now)
<1>1. r \in Nat /\ w.tokens \in 0..Burst /\ w.tokens + r < U32Span
  BY RefilledFacts DEF Words
<1> HIDE DEF r
<1>2. Min({(w.tokens + r) % U32Span, Burst}) = IF w.tokens + r <= Burst THEN w.tokens + r ELSE Burst
  <2>1. (w.tokens + r) % U32Span = w.tokens + r
    BY <1>1, SmallMod
  <2> QED BY <1>1, <2>1, MinOfTwo
<1> QED BY <1>1, <1>2 DEF Available, r

\* The word's time moves forward, never past the caller's nor further than the refill.
LEMMA NextTsFacts ==
  ASSUME NoWrap, NEW w \in Words, NEW now \in Times
  PROVE  /\ NextTs(w, now) \in w.ts..Start + MaxMs
         /\ Refilled(w, now) = 0 => NextTs(w, now) = w.ts
         /\ Refilled(w, now) > 0 => NextTs(w, now) <= now
         /\ Refilled(w, now) > 0 /\ Available(w, now) >= Burst => NextTs(w, now) = now
         /\ Available(w, now) < Burst =>
              (NextTs(w, now) - w.ts) * Rate <= Refilled(w, now) * Second
<1> USE BucketAssumption
<1> DEFINE r == Refilled(w, now)
           d == (r * Second) \div Rate
<1>1. r \in Nat /\ (r > 0 => now > w.ts) /\ w.ts \in Times
  BY RefilledFacts DEF Words, Times
<1>2. d \in Nat /\ d * Rate <= r * Second
  <2>1. r * Second \in Nat
    BY <1>1
  <2> QED BY <2>1, DivFacts
<1>3. Available(w, now) \in 0..Burst
  BY AvailableFacts
<1> HIDE DEF r, d
<1>4. Min({w.ts + d, now}) = IF w.ts + d <= now THEN w.ts + d ELSE now
  BY <1>1, <1>2, MinOfTwo DEF Times
<1>5. NextTs(w, now) = IF r = 0 THEN w.ts
                       ELSE IF Available(w, now) >= Burst THEN now ELSE Min({w.ts + d, now})
  BY DEF NextTs, r, d
<1>6. CASE r = 0
  <2>1. NextTs(w, now) = w.ts /\ (w.ts - w.ts) * Rate = 0 /\ r * Second = 0
    BY <1>1, <1>5, <1>6 DEF Times
  <2> QED BY <1>1, <1>6, <2>1 DEF r, Times
<1>7. CASE r > 0 /\ Available(w, now) >= Burst
  <2>1. NextTs(w, now) = now
    BY <1>1, <1>5, <1>7
  <2> QED BY <1>1, <1>3, <1>7, <2>1 DEF r, Times
<1>8. CASE r > 0 /\ Available(w, now) < Burst
  <2>1. NextTs(w, now) = IF w.ts + d <= now THEN w.ts + d ELSE now
    BY <1>1, <1>3, <1>4, <1>5, <1>8
  <2>2. NextTs(w, now) - w.ts \in Nat /\ NextTs(w, now) - w.ts <= d /\ NextTs(w, now) <= now
    BY <1>1, <1>2, <1>8, <2>1 DEF Times
  <2>3. (NextTs(w, now) - w.ts) * Rate <= d * Rate
    BY <1>2, <2>2, Monotone
  <2> QED BY <1>1, <1>2, <1>3, <1>8, <2>1, <2>2, <2>3 DEF r, Times
<1> QED BY <1>1, <1>3, <1>6, <1>7, <1>8

-----------------------------------------------------------------------------
(* The inductive invariant                                                 *)

\* Times run from the word's to the reference bucket's to the clock's.
Types ==
  /\ word \in Words /\ clock \in Times /\ seen \in word.ts..clock /\ ideal \in Int
  /\ pc \in [Threads -> {"idle", "called", "attempt"}] /\ DOMAIN call = Threads
  /\ \A h \in Threads : pc[h] # "idle" => call[h].now \in Start..clock /\ call[h].tokens \in 1..MaxTokens

\* What the word stands for at the time `seen', in fractions of a token.
Value == word.tokens * Second + (seen - word.ts) * Rate

\* The word is worth no less than the reference bucket.
ShortInv == ideal <= Value /\ ideal <= Burst * Second

IndInv == Types /\ ShortInv

\* At a rate that divides the second a token takes a whole number of ms, at a multiple of it
\* every ms brings whole tokens: the word lags by less than a token and is worth less than a
\* token more; it is full only at the start.
ExactInv ==
  /\ (seen - word.ts) * Rate < Second /\ Value - Second < ideal
  /\ word.tokens = Burst => seen = word.ts

\* A full word in a new bucket.
LEMMA InitIndInv ==
  ASSUME NoWrap, Init
  PROVE  IndInv /\ ExactInv
<1> USE BucketAssumption
<1>1. word = [ts |-> Start, tokens |-> Burst]
  <2>1. Start < TsSpan /\ Burst < TokenSpan
    BY DEF NoWrap
  <2>2. Start % TsSpan = Start /\ Burst % TokenSpan = Burst
    BY <2>1, SmallMod
  <2> QED BY <2>2 DEF Init, Pack
<1>2. seen - word.ts = 0 /\ 0 * Rate = 0 /\ Burst * Second \in Nat
  BY <1>1 DEF Init
<1>3. Value = Burst * Second
  BY <1>1, <1>2 DEF Value, Init
<1>4. Types
  BY <1>1 DEF Init, Types, Words, Times, NoCall
<1> QED BY <1>1, <1>2, <1>3, <1>4 DEF IndInv, ShortInv, ExactInv, Init

\* Steps that store no word keep what it is worth.
LEMMA OtherSteps ==
  ASSUME IndInv, UNCHANGED vars \/ Pass \/ \E h \in Threads :
           (\E n \in 1..MaxTokens : ReadClock(h, n)) \/ Begin(h) \/ Refuse(h) \/ Retry(h)
  PROVE  IndInv' /\ UNCHANGED <<word, seen, ideal>>
<1> USE BucketAssumption DEF IndInv, Types, Times
<1>1. UNCHANGED <<word, seen, ideal>>
  BY DEF vars, Pass, ReadClock, Begin, Refuse, Retry
<1>2. ShortInv'
  BY <1>1 DEF ShortInv, Value
<1>3. CASE UNCHANGED vars
  BY <1>2, <1>3 DEF vars
<1>4. CASE Pass
  BY <1>2, <1>4 DEF Pass
<1>5. ASSUME NEW h \in Threads, NEW n \in 1..MaxTokens, ReadClock(h, n) PROVE Types'
  BY <1>5 DEF ReadClock, Words
<1>6. ASSUME NEW h \in Threads, Refuse(h) PROVE Types'
  BY <1>6 DEF Refuse, Done
<1>7. ASSUME NEW h \in Threads, Retry(h) PROVE Types'
  BY <1>7 DEF Retry
<1>8. ASSUME NEW h \in Threads, Begin(h) PROVE Types'
  BY <1>8 DEF Begin
<1> QED BY <1>1, <1>2, <1>3, <1>4, <1>5, <1>6, <1>7, <1>8

\* What a successful try_consume does: the word stored has the new time and what is left of
\* the tokens found, and the reference bucket is brought up to the caller's time.
LEMMA ConsumeFacts ==
  ASSUME NoWrap, IndInv, NEW h \in Threads, Consume(h),
         NEW now, now = call[h].now, NEW n, n = call[h].tokens
  PROVE  /\ now \in Start..clock /\ n \in 1..MaxTokens /\ n <= Available(word, now)
         /\ word' = [ts |-> NextTs(word, now), tokens |-> Available(word, now) - n]
         /\ seen' = IF seen >= now THEN seen ELSE now
         /\ ideal' \in Int
         /\ ideal' <= Burst * Second - n * Second /\ ideal' <= ideal + (seen' - seen) * Rate - n * Second
         /\ ideal' = Burst * Second - n * Second \/ ideal' = ideal + (seen' - seen) * Rate - n * Second
<1> USE BucketAssumption
<1>1. now \in Start..clock /\ now \in Times /\ n \in 1..MaxTokens /\ n <= Available(word, now) /\ word \in Words
  BY DEF Consume, IndInv, Types, Times, Words
<1>2. Available(word, now) - n \in 0..Burst /\ NextTs(word, now) \in Times
  BY <1>1, AvailableFacts, NextTsFacts DEF Times, Words
<1>3. word' = [ts |-> NextTs(word, now), tokens |-> Available(word, now) - n]
  <2>1. NextTs(word, now) % TsSpan = NextTs(word, now)
    <3>1. NextTs(word, now) \in Nat /\ NextTs(word, now) < TsSpan
      BY <1>2 DEF NoWrap, Times
    <3> QED BY <3>1, SmallMod
  <2>2. (Available(word, now) - n) % TokenSpan = Available(word, now) - n
    <3>1. Available(word, now) - n \in Nat /\ Available(word, now) - n < TokenSpan
      BY <1>2 DEF NoWrap
    <3> QED BY <3>1, SmallMod
  <2> QED BY <2>1, <2>2 DEF Consume, Pack
<1>4. seen \in Nat /\ now \in Nat /\ ideal \in Int
  BY <1>1 DEF IndInv, Types, Words, Times
<1>5. seen' = IF seen >= now THEN seen ELSE now
  BY <1>4, MaxOfTwo DEF Consume
<1>6. ideal' = IdealAt(now) - n * Second
  BY DEF Consume
<1>7. CASE now > seen
  <2> DEFINE gain == Rate * (now - seen)
             full == Burst * Second
  <2>1. gain \in Int /\ full \in Int /\ gain = (seen' - seen) * Rate
    BY <1>4, <1>5, <1>7
  <2>2. IdealAt(now) = Min({ideal + gain, full})
    BY <1>7 DEF IdealAt
  <2> HIDE DEF gain, full
  <2>3. Min({ideal + gain, full}) = IF ideal + gain <= full THEN ideal + gain ELSE full
    BY <1>4, <2>1, MinOfTwo
  <2> DEFINE cost == n * Second
             rise == (seen' - seen) * Rate
  <2>4. cost \in Int
    BY <1>1
  <2>5. ideal' = IdealAt(now) - cost
    BY <1>6
  <2> HIDE DEF cost, rise
  <2>6. gain = rise
    BY <2>1 DEF rise
  <2>7. /\ ideal' \in Int /\ ideal' <= full - cost /\ ideal' <= ideal + rise - cost
        /\ ideal' = full - cost \/ ideal' = ideal + rise - cost
    BY <1>4, <2>1, <2>2, <2>3, <2>4, <2>5, <2>6
  <2> QED BY <1>1, <1>3, <1>5, <2>7 DEF full, cost, rise
<1>8. CASE now <= seen
  <2>1. ideal' = ideal - n * Second /\ n * Second \in Int
    BY <1>1, <1>4, <1>6, <1>8 DEF IdealAt
  <2>2. (seen' - seen) * Rate = 0
    BY <1>4, <1>5, <1>8
  <2>3. ideal <= Burst * Second /\ Burst * Second \in Int
    BY DEF IndInv, ShortInv
  <2> QED BY <1>1, <1>3, <1>4, <1>5, <2>1, <2>2, <2>3
<1> QED BY <1>4, <1>7, <1>8

\* The numbers of a successful try_consume: the word found (tokens at ts), the refill r, what
\* was available, the time t stored, the times of the reference bucket before and after.
LEMMA WorthKept ==
  ASSUME NEW tokens \in Nat, NEW r \in Nat, NEW n \in Nat, NEW available \in Nat, n <= available,
         NEW ts \in Nat, NEW t \in Nat, NEW before \in Nat, NEW after \in Nat, ts <= t, t <= after,
         NEW old \in Int, NEW new \in Int,
         old <= tokens * Second + (before - ts) * Rate,
         new <= Burst * Second - n * Second, new <= old + (after - before) * Rate - n * Second,
         available <= Burst,
         available < Burst => available = tokens + r /\ (t - ts) * Rate <= r * Second
  PROVE  new <= (available - n) * Second + (after - t) * Rate
<1> USE BucketAssumption
<1>1. (available - n) * Second = available * Second - n * Second
  BY SMT
<1>2. (after - t) * Rate \in Nat
  BY SMT
<1>3. CASE available = Burst
  BY <1>1, <1>2, <1>3, SMT
<1>4. CASE available < Burst
  <2>1. available * Second = tokens * Second + r * Second
    BY <1>4, SMT
  <2>2. (before - ts) * Rate + (after - before) * Rate = (t - ts) * Rate + (after - t) * Rate
    BY SMT
  <2> QED BY <1>1, <1>4, <2>1, <2>2, SMT
<1> QED BY <1>3, <1>4

\* The store of the new word keeps it worth no less than the reference bucket.
LEMMA ConsumeIndInv ==
  ASSUME NoWrap, IndInv, NEW h \in Threads, Consume(h)
  PROVE  IndInv'
<1> USE BucketAssumption
<1> DEFINE now == call[h].now
           n == call[h].tokens
           r == Refilled(word, now)
           available == Available(word, now)
           t == NextTs(word, now)
<1>1. /\ now \in Start..clock /\ n \in 1..MaxTokens /\ n <= available
      /\ word' = [ts |-> t, tokens |-> available - n]
      /\ seen' = IF seen >= now THEN seen ELSE now
      /\ ideal' \in Int
      /\ ideal' <= Burst * Second - n * Second /\ ideal' <= ideal + (seen' - seen) * Rate - n * Second
  BY ConsumeFacts
<1>2. word \in Words /\ now \in Times /\ clock \in Times /\ seen \in word.ts..clock /\ ideal \in Int
  BY <1>1 DEF IndInv, Types, Times
<1>3. /\ r \in Nat /\ available \in 0..Burst
      /\ available < Burst => available = word.tokens + r /\ (t - word.ts) * Rate <= r * Second
      /\ t \in word.ts..Start + MaxMs /\ (r = 0 => t = word.ts) /\ (r > 0 => t <= now)
  BY <1>2, RefilledFacts, AvailableFacts, NextTsFacts
<1>4. UNCHANGED clock /\ pc' = [pc EXCEPT ![h] = "idle"] /\ call' = [call EXCEPT ![h] = NoCall]
  BY DEF Consume, Done
<1> HIDE DEF now, n, r, available, t
<1>5. t <= seen' /\ seen' \in Nat /\ seen' <= clock /\ t \in Nat /\ word.ts \in Nat /\ word.ts <= t
  BY <1>1, <1>2, <1>3 DEF Words, Times
<1>6. Types'
  BY <1>1, <1>2, <1>3, <1>4, <1>5 DEF IndInv, Types, Words, Times
<1>7. ideal' <= (available - n) * Second + (seen' - t) * Rate
  <2>1. ideal <= word.tokens * Second + (seen - word.ts) * Rate
    BY DEF IndInv, ShortInv, Value
  <2>2. word.tokens \in Nat /\ seen \in Nat /\ n \in Nat /\ available \in Nat
    BY <1>1, <1>2, <1>3 DEF Words, Times
  <2> QED BY <1>1, <1>2, <1>3, <1>5, <2>1, <2>2, WorthKept
<1>8. ideal' <= Burst * Second
  <2>1. n * Second \in Nat /\ Burst * Second \in Nat
    BY <1>1
  <2> QED BY <1>1, <2>1
<1> QED BY <1>1, <1>6, <1>7, <1>8 DEF IndInv, ShortInv, Value

\* Every step preserves it.
LEMMA NextIndInv ==
  ASSUME NoWrap, IndInv, [Next]_vars
  PROVE  IndInv'
BY OtherSteps, ConsumeIndInv DEF Next

-----------------------------------------------------------------------------
(* Theorems                                                                *)

\* What every state of the bucket satisfies at any rate.
THEOREM Invariance ==
  ASSUME NoWrap
  PROVE  Spec => []IndInv
BY InitIndInv, NextIndInv, PTL DEF Spec

\* At any rate, as long as the burst fits the word's 24 bits, times its 40 bits and a refill
\* its u32 (NoWrap), the client finds at least the whole tokens that are due to it: try_consume
\* keeps the remainder of the division in the word's time, and a caller with an older time,
\* or one whose compare-exchange failed, loses it nothing.
THEOREM FullMeasure ==
  ASSUME NoWrap
  PROVE  Spec => []NeverShort
<1>1. ASSUME IndInv PROVE NeverShort
  <2> USE BucketAssumption
  <2> DEFINE r == Refilled(word, clock)
             available == Available(word, clock)
             gain == Rate * (clock - seen)
             full == Burst * Second
  <2>0. /\ word \in Words /\ clock \in Times /\ seen \in Nat /\ word.ts \in Nat /\ clock \in Nat
        /\ word.tokens \in Nat /\ word.ts <= seen /\ seen <= clock /\ ideal \in Int
    BY <1>1 DEF IndInv, Types, Words, Times
  <2>1. ideal <= word.tokens * Second + (seen - word.ts) * Rate /\ ideal <= full
    BY <1>1 DEF IndInv, ShortInv, Value
  <2>2. /\ r \in Nat /\ available \in 0..Burst /\ (available < Burst => available = word.tokens + r)
        /\ (clock - word.ts) * Rate < r * Second + Second
    <3>1. CASE clock > word.ts
      BY <2>0, <2>1, <3>1, RefilledFacts, AvailableFacts
    <3>2. CASE clock = word.ts
      <4>1. r = 0 /\ available \in 0..Burst /\ (available < Burst => available = word.tokens + r)
        BY <2>0, <3>2, RefilledFacts, AvailableFacts
      <4>2. (clock - word.ts) * Rate = 0 /\ 0 * Second = 0
        BY <2>0, <2>1, <3>2
      <4> QED BY <4>1, <4>2
    <3>3. clock > word.ts \/ clock = word.ts
      BY <2>0
    <3> QED BY <3>1, <3>2, <3>3
  <2>3. gain \in Nat /\ full \in Nat
    BY <2>0, <2>1
  <2>4. IdealAt(clock) \in Int /\ IdealAt(clock) <= full /\ IdealAt(clock) <= ideal + gain
    <3>1. CASE clock > seen
      <4>1. IdealAt(clock) = Min({ideal + gain, full})
        BY <2>0, <2>1, <3>1 DEF IdealAt
      <4> HIDE DEF gain, full
      <4>2. Min({ideal + gain, full}) = IF ideal + gain <= full THEN ideal + gain ELSE full
        <5>1. ideal + gain \in Int /\ full \in Int
          BY <2>0, <2>3
        <5> QED BY <5>1, MinOfTwo
      <4> QED BY <2>0, <2>1, <2>3, <4>1, <4>2
    <3>2. CASE clock = seen
      BY <2>0, <2>1, <2>3, <3>2 DEF IdealAt
    <3> QED BY <2>0, <2>1, <3>1, <3>2
  <2> HIDE DEF r, available
  <2>5. IdealAt(clock) < available * Second + Second
    <3>1. CASE available = Burst
      BY <2>0, <2>1, <2>3, <2>4, <3>1
    <3>2. CASE available < Burst
      <4>1. available * Second = word.tokens * Second + r * Second
        <5>1. available = word.tokens + r /\ word.tokens \in Nat /\ r \in Nat
          BY <2>0, <2>1, <2>2, <3>2
        <5> QED BY <5>1
      <4>2. (seen - word.ts) * Rate + gain = (clock - word.ts) * Rate
        BY <2>0, <2>1
      <4> QED BY <2>0, <2>1, <2>2, <2>3, <2>4, <4>1, <4>2
    <3> QED BY <2>2, <3>1, <3>2
  <2>6. IdealAt(clock) \div Second <= available
    BY <2>2, <2>4, <2>5, DivBound
  <2> QED BY <2>6 DEF NeverShort, available
<1> QED BY <1>1, Invariance, PTL

-----------------------------------------------------------------------------
(* Rates that divide the second, or are multiples of it                    *)

WholeRate == \E k \in Nat : Second = k * Rate \/ Rate = k * Second

\* The time of a partial refill is then exactly the time its tokens took.
LEMMA ExactTs ==
  ASSUME NoWrap, WholeRate, NEW w \in Words, NEW now \in Times, Available(w, now) < Burst
  PROVE  (NextTs(w, now) - w.ts) * Rate = Refilled(w, now) * Second
<1> USE BucketAssumption
<1> DEFINE r == Refilled(w, now)
<1>1. /\ r \in Nat /\ w.ts \in Nat /\ now \in Nat /\ (now <= w.ts => r = 0)
      /\ now > w.ts => r * Second <= (now - w.ts) * Rate
  BY RefilledFacts DEF Words, Times
<1>2. CASE r = 0
  <2>1. NextTs(w, now) - w.ts = 0
    BY <1>1, <1>2, NextTsFacts
  <2>2. 0 * Rate = 0 /\ 0 * Second = 0
    OBVIOUS
  <2> QED BY <1>2, <2>1, <2>2
<1>3. CASE r > 0
  <2>1. PICK k \in Nat : Second = k * Rate \/ Rate = k * Second
    BY DEF WholeRate
  <2>2. PICK x \in Nat : x * Rate = r * Second
    <3>1. CASE Second = k * Rate
      <4>1. r * k \in Nat /\ (r * k) * Rate = r * Second
        BY <1>1, <3>1
      <4> QED BY <4>1
    <3>2. CASE Rate = k * Second
      <4> DEFINE e == now - w.ts
      <4>1. e \in Nat /\ e * k \in Nat /\ r * Second <= e * Rate /\ e * Rate < r * Second + Second
        BY <1>1, <1>3, <3>2, <2>1, RefilledFacts
      <4>2. e * Rate = (e * k) * Second
        BY <2>1, <3>2, <4>1
      <4>3. r * Second < (e * k + 1) * Second /\ (e * k) * Second < (r + 1) * Second
        BY <1>1, <4>1, <4>2
      <4> DEFINE f == e * k
      <4>4. f \in Nat
        BY <4>1
      <4>5. r * Second < (f + 1) * Second /\ f * Second < (r + 1) * Second
        BY <4>3
      <4> HIDE DEF f, r
      <4>6. r < f + 1
        BY <1>1, <4>4, <4>5, Cancel
      <4>7. f < r + 1
        BY <1>1, <4>4, <4>5, Cancel
      <4>8. r = f
        BY <1>1, <4>4, <4>6, <4>7
      <4> QED BY <4>1, <4>2, <4>8 DEF f
    <3> QED BY <2>1, <3>1, <3>2
  <2>3. (r * Second) \div Rate = x
    <3> HIDE DEF r
    <3> QED BY <2>2, DivExact
  <2>4. Available(w, now) \in Nat
    BY AvailableFacts
  <2>5. NextTs(w, now) = Min({w.ts + x, now})
    <3>1. Refilled(w, now) # 0 /\ ~(Available(w, now) >= Burst)
      BY <1>1, <1>3, <2>4
    <3>2. NextTs(w, now) = Min({w.ts + (Refilled(w, now) * Second) \div Rate, now})
      BY <3>1, Zenon DEF NextTs
    <3> QED BY <2>3, <3>2, Zenon
  <2> HIDE DEF r
  <2>6. x <= now - w.ts
    <3>1. x * Rate <= (now - w.ts) * Rate
      BY <1>1, <1>3, <2>2
    <3>2. x * Rate < (now - w.ts + 1) * Rate
      BY <1>1, <2>2, <3>1
    <3>3. x < now - w.ts + 1
      BY <1>1, <2>2, <3>2, Cancel
    <3> QED BY <1>1, <2>2, <3>3
  <2>7. NextTs(w, now) = w.ts + x
    BY <1>1, <2>2, <2>5, <2>6, MinOfTwo
  <2>8. NextTs(w, now) - w.ts = x
    BY <1>1, <2>2, <2>7
  <2> QED BY <2>2, <2>8 DEF r
<1> QED BY <1>1, <1>2, <1>3

\* The numbers of a successful try_consume again, named as in WorthKept.
ExactStep(tokens, r, n, available, ts, t, before, after, now, old, new) ==
  /\ ts <= before /\ tokens <= Burst /\ available <= Burst
  /\ after = IF before >= now THEN before ELSE now
  /\ (before - ts) * Rate < Second
  /\ tokens * Second + (before - ts) * Rate - Second < old
  /\ \/ new = Burst * Second - n * Second
     \/ new = old + (after - before) * Rate - n * Second
  /\ now <= ts => r = 0
  /\ now > ts => r * Second <= (now - ts) * Rate /\ (now - ts) * Rate < r * Second + Second
  /\ r = 0 => t = ts /\ available = tokens
  /\ available <= tokens + r
  /\ r > 0 /\ available = Burst => t = now
  /\ available < Burst => available = tokens + r /\ (t - ts) * Rate = r * Second

\* The word lags by less than a token and is worth less than a token more afterwards too.
LEMMA WorthExact ==
  ASSUME NEW tokens \in Nat, NEW r \in Nat, NEW n \in Nat, NEW available \in Nat,
         NEW ts \in Nat, NEW t \in Nat, NEW before \in Nat, NEW after \in Nat, NEW now \in Nat,
         NEW old \in Int, NEW new \in Int,
         ExactStep(tokens, r, n, available, ts, t, before, after, now, old, new)
  PROVE  /\ (after - t) * Rate < Second
         /\ (available - n) * Second + (after - t) * Rate - Second < new
<1> USE BucketAssumption DEF ExactStep
<1>1. (available - n) * Second = available * Second - n * Second
  BY SMT
<1>2. (after - t) * Rate = (before - ts) * Rate + (after - before) * Rate - (t - ts) * Rate
  BY SMT
<1>3. CASE r = 0
  <2>1. t = ts /\ available = tokens /\ (t - ts) * Rate = 0 /\ r * Second = 0
    BY <1>3, SMT
  <2>2. (after - t) * Rate < Second
    <3>1. CASE before >= now
      <4>1. after - t = before - ts
        BY <2>1, <3>1
      <4> QED BY <4>1
    <3>2. CASE before < now
      <4>1. after - t = now - ts /\ now > ts
        BY <2>1, <3>2
      <4> QED BY <2>1, <4>1
    <3> QED BY <3>1, <3>2
  <2>3. tokens * Second <= Burst * Second
    BY Monotone
  <2>4. CASE new = Burst * Second - n * Second
    BY <1>1, <2>1, <2>2, <2>3, <2>4
  <2>5. CASE new = old + (after - before) * Rate - n * Second
    BY <1>1, <1>2, <2>1, <2>2, <2>5
  <2> QED BY <2>4, <2>5
<1>4. CASE r > 0
  <2>1. after = now /\ now > ts
    <3>1. now > ts
      BY <1>4
    <3>2. 1 * Second <= r * Second
      BY <1>4, Monotone
    <3>3. (before - ts) * Rate < (now - ts) * Rate
      BY <3>1, <3>2
    <3>4. before - ts < now - ts
      BY <3>3, Cancel
    <3> QED BY <3>1, <3>4
  <2>2. CASE available = Burst
    <3>1. t = now /\ (after - t) * Rate = 0
      BY <1>4, <2>1, <2>2
    <3>2. Burst * Second <= (tokens + r) * Second /\ (tokens + r) * Second = tokens * Second + r * Second
      BY <2>2, Monotone
    <3>3. (before - ts) * Rate + (after - before) * Rate = (now - ts) * Rate
      BY <2>1
    <3> QED BY <1>1, <2>1, <2>2, <3>1, <3>2, <3>3
  <2>3. CASE available < Burst
    <3>1. available * Second = tokens * Second + r * Second /\ available * Second <= Burst * Second
      <4>1. available = tokens + r
        BY <2>3
      <4> QED BY <2>3, <4>1, Monotone
    <3>2. (before - ts) * Rate + (after - before) * Rate = (now - ts) * Rate
      BY <2>1
    <3>3. (after - t) * Rate < Second
      BY <1>2, <2>1, <2>3, <3>2
    <3>4. CASE new = Burst * Second - n * Second
      BY <1>1, <3>1, <3>3, <3>4
    <3>5. CASE new = old + (after - before) * Rate - n * Second
      BY <1>1, <1>2, <2>3, <3>1, <3>3, <3>5
    <3> QED BY <3>4, <3>5
  <2> QED BY <2>2, <2>3
<1> QED BY <1>3, <1>4

\* The store of the new word keeps it worth less than a token more than the reference bucket.
LEMMA ConsumeExactInv ==
  ASSUME NoWrap, WholeRate, IndInv, ExactInv, NEW h \in Threads, Consume(h)
  PROVE  ExactInv'
<1> USE BucketAssumption
<1> DEFINE now == call[h].now
           n == call[h].tokens
           r == Refilled(word, now)
           available == Available(word, now)
           t == NextTs(word, now)
<1>1. /\ now \in Start..clock /\ n \in 1..MaxTokens /\ n <= available
      /\ word' = [ts |-> t, tokens |-> available - n]
      /\ seen' = IF seen >= now THEN seen ELSE now
      /\ ideal' \in Int
      /\ \/ ideal' = Burst * Second - n * Second
         \/ ideal' = ideal + (seen' - seen) * Rate - n * Second
  BY ConsumeFacts
<1>2. /\ word \in Words /\ now \in Times /\ now \in Nat /\ seen \in Nat /\ ideal \in Int
      /\ word.ts \in Nat /\ word.ts <= seen /\ word.tokens \in Nat /\ word.tokens <= Burst
  BY <1>1 DEF IndInv, Types, Times, Words
<1>3. /\ r \in Nat /\ available \in 0..Burst /\ t \in word.ts..Start + MaxMs
      /\ now <= word.ts => r = 0
      /\ now > word.ts => r * Second <= (now - word.ts) * Rate /\ (now - word.ts) * Rate < r * Second + Second
      /\ r = 0 => t = word.ts /\ available = word.tokens
      /\ available <= word.tokens + r
      /\ r > 0 /\ available = Burst => t = now
  BY <1>2, RefilledFacts, AvailableFacts, NextTsFacts
<1>4. available < Burst => available = word.tokens + r /\ (t - word.ts) * Rate = r * Second
  BY <1>2, AvailableFacts, ExactTs
<1> HIDE DEF now, n, r, available, t
<1>5. /\ (seen - word.ts) * Rate < Second
      /\ word.tokens * Second + (seen - word.ts) * Rate - Second < ideal
  BY <1>2 DEF ExactInv, Value
<1>6. n \in Nat /\ available \in Nat /\ t \in Nat /\ seen' \in Nat /\ available <= Burst
  BY <1>1, <1>2, <1>3
<1>7. /\ (seen' - t) * Rate < Second
      /\ (available - n) * Second + (seen' - t) * Rate - Second < ideal'
  <2>1. ExactStep(word.tokens, r, n, available, word.ts, t, seen, seen', now, ideal, ideal')
    BY <1>1, <1>2, <1>3, <1>4, <1>5, <1>6 DEF ExactStep
  <2> QED BY <1>1, <1>2, <1>3, <1>6, <2>1, WorthExact, ZenonT(30)
<1>8. available - n # Burst
  BY <1>1, <1>6
<1>9. word'.ts = t /\ word'.tokens = available - n
  BY <1>1
<1>10. Value' - Second = (available - n) * Second + (seen' - t) * Rate - Second
  BY <1>6, <1>9 DEF Value
<1> QED BY <1>7, <1>8, <1>9, <1>10 DEF ExactInv

\* At a rate that divides the second or is a multiple of it, and while everything fits its
\* field (NoWrap), whatever the interleaving of the threads and however
\* old the times they bring, what try_consume granted never exceeds what the reference
\* bucket allows by a whole token.
THEOREM Limited ==
  ASSUME NoWrap, WholeRate
  PROVE  Spec => []NeverOverdrawn
<1>1. ASSUME IndInv, ExactInv, [Next]_vars PROVE (IndInv /\ ExactInv)'
  <2>1. ASSUME UNCHANGED <<word, seen, ideal>> PROVE ExactInv'
    BY <1>1, <2>1 DEF ExactInv, Value
  <2> QED BY <1>1, <2>1, NextIndInv, OtherSteps, ConsumeExactInv DEF Next
<1>2. ASSUME IndInv, ExactInv PROVE NeverOverdrawn
  <2>1. /\ word.tokens \in Nat /\ seen - word.ts \in Nat /\ ideal \in Int
    BY <1>2, BucketAssumption DEF IndInv, Types, Words, Times
  <2>2. word.tokens * Second \in Nat /\ (seen - word.ts) * Rate \in Nat
    BY <2>1, BucketAssumption
  <2> QED BY <1>2, <2>1, <2>2, BucketAssumption DEF ExactInv, Value, NeverOverdrawn
<1> QED BY <1>1, <1>2, InitIndInv, PTL DEF Spec
=============================================================================
