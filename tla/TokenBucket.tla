---------------------------- MODULE TokenBucket ----------------------------
(***************************************************************************)
(* LockFreeTokenBucket of crates/distribution/src/lib.rs: one atomic word  *)
(* holds the time of the last refill (in ms) and the tokens left, and      *)
(* try_consume replaces it with a compare-exchange.  Several dispatching   *)
(* threads share a client's bucket; each brings the time it read before    *)
(* the call, which may be older than another thread's.  Products and sums  *)
(* are cut to their width, as in a release build.                          *)
(*                                                                         *)
(* Beside the word runs the bucket it stands for: `ideal' is what it held  *)
(* at the time `seen' (the latest that a served caller brought), counted   *)
(* in fractions 1/Second of a token so that it needs no rounding.          *)
(***************************************************************************)
EXTENDS Naturals, Integers, FiniteSetsExt

CONSTANTS Threads,
          Second,      \* the 1000 ms of a second, scaled down
          Rate,        \* refill_rate_per_sec
          Burst,       \* burst_capacity
          TsSpan,      \* 2^40: the word has 40 bits for the time
          TokenSpan,   \* 2^24: and 24 bits for the tokens
          U32Span,     \* 2^32: refilled is cast to u32, and added to the tokens as one
          U64Span,     \* 2^64: the product of the time and the rate is a u64
          Start,       \* initial_time_ms
          MaxMs,       \* bound: ms that pass
          MaxTokens    \* bound: tokens asked for at once (dispatch asks for 1)

ASSUME BucketAssumption ==
  /\ Rate \in Nat \ {0} /\ Second \in Nat \ {0} /\ Burst \in Nat \ {0}
  /\ TsSpan \in Nat \ {0} /\ TokenSpan \in Nat \ {0} /\ U32Span \in Nat \ {0}
  /\ U64Span \in Nat \ {0}
  /\ {Start, MaxMs, MaxTokens} \subseteq Nat

VARIABLES word,        \* the AtomicU64: [ts, tokens]
          clock,       \* the time, in ms
          pc, call,    \* per thread: where it is; now_ms, tokens and the word loaded
          ideal, seen  \* the reference bucket, in tokens / Second, and its time

vars == <<word, clock, pc, call, ideal, seen>>

\* (ts << 24) | (tokens & 0x00FF_FFFF): what does not fit is lost.
Pack(ts, tokens) == [ts |-> ts % TsSpan, tokens |-> tokens % TokenSpan]

NoCall == [now |-> 0, tokens |-> 0, curr |-> Pack(0, 0)]

Init ==
  /\ word = Pack(Start, Burst) /\ clock = Start
  /\ pc = [h \in Threads |-> "idle"] /\ call = [h \in Threads |-> NoCall]
  /\ ideal = Burst * Second /\ seen = Start

\* The reference bucket gains Rate / Second tokens a ms, up to Burst.
IdealAt(now) == IF now > seen THEN Min({ideal + Rate * (now - seen), Burst * Second}) ELSE ideal

Refilled(w, now) ==
  IF now > w.ts THEN ((((now - w.ts) * Rate) % U64Span) \div Second) % U32Span ELSE 0

\* The tokens a caller finds at `now'.
Available(w, now) ==
  IF Refilled(w, now) > 0 THEN Min({(w.tokens + Refilled(w, now)) % U32Span, Burst})
  ELSE w.tokens

\* Mutant: the time of a partial refill is the time of the call, and the remainder of
\* the division is lost.
NextTs_DropsRemainder(w, now) == IF Refilled(w, now) > 0 THEN now ELSE w.ts

\* The new time of refill: now once the bucket is full, else only as far as whole tokens go.
NextTs(w, now) ==
  IF Refilled(w, now) = 0 THEN w.ts
  ELSE IF Available(w, now) >= Burst THEN now
  ELSE Min({w.ts + (Refilled(w, now) * Second) \div Rate, now})

\* The dispatching thread reads the clock for the now_ms of its call.
ReadClock(h, n) ==
  /\ pc[h] = "idle"
  /\ pc' = [pc EXCEPT ![h] = "called"]
  /\ call' = [call EXCEPT ![h] = [now |-> clock, tokens |-> n, curr |-> NoCall.curr]]
  /\ UNCHANGED <<word, clock, ideal, seen>>

\* try_consume begins: the word is loaded, any time later.
Begin(h) ==
  /\ pc[h] = "called"
  /\ pc' = [pc EXCEPT ![h] = "attempt"]
  /\ call' = [call EXCEPT ![h].curr = word]
  /\ UNCHANGED <<word, clock, ideal, seen>>

Done(h) == pc' = [pc EXCEPT ![h] = "idle"] /\ call' = [call EXCEPT ![h] = NoCall]

\* Too few tokens: false.
Refuse(h) ==
  /\ pc[h] = "attempt"
  /\ Available(call[h].curr, call[h].now) < call[h].tokens
  /\ Done(h)
  /\ UNCHANGED <<word, clock, ideal, seen>>

\* Mutant: the word is stored without comparing.
Consume_BlindStore(h) ==
  LET w == call[h].curr
  IN  /\ pc[h] = "attempt"
      /\ Available(w, call[h].now) >= call[h].tokens
      /\ word' = Pack(NextTs(w, call[h].now), Available(w, call[h].now) - call[h].tokens)
      /\ ideal' = IdealAt(call[h].now) - call[h].tokens * Second
      /\ seen' = Max({seen, call[h].now})
      /\ Done(h)
      /\ UNCHANGED clock

\* The compare-exchange succeeds: true.
Consume(h) ==
  LET w == call[h].curr
  IN  /\ pc[h] = "attempt" /\ word = w
      /\ Available(w, call[h].now) >= call[h].tokens
      /\ word' = Pack(NextTs(w, call[h].now), Available(w, call[h].now) - call[h].tokens)
      /\ ideal' = IdealAt(call[h].now) - call[h].tokens * Second
      /\ seen' = Max({seen, call[h].now})
      /\ Done(h)
      /\ UNCHANGED clock

\* It fails: the loop goes on with the actual word and the same now.
Retry(h) ==
  /\ pc[h] = "attempt" /\ word # call[h].curr
  /\ Available(call[h].curr, call[h].now) >= call[h].tokens
  /\ call' = [call EXCEPT ![h].curr = word]
  /\ UNCHANGED <<word, clock, pc, ideal, seen>>

Pass ==
  /\ clock < Start + MaxMs
  /\ clock' = clock + 1
  /\ UNCHANGED <<word, pc, call, ideal, seen>>

Next == \/ Pass
        \/ \E h \in Threads : \/ \E n \in 1..MaxTokens : ReadClock(h, n)
                              \/ Begin(h) \/ Refuse(h) \/ Consume(h) \/ Retry(h)

Spec == Init /\ [][Next]_vars

-----------------------------------------------------------------------------
(* Properties                                                              *)

\* The types of the state; the bucket never holds more than Burst.
TypeOK ==
  /\ word \in [ts : 0..Start + MaxMs, tokens : 0..Burst] /\ clock \in Start..Start + MaxMs
  /\ pc \in [Threads -> {"idle", "called", "attempt"}]
  /\ \A h \in Threads : call[h].now \in 0..clock /\ call[h].tokens \in 0..MaxTokens
  /\ ideal \in Int

\* The limiter limits: whatever the threads do, what was granted never exceeds what a
\* bucket of this rate and burst allows by a whole token.
NeverOverdrawn == ideal > -Second

\* And it does not cheat the client: a call made now finds at least the whole tokens
\* that are due (polling often does not lose the fraction of a token in the making).
NeverShort == Available(word, clock) >= IdealAt(clock) \div Second
=============================================================================
