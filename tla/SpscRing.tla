------------------------------ MODULE SpscRing ------------------------------
(***************************************************************************)
(* SpscRingBuffer<T, N> of crates/core-engine/src/lib.rs: a lock-free ring *)
(* shared by one producer thread (try_push) and one consumer thread        *)
(* (try_pop, pop_blocking, pop_timeout).                                   *)
(*                                                                         *)
(* A step is one access to memory the other thread can see.  Loads of a    *)
(* thread's own cursor and of its cached copy of the other cursor touch    *)
(* nothing the other thread writes and are part of the step before them.   *)
(*                                                                         *)
(* Memory model.  The Acquire load of the other side's cursor may return   *)
(* any value between the last one this thread saw (coherence) and the one  *)
(* stored last (the store may not have become visible yet).  The slots are *)
(* plain memory (UnsafeCell): a thread is inside a slot while its pc is    *)
(* "write" or "read", and two threads inside one slot would be a data race.*)
(***************************************************************************)
EXTENDS Naturals, Sequences

CONSTANTS N,           \* capacity, the const parameter of the type
          Items,       \* values of type T
          Default,     \* T::default(), what an unwritten slot holds
          MaxPush      \* bound: pushes begun by the producer

\* new() asserts N.is_power_of_two(); u64 cursors make N at most 2^63 here.
ASSUME NAssumption == N \in Nat \ {0} /\ \E k \in 0..63 : N = 2^k
ASSUME MaxPushAssumption == MaxPush \in Nat
ASSUME ItemsAssumption == Default \in Items

VARIABLES
  producer_cursor, cached_consumer_cursor,    \* written by the producer only
  consumer_cursor, cached_producer_cursor,    \* written by the consumer only
  buffer,
  ppc, item,            \* the producer's position in try_push, its argument
  cpc, call, out,       \* the consumer's position, the method called, the value read
  expired,              \* pop_timeout: Instant::now() >= deadline
  pushed, popped        \* histories: items accepted and items returned

producerVars == <<producer_cursor, cached_consumer_cursor, ppc, item, pushed>>
consumerVars == <<consumer_cursor, cached_producer_cursor, cpc, call, out, expired, popped>>
vars == <<producerVars, consumerVars, buffer>>

Calls == {"try_pop", "pop_blocking", "pop_timeout"}

\* Mutant: the mask of half the capacity.
Slot_HalfMask(cursor) == cursor % ((N + 1) \div 2)

\* slot_index = cursor as usize & (N - 1), which is % N for a power of two.
Slot(cursor) == cursor % N

Init ==
  /\ producer_cursor = 0 /\ cached_consumer_cursor = 0
  /\ consumer_cursor = 0 /\ cached_producer_cursor = 0
  /\ buffer = [i \in 0..N-1 |-> Default]
  /\ ppc = "idle" /\ item = Default
  /\ cpc = "idle" /\ call = "try_pop" /\ out = Default /\ expired = FALSE
  /\ pushed = << >> /\ popped = << >>

-----------------------------------------------------------------------------
(* Producer: try_push                                                      *)

\* Mutant: one slot too many.
Full_OffByOne(tail) == producer_cursor > tail + N

\* current_head >= tail + N as u64
Full(tail) == producer_cursor >= tail + N

\* Called with v: the check against the cached consumer cursor.
PushBegin(v) ==
  /\ ppc = "idle" /\ producer_cursor < MaxPush
  /\ item' = v
  /\ ppc' = IF Full(cached_consumer_cursor) THEN "refresh" ELSE "write"
  /\ UNCHANGED <<producer_cursor, cached_consumer_cursor, pushed, consumerVars, buffer>>

\* Acquire load of consumer_cursor; still full means return Err(()).
PushRefresh(tail) ==
  /\ ppc = "refresh"
  /\ cached_consumer_cursor' = tail
  /\ ppc' = IF Full(tail) THEN "idle" ELSE "write"
  /\ UNCHANGED <<producer_cursor, item, pushed, consumerVars, buffer>>

PushWrite ==
  /\ ppc = "write"
  /\ buffer' = [buffer EXCEPT ![Slot(producer_cursor)] = item]
  /\ ppc' = "publish"
  /\ UNCHANGED <<producer_cursor, cached_consumer_cursor, item, pushed, consumerVars>>

\* Release store of current_head + 1; Ok(()).
PushPublish ==
  /\ ppc = "publish"
  /\ producer_cursor' = producer_cursor + 1
  /\ pushed' = Append(pushed, item)
  /\ ppc' = "idle"
  /\ UNCHANGED <<cached_consumer_cursor, item, consumerVars, buffer>>

-----------------------------------------------------------------------------
(* Consumer: try_pop and the two loops around it                           *)

\* Mutant: the last item waits for a successor.
Empty_LastItemWaits(head) == consumer_cursor + 1 >= head

\* current_tail >= head
Empty(head) == consumer_cursor >= head

\* The check of try_pop against the cached producer cursor.
PopCheck == cpc' = IF Empty(cached_producer_cursor) THEN "refresh" ELSE "read"

\* A method is called; pop_timeout computes its deadline.
PopBegin(c) ==
  /\ cpc = "idle"
  /\ call' = c /\ expired' = FALSE
  /\ PopCheck
  /\ UNCHANGED <<consumer_cursor, cached_producer_cursor, out, popped, producerVars, buffer>>

\* The loops of pop_blocking and pop_timeout, after strategy.idle().
PopRetry ==
  /\ cpc = "retry"
  /\ PopCheck
  /\ UNCHANGED <<consumer_cursor, cached_producer_cursor, call, out, expired, popped,
                 producerVars, buffer>>

\* Mutant: pop_timeout never looks at its deadline.
AfterNone_NoDeadline == IF call = "try_pop" THEN "idle" ELSE "retry"

\* try_pop returned None: try_pop passes it on, pop_blocking always loops, and
\* pop_timeout loops until its deadline has passed.
AfterNone ==
  IF call = "try_pop" \/ (call = "pop_timeout" /\ expired) THEN "idle" ELSE "retry"

\* Acquire load of producer_cursor; still empty means None.
PopRefresh(head) ==
  /\ cpc = "refresh"
  /\ cached_producer_cursor' = head
  /\ cpc' = IF Empty(head) THEN AfterNone ELSE "read"
  /\ UNCHANGED <<consumer_cursor, call, out, expired, popped, producerVars, buffer>>

PopRead ==
  /\ cpc = "read"
  /\ out' = buffer[Slot(consumer_cursor)]
  /\ cpc' = "release"
  /\ UNCHANGED <<consumer_cursor, cached_producer_cursor, call, expired, popped,
                 producerVars, buffer>>

\* Release store of current_tail + 1; the item is returned whatever the method.
PopRelease ==
  /\ cpc = "release"
  /\ consumer_cursor' = consumer_cursor + 1
  /\ popped' = Append(popped, out)
  /\ cpc' = "idle"
  /\ UNCHANGED <<cached_producer_cursor, call, out, expired, producerVars, buffer>>

\* The clock passes the deadline of the pop_timeout under way.
Expire ==
  /\ cpc # "idle" /\ call = "pop_timeout" /\ ~expired
  /\ expired' = TRUE
  /\ UNCHANGED <<consumer_cursor, cached_producer_cursor, cpc, call, out, popped,
                 producerVars, buffer>>

-----------------------------------------------------------------------------
Push == \/ \E v \in Items : PushBegin(v)
        \/ \E tail \in cached_consumer_cursor..consumer_cursor : PushRefresh(tail)
        \/ PushWrite
        \/ PushPublish

Pop == \/ \E c \in Calls : PopBegin(c)
       \/ PopRetry
       \/ \E head \in cached_producer_cursor..producer_cursor : PopRefresh(head)
       \/ PopRead
       \/ PopRelease

Next == Push \/ Pop \/ Expire

Spec == Init /\ [][Next]_vars

(* Fairness.  Each thread keeps running and keeps calling (the consumers poll in a    *)
(* loop, a producer that must not lose an item retries), a deadline passes, and a     *)
(* store becomes visible in finite time: a cursor that is loaded again and again is   *)
(* eventually loaded with the value stored last.                                      *)
Fairness ==
  /\ WF_vars(Push) /\ WF_vars(Pop) /\ WF_vars(Expire)
  /\ SF_vars(PushRefresh(consumer_cursor)) /\ SF_vars(PopRefresh(producer_cursor))

FairSpec == Spec /\ Fairness

-----------------------------------------------------------------------------
(* Properties                                                              *)

\* The types of the state; no cursor leaves the range of the pushes made.
TypeOK ==
  /\ producer_cursor \in 0..MaxPush /\ cached_consumer_cursor \in 0..MaxPush
  /\ consumer_cursor \in 0..MaxPush /\ cached_producer_cursor \in 0..MaxPush
  /\ buffer \in [0..N-1 -> Items]
  /\ ppc \in {"idle", "refresh", "write", "publish"} /\ item \in Items
  /\ cpc \in {"idle", "refresh", "retry", "read", "release"}
  /\ call \in Calls /\ out \in Items /\ expired \in BOOLEAN
  /\ pushed \in Seq(Items) /\ popped \in Seq(Items)

\* The two `unsafe' blocks are sound: the producer never writes the slot the consumer
\* is copying out, however stale the cursors the two threads have seen.
NoSlotRace ==
  ~ /\ ppc = "write" /\ cpc = "read"
    /\ Slot(producer_cursor) = Slot(consumer_cursor)

\* The ring is a bounded FIFO queue: try_pop returns what try_push accepted, in order,
\* without loss or duplication, and never more than N items are inside.
Queue == INSTANCE BoundedQueue WITH put <- pushed, got <- popped
ImplementsBoundedQueue == Queue!Spec

\* What try_push accepted is popped in the end, the last item before a silence of the
\* producer too (it must not wait for a successor).
EveryItemPopped ==
  \A i \in 1..MaxPush : (producer_cursor >= i) ~> (consumer_cursor >= i)

\* pop_timeout returns, with an item or without, even if no producer ever comes.
PopTimeoutReturns ==
  (cpc # "idle" /\ call = "pop_timeout") ~> (cpc = "idle")
=============================================================================
