---------------------------- MODULE IsolatedQueue ----------------------------
(***************************************************************************)
(* IsolatedConsumerQueue<T, N> of crates/core-engine/src/simulator.rs: a   *)
(* ring like SpscRing whose producer never waits.  When the ring is full   *)
(* it drops the new item (DropNewest) or moves the consumer's cursor past  *)
(* the oldest (DropOldest).  Items are numbered in the order of the calls  *)
(* of push_with_policy.                                                    *)
(*                                                                         *)
(* As the producer may store consumer_cursor too, the consumer's copy of   *)
(* it is a local variable, and reading the cursor and storing it back are  *)
(* separate steps on both sides.  An Acquire load by one thread of the     *)
(* cursor the other one stores may return an older value (as in SpscRing). *)
(*                                                                         *)
(* Both sides run in threads of their own under either policy, as in       *)
(* examples/feed_simulator.rs.  `raced' records that an eviction and a     *)
(* try_pop got in each other's way: from then on the cursor may go back,   *)
(* and what the queue promises is lost.                                    *)
(***************************************************************************)
EXTENDS Naturals, Sequences

CONSTANTS N,            \* capacity, a power of two
          Policies,     \* the policies a queue may be used with
          MaxItems      \* bound: calls of push_with_policy

ASSUME QueueAssumption ==
  /\ N \in Nat \ {0} /\ \E k \in 0..63 : N = 2^k
  /\ Policies \subseteq {"DropNewest", "DropOldest"} /\ MaxItems \in Nat

VARIABLES
  producer_cursor, cached_consumer_cursor, consumer_cursor, cached_producer_cursor,
  buffer,
  policy,                       \* the argument of every push
  ppc, item, actual_tail,       \* the producer's locals
  cpc, current_tail, out,       \* the consumer's locals; between two calls of try_pop
                                \* current_tail is what it last knew of its cursor
  total_dropped, total_evicted, \* QueueMetrics
  popped, raced,                \* histories: items returned; an eviction met a try_pop;
  accepted, left                \* until then, items stored and items returned or evicted

producerVars == <<producer_cursor, cached_consumer_cursor, ppc, item, actual_tail,
                  total_dropped, total_evicted, accepted>>
consumerVars == <<cached_producer_cursor, cpc, current_tail, out, popped>>
vars == <<producerVars, consumerVars, consumer_cursor, buffer, left, raced, policy>>

Slot(cursor) == cursor % N

Init ==
  /\ producer_cursor = 0 /\ cached_consumer_cursor = 0
  /\ consumer_cursor = 0 /\ cached_producer_cursor = 0
  /\ buffer = [i \in 0..N-1 |-> 0] /\ policy \in Policies
  /\ ppc = "idle" /\ item = 0 /\ actual_tail = 0
  /\ cpc = "idle" /\ current_tail = 0 /\ out = 0
  /\ total_dropped = 0 /\ total_evicted = 0 /\ accepted = << >> /\ popped = << >> /\ left = << >>
  /\ raced = FALSE

\* What a load of a cursor may return: anything from the last value known to the current one.
Visible(known, current) == known..current \cup {current}

-----------------------------------------------------------------------------
(* push_with_policy                                                        *)

\* Mutant: the ring takes one item too many.
HasRoom_OffByOne(tail) == producer_cursor <= tail + N

HasRoom(tail) == producer_cursor < tail + N

PushBegin ==
  /\ ppc = "idle" /\ item < MaxItems
  /\ item' = item + 1
  /\ ppc' = IF HasRoom(cached_consumer_cursor) THEN "write" ELSE "refresh"
  /\ UNCHANGED <<producer_cursor, cached_consumer_cursor, actual_tail, total_dropped,
                 total_evicted, accepted, consumerVars, consumer_cursor, buffer, left, raced>>

\* Acquire load of consumer_cursor; a saturated ring is where the policies part.
PushRefresh(tail) ==
  /\ ppc = "refresh"
  /\ cached_consumer_cursor' = tail /\ actual_tail' = tail
  /\ IF HasRoom(tail)
       THEN ppc' = "write" /\ UNCHANGED total_dropped
       ELSE IF policy = "DropOldest"
              THEN ppc' = "evict" /\ UNCHANGED total_dropped
              ELSE ppc' = "idle" /\ total_dropped' = total_dropped + 1
  /\ UNCHANGED <<producer_cursor, item, total_evicted, accepted, consumerVars,
                 consumer_cursor, buffer, left, raced>>

\* Mutant: the consumer's cursor is left alone and the oldest slot is overwritten.
Evict_NoAdvance ==
  /\ ppc = "evict" /\ ppc' = "write"
  /\ cached_consumer_cursor' = actual_tail + 1
  /\ total_evicted' = total_evicted + 1
  /\ raced' = (raced \/ cpc # "idle" \/ consumer_cursor # actual_tail)
  /\ left' = IF raced' THEN left ELSE Append(left, buffer[Slot(actual_tail)])
  /\ UNCHANGED <<producer_cursor, item, actual_tail, total_dropped, accepted, consumerVars,
                 consumer_cursor, buffer>>

\* DropOldest: the producer stores the consumer's cursor, whatever the consumer is doing and
\* whether or not it still has the value loaded.
Evict ==
  /\ ppc = "evict" /\ ppc' = "write"
  /\ consumer_cursor' = actual_tail + 1 /\ cached_consumer_cursor' = actual_tail + 1
  /\ total_evicted' = total_evicted + 1
  /\ raced' = (raced \/ cpc # "idle" \/ consumer_cursor # actual_tail)
  /\ left' = IF raced' THEN left ELSE Append(left, buffer[Slot(actual_tail)])
  /\ UNCHANGED <<producer_cursor, item, actual_tail, total_dropped, accepted, consumerVars,
                 buffer>>

PushWrite ==
  /\ ppc = "write" /\ ppc' = "publish"
  /\ buffer' = [buffer EXCEPT ![Slot(producer_cursor)] = item]
  /\ UNCHANGED <<producer_cursor, cached_consumer_cursor, item, actual_tail, total_dropped,
                 total_evicted, accepted, consumerVars, consumer_cursor, left, raced>>

PushPublish ==
  /\ ppc = "publish" /\ ppc' = "idle"
  /\ producer_cursor' = producer_cursor + 1
  /\ accepted' = IF raced THEN accepted ELSE Append(accepted, item)
  /\ UNCHANGED <<cached_consumer_cursor, item, actual_tail, total_dropped, total_evicted,
                 consumerVars, consumer_cursor, buffer, left, raced>>

-----------------------------------------------------------------------------
(* try_pop                                                                 *)

\* A relaxed load of its own cursor, which an eviction may have moved unseen.
PopBegin(tail) ==
  /\ cpc = "idle"
  /\ current_tail' = tail /\ raced' = (raced \/ tail # consumer_cursor)
  /\ cpc' = IF tail >= cached_producer_cursor THEN "refresh" ELSE "read"
  /\ UNCHANGED <<cached_producer_cursor, out, popped, producerVars, consumer_cursor, buffer, left>>

PopRefresh(head) ==
  /\ cpc = "refresh"
  /\ cached_producer_cursor' = head
  /\ cpc' = IF current_tail >= head THEN "idle" ELSE "read"
  /\ UNCHANGED <<current_tail, out, popped, producerVars, consumer_cursor, buffer, left, raced>>

PopRead ==
  /\ cpc = "read" /\ cpc' = "release"
  /\ out' = buffer[Slot(current_tail)]
  /\ UNCHANGED <<cached_producer_cursor, current_tail, popped, producerVars, consumer_cursor,
                 buffer, left, raced>>

\* Mutant: the cursor moves past an item that was not returned.
PopRelease_SkipsOne ==
  /\ cpc = "release" /\ cpc' = "idle"
  /\ consumer_cursor' = current_tail + 2 /\ current_tail' = current_tail + 2
  /\ popped' = Append(popped, out) /\ left' = IF raced THEN left ELSE Append(left, out)
  /\ UNCHANGED <<cached_producer_cursor, out, producerVars, buffer, raced>>

PopRelease ==
  /\ cpc = "release" /\ cpc' = "idle"
  /\ consumer_cursor' = current_tail + 1 /\ current_tail' = current_tail + 1
  /\ popped' = Append(popped, out) /\ left' = IF raced THEN left ELSE Append(left, out)
  /\ UNCHANGED <<cached_producer_cursor, out, producerVars, buffer, raced>>

-----------------------------------------------------------------------------
Push == \/ PushBegin \/ Evict \/ PushWrite \/ PushPublish
        \/ \E tail \in Visible(cached_consumer_cursor, consumer_cursor) : PushRefresh(tail)

Pop == \/ PopRead \/ PopRelease
       \/ \E tail \in Visible(current_tail, consumer_cursor) : PopBegin(tail)
       \/ \E head \in Visible(cached_producer_cursor, producer_cursor) : PopRefresh(head)

Next == (Push \/ Pop) /\ UNCHANGED policy

Spec == Init /\ [][Next]_vars

-----------------------------------------------------------------------------
(* Properties                                                              *)

\* The types of the state; without a race len() stays within the capacity.
TypeOK ==
  /\ producer_cursor \in 0..MaxItems /\ cached_consumer_cursor \in 0..MaxItems
  /\ consumer_cursor \in 0..producer_cursor /\ (~raced => producer_cursor - consumer_cursor <= N)
  /\ cached_producer_cursor \in 0..MaxItems
  /\ buffer \in [0..N-1 -> 0..MaxItems] /\ item \in 0..MaxItems /\ out \in 0..MaxItems
  /\ policy \in Policies /\ ppc \in {"idle", "refresh", "evict", "write", "publish"}
  /\ cpc \in {"idle", "refresh", "read", "release"}

\* The queue is a bounded FIFO queue of the items it accepted, from which the producer
\* takes the oldest, under DropOldest, to make room; with two threads and late cursors, under
\* DropNewest always, under DropOldest until an eviction falls into a try_pop.
Queue == INSTANCE BoundedQueue WITH Items <- 1..MaxItems, put <- accepted, got <- left
ImplementsBoundedQueue == Queue!Spec

\* DropOldest keeps "the freshest real-time market front": the ring holds the newest N items,
\* each in its slot, whatever was evicted and however evictions and pops met; and until an
\* eviction falls into a try_pop the consumer is among them, so that what it finds next is
\* what waits, oldest first.
FreshestKept ==
  ppc = "idle" /\ policy = "DropOldest" =>
    /\ \A c \in 0..producer_cursor - 1 : producer_cursor <= c + N => buffer[Slot(c)] = c + 1
    /\ ~raced => producer_cursor <= consumer_cursor + N

\* "Lock-Free Single-Producer Single-Consumer": no item is returned twice or after a
\* newer one.  Violated after a race.
InOrderOnce == \A i, j \in DOMAIN popped : i < j => popped[i] < popped[j]
=============================================================================
