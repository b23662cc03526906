------------------------ MODULE FeedSimulatorProofs -------------------------
(***************************************************************************)
(* Proofs about the saturating queue behind the simulator, for every       *)
(* capacity and every number of events and with two threads: DropOldest    *)
(* keeps the newest items in the ring; until an eviction falls into a      *)
(* try_pop, which DropNewest never does, the queue is a bounded FIFO queue *)
(* of what it keeps, and the gaps a consumer sees in the venues' numbers   *)
(* are the losses that the metrics count.                                  *)
(***************************************************************************)
EXTENDS FeedSimulator, WellFoundedInduction, FiniteSetTheorems, SequenceTheorems, TLAPS

-----------------------------------------------------------------------------
(* Slots: N consecutive cursors have N different slots.                    *)

\* A cursor's slot is an index of the buffer.
LEMMA SlotInRange ==
  ASSUME NEW i \in Nat
  PROVE  Slot(i) \in 0..N-1
BY QueueAssumption, SMT DEF Slot

\* Cursors less than N apart never share a slot.
LEMMA SlotInjective ==
  ASSUME NEW i \in Nat, NEW j \in Nat, i < j, j < i + N
  PROVE  Slot(i) # Slot(j)
<1> DEFINE qi == i \div N
           qj == j \div N
<1>0. N \in Nat /\ N > 0
  BY QueueAssumption
<1>1. /\ qi \in Nat /\ qj \in Nat
      /\ i = N * qi + (i % N) /\ j = N * qj + (j % N)
      /\ i % N \in Nat /\ j % N \in Nat
  BY <1>0, SMT
<1>2. SUFFICES ASSUME i % N = j % N PROVE FALSE
  BY DEF Slot
<1> HIDE DEF qi, qj
<1>3. CASE qj <= qi
  <2>1. N * qj <= N * qi
    BY <1>0, <1>1, <1>3, SMT
  <2> QED BY <2>1, <1>0, <1>1, <1>2, SMT
<1>4. CASE qj >= qi + 1
  <2>1. N * qj >= N * (qi + 1) /\ N * (qi + 1) = N * qi + N
    BY <1>0, <1>1, <1>4, SMT
  <2> QED BY <2>1, <1>0, <1>1, <1>2, SMT
<1> QED BY <1>1, <1>3, <1>4, SMT

-----------------------------------------------------------------------------
(* The inductive invariant                                                 *)

\* The cursors stay behind the producer's, whoever stores them; each item accepted took a call.
Types ==
  /\ TypeOK
  /\ actual_tail \in Nat /\ current_tail \in 0..producer_cursor
  /\ accepted \in Seq(1..MaxItems) /\ left \in Seq(1..MaxItems)
  /\ cached_producer_cursor <= producer_cursor
  /\ producer_cursor <= item /\ (ppc # "idle" => producer_cursor < item)
  /\ ppc = "evict" => /\ policy = "DropOldest" /\ actual_tail = cached_consumer_cursor
                      /\ actual_tail < producer_cursor
  /\ cpc \in {"read", "release"} => current_tail < cached_producer_cursor

\* DropNewest moves no cursor of the consumer's, which therefore knows its own.
NewestInv == policy # "DropOldest" => ~raced /\ current_tail = consumer_cursor

\* DropOldest accepts every item, so the item of a cursor is its successor; a store into a
\* slot overwrites what is N older.
FreshInv ==
  policy = "DropOldest" =>
    /\ item = IF ppc = "idle" THEN producer_cursor ELSE producer_cursor + 1
    /\ \A c \in Nat : c < producer_cursor /\ producer_cursor + (IF ppc = "publish" THEN 1 ELSE 0) <= c + N
         => buffer[Slot(c)] = c + 1
    /\ ppc = "publish" => buffer[Slot(producer_cursor)] = producer_cursor + 1

\* The producer's cached cursor lags behind, and it is at most N ahead of that.
CursorInv ==
  /\ cached_consumer_cursor <= consumer_cursor
  /\ producer_cursor <= cached_consumer_cursor + N

\* Past its check each side owns the slot at its cursor, and the consumer's copy of its
\* cursor is right.
OwnershipInv ==
  /\ ppc \in {"write", "publish"} => producer_cursor < cached_consumer_cursor + N
  /\ cpc # "idle" => current_tail = consumer_cursor

\* The slots between the cursors hold what was accepted and has not left.
ContentInv ==
  /\ Len(accepted) = producer_cursor /\ Len(left) = consumer_cursor
  /\ \A i \in Nat : consumer_cursor <= i /\ i < producer_cursor => buffer[Slot(i)] = accepted[i + 1]
  /\ ppc = "publish" => buffer[Slot(producer_cursor)] = item
  /\ cpc = "release" => out = accepted[consumer_cursor + 1]

\* The last three hold until an eviction falls into a try_pop.
OrderInv == CursorInv /\ OwnershipInv /\ ContentInv
IndInv == Types /\ NewestInv /\ FreshInv /\ (~raced => OrderInv)

\* It holds of a new queue.
LEMMA InitIndInv == Init => IndInv
<1> SUFFICES ASSUME Init PROVE IndInv
  OBVIOUS
<1> USE QueueAssumption DEF Init
<1>1. Types
  BY DEF Types, TypeOK
<1>2. NewestInv /\ FreshInv
  BY DEF NewestInv, FreshInv
<1>3. OrderInv
  BY DEF OrderInv, CursorInv, OwnershipInv, ContentInv
<1> QED BY <1>1, <1>2, <1>3 DEF IndInv

\* A race is not undone.
LEMMA RacedStays ==
  ASSUME [Next]_vars, ~raced'
  PROVE  ~raced
BY DEF Next, Push, Pop, PushBegin, PushRefresh, Evict, PushWrite, PushPublish, PopBegin, PopRefresh,
       PopRead, PopRelease, vars, producerVars, consumerVars

\* An eviction that does not race takes the oldest item, a pop that has not raced the same.
LEMMA Oldest ==
  ASSUME IndInv, ~raced
  PROVE  /\ cpc = "release" => out \in 1..MaxItems /\ out = accepted[consumer_cursor + 1]
         /\ ppc = "evict" /\ consumer_cursor = actual_tail =>
              /\ buffer[Slot(actual_tail)] \in 1..MaxItems
              /\ buffer[Slot(actual_tail)] = accepted[consumer_cursor + 1]
<1> USE QueueAssumption DEF IndInv, Types, TypeOK, OrderInv, OwnershipInv, ContentInv
<1>1. \A i \in 1..Len(accepted) : accepted[i] \in 1..MaxItems
  BY ElementOfSeq
<1>2. ASSUME cpc = "release" \/ (ppc = "evict" /\ consumer_cursor = actual_tail)
      PROVE  consumer_cursor \in Nat /\ consumer_cursor + 1 \in 1..Len(accepted) /\ consumer_cursor < producer_cursor
  BY <1>2
<1> QED BY <1>1, <1>2

\* The types are kept by every step, raced or not.
LEMMA NextTypes ==
  ASSUME IndInv, [Next]_vars
  PROVE  Types'
<1> USE QueueAssumption DEF IndInv, Types, TypeOK, producerVars, consumerVars
<1>1. CASE PushBegin /\ UNCHANGED policy
  BY <1>1 DEF PushBegin
<1>2. ASSUME NEW tail \in Visible(cached_consumer_cursor, consumer_cursor),
             PushRefresh(tail), UNCHANGED policy
      PROVE  Types'
  <2>1. tail \in Nat /\ tail <= MaxItems
    BY DEF Visible
  <2> QED BY <1>2, <2>1 DEF PushRefresh, HasRoom
<1>3. CASE Evict /\ UNCHANGED policy
  <2>1. left' \in Seq(1..MaxItems)
    <3>1. CASE raced'
      BY <1>3, <3>1 DEF Evict
    <3>2. CASE ~raced'
      <4>1. ~raced /\ ppc = "evict" /\ consumer_cursor = actual_tail
        BY <1>3, <3>2 DEF Evict
      <4>2. buffer[Slot(actual_tail)] \in 1..MaxItems
        BY <4>1, Oldest
      <4> QED BY <1>3, <3>2, <4>2 DEF Evict
    <3> QED BY <3>1, <3>2
  <2>2. UNCHANGED <<producer_cursor, item, actual_tail, total_dropped, accepted, cached_producer_cursor, cpc,
                    current_tail, out, popped, buffer, policy>>
        /\ consumer_cursor' = actual_tail + 1 /\ cached_consumer_cursor' = actual_tail + 1 /\ ppc = "evict" /\ ppc' = "write"
        /\ (~raced' => ~raced /\ consumer_cursor = actual_tail)
    BY <1>3 DEF Evict
  <2> QED BY <2>1, <2>2
<1>4. CASE PushWrite /\ UNCHANGED policy
  BY <1>4, SlotInRange DEF PushWrite
<1>5. CASE PushPublish /\ UNCHANGED policy
  <2>1. accepted' \in Seq(1..MaxItems)
    <3>1. item \in 1..MaxItems
      BY <1>5 DEF PushPublish
    <3>2. accepted' = accepted \/ accepted' = Append(accepted, item)
      BY <1>5, Zenon DEF PushPublish
    <3>3. accepted \in Seq(1..MaxItems)
      OBVIOUS
    <3>4. Append(accepted, item) \in Seq(1..MaxItems)
      BY <3>1, <3>3, AppendProperties, Zenon
    <3> QED BY <3>2, <3>3, <3>4, Zenon
  <2>2. ~raced => producer_cursor + 1 - consumer_cursor <= N
    BY <1>5 DEF PushPublish, OrderInv, CursorInv, OwnershipInv
  <2> QED BY <1>5, <2>1, <2>2 DEF PushPublish
<1>6. ASSUME NEW tail \in Visible(current_tail, consumer_cursor), PopBegin(tail), UNCHANGED policy
      PROVE  Types'
  <2>1. tail \in 0..producer_cursor
    BY DEF Visible
  <2>2. /\ current_tail' = tail /\ cpc' \in {"refresh", "read"} /\ (cpc' = "read" => tail < cached_producer_cursor)
        /\ UNCHANGED <<cached_producer_cursor, out, producerVars, consumer_cursor, buffer, left, policy>>
    BY <1>6, <2>1 DEF PopBegin
  <2>3. ~raced' => ~raced
    BY <1>6, Zenon DEF PopBegin
  <2> QED BY <2>1, <2>2, <2>3
<1>7. ASSUME NEW head \in Visible(cached_producer_cursor, producer_cursor),
             PopRefresh(head), UNCHANGED policy
      PROVE  Types'
  <2>1. head \in Nat /\ head <= producer_cursor
    BY DEF Visible
  <2> QED BY <1>7, <2>1 DEF PopRefresh
<1>8. CASE PopRead /\ UNCHANGED policy
  <2>1. out' \in 0..MaxItems
    <3>1. current_tail \in Nat /\ Slot(current_tail) \in 0..N-1
      <4>1. current_tail \in Nat
        OBVIOUS
      <4> QED BY <4>1, SlotInRange
    <3> QED BY <1>8, <3>1 DEF PopRead
  <2> QED BY <1>8, <2>1 DEF PopRead
<1>9. CASE PopRelease /\ UNCHANGED policy
  <2>1. left' \in Seq(1..MaxItems)
    <3>1. raced \/ out \in 1..MaxItems
      BY <1>9, Oldest DEF PopRelease
    <3>2. (raced /\ left' = left) \/ (~raced /\ left' = Append(left, out))
      BY <1>9, Zenon DEF PopRelease
    <3>3. left \in Seq(1..MaxItems)
      OBVIOUS
    <3>4. out \in 1..MaxItems => Append(left, out) \in Seq(1..MaxItems)
      BY <3>3, AppendProperties, Zenon
    <3> QED BY <3>1, <3>2, <3>3, <3>4, Zenon
  <2>2. ~raced => producer_cursor - (current_tail + 1) <= N
    BY <1>9 DEF PopRelease, OrderInv, OwnershipInv
  <2> QED BY <1>9, <2>1, <2>2 DEF PopRelease
<1>10. CASE UNCHANGED vars
  BY <1>10 DEF vars
<1> QED BY <1>1, <1>2, <1>3, <1>4, <1>5, <1>6, <1>7, <1>8, <1>9, <1>10 DEF Next, Push, Pop

\* Under DropNewest nothing races.
LEMMA NextNewest ==
  ASSUME IndInv, [Next]_vars
  PROVE  NewestInv'
<1> SUFFICES ASSUME policy' # "DropOldest" PROVE NewestInv'
  BY DEF NewestInv
<1>1. policy # "DropOldest" /\ ~raced /\ current_tail = consumer_cursor /\ ppc # "evict"
  BY DEF Next, vars, IndInv, NewestInv, Types
<1>2. ASSUME NEW tail \in Visible(current_tail, consumer_cursor), PopBegin(tail)
      PROVE  NewestInv'
  <2>1. tail = consumer_cursor
    BY <1>1, QueueAssumption DEF Visible, IndInv, Types, TypeOK
  <2> QED BY <1>1, <1>2, <2>1 DEF PopBegin, NewestInv
<1> QED BY <1>1, <1>2 DEF Next, Push, Pop, PushBegin, PushRefresh, Evict, PushWrite, PushPublish, PopRefresh,
                          PopRead, PopRelease, vars, producerVars, consumerVars, NewestInv

\* Under DropOldest the newest N items stay in their slots: only the producer writes there.
LEMMA NextFresh ==
  ASSUME IndInv, [Next]_vars
  PROVE  FreshInv'
<1> SUFFICES ASSUME policy' = "DropOldest" PROVE FreshInv'
  BY DEF FreshInv
<1>1. policy = "DropOldest"
  BY DEF Next, vars
<1> USE QueueAssumption DEF IndInv, Types, TypeOK, producerVars, consumerVars
<1>2. CASE UNCHANGED <<policy, item, producer_cursor, buffer>> /\ (ppc' = "idle" <=> ppc = "idle")
           /\ (ppc' = "publish" <=> ppc = "publish")
  BY <1>2 DEF FreshInv
<1>3. CASE PushBegin
  BY <1>1, <1>3 DEF PushBegin, FreshInv
<1>4. CASE PushWrite
  <2>1. item = producer_cursor + 1
    BY <1>1, <1>4 DEF PushWrite, FreshInv
  <2>2. ASSUME NEW c \in Nat, c < producer_cursor, producer_cursor + 1 <= c + N
        PROVE  buffer'[Slot(c)] = c + 1
    <3>1. Slot(c) # Slot(producer_cursor) /\ Slot(c) \in 0..N-1
      <4>1. producer_cursor \in Nat /\ producer_cursor < c + N
        BY <2>2
      <4> QED BY <2>2, <4>1, SlotInjective, SlotInRange
    <3>2. buffer[Slot(c)] = c + 1
      BY <1>1, <1>4, <2>2 DEF PushWrite, FreshInv
    <3> QED BY <1>4, <3>1, <3>2 DEF PushWrite
  <2>3. buffer'[Slot(producer_cursor)] = item
    BY <1>4, SlotInRange DEF PushWrite
  <2> QED BY <1>1, <1>4, <2>1, <2>2, <2>3 DEF PushWrite, FreshInv
<1>5. CASE PushPublish
  BY <1>1, <1>5 DEF PushPublish, FreshInv
<1>6. PushBegin \/ PushWrite \/ PushPublish
      \/ (UNCHANGED <<policy, item, producer_cursor, buffer>> /\ (ppc' = "idle" <=> ppc = "idle")
            /\ (ppc' = "publish" <=> ppc = "publish"))
  BY <1>1 DEF Next, Push, Pop, PushRefresh, Evict, PopBegin, PopRefresh, PopRead, PopRelease, vars
<1> QED BY <1>2, <1>3, <1>4, <1>5, <1>6

\* Without a race the rest is kept too.
LEMMA NextOrder ==
  ASSUME IndInv, [Next]_vars, ~raced'
  PROVE  OrderInv'
<1>0. ~raced
  BY RacedStays
<1> USE <1>0, QueueAssumption DEF IndInv, Types, TypeOK, OrderInv, CursorInv, OwnershipInv, producerVars, consumerVars
<1>1. CASE PushBegin /\ UNCHANGED policy
  BY <1>1 DEF PushBegin, HasRoom, ContentInv
<1>2. ASSUME NEW tail \in Visible(cached_consumer_cursor, consumer_cursor),
             PushRefresh(tail), UNCHANGED policy
      PROVE  OrderInv'
  <2>1. tail \in Nat /\ cached_consumer_cursor <= tail /\ tail <= consumer_cursor
    BY DEF Visible
  <2> QED BY <1>2, <2>1 DEF PushRefresh, HasRoom, ContentInv
<1>3. CASE Evict /\ UNCHANGED policy
  <2>1. /\ cpc = "idle" /\ policy = "DropOldest" /\ actual_tail = consumer_cursor
        /\ consumer_cursor < producer_cursor
    BY <1>3 DEF Evict
  <2>2. buffer[Slot(consumer_cursor)] \in 1..MaxItems
    BY <1>3, <2>1, Oldest DEF Evict
  <2>3. left' \in Seq(1..MaxItems) /\ Len(left') = Len(left) + 1
    BY <1>3, <2>1, <2>2 DEF Evict
  <2>4. CursorInv' /\ OwnershipInv'
    BY <1>3, <2>1 DEF Evict
  <2>5. ContentInv'
    BY <1>3, <2>1, <2>3 DEF Evict, ContentInv
  <2> QED BY <2>4, <2>5
<1>4. CASE PushWrite /\ UNCHANGED policy
  <2>1. CursorInv' /\ OwnershipInv'
    BY <1>4 DEF PushWrite
  <2>2. ASSUME NEW i \in Nat, consumer_cursor <= i, i < producer_cursor
        PROVE  buffer'[Slot(i)] = accepted[i + 1]
    <3>0. producer_cursor \in Nat /\ producer_cursor < i + N
      BY <1>4, <2>2 DEF PushWrite
    <3>1. Slot(i) # Slot(producer_cursor) /\ Slot(i) \in 0..N-1
      BY <2>2, <3>0, SlotInjective, SlotInRange
    <3> QED BY <1>4, <2>2, <3>1 DEF PushWrite, ContentInv
  <2>3. buffer'[Slot(producer_cursor)] = item
    BY <1>4, SlotInRange DEF PushWrite
  <2>4. ContentInv'
    BY <1>4, <2>2, <2>3 DEF PushWrite, ContentInv
  <2> QED BY <2>1, <2>4
<1>5. CASE PushPublish /\ UNCHANGED policy
  <2>1. /\ Len(accepted') = Len(accepted) + 1
        /\ \A i \in 1..Len(accepted) : accepted'[i] = accepted[i]
        /\ accepted'[Len(accepted) + 1] = item
    BY <1>5 DEF PushPublish
  <2>2. CursorInv' /\ OwnershipInv'
    BY <1>5 DEF PushPublish
  <2>3. ASSUME NEW i \in Nat, consumer_cursor <= i, i < producer_cursor + 1
        PROVE  buffer[Slot(i)] = accepted'[i + 1]
    <3>1. CASE i = producer_cursor
      BY <1>5, <2>1, <3>1 DEF PushPublish, ContentInv
    <3>2. CASE i < producer_cursor
      <4>1. buffer[Slot(i)] = accepted[i + 1] /\ i + 1 \in 1..Len(accepted)
        BY <2>3, <3>2 DEF ContentInv
      <4> QED BY <2>1, <4>1
    <3> QED BY <2>3, <3>1, <3>2
  <2>4. ContentInv'
    <3>1. cpc = "release" => accepted'[consumer_cursor + 1] = accepted[consumer_cursor + 1]
      <4>1. cpc = "release" => consumer_cursor + 1 \in 1..Len(accepted)
        BY DEF ContentInv
      <4> QED BY <2>1, <4>1
    <3> QED BY <1>5, <2>1, <2>3, <3>1 DEF PushPublish, ContentInv
  <2> QED BY <2>2, <2>4
<1>6. ASSUME NEW tail \in Visible(current_tail, consumer_cursor), PopBegin(tail), UNCHANGED policy
      PROVE  OrderInv'
  <2>1. tail = consumer_cursor
    BY <1>6 DEF PopBegin
  <2> QED BY <1>6, <2>1 DEF PopBegin, ContentInv
<1>7. ASSUME NEW head \in Visible(cached_producer_cursor, producer_cursor),
             PopRefresh(head), UNCHANGED policy
      PROVE  OrderInv'
  BY <1>7 DEF PopRefresh, ContentInv
<1>8. CASE PopRead /\ UNCHANGED policy
  <2>1. current_tail = consumer_cursor /\ consumer_cursor < producer_cursor
    BY <1>8 DEF PopRead
  <2>2. out' = accepted[consumer_cursor + 1]
    BY <1>8, <2>1, SlotInRange DEF PopRead, ContentInv
  <2> QED BY <1>8, <2>1, <2>2 DEF PopRead, ContentInv
<1>9. CASE PopRelease /\ UNCHANGED policy
  <2>1. current_tail = consumer_cursor /\ consumer_cursor < producer_cursor
    BY <1>9 DEF PopRelease
  <2>2. out \in 1..MaxItems
    BY <1>9, Oldest DEF PopRelease
  <2>3. left' \in Seq(1..MaxItems) /\ Len(left') = Len(left) + 1
    BY <1>9, <2>2 DEF PopRelease
  <2>4. CursorInv' /\ OwnershipInv'
    BY <1>9, <2>1 DEF PopRelease
  <2>5. ContentInv'
    BY <1>9, <2>1, <2>3, SMTT(30) DEF PopRelease, ContentInv
  <2> QED BY <2>4, <2>5
<1>10. CASE UNCHANGED vars
  BY <1>10 DEF vars, ContentInv
<1> QED BY <1>1, <1>2, <1>3, <1>4, <1>5, <1>6, <1>7, <1>8, <1>9, <1>10 DEF Next, Push, Pop

\* So every step of either side preserves the invariant.
LEMMA NextIndInv ==
  ASSUME IndInv, [Next]_vars
  PROVE  IndInv'
BY NextTypes, NextNewest, NextFresh, NextOrder DEF IndInv

-----------------------------------------------------------------------------
(* Theorems                                                                *)

\* What every state of the queue satisfies, with both sides in threads of their own.
THEOREM Invariance == Spec => []IndInv
BY InitIndInv, NextIndInv, PTL DEF Spec

\* The state keeps its types, and until a race len() stays within the capacity.
THEOREM TypeCorrect == Spec => []TypeOK
<1>1. IndInv => TypeOK
  BY DEF IndInv, Types
<1> QED BY <1>1, Invariance, PTL

\* Under DropNewest no cursor of try_pop's is moved under it, so what holds until a race
\* holds always.
THEOREM NewestNeverRaces == Spec => [](policy = "DropNewest" => ~raced)
<1>1. IndInv => (policy = "DropNewest" => ~raced)
  BY DEF IndInv, NewestInv
<1> QED BY <1>1, Invariance, PTL

\* Under DropOldest the ring holds the newest items, each in its slot, whatever
\* push_with_policy evicted before and however it met try_pop; until an eviction falls into
\* a try_pop the consumer's cursor is among them.
THEOREM Freshest == Spec => []FreshestKept
<1>1. ASSUME IndInv PROVE FreshestKept
  <2> SUFFICES ASSUME ppc = "idle", policy = "DropOldest"
               PROVE  /\ \A c \in 0..producer_cursor - 1 : producer_cursor <= c + N => buffer[Slot(c)] = c + 1
                      /\ ~raced => producer_cursor <= consumer_cursor + N
    BY DEF FreshestKept
  <2>1. producer_cursor \in Nat /\ consumer_cursor \in Nat /\ N \in Nat
    BY <1>1, QueueAssumption DEF IndInv, Types, TypeOK
  <2>2. ASSUME NEW c \in 0..producer_cursor - 1, producer_cursor <= c + N
        PROVE  buffer[Slot(c)] = c + 1
    <3>1. c \in Nat /\ c < producer_cursor
      BY <2>1
    <3> QED BY <1>1, <2>1, <2>2, <3>1 DEF IndInv, FreshInv
  <2>3. ~raced => producer_cursor <= consumer_cursor + N
    BY <1>1, <2>1 DEF IndInv, Types, TypeOK
  <2> QED BY <2>2, <2>3
<1> QED BY <1>1, Invariance, PTL

\* Under either policy the queue is a bounded FIFO queue of what it accepted: the stores of
\* producer_cursor put an item in, those of consumer_cursor, by either side, take one out,
\* until an eviction falls into a try_pop.
THEOREM Refinement == Spec => ImplementsBoundedQueue
<1>1. Init => Queue!Init
  BY DEF Init, Queue!Init
<1>2. ASSUME IndInv, [Next]_vars
      PROVE  [Queue!Next]_<<accepted, left>>
  <2> USE QueueAssumption DEF IndInv, Types, TypeOK, producerVars, consumerVars
  <2>1. CASE PushPublish /\ ~raced
    <3>1. item \in 1..MaxItems /\ Queue!Put(item)
      BY <1>2, <2>1 DEF PushPublish, Queue!Put, OrderInv, CursorInv, OwnershipInv, ContentInv
    <3> QED BY <3>1 DEF Queue!Next
  <2>2. CASE PopRelease /\ ~raced
    <3>1. out = accepted[Len(left) + 1] /\ Len(left) < Len(accepted)
      BY <1>2, <2>2, Oldest DEF PopRelease, OrderInv, OwnershipInv, ContentInv
    <3>2. Queue!Get
      BY <2>2, <3>1 DEF PopRelease, Queue!Get
    <3> QED BY <3>2 DEF Queue!Next
  <2>3. CASE Evict /\ ~raced'
    <3>1. ~raced /\ ppc = "evict" /\ actual_tail = consumer_cursor /\ consumer_cursor < producer_cursor
      BY <1>2, <2>3 DEF Evict
    <3>2. buffer[Slot(actual_tail)] = accepted[Len(left) + 1] /\ Len(left) < Len(accepted)
      BY <1>2, <3>1, Oldest DEF OrderInv, ContentInv
    <3>3. Queue!Get
      BY <2>3, <3>2 DEF Evict, Queue!Get
    <3> QED BY <3>3 DEF Queue!Next
  <2>4. CASE UNCHANGED <<accepted, left>>
    BY <2>4
  <2>5. (PushPublish /\ ~raced) \/ (PopRelease /\ ~raced) \/ (Evict /\ ~raced') \/ UNCHANGED <<accepted, left>>
    BY <1>2 DEF Next, Push, Pop, PushBegin, PushRefresh, PushWrite, PushPublish, Evict, PopBegin, PopRefresh,
                PopRead, PopRelease, vars
  <2> QED BY <2>1, <2>2, <2>3, <2>4, <2>5
<1> QED BY <1>1, <1>2, Invariance, PTL DEF Spec, ImplementsBoundedQueue, Queue!Spec

\* The simulator drives the queue as any caller may: generate_burst leaves it alone, and
\* the rest of its steps are the queue's own.
LEMMA SimulatorUsesQueue == SimulatorSpec => Spec
<1>1. SimulatorInit => Init
  BY DEF SimulatorInit
<1>2. [SimulatorNext]_<<vars, simulatorVars>> => [Next]_vars
  BY DEF SimulatorNext, GenerateBurst, Next
<1> QED BY <1>1, <1>2, PTL DEF SimulatorSpec, Spec

\* So the ring between the simulator and its consumer holds the freshest events and, until
\* an eviction falls into a try_pop, those the consumer gets are the ones the queue
\* accepted, in order.
THEOREM SimulatorQueue == SimulatorSpec => []FreshestKept /\ ImplementsBoundedQueue
BY SimulatorUsesQueue, Freshest, Refinement, PTL

-----------------------------------------------------------------------------
(* Induction, and the loop of generate_burst.                              *)

\* Every nonempty set of numbers has a least one, so what holds of the first events of a
\* burst and is kept by the next holds of all of them.
LEMMA LeastOfSet ==
  ASSUME NEW S \in SUBSET Nat, S # {}
  PROVE  \E x \in S : \A y \in S : x <= y
<1> DEFINE R == {ss \in Nat \X Nat : ss[1] < ss[2]}
<1>1. IsWellFoundedOn(R, Nat)
  BY NatLessThanWellFounded, Zenon DEF OpToRel
<1>2. \A x, y \in Nat : <<x, y>> \in R <=> x < y
  OBVIOUS
<1> HIDE DEF R
<1>3. PICK x \in S : \A y \in S : ~(<<y, x>> \in R)
  BY <1>1, WFMin
<1>4. \A y \in S : x \in Nat /\ y \in Nat /\ ~(y < x)
  BY <1>2, <1>3
<1> QED BY <1>4

\* g is the run of the loop up to its n-th event.
IsRun(g, now, burst, n) ==
  /\ DOMAIN g = 0..n /\ g = [i \in DOMAIN g |-> g[i]]
  /\ g[0] = now /\ \A i \in 1..n : g[i] = Generated(g[i - 1], burst[i])

\* The loop of generate_burst runs to any number of events.
LEMMA RunExists ==
  ASSUME NEW now, NEW burst, NEW c \in Nat
  PROVE  \E g : IsRun(g, now, burst, c)
<1> DEFINE S == {n \in Nat : ~ \E g : IsRun(g, now, burst, n)}
<1>1. SUFFICES ASSUME S # {} PROVE FALSE
  OBVIOUS
<1>2. PICK n \in S : \A y \in S : n <= y
  BY <1>1, LeastOfSet
<1>3. n \in Nat /\ ~ \E g : IsRun(g, now, burst, n)
  OBVIOUS
<1>4. n # 0
  <2> DEFINE g == [i \in 0..0 |-> now]
  <2>1. IsRun(g, now, burst, 0)
    BY DEF IsRun
  <2> QED BY <1>3, <2>1
<1>5. PICK g : IsRun(g, now, burst, n - 1)
  <2>1. n - 1 \in Nat /\ ~(n <= n - 1)
    BY <1>3, <1>4
  <2> QED BY <1>2, <2>1
<1> DEFINE h == [i \in 0..n |-> IF i = n THEN Generated(g[n - 1], burst[n]) ELSE g[i]]
<1>6. IsRun(h, now, burst, n)
  <2>1. DOMAIN h = 0..n /\ h = [i \in DOMAIN h |-> h[i]] /\ h[0] = now
    BY <1>3, <1>4, <1>5 DEF IsRun
  <2>2. ASSUME NEW i \in 1..n PROVE h[i] = Generated(h[i - 1], burst[i])
    <3>1. CASE i = n
      <4>1. h[i - 1] = g[n - 1] /\ h[i] = Generated(g[n - 1], burst[n])
        BY <1>3, <1>4, <3>1
      <4> QED BY <3>1, <4>1
    <3>2. CASE i # n
      <4>1. i \in 1..n - 1 /\ h[i] = g[i] /\ h[i - 1] = g[i - 1]
        BY <1>3, <1>4, <3>2
      <4>2. g[i] = Generated(g[i - 1], burst[i])
        BY <1>5, <4>1 DEF IsRun
      <4> QED BY <4>1, <4>2
    <3> QED BY <3>1, <3>2
  <2> HIDE DEF h
  <2> QED BY <2>1, <2>2 DEF IsRun
<1> QED BY <1>3, <1>6

\* What generate_burst leaves behind is the end of such a run.
LEMMA FilledIsRun ==
  ASSUME NEW now, NEW burst, Count \in Nat
  PROVE  \E g : IsRun(g, now, burst, Count) /\ Filled(now, burst) = g[Count]
<1> DEFINE f == CHOOSE f : f = [i \in 0..Count |-> IF i = 0 THEN now ELSE Generated(f[i - 1], burst[i])]
<1>1. PICK g : IsRun(g, now, burst, Count)
  BY RunExists
<1>2. g = [i \in 0..Count |-> IF i = 0 THEN now ELSE Generated(g[i - 1], burst[i])]
  BY <1>1 DEF IsRun
<1>3. f = [i \in 0..Count |-> IF i = 0 THEN now ELSE Generated(f[i - 1], burst[i])]
  BY <1>2, Zenon
<1>4. Filled(now, burst) = f[Count]
  BY Zenon DEF Filled
<1> HIDE DEF f
<1>5. IsRun(f, now, burst, Count)
  BY <1>3 DEF IsRun
<1> QED BY <1>4, <1>5

-----------------------------------------------------------------------------
(* The generator                                                           *)

Event == [venue : Venues, market : 1..3, sequence : Nat, trade_id : Nat, bid : Int, ask : Int]

\* Each venue's events carry its numbers from 1 on, in order and without a gap, and no
\* quote is crossed or without a price.
Numbered(es, last) ==
  /\ \A i \in 1..Len(es) : es[i].sequence \in 1..last[es[i].venue]
  /\ \A i, j \in 1..Len(es) : i < j /\ es[i].venue = es[j].venue => es[i].sequence < es[j].sequence
  /\ \A v \in Venues : \A n \in 1..last[v] : \E i \in 1..Len(es) : es[i].venue = v /\ es[i].sequence = n
Priced(es) == \A i \in 1..Len(es) : 0 < es[i].bid /\ es[i].bid <= es[i].ask

Sound(s) ==
  /\ s.prices \in [1..3 -> Int] /\ s.sequences \in [Venues -> Nat] /\ s.trade_id \in Nat
  /\ s.events \in Seq(Event)
  /\ Numbered(s.events, s.sequences) /\ Priced(s.events)

\* What a venue's spread may be, in basis points.
LEMMA SpreadOfVenue ==
  ASSUME NEW v \in Venues, NEW x \in Nat
  PROVE  GenRange(x, SpreadRange[v][1], SpreadRange[v][2]) \in 1..15
<1>1. CASE v = "Binance"
  <2>1. SpreadRange[v] = <<1, 3>>
    BY <1>1 DEF SpreadRange
  <2> QED BY <2>1 DEF GenRange
<1>2. CASE v = "Okx"
  <2>1. SpreadRange[v] = <<2, 5>>
    BY <1>2 DEF SpreadRange
  <2> QED BY <2>1 DEF GenRange
<1>3. CASE v = "UniswapV3"
  <2>1. SpreadRange[v] = <<5, 15>>
    BY <1>3 DEF SpreadRange
  <2> QED BY <2>1 DEF GenRange
<1> QED BY <1>1, <1>2, <1>3 DEF Venues

\* Half a spread is less than the price.
LEMMA HalfSpread ==
  ASSUME NEW price \in Nat, 0 < price, NEW spread \in 1..15
  PROVE  (price * spread) \div 20000 \in Nat /\ (price * spread) \div 20000 < price
<1> DEFINE half == (price * spread) \div 20000
<1>1. price * spread \in Nat /\ price * spread <= price * 15
  OBVIOUS
<1>2. half \in Nat /\ 20000 * half <= price * spread
  BY <1>1
<1> HIDE DEF half
<1>3. half < price
  BY <1>1, <1>2
<1> QED BY <1>2, <1>3 DEF half

\* An event takes the next number of its venue, and has a price.
LEMMA GeneratedEvent ==
  ASSUME NEW s, Sound(s), NEW d \in Draws
  PROVE  \E v \in Venues, e \in Event, m \in 1..3, price \in Int, id \in Nat :
           /\ e.venue = v /\ e.sequence = s.sequences[v] + 1 /\ 0 < e.bid /\ e.bid <= e.ask
           /\ Generated(s, d) = [prices |-> [s.prices EXCEPT ![m] = price],
                                 sequences |-> [s.sequences EXCEPT ![v] = s.sequences[v] + 1],
                                 trade_id |-> id, events |-> Append(s.events, e)]
<1> DEFINE market == MarketOf(d)
           venue == VenueOf(d)
           walk == s.prices[market] + GenPriceDelta(d.delta, Jump[market])
           price == IF walk < Floor THEN Floor ELSE walk
           spread == GenRange(d.spread, SpreadRange[venue][1], SpreadRange[venue][2])
           half == (price * spread) \div 20000
           sequence == s.sequences[venue] + 1
           id == s.trade_id + (IF IsTrade(d) THEN 1 ELSE 0)
           e == [venue |-> venue, market |-> market, sequence |-> sequence,
                 trade_id |-> IF IsTrade(d) THEN id ELSE 0,
                 bid |-> IF IsTrade(d) THEN price ELSE price - half,
                 ask |-> IF IsTrade(d) THEN price ELSE price + half]
<1>1. /\ d.venue \in Nat /\ d.asset \in Nat /\ d.kind \in Nat /\ d.delta \in Nat /\ d.spread \in Nat
      /\ Floor \in Nat /\ 0 < Floor
  BY SimulatorAssumption
<1>2. market \in 1..3 /\ venue \in Venues
  BY DEF MarketOf, VenueOf, Venues
<1>3. /\ s.prices \in [1..3 -> Int] /\ s.sequences \in [Venues -> Nat] /\ s.trade_id \in Nat
      /\ s.sequences[venue] \in Nat /\ s.prices[market] \in Int
  BY <1>2 DEF Sound
<1>4. GenPriceDelta(d.delta, Jump[market]) \in Int
  <2>1. Jump[market] \in Nat
    BY <1>2, SimulatorAssumption
  <2>2. 2 * Jump[market] + 1 \in Nat \ {0}
    BY <2>1
  <2>3. d.delta % (2 * Jump[market] + 1) \in Int
    BY <1>1, <2>2
  <2> QED BY <2>1, <2>3 DEF GenPriceDelta
<1>5. spread \in 1..15
  BY <1>1, <1>2, SpreadOfVenue
<1>6. Generated(s, d) = [prices |-> [s.prices EXCEPT ![market] = price],
                         sequences |-> [s.sequences EXCEPT ![venue] = sequence],
                         trade_id |-> id, events |-> Append(s.events, e)]
  BY DEF Generated
<1> HIDE DEF market, venue, spread
<1>7. price \in Nat /\ 0 < price
  BY <1>1, <1>3, <1>4
<1> HIDE DEF price, walk
<1>8. half \in Nat /\ half < price
  BY <1>5, <1>7, HalfSpread
<1> HIDE DEF half
<1>9. sequence \in Nat /\ id \in Nat /\ price \in Int
  BY <1>3, <1>7
<1>10. e \in Event /\ e.venue = venue /\ e.sequence = sequence /\ 0 < e.bid /\ e.bid <= e.ask
  BY <1>2, <1>7, <1>8, <1>9 DEF Event
<1> HIDE DEF e, id
<1> QED BY <1>2, <1>6, <1>9, <1>10

\* An event keeps the numbers of every venue whole.
LEMMA GeneratedSound ==
  ASSUME NEW s, Sound(s), NEW d \in Draws
  PROVE  /\ Sound(Generated(s, d))
         /\ Len(Generated(s, d).events) = Len(s.events) + 1
         /\ \A i \in 1..Len(s.events) : Generated(s, d).events[i] = s.events[i]
<1> DEFINE t == Generated(s, d)
<1>1. PICK v \in Venues, e \in Event, m \in 1..3, price \in Int, id \in Nat :
        /\ e.venue = v /\ e.sequence = s.sequences[v] + 1 /\ 0 < e.bid /\ e.bid <= e.ask
        /\ t = [prices |-> [s.prices EXCEPT ![m] = price],
                sequences |-> [s.sequences EXCEPT ![v] = s.sequences[v] + 1],
                trade_id |-> id, events |-> Append(s.events, e)]
  BY GeneratedEvent
<1> HIDE DEF t
<1> DEFINE es == s.events
           fs == t.events
           last == s.sequences
           now == t.sequences
           n == Len(es)
<1>2. /\ s.prices \in [1..3 -> Int] /\ last \in [Venues -> Nat] /\ es \in Seq(Event) /\ n \in Nat
      /\ Numbered(es, last) /\ Priced(es)
  BY DEF Sound
<1>3. /\ t.prices \in [1..3 -> Int] /\ now \in [Venues -> Nat] /\ t.trade_id \in Nat /\ fs \in Seq(Event)
      /\ now = [last EXCEPT ![v] = last[v] + 1]
  <2>1. /\ t.prices = [s.prices EXCEPT ![m] = price] /\ now = [last EXCEPT ![v] = last[v] + 1]
        /\ t.trade_id = id /\ fs = Append(es, e)
    BY <1>1
  <2> HIDE DEF es, fs, last, now, n
  <2>2. last[v] + 1 \in Nat
    BY <1>2
  <2> QED BY <1>2, <2>1, <2>2, SMTT(30)
<1>4. /\ Len(fs) = n + 1 /\ fs[n + 1] = e /\ \A i \in 1..n : fs[i] = es[i]
  BY <1>1, <1>2
<1>5. /\ now[v] = last[v] + 1 /\ last[v] \in Nat /\ \A w \in Venues \ {v} : now[w] = last[w]
      /\ \A w \in Venues : last[w] \in Nat /\ now[w] \in Nat /\ last[w] <= now[w]
  BY <1>2, <1>3
<1>6. \A i \in 1..n : es[i] \in Event /\ es[i].venue \in Venues /\ es[i].sequence \in Nat
  <2> HIDE DEF es, n
  <2>1. \A i \in 1..n : es[i] \in Event
    BY <1>2 DEF n
  <2> QED BY <2>1 DEF Event
<1> HIDE DEF es, fs, last, now, n
<1>7. 1..n + 1 = 1..n \cup {n + 1}
  BY <1>2
<1>8. \A i \in 1..n + 1 : fs[i].sequence \in 1..now[fs[i].venue]
  <2>1. \A i \in 1..n : fs[i].sequence \in 1..now[fs[i].venue]
    <3> SUFFICES ASSUME NEW i \in 1..n PROVE es[i].sequence \in 1..now[es[i].venue]
      BY <1>4
    <3>1. es[i].sequence \in 1..last[es[i].venue]
      BY <1>2 DEF Numbered, n
    <3> QED BY <1>5, <1>6, <3>1
  <2>2. e.sequence \in 1..now[e.venue]
    BY <1>1, <1>5 DEF last
  <2> QED BY <1>4, <1>7, <2>1, <2>2
<1>9. \A i, j \in 1..n + 1 : i < j /\ fs[i].venue = fs[j].venue => fs[i].sequence < fs[j].sequence
  <2> SUFFICES ASSUME NEW i \in 1..n + 1, NEW j \in 1..n + 1, i < j, fs[i].venue = fs[j].venue
               PROVE  fs[i].sequence < fs[j].sequence
    OBVIOUS
  <2>1. i \in 1..n /\ fs[i] = es[i]
    BY <1>2, <1>4
  <2>2. CASE j = n + 1
    <3>1. es[i].venue = v /\ es[i].sequence \in 1..last[v]
      BY <1>1, <1>2, <1>4, <2>1, <2>2, SMTT(30) DEF Numbered, n
    <3> QED BY <1>1, <1>4, <1>5, <2>1, <2>2, <3>1 DEF last
  <2>3. CASE j \in 1..n
    BY <1>2, <1>4, <2>1, <2>3 DEF Numbered, n
  <2> QED BY <1>7, <2>2, <2>3
<1>10. ASSUME NEW w \in Venues, NEW k \in 1..now[w]
       PROVE  \E i \in 1..n + 1 : fs[i].venue = w /\ fs[i].sequence = k
  <2>1. CASE k \in 1..last[w]
    <3>1. PICK i \in 1..n : es[i].venue = w /\ es[i].sequence = k
      BY <1>2, <2>1 DEF Numbered, n
    <3> QED BY <1>4, <1>7, <3>1
  <2>2. CASE k \notin 1..last[w]
    <3>1. w = v /\ k = last[v] + 1
      BY <1>5, <2>2
    <3>2. n + 1 \in 1..n + 1
      BY <1>2
    <3> QED BY <1>1, <1>4, <3>1, <3>2 DEF last
  <2> QED BY <2>1, <2>2
<1>11. Numbered(fs, now)
  BY <1>4, <1>8, <1>9, <1>10 DEF Numbered
<1>12. Priced(fs)
  BY <1>1, <1>2, <1>4, <1>7 DEF Priced, n
<1>13. Sound(t)
  BY <1>3, <1>11, <1>12 DEF Sound, fs, now
<1> QED BY <1>4, <1>13 DEF t, fs, es, n

\* So does a burst, which only adds to the events.
LEMMA FilledSound ==
  ASSUME NEW s, Sound(s), NEW burst \in [1..Count -> Draws]
  PROVE  /\ Sound(Filled(s, burst)) /\ Len(s.events) <= Len(Filled(s, burst).events)
         /\ \A i \in 1..Len(s.events) : Filled(s, burst).events[i] = s.events[i]
<1>1. Count \in Nat
  BY SimulatorAssumption DEF Count
<1>2. PICK g : IsRun(g, s, burst, Count) /\ Filled(s, burst) = g[Count]
  BY <1>1, FilledIsRun
<1> DEFINE Good(t) == /\ Sound(t) /\ Len(s.events) <= Len(t.events)
                      /\ \A i \in 1..Len(s.events) : t.events[i] = s.events[i]
           Bad == {i \in 0..Count : ~Good(g[i])}
<1>3. Bad = {}
  <2> SUFFICES ASSUME Bad # {} PROVE FALSE
    OBVIOUS
  <2>1. PICK i \in Bad : \A y \in Bad : i <= y
    <3>1. Bad \in SUBSET Nat
      BY <1>1
    <3> HIDE DEF Bad
    <3> QED BY <3>1, LeastOfSet
  <2>2. i \in 0..Count /\ ~Good(g[i])
    OBVIOUS
  <2>3. Len(s.events) \in Nat
    BY DEF Sound
  <2>4. Good(s)
    BY <2>3
  <2>5. i # 0
    BY <1>2, <2>2, <2>4 DEF IsRun
  <2>6. i \in 1..Count /\ i - 1 \in 0..Count /\ ~(i <= i - 1)
    BY <1>1, <2>2, <2>5
  <2>7. Good(g[i - 1])
    BY <2>1, <2>6
  <2>8. g[i] = Generated(g[i - 1], burst[i]) /\ burst[i] \in Draws
    BY <1>2, <2>6 DEF IsRun
  <2>9. /\ Sound(g[i]) /\ Len(g[i].events) = Len(g[i - 1].events) + 1
        /\ \A j \in 1..Len(g[i - 1].events) : g[i].events[j] = g[i - 1].events[j]
    <3>1. Sound(g[i - 1])
      BY <2>7
    <3> HIDE DEF Good, Bad
    <3> QED BY <2>8, <3>1, GeneratedSound
  <2>10. Len(g[i - 1].events) \in Nat
    BY <2>7 DEF Sound
  <2>11. Len(s.events) <= Len(g[i].events)
    BY <2>3, <2>7, <2>9, <2>10
  <2>12. ASSUME NEW j \in 1..Len(s.events) PROVE g[i].events[j] = s.events[j]
    <3>1. j \in 1..Len(g[i - 1].events)
      BY <2>3, <2>7, <2>10
    <3> QED BY <2>7, <2>9, <3>1
  <2> QED BY <2>2, <2>9, <2>11, <2>12
<1>4. Good(g[Count])
  BY <1>1, <1>3
<1> QED BY <1>2, <1>4

-----------------------------------------------------------------------------
(* Accounts                                                                *)

\* Every call's item was accepted or dropped, or is under way; every item that left was
\* returned or evicted.
Accounts ==
  /\ total_dropped \in Nat /\ total_evicted \in Nat /\ popped \in Seq(Nat)
  /\ item = producer_cursor + total_dropped + (IF ppc = "idle" THEN 0 ELSE 1)
  /\ consumer_cursor = Len(popped) + total_evicted

\* Items are accepted in the order of the calls, and returned in the order of acceptance.
AcceptedInOrder ==
  /\ \A i, j \in 1..Len(accepted) : i < j => accepted[i] < accepted[j]
  /\ \A i \in 1..Len(accepted) : accepted[i] <= item /\ (ppc # "idle" => accepted[i] < item)
PoppedInOrder ==
  /\ \A i, j \in 1..Len(popped) : i < j => popped[i] < popped[j]
  /\ \A i \in 1..Len(popped) : \E c \in 1..consumer_cursor : popped[i] = accepted[c]

Books == Accounts /\ AcceptedInOrder /\ PoppedInOrder
AccountInv == IndInv /\ (~raced => Books)

\* The books of a new queue are empty.
LEMMA InitAccounts == Init => AccountInv
<1> SUFFICES ASSUME Init PROVE AccountInv
  OBVIOUS
<1>1. IndInv
  BY InitIndInv
<1>2. Accounts /\ AcceptedInOrder /\ PoppedInOrder
  BY DEF Init, Accounts, AcceptedInOrder, PoppedInOrder
<1> QED BY <1>1, <1>2 DEF AccountInv, Books

\* What the queue's invariant says of the cursors.
LEMMA CursorFacts ==
  ASSUME IndInv, ~raced
  PROVE  /\ producer_cursor \in Nat /\ consumer_cursor \in Nat /\ consumer_cursor <= producer_cursor
         /\ item \in Nat /\ accepted \in Seq(1..MaxItems) /\ Len(accepted) = producer_cursor
         /\ \A i \in 1..producer_cursor : accepted[i] \in Nat /\ 1 <= accepted[i]
<1>1. /\ producer_cursor \in Nat /\ consumer_cursor \in Nat /\ consumer_cursor <= producer_cursor
      /\ item \in Nat /\ accepted \in Seq(1..MaxItems) /\ Len(accepted) = producer_cursor
  BY QueueAssumption DEF IndInv, Types, TypeOK, OrderInv, ContentInv
<1>2. \A i \in 1..Len(accepted) : accepted[i] \in 1..MaxItems
  BY <1>1, ElementOfSeq
<1> QED BY <1>1, <1>2, QueueAssumption

\* Every step keeps the books, as long as nothing races.
LEMMA NextBooks ==
  ASSUME IndInv, Books, [Next]_vars, ~raced'
  PROVE  Books'
<1>0. ~raced
  BY RacedStays
<1>1. IndInv /\ Accounts /\ AcceptedInOrder /\ PoppedInOrder
  BY DEF Books
<1>2. /\ producer_cursor \in Nat /\ consumer_cursor \in Nat /\ consumer_cursor <= producer_cursor
      /\ item \in Nat /\ accepted \in Seq(1..MaxItems) /\ Len(accepted) = producer_cursor
      /\ \A i \in 1..producer_cursor : accepted[i] \in Nat /\ 1 <= accepted[i]
  BY <1>0, <1>1, CursorFacts
<1> USE DEF producerVars, consumerVars
<1>3. CASE UNCHANGED <<producer_cursor, consumer_cursor, accepted, popped, total_dropped, total_evicted, item>>
           /\ (ppc' = "idle" <=> ppc = "idle")
  BY <1>1, <1>3 DEF Books, Accounts, AcceptedInOrder, PoppedInOrder
<1>4. CASE PushBegin
  <2>1. /\ ppc = "idle" /\ ppc' # "idle" /\ item' = item + 1
        /\ UNCHANGED <<producer_cursor, consumer_cursor, accepted, popped, total_dropped, total_evicted>>
    BY <1>4 DEF PushBegin
  <2>2. Accounts' /\ AcceptedInOrder' /\ PoppedInOrder'
    BY <1>1, <1>2, <2>1 DEF Accounts, AcceptedInOrder, PoppedInOrder
  <2> QED BY <1>1, <2>2 DEF Books
<1>5. ASSUME NEW tail \in Visible(cached_consumer_cursor, consumer_cursor), PushRefresh(tail)
      PROVE  Books'
  <2>1. /\ ppc = "refresh"
        /\ UNCHANGED <<producer_cursor, consumer_cursor, accepted, popped, total_evicted, item>>
        /\ \/ ppc' # "idle" /\ total_dropped' = total_dropped
           \/ ppc' = "idle" /\ total_dropped' = total_dropped + 1
    BY <1>5 DEF PushRefresh
  <2>2. Accounts'
    BY <1>1, <1>2, <2>1, SMTT(30) DEF Accounts
  <2>3. AcceptedInOrder' /\ PoppedInOrder'
    BY <1>1, <1>2, <2>1 DEF AcceptedInOrder, PoppedInOrder
  <2> QED BY <1>1, <2>2, <2>3 DEF Books
<1>6. CASE Evict
  <2>1. /\ ppc = "evict" /\ ppc' = "write" /\ consumer_cursor' = consumer_cursor + 1
        /\ total_evicted' = total_evicted + 1
        /\ UNCHANGED <<producer_cursor, accepted, popped, total_dropped, item>>
    BY <1>1, <1>6 DEF Evict
  <2>2. 1..consumer_cursor \subseteq 1..consumer_cursor'
    BY <1>2, <2>1
  <2>3. Accounts' /\ AcceptedInOrder'
    BY <1>1, <1>2, <2>1 DEF Accounts, AcceptedInOrder
  <2>4. PoppedInOrder'
    BY <1>1, <2>1, <2>2 DEF PoppedInOrder
  <2> QED BY <1>1, <2>3, <2>4 DEF Books
<1>7. CASE PushPublish
  <2>1. /\ ppc = "publish" /\ ppc' = "idle" /\ producer_cursor' = producer_cursor + 1
        /\ accepted' = Append(accepted, item)
        /\ UNCHANGED <<consumer_cursor, popped, total_dropped, total_evicted, item>>
    BY <1>0, <1>7 DEF PushPublish
  <2>2. /\ Len(accepted') = producer_cursor + 1 /\ accepted'[producer_cursor + 1] = item
        /\ \A i \in 1..producer_cursor : accepted'[i] = accepted[i] /\ accepted[i] < item
    BY <1>1, <1>2, <2>1 DEF AcceptedInOrder
  <2>3. Accounts'
    BY <1>1, <1>2, <2>1 DEF Accounts
  <2>4. AcceptedInOrder'
    <3>1. 1..Len(accepted') = 1..producer_cursor \cup {producer_cursor + 1}
      BY <1>2, <2>2
    <3>2. \A i \in 1..Len(accepted') : accepted'[i] <= item'
      BY <1>2, <2>1, <2>2, <3>1
    <3>3. ASSUME NEW i \in 1..Len(accepted'), NEW j \in 1..Len(accepted'), i < j
          PROVE  accepted'[i] < accepted'[j]
      <4>1. i \in 1..producer_cursor
        BY <1>2, <2>2, <3>3
      <4>2. CASE j = producer_cursor + 1
        BY <2>2, <4>1, <4>2
      <4>3. CASE j \in 1..producer_cursor
        BY <1>1, <1>2, <2>2, <3>3, <4>1, <4>3 DEF AcceptedInOrder
      <4> QED BY <3>1, <4>2, <4>3
    <3> QED BY <2>1, <3>2, <3>3 DEF AcceptedInOrder
  <2>5. PoppedInOrder'
    <3>1. \A c \in 1..consumer_cursor : accepted'[c] = accepted[c]
      <4>1. 1..consumer_cursor \subseteq 1..producer_cursor
        BY <1>2
      <4> QED BY <2>2, <4>1
    <3>2. \A i \in 1..Len(popped) : \E c \in 1..consumer_cursor : popped[i] = accepted'[c]
      BY <1>1, <3>1 DEF PoppedInOrder
    <3> QED BY <1>1, <2>1, <3>2 DEF PoppedInOrder
  <2> QED BY <1>1, <2>3, <2>4, <2>5 DEF Books
<1>8. CASE PopRelease
  <2>1. /\ consumer_cursor' = consumer_cursor + 1 /\ popped' = Append(popped, out)
        /\ out = accepted[consumer_cursor + 1] /\ consumer_cursor < producer_cursor
        /\ UNCHANGED <<producer_cursor, accepted, total_dropped, total_evicted, item, ppc>>
    BY <1>0, <1>1, <1>2, <1>8 DEF PopRelease, IndInv, OrderInv, OwnershipInv, ContentInv, Types, TypeOK
  <2>2. consumer_cursor + 1 \in 1..producer_cursor /\ out \in Nat
    BY <1>2, <2>1
  <2>3. /\ popped \in Seq(Nat) /\ Len(popped) \in Nat /\ popped' \in Seq(Nat) /\ Len(popped') = Len(popped) + 1
        /\ popped'[Len(popped) + 1] = out /\ \A i \in 1..Len(popped) : popped'[i] = popped[i]
        /\ 1..Len(popped') = 1..Len(popped) \cup {Len(popped) + 1}
    BY <1>1, <2>1, <2>2 DEF Accounts
  <2>4. Accounts'
    BY <1>1, <1>2, <2>1, <2>3 DEF Accounts
  <2>5. AcceptedInOrder'
    BY <1>1, <2>1 DEF AcceptedInOrder
  <2>6. ASSUME NEW i \in 1..Len(popped)
        PROVE  popped[i] < out /\ \E c \in 1..consumer_cursor' : popped[i] = accepted[c]
    <3>1. PICK c \in 1..consumer_cursor : popped[i] = accepted[c]
      BY <1>1 DEF PoppedInOrder
    <3>2. c \in 1..producer_cursor /\ c < consumer_cursor + 1 /\ c \in 1..consumer_cursor'
      BY <1>2, <2>1
    <3>3. accepted[c] < accepted[consumer_cursor + 1]
      BY <1>1, <1>2, <2>2, <3>2 DEF AcceptedInOrder
    <3> QED BY <2>1, <3>1, <3>2, <3>3
  <2>7. consumer_cursor + 1 \in 1..consumer_cursor'
    BY <1>2, <2>1
  <2>8. ASSUME NEW i \in 1..Len(popped'), NEW j \in 1..Len(popped'), i < j
        PROVE  popped'[i] < popped'[j]
    <3>1. i \in 1..Len(popped)
      BY <2>3, <2>8
    <3>2. CASE j = Len(popped) + 1
      BY <2>3, <2>6, <3>1, <3>2
    <3>3. CASE j \in 1..Len(popped)
      BY <1>1, <2>3, <2>8, <3>1, <3>3 DEF PoppedInOrder
    <3> QED BY <2>3, <3>2, <3>3
  <2>9. ASSUME NEW i \in 1..Len(popped')
        PROVE  \E c \in 1..consumer_cursor' : popped'[i] = accepted'[c]
    BY <2>1, <2>3, <2>6, <2>7
  <2>10. PoppedInOrder'
    BY <2>8, <2>9 DEF PoppedInOrder
  <2> QED BY <1>1, <2>4, <2>5, <2>10 DEF Books
<1>9. CASE PushWrite \/ PopRead \/ UNCHANGED vars
  BY <1>3, <1>9 DEF PushWrite, PopRead, vars
<1>10. ASSUME NEW head \in Visible(cached_producer_cursor, producer_cursor), PopRefresh(head)
       PROVE  Books'
  BY <1>3, <1>10 DEF PopRefresh
<1>11. ASSUME NEW tail \in Visible(current_tail, consumer_cursor), PopBegin(tail)
       PROVE  Books'
  BY <1>3, <1>11 DEF PopBegin
<1> QED BY <1>4, <1>5, <1>6, <1>7, <1>8, <1>9, <1>10, <1>11 DEF Next, Push, Pop

\* So the books are right until a race.
LEMMA NextAccounts ==
  ASSUME AccountInv, [Next]_vars
  PROVE  AccountInv'
BY NextIndInv, NextBooks, RacedStays DEF AccountInv

\* try_pop returns no item twice or after a newer one, whatever was dropped or evicted
\* before, until an eviction falls into a try_pop; IsolatedQueue_race shows it broken then.
THEOREM PoppedOnceInOrder == Spec => [](~raced => InOrderOnce)
<1>1. AccountInv => (~raced => InOrderOnce)
  <2> SUFFICES ASSUME AccountInv, ~raced PROVE InOrderOnce
    OBVIOUS
  <2>1. popped \in Seq(Nat) /\ PoppedInOrder
    BY DEF AccountInv, Books, Accounts
  <2>2. DOMAIN popped = 1..Len(popped)
    BY <2>1
  <2> QED BY <2>1, <2>2 DEF InOrderOnce, PoppedInOrder
<1> QED BY <1>1, InitAccounts, NextAccounts, PTL DEF Spec

-----------------------------------------------------------------------------
(* What a consumer can tell from the numbers it gets                       *)

Now == [prices |-> prices, sequences |-> sequences, trade_id |-> trade_id_counter, events |-> events]

\* Only generated events are pushed.
SimulatorInv == AccountInv /\ Sound(Now) /\ item <= Len(events)

\* The items that were or will be returned, and those that never will be.
KeptItems == {popped[i] : i \in 1..Len(popped)} \cup {accepted[c] : c \in consumer_cursor + 1..producer_cursor}
LostItems == (1..item) \ KeptItems

\* The facts the counting rests on, with the call of neither side under way.
LEMMA AccountFacts ==
  ASSUME AccountInv, ~raced
  PROVE  /\ producer_cursor \in Nat /\ consumer_cursor \in Nat /\ consumer_cursor <= producer_cursor
         /\ item \in Nat /\ popped \in Seq(Nat) /\ Len(popped) \in Nat /\ DOMAIN popped = 1..Len(popped)
         /\ \A c \in 1..producer_cursor : accepted[c] \in 1..item
         /\ \A b, c \in 1..producer_cursor : b < c => accepted[b] < accepted[c]
         /\ \A i \in 1..Len(popped) : popped[i] \in 1..item
         /\ \A i, j \in 1..Len(popped) : i < j => popped[i] < popped[j]
         /\ \A i \in 1..Len(popped) : \A c \in consumer_cursor + 1..producer_cursor : popped[i] < accepted[c]
<1>1. /\ producer_cursor \in Nat /\ consumer_cursor \in Nat /\ consumer_cursor <= producer_cursor
      /\ item \in Nat /\ Len(accepted) = producer_cursor
      /\ \A i \in 1..producer_cursor : accepted[i] \in Nat /\ 1 <= accepted[i]
  BY CursorFacts DEF AccountInv
<1>2. popped \in Seq(Nat) /\ Len(popped) \in Nat /\ DOMAIN popped = 1..Len(popped)
  BY DEF AccountInv, Books, Accounts
<1>3. /\ \A c \in 1..producer_cursor : accepted[c] \in 1..item
      /\ \A b, c \in 1..producer_cursor : b < c => accepted[b] < accepted[c]
  BY <1>1 DEF AccountInv, Books, AcceptedInOrder
<1>4. \A i, j \in 1..Len(popped) : i < j => popped[i] < popped[j]
  BY DEF AccountInv, Books, PoppedInOrder
<1>5. ASSUME NEW i \in 1..Len(popped)
      PROVE  popped[i] \in 1..item /\ \A c \in consumer_cursor + 1..producer_cursor : popped[i] < accepted[c]
  <2>1. PICK b \in 1..consumer_cursor : popped[i] = accepted[b]
    BY DEF AccountInv, Books, PoppedInOrder
  <2>2. b \in 1..producer_cursor /\ \A c \in consumer_cursor + 1..producer_cursor : c \in 1..producer_cursor /\ b < c
    BY <1>1
  <2> QED BY <1>3, <2>1, <2>2
<1> QED BY <1>1, <1>2, <1>3, <1>4, <1>5

\* The metrics count the lost items.
LEMMA LostCount ==
  ASSUME AccountInv, ~raced, ppc = "idle"
  PROVE  IsFiniteSet(LostItems) /\ Cardinality(LostItems) = total_dropped + total_evicted
<1> DEFINE P == Len(popped)
           r == producer_cursor - consumer_cursor
           kept == [i \in 1..P + r |-> IF i <= P THEN popped[i] ELSE accepted[consumer_cursor + (i - P)]]
<1>1. /\ producer_cursor \in Nat /\ consumer_cursor \in Nat /\ consumer_cursor <= producer_cursor
      /\ item \in Nat /\ P \in Nat /\ r \in Nat /\ P + r \in Nat
  BY AccountFacts
<1>2. /\ total_dropped \in Nat /\ total_evicted \in Nat
      /\ item = producer_cursor + total_dropped /\ consumer_cursor = P + total_evicted
  BY <1>1 DEF AccountInv, Books, Accounts
<1>3. \A i \in 1..P + r : /\ i <= P => i \in 1..P /\ kept[i] = popped[i]
                          /\ i > P => /\ consumer_cursor + (i - P) \in consumer_cursor + 1..producer_cursor
                                      /\ kept[i] = accepted[consumer_cursor + (i - P)]
  BY <1>1
<1>4. \A c \in consumer_cursor + 1..producer_cursor :
        c - consumer_cursor + P \in 1..P + r /\ kept[c - consumer_cursor + P] = accepted[c]
  <2> SUFFICES ASSUME NEW c \in consumer_cursor + 1..producer_cursor
               PROVE  c - consumer_cursor + P \in 1..P + r /\ kept[c - consumer_cursor + P] = accepted[c]
    OBVIOUS
  <2>1. /\ c - consumer_cursor + P \in 1..P + r /\ c - consumer_cursor + P > P
        /\ consumer_cursor + ((c - consumer_cursor + P) - P) = c
    BY <1>1
  <2> QED BY <1>3, <2>1
<1>5. \A i \in 1..P : i \in 1..P + r /\ kept[i] = popped[i]
  BY <1>1
<1>6. DOMAIN kept = 1..P + r
  OBVIOUS
<1> HIDE DEF kept
<1>7. KeptItems = {kept[i] : i \in 1..P + r}
  <2>1. \A x \in KeptItems : x \in {kept[i] : i \in 1..P + r}
    BY <1>4, <1>5 DEF KeptItems
  <2>2. \A i \in 1..P + r : kept[i] \in KeptItems
    <3> SUFFICES ASSUME NEW i \in 1..P + r PROVE kept[i] \in KeptItems
      OBVIOUS
    <3>1. i <= P \/ i > P
      BY <1>1
    <3> QED BY <1>3, <3>1 DEF KeptItems
  <2> QED BY <2>1, <2>2
<1>8. \A i, j \in 1..P + r : i < j => kept[i] < kept[j]
  <2> SUFFICES ASSUME NEW i \in 1..P + r, NEW j \in 1..P + r, i < j PROVE kept[i] < kept[j]
    OBVIOUS
  <2>1. CASE j <= P
    <3>1. i \in 1..P /\ j \in 1..P
      BY <1>1, <2>1
    <3> QED BY <1>5, <3>1, AccountFacts
  <2>2. CASE i <= P /\ j > P
    BY <1>3, <2>2, AccountFacts
  <2>3. CASE i > P
    <3>1. /\ consumer_cursor + (i - P) \in 1..producer_cursor /\ consumer_cursor + (j - P) \in 1..producer_cursor
          /\ consumer_cursor + (i - P) < consumer_cursor + (j - P) /\ j > P
      BY <1>1, <2>3
    <3> QED BY <1>3, <2>3, <3>1, AccountFacts
  <2> QED BY <1>1, <2>1, <2>2, <2>3
<1>9. KeptItems \subseteq 1..item
  <2>1. consumer_cursor + 1..producer_cursor \subseteq 1..producer_cursor
    BY <1>1
  <2> QED BY <2>1, AccountFacts DEF KeptItems
<1>10. Cardinality(KeptItems) = P + r
  <2>1. kept \in [1..P + r -> KeptItems]
    <3>1. \A i \in 1..P + r : kept[i] \in KeptItems
      BY <1>7
    <3> QED BY <3>1, Zenon DEF kept
  <2>2. \A i, j \in 1..P + r : kept[i] = kept[j] => i = j
    <3> SUFFICES ASSUME NEW i \in 1..P + r, NEW j \in 1..P + r, kept[i] = kept[j], i # j PROVE FALSE
      OBVIOUS
    <3>1. kept[i] \in 1..item /\ kept[j] \in 1..item
      BY <1>7, <1>9
    <3>2. (i < j \/ j < i) /\ kept[i] \in Int /\ kept[j] \in Int
      BY <1>1, <3>1
    <3> QED BY <1>8, <3>2
  <2>3. kept \in Bijection(1..P + r, KeptItems)
    BY <1>6, <1>7, <2>1, <2>2 DEF Bijection, Injection, Surjection, IsInjective
  <2>4. ExistsBijection(1..P + r, KeptItems)
    BY <2>3 DEF ExistsBijection
  <2> QED BY <1>1, <2>4, FS_CountingElements
<1>11. IsFiniteSet(1..item) /\ Cardinality(1..item) = item
  <2>1. 1 \in Int /\ item \in Int
    BY <1>1
  <2>2. IsFiniteSet(1..item) /\ Cardinality(1..item) = IF 1 > item THEN 0 ELSE item - 1 + 1
    BY <2>1, FS_Interval
  <2> QED BY <1>1, <2>2
<1>12. /\ IsFiniteSet(LostItems)
       /\ Cardinality(LostItems) = Cardinality(1..item) - Cardinality((1..item) \cap KeptItems)
  BY <1>11, FS_Difference DEF LostItems
<1>13. (1..item) \cap KeptItems = KeptItems
  BY <1>9
<1>14. Cardinality(LostItems) = item - (P + r)
  BY <1>10, <1>11, <1>12, <1>13
<1> HIDE DEF P
<1> QED BY <1>1, <1>2, <1>12, <1>14

\* What is missing, as pairs of a venue and a number.
MissingPairs == UNION {{v} \X Missing(v) : v \in Venues}

\* The number of an event tells which it is; no number of a venue is without its event.
LEMMA EventFacts ==
  ASSUME SimulatorInv, ~raced
  PROVE  /\ Len(events) \in Nat /\ item \in Nat /\ item <= Len(events)
         /\ \A i \in 1..Len(events) :
              /\ events[i].venue \in Venues /\ events[i].sequence \in Nat
              /\ events[i].sequence \in 1..sequences[events[i].venue] /\ sequences[events[i].venue] \in Nat
              /\ events[i].bid \in Int /\ events[i].ask \in Int
         /\ \A v \in Venues : sequences[v] \in Nat
         /\ \A i, j \in 1..Len(events) : events[i].venue = events[j].venue /\ events[i].sequence <= events[j].sequence => i <= j
         /\ \A i, j \in 1..Len(events) : i < j /\ events[i].venue = events[j].venue => events[i].sequence < events[j].sequence
         /\ \A v \in Venues : \A n \in 1..sequences[v] : \E i \in 1..Len(events) : events[i].venue = v /\ events[i].sequence = n
         /\ \A i \in 1..Len(popped) : popped[i] \in 1..item /\ popped[i] \in 1..Len(events)
         /\ \A i \in 1..Len(events) : 0 < events[i].bid /\ events[i].bid <= events[i].ask
<1>1. /\ events \in Seq(Event) /\ sequences \in [Venues -> Nat]
      /\ Numbered(events, sequences) /\ Priced(events) /\ Len(events) \in Nat /\ item <= Len(events)
  BY DEF SimulatorInv, Sound, Now
<1>2. \A i \in 1..Len(events) : events[i] \in Event
  BY <1>1, ElementOfSeq
<1>3. \A i \in 1..Len(events) : /\ events[i].venue \in Venues /\ events[i].sequence \in Nat
                                /\ events[i].bid \in Int /\ events[i].ask \in Int
  BY <1>2 DEF Event
<1>4. \A i, j \in 1..Len(events) : i < j /\ events[i].venue = events[j].venue => events[i].sequence < events[j].sequence
  BY <1>1 DEF Numbered
<1>5. \A i, j \in 1..Len(events) : events[i].venue = events[j].venue /\ events[i].sequence <= events[j].sequence => i <= j
  <2> SUFFICES ASSUME NEW i \in 1..Len(events), NEW j \in 1..Len(events),
                      events[i].venue = events[j].venue, events[i].sequence <= events[j].sequence, ~(i <= j)
               PROVE  FALSE
    OBVIOUS
  <2>1. j < i
    BY <1>1
  <2>2. events[j].sequence < events[i].sequence
    BY <1>4, <2>1
  <2> QED BY <1>3, <2>2
<1>6. /\ \A i \in 1..Len(events) : events[i].sequence \in 1..sequences[events[i].venue]
      /\ \A v \in Venues : \A n \in 1..sequences[v] : \E i \in 1..Len(events) : events[i].venue = v /\ events[i].sequence = n
  BY <1>1 DEF Numbered
<1>7. item \in Nat /\ \A i \in 1..Len(popped) : popped[i] \in 1..item
  BY AccountFacts DEF SimulatorInv
<1>8. \A i \in 1..Len(popped) : popped[i] \in 1..Len(events)
  BY <1>1, <1>7
<1>9. \A i \in 1..Len(events) : 0 < events[i].bid /\ events[i].bid <= events[i].ask
  BY <1>1 DEF Priced
<1> QED BY <1>1, <1>3, <1>4, <1>5, <1>6, <1>7, <1>8, <1>9

\* The event of a missing number is lost: what waits in the ring is newer than all that was
\* returned.
LEMMA MissingIsLost ==
  ASSUME SimulatorInv, ~raced, NEW v \in Venues, NEW n \in Missing(v)
  PROVE  \E i \in LostItems : events[i].venue = v /\ events[i].sequence = n
<1> DEFINE got == {events[popped[i]].sequence : i \in {j \in DOMAIN popped : events[popped[j]].venue = v}}
<1>1. n \in 1..sequences[v] /\ n \notin got /\ \E m \in got : m > n
  BY DEF Missing
<1>2. PICK m \in got : m > n
  BY <1>1
<1>3. PICK i \in DOMAIN popped : events[popped[i]].venue = v /\ events[popped[i]].sequence = m
  BY <1>2
<1>4. i \in 1..Len(popped) /\ DOMAIN popped = 1..Len(popped)
  BY <1>3, AccountFacts DEF SimulatorInv
<1>5. PICK j \in 1..Len(events) : events[j].venue = v /\ events[j].sequence = n
  BY <1>1, EventFacts
<1>6. popped[i] \in 1..item /\ popped[i] \in 1..Len(events) /\ Len(events) \in Nat /\ item \in Nat
  BY <1>4, EventFacts
<1>7. j < popped[i]
  <2>1. events[popped[i]].sequence \in Nat /\ events[j].sequence \in Nat
    BY <1>6, EventFacts
  <2>2. j <= popped[i]
    BY <1>2, <1>3, <1>5, <1>6, <2>1, EventFacts
  <2>3. j # popped[i]
    BY <1>2, <1>3, <1>5, <2>1
  <2> QED BY <1>6, <2>2, <2>3
<1>8. \A h \in 1..Len(popped) : popped[h] # j
  BY <1>1, <1>4, <1>5
<1>9. \A c \in consumer_cursor + 1..producer_cursor : accepted[c] # j
  <2> SUFFICES ASSUME NEW c \in consumer_cursor + 1..producer_cursor, accepted[c] = j PROVE FALSE
    OBVIOUS
  <2>1. popped[i] < accepted[c]
    BY <1>4, AccountFacts DEF SimulatorInv
  <2> QED BY <1>6, <1>7, <2>1
<1>10. j \in LostItems
  BY <1>6, <1>7, <1>8, <1>9 DEF LostItems, KeptItems
<1> QED BY <1>5, <1>10

\* Once the last event of every venue was returned, a lost event shows as a gap.
LEMMA LostIsMissing ==
  ASSUME SimulatorInv, ~raced, NEW i \in LostItems,
         \A v \in Venues : sequences[v] > 0 =>
           \E j \in DOMAIN popped : events[popped[j]].venue = v /\ events[popped[j]].sequence = sequences[v]
  PROVE  events[i].venue \in Venues /\ events[i].sequence \in Missing(events[i].venue)
<1> DEFINE v == events[i].venue
           n == events[i].sequence
           got == {events[popped[h]].sequence : h \in {j \in DOMAIN popped : events[popped[j]].venue = v}}
<1>1. i \in 1..item /\ i \notin KeptItems
  BY DEF LostItems
<1>2. i \in 1..Len(events)
  BY <1>1, EventFacts
<1>3. v \in Venues /\ n \in 1..sequences[v] /\ sequences[v] \in Nat
  BY <1>2, EventFacts
<1>4. DOMAIN popped = 1..Len(popped)
  BY AccountFacts DEF SimulatorInv
<1>5. n \notin got
  <2> SUFFICES ASSUME NEW j \in DOMAIN popped, events[popped[j]].venue = v, events[popped[j]].sequence = n
               PROVE  FALSE
    OBVIOUS
  <2>1. popped[j] \in 1..Len(events)
    BY <1>4, EventFacts
  <2>2. popped[j] <= i /\ i <= popped[j]
    BY <1>2, <1>3, <2>1, EventFacts
  <2>3. popped[j] = i
    BY <1>2, <2>1, <2>2
  <2> QED BY <1>1, <1>4, <2>3 DEF KeptItems
<1>6. PICK j \in DOMAIN popped : events[popped[j]].venue = v /\ events[popped[j]].sequence = sequences[v]
  <2>1. sequences[v] > 0
    BY <1>3
  <2> QED BY <1>3, <2>1
<1>7. sequences[v] \in got
  BY <1>6
<1>8. sequences[v] > n
  <2>1. sequences[v] # n
    BY <1>5, <1>7
  <2> HIDE DEF got, v, n
  <2> QED BY <1>3, <2>1
<1>9. n \in Missing(v)
  BY <1>3, <1>5, <1>7, <1>8 DEF Missing
<1> QED BY <1>3, <1>9

\* So the missing numbers are no more than the lost items, and as many if each of these
\* shows.
LEMMA MissingCount ==
  ASSUME SimulatorInv, ~raced, ppc = "idle"
  PROVE  /\ IsFiniteSet(MissingPairs) /\ Cardinality(MissingPairs) <= Cardinality(LostItems)
         /\ (\A i \in LostItems : events[i].venue \in Venues /\ events[i].sequence \in Missing(events[i].venue))
              => Cardinality(MissingPairs) = Cardinality(LostItems)
<1> DEFINE h == [x \in MissingPairs |-> CHOOSE i \in LostItems : events[i].venue = x[1] /\ events[i].sequence = x[2]]
<1>1. \A x \in MissingPairs : x[1] \in Venues /\ x[2] \in Missing(x[1]) /\ x = <<x[1], x[2]>>
  BY DEF MissingPairs
<1>2. \A x \in MissingPairs : h[x] \in LostItems /\ events[h[x]].venue = x[1] /\ events[h[x]].sequence = x[2]
  <2> SUFFICES ASSUME NEW x \in MissingPairs
               PROVE  h[x] \in LostItems /\ events[h[x]].venue = x[1] /\ events[h[x]].sequence = x[2]
    OBVIOUS
  <2>1. \E i \in LostItems : events[i].venue = x[1] /\ events[i].sequence = x[2]
    BY <1>1, MissingIsLost
  <2> QED BY <2>1
<1>3. h \in [MissingPairs -> LostItems] /\ DOMAIN h = MissingPairs
  <2>1. DOMAIN h = MissingPairs /\ h = [x \in MissingPairs |-> h[x]]
    OBVIOUS
  <2> HIDE DEF h
  <2> QED BY <1>2, <2>1
<1> HIDE DEF h
<1>4. h \in Injection(MissingPairs, LostItems)
  <2>1. \A x, y \in MissingPairs : h[x] = h[y] => x = y
    BY <1>1, <1>2
  <2> QED BY <1>3, <2>1 DEF Injection, IsInjective
<1>5. IsFiniteSet(LostItems)
  BY LostCount DEF SimulatorInv
<1>6. /\ IsFiniteSet(MissingPairs) /\ Cardinality(MissingPairs) <= Cardinality(LostItems)
      /\ Cardinality(MissingPairs) = Cardinality(LostItems) <=> h \in Surjection(MissingPairs, LostItems)
  BY <1>4, <1>5, FS_Injection
<1>7. ASSUME \A i \in LostItems : events[i].venue \in Venues /\ events[i].sequence \in Missing(events[i].venue)
      PROVE  h \in Surjection(MissingPairs, LostItems)
  <2> SUFFICES ASSUME NEW i \in LostItems PROVE \E x \in MissingPairs : h[x] = i
    BY <1>3 DEF Surjection
  <2> DEFINE x == <<events[i].venue, events[i].sequence>>
  <2>1. x \in MissingPairs /\ x[1] = events[i].venue /\ x[2] = events[i].sequence
    BY <1>7 DEF MissingPairs
  <2>2. h[x] \in LostItems /\ events[h[x]].venue = events[i].venue /\ events[h[x]].sequence = events[i].sequence
    BY <1>2, <2>1
  <2> HIDE DEF x
  <2>3. i \in 1..Len(events) /\ h[x] \in 1..Len(events)
    BY <2>2, EventFacts DEF LostItems
  <2>4. events[i].sequence \in Nat
    BY <2>3, EventFacts
  <2>5. i <= h[x] /\ h[x] <= i
    BY <2>2, <2>3, <2>4, EventFacts
  <2>6. h[x] = i
    BY <2>3, <2>5
  <2> QED BY <2>1, <2>6
<1> QED BY <1>6, <1>7

\* The simulator's steps keep all this: a burst only adds events, and a push takes the next.
LEMMA SimulatorStep ==
  ASSUME SimulatorInv, [SimulatorNext]_<<vars, simulatorVars>>
  PROVE  SimulatorInv'
<1>1. AccountInv /\ Sound(Now) /\ item <= Len(events) /\ item \in Nat /\ Len(events) \in Nat
  BY QueueAssumption DEF SimulatorInv, AccountInv, IndInv, Types, TypeOK, Sound, Now
<1>2. AccountInv'
  BY <1>1, NextAccounts DEF SimulatorNext, GenerateBurst, Next
<1>3. CASE GenerateBurst
  <2>1. PICK burst \in [1..Count -> Draws] :
          LET end == Filled(Now, burst)
          IN  prices' = end.prices /\ sequences' = end.sequences /\ trade_id_counter' = end.trade_id /\ events' = end.events
    BY <1>3 DEF GenerateBurst, Now
  <2>2. Sound(Filled(Now, burst)) /\ Len(events) <= Len(Filled(Now, burst).events)
    BY <1>1, FilledSound DEF Now
  <2>3. Sound(Now')
    BY <2>1, <2>2 DEF Sound, Now
  <2>4. item' = item /\ Len(events') \in Nat /\ Len(events) <= Len(events')
    BY <1>3, <2>1, <2>2 DEF GenerateBurst, vars, producerVars, Sound
  <2> QED BY <1>1, <1>2, <2>3, <2>4 DEF SimulatorInv
<1>4. CASE (item < Len(events) \/ ppc # "idle") /\ Push /\ UNCHANGED <<policy, simulatorVars>>
  <2>1. item' = item \/ (item' = item + 1 /\ ppc = "idle")
    BY <1>4 DEF Push, PushBegin, Evict, PushWrite, PushPublish, PushRefresh
  <2>2. item' <= Len(events)
    BY <1>1, <1>4, <2>1
  <2> QED BY <1>1, <1>2, <1>4, <2>2 DEF SimulatorInv, simulatorVars, Now
<1>5. CASE Pop /\ UNCHANGED <<policy, simulatorVars>>
  <2>1. item' = item
    BY <1>5 DEF Pop, PopBegin, PopRead, PopRelease, PopRefresh, producerVars
  <2> QED BY <1>1, <1>2, <1>5, <2>1 DEF SimulatorInv, simulatorVars, Now
<1>6. CASE UNCHANGED <<vars, simulatorVars>>
  BY <1>1, <1>2, <1>6 DEF SimulatorInv, simulatorVars, Now, vars, producerVars
<1> QED BY <1>3, <1>4, <1>5, <1>6 DEF SimulatorNext

\* A consumer behind push_with_policy that watches each venue's numbers sees what it lost,
\* for every capacity, policy and number of events, until an eviction falls into a try_pop:
\* never more gaps than the metrics count, and exactly as many once it has the last event
\* of each venue.
THEOREM GapsAreLosses == SimulatorSpec => []LossesShow
<1>1. SimulatorInit => SimulatorInv
  <2> SUFFICES ASSUME SimulatorInit PROVE SimulatorInv
    OBVIOUS
  <2>1. AccountInv /\ item = 0 /\ events = <<>>
    BY InitAccounts DEF SimulatorInit, Init
  <2>2. prices \in [1..3 -> Int] /\ sequences = [v \in Venues |-> 0] /\ trade_id_counter = 0
    <3>1. BasePrice \in [1..3 -> Nat]
      BY SimulatorAssumption
    <3> QED BY <3>1 DEF SimulatorInit
  <2>3. Sound(Now)
    BY <2>1, <2>2 DEF Sound, Now, Numbered, Priced
  <2> QED BY <2>1, <2>3 DEF SimulatorInv
<1>2. ASSUME SimulatorInv PROVE LossesShow
  <2> SUFFICES ASSUME ppc = "idle", cpc = "idle", ~raced
               PROVE  LET missing == Cardinality(MissingPairs)
                          lost == total_dropped + total_evicted
                          got == {events[popped[i]] : i \in DOMAIN popped}
                          latest == \A v \in Venues : sequences[v] > 0 => \E e \in got : e.venue = v /\ e.sequence = sequences[v]
                      IN  /\ \A i, j \in DOMAIN popped :
                               i < j /\ events[popped[i]].venue = events[popped[j]].venue =>
                                 events[popped[i]].sequence < events[popped[j]].sequence
                          /\ missing <= lost
                          /\ latest /\ item = Len(events) /\ consumer_cursor = producer_cursor => missing = lost
                          /\ \A e \in got : 0 < e.bid /\ e.bid <= e.ask
    BY DEF LossesShow, MissingPairs
  <2>1. /\ DOMAIN popped = 1..Len(popped)
        /\ \A i, j \in 1..Len(popped) : i < j => popped[i] < popped[j]
    BY <1>2, AccountFacts DEF SimulatorInv
  <2>2. Cardinality(LostItems) = total_dropped + total_evicted
    BY <1>2, LostCount DEF SimulatorInv
  <2>3. \A i, j \in DOMAIN popped :
          i < j /\ events[popped[i]].venue = events[popped[j]].venue =>
            events[popped[i]].sequence < events[popped[j]].sequence
    BY <1>2, <2>1, EventFacts
  <2>4. \A e \in {events[popped[i]] : i \in DOMAIN popped} : 0 < e.bid /\ e.bid <= e.ask
    BY <1>2, <2>1, EventFacts
  <2>5. Cardinality(MissingPairs) <= total_dropped + total_evicted
    BY <1>2, <2>2, MissingCount
  <2>6. ASSUME \A v \in Venues : sequences[v] > 0 =>
                 \E e \in {events[popped[i]] : i \in DOMAIN popped} : e.venue = v /\ e.sequence = sequences[v]
        PROVE  Cardinality(MissingPairs) = total_dropped + total_evicted
    <3>1. \A v \in Venues : sequences[v] > 0 =>
            \E j \in DOMAIN popped : events[popped[j]].venue = v /\ events[popped[j]].sequence = sequences[v]
      BY <2>6
    <3>2. \A i \in LostItems : events[i].venue \in Venues /\ events[i].sequence \in Missing(events[i].venue)
      BY <1>2, <3>1, LostIsMissing
    <3> QED BY <1>2, <2>2, <3>2, MissingCount
  <2> QED BY <2>3, <2>4, <2>5, <2>6
<1> QED BY <1>1, <1>2, SimulatorStep, PTL DEF SimulatorSpec

=============================================================================
