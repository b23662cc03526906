--------------------------- MODULE SpscRingProofs ---------------------------
(***************************************************************************)
(* Proofs about SpscRing, for every capacity N, every set of items and     *)
(* every number of pushes: the state is well typed, no slot is ever shared,*)
(* and the ring implements the bounded FIFO queue of BoundedQueue.         *)
(***************************************************************************)
EXTENDS SpscRing, TLAPS

-----------------------------------------------------------------------------
(* Slots: the window of N consecutive cursors maps one-to-one to the slots *)

\* A cursor's slot is an index of the buffer.
LEMMA SlotInRange ==
  ASSUME NEW i \in Nat
  PROVE  Slot(i) \in 0..N-1
BY NAssumption, SMT DEF Slot

\* Two different cursors less than N apart never share a slot.
LEMMA SlotInjective ==
  ASSUME NEW i \in Nat, NEW j \in Nat, i < j, j < i + N
  PROVE  Slot(i) # Slot(j)
<1> DEFINE qi == i \div N
           qj == j \div N
<1>0. N \in Nat /\ N > 0
  BY NAssumption
<1>1. /\ qi \in Nat /\ qj \in Nat
      /\ i = N * qi + (i % N) /\ j = N * qj + (j % N)
  BY <1>0, SMT
<1>2. SUFFICES ASSUME i % N = j % N PROVE FALSE
  BY DEF Slot
<1>3. i % N \in Nat /\ j % N \in Nat
  BY <1>0, SMT
<1> HIDE DEF qi, qj
<1>4. CASE qj <= qi
  <2>1. N * qj <= N * qi
    BY <1>0, <1>1, <1>4, SMT
  <2> QED BY <2>1, <1>0, <1>1, <1>2, <1>3, SMT
<1>5. CASE qj >= qi + 1
  <2>1. N * qj >= N * (qi + 1) /\ N * (qi + 1) = N * qi + N
    BY <1>0, <1>1, <1>5, SMT
  <2> QED BY <2>1, <1>0, <1>1, <1>2, <1>3, SMT
<1> QED BY <1>1, <1>4, <1>5, SMT

-----------------------------------------------------------------------------
(* The inductive invariant                                                 *)

\* Cached cursors lag behind the real ones, and the real ones are at most N apart.
CursorInv ==
  /\ cached_consumer_cursor <= consumer_cursor
  /\ consumer_cursor <= producer_cursor
  /\ cached_producer_cursor <= producer_cursor
  /\ producer_cursor <= cached_consumer_cursor + N

\* Past its check a thread owns the slot at its cursor; the producer has not used up
\* the pushes it may begin.
OwnershipInv ==
  /\ ppc \in {"write", "publish"} => producer_cursor < cached_consumer_cursor + N
  /\ ppc # "idle" => producer_cursor < MaxPush
  /\ cpc \in {"read", "release"} => consumer_cursor < cached_producer_cursor

\* The slots between the cursors hold what was pushed and not yet popped; a slot
\* written and not yet published holds the item of the push under way.
ContentInv ==
  /\ Len(pushed) = producer_cursor
  /\ Len(popped) = consumer_cursor
  /\ \A i \in Nat : consumer_cursor <= i /\ i < producer_cursor
                      => buffer[Slot(i)] = pushed[i + 1]
  /\ ppc = "publish" => buffer[Slot(producer_cursor)] = item
  /\ cpc = "release" => out = pushed[consumer_cursor + 1]

IndInv == TypeOK /\ CursorInv /\ OwnershipInv /\ ContentInv

\* It holds of the ring new() returns.
LEMMA InitIndInv == Init => IndInv
<1> SUFFICES ASSUME Init PROVE IndInv
  OBVIOUS
<1> USE NAssumption, MaxPushAssumption, ItemsAssumption DEF Init
<1>1. TypeOK
  BY DEF TypeOK, Calls
<1>2. CursorInv /\ OwnershipInv
  BY DEF CursorInv, OwnershipInv
<1>3. ContentInv
  BY DEF ContentInv
<1> QED BY <1>1, <1>2, <1>3 DEF IndInv

\* Every step of either thread preserves it.
LEMMA NextIndInv == IndInv /\ [Next]_vars => IndInv'
<1> SUFFICES ASSUME IndInv, [Next]_vars PROVE IndInv'
  OBVIOUS
<1> USE NAssumption, MaxPushAssumption DEF IndInv
<1> USE DEF TypeOK, CursorInv, OwnershipInv, producerVars, consumerVars
<1>1. ASSUME NEW v \in Items, PushBegin(v) PROVE IndInv'
  BY <1>1 DEF PushBegin, Full, ContentInv
<1>2. ASSUME NEW tail \in cached_consumer_cursor..consumer_cursor, PushRefresh(tail)
      PROVE  IndInv'
  BY <1>2 DEF PushRefresh, Full, ContentInv
<1>3. CASE PushWrite
  <2>1. TypeOK' /\ CursorInv' /\ OwnershipInv'
    BY <1>3, SlotInRange DEF PushWrite
  <2>2. ASSUME NEW i \in Nat, consumer_cursor <= i, i < producer_cursor
        PROVE  buffer'[Slot(i)] = pushed[i + 1]
    <3>0. producer_cursor \in Nat /\ producer_cursor < i + N
      BY <1>3, <2>2 DEF PushWrite
    <3>1. Slot(i) # Slot(producer_cursor) /\ Slot(i) \in 0..N-1
      BY <2>2, <3>0, SlotInjective, SlotInRange
    <3> QED BY <1>3, <2>2, <3>1 DEF PushWrite, ContentInv
  <2>3. buffer'[Slot(producer_cursor)] = item
    BY <1>3, SlotInRange DEF PushWrite
  <2> QED BY <1>3, <2>1, <2>2, <2>3 DEF PushWrite, ContentInv
<1>4. CASE PushPublish
  <2>1. TypeOK' /\ CursorInv' /\ OwnershipInv'
    BY <1>4 DEF PushPublish
  <2>2. /\ Len(pushed') = Len(pushed) + 1
        /\ \A i \in 1..Len(pushed) : pushed'[i] = pushed[i]
        /\ pushed'[Len(pushed) + 1] = item
    BY <1>4 DEF PushPublish
  <2>3. ASSUME NEW i \in Nat, consumer_cursor <= i, i < producer_cursor + 1
        PROVE  buffer[Slot(i)] = pushed'[i + 1]
    <3>1. CASE i = producer_cursor
      BY <1>4, <2>2, <3>1 DEF PushPublish, ContentInv
    <3>2. CASE i < producer_cursor
      BY <1>4, <2>2, <2>3, <3>2 DEF ContentInv
    <3> QED BY <2>3, <3>1, <3>2
  <2>4. ContentInv'
    BY <1>4, <2>2, <2>3 DEF PushPublish, ContentInv
  <2> QED BY <2>1, <2>4
<1>5. ASSUME NEW c \in Calls, PopBegin(c) PROVE IndInv'
  <2>1. expired' \in BOOLEAN
    BY <1>5 DEF PopBegin
  <2> QED BY <1>5, <2>1 DEF PopBegin, PopCheck, Empty, ContentInv
<1>6. CASE PopRetry
  BY <1>6 DEF PopRetry, PopCheck, Empty, ContentInv
<1>7. ASSUME NEW head \in cached_producer_cursor..producer_cursor, PopRefresh(head)
      PROVE  IndInv'
  BY <1>7 DEF PopRefresh, AfterNone, Empty, ContentInv
<1>8. CASE PopRead
  BY <1>8, SlotInRange DEF PopRead, ContentInv
<1>9. CASE PopRelease
  BY <1>9 DEF PopRelease, ContentInv
<1>10. CASE Expire
  BY <1>10 DEF Expire, ContentInv
<1>11. CASE UNCHANGED vars
  BY <1>11 DEF vars, ContentInv
<1> QED BY <1>1, <1>2, <1>3, <1>4, <1>5, <1>6, <1>7, <1>8, <1>9, <1>10, <1>11
        DEF Next, Push, Pop

-----------------------------------------------------------------------------
(* Theorems                                                                *)

\* The ring's inductive invariant holds in every reachable state.
THEOREM Invariance == Spec => []IndInv
BY InitIndInv, NextIndInv, PTL DEF Spec

\* The cursors, slots and program counters keep their types and bounds.
THEOREM TypeCorrect == Spec => []TypeOK
<1>1. IndInv => TypeOK
  BY DEF IndInv
<1> QED BY <1>1, Invariance, PTL

\* The plain (non-atomic) accesses of try_push and try_pop to a slot never overlap.
THEOREM RaceFreedom == Spec => []NoSlotRace
<1>1. ASSUME IndInv PROVE NoSlotRace
  <2> SUFFICES ASSUME ppc = "write", cpc = "read"
               PROVE  Slot(producer_cursor) # Slot(consumer_cursor)
    BY DEF NoSlotRace
  <2>1. /\ consumer_cursor \in Nat /\ producer_cursor \in Nat
        /\ consumer_cursor < producer_cursor
        /\ producer_cursor < consumer_cursor + N
    BY <1>1, NAssumption, MaxPushAssumption
    DEF IndInv, TypeOK, CursorInv, OwnershipInv
  <2> QED BY <2>1, SlotInjective
<1> QED BY <1>1, Invariance, PTL

\* Every step of the ring is a step of the bounded queue or leaves it unchanged: the
\* cursor stores of try_push and try_pop are the points where an item goes in or out.
THEOREM Refinement == Spec => ImplementsBoundedQueue
<1>1. Init => Queue!Init
  BY DEF Init, Queue!Init
<1>2. ASSUME IndInv, [Next]_vars
      PROVE  [Queue!Next]_<<pushed, popped>>
  <2> USE NAssumption, MaxPushAssumption DEF IndInv, TypeOK, producerVars, consumerVars
  <2>1. CASE PushPublish
    <3>1. item \in Items /\ Queue!Put(item)
      BY <1>2, <2>1 DEF PushPublish, Queue!Put, CursorInv, OwnershipInv, ContentInv
    <3> QED BY <3>1 DEF Queue!Next
  <2>2. CASE PopRelease
    <3>1. Queue!Get
      BY <1>2, <2>2 DEF PopRelease, Queue!Get, CursorInv, OwnershipInv, ContentInv
    <3> QED BY <3>1 DEF Queue!Next
  <2>3. CASE UNCHANGED <<pushed, popped>>
    BY <2>3
  <2>4. PushPublish \/ PopRelease \/ UNCHANGED <<pushed, popped>>
    BY <1>2 DEF Next, Push, Pop, PushBegin, PushRefresh, PushWrite, PopBegin, PopRetry,
                PopRefresh, PopRead, Expire, vars
  <2> QED BY <2>1, <2>2, <2>3, <2>4
<1> QED BY <1>1, <1>2, Invariance, PTL DEF Spec, ImplementsBoundedQueue, Queue!Spec
=============================================================================
