---------------------------- MODULE BypassBridge ----------------------------
(***************************************************************************)
(* KernelBypassBridge<N> and its DmaBufferPool<N>                          *)
(* (crates/core-engine/src/kernel_bypass.rs): N packet buffers move        *)
(* between a free stack, the RX ring's posted window [0, tail) and back;   *)
(* the packets received and not yet polled are the window [0, head).       *)
(* A buffer's content is the packet last copied into it.                   *)
(***************************************************************************)
EXTENDS Naturals, Sequences, SequencesExt, FiniteSetsExt

CONSTANTS N,             \* buffers, and slots of the ring
          MaxPackets     \* bound: packets injected

ASSUME BridgeAssumption == N \in Nat \ {0} /\ MaxPackets \in Nat

VARIABLES free,          \* available_indices[..free_count], as a stack
          rx_ring_head, rx_ring_tail,
          posted,        \* posted_descriptors
          storage,       \* per buffer: the packet in it, 0 for none
          arrived,       \* history: packets so far (they are numbered)
          accepted,      \* history: the packets not dropped
          delivered,     \* history: packets handed to the packet_handler
          abandoned      \* history: buffers posted and empty when a poll reset the window

vars == <<free, rx_ring_head, rx_ring_tail, posted, storage, arrived, accepted, delivered, abandoned>>

Buffers == 0..N-1

-----------------------------------------------------------------------------
\* refill_rx_ring: buffers are popped off the stack while the window is below N.
RefillCount(head, tail, stack) == Min({(head + N) - tail, Len(stack)})

Refill(head, tail, ring, stack) ==
  LET k == RefillCount(head, tail, stack)
  IN  /\ rx_ring_head' = head
      /\ rx_ring_tail' = tail + k
      /\ posted' = [i \in Buffers |->
                      IF \E d \in 0..k-1 : i = (tail + d) % N
                        THEN stack[Len(stack) - CHOOSE d \in 0..k-1 : i = (tail + d) % N]
                        ELSE ring[i]]
      /\ free' = SubSeq(stack, 1, Len(stack) - k)

\* new(): all buffers free, then the first refill posts them all.
Init ==
  /\ free = << >> /\ rx_ring_head = 0 /\ rx_ring_tail = N
  /\ posted = [i \in Buffers |-> N - 1 - i]
  /\ storage = [b \in Buffers |-> 0]
  /\ arrived = 0 /\ accepted = << >> /\ delivered = << >> /\ abandoned = {}

Arrives == arrived < MaxPackets /\ arrived' = arrived + 1

\* inject_packet: the packet is copied into the next posted buffer.
InjectPacket ==
  /\ rx_ring_head < rx_ring_tail /\ Arrives
  /\ storage' = [storage EXCEPT ![posted[rx_ring_head % N]] = arrived + 1]
  /\ rx_ring_head' = rx_ring_head + 1
  /\ accepted' = Append(accepted, arrived + 1)
  /\ UNCHANGED <<free, rx_ring_tail, posted, delivered, abandoned>>

\* inject_packet: "RX ring exhausted - packet dropped at PHY layer".
InjectDropped ==
  /\ rx_ring_head >= rx_ring_tail /\ Arrives
  /\ UNCHANGED <<free, rx_ring_head, rx_ring_tail, posted, storage, accepted, delivered, abandoned>>

\* Mutant: the burst is taken from the newest end of the window.
Polled_NewestFirst(n) == [i \in 1..n |-> posted[(rx_ring_head - i) % N]]

\* The buffers of the first n packets of the window.
Polled(n) == [i \in 1..n |-> posted[(i - 1) % N]]

\* release_descriptor for each of them; a stack of N takes no more.
Release(n) == LET all == free \o Polled(n) IN SubSeq(all, 1, Min({Len(all), N}))

\* Mutant: the window is not moved down over the packets just polled.
Shifted_InPlace(n) == posted

\* The unconsumed part of the window moves to the front.
Shifted(n) ==
  [i \in Buffers |-> IF i < rx_ring_head - n THEN posted[n + i] ELSE posted[i]]

\* poll_rx_burst(max): deliver up to max packets in order, give their buffers back, move
\* the rest of the window down, start the posted window right behind it and refill.  The
\* buffers that were posted and still empty are neither kept in the ring nor given back.
PollRxBurst(max) ==
  LET n == Min({max, rx_ring_head})
      rest == rx_ring_head - n
  IN  /\ n > 0
      /\ delivered' = delivered \o [i \in 1..n |-> storage[Polled(n)[i]]]
      /\ abandoned' = abandoned \cup {posted[i] : i \in rx_ring_head..rx_ring_tail - 1}
      /\ Refill(rest, rest, Shifted(n), Release(n))
      /\ UNCHANGED <<storage, arrived, accepted>>

\* Public on its own: called when the window has room.
RefillRxRing ==
  /\ Refill(rx_ring_head, rx_ring_tail, posted, free)
  /\ UNCHANGED <<storage, arrived, accepted, delivered, abandoned>>

Next == InjectPacket \/ InjectDropped \/ RefillRxRing \/ \E max \in 1..N : PollRxBurst(max)

Spec == Init /\ [][Next]_vars

-----------------------------------------------------------------------------
(* Properties                                                              *)

\* The types of the state; the window of posted buffers never outgrows the ring.
TypeOK ==
  /\ free \in Seq(Buffers) /\ rx_ring_tail \in 0..N /\ rx_ring_head \in 0..rx_ring_tail
  /\ posted \in [Buffers -> Buffers] /\ storage \in [Buffers -> 0..MaxPackets]
  /\ arrived \in 0..MaxPackets /\ abandoned \subseteq Buffers

\* A buffer is in one place: posted once or free once, never both.
NoBufferShared ==
  /\ \A i, j \in 0..rx_ring_tail - 1 : posted[i] = posted[j] => i = j
  /\ IsInjective(free)
  /\ \A i \in 0..rx_ring_tail - 1 : ~Contains(free, posted[i])

\* A buffer is out of use exactly when poll_rx_burst found it posted and empty.
LossAccounted ==
  \A b \in Buffers : b \in abandoned <=> ~Contains(free, b) /\ \A i \in 0..rx_ring_tail - 1 : posted[i] # b

\* Every packet accepted reaches the handler once, in order and with its own content:
\* refilling and shifting the ring never touches a packet that waits to be polled.
PacketsIntact ==
  accepted = delivered \o [i \in 1..rx_ring_head |-> storage[posted[i - 1]]]

\* kernel_bypass.rs: polling replenishes the ring "to avoid packet drops"; a packet is
\* dropped only when N packets wait (test_rx_ring_saturation_handling).
DropsOnlyWhenSaturated == rx_ring_head >= rx_ring_tail => rx_ring_head = N
=============================================================================
