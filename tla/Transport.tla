----------------------------- MODULE Transport -----------------------------
(***************************************************************************)
(* The NetworkTransport implementations of crates/cefi-ingest/src/transport *)
(* and the factory that picks one: SolarflareEfViTransport wraps the bridge *)
(* of BypassBridge, IoUringTransport keeps completed datagrams in a pool of *)
(* fixed buffers, StandardSocketTransport hands datagrams straight on, and  *)
(* MockNetworkTransport is a queue.  Packets are numbered as they arrive;   *)
(* `delivered' is what poll_batch passed to its handler.                    *)
(*                                                                          *)
(* A transport belongs to one thread (&mut self), so every call is a step.  *)
(* TransportStats is left out.                                              *)
(***************************************************************************)
EXTENDS BypassBridge

CONSTANTS Entries,     \* buffers of the io_uring pool
          MaxKernel,   \* bound: datagrams the kernel queues for a socket
          MaxErrors    \* bound: socket errors other than WouldBlock

ASSUME TransportAssumption == {Entries, MaxKernel, MaxErrors} \subseteq Nat /\ Entries > 0

VARIABLES backend,     \* what the factory returned; "none" before, "failed" for Err
          has_socket,  \* IoUringTransport: bound to an address, not "" or "mock"
          kernel,      \* the socket's receive queue (external)
          free_buffer_indices, fixed_buffer_pool, cq_entries,   \* IoUringTransport
          queue, is_active,                                     \* MockNetworkTransport
          io_errors,   \* history: errors of the socket so far
          datagrams    \* history: the packets that came over a socket

uringVars == <<free_buffer_indices, fixed_buffer_pool, cq_entries>>
mockVars == <<queue, is_active>>
bridgeVars == <<free, rx_ring_head, rx_ring_tail, posted, storage, abandoned>>
transportVars == <<vars, backend, has_socket, kernel, uringVars, mockVars, io_errors, datagrams>>

Kinds == {"SolarflareEfVi", "IoUring", "StandardSocket", "Mock"}

\* bind(): all buffers free; the others start empty and active.
TransportInit ==
  /\ Init
  /\ backend = "none" /\ has_socket = FALSE /\ kernel = << >>
  /\ free_buffer_indices = [i \in 1..Entries |-> i - 1]
  /\ fixed_buffer_pool = [b \in 0..Entries-1 |-> 0] /\ cq_entries = << >>
  /\ queue = << >> /\ is_active = TRUE
  /\ io_errors = 0 /\ datagrams = {}

-----------------------------------------------------------------------------
(* TransportFactory                                                        *)

\* What the probes find out about the host, and CMP_HARDWARE_PROFILE (0 when not set).
Hosts == [virtualized : BOOLEAN, many_cores : BOOLEAN, hugetlb : BOOLEAN, fifo : BOOLEAN,
          quota : BOOLEAN, override : 0..3]

\* negotiate_profile: the override, or bare metal with all it needs, or a guest.
Tier(h) ==
  CASE h.override # 0                                                    -> h.override
    [] h.override = 0 /\ ~h.virtualized /\ h.many_cores /\ h.hugetlb /\ h.fifo -> 3
    [] OTHER -> IF h.virtualized \/ h.quota THEN 2 ELSE 1

\* create_optimal_transport without a preference: by tier, io_uring falling back to the socket.
Negotiated(tier, binds) ==
  IF tier = 3 THEN "SolarflareEfVi"
  ELSE IF tier = 2 /\ binds.uring THEN "IoUring"
  ELSE IF binds.socket THEN "StandardSocket" ELSE "failed"

\* create_explicit: no fallback.
Explicit(kind, binds) ==
  IF \/ kind = "IoUring" /\ ~binds.uring
     \/ kind = "StandardSocket" /\ ~binds.socket
    THEN "failed" ELSE kind

\* The socket of an io_uring transport binds trivially when there is none to bind.
Create(preferred, host, binds, bound) ==
  /\ backend = "none"
  /\ backend' = IF preferred = "none" THEN Negotiated(Tier(host), binds) ELSE Explicit(preferred, binds)
  /\ has_socket' = (bound /\ backend' \in {"IoUring", "StandardSocket"})
  /\ (~bound => binds.uring) /\ (backend' = "StandardSocket" => bound)
  /\ UNCHANGED <<vars, kernel, uringVars, mockVars, io_errors, datagrams>>

-----------------------------------------------------------------------------
(* Packets in                                                              *)

\* A datagram reaches the host; the kernel drops it when the receive queue is full.
Arrive ==
  /\ has_socket /\ Arrives
  /\ \/ /\ Len(kernel) < MaxKernel
        /\ kernel' = Append(kernel, arrived + 1) /\ datagrams' = datagrams \cup {arrived + 1}
        /\ accepted' = Append(accepted, arrived + 1)
     \/ /\ Len(kernel) = MaxKernel /\ UNCHANGED <<kernel, datagrams, accepted>>
  /\ UNCHANGED <<bridgeVars, delivered, backend, has_socket, uringVars, mockVars, io_errors>>

\* SolarflareEfViTransport::inject_packet
EfViInject ==
  /\ backend = "SolarflareEfVi" /\ (InjectPacket \/ InjectDropped)
  /\ UNCHANGED <<backend, has_socket, kernel, uringVars, mockVars, io_errors, datagrams>>

\* The completion of packet p in the buffer on top of the free stack.
Completed(st, p) ==
  [pool |-> [st.pool EXCEPT ![Last(st.free)] = p],
   cq   |-> Append(st.cq, Last(st.free)),
   free |-> Front(st.free)]

Uring == [pool |-> fixed_buffer_pool, cq |-> cq_entries, free |-> free_buffer_indices]

SetUring(st) ==
  /\ fixed_buffer_pool' = st.pool /\ cq_entries' = st.cq /\ free_buffer_indices' = st.free

\* IoUringTransport::inject_packet; with no buffer left the caller gets BufferOverflow.
UringInject ==
  /\ backend = "IoUring" /\ Arrives
  /\ \/ /\ free_buffer_indices # << >>
        /\ SetUring(Completed(Uring, arrived + 1))
        /\ accepted' = Append(accepted, arrived + 1)
     \/ /\ free_buffer_indices = << >> /\ UNCHANGED <<uringVars, accepted>>
  /\ UNCHANGED <<bridgeVars, delivered, backend, has_socket, kernel, mockVars, io_errors, datagrams>>

\* MockNetworkTransport::push_packet and set_active
MockPush ==
  /\ backend = "Mock" /\ Arrives
  /\ queue' = Append(queue, arrived + 1) /\ accepted' = Append(accepted, arrived + 1)
  /\ UNCHANGED <<bridgeVars, delivered, backend, has_socket, kernel, uringVars, is_active,
                 io_errors, datagrams>>

SetActive ==
  /\ backend = "Mock" /\ is_active' = ~is_active
  /\ UNCHANGED <<vars, backend, has_socket, kernel, uringVars, queue, io_errors,
                 datagrams>>

-----------------------------------------------------------------------------
(* poll_batch                                                              *)

EfViPoll(max) ==
  /\ backend = "SolarflareEfVi" /\ PollRxBurst(max)
  /\ UNCHANGED <<backend, has_socket, kernel, uringVars, mockVars, io_errors, datagrams>>

\* How many datagrams poll_socket_into_ring can read.
Readable(max) == Min({max, Len(kernel), Len(free_buffer_indices)})

\* The first k buffers off the free stack.
TopBuffers(k) == [i \in 1..k |-> free_buffer_indices[Len(free_buffer_indices) + 1 - i]]

\* poll_socket_into_ring: k datagrams from the socket, each completed in the buffer on top
\* of the free stack.
PollSocketIntoRing(k) ==
  LET taken == TopBuffers(k)
      Read(b) == kernel[CHOOSE i \in 1..k : taken[i] = b]
  IN  [pool |-> [b \in 0..Entries-1 |-> IF b \in ToSet(taken) THEN Read(b) ELSE fixed_buffer_pool[b]],
       cq   |-> cq_entries \o taken,
       free |-> SubSeq(free_buffer_indices, 1, Len(free_buffer_indices) - k)]

\* Mutant: the buffers of a batch are not given back.
Recycled_Leak(st, n) == st.free

\* The buffers of the n completions handed to the handler return to the stack.
Recycled(st, n) == st.free \o SubSeq(st.cq, 1, n)

\* IoUringTransport::poll_batch.  A socket error ends the reading early and is not reported.
UringPoll(max, k) ==
  LET st == PollSocketIntoRing(k)
      n  == Min({max, Len(st.cq)})
  IN  /\ backend = "IoUring" /\ k <= Readable(max)
      /\ io_errors' = IF k < Readable(max) THEN io_errors + 1 ELSE io_errors
      /\ io_errors' <= MaxErrors
      /\ kernel' = SubSeq(kernel, k + 1, Len(kernel))
      /\ delivered' = delivered \o [i \in 1..n |-> st.pool[st.cq[i]]]
      /\ SetUring([pool |-> st.pool, free |-> Recycled(st, n),
                   cq |-> SubSeq(st.cq, n + 1, Len(st.cq))])
      /\ UNCHANGED <<bridgeVars, arrived, accepted, backend, has_socket, mockVars, datagrams>>

\* StandardSocketTransport::poll_batch.  An interrupted read uses up a turn of the loop.
\* Another error after k datagrams, which the handler has seen, returns Err at once.
SocketPoll(max, k, failed) ==
  /\ backend = "StandardSocket"
  /\ failed => k < max /\ io_errors < MaxErrors
  /\ k <= Len(kernel) /\ (k > 0 \/ failed)
  /\ kernel' = SubSeq(kernel, k + 1, Len(kernel))
  /\ delivered' = delivered \o SubSeq(kernel, 1, k)
  /\ io_errors' = IF failed THEN io_errors + 1 ELSE io_errors
  /\ UNCHANGED <<bridgeVars, arrived, accepted, backend, has_socket, uringVars, mockVars, datagrams>>

\* MockNetworkTransport::poll_batch; inactive means NotConnected.
MockPoll(max) ==
  LET n == Min({max, Len(queue)})
  IN  /\ backend = "Mock" /\ is_active /\ n > 0
      /\ queue' = SubSeq(queue, n + 1, Len(queue))
      /\ delivered' = delivered \o SubSeq(queue, 1, n)
      /\ UNCHANGED <<bridgeVars, arrived, accepted, backend, has_socket, kernel, uringVars,
                     is_active, io_errors, datagrams>>

PollBatch == \E max \in 1..N :
  \/ EfViPoll(max) \/ MockPoll(max)
  \/ \E k \in 0..max : UringPoll(max, k) \/ \E failed \in BOOLEAN : SocketPoll(max, k, failed)

-----------------------------------------------------------------------------
Binds == [uring : BOOLEAN, socket : BOOLEAN]

TransportNext ==
  \/ backend = "none" /\ \E preferred \in Kinds \cup {"none"}, host \in Hosts, binds \in Binds, bound \in BOOLEAN :
        Create(preferred, host, binds, bound)
  \/ Arrive \/ EfViInject \/ UringInject \/ MockPush \/ SetActive
  \/ PollBatch

TransportSpec == TransportInit /\ [][TransportNext]_transportVars

(* Fairness: the ingest thread polls in a loop. *)
TransportFairSpec ==
  TransportSpec /\ WF_transportVars(PollBatch /\ delivered' # delivered)

-----------------------------------------------------------------------------
(* Properties                                                              *)

\* The types of the state.
TransportTypeOK ==
  /\ TypeOK
  /\ backend \in Kinds \cup {"none", "failed"} /\ {has_socket, is_active} \subseteq BOOLEAN
  /\ free_buffer_indices \in Seq(0..Entries-1) /\ cq_entries \in Seq(0..Entries-1)
  /\ fixed_buffer_pool \in [0..Entries-1 -> 0..MaxPackets]
  /\ Len(kernel) <= MaxKernel /\ io_errors \in 0..MaxErrors

\* Every fixed buffer of the io_uring pool is free or holds one completed packet, and none
\* is lost: batches cut short, partly full rings and socket errors leak nothing.  A DMA
\* buffer of the bypass bridge is posted once, or free once, or was posted and empty when
\* poll_rx_burst reset rx_ring_tail, which puts it out of use for good: the bridge loses
\* those, none that holds a packet and no other.
BuffersAccounted ==
  LET all == free_buffer_indices \o cq_entries
  IN  IsInjective(all) /\ Len(all) = Entries /\ NoBufferShared /\ LossAccounted

Waiting ==
  CASE backend = "SolarflareEfVi" -> [i \in 1..rx_ring_head |-> storage[posted[i - 1]]]
    [] backend = "IoUring"        -> [i \in 1..Len(cq_entries) |-> fixed_buffer_pool[cq_entries[i]]]
                                       \o kernel
    [] backend = "StandardSocket" -> kernel
    [] OTHER                      -> queue

\* Whatever the backend, the handler gets or will get exactly the accepted packets, each
\* unchanged, once, and in the order of its source, in which packets are numbered (injected
\* packets and datagrams of one transport may overtake each other).
EachSourceInOrder ==
  LET all == delivered \o Waiting
  IN  /\ ToSet(all) = ToSet(accepted)
      /\ \A i, j \in DOMAIN all :
           i < j /\ (all[i] \in datagrams <=> all[j] \in datagrams) => all[i] < all[j]

\* No packet waits for ever: what a transport accepted is handed on (a mock may be
\* deactivated first).
EveryPacketDelivered ==
  \A n \in 1..MaxPackets : (Len(accepted) >= n) ~> (Len(delivered) >= n \/ ~is_active)
=============================================================================
