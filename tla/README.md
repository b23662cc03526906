# Chain-Market-Price in TLA+

Chain-Market-Price is a market data engine in Rust: exchange and on-chain feeds come in,
are parsed and checked, update flat order books, and go out to local readers through shared
memory and to network clients through WebSockets. This directory holds TLA+ models of it:
the concurrent parts (lock-free queues, a lock-free rate limiter, a two-lock router, a
reconnecting feed, buffer pools, an event loop, a health server) step by step, and the
numeric parts (AMM pools, 256-bit arithmetic, parsers, encoders, the hardware probe) as
operators, driven by machines that feed them. TLC runs check them on small instances; TLAPS
proofs show, for every size, the safety of the concurrent parts (both queues, the bridge and
the transports, the router with the WebSocket engine, the token bucket, the live feed, the
wait strategies, the shared memory ring, the sequence tracker) and of the numeric ones that
do not rest on a fold (the book's best levels, integer roots, v2 ladders and swaps, the
scheduler's plan, the losses a consumer can tell from sequence numbers).

Paths below are relative to `crates/`. `PROJECT.json` maps every definition to the lines it
models, lists the hazards and says which property covers which.

To check: `tlc -config <run>.cfg <module>`; `tlapm` on each of the eight modules `...Proofs.tla`.

## 1. Inventory

| Component (source) | State | Operations | Talks to | What is hard | What makes it correct |
|---|---|---|---|---|---|
| SPSC ring, `core-engine/src/lib.rs` | two cursors, two cached cursors, slots in `UnsafeCell` | `try_push`, `try_pop`, `pop_blocking`, `pop_timeout` | every stage of the pipeline; wait strategies | two threads, plain memory, cursors seen late | no slot is shared; a bounded FIFO queue; nothing stays inside for ever |
| Order book, `core-engine/src/lib.rs` | levels per side, best index | `update_bid`, `update_ask`, BBO reads | fed by ingest and the AMM virtualizer, read by distribution | removal of the best level, window and anchor, prices that share a level | the BBO is that of the array, and of the feed where no price replaced another |
| AMM virtualizer, `amm-virtualizer/src` | pools; the book they write | spot prices, ladders, hooks and fees, `get_y`, `get_d`, 256-bit arithmetic | order book, on-chain ingest | rounding, ticks with both signs of net liquidity, levels of the previous ladder, convergence | the depth shown is the pool's; no swap costs the pool |
| On-chain ingest, `onchain-ingest/src` | none | pending swap simulation, Raydium accounts | AMM pools, parsers | speculative state | what is simulated is what the chain does |
| Exchange parsing, `cefi-ingest/src/lib.rs`, `core-engine/src/lib.rs` | none | one parser per venue, decimals, timestamps, field search | sequence tracker | missing, misplaced and quoted fields; scaling; leap years | a record says what the text said |
| SBE and JSON encoders, `distribution/src/sbe.rs`, `fast_json.rs` | the caller's buffer | encode and decode BBO and trade | WebSocket engine, clients | offsets, short buffers | what a client decodes is what was encoded |
| Isolated consumer queue, burst generator, `core-engine/src/simulator.rs` | a ring, counters; prices and sequence numbers | `push_with_policy`, `try_pop`, `generate_burst` | a slow consumer | saturation; a producer that moves the consumer's cursor | the policy keeps the right items, a loss can be told from the numbers |
| Kernel bypass bridge, `core-engine/src/kernel_bypass.rs` | free stack, RX ring | inject, burst poll, refill | ef_vi transport | buffers in two places at once | no buffer shared, packets intact; which buffers are lost |
| Transports, `cefi-ingest/src/transport` | buffer pool and completions; mock queue | factory, inject, `poll_batch` | bridge, kernel sockets | fallback, cut batches, errors in a batch | each packet accepted is delivered once and in order |
| Sequence tracker, `cefi-ingest/src/lib.rs` | last sequence, status | `on_snapshot`, `validate_sequence` | exchange depth stream | lost, repeated, late and merged deltas | no hole in the book, no false gap |
| Live feed, `live-feed/src` | baselines per product, backoff, deadline | messages, tick, connect, reconnect | exchange, network | losses, half-open links, resubscribes in flight, timeouts | trades once and in order; gaps noticed; the feed catches up |
| Router and sessions, `distribution/src/router.rs`, `session.rs`, `bitmap.rs` | clients and topics, a lock each | register, unregister, subscribe, unsubscribe, `update_filter`, both dispatches | WebSocket engine, token buckets | no operation holds both locks | the index is exact, subscribers are served unless their filter bars it |
| WebSocket engine, `distribution/src/websocket.rs` | none of its own | connect, disconnect, inbound frame, broadcast | router | answers sent after the locks are gone | what an answer says of the index when it leaves |
| Token bucket, `distribution/src/lib.rs` | one atomic word | `try_consume` | router's dispatch | compare-and-swap, late clocks, integer rounding, field widths | grants what the rate allows, no more and no less |
| Shared memory ring, `distribution/src/shm.rs` | slots, head sequence, memory backend | configuration, backend fallback, publish, `try_read` | reader processes | lapped readers, odd capacities | order, whole messages, losses reported |
| Scheduler, `core-engine/src/scheduler` | plan, stop flag, stages, idle counter | `compute_plan`, cooperative loop | hardware profile, stages | stages always busy, fractional quotas, counter wrap | plan fits the host; stop is obeyed; nobody starves |
| Wait strategies, `core-engine/src/sync/wait_strategy.rs` | spin counter, sleep, burst window | `idle`, `reset`, `park_timeout` | loops of the ring | time and traffic interleaved | bounded wake-up, bursts noticed, sleep when quiet |
| Hardware probing, `core-engine/src/topology` | a profile | `negotiate_profile` | scheduler, transports, wait strategies | many hosts | each host gets a tier its plan can use |
| Health server, `core-engine/src/health.rs` | ready flag, tier, stop flag | accept, read, answer, drop | orchestrator, engine | one thread for all, silent clients | each probe is answered, and truly |
| Calibration tool, `core-engine/src/bin/cmp_calibrate.rs` | two flags of a ping-pong, a config file | measure, grade, write | probing | two threads spinning on each other | it ends; a tier is recommended that the host has |
| Shared data types, `ingest-models` | none | records, codes | all | | covered by parsers and encoders |

The data path is: transport or live feed, then parser and sequence tracker, then SPSC ring,
then order book, then SPSC ring, then shared memory ring and router/WebSocket engine. Rings
separate threads. The router is the only place where many threads change the same
structure; the token bucket is the only word several threads compare-and-swap.

## 2. Modules

| Module | Models | State and steps |
|---|---|---|
| `BoundedQueue` | abstract: what a queue of capacity N promises | `put` and `got` histories; `Put`, `Get` |
| `SpscRing` | the SPSC ring | one step per access to memory the other thread sees. An Acquire load of the other cursor returns any value from the last one seen to the current one |
| `SpscRingProofs` | theorems about `SpscRing` | section 5 |
| `IsolatedQueue` | the saturating queue | as `SpscRing`, with `Evict` storing `consumer_cursor` from the producer's side; `policy` chosen initially, two threads under both; `raced` records that an eviction and a `try_pop` got in each other's way |
| `FeedSimulator` | EXTENDS `IsolatedQueue`: `generate_burst` | fills a buffer from arbitrary random numbers, pushes each event in turn |
| `FeedSimulatorProofs` | theorems about `IsolatedQueue` and `FeedSimulator` | section 5 |
| `BypassBridge` | bridge and DMA pool | stack, ring, refill and shift; a buffer holds the number of the packet copied into it; `abandoned` records the buffers that were posted and empty when a poll reset the tail |
| `Transport` | EXTENDS `BypassBridge`: factory and four backends | a transport is `&mut self`, so each call is one step |
| `OrderBook` | the flat book, beside the book a feed describes | one step per update; `folded` and `crowded` record that a price replaced another, across the anchor or within a tick |
| `U256`, `AmmPools` | two-limb integers; pools and swaps | operators only; limb width, decimal scales and the widths of u128, u64 and i64 are constants, and what leaves a width wraps |
| `AmmBook` | EXTENDS `OrderBook`, `AmmPools`: what fills a book | a feed update, a ladder of the pool (`Rungs`: its levels in the order of the code's loops; `Writing`: the book after each of them), a swap the chain includes |
| `SequenceTracker` | the tracker against a stream | `OnSnapshot`, `Apply`, `Gap`; an exchange that publishes batches |
| `IngestProofs` | theorems about `BypassBridge`, `Transport` and `SequenceTracker` | section 5 |
| `Codecs`, `Wire` | parsers and decimals; SBE frames and JSON texts | operators only; a text is a sequence of symbols, a byte of a frame is symbolic |
| `CefiIngest` | EXTENDS `SequenceTracker`, `Wire`: text to client | the tracker sees the number the parser made of the text; the client decodes what the encoder wrote |
| `LiveFeed` | `Session`, `run_connection`, `main`, against exchange and link | one text frame is one step, as the runner is a single task; the requests it asks for are sent one by one, and while one waits for room the other branches of the `select!` are not polled (`Polling`, `Send`, `SendFails`) |
| `LiveFeedProofs` | theorems about `LiveFeed` | section 5 |
| `Router` | the topic router | one step per critical section, or per client of a dispatch's walk under the read lock; both locks are free between two of them |
| `WebSocket` | EXTENDS `Router`: the engine's handlers | calls `Router`'s actions; the answer is a later step |
| `WebSocketProofs` | theorems about `Router` and `WebSocket` | section 5 |
| `TokenBucket` | `try_consume`, beside an exact bucket in fractions of a token | the caller reads the clock, later the word is loaded, then compared and swapped; the products and sums of a refill are cut to u64 and u32 |
| `TokenBucketProofs` | theorems about `TokenBucket` | section 5 |
| `ShmRing` | configuration, backend choice and both ring types | one step per store and load; `shared` says whether writer and reader overlap |
| `ShmRingProofs` | theorems about `ShmRing` | section 5 |
| `Topology` | the probe, the negotiation of the tier, the grading | operators on a host: what its files and system calls say |
| `Calibration` | EXTENDS `Topology`: `cmp-calibrate` | the ping-pong access by access, the nudge after the stop included; measurements arbitrary |
| `HealthServer` | the health server against its clients | accept (which may fail), read, answer; a request arrives whole, in parts or never |
| `Scheduler` | `compute_plan` and the cooperative loop | one step per stage; i32 counter that wraps |
| `Engine` | EXTENDS `Calibration`, `HealthServer`, `Scheduler`: both programs on one host | boot, plan, run, serve, stop, drop |
| `WaitStrategy` | strategies in the pop loop, in discrete time | `Pass` is a unit of time; `watch` observes up to `BurstTicks` pops from an arbitrary one on |
| `EngineProofs` | theorems about `WaitStrategy`, `OrderBook`, `AmmPools`, `AmmBook` and `Engine` | section 5 |
| `MCAmmBook`, `MCCefiIngest`, `MCEngine`, `MCFeedSimulator`, `MCRouter`, `MCWebSocket` | instances for TLC | pools, messages, hosts, draws; the symmetry of the threads |

Names are the source's where TLA+ allows. Operators named `X_...` and commented `Mutant`
are deliberately wrong versions of `X`: each stands for a plausible bug, and replacing `X`
by it makes the property of `PROJECT.json` fail. They are used by no specification.

External to the repository and modelled from how it is used: exchange and network
(`LiveFeed`, `SequenceTracker`, `CefiIngest`, `HealthServer`), the chain and the positions of
its pools (`AmmBook`), the kernel's receive queue (`Transport`), the host's files and clocks
(`Topology`, `Calibration`), pipeline stages (`Scheduler`, which only knows their trait),
producers and time (`WaitStrategy`).

## 3. Runs

| Run (module) | Instance | Why these bounds |
|---|---|---|
| `SpscRing_threads` (`SpscRing`) | N = 2, 5 pushes, 2 items | the ring wraps twice, both sides can be a lap behind, full and empty are reached with stale and fresh cursors |
| `FeedSimulator_policies` (`MCFeedSimulator`) | N = 2, 4 events in bursts of 2, prices at and just above the floor | each slot is reused, saturation lasts over two items; both policies with two threads, so that evictions fall between and into the steps of a `try_pop` |
| `Transport_backends` (`Transport`) | N = 4, 5 packets, 2 io_uring buffers, 2 datagrams in the kernel, 1 error | ring and pool both exhausted, partial bursts of every size, each factory outcome |
| `AmmBook_pools` (`MCAmmBook`) | 40 levels of 5 around the anchor 110; feed prices 96, 98, 113 and 124, the first two within a tick and the last as far above the anchor as they are below; v2 pools with and without fee, with unequal decimals and with more than the book's; up to three positions on the edges -2, 0, 1, 3 around tick 0, ticks 2 apart so that they share levels; four Curve pools, one of three coins; 2 swaps and 2 ladders | prices that replace each other in both ways, ladders on both sides of the anchor; positions that start, end, span and nest at each edge; a ladder over a ladder; products that carry from limb to limb, below the word |
| `LiveFeed_faults` (`LiveFeed`) | 1 product, 3 trades, 2 faults, with and without `--seconds` | a fault during the recovery from a fault; a send without room on a live and on a dead link. Two faults do not take the backoff to its cap; `BackoffFollowsSchedule` covers that, and the safety part is proved for any number of products (section 5) |
| `WebSocket_handlers` (`MCWebSocket`) | 2 threads, ids 0 to 2 with capacity 2, 2 registrations, 1 filter change | an id beyond the bitmap, an id used again, a dispatch during any call, a filter that changes in the middle of a walk, pings at the limit of the 256 byte buffer |
| `TokenBucket_exact` (`TokenBucket`) | 2 threads, second = 6 ms, rate 2, burst 3, 11 ms | fractions of a token, saturation at the burst, callers with an old clock, failed compare-and-swaps; nothing wraps (section 6 has the runs where it does) |
| `ShmRing_readers` (`ShmRing`) | capacities 1, 2 and 3 asked for, 6 messages, 1 reader | a capacity that is not a power of two; up to six laps. Readers do not affect each other or the writer, so one is enough |
| `CefiIngest_stream` (`MCCefiIngest`) | 3 events in batches of any size; quotes, trades and accounts of four venues, whole and with values missing or unquoted; 4 decimals; dates on leap days and century ends | gaps, overlaps and snapshots that go back, each with each message; fractions shorter and longer than the scale |
| `Engine_host` (`MCEngine`) | 36 hosts with 0 to 32 processors and quotas of half a core to eight; 2 rounds of ping-pong; 2 connections; 2 stages, counter limit 3 | each tier and each kind of plan; a probe behind a silent client; the counter wraps through its negative half |
| `WaitStrategy_idle` (`WaitStrategy`) | all tiers, sleeps of 1 to 3 units, threshold and window 3, bursts of 4 pops | each place of the backoff with each place of window and burst; 4 is the least number of pops that cannot hide in two windows |
| `Router_race` (`MCRouter`, violation) | as the WebSocket run, two handlers for one id | section 6 |

What they show:

- **SpscRing**: `NoSlotRace` (the `unsafe` blocks are sound), `ImplementsBoundedQueue` (FIFO,
  no loss, no duplicate, at most N), `EveryItemPopped` and `PopTimeoutReturns` (stale cached
  cursors delay but do not block).
- **FeedSimulator**: the queue is a bounded FIFO queue of what it keeps
  (`ImplementsBoundedQueue`, with evictions as gets of the producer) and a consumer can tell its
  losses from the venues' numbers (`LossesShow`): under `DropNewest` always, under `DropOldest`
  until an eviction falls into a `try_pop`, which `examples/feed_simulator.rs` does not prevent.
  The ring itself holds the newest items even then (`FreshestKept`).
- **Transport**: `BuffersAccounted` (io_uring pool: each buffer is in one place and none is lost;
  bridge: none is in two places, and the lost ones are exactly those posted and empty when
  `poll_rx_burst` resets the tail), `EachSourceInOrder`, `EveryPacketDelivered`.
- **AmmBook**: `BestLevelsExact` (a live level always; the best of the array until a price
  replaces one across the anchor; the feed's best until one replaces another at all),
  `LadderOnCurve` (v2 levels lie on x * y = k, up to a unit of the book where the base token has
  more decimals), `DepthIsPositions` (v3 and v4 levels offer what the positions there hold; of
  ticks that share a level the outermost shows),
  `InvariantSolved` (Curve's D, computed in two limbs with truncated divisions, is the
  solution to within a unit), `SwapsKeepValue`.
- **LiveFeed**: `TradesEmittedOnceInOrder`, `ContiguousSinceBaseline` (a hole costs the baseline),
  `BackoffSchedule`, `CaughtUp`, `HalfOpenDetected`, `DeadlineEnds`.
- **WebSocket over Router**: `IndexExact`, `StandingSubscribersServed` (all of a topic's standing
  subscribers, and none whose filter bars the message), `AnswersMatchIndex` (a client told
  `subscribed` is in the index exactly if its id is below the capacity of the bitmap).
- **TokenBucket**: `NeverOverdrawn` and `NeverShort` against the exact bucket.
- **ShmRing**: `NothingLostSilently` as built (publishing borrows the ring exclusively), for
  every capacity and backend; `ReadInOrder` also with a writer that overlaps the read.
- **CefiIngest**: `BookIsPrefix`, `GapIsReal` with numbers that went through the parser;
  `QuoteExact` and `TimeExact` from the exchange's digits to the SBE and JSON client.
- **Engine**: `PlanFits` for the probed hosts, `NoStageStarved`, `StopShutsDown` (loop and server),
  `ProbesAnswered`, `CalibrationEnds`.
- **WaitStrategy**: `WakeupBounded`, `BurstNoticed`, `QuietSleeps`.

A cfg says `CHECK_DEADLOCK FALSE` where a run may end: the feed finishes, the programs end, a
transport could not be created, the swaps, ladders or messages of the bound are used up.

## 4. Fairness

- `SpscRing`: both threads keep running and calling, a deadline passes, and a store becomes
  visible in finite time (strong fairness of the load that returns the latest value; C++20 and
  Rust state this as progress of atomic stores).
- `Transport`: the ingest thread polls in a loop.
- `LiveFeed`: the exchange serves requests and sends heartbeats for each product about once a
  second (strong, because the bound on the wire would let one product starve another); tokio's
  `select!` picks among ready branches at random, so each is taken in the end, also when sends
  keep it from being ready all the time (strong); a send returns when there is room, and fails
  once TCP has given up on a peer that is gone; sleeps end; the deadline passes. `Tick` assumes
  of the exchange, not of the code, that on a live connection something arrives and sends return
  before it counts as stale. There are finitely many faults. Nothing forces a trade, or Ctrl-C.
- `Engine`: the threads of both programs run, their sleeps end, and a read of the health server
  ends after its 500 ms timeout. Nothing is asked of the network, of whoever sets the stop flag,
  or of what feeds a stage, so stages may always or never have work.
- `WaitStrategy`: the consumer's thread runs and time goes on.

No other module has a liveness property, and none assumes fairness.

## 5. Proofs

Each theorem holds for every value of the constants that satisfies the named assumption of its
module, so for any number of threads, clients, products, levels, messages and steps. Most
follow one pattern: an inductive invariant (true initially, kept by each action, one step or
lemma per action), from which the property follows. None of the properties is inductive by
itself; what has to be added, and why, is the content of the proofs.

| Module | Theorem | States | Under |
|---|---|---|---|
| `SpscRingProofs` | `TypeCorrect` | `Spec => []TypeOK` | |
| | `RaceFreedom` | `Spec => []NoSlotRace` | |
| | `Refinement` | `Spec => ImplementsBoundedQueue` | |
| `FeedSimulatorProofs` | `TypeCorrect` | `Spec => []TypeOK` | |
| | `NewestNeverRaces` | `Spec => [](policy = "DropNewest" => ~raced)` | |
| | `Freshest` | `Spec => []FreshestKept` | |
| | `Refinement` | `Spec => ImplementsBoundedQueue` | of what is put and taken up to a race |
| | `SimulatorQueue` | both, of `SimulatorSpec` | same |
| | `PoppedOnceInOrder` | `Spec => [](~raced => InOrderOnce)` | |
| | `GapsAreLosses` | `SimulatorSpec => []LossesShow` | the property itself is about `~raced` |
| `IngestProofs` | `BridgeBuffers` | `Spec => [](NoBufferShared /\ LossAccounted)` | |
| | `BridgeKeepsPackets` | `Spec => []PacketsIntact` | |
| | `BuffersInOnePlace` | `TransportSpec => []BuffersAccounted` | |
| | `EverySourceInOrder` | `TransportSpec => []EachSourceInOrder` | |
| | `NoHole` | `TrackerSpec => []BookIsPrefix` | |
| | `NoFalseGap` | `TrackerSpec => []GapIsReal` | |
| `LiveFeedProofs` | `EmittedOnceInOrder` | `Spec => []TradesEmittedOnceInOrder` | |
| | `NoSilentGap` | `Spec => []ContiguousSinceBaseline` | |
| | `BackoffFollowsSchedule` | `Spec => []BackoffSchedule` | |
| `WebSocketProofs` | `Index` | `Spec => []IndexExact` | the property itself is about `Serialized` |
| | `Dispatches` | `Spec => []StandingSubscribersServed` | `Serialized` |
| | `Answers` | `WsSpec => []AnswersMatchIndex` | `Serialized` |
| | `HandlersRefineRouter` | `WsSpec => Spec` | |
| | `ServedClients` | the first two, of `WsSpec` | `Serialized` |
| `TokenBucketProofs` | `FullMeasure` | `Spec => []NeverShort` | `NoWrap` |
| | `Limited` | `Spec => []NeverOverdrawn` | `NoWrap`, `WholeRate` |
| `EngineProofs` | `WaitsBounded` | `WaitSpec => []WakeupBounded` | |
| | `BurstsNoticed` | `WaitSpec => BurstNoticed` | `2 * Threshold - 2 <= BurstTicks` |
| | `BestOfFeed` | `BookSpec => [](BidsExact /\ AsksExact /\ FeedExact)` | |
| | `BestOfLadders` | `AmmSpec => []BestLevelsExact` | `[]RungsFit` |
| | `RootExact` | `IntegerSqrt(n)` is the integer root of n | |
| | `TargetOnCurve` | target reserves of a v2 pool are `OnCurve` | `reserve_base * Ratio < Word` |
| | `LaddersOnCurve` | `AmmSpec => []LadderOnCurve` | `V2PoolsTyped` |
| | `SwapsFair` | `AmmSpec => SwapsKeepValue` | `NoCurvePools`, `[]NoWrap` |
| | `PlansFit` | `Spec => []PlanFits` | |
| `ShmRingProofs` | `InOrder` | `Spec => []ReadInOrder` | |
| | `NothingLost` | `Spec => []NothingLostSilently` | the property itself is about rings as built |

### Hypotheses

- Rings and queues: `NAssumption` and `QueueAssumption` say that N is a power of two, which `new()`
  asserts. Cursors and sequence numbers are u64 and taken not to overflow.
- The isolated queue has no further one: both policies run in two threads. What the cursors
  promise is stated until `raced`, as under `DropOldest` both threads store `consumer_cursor`;
  `IsolatedQueue_race` shows what happens after it. `NewestNeverRaces` says that under
  `DropNewest` there is no such limit.
- `Serialized`: the calls for one client id come from one connection handler. Without it
  `Router_race` is the counterexample. `RouterAssumption` only types the constants.
- `NoWrap`: times fit the 40 bits of the word, the burst its 24, the product of a refill u64 and
  its tokens on top of the burst u32. Section 6 shows the first one broken, and the burst of
  2_000_000_000 in `tick_to_egress.rs` lies outside the second. `WholeRate`: the rate divides 1000
  or is a multiple of it, as 100, 10_000 and 1_000_000 are; section 6 shows a rate that does not.
- `FeedAssumption`: finitely many products, sequence numbers that do not go back within a
  subscription, a cap on the backoff of at most 2^5 s (the code's is 30 s), so that each power of
  two on the way to it is treated by itself. `WaitAssumption`: sleeps are positive and the least
  is not above the most. `BridgeAssumption`, `TransportAssumption`, `BookAssumption`,
  `SimulatorAssumption`, `ScaleAssumption`, `PoolsAssumption` and `CalibrationAssumption` only type the constants.
- `ShmAssumption`: capacities asked for are at most 2^16, the largest the tiers configure; the
  powers of two up to there are treated one by one.
- `RungsFit`: the prices that ladders write through `update_bid` and `update_ask` are above 0 and
  below i64::MAX, on either side of the anchor. The searches after a removal skip others.
- `V2PoolsTyped`: v2 pools are records of natural numbers; any reserves and decimals. That
  products stay within u128, prices within i64 and quantities within u64 is a condition inside
  `LadderOnCurve` (`SpotFits`, `ShareFits`, `BandFits`), pool by pool and band by band.
- `NoCurvePools`: the other kinds of pool. `NoWrap` (of `EngineProofs`): the products of a v2 swap
  stay below u128; section 6 has the counterexample.

The state predicates among these (`RungsFit`, `NoWrap`) speak of pools as swaps move them, which
the code does not bound. TLC finds them true throughout the instance of `AmmBook_pools`, so the
theorems are about behaviours that exist.

### The inductive invariants

- **SpscRing**: that the two slots differ follows only from the distance of the cursors, which
  follows from what each thread checked against the *cached* cursor some steps ago. `CursorInv`:
  cached cursors lag behind the real ones, and the producer is at most N ahead of the consumer
  cursor *it has cached*, which makes stale loads harmless. `OwnershipInv`: past its check each
  thread owns the slot at its cursor until it publishes. `ContentInv`: the slots between the
  cursors hold the items pushed and not yet popped; only the refinement needs it. `SlotInjective`
  is the arithmetic: N consecutive cursors have N different slots. The two cursor stores are
  `Put` and `Get` of the abstract queue, all else is stuttering.
- **IsolatedQueue**: the same as long as no eviction has fallen into a `try_pop` (`OrderInv`), and
  in addition that the cursor an eviction stores is then one more than the current one.
  `NewestInv`: without evictions the consumer knows its own cursor, so nothing races. `FreshInv`
  holds whatever happens to the consumer's cursor: `DropOldest` accepts each item, so the item of
  a cursor is its successor and a store overwrites what is N older. An eviction is a `Get` of the
  abstract queue made by the producer; the histories stand still after a race. `SimulatorUsesQueue`
  carries the theorems over to `generate_burst`, whose steps are the queue's.
- **FeedSimulator**: each item is returned, waiting in the queue or lost, the metrics count the
  lost ones (`AccountInv`), and each venue's numbers are consecutive over what was generated, which
  for a whole buffer is shown by its least counterexample. The gaps a consumer sees are then a
  set of numbers that maps one to one into the lost items; when it has the last item of each
  venue, onto them.
- **BypassBridge and Transport**: free and posted buffers are at most N together and a buffer is in
  one of them, or abandoned (`IntactInv`); the shift after a partial poll resets the tail, and the
  posted and empty buffers behind it are what it abandons. Packets delivered followed by packets waiting are unchanged by a poll, and grow by
  the packet when one is accepted; that is the order. For io_uring each pool buffer is free or
  completed and never both (`UringInv`). What waits may be of two sources, the wire and the socket,
  so `SourceInv` says where packets come from; one injected into io_uring's completions may
  overtake datagrams still in the kernel, but none of its own source.
- **SequenceTracker**: a batch is a non-empty run of events that have happened (`BatchInv`):
  without it an accepted batch could reach beyond the stream or leave a hole.
- **LiveFeed**: order of what was emitted depends on what is still in flight. `WireInv`: the
  tickers on the wire are ordered per product, none older than `max_emitted_trade_id` and none newer
  than the last trade. It survives losses and garbling (a subsequence keeps it, `FedLess`), what
  the exchange adds (`FedMore`) and a new connection (`FedEmpty`). `HandedInv` ties
  `max_emitted_trade_id` to the emitted sequence, `BaselineInv` says that the parts of a baseline come
  and go together and that all trades between its ends were emitted. `BackoffInv`: the delay is
  the capped power of two of the failures in a row; doubling and then capping is capping the
  doubled power.
- **Router and WebSocket**: `SerialInv`: at most one call per id, and between its two critical
  sections the id stays registered (`subscribe`) or free (`unregister_client`). `SessionInv`: a session
  stands under one id and is not reused. `IndexInv`: the index is exact for all ids but those in
  the middle of `unregister_client`. `DispatchInv`: whom a walk owes a message it has served or has
  ahead of it under the same session, whom it must not serve is still barred or gone for good.
  `AnswerInv` adds, for each answer not yet sent, that its thread still holds the id and where in
  the call it is.
- **TokenBucket**: the word is compared with the exact bucket through what it is worth at the
  latest time seen, `Value`, in fractions of a token. `ShortInv`: never less than the exact
  bucket. `ExactInv`, for rates that divide the second or are multiples of it: less than one token more, and less than
  one token's time behind. A late caller, or one whose compare-and-swap failed, keeps both.
- **WaitStrategy**: `WaitInv`: what an item has waited and what is left of the sleep are at most
  one sleep together. `SleepInv`: only a sleep has a rest, and a strategy in a burst has none.
  `BurstInv`: the pops watched so far are split between the window that was open when the first
  came and the one after it; if the first was closed short of the threshold, the rest are all
  counted in the second.
- **OrderBook and AmmBook**: `BookInv`: each price is at its level and the best index at a live
  one (`BidSide`, `AskSide`); at the best live one until a price replaces one across the anchor
  (`BidBest`, `AskBest`); and the array holds what the feed gave until a price replaces another at
  all (`Holds`). The middle part is the one to argue about: prices that replace each other within
  a tick and on one side of the anchor keep their order with all other levels (`FurtherLevel`), so
  the best index stays right also when the best level gets another price. The search after a
  removal is shown by the least index at which it would be wrong. For ladders (`AmmInv`) there is
  no feed's book, and no ladder clears the one before it; the rest is the same. `Writing` is a
  recursion over the rungs; the invariant is carried along it.
- **AmmPools**: Newton's iteration for the root is never below the root and falls as long as it is
  above, so it ends, and ends at the root. Errors of root and divisions are then bounded through
  to `OnCurve`. A v2 swap's output is one quotient, of which the largest is meant.
- **Engine**: the plan is computed from `EffectiveCores`, a number from 1 to the processors that the
  quota pays for; all plans of a tier stay within it.
- **ShmRing**: `OrderInv` (what was read is behind the cursor, the cursor behind the head that was
  loaded) gives the order, with any overlap of writer and reader. As built, `SlotInv` says that
  the slots of the last lap hold whole messages, and `BuiltInv` that a read under way is within
  that lap and that the cursor is what was read plus what was reported. The arithmetic under it
  is `SlotIsRemainder`: masking with capacity - 1 is the remainder when the capacity is a power of
  two, which is what `RingCapacityIsPower` says `RingCapacity` makes of any request.

Proofs found ambiguities in the model. The cases that give the token word's next time
overlapped when a refill of zero tokens finds a full bucket; so did the cases of the v2 spot
price for a pool without reserves and those of a v4 fee without a hook. These, and the other
cases that overlapped (the factory's choice, the reading of a frame, the pause of the loop),
are now ordered as the `if` and `else` of the code are.

### Induction

The provers cannot use an induction principle that takes a predicate as its argument. Where an
argument needs one, the set of counterexamples is formed instead and its least element refuted
(`LeastOfSet`, from the well-foundedness of the naturals). The same way gives the existence of a
recursive function with its equation, which the definition alone does not. It is used for the
search of the best level, the rungs of a ladder, Newton's root and the loop of `generate_burst`.

### Only model-checked

- Liveness, all of it: fairness and ENABLED are beyond the prover.
- What folds over sequences and sets compute: `QuoteExact` and `TimeExact` (digits and days),
  `DepthIsPositions` (sums over positions, over sorted ticks).
- `InvariantSolved` and the Curve half of `SwapsKeepValue`: Newton's iterations on polynomials of
  degree n + 1 in two-limb arithmetic, with a stop after 255 rounds whatever was reached. No
  bound on their error is known to us that would make a theorem.
- That the numbers which went through the parser drive `CefiIngest` as `SequenceTracker`'s do: it rests
  on the digits above.

## 6. Where code and documents disagree

`Router_race` is a listed finding: `subscribe` releases the clients' lock before it takes the
topics' lock, so an `unregister_client` in between leaves a bit behind, and the next client that
gets the id inherits the subscription. With one handler per connection (`Serialized`) it does
not happen, and `WebSocket_handlers` shows that.

The following configurations state what a comment or document says, or what a reader would
expect, and are violated too. They mark the limits of the passing runs and can be run by hand;
where one has several properties, `tlc -continue` reports each:

| cfg (module) | Property | What happens |
|---|---|---|
| `OrderBook_around` (`OrderBook`) | `FeedBestExact` | prices as far below the anchor as above it share an index, and one update overwrites the other |
| `AmmBook_documents` (`MCAmmBook`) | `DepthAtEdge` | when the current tick of a v4 pool is a position's edge, its net liquidity is applied to the asks once more |
| | `NotCrossed` | no ladder clears the levels of the one before it, so after the pool moved old bids stand above new asks |
| `AmmBook_pools` with `Word = 200000` | `SwapsKeepValue` | a product of a v2 swap that leaves u128 wraps and the output is arbitrary |
| `IsolatedQueue_race` (`IsolatedQueue`) | `InOrderOnce` | under `DropOldest` both threads store `consumer_cursor`, as in `examples/feed_simulator.rs`; the consumer can move it back and return an item again or out of order |
| `BypassBridge_drops` (`BypassBridge`) | `DropsOnlyWhenSaturated` | a partial poll starts the posted window right behind the waiting packets and posts only what is free, so packets are dropped before N wait: the posted and empty buffers are in neither place and never come back (`kernel_bypass.rs:350-358`, under the comment "Immediately replenish DMA RX ring to avoid packet drops"; `BuffersAccounted` says which they are) |
| `WebSocket_handlers` (`MCWebSocket`) with `INVARIANT ConfirmedIsIndexed` | `ConfirmedIsIndexed` | `insert` returns false for ids at or beyond the capacity (`bitmap.rs:43`), `subscribe` does not look at it (`router.rs:106`) and never returns its `CapacityExceeded` (`router.rs:25`): the client is told `subscribed` and gets nothing |
| `WaitStrategy_idle` (`WaitStrategy`) with `BurstTicks = 3` | `BurstNoticed` | a burst at the threshold ("500 ticks per 100ms = 5,000 ticks/sec threshold") that starts in one window and ends in the next is noticed by neither |
| `CefiIngest_stream` (`MCCefiIngest`) with `Messages <- MCLateTickers` | `OkxTimeExact` | OKX's milliseconds are read as a fixed-point number and wrap in i64 |
| `TokenBucket_exact` (`TokenBucket`) with `Rate = 4`, `MaxTokens = 1` | `NeverOverdrawn` | when the rate does not divide 1000 the rounded-down time leaves a fraction to be granted again |
| `TokenBucket_exact` with `TsSpan = 16`, `Start = 16` | `NeverOverdrawn` | the time keeps 40 bits of ms: beyond 2^40 ms (2004 for a Unix clock) the word is always in the past and each call refills |
| `ShmRing_documents` (`ShmRing`) | `NoTornReadAcrossProcesses`, `LapsReportedAcrossProcesses` | with a writer that overlaps the read, as in the design for reader processes, a copy may mix two messages and a lap may look like Empty |
| | `PosixShmInShm` | the POSIX stage succeeds with memory that is not in `/dev/shm` |
| `Engine_documents` (`MCEngine`) | `TierThreeHasCores` | NUMA nodes within one socket are counted as sockets, so 8 cores pass for 16 |
| | `ProbeKeepsPolicy` | the probe for real-time scheduling sets SCHED_OTHER afterwards, whatever the caller's policy was |
| | `ReadyIsSaid` | a request that arrives in two parts is read once and answered with 404 |
| `LiveFeed_documents` (`LiveFeed`) | `SnapshotBecomesBaseline` | messages of the old subscription still in flight set the baseline before the snapshot comes |
| | `CaughtUpAnyway` | without a baseline a heartbeat is not checked, so a lost snapshot of a silent product is not asked for again |

Met while modelling and not stated as properties:

- AMM: the book's TICK_SIZE is 100000 while the v3 and v4 ladders move 100 per tick, so up to 1000
  neighbouring ticks overwrite each other in one level; `UniswapV2Pool::new` has 18 base decimals
  against the book's 8, so that a quantity is cut to a unit of the book; a v2 spot price whose
  denominator wraps to 0 panics (the model gives no price); asks of v3, v4 and Curve are stored in the array without moving
  `best_ask_idx`; Curve's output lacks the customary "- 1" and rounds in the trader's favour;
  `min_amount_out` of a pending swap is ignored; `price_impact_bps` is cut to 16 bits.
- Parsing: `cefi-ingest/src/lib.rs:101` names `@depth` events, whose arrays the parser refuses; a Binance
  message without `"u"` gets sequence 0; days such as February 31 are accepted; Raydium's
  derived quantity wraps at the end of its range.
- Router: `unsubscribe` leaves a topic without subscribers in the map, so `topic_count` counts
  more than the active topics (an empty entry serves nobody, and the model does not tell it
  from none).
- Wait strategies: burst mode lasts 50 ms from the tick that closes a window of 100 ms, so that a
  steady burst is out of burst mode for half of the time.
- Engine: a bare-metal server with a cgroup quota still gets tier 3, where a comment says tier 2;
  `generate_config_toml` writes the recommended tier as `detected_tier`, and nothing reads
  `cmp-config.toml`; `gen_range` overflows for the full range of u64.

## 7. Abstractions and what is left out

- Payloads are numbers or model values; statistics counters, wording, latency figures, session
  ping times and the health server's tick counter steer nothing and are left out. In `Router`
  the client's rate limiter is left open: a visited client that no filter bars counts as served
  (`TokenBucket` models the limiter itself).
- The client bitmap is a set of ids with a capacity. In `WaitStrategy` counters that saturate are
  cut where their value stops to matter.
- The i64/u64 widths that cannot matter in range (cursors, sequence numbers) are dropped; the
  widths that can (token word, i32 idle counter, bitmap capacity, u256 limbs, fixed-point words)
  are constants of the models. Decimal scales (10^8, 10^9, 2^96 and their kin) are constants too,
  with small values in the runs: the algorithms are the code's, only the numbers are small.
- `FastPrng` is any number; `sqrt_price` of a tick is a table, as the code gets it from outside.
- `LiveFeed`: requests are few, so that only a resubscribe waits for room; pongs, which wait the
  same way, are left out. Sequence numbers are bounded, and a
  heartbeat whose number does not go up asks for a resubscribe too, so that `CaughtUp` does not
  tell the two checks of `on_heartbeat` apart; `OnHeartbeat_Ignored` drops both.
- `Codecs` and `CefiIngest` keep digits and fields one by one, as `QuoteExact` and `TimeExact` are about
  what becomes of them.
- `CefiIngest` looks at JSON as the code does: first match of a key, in order of appearance.
- `Engine`'s calling order is that of a host program: the crate offers the parts and has no
  `main` of its own besides the calibration tool. `PlanArguments` are what `negotiate_profile`
  returns. Probes come while pinned threads run (`ProbesCome`): the server shares nothing with the
  cooperative loop, so their steps are not interleaved; the loop's return does drop the server.
- Small dangers seen in the code that no property states: a router sink is called under the
  clients' read lock, so it must not register clients; `TopicKey` keeps 24 bits of the market id;
  a stage that is `Exhausted` but active keeps the
  loop going; an unsubscribe is parsed with flags 0.
- Not modelled: website, deployment files and examples; affinity, NIC and cache queries of the
  probe, which no decision uses; the other benchmarks of the calibration tool, which are
  measurements only. `PROJECT.json` gives the status of each component.

## 8. Plan

1. (done) SPSC ring, its abstract queue and its proofs; the sequence tracker's proofs.
2. (done) The queues and pools around it: isolated queue, bridge, transports.
3. (done) Live feed; router and WebSocket engine; token bucket; shared memory ring; sequence
   tracker; order book; scheduler; wait strategies.
4. (done) AMM virtualizer and on-chain ingest over the order book; codecs and wire formats over the
   sequence tracker; shared memory backends; client filters; burst generator over its queue;
   probing, health server and calibration composed with the scheduler.
5. (done) Proofs of the safety of the concurrent components: isolated queue and its simulator,
   router and WebSocket engine, token bucket, live feed, wait strategies, shared memory ring.
6. (done) Proofs of the way in (bridge, transports, tracker), of the book under feeds and ladders, of
   roots, v2 ladders and v2 swaps, of the plan, of the backoff and of the losses.
7. Open: the folds and Curve's iterations of section 5 ("Only model-checked"), and liveness.
