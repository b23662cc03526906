--------------------------- MODULE FeedSimulator ----------------------------
(***************************************************************************)
(* MockExchangeFeedSimulator of crates/core-engine/src/simulator.rs feeds  *)
(* a consumer through an IsolatedConsumerQueue: generate_burst fills a     *)
(* buffer, each of whose events is pushed in turn.  Item n of the queue is *)
(* the n-th event.  A number of the generator (FastPrng::next_u64) is any  *)
(* u64: a draw is the numbers one event uses.                              *)
(***************************************************************************)
EXTENDS IsolatedQueue, Integers, FiniteSets

CONSTANTS Draws,           \* [venue, asset, kind, delta, spread : Nat]
          Jump, BasePrice, \* per market 1..3: the largest tick jump, the configured price
          Floor,           \* 1.0, the least price
          BurstSize, BufferLength

ASSUME SimulatorAssumption ==
  /\ Floor \in Nat \ {0} /\ {BurstSize, BufferLength} \subseteq Nat \ {0}
  /\ Draws \subseteq [venue : Nat, asset : Nat, kind : Nat, delta : Nat, spread : Nat]
  /\ {Jump, BasePrice} \subseteq [1..3 -> Nat]

VARIABLES prices,          \* btc_cur_price, eth_cur_price, sol_cur_price
          sequences,       \* binance_seq, okx_seq, uniswap_seq
          trade_id_counter,
          events           \* what was generated

simulatorVars == <<prices, sequences, trade_id_counter, events>>

Venues == {"Binance", "Okx", "UniswapV3"}

GenRange(x, min, max) == IF min >= max THEN min ELSE min + (x % (max - min + 1))
GenPriceDelta(x, jump) == (x % (2 * jump + 1)) - jump

VenueOf(d) == CASE d.venue % 10 < 5 -> "Binance" [] d.venue % 10 \in 5..7 -> "Okx" [] OTHER -> "UniswapV3"
MarketOf(d) == CASE d.asset % 100 < 50 -> 1 [] d.asset % 100 \in 50..84 -> 2 [] OTHER -> 3
SpreadRange == [Binance |-> <<1, 3>>, Okx |-> <<2, 5>>, UniswapV3 |-> <<5, 15>>]

\* Uniswap has quotes only.
IsTrade(d) == d.kind % 100 < 15 /\ VenueOf(d) # "UniswapV3"

\* The state after an event, and the event.
Generated(s, d) ==
  LET market == MarketOf(d)
      venue == VenueOf(d)
      walk == s.prices[market] + GenPriceDelta(d.delta, Jump[market])
      price == IF walk < Floor THEN Floor ELSE walk
      spread == GenRange(d.spread, SpreadRange[venue][1], SpreadRange[venue][2])
      half == (price * spread) \div 20000
      sequence == s.sequences[venue] + 1
      id == s.trade_id + (IF IsTrade(d) THEN 1 ELSE 0)
  IN  [prices |-> [s.prices EXCEPT ![market] = price], sequences |-> [s.sequences EXCEPT ![venue] = sequence],
       trade_id |-> id,
       events |-> Append(s.events,
         [venue |-> venue, market |-> market, sequence |-> sequence, trade_id |-> IF IsTrade(d) THEN id ELSE 0,
          bid |-> IF IsTrade(d) THEN price ELSE price - half, ask |-> IF IsTrade(d) THEN price ELSE price + half])]

Count == IF BurstSize < BufferLength THEN BurstSize ELSE BufferLength

\* The loop of generate_burst: the state after all of its events.
Filled(now, burst) ==
  LET after[i \in 0..Count] == IF i = 0 THEN now ELSE Generated(after[i - 1], burst[i])
  IN  after[Count]

\* generate_burst, once the events of the last burst are pushed.
GenerateBurst ==
  /\ ppc = "idle" /\ item = Len(events) /\ item + Count <= MaxItems
  /\ \E burst \in [1..Count -> Draws] :
       LET now == [prices |-> prices, sequences |-> sequences, trade_id |-> trade_id_counter, events |-> events]
           end == Filled(now, burst)
       IN  /\ prices' = end.prices /\ sequences' = end.sequences
           /\ trade_id_counter' = end.trade_id /\ events' = end.events
  /\ UNCHANGED vars

SimulatorInit ==
  /\ Init /\ prices = BasePrice /\ sequences = [v \in Venues |-> 0] /\ trade_id_counter = 0 /\ events = <<>>

\* Only an event that was generated can be pushed.
SimulatorNext ==
  \/ GenerateBurst
  \/ (item < Len(events) \/ ppc # "idle") /\ Push /\ UNCHANGED <<policy, simulatorVars>>
  \/ Pop /\ UNCHANGED <<policy, simulatorVars>>

SimulatorSpec == SimulatorInit /\ [][SimulatorNext]_<<vars, simulatorVars>>

-----------------------------------------------------------------------------
(* Properties                                                              *)

\* The numbers missing before and between those of venue v that the consumer got.
Missing(v) ==
  LET got == {events[popped[i]].sequence : i \in {j \in DOMAIN popped : events[popped[j]].venue = v}}
  IN  {n \in 1..sequences[v] : n \notin got /\ \E m \in got : m > n}

\* A consumer that watches each venue's numbers sees its losses: they rise event by event,
\* the numbers it misses are no more than the queue counted as dropped or evicted, and
\* exactly those once it has the last event of every venue.  No quote it gets is crossed
\* or without a price.  Under DropOldest this is so until an eviction falls into a try_pop.
LossesShow ==
  ppc = "idle" /\ cpc = "idle" /\ ~raced =>
    LET missing == Cardinality(UNION {{v} \X Missing(v) : v \in Venues})
        lost == total_dropped + total_evicted
        got == {events[popped[i]] : i \in DOMAIN popped}
        latest == \A v \in Venues : sequences[v] > 0 => \E e \in got : e.venue = v /\ e.sequence = sequences[v]
    IN  /\ \A i, j \in DOMAIN popped :
             i < j /\ events[popped[i]].venue = events[popped[j]].venue =>
               events[popped[i]].sequence < events[popped[j]].sequence
        /\ missing <= lost
        /\ latest /\ item = Len(events) /\ consumer_cursor = producer_cursor => missing = lost
        /\ \A e \in got : 0 < e.bid /\ e.bid <= e.ask
=============================================================================
