----------------------------- MODULE OrderBook -----------------------------
(***************************************************************************)
(* ContiguousOrderBook of crates/core-engine/src/lib.rs: a flat array of   *)
(* price levels per side, indexed by the distance from base_price in       *)
(* ticks, and the index of the best level, kept up to date by each update. *)
(* The reference beside it is the book a feed describes: for each side the *)
(* quantity last given for each price.  Prices that share a level replace  *)
(* each other, and the histories tell on which side of the anchor they     *)
(* were.  order_count and last_update_ts are payload and left out.         *)
(***************************************************************************)
EXTENDS Integers, FiniteSetsExt

CONSTANTS Levels,        \* PRICE_LEVELS_COUNT
          TickSize,      \* TICK_SIZE
          BasePrice,     \* the anchor; prices lie on both sides of it
          MaxPrice,      \* i64::MAX
          Prices,        \* prices of the updates
          Quantities     \* quantities of the updates; 0 removes the level

ASSUME BookAssumption ==
  /\ Levels \in Nat \ {0} /\ TickSize \in Nat \ {0} /\ {BasePrice, MaxPrice} \subseteq Nat
  /\ Prices \subseteq 1..MaxPrice - 1 /\ Quantities \subseteq Nat /\ 0 \in Quantities

VARIABLES book,                           \* the ContiguousOrderBook
          bid_quantity, ask_quantity,     \* reference: per price, 0 for none
          folded,         \* history: sides where a price replaced one across the anchor
          crowded         \* history: sides where a price replaced another within the tick

bookVars == <<book, bid_quantity, ask_quantity, folded, crowded>>

Indices == 0..Levels - 1
NoLevel == [price |-> 0, quantity |-> 0]

\* ContiguousOrderBook::new
EmptyBook ==
  [bids |-> [i \in Indices |-> NoLevel], best_bid_idx |-> 0,
   asks |-> [i \in Indices |-> NoLevel], best_ask_idx |-> Levels - 1]

\* The distance from the anchor, on either side of it.  A difference that leaves i64 is
\* outside the window either way.
Diff(price) ==
  IF price >= BasePrice THEN (price - BasePrice) \div TickSize ELSE (BasePrice - price) \div TickSize

InWindow(price) == Diff(price) < Levels

\* The first index whose level satisfies Best, or 0.
FirstIndex(Best(_)) == IF \E i \in Indices : Best(i) THEN Min({i \in Indices : Best(i)}) ELSE 0

\* Mutant: levels without quantity are not skipped.
RecalculateBestBid_KeepsRemoved(side) ==
  FirstIndex(LAMBDA i : /\ side[i].price > 0
                        /\ \A j \in Indices : side[j].price <= side[i].price)

\* recalculate_best_bid: the highest price with a quantity, above 0.
RecalculateBestBid(side) ==
  FirstIndex(LAMBDA i : /\ side[i].quantity > 0 /\ side[i].price > 0
                        /\ \A j \in Indices : side[j].quantity > 0 => side[j].price <= side[i].price)

\* recalculate_best_ask: the lowest price with a quantity, below i64::MAX.
RecalculateBestAsk(side) ==
  FirstIndex(LAMBDA i : /\ side[i].quantity > 0 /\ side[i].price < MaxPrice
                        /\ \A j \in Indices : side[j].quantity > 0 => side[i].price <= side[j].price)

\* update_bid: a price outside the window is ignored.
UpdateBid(b, price, quantity) ==
  LET idx == Diff(price)
      side == [b.bids EXCEPT ![idx] = [price |-> price, quantity |-> quantity]]
      best == side[b.best_bid_idx]
      best_idx == CASE quantity > 0 /\ (best.quantity = 0 \/ price > best.price) -> idx
                    [] quantity = 0 /\ idx = b.best_bid_idx -> RecalculateBestBid(side)
                    [] OTHER -> b.best_bid_idx
  IN  IF InWindow(price) THEN [b EXCEPT !.bids = side, !.best_bid_idx = best_idx] ELSE b

\* update_ask
UpdateAsk(b, price, quantity) ==
  LET idx == Diff(price)
      side == [b.asks EXCEPT ![idx] = [price |-> price, quantity |-> quantity]]
      best == side[b.best_ask_idx]
      best_idx == CASE quantity > 0 /\ (best.quantity = 0 \/ price < best.price) -> idx
                    [] quantity = 0 /\ idx = b.best_ask_idx -> RecalculateBestAsk(side)
                    [] OTHER -> b.best_ask_idx
  IN  IF InWindow(price) THEN [b EXCEPT !.asks = side, !.best_ask_idx = best_idx] ELSE b

\* bbo_bid and bbo_ask: NoLevel without a quantity at the best index.
BboBid(b) == IF b.bids[b.best_bid_idx].quantity > 0 THEN b.bids[b.best_bid_idx] ELSE NoLevel
BboAsk(b) == IF b.asks[b.best_ask_idx].quantity > 0 THEN b.asks[b.best_ask_idx] ELSE NoLevel

\* The price takes the level of another price that has a quantity: from the other side of
\* the anchor, as far from it, or from the same side, within the tick.
Replaces(side, price) ==
  InWindow(price) /\ side[Diff(price)].quantity > 0 /\ side[Diff(price)].price # price
Across(a, b) == (a >= BasePrice /\ b < BasePrice) \/ (a < BasePrice /\ b >= BasePrice)
Folds(side, price) == Replaces(side, price) /\ Across(side[Diff(price)].price, price)
Crowds(side, price) == Replaces(side, price) /\ ~Across(side[Diff(price)].price, price)

BookInit ==
  /\ book = EmptyBook /\ folded = {} /\ crowded = {}
  /\ bid_quantity = [p \in Prices |-> 0] /\ ask_quantity = [p \in Prices |-> 0]

\* A feed's update of one level; the reference only holds prices of the window.
FeedBid(p, q) ==
  /\ book' = UpdateBid(book, p, q)
  /\ bid_quantity' = [bid_quantity EXCEPT ![p] = IF InWindow(p) THEN q ELSE 0]
  /\ folded' = folded \cup {s \in {"bids"} : Folds(book.bids, p)}
  /\ crowded' = crowded \cup {s \in {"bids"} : Crowds(book.bids, p)}
  /\ UNCHANGED ask_quantity

FeedAsk(p, q) ==
  /\ book' = UpdateAsk(book, p, q)
  /\ ask_quantity' = [ask_quantity EXCEPT ![p] = IF InWindow(p) THEN q ELSE 0]
  /\ folded' = folded \cup {s \in {"asks"} : Folds(book.asks, p)}
  /\ crowded' = crowded \cup {s \in {"asks"} : Crowds(book.asks, p)}
  /\ UNCHANGED bid_quantity

FeedNext == \E p \in Prices, q \in Quantities : FeedBid(p, q) \/ FeedAsk(p, q)

BookSpec == BookInit /\ [][FeedNext]_bookVars

-----------------------------------------------------------------------------
(* Properties                                                              *)

\* The levels a side offers, by what the array holds.
Live(side) == {side[i] : i \in {j \in Indices : side[j].quantity > 0}}
Best(levels, IsBetter(_, _)) ==
  IF levels = {} THEN NoLevel ELSE CHOOSE l \in levels : \A m \in levels : m = l \/ IsBetter(l.price, m.price)

\* What the feed says is bid and asked.
Given(quantity_of) ==
  {[price |-> p, quantity |-> quantity_of[p]] : p \in {x \in Prices : quantity_of[x] > 0}}

\* bbo_bid and bbo_ask answer a level with a quantity as long as the side has one.
AnswersLive(level, side) == IF Live(side) = {} THEN level = NoLevel ELSE level \in Live(side)

\* The answer is the highest bid, the lowest ask, of the levels in the array, although prices
\* within a tick replace each other: until one replaces a price across the anchor.
BidsExact ==
  /\ AnswersLive(BboBid(book), book.bids)
  /\ "bids" \notin folded => BboBid(book) = Best(Live(book.bids), LAMBDA x, y : x > y)
AsksExact ==
  /\ AnswersLive(BboAsk(book), book.asks)
  /\ "asks" \notin folded => BboAsk(book) = Best(Live(book.asks), LAMBDA x, y : x < y)

\* And it is the feed's own best, until a price replaces another at all.
FeedExact ==
  /\ "bids" \notin folded \cup crowded => BboBid(book) = Best(Given(bid_quantity), LAMBDA x, y : x > y)
  /\ "asks" \notin folded \cup crowded => BboAsk(book) = Best(Given(ask_quantity), LAMBDA x, y : x < y)

\* What a reader of the book would expect without the conditions: the best levels answered
\* are the feed's.  Two prices as far from the anchor on either side of it break this.
FeedBestExact ==
  /\ BboBid(book) = Best(Given(bid_quantity), LAMBDA x, y : x > y)
  /\ BboAsk(book) = Best(Given(ask_quantity), LAMBDA x, y : x < y)
=============================================================================
