------------------------------ MODULE AmmBook ------------------------------
(***************************************************************************)
(* A ContiguousOrderBook and what fills it: an exchange feed, or one of    *)
(* the pools of crates/amm-virtualizer, whose liquidity is written to it   *)
(* as a ladder of levels.  Between two ladders the chain moves the pool.   *)
(*                                                                         *)
(* A v2 ladder and every bid go through update_ask and update_bid; asks of *)
(* the other pools are stored in the array directly.  No pool clears the   *)
(* levels of its previous ladder.                                          *)
(***************************************************************************)
EXTENDS OrderBook, AmmPools

CONSTANTS Bands,           \* bands_bps
          Pools,           \* the pools at the start, of the kinds below
          SwapAmounts,     \* amounts of pending swaps
          SqrtPriceOf,     \* per tick, the root of the price there
          MaxSwaps, MaxLadders

ASSUME PoolsAssumption == MaxPrice = I64Max /\ \A p \in Pools : "kind" \in DOMAIN p

VARIABLES pool,        \* [kind |-> "feed"], or a pool of kind "v2", "clmm", "v4" or "curve"
          swaps,       \* swaps included so far
          ladders,     \* ladders written so far
          synced,      \* the last ladder shows the pool as it is
          shift        \* the last SpeculativeShiftEvent

ammVars == <<book, bid_quantity, ask_quantity, folded, crowded, pool, swaps, ladders, synced, shift>>

AmmInit ==
  /\ BookInit
  /\ pool \in Pools
  /\ swaps = 0 /\ ladders = 0 /\ synced = FALSE /\ shift = NoAnswer

FeedUpdate ==
  /\ pool.kind = "feed"
  /\ FeedNext
  /\ UNCHANGED <<pool, swaps, ladders, synced, shift>>

-----------------------------------------------------------------------------
(* Ladders.  Levels outside the window are ignored on both ways in.        *)

\* The asks of v3, v4 and curve: the level is stored and best_ask_idx is not touched.
\* The division rounds towards zero, so a price up to a tick below the anchor has index 0.
StoreIndex(price) == Truncated(price - BasePrice, TickSize)

StoreAsk(b, price, quantity) ==
  IF StoreIndex(price) \in Indices
  THEN [b EXCEPT !.asks[StoreIndex(price)] = [price |-> price, quantity |-> quantity]] ELSE b

\* A level as a ladder writes it.  No level without an answer, and no bid without a price.
Rung(way, price, quantity) == [way |-> way, price |-> price, quantity |-> quantity]

IsWritten(r) == r.quantity # NoAnswer /\ (r.way = "update_bid" => r.price > 0)

Write(b, r) ==
  IF ~IsWritten(r) THEN b
  ELSE CASE r.way = "update_bid" -> UpdateBid(b, r.price, r.quantity)
         [] r.way = "update_ask" -> UpdateAsk(b, r.price, r.quantity)
         [] r.way = "store_ask" -> StoreAsk(b, r.price, r.quantity)

\* Ask and bid of each band in turn.
Banded(Ask(_), Bid(_)) ==
  [k \in 1..2 * Len(Bands) |-> IF k % 2 = 1 THEN Ask(Bands[(k + 1) \div 2]) ELSE Bid(Bands[k \div 2])]

\* populate_virtual_order_book of v2.
V2Rungs(p) ==
  LET spot == V2Spot(p)
      ask(bps) == Rung("update_ask", AskTarget(spot, bps), V2AskQuantity(p, AskTarget(spot, bps)))
      bid(bps) == Rung("update_bid", BidTarget(spot, bps), V2BidQuantity(p, BidTarget(spot, bps)))
  IN  IF spot <= 0 THEN <<>> ELSE Banded(ask, bid)

\* The ticks of the pool's positions in ascending order, each with its net liquidity, and
\* the liquidity of the positions around the current tick (kept by the pool on chain).
TickSet(p) == UNION {{r[1], r[2]} : r \in {x \in DOMAIN p.positions : p.positions[x] > 0}}

LiquidityWhere(p, Covers(_)) ==
  FoldFunctionOnSet(+, 0, p.positions, {r \in DOMAIN p.positions : Covers(r)})

Net(p, t) == LiquidityWhere(p, LAMBDA r : r[1] = t) - LiquidityWhere(p, LAMBDA r : r[2] = t)
Ticks(p) == [k \in 1..Cardinality(TickSet(p)) |->
               LET t == SetToSortSeq(TickSet(p), <)[k] IN [index |-> t, net |-> Net(p, t)]]
CurrentLiquidity(p) == LiquidityWhere(p, LAMBDA r : r[1] <= p.tick /\ p.tick < r[2])

\* v4's spread: half of the effective fee on either side; v3 pools have none.
Fee(p) == IF p.kind = "v4" THEN EffectiveFee(p.key, p.hook) ELSE 0
PlusFee(p, price) == AsI64(price + Share(price, Fee(p), 2 * Bps))
MinusFee(p, price) == Saturated(price - Share(price, Fee(p), 2 * Bps))
AskPrice(p, t) == PlusFee(p, AsI64(SqrtSpot(p.sqrt_price) + (t - p.tick) * TickStep))
BidPrice(p, t) == MinusFee(p, Saturated(SqrtSpot(p.sqrt_price) - (p.tick - t) * TickStep))

\* The two sides of a ladder as walks give them.
TickRungsOf(p, asks, bids) ==
  [k \in DOMAIN asks |-> Rung("store_ask", AskPrice(p, asks[k].tick), asks[k].quantity)] \o
  [k \in DOMAIN bids |-> Rung("update_bid", BidPrice(p, bids[k].tick), bids[k].quantity)]

\* Mutant: the bids start from the liquidity the walk of the asks ended with.
TickRungs_NoReset(p) ==
  LET above == SelectSeq(Ticks(p), LAMBDA t : t.index > p.tick)
      below == Reverse(SelectSeq(Ticks(p), LAMBDA t : t.index <= p.tick))
      end == FoldLeft(LAMBDA l, t : Crossed(l, t.net), CurrentLiquidity(p), above)
  IN  TickRungsOf(p, Walk(CurrentLiquidity(p), above, 1), Walk(end, below, -1))

\* populate_order_book of v3 and populate_virtual_order_book of v4: asks above the current
\* tick (for v4 also at it), then bids from the current tick down.
TickRungs(p) ==
  LET ticks == Ticks(p)
      above == SelectSeq(ticks, LAMBDA t : t.index > p.tick \/ (p.kind = "v4" /\ t.index = p.tick))
      below == Reverse(SelectSeq(ticks, LAMBDA t : t.index <= p.tick))
  IN  IF SqrtSpot(p.sqrt_price) <= 0 THEN <<>>
      ELSE TickRungsOf(p, Walk(CurrentLiquidity(p), above, 1), Walk(CurrentLiquidity(p), below, -1))

\* populate_virtual_order_book of Curve, for coins 1 and 2.
CurveRungs(p) ==
  LET around(spot) ==
        LET ask(bps) == Rung("store_ask", AskTarget(spot, bps), CurveQuantity(p, 1, 2, bps))
            bid(bps) == Rung("update_bid", BidTarget(spot, bps), CurveQuantity(p, 1, 2, bps))
        IN  IF spot <= 0 THEN <<>> ELSE Banded(ask, bid)
  IN  around(CurveSpot(p, 1, 2))

Rungs(p) ==
  CASE p.kind = "v2" -> V2Rungs(p)
    [] p.kind \in {"clmm", "v4"} -> TickRungs(p)
    [] p.kind = "curve" -> CurveRungs(p)

\* The book after each level, and once every level is written.
Writing(b, rungs) ==
  LET after[k \in 0..Len(rungs)] == IF k = 0 THEN b ELSE Write(after[k - 1], rungs[k])
  IN  after

WriteAll(b, rungs) == Writing(b, rungs)[Len(rungs)]

\* The sides where a level of the ladder replaces a price across the anchor.
SideOf(way) == IF way = "update_bid" THEN "bids" ELSE "asks"
FoldedBy(b, rungs) ==
  {SideOf(rungs[k].way) : k \in {m \in DOMAIN rungs :
     IsWritten(rungs[m]) /\ Folds(Writing(b, rungs)[m - 1][SideOf(rungs[m].way)], rungs[m].price)}}

Populate ==
  /\ pool.kind # "feed" /\ ladders < MaxLadders
  /\ \E rungs \in {Rungs(pool)} : book' = WriteAll(book, rungs) /\ folded' = folded \cup FoldedBy(book, rungs)
  /\ ladders' = ladders + 1 /\ synced' = TRUE
  /\ UNCHANGED <<bid_quantity, ask_quantity, crowded, pool, swaps, shift>>

-----------------------------------------------------------------------------
(* The chain and the mempool.                                              *)

MovePool(p) ==
  /\ swaps < MaxSwaps
  /\ pool' = p
  /\ swaps' = swaps + 1 /\ synced' = FALSE
  /\ UNCHANGED <<bookVars, ladders>>

\* A pending swap of a v2 pool is simulated, and then included as it was predicted.
V2Swap(is_buy, amount_in) ==
  /\ pool.kind = "v2"
  /\ MovePool(SimulatedPool(pool, is_buy, amount_in))
  /\ shift' = PredictedShift(pool, is_buy, amount_in)

\* A swap moves a concentrated pool to another tick.
TickMove(t) ==
  /\ pool.kind \in {"clmm", "v4"} /\ t # pool.tick
  /\ MovePool([pool EXCEPT !.tick = t, !.sqrt_price = SqrtPriceOf[t]])
  /\ UNCHANGED shift

\* A swap of the Curve pool for the output the pool computes.
CurveSwap(i, j, dx) ==
  /\ pool.kind = "curve" /\ i # j
  /\ SwapOutput(pool, i, j, dx) # NoAnswer
  /\ MovePool([pool EXCEPT !.raw_reserves[i] = @ + dx, !.raw_reserves[j] = @ - SwapOutput(pool, i, j, dx)])
  /\ UNCHANGED shift

AmmNext ==
  \/ FeedUpdate
  \/ Populate
  \/ \E b \in BOOLEAN, a \in SwapAmounts : V2Swap(b, a)
  \/ \E t \in DOMAIN SqrtPriceOf : TickMove(t)
  \/ /\ pool.kind = "curve"
     /\ \E i, j \in Coins(pool), a \in SwapAmounts : CurveSwap(i, j, a)

AmmSpec == AmmInit /\ [][AmmNext]_ammVars

-----------------------------------------------------------------------------
(* Properties                                                              *)

\* The book shows one ladder, of the pool as it is.
Fresh == ladders = 1 /\ synced

\* The best levels the book answers, after any sequence of new levels, changes, removals and
\* ladders written over each other, on both sides of the anchor: always a level with a
\* quantity while the side has one; the highest bid and the lowest ask of the array until a
\* price replaces one across the anchor, however many replace each other within a tick; and
\* the feed's own best until a price replaces another at all.  Asks only where they go
\* through update_ask.
BestLevelsExact ==
  /\ BidsExact
  /\ pool.kind \in {"feed", "v2"} => AsksExact
  /\ pool.kind = "feed" => FeedExact

\* A reserve of base x belongs to price p on the pool's curve, up to the rounding of the two
\* integer divisions and the root: x^2 * p is reserve_base^2 * spot.
OnCurve(p, x, price) ==
  LET exact == p.reserve_base * p.reserve_base * V2Spot(p)
      above == x + 1 + (p.reserve_base \div RatioScale) + 1
  IN  x * x * price <= exact /\ exact < above * above * price

\* The spot price of the pool fits in i64 and its products in u128, and so do those of a band
\* that moves it to target; the quantity of the band fits in u64.
SpotFits(p) ==
  /\ p.reserve_base > 0 /\ SpotNumerator(p) < Word /\ SpotDenominator(p) < Word
  /\ SpotNumerator(p) \div SpotDenominator(p) \in 1..I64Max
BandFits(p, target) ==
  LET moved == IF TargetBase(p, target) > p.reserve_base THEN TargetBase(p, target) - p.reserve_base
               ELSE p.reserve_base - TargetBase(p, target)
  IN  /\ target \in 1..I64Max /\ p.reserve_base * Ratio(p, target) < Word
      /\ moved * PriceScale < Word /\ (moved * PriceScale) \div p.base_unit < U64
ShareFits(p, bps) == V2Spot(p) * bps + V2Spot(p) <= I64Max

\* The level shows target, with a quantity that stands for an amount of base: bought from the
\* pool (way = -1) or sold to it (way = 1), it moves the pool onto its curve at that price.
\* The book counts in units of 1 / PriceScale, so that the amounts of a base token of more
\* decimals are known to a unit of the book.
ShowsMove(p, level, target, way) ==
  /\ level.price = target
  /\ \E amount \in ((level.quantity * p.base_unit) \div PriceScale)..(((level.quantity + 1) * p.base_unit) \div PriceScale) :
       (amount * PriceScale) \div p.base_unit = level.quantity /\ OnCurve(p, p.reserve_base + way * amount, target)

\* The depth of a v2 ladder is the pool's: taking the quantity of a band's level out of the
\* pool, or selling it into the pool, moves the pool to that level's price on the curve
\* x * y = k.  Of bands that share a level the last shows; a band has no level if its price
\* is that of the pool, up to the rounding.  Where the numbers fit their widths.
LadderOnCurve ==
  Fresh /\ pool.kind = "v2" /\ SpotFits(pool) =>
    \A k \in {m \in DOMAIN Bands : ShareFits(pool, Bands[m])} :
      LET shown(side, way, targets) ==
            /\ BandFits(pool, targets[k]) /\ InWindow(targets[k])
            /\ \A m \in DOMAIN Bands : m > k => Diff(targets[m]) # Diff(targets[k])
            => \/ ShowsMove(pool, side[Diff(targets[k])], targets[k], way)
               \/ OnCurve(pool, pool.reserve_base, targets[k])
      IN  /\ shown(book.asks, -1, [m \in DOMAIN Bands |-> AskTarget(V2Spot(pool), Bands[m])])
          /\ shown(book.bids, 1, [m \in DOMAIN Bands |-> BidTarget(V2Spot(pool), Bands[m])])

\* The ticks of each side of a concentrated pool, and the levels they should show: the
\* liquidity of the positions that span the prices up to the tick.
AskTicks(p) == {t \in TickSet(p) : t > p.tick}
BidTicks(p) == {t \in TickSet(p) : t <= p.tick /\ BidPrice(p, t) > 0}
AskLevel(p, t) ==
  [price |-> AskPrice(p, t),
   quantity |-> LiquidityWhere(p, LAMBDA r : r[1] < t /\ t <= r[2]) \div LiquidityUnit]
BidLevel(p, t) ==
  [price |-> BidPrice(p, t),
   quantity |-> LiquidityWhere(p, LAMBDA r : r[1] <= t /\ t < r[2]) \div LiquidityUnit]

\* A level shows the tick furthest out of those that fall into it: many ticks share a level.
AsksShow(p) ==
  \A t \in AskTicks(p) :
    LET idx == StoreIndex(AskPrice(p, t))
    IN  idx \in Indices /\ (\A u \in AskTicks(p) : u > t => StoreIndex(AskPrice(p, u)) # idx)
        => book.asks[idx] = AskLevel(p, t)
BidsShow(p) ==
  \A t \in BidTicks(p) :
    LET idx == Diff(BidPrice(p, t))
    IN  idx \in Indices /\ (\A u \in BidTicks(p) : u < t => Diff(BidPrice(p, u)) # idx)
        => book.bids[idx] = BidLevel(p, t)

\* Every level of a concentrated pool's ladder offers the liquidity of exactly the positions
\* that span the prices up to the tick it shows: positions opened and left on the way out are
\* counted once, those of ticks whose level is overwritten too.  Of ticks that share a level
\* the outermost shows.  For v4, where the current tick is no position's edge (see DepthAtEdge).
DepthIsPositions ==
  Fresh /\ pool.kind \in {"clmm", "v4"} /\ ~(pool.kind = "v4" /\ pool.tick \in TickSet(pool)) =>
    AsksShow(pool) /\ BidsShow(pool)

\* The same for a v4 pool whose current tick is an edge: "Asks (Selling Base for Quote above
\* current tick)" (v4.rs:160) includes that tick and applies its net liquidity again.
DepthAtEdge ==
  Fresh /\ pool.kind = "v4" => AsksShow(pool)

\* No bid above an ask.  Holds for one ladder, not once a moved pool has written a second
\* one over it: the levels of the first stay in the arrays.
NotCrossed ==
  pool.kind # "feed" =>
    \A i, j \in Indices :
      book.bids[i].quantity > 0 /\ book.asks[j].quantity > 0 => book.bids[i].price <= book.asks[j].price

\* The Curve solver's D solves the pool's invariant to within one unit, although it is
\* computed in limbs with truncated divisions: with K = n^n * x1 * ... * xn, the function
\* Ann * D * K + D^(n+1) - (Ann * S + D) * K changes sign around it.
InvariantSolved ==
  pool.kind = "curve" /\ 0 \notin Range(pool.raw_reserves) =>
    LET xp == Normalized(pool)
        n == Len(xp)
        K == FoldLeft(LAMBDA x, y : x * y, n ^ n, xp)
        S == FoldLeft(LAMBDA x, y : x + y, 0, xp)
        ann == Ann(pool).lo
        f(d) == (ann * (d - S) - d) * K + d ^ (n + 1)
        D == GetD(pool, xp)
    IN  f(D - 1) < 0 /\ f(D + 1) > 0

\* The output of a v2 swap, division-free: the largest that keeps the fee-weighted product.
FairSwap(p, q, in, out) ==
  LET weighted == p[in] * Bps + (q[in] - p[in]) * p.fee_numerator
      product == p[in] * Bps * p[out]
  IN  weighted * q[out] >= product /\ weighted * (q[out] - 1) < product

\* No swap costs the pool, and no trader is short-changed: a v2 pool gives out exactly what
\* the fee-weighted product allows.  A Curve swap leaves the pool at least its D, up to two
\* units of the coin given out: the output is rounded in the trader's favour, never by more.
SwapsKeepValue ==
  [][ /\ pool.kind = "v2" =>
           IF pool'.reserve_quote > pool.reserve_quote THEN FairSwap(pool, pool', "reserve_quote", "reserve_base")
           ELSE FairSwap(pool, pool', "reserve_base", "reserve_quote")
      /\ pool.kind = "curve" =>
           LET xp == Normalized(pool')
               topped == [i \in Coins(pool) |->
                            IF pool'.raw_reserves[i] < pool.raw_reserves[i] THEN xp[i] + 2 ELSE xp[i]]
           IN  GetD(pool', topped) >= GetD(pool, Normalized(pool)) ]_pool
=============================================================================
