------------------------------ MODULE AmmPools ------------------------------
(***************************************************************************)
(* The arithmetic of crates/amm-virtualizer and of the speculative swaps   *)
(* of crates/onchain-ingest, as operators on pools: integer square root,   *)
(* constant product (v2), concentrated liquidity (v3, v4 with hooks) and   *)
(* Curve's stableswap.  The decimal scales are constants.  Release builds  *)
(* wrap: products that can leave u128 are cut to Word, prices to i64 and   *)
(* quantities to u64.                                                      *)
(***************************************************************************)
EXTENDS U256, Sequences, SequencesExt

CONSTANTS PriceScale,      \* 10^8
          Bps,             \* 10_000
          RatioScale,      \* 10^9: square roots of prices are scaled by it
          Word,            \* 2^128
          U64,             \* 2^64
          U16,             \* 2^16
          LiquidityUnit,   \* 10^9: liquidity per unit of quantity
          TickStep,        \* 100: price per tick
          SqrtShift,       \* 2^48: the bits of sqrt_price_x96 that are dropped
          SquareShift,     \* 2^32: the bits of the square that are dropped
          FractionScale,   \* 2^64: the fraction that remains
          UnitScale        \* 10^18: one token, normalised

ASSUME ScaleAssumption ==
  /\ {PriceScale, Bps, RatioScale, Word, U64, U16, LiquidityUnit, TickStep} \subseteq Nat \ {0} /\ U64 <= Word
  /\ {SqrtShift, SquareShift, FractionScale, UnitScale} \subseteq Nat \ {0}

NoAnswer == -1      \* Option::None

\* `as i64`, and i64 arithmetic that wraps.
I64Max == (U64 \div 2) - 1
AsI64(n) == IF n % U64 > I64Max THEN (n % U64) - U64 ELSE n % U64

\* saturating_sub, and division towards zero.
Saturated(n) == IF n > I64Max THEN I64Max ELSE IF n < -I64Max - 1 THEN -I64Max - 1 ELSE n
Truncated(n, d) == IF n >= 0 THEN n \div d ELSE -((-n) \div d)

\* Mutant: the loop stops one step early.
IntegerSqrt_Early(n) == IF n < 2 THEN n ELSE ((n \div 2) + n \div (n \div 2)) \div 2

\* integer_sqrt: Newton's iteration from n / 2, as long as it falls.
IntegerSqrt(n) ==
  LET x1(x0) == (x0 + (n \div x0)) \div 2
      from[x0 \in 1..n] == IF x1(x0) < x0 THEN from[x1(x0)] ELSE x0
  IN  CASE n = 0 -> 0 [] n = 1 -> 1 [] OTHER -> from[n \div 2]

-----------------------------------------------------------------------------
(* Uniswap v2.  base_unit and quote_unit stand for 10^decimals.            *)

\* spot_price_scaled, from the decimals of either token.  A denominator that wraps to 0
\* panics; here it gives no price.
SpotNumerator(pool) ==
  pool.reserve_quote * (IF pool.base_unit >= pool.quote_unit THEN pool.base_unit \div pool.quote_unit ELSE 1)
    * PriceScale
SpotDenominator(pool) ==
  pool.reserve_base * (IF pool.base_unit >= pool.quote_unit THEN 1 ELSE pool.quote_unit \div pool.base_unit)

V2Spot(pool) ==
  IF SpotDenominator(pool) % Word = 0 THEN 0
  ELSE AsI64((SpotNumerator(pool) % Word) \div (SpotDenominator(pool) % Word))

\* sqrt(spot / target); target as u128.  spot is an i64, so that the product fits.
Ratio(pool, target) == IntegerSqrt((V2Spot(pool) * RatioScale * RatioScale) \div (target % Word))

\* reserve_base once the price is target: reserve_base * sqrt(spot / target)
TargetBase(pool, target) == ((pool.reserve_base * Ratio(pool, target)) % Word) \div RatioScale

\* The part of a price that a band or a fee adds or takes.
Share(price, part, whole) == Truncated(AsI64(price * part), whole)

AskTarget(spot, bps) == AsI64(spot + Share(spot, bps, Bps))
BidTarget(spot, bps) == Saturated(spot - Share(spot, bps, Bps))

\* An amount of base in the units of the book.
Quantity(pool, amount) == (((amount * PriceScale) % Word) \div pool.base_unit) % U64

\* The quantities of the two levels of a band; NoAnswer where the code writes no level.
V2AskQuantity(pool, target) ==
  IF target % Word > 0 /\ pool.reserve_base > TargetBase(pool, target)
  THEN Quantity(pool, pool.reserve_base - TargetBase(pool, target)) ELSE NoAnswer

V2BidQuantity(pool, target) ==
  IF target > 0 /\ TargetBase(pool, target) > pool.reserve_base
  THEN Quantity(pool, TargetBase(pool, target) - pool.reserve_base) ELSE NoAnswer

\* Mutant: the fee is left out of the denominator.
AmountOut_NoFee(pool, reserve_in, reserve_out, amount_in) ==
  (amount_in * pool.fee_numerator * reserve_out) \div (reserve_in * Bps + amount_in * Bps)

\* simulate_pending_swap: what the pool gives for amount_in, and the reserves it would have.
\* The products are u128 and wrap in a release build.
AmountOut(pool, reserve_in, reserve_out, amount_in) ==
  LET with_fee == (amount_in * pool.fee_numerator) % Word
      denominator == (reserve_in * Bps + with_fee) % Word
  IN  IF denominator > 0 THEN ((with_fee * reserve_out) % Word) \div denominator ELSE NoAnswer

SimulatedPool(pool, is_buy, amount_in) ==
  LET in  == IF is_buy THEN "reserve_quote" ELSE "reserve_base"
      out == IF is_buy THEN "reserve_base" ELSE "reserve_quote"
      amount_out == AmountOut(pool, pool[in], pool[out], amount_in)
  IN  IF amount_out # NoAnswer /\ pool[out] > amount_out
      THEN [pool EXCEPT ![out] = @ - amount_out, ![in] = @ + amount_in] ELSE pool

\* The event it emits; min_amount_out is not looked at.
PredictedShift(pool, is_buy, amount_in) ==
  LET before == V2Spot(pool)
      after == V2Spot(SimulatedPool(pool, is_buy, amount_in))
      moved == IF after > before THEN after - before ELSE before - after
  IN  IF before <= 0 THEN NoAnswer
      ELSE [predicted_spot_price |-> after, price_impact_bps |-> ((moved * Bps) \div before) % U16]

-----------------------------------------------------------------------------
(* Concentrated liquidity: v3 pools, and v4 pools with their fee and hooks. *)

\* spot_price_scaled: the square of the root's upper bits, rounded.
SqrtSpot(sqrt_price) ==
  LET sp == sqrt_price \div SqrtShift
      scaled == (((sp * sp) % Word) \div SquareShift) * PriceScale + (FractionScale \div 2)
  IN  AsI64((scaled % Word) \div FractionScale)

\* effective_fee_bps; fee is in hundredths of a basis point, override is NoAnswer for None.
EffectiveFee(key, hook) ==
  LET base == IF key.dynamic THEN (IF hook.override = NoAnswer THEN 30 ELSE hook.override)
              ELSE (key.fee \div 100) % U16
      adjusted == base + hook.delta
      clamped == IF adjusted < 0 THEN 0 ELSE IF adjusted > Bps THEN Bps ELSE adjusted
  IN  IF key.before_swap THEN clamped ELSE base

\* Crossing a tick upwards or downwards; liquidity saturates at 0.
Crossed(liquidity, net) == IF liquidity + net < 0 THEN 0 ELSE liquidity + net

\* One level per tick on the way out from the current tick: its distance and the liquidity
\* active before it is crossed, for ticks in the order of the walk.
Walk(liquidity, ticks, sign) ==
  LET step(acc, t) ==
        [active |-> Crossed(acc.active, sign * t.net),
         levels |-> Append(acc.levels, [tick |-> t.index, quantity |-> acc.active \div LiquidityUnit])]
  IN  FoldLeft(step, [active |-> liquidity, levels |-> <<>>], ticks).levels

-----------------------------------------------------------------------------
(* Curve's stableswap, on 256-bit integers.  The amplification is at least *)
(* 1, so the denominators of the iterations are only those checked here.   *)

Coins(pool) == 1..Len(pool.raw_reserves)

\* normalized_reserves
Normalized(pool) == [i \in Coins(pool) |-> pool.raw_reserves[i] * pool.multipliers[i]]

Ann(pool) == FromU128(pool.a * (IF Len(pool.raw_reserves) = 2 THEN 4 ELSE 27))
CoinCount(pool) == FromU128(Len(pool.raw_reserves))

\* At most one apart, in either order: the end of both iterations.
Close(a, b) == LET d == IF Less(a, b) THEN Sub(b, a) ELSE Sub(a, b) IN ~Less(One, d)

\* Mutant: the factor n of each balance is forgotten.
DProduct_NoN(pool, xp, d) == FoldLeft(LAMBDA d_p, x : Div(Mul(d_p, d), FromU128(x)), d, xp)

\* d_p of get_d: d^(n+1) / (n^n * product of the balances), dividing at each factor.
DProduct(pool, xp, d) ==
  FoldLeft(LAMBDA d_p, x : Div(Mul(d_p, d), Mul(FromU128(x), CoinCount(pool))), d, xp)

\* Newton's step for the invariant: from d, with d_p above and s the sum of the balances.
NextD(pool, s, d, d_p) ==
  Div(Mul(Add(Mul(Ann(pool), FromU128(s)), Mul(d_p, CoinCount(pool))), d),
      Add(Mul(Sub(Ann(pool), One), d), Mul(Add(CoinCount(pool), One), d_p)))

\* get_d: the iteration starts from the sum of the balances.
GetD(pool, xp) ==
  LET s == FoldLeft(LAMBDA x, y : x + y, 0, xp)
      round[k \in 0..255, d \in U256] ==
        LET new == NextD(pool, s, d, DProduct(pool, xp, d))
        IN  IF k = 255 \/ Close(new, d) THEN new ELSE round[k + 1, new]
  IN  CASE s = 0 -> 0
        [] s > 0 /\ \E i \in Coins(pool) : xp[i] = 0 -> NoAnswer
        [] OTHER -> round[1, FromU128(s)].lo

\* The balances get_y works with: x for coin i, those of the other coins, not that of j.
Others(pool, i, j, x, xp) ==
  LET value(k) == IF k = i THEN x ELSE xp[k]
      kept == SelectSeq([k \in Coins(pool) |-> k], LAMBDA k : k # j)
  IN  [k \in DOMAIN kept |-> value(kept[k])]

\* Newton's iteration of get_y for y^2 + (b - d) * y = c, from d.
SolveY(b, c, d) ==
  LET sum(y) == Add(Mul(FromU128(2), y), b)
      round[k \in 0..255, y \in U256] ==
        LET new == Div(Add(Mul(y, y), c), Sub(sum(y), d))
        IN  CASE ~Less(d, sum(y)) -> NoAnswer
              [] Less(d, sum(y)) /\ (k = 255 \/ Close(new, y)) -> new.lo
              [] OTHER -> round[k + 1, new]
  IN  round[1, d]

\* The balance that completes the others to d: the coefficients, then the iteration.
YForD(pool, others, d) ==
  LET s == FoldLeft(LAMBDA a, b : a + b, 0, others)
      spread == FoldLeft(LAMBDA c, v : Div(Mul(c, d), Mul(FromU128(v), CoinCount(pool))), d, others)
  IN  SolveY(Add(FromU128(s), Div(d, Ann(pool))), Div(Mul(spread, d), Mul(Ann(pool), CoinCount(pool))), d)

\* get_y: the balance of coin j that keeps D when that of coin i becomes x.
GetY(pool, i, j, x, xp) ==
  LET others == Others(pool, i, j, x, xp)
      keeping(d) == IF d = NoAnswer \/ 0 \in Range(others) THEN NoAnswer
                    ELSE YForD(pool, others, FromU128(d))
  IN  keeping(GetD(pool, xp))

\* calculate_swap_output once the new balance y of coin j is known, in its native units.
AfterFee(pool, j, y) ==
  LET dy == Normalized(pool)[j] - y
  IN  IF y = NoAnswer \/ dy <= 0 THEN NoAnswer
      ELSE (dy - ((dy * pool.fee_bps) \div Bps)) \div pool.multipliers[j]

\* calculate_swap_output.
SwapOutput(pool, i, j, dx) ==
  LET xp == Normalized(pool)
  IN  AfterFee(pool, j, GetY(pool, i, j, xp[i] + dx * pool.multipliers[i], xp))

\* An output as a fixed-point amount of tokens.
Scaled(pool, j, dy, otherwise) ==
  IF dy = NoAnswer THEN otherwise ELSE (dy * pool.multipliers[j] * PriceScale) \div UnitScale

\* spot_price_scaled: what one token buys; PriceScale where there is no answer.
CurveSpot(pool, i, j) == Scaled(pool, j, SwapOutput(pool, i, j, UnitScale \div pool.multipliers[i]), PriceScale)

\* The quantity both levels of a band get: the output for that share of coin i.
CurveQuantity(pool, i, j, bps) ==
  Scaled(pool, j, SwapOutput(pool, i, j, (pool.raw_reserves[i] * bps) \div Bps), NoAnswer)
=============================================================================
