------------------------------- MODULE Codecs -------------------------------
(***************************************************************************)
(* From an exchange's text to the records of crates/ingest-models:         *)
(* decimals, timestamps, JSON fields and the parsers of each venue         *)
(* (crates/cefi-ingest, core-engine, onchain-ingest), and the writers of   *)
(* decimals of crates/distribution.                                        *)
(*                                                                         *)
(* A text is a sequence of symbols: the digits 0 to 9, Dot, Minus and one  *)
(* symbol for every other character.  A JSON text is the sequence of its   *)
(* fields in the order they appear; that is all first-match search sees.   *)
(***************************************************************************)
EXTENDS Integers, Sequences, SequencesExt

CONSTANTS Decimals,        \* 8, an even number: the digits of a fixed-point number
          IntWord,         \* 2^64
          Minutes,         \* 60: minutes of an hour and seconds of a minute
          FracDigits,      \* 9: the digits of a fraction of a second
          MsScale          \* 10^6: nanoseconds of a millisecond

ASSUME CodecAssumption ==
  /\ Decimals \in Nat /\ Decimals % 2 = 0
  /\ {IntWord, Minutes, FracDigits, MsScale} \subseteq Nat \ {0} /\ IntWord % 2 = 0

Dot == 10
Minus == 11
OtherSymbol == 12
Sell == <<OtherSymbol>>      \* the text "sell"
IsDigit(c) == c \in 0..9

Nothing == -(IntWord \div 2)     \* None, or a field's error; no value of a valid message
Scale == 10 ^ Decimals
Bps == 10000
U16 == 65536

\* i64 arithmetic wraps in a release build; `as u64` and `as i64` keep the bits.
I64(x) == ((x + (IntWord \div 2)) % IntWord) - (IntWord \div 2)
U64(x) == x % IntWord
\* Integer division cuts towards zero.
Quot(x, n) == IF x < 0 THEN -((-x) \div n) ELSE x \div n

-----------------------------------------------------------------------------
(* Decimal numbers.                                                        *)

\* parse_fixed_point_8: digits are collected, a dot starts the count of decimals (again),
\* anything else is skipped; then the value is brought to Decimals places, cutting.
ParseFixed8(text) ==
  LET negative == Len(text) > 0 /\ text[1] = Minus
      step(acc, c) ==
        CASE c = Dot -> [acc EXCEPT !.places = 0]
          [] IsDigit(c) -> [value |-> I64(acc.value * 10 + c),
                            places |-> IF acc.places < 0 THEN -1 ELSE acc.places + 1]
          [] OTHER -> acc
      read == FoldLeft(step, [value |-> 0, places |-> -1], text)
      shift == Decimals - (IF read.places < 0 THEN 0 ELSE read.places)
      scaled == IF shift < 0 THEN Quot(read.value, 10 ^ (-shift))
                ELSE FoldLeft(LAMBDA n, k : I64(n * 10), read.value, [k \in 1..shift |-> k])
  IN  IF negative THEN -scaled ELSE scaled

\* write_u64: two digits at a time from the right, the first one or two apart.
WriteU64(v) ==
  LET pair(n) == <<n \div 10, n % 10>>
      digits[n \in Nat] ==
        CASE n >= 100 -> digits[n \div 100] \o pair(n % 100)
          [] n < 10 -> <<n>>
          [] OTHER -> pair(n)
  IN  digits[v]

\* Mutant: the fraction is written without its leading zeros.
WriteFixed8_NoPadding(v) == WriteU64(v \div Scale) \o <<Dot>> \o WriteU64(v % Scale)

\* write_fixed_point_8: the fraction is filled with pairs from the right, zeros before.
WriteFixed8(v) ==
  LET abs == IF v < 0 THEN -v ELSE v
      frac[n \in 0..Scale, pairs \in 0..Decimals] ==
        IF pairs = 0 THEN <<>> ELSE frac[n \div 100, pairs - 1] \o <<(n % 100) \div 10, n % 10>>
  IN  (IF v < 0 THEN <<Minus>> ELSE <<>>) \o WriteU64(abs \div Scale) \o <<Dot>>
        \o frac[abs % Scale, Decimals \div 2]

-----------------------------------------------------------------------------
(* JSON fields: [key, kind, text]; kind says how the value starts, "open" *)
(* is a string the message ends in.                                        *)

\* find_subsequence: the first field of that key.
Find(fields, key) ==
  LET at == SelectInSeq(fields, LAMBDA f : f.key = key)
  IN  IF at = 0 THEN [key |-> key, kind |-> "none", text |-> <<>>] ELSE fields[at]

\* extract_json_str_field succeeds on a quoted value only.
HasStr(fields, key) == Find(fields, key).kind = "str"
Str(fields, key) == Find(fields, key).text

\* extract_json_int_field: the digits at the start, quoted or not; Nothing without one.
IntOf(fields, key) ==
  LET f == Find(fields, key)
      stop == SelectInSeq(f.text, LAMBDA c : ~IsDigit(c))
      digits == IF stop = 0 THEN f.text ELSE SubSeq(f.text, 1, stop - 1)
  IN  IF f.kind \in {"str", "open", "int"} /\ digits # <<>>
      THEN FoldLeft(LAMBDA n, c : U64(n * 10 + c), 0, digits) ELSE Nothing

\* extract_json_bool_field, unwrap_or(false)
Bool(fields, key) == Find(fields, key).kind = "true"

OrZero(x) == IF x = Nothing THEN 0 ELSE x

-----------------------------------------------------------------------------
(* Timestamps.                                                             *)

\* Days since 1970-01-01, by Hinnant's algorithm; years are not negative here.
\* Mutant: the year still starts in January.
Days_JanuaryYear(y, m, d) ==
  y * 365 + (y \div 4) - (y \div 100) + (y \div 400) + ((153 * ((m + 9) % 12) + 2) \div 5) + d - 1 - 719468

Days(y, m, d) ==
  LET year == IF m <= 2 THEN y - 1 ELSE y
      era == year \div 400
      yoe == year - era * 400
      doy == ((153 * ((m + 9) % 12) + 2) \div 5) + d - 1
      doe == yoe * 365 + (yoe \div 4) - (yoe \div 100) + doy
  IN  era * 146097 + doe - 719468

\* parse_iso8601_utc_ns: t.shape says that the separators, digits and the final Z are in
\* place.  Fractions are cut or padded to FracDigits.
ParseIso(t) ==
  LET padded == [i \in 1..FracDigits |-> IF i <= Len(t.frac) THEN t.frac[i] ELSE 0]
      frac == FoldLeft(LAMBDA n, c : n * 10 + c, 0, padded)
      days == Days(t.y, t.m, t.d)
      secs == ((days * 24 + t.hh) * Minutes + t.mm) * Minutes + t.ss
  IN  IF /\ t.shape /\ t.m \in 1..12 /\ t.d \in 1..31
         /\ t.hh <= 23 /\ t.mm < Minutes /\ t.ss <= Minutes /\ days >= 0
      THEN secs * 10 ^ FracDigits + frac ELSE Nothing

-----------------------------------------------------------------------------
(* Parsers: each venue's names of the fields.  A record is Nothing-free or *)
(* an Err.                                                                 *)

Err == [template |-> "err"]

\* The spread in basis points, cut to u16.
SpreadBps(bp, ap) == IF ap > bp /\ bp > 0 THEN Quot(I64((ap - bp) * Bps), bp) % U16 ELSE 0

BboKeys ==
  [Binance  |-> [bid |-> "b", bid_qty |-> "B", ask |-> "a", ask_qty |-> "A", venue |-> 1],
   Okx      |-> [bid |-> "bidPx", bid_qty |-> "bidSz", ask |-> "askPx", ask_qty |-> "askSz", venue |-> 4],
   Coinbase |-> [bid |-> "best_bid", bid_qty |-> "best_bid_size", ask |-> "best_ask",
                 ask_qty |-> "best_ask_size", venue |-> 2]]

\* OKX has no sequence: the time, read as a fixed-point number, stands for it.
OkxTime(fields) == IF HasStr(fields, "ts") THEN U64(ParseFixed8(Str(fields, "ts"))) \div Scale ELSE 0

Sequence(venue, fields) ==
  CASE venue = "Binance" -> OrZero(IntOf(fields, "u"))
    [] venue = "Okx" -> OkxTime(fields)
    [] venue = "Coinbase" -> IntOf(fields, "sequence")

\* t0 in nanoseconds; iso is the value of Coinbase's "time".
ExchangeTime(venue, fields, iso) ==
  CASE venue = "Binance" -> OrZero(IntOf(fields, "E")) * MsScale
    [] venue = "Okx" -> OkxTime(fields) * MsScale
    [] venue = "Coinbase" -> OrZero(ParseIso(iso))

\* parse_binance_bbo, parse_okx_bbo, parse_coinbase_ticker_bbo
ParseBbo(venue, fields, iso, market_id, t1) ==
  LET k == BboKeys[venue]
      bp == ParseFixed8(Str(fields, k.bid))
      ap == ParseFixed8(Str(fields, k.ask))
  IN  IF (\E x \in {k.bid, k.bid_qty, k.ask, k.ask_qty} : ~HasStr(fields, x)) \/ Sequence(venue, fields) = Nothing
      THEN Err
      ELSE [template |-> "bbo", t0 |-> ExchangeTime(venue, fields, iso), t1 |-> t1, t2 |-> 0, t3 |-> 0,
            market_id |-> market_id, venue |-> k.venue, chain |-> 0, sequence |-> Sequence(venue, fields),
            bid_price |-> bp, bid_qty |-> U64(ParseFixed8(Str(fields, k.bid_qty))),
            ask_price |-> ap, ask_qty |-> U64(ParseFixed8(Str(fields, k.ask_qty))),
            spread_bps |-> SpreadBps(bp, ap), flags |-> 0]

TradeKeys ==
  [Binance  |-> [price |-> "p", size |-> "q", id |-> "t", venue |-> 1],
   Coinbase |-> [price |-> "price", size |-> "last_size", id |-> "trade_id", venue |-> 2]]

\* parse_binance_trade, parse_coinbase_ticker_trade.
ParseTrade(venue, fields, iso, market_id, t1) ==
  LET k == TradeKeys[venue]
      binance == venue = "Binance"
      missing == \/ \E x \in {k.price, k.size} : ~HasStr(fields, x)
                 \/ ~binance /\ (~HasStr(fields, "side") \/ IntOf(fields, k.id) = Nothing)
      sells == IF binance THEN Bool(fields, "m") ELSE Str(fields, "side") = Sell
  IN  IF missing THEN Err
      ELSE [template |-> "trade", t0 |-> IF binance THEN OrZero(IntOf(fields, "T")) * MsScale ELSE OrZero(ParseIso(iso)), t1 |-> t1,
            t2 |-> 0, t3 |-> 0, market_id |-> market_id, venue |-> k.venue, chain |-> 0,
            sequence |-> OrZero(IntOf(fields, IF binance THEN k.id ELSE "sequence")),
            trade_id |-> OrZero(IntOf(fields, k.id)), price |-> ParseFixed8(Str(fields, k.price)),
            size |-> U64(ParseFixed8(Str(fields, k.size))),
            side |-> IF sells THEN 2 ELSE 1, is_liquidation |-> 0]

\* parse_raydium_clmm_account: account data is its length and the 64-bit price at byte 16.
\* The bid saturates at the largest i64, the ask is 5 bps above it.
ParseRaydium(account, market_id, slot, t1) ==
  LET top == (IntWord \div 2) - 1
      product == I64(account.raw_price) * 100
      bid == IF product > top THEN top ELSE IF product < -top THEN -top - 1 ELSE product
      spread == Quot(I64(bid * 5), Bps)
  IN  IF account.length < 64 THEN Err
      ELSE [template |-> "bbo", t0 |-> slot * 400 * MsScale, t1 |-> t1, t2 |-> 0, t3 |-> 0,
            market_id |-> market_id, venue |-> 201, chain |-> 501, sequence |-> slot,
            bid_price |-> bid, bid_qty |-> 100 * Scale, ask_price |-> I64(bid + spread),
            ask_qty |-> 100 * Scale, spread_bps |-> 5, flags |-> 1]
=============================================================================
