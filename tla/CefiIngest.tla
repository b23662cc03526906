----------------------------- MODULE CefiIngest -----------------------------
(***************************************************************************)
(* The way of one market's messages: exchange text, parser, sequence       *)
(* tracker, encoder, client.  The exchange (external) sends one kind of    *)
(* message, chosen at the start; its sequence number is part of the text,  *)
(* so the tracker sees what the parser made of it.  Trades, OKX tickers    *)
(* and Raydium accounts are not numbered in a row and skip the tracker.    *)
(***************************************************************************)
EXTENDS SequenceTracker, Wire, FiniteSets

CONSTANTS Messages,      \* the messages an exchange may send, see Written
          MarketId

VARIABLES message,       \* what the exchange sends
          client         \* the last record a client decoded, and what was refused

ingest == <<message, client>>

Nobody == [sequence |-> 0, sbe |-> Err, other |-> Err, json |-> Err, refused |-> FALSE]

-----------------------------------------------------------------------------
(* The exchange (external): a number is its digits before and after the    *)
(* point; a value is its fields, apart from the sequence number.           *)

Text(n) == n.int \o (IF n.frac = <<>> THEN <<>> ELSE <<Dot>>) \o n.frac

KeysOf(m) == IF m.template = "trade" THEN TradeKeys[m.venue] ELSE BboKeys[m.venue]

SequenceKey(m) == CASE m.venue = "Binance" -> IF m.template = "trade" THEN "t" ELSE "u"
                    [] m.venue = "Okx" -> "ts"
                    [] OTHER -> "sequence"

\* The fields of the message that ends at event n: m.quoted are the keys written as a
\* string that is closed, m.absent those left out, m.before what precedes them.
Written(m, n) ==
  LET keys == KeysOf(m)
      digits[k \in Nat] == IF k < 10 THEN <<k>> ELSE digits[k \div 10] \o <<k % 10>>
      value(x) == [key |-> keys[x], kind |-> IF x \in m.quoted THEN "str" ELSE "open", text |-> Text(m[x])]
      values == IF m.template = "trade"
                THEN <<value("price"), value("size"),
                       [key |-> "side", kind |-> "str", text |-> IF m.sells THEN Sell ELSE <<OtherSymbol, OtherSymbol>>],
                       [key |-> "m", kind |-> IF m.sells THEN "true" ELSE "false", text |-> <<>>],
                       [key |-> "trade_id", kind |-> "int", text |-> digits[n]]>>
                ELSE <<value("bid"), value("bid_qty"), value("ask"), value("ask_qty")>>
      numbered == m.before \o values \o
                  << [key |-> SequenceKey(m), kind |-> IF m.venue = "Okx" THEN "str" ELSE "int",
                      text |-> IF m.venue = "Okx" THEN m.ms ELSE digits[n]],
                     [key |-> "E", kind |-> "int", text |-> m.ms], [key |-> "T", kind |-> "int", text |-> m.ms] >>
  IN  SelectSeq(numbered, LAMBDA f : f.key \notin m.absent)

-----------------------------------------------------------------------------

Parse(n) ==
  CASE message.venue = "Raydium" -> ParseRaydium(message, MarketId, n, n)
    [] message.venue # "Raydium" /\ message.template = "trade" ->
         ParseTrade(message.venue, Written(message, n), message.iso, MarketId, n)
    [] OTHER -> ParseBbo(message.venue, Written(message, n), message.iso, MarketId, n)

\* The router's encodings of an accepted record, decoded by an SBE and a JSON client;
\* "other" is what the decoder of the other template makes of the frame.
Delivered(m) ==
  LET frame == Frame(m)
      length == FrameLength[m.template]
      bbo == m.template = "bbo"
  IN  [sequence |-> m.sequence, refused |-> client.refused, json |-> FromJson(m.template, Serialize(m)),
       sbe |-> IF bbo THEN DecodeBbo(frame, length) ELSE DecodeTrade(frame, length),
       other |-> IF bbo THEN DecodeTrade(frame, length) ELSE DecodeBbo(frame, length)]

Tracked == message.venue \in {"Binance", "Coinbase"} /\ message.template = "bbo"

Refuse(d) ==
  /\ Parse(d.final) = Err
  /\ client' = [client EXCEPT !.refused = TRUE]
  /\ UNCHANGED <<trackerVars, message>>

\* The parsed sequence decides; the batch's first event is known to the caller.
Receive(d) ==
  LET m == Parse(d.final)
      seen == [first |-> d.first, final |-> m.sequence]
  IN  /\ m # Err /\ UNCHANGED message
      /\ \/ Tracked /\ Apply(seen) /\ client' = Delivered(m)
         \/ Tracked /\ Gap(seen) /\ UNCHANGED client
         \/ ~Tracked /\ client' = Delivered(m) /\ UNCHANGED trackerVars

IngestInit == TrackerInit /\ message \in Messages /\ client = Nobody

IngestNext ==
  \/ \E n \in 1..MaxSeq : Publish(n) /\ UNCHANGED ingest
  \/ \E s \in 0..published : OnSnapshot(s) /\ UNCHANGED ingest
  \/ \E d \in batches : Refuse(d) \/ Receive(d)

IngestSpec == IngestInit /\ [][IngestNext]_<<trackerVars, ingest>>

-----------------------------------------------------------------------------
(* Properties                                                              *)

\* The value of a number, cut to Decimals places.
Value(n) ==
  LET whole == n.int \o [i \in 1..Decimals |-> IF i <= Len(n.frac) THEN n.frac[i] ELSE 0]
  IN  FoldLeft(LAMBDA v, c : 10 * v + c, 0, whole)

Well(m) ==
  IF m.venue = "Raydium" THEN m.length >= 64
  ELSE /\ m.absent \cap {KeysOf(m)[x] : x \in m.quoted} = {}
       /\ m.quoted = IF m.template = "trade" THEN {"price", "size"} ELSE {"bid", "bid_qty", "ask", "ask_qty"}
       /\ m.venue = "Coinbase" => "sequence" \notin m.absent

\* What the exchange said is what every client reads, in SBE and in JSON: prices and sizes
\* cut to the last decimal, the side, the market and the number of the event.  A frame is
\* refused by the decoder of the other template, and only a message that lacks a value is
\* refused by the parser.
QuoteExact ==
  /\ client.refused => ~Well(message)
  /\ client.sbe # Err =>
       LET r == client.sbe
           m == message
       IN  /\ Well(m) /\ r = client.json /\ client.other = Err
           /\ r.market_id = MarketId /\ (m.venue # "Okx" => r.sequence \in 1..published)
           /\ CASE m.venue = "Raydium" -> r.bid_price <= r.ask_price
                [] m.venue # "Raydium" /\ m.template = "bbo" ->
                     /\ r.bid_price = Value(m.bid) /\ r.bid_qty = Value(m.bid_qty)
                     /\ r.ask_price = Value(m.ask) /\ r.ask_qty = Value(m.ask_qty)
                     /\ r.spread_bps = IF r.ask_price <= r.bid_price THEN 0
                                      ELSE ((r.ask_price - r.bid_price) * 10000) \div r.bid_price
                [] OTHER -> /\ r.price = Value(m.price) /\ r.size = Value(m.size)
                            /\ r.side = IF m.sells THEN 2 ELSE 1

\* The calendar: a year's days, a month's days, counted from 1970.
Leap(y) == y % 4 = 0 /\ (y % 100 # 0 \/ y % 400 = 0)
MonthDays(y) == <<31, IF Leap(y) THEN 29 ELSE 28, 31, 30, 31, 30, 31, 31, 30, 31, 30, 31>>
DaysSince1970(t) ==
  365 * (t.y - 1970) + Cardinality({y \in 1970..t.y - 1 : Leap(y)})
    + FoldLeft(LAMBDA n, k : n + k, 0, SubSeq(MonthDays(t.y), 1, t.m - 1)) + t.d - 1

\* Coinbase's time of day reaches the client as nanoseconds since 1970 by the calendar, leap
\* days and centuries included, with its fraction cut or filled up to FracDigits.
TimeExact ==
  client.sbe # Err /\ message.venue = "Coinbase" /\ message.iso.shape /\ message.iso.y >= 1970 =>
    LET t == message.iso
        days == DaysSince1970(t)
        clock == (t.hh * Minutes + t.mm) * Minutes + t.ss
        frac == FoldLeft(LAMBDA v, c : 10 * v + c, 0, [i \in 1..FracDigits |-> IF i <= Len(t.frac) THEN t.frac[i] ELSE 0])
    IN  client.json.t0 = (days * 24 * Minutes * Minutes + clock) * 10 ^ FracDigits + frac

\* The time of an OKX ticker is what the exchange wrote, in milliseconds (not a property of
\* the code: a time beyond the fixed-point range wraps).
OkxTimeExact ==
  client.sbe # Err /\ message.venue = "Okx" =>
    client.sbe.t0 = FoldLeft(LAMBDA v, c : 10 * v + c, 0, message.ms) * MsScale
=============================================================================
