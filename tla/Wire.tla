-------------------------------- MODULE Wire --------------------------------
(***************************************************************************)
(* The two wire formats of crates/distribution: SBE frames (sbe.rs) and    *)
(* JSON text (fast_json.rs).  A byte of a frame is symbolic: <<v, k>> is   *)
(* byte k of value v, little end first.  The offsets of the encoders and   *)
(* of the decoders are kept apart, as in the code.                         *)
(***************************************************************************)
EXTENDS Codecs

CONSTANT JsonRoom          \* symbols that fit the 512 byte buffer of the router

ASSUME JsonRoomAssumption == JsonRoom \in Nat

SchemaId == 1
SchemaVersion == 1
TemplateId == [bbo |-> 101, trade |-> 104]
BlockLength == [bbo |-> 84, trade |-> 85]
FrameLength == [bbo |-> 8 + 84, trade |-> 8 + 85 + 2]

\* SbeMessageHeader::write_to
Header(template) ==
  << <<BlockLength[template], 0, 2>>, <<TemplateId[template], 2, 2>>, <<SchemaId, 4, 2>>, <<SchemaVersion, 6, 2>> >>

Telemetry(m) == << <<m.t0, 8, 8>>, <<m.t1, 16, 8>>, <<m.t2, 24, 8>>, <<m.t3, 32, 8>> >>

\* quote_qty: (price * size) \div Scale in u128, whole and fraction of the price apart,
\* cut to u64.
QuoteQty(m) ==
  IF m.price > 0 THEN U64((m.price \div Scale) * m.size + ((m.price % Scale) * m.size) \div Scale) ELSE 0

\* The body of encode_bbo_sbe and encode_trade_sbe: value, offset and width.
Encoded(m) ==
  Telemetry(m) \o << <<m.venue, 40, 2>>, <<m.chain, 42, 2>>, <<m.market_id, 44, 4>>, <<m.sequence, 48, 8>> >> \o
    IF m.template = "bbo"
    THEN << <<m.bid_price, 56, 8>>, <<m.bid_qty, 64, 8>>, <<m.ask_price, 72, 8>>, <<m.ask_qty, 80, 8>>,
            <<m.spread_bps, 88, 2>>, <<m.flags, 90, 2>> >>
    ELSE << <<m.trade_id, 56, 8>>, <<m.side, 64, 1>>, <<m.price, 65, 8>>, <<m.size, 73, 8>>,
            <<QuoteQty(m), 81, 8>>, <<0, 89, 2>>, <<m.is_liquidation, 91, 1>>, <<1, 92, 1>>, <<0, 93, 2>> >>

\* A frame of FrameLength bytes; each write overwrites the bytes it covers.
Frame(m) ==
  LET write(buf, w) == [i \in DOMAIN buf |-> IF i \in w[2]..w[2] + w[3] - 1 THEN <<w[1], i - w[2]>> ELSE buf[i]]
  IN  FoldLeft(write, [i \in 0..FrameLength[m.template] - 1 |-> <<0, 0>>], Header(m.template) \o Encoded(m))

\* from_le_bytes: the value whose bytes these are, in order; Nothing for any other mix.
Read(frame, offset, width) ==
  LET v == frame[offset][1]
  IN  IF \A k \in 0..width - 1 : frame[offset + k] = <<v, k>> THEN v ELSE Nothing

\* The errors of decode_bbo_sbe and decode_trade_sbe: length, schema and template.
Decodable(frame, length, template) ==
  /\ length >= FrameLength[template]
  /\ Read(frame, 4, 2) = SchemaId
  /\ Read(frame, 2, 2) = TemplateId[template]

DecodeBbo(frame, length) ==
  IF ~Decodable(frame, length, "bbo") THEN Err
  ELSE [template |-> "bbo", t0 |-> Read(frame, 8, 8), t1 |-> Read(frame, 16, 8), t2 |-> Read(frame, 24, 8),
        t3 |-> Read(frame, 32, 8), venue |-> Read(frame, 40, 2), chain |-> Read(frame, 42, 2),
        market_id |-> Read(frame, 44, 4), sequence |-> Read(frame, 48, 8), bid_price |-> Read(frame, 56, 8),
        bid_qty |-> Read(frame, 64, 8), ask_price |-> Read(frame, 72, 8), ask_qty |-> Read(frame, 80, 8),
        spread_bps |-> Read(frame, 88, 2), flags |-> Read(frame, 90, 2)]

DecodeTrade(frame, length) ==
  IF ~Decodable(frame, length, "trade") THEN Err
  ELSE [template |-> "trade", t0 |-> Read(frame, 8, 8), t1 |-> Read(frame, 16, 8), t2 |-> Read(frame, 24, 8),
        t3 |-> Read(frame, 32, 8), venue |-> Read(frame, 40, 2), chain |-> Read(frame, 42, 2),
        market_id |-> Read(frame, 44, 4), sequence |-> Read(frame, 48, 8), trade_id |-> Read(frame, 56, 8),
        side |-> Read(frame, 64, 1), price |-> Read(frame, 65, 8), size |-> Read(frame, 73, 8),
        is_liquidation |-> Read(frame, 91, 1)]

-----------------------------------------------------------------------------
(* JSON text, as the sequence of its fields.                               *)

IntField(key, v) == [key |-> key, kind |-> "int", text |-> WriteU64(v)]
FixedField(key, v) == [key |-> key, kind |-> "str", text |-> WriteFixed8(v)]

\* serialize_bbo_json and serialize_trade_json; quantities are cast to i64.
JsonOf(m) ==
  << IntField("market_id", m.market_id), IntField("venue", m.venue), IntField("chain", m.chain),
     IntField("sequence", m.sequence) >> \o
  (IF m.template = "bbo"
   THEN << FixedField("bid_px", m.bid_price), FixedField("bid_qty", I64(m.bid_qty)),
           FixedField("ask_px", m.ask_price), FixedField("ask_qty", I64(m.ask_qty)),
           IntField("spread_bps", m.spread_bps), IntField("flags", m.flags) >>
   ELSE << IntField("trade_id", m.trade_id), FixedField("price", m.price), FixedField("size", I64(m.size)),
           IntField("side", m.side),
           [key |-> "is_liquidation", kind |-> IF m.is_liquidation = 1 THEN "true" ELSE "false", text |-> <<>>] >>) \o
  << IntField("t0", m.t0), IntField("t1", m.t1), IntField("t2", m.t2), IntField("t3", m.t3) >>

\* BufferTooSmall, or the text.
Serialize(m) ==
  LET symbols == FoldLeft(LAMBDA n, f : n + Len(f.text), 0, JsonOf(m))
  IN  IF symbols > JsonRoom THEN <<>> ELSE JsonOf(m)

\* What a client reads from the text, with the field and number rules of the parsers.
FromJson(template, fields) ==
  LET int(key) == IntOf(fields, key)
      fixed(key) == ParseFixed8(Str(fields, key))
      common == [template |-> template, t0 |-> int("t0"), t1 |-> int("t1"), t2 |-> int("t2"), t3 |-> int("t3"),
                 market_id |-> int("market_id"), venue |-> int("venue"), chain |-> int("chain"),
                 sequence |-> int("sequence")]
  IN  IF template = "bbo"
      THEN common @@ [bid_price |-> fixed("bid_px"), bid_qty |-> U64(fixed("bid_qty")),
                      ask_price |-> fixed("ask_px"), ask_qty |-> U64(fixed("ask_qty")),
                      spread_bps |-> int("spread_bps"), flags |-> int("flags")]
      ELSE common @@ [trade_id |-> int("trade_id"), price |-> fixed("price"), size |-> U64(fixed("size")),
                      side |-> int("side"), is_liquidation |-> IF Bool(fields, "is_liquidation") THEN 1 ELSE 0]
=============================================================================
