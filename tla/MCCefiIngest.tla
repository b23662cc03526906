---------------------------- MODULE MCCefiIngest ----------------------------
\* An instance of CefiIngest: the messages of each venue, whole and damaged.
EXTENDS CefiIngest

Num(i, f) == [int |-> i, frac |-> f]
Sizes == {Num(<<0>>, <<0, 0, 0, 1>>), Num(<<7>>, <<>>)}
Ask == Num(<<9, 9>>, <<0, 0, 5>>)
Pairs == {<<Num(<<2, 5>>, <<3, 5, 1>>), Num(<<2, 5>>, <<3, 6>>)>>, <<Num(<<0>>, <<0, 9, 9, 9, 9, 9>>), Num(<<0>>, <<1>>)>>,
          <<Num(<<9, 9>>, <<0, 0, 0, 7>>), Ask>>, <<Ask, Num(<<9, 9>>, <<>>)>>}

Noon(yy, mo, dd) ==
  [shape |-> TRUE, y |-> yy, m |-> mo, d |-> dd, hh |-> 23, mm |-> 2, ss |-> 1, frac |-> <<4, 2>>]
Epoch == [shape |-> TRUE, y |-> 1970, m |-> 1, d |-> 1, hh |-> 0, mm |-> 0, ss |-> 0, frac |-> <<>>]
Dates == {Epoch, [Epoch EXCEPT !.shape = FALSE], Noon(1972, 2, 29), Noon(1999, 12, 31), Noon(2000, 2, 29),
          Noon(2000, 3, 1), Noon(2026, 7, 4), Noon(2100, 2, 28), Noon(2100, 3, 1)}

Values == {"bid", "bid_qty", "ask", "ask_qty"}
Quote(v, p, q, t, absent, quoted) ==
  [template |-> "bbo", venue |-> v, bid |-> p[1], bid_qty |-> q, ask |-> p[2], ask_qty |-> Num(<<1, 2>>, <<5>>),
   iso |-> t, ms |-> <<1, 6>>, absent |-> absent, quoted |-> quoted,
   before |-> <<[key |-> "e", kind |-> "str", text |-> Sell]>>]
Venues == {"Binance", "Okx", "Coinbase"}

Quotes == {Quote(v, p, q, Epoch, {}, Values) : v \in Venues, p \in Pairs, q \in Sizes}
Dated == {Quote("Coinbase", <<Ask, Ask>>, Ask, t, {}, Values) : t \in Dates}
Damaged == {Quote(v, <<Ask, Ask>>, Ask, Epoch, absent, quoted) :
              v \in Venues, absent \in {{}, {"a", "askPx", "best_ask"}, {"sequence"}}, quoted \in {Values, Values \ {"bid"}}}
Trades == {[template |-> "trade", venue |-> v, price |-> p[1], size |-> q, sells |-> s, iso |-> Noon(2024, 2, 29),
            ms |-> <<1, 6>>, absent |-> absent, quoted |-> {"price", "size"}, before |-> <<>>] :
             v \in {"Binance", "Coinbase"}, p \in Pairs, q \in Sizes, s \in BOOLEAN, absent \in {{}, {"p", "price"}}}
Accounts == {[template |-> "bbo", venue |-> "Raydium", length |-> n, raw_price |-> r] :
               n \in {63, 64}, r \in {0, 9999, 130000}}

MCMessages == Quotes \cup Dated \cup Damaged \cup Trades \cup Accounts

\* A time of 13 digits in 64 bits, one of 5 digits here.
MCLateTickers == {[Quote("Okx", <<Ask, Ask>>, Ask, Epoch, {}, Values) EXCEPT !.ms = <<1, 3, 4, 2, 2>>]}
=============================================================================
