--------------------------- MODULE LiveFeedProofs ---------------------------
(***************************************************************************)
(* Proofs about LiveFeed, for any finite set of products, any bounds and   *)
(* any number of faults: a trade reaches the sink at most once and in      *)
(* order, and a trade missing from the stream costs the baseline.          *)
(***************************************************************************)
EXTENDS LiveFeed, FiniteSetTheorems, SequenceTheorems, TLAPS

-----------------------------------------------------------------------------
(* The inductive invariant                                                 *)

Feed ==
  [type : {"ticker"}, product : Products, seq : Nat, trade : Nat \ {0}, snapshot : BOOLEAN]
    \cup [type : {"heartbeat"}, product : Products, seq : Nat, trade : Nat]
    \cup [type : {"error", "subscriptions", "malformed"}]

IsTicker(m) == m.type = "ticker"

\* The tickers in flight come in the order of their trades: none is older than what was
\* handed on, none newer than the last trade.
Fed(w, handed, last) ==
  /\ \A i \in 1..Len(w) : IsTicker(w[i]) =>
       handed[w[i].product] <= w[i].trade /\ w[i].trade <= last[w[i].product]
  /\ \A i, j \in 1..Len(w) :
       i < j /\ IsTicker(w[i]) /\ IsTicker(w[j]) /\ w[i].product = w[j].product
         => w[i].trade <= w[j].trade

Types ==
  /\ trades \in [Products -> Nat \ {0}]
  /\ seq \in [Products -> Nat] /\ tick_seq \in [Products -> Nat]
  /\ wire \in Seq(Feed)
  /\ last_seq \in [Products -> Nat] /\ last_trade_id \in [Products -> Nat]
  /\ base \in [Products -> Nat] /\ max_emitted_trade_id \in [Products -> Nat]
  /\ emitted \in [Products -> Seq(Nat)]

WireInv == Fed(wire, max_emitted_trade_id, trades)

\* What was handed on is in order and ends with max_emitted_trade_id.
HandedInv(p) ==
  /\ max_emitted_trade_id[p] <= trades[p]
  /\ \A i \in 1..Len(emitted[p]) : emitted[p][i] <= max_emitted_trade_id[p]
  /\ \A i, j \in 1..Len(emitted[p]) : i < j => emitted[p][i] < emitted[p][j]
  /\ max_emitted_trade_id[p] # 0 => max_emitted_trade_id[p] \in ToSet(emitted[p])

\* The three parts of a baseline are set and dropped together, and what lies between its
\* first and its last trade was handed on.
BaselineInv(p) ==
  /\ last_seq[p] # None => last_trade_id[p] # None
  /\ last_trade_id[p] = None <=> base[p] = None
  /\ last_trade_id[p] # None => (base[p]..last_trade_id[p]) \subseteq ToSet(emitted[p])

IndInv == Types /\ WireInv /\ \A p \in Products : HandedInv(p) /\ BaselineInv(p)

-----------------------------------------------------------------------------
(* The wire                                                                *)

\* What the exchange adds carries the last trade, and so fits behind what is in flight.
LEMMA FedMore ==
  ASSUME NEW w \in Seq(Feed), NEW e \in Seq(Feed),
         NEW handed \in [Products -> Nat],
         NEW last \in [Products -> Nat], NEW now \in [Products -> Nat],
         Fed(w, handed, last),
         \A p \in Products : last[p] <= now[p] /\ handed[p] <= now[p],
         \A i \in 1..Len(e) : IsTicker(e[i]) => e[i].trade = now[e[i].product]
  PROVE  w \o e \in Seq(Feed) /\ Fed(w \o e, handed, now)
<1> DEFINE v == w \o e
<1>1. v \in Seq(Feed) /\ Len(v) = Len(w) + Len(e) /\ Len(w) \in Nat /\ Len(e) \in Nat
  OBVIOUS
<1>2. \A i \in 1..Len(v) : \/ i \in 1..Len(w) /\ v[i] = w[i]
                           \/ i - Len(w) \in 1..Len(e) /\ v[i] = e[i - Len(w)] /\ Len(w) < i
  BY <1>1
<1>3. \A m \in Feed : IsTicker(m) => m.product \in Products /\ m.trade \in Nat
  BY DEF Feed, IsTicker
<1>4. /\ \A i \in 1..Len(w) : w[i] \in Feed
      /\ \A i \in 1..Len(e) : e[i] \in Feed
  OBVIOUS
<1>5. ASSUME NEW i \in 1..Len(v), IsTicker(v[i])
      PROVE  handed[v[i].product] <= v[i].trade /\ v[i].trade <= now[v[i].product]
  <2>1. CASE i \in 1..Len(w) /\ v[i] = w[i]
    <3>1. w[i].product \in Products /\ w[i].trade \in Nat
      BY <1>3, <1>4, <1>5, <2>1
    <3>2. handed[w[i].product] <= w[i].trade /\ w[i].trade <= last[w[i].product]
      BY <1>5, <2>1 DEF Fed
    <3>3. last[w[i].product] <= now[w[i].product] /\ last[w[i].product] \in Nat
          /\ now[w[i].product] \in Nat
      BY <3>1
    <3> HIDE DEF v
    <3> QED BY <2>1, <3>1, <3>2, <3>3
  <2>2. CASE i - Len(w) \in 1..Len(e) /\ v[i] = e[i - Len(w)]
    <3>1. e[i - Len(w)].product \in Products
      BY <1>3, <1>4, <1>5, <2>2
    <3>2. e[i - Len(w)].trade = now[e[i - Len(w)].product]
      BY <1>5, <2>2
    <3> HIDE DEF v
    <3> QED BY <2>2, <3>1, <3>2
  <2> QED BY <1>2, <1>5, <2>1, <2>2
<1>6. ASSUME NEW i \in 1..Len(v), NEW j \in 1..Len(v), i < j,
             IsTicker(v[i]), IsTicker(v[j]), v[i].product = v[j].product
      PROVE  v[i].trade <= v[j].trade
  <2>1. CASE j \in 1..Len(w) /\ v[j] = w[j]
    <3>1. i \in 1..Len(w) /\ v[i] = w[i]
      BY <1>1, <1>2, <1>6, <2>1
    <3> HIDE DEF v
    <3> QED BY <1>6, <2>1, <3>1 DEF Fed
  <2>2. CASE j - Len(w) \in 1..Len(e) /\ v[j] = e[j - Len(w)]
    <3>1. v[j].trade = now[v[j].product]
      <4> HIDE DEF v
      <4> QED BY <1>6, <2>2
    <3>2. v[i].trade <= now[v[i].product]
      BY <1>5, <1>6
    <3> HIDE DEF v
    <3> QED BY <1>6, <3>1, <3>2
  <2> HIDE DEF v
  <2> QED BY <1>2, <1>6, <2>1, <2>2
<1> HIDE DEF v
<1>7. Fed(v, handed, now)
  BY <1>5, <1>6 DEF Fed
<1> QED BY <1>1, <1>7 DEF v

\* Handing on the trade of the first message leaves the rest in order.
LEMMA FedLess ==
  ASSUME NEW w \in Seq(Feed), w # << >>,
         NEW handed \in [Products -> Nat], NEW last \in [Products -> Nat],
         Fed(w, handed, last),
         NEW next \in [Products -> Nat],
         \A p \in Products : next[p] = handed[p] \/ (IsTicker(w[1]) /\ p = w[1].product
                                                      /\ next[p] = w[1].trade)
  PROVE  Tail(w) \in Seq(Feed) /\ Fed(Tail(w), next, last)
<1> DEFINE t == Tail(w)
<1>1. t \in Seq(Feed) /\ Len(t) = Len(w) - 1 /\ Len(w) \in Nat /\ 1 \in 1..Len(w)
  OBVIOUS
<1>2. \A i \in 1..Len(t) : t[i] = w[i + 1] /\ i + 1 \in 1..Len(w) /\ w[i + 1] \in Feed
  BY <1>1
<1> HIDE DEF t
<1>3. \A m \in Feed : IsTicker(m) => m.product \in Products /\ m.trade \in Nat
  BY DEF Feed, IsTicker
<1>4. ASSUME NEW i \in 1..Len(t), IsTicker(t[i])
      PROVE  next[t[i].product] <= t[i].trade /\ t[i].trade <= last[t[i].product]
  <2>1. t[i].product \in Products /\ t[i] = w[i + 1] /\ i + 1 \in 1..Len(w) /\ 1 < i + 1
    BY <1>1, <1>2, <1>3, <1>4
  <2>2. handed[t[i].product] <= t[i].trade /\ t[i].trade <= last[t[i].product]
    BY <1>4, <2>1 DEF Fed
  <2>3. IsTicker(w[1]) /\ w[1].product = t[i].product => w[1].trade <= t[i].trade
    BY <1>1, <1>4, <2>1 DEF Fed
  <2> QED BY <2>1, <2>2, <2>3
<1>5. ASSUME NEW i \in 1..Len(t), NEW j \in 1..Len(t), i < j,
             IsTicker(t[i]), IsTicker(t[j]), t[i].product = t[j].product
      PROVE  t[i].trade <= t[j].trade
  <2>1. i + 1 < j + 1 /\ i + 1 \in 1..Len(w) /\ j + 1 \in 1..Len(w)
        /\ t[i] = w[i + 1] /\ t[j] = w[j + 1]
    BY <1>1, <1>2, <1>5
  <2> QED BY <1>5, <2>1 DEF Fed
<1>6. Fed(t, next, last)
  BY <1>4, <1>5 DEF Fed
<1> QED BY <1>1, <1>6 DEF t

\* An empty wire is in order.
LEMMA FedEmpty ==
  ASSUME NEW handed, NEW last
  PROVE  << >> \in Seq(Feed) /\ Fed(<< >>, handed, last)
BY DEF Fed

\* SetToSeq lists the members of a finite set.
LEMMA Listed ==
  ASSUME NEW S, IsFiniteSet(S)
  PROVE  SetToSeq(S) \in Seq(S)
<1> DEFINE n == Cardinality(S)
<1>1. n \in Nat /\ ExistsBijection(1..n, S)
  BY FS_CardinalityType
<1>2. PICK f \in [1..n -> S] : \A a, b \in 1..n : f[a] = f[b] => a = b
  BY <1>1 DEF ExistsBijection, Bijection, Injection, IsInjective
<1>3. \E g \in [1..n -> S] : IsInjective(g)
  BY <1>2 DEF IsInjective
<1>4. SetToSeq(S) \in [1..n -> S]
  BY <1>3 DEF SetToSeq
<1> QED BY <1>1, <1>4

\* The exchange answers a subscription with the last ticker of every product and an ack.
LEMMA Answer ==
  ASSUME Types
  PROVE  LET s == SetToSeq({Ticker(p, tick_seq[p], trades[p], TRUE) : p \in Products})
             o == <<Other("subscriptions")>>
             e == s \o o
         IN  /\ s \in Seq(Feed) /\ o \in Seq(Feed) /\ e \in Seq(Feed)
             /\ \A i \in 1..Len(e) : IsTicker(e[i]) => e[i].trade = trades[e[i].product]
<1> DEFINE f == [p \in Products |-> Ticker(p, tick_seq[p], trades[p], TRUE)]
           S == {Ticker(p, tick_seq[p], trades[p], TRUE) : p \in Products}
           s == SetToSeq(S)
           e == s \o <<Other("subscriptions")>>
<1>1. IsFiniteSet(S)
  <2>1. f \in Surjection(Products, S)
    BY DEF Surjection
  <2> QED BY <2>1, FeedAssumption, FS_Surjection DEF ExistsSurjection
<1>2. s \in Seq(S)
  BY <1>1, Listed
<1>3. \A m \in S : m \in Feed /\ m.trade = trades[m.product]
  <2>1. ASSUME NEW p \in Products
        PROVE  LET m == Ticker(p, tick_seq[p], trades[p], TRUE)
               IN  m \in Feed /\ m.trade = trades[m.product]
    <3>1. tick_seq[p] \in Nat /\ trades[p] \in Nat \ {0}
      BY <2>1 DEF Types
    <3> QED BY <2>1, <3>1 DEF Feed, Ticker
  <2> QED BY <2>1
<1>4. Other("subscriptions") \in Feed /\ ~IsTicker(Other("subscriptions"))
  BY DEF Other, Feed, IsTicker
<1> HIDE DEF S, s
<1>5. s \in Seq(Feed) /\ \A i \in 1..Len(s) : s[i] \in S
  BY <1>2, <1>3
<1>6. e \in Seq(Feed) /\ Len(e) = Len(s) + 1
  BY <1>4, <1>5
<1>7. \A i \in 1..Len(e) : (i \in 1..Len(s) /\ e[i] = s[i]) \/ e[i] = Other("subscriptions")
  BY <1>4, <1>5
<1> HIDE DEF e
<1>8. \A i \in 1..Len(e) : IsTicker(e[i]) => e[i].trade = trades[e[i].product]
  BY <1>3, <1>4, <1>5, <1>7
<1>9. <<Other("subscriptions")>> \in Seq(Feed)
  BY <1>4
<1> QED BY <1>5, <1>6, <1>8, <1>9 DEF e, s, S

-----------------------------------------------------------------------------
(* Invariance                                                              *)

\* The program starts with nothing in flight and nothing handed on.
LEMMA InitIndInv == Init => IndInv
<1> SUFFICES ASSUME Init PROVE IndInv
  OBVIOUS
<1>1. Types
  BY DEF Init, Types, None
<1>2. WireInv
  BY FedEmpty DEF Init, WireInv
<1>3. \A p \in Products : HandedInv(p) /\ BaselineInv(p)
  BY DEF Init, HandedInv, BaselineInv, None
<1> QED BY <1>1, <1>2, <1>3 DEF IndInv

\* A step that only adds to the wire, or takes from it, or empties it, and moves neither
\* the session nor the histories.
LEMMA WireOnly ==
  ASSUME IndInv, UNCHANGED <<last_seq, last_trade_id, base, max_emitted_trade_id, emitted>>,
         trades' \in [Products -> Nat \ {0}], \A p \in Products : trades[p] <= trades'[p],
         seq' \in [Products -> Nat], tick_seq' \in [Products -> Nat],
         wire' \in Seq(Feed), Fed(wire', max_emitted_trade_id, trades')
  PROVE  IndInv'
<1>1. Types' /\ WireInv'
  BY DEF IndInv, Types, WireInv
<1>2. ASSUME NEW p \in Products PROVE HandedInv(p)' /\ BaselineInv(p)'
  <2>1. HandedInv(p) /\ BaselineInv(p) /\ trades[p] <= trades'[p] /\ trades[p] \in Nat
        /\ trades'[p] \in Nat /\ max_emitted_trade_id[p] \in Nat
    BY <1>2 DEF IndInv, Types
  <2>2. HandedInv(p)'
    BY <2>1 DEF HandedInv
  <2>3. BaselineInv(p)'
    BY <2>1 DEF BaselineInv
  <2> QED BY <2>2, <2>3
<1> QED BY <1>1, <1>2 DEF IndInv

\* Dropping the baselines, as reset_baselines does.
LEMMA BaselinesDropped ==
  ASSUME ResetBaselines
  PROVE  /\ last_seq' \in [Products -> Nat] /\ last_trade_id' \in [Products -> Nat]
         /\ base' \in [Products -> Nat]
         /\ \A p \in Products : BaselineInv(p)'
<1>1. /\ last_seq' \in [Products -> Nat] /\ last_trade_id' \in [Products -> Nat]
      /\ base' \in [Products -> Nat]
      /\ \A p \in Products : last_seq'[p] = None /\ last_trade_id'[p] = None /\ base'[p] = None
  BY DEF ResetBaselines, NoBaseline, None
<1> QED BY <1>1 DEF BaselineInv

\* The steps of the exchange.
LEMMA ExchangeIndInv ==
  ASSUME IndInv, Exchange
  PROVE  IndInv'
<1>1. Types /\ Fed(wire, max_emitted_trade_id, trades)
      /\ \A p \in Products : max_emitted_trade_id[p] <= trades[p]
  BY DEF IndInv, WireInv, HandedInv
<1>2. ASSUME NEW p \in Products, Trade(p) PROVE IndInv'
  <2>1. /\ trades' \in [Products -> Nat \ {0}] /\ seq' \in [Products -> Nat]
        /\ tick_seq' \in [Products -> Nat] /\ trades'[p] = trades[p] + 1
        /\ \A q \in Products : trades[q] <= trades'[q] /\ max_emitted_trade_id[q] <= trades'[q]
    <3>1. /\ trades \in [Products -> Nat \ {0}] /\ seq \in [Products -> Nat]
          /\ tick_seq \in [Products -> Nat] /\ max_emitted_trade_id \in [Products -> Nat]
      BY <1>1 DEF Types
    <3>2. /\ trades' = [trades EXCEPT ![p] = trades[p] + 1]
          /\ seq' = [seq EXCEPT ![p] = seq[p] + 1]
          /\ tick_seq' = [tick_seq EXCEPT ![p] = seq[p] + 1]
      BY <1>2 DEF Trade
    <3>3. /\ trades' \in [Products -> Nat \ {0}] /\ seq' \in [Products -> Nat]
          /\ tick_seq' \in [Products -> Nat] /\ trades'[p] = trades[p] + 1
      BY <3>1, <3>2
    <3>4. \A q \in Products : trades[q] <= trades'[q] /\ max_emitted_trade_id[q] <= trades'[q]
      BY <1>1, <3>1, <3>2
    <3> QED BY <3>3, <3>4
  <2> DEFINE m == Ticker(p, seq[p] + 1, trades[p] + 1, FALSE)
             e == IF Sending THEN <<m>> ELSE << >>
  <2>2. m \in Feed /\ m.trade = trades'[m.product]
    <3>1. seq[p] + 1 \in Nat /\ trades[p] + 1 \in Nat \ {0}
      BY <1>1, <1>2 DEF Types
    <3> QED BY <1>2, <2>1, <3>1 DEF Feed, Ticker
  <2>3. wire' = wire \o e /\ e \in Seq(Feed)
    <3>1. wire \in Seq(Feed)
      BY <1>1 DEF Types
    <3>2. wire' = IF Sending THEN Append(wire, m) ELSE wire
      BY <1>2 DEF Trade
    <3> HIDE DEF m
    <3> QED BY <2>2, <3>1, <3>2
  <2>4. \A i \in 1..Len(e) : IsTicker(e[i]) => e[i].trade = trades'[e[i].product]
    <3> HIDE DEF m
    <3> QED BY <2>2
  <2>5. wire' \in Seq(Feed) /\ Fed(wire', max_emitted_trade_id, trades')
    <3> HIDE DEF e
    <3>1. /\ wire \in Seq(Feed) /\ max_emitted_trade_id \in [Products -> Nat]
          /\ trades \in [Products -> Nat] /\ trades' \in [Products -> Nat]
      BY <1>1, <2>1 DEF Types
    <3> QED BY <1>1, <2>1, <2>3, <2>4, <3>1, FedMore
  <2> QED BY <1>2, <2>1, <2>5, WireOnly DEF Trade, session
<1>3. ASSUME NEW p \in Products, NEW d \in HeartbeatSteps, SendHeartbeat(p, d) PROVE IndInv'
  <2>1. d \in Nat
    BY FeedAssumption
  <2>2. trades' = trades /\ tick_seq' = tick_seq /\ seq' \in [Products -> Nat]
    BY <1>1, <1>3, <2>1 DEF SendHeartbeat, Types
  <2> DEFINE m == Heartbeat(p, seq[p] + d, trades[p])
  <2>3. m \in Feed /\ ~IsTicker(m)
    <3>1. seq[p] + d \in Nat /\ trades[p] \in Nat
      BY <1>1, <2>1 DEF Types
    <3> QED BY <3>1 DEF Feed, Heartbeat, IsTicker
  <2>4. wire' = wire \o <<m>> /\ <<m>> \in Seq(Feed)
        /\ \A i \in 1..Len(<<m>>) : IsTicker(<<m>>[i]) => <<m>>[i].trade = trades[<<m>>[i].product]
    <3> HIDE DEF m
    <3>1. wire \in Seq(Feed)
      BY <1>1 DEF Types
    <3> QED BY <1>3, <2>3, <3>1 DEF SendHeartbeat, m
  <2>5. wire' \in Seq(Feed) /\ Fed(wire', max_emitted_trade_id, trades')
    <3> HIDE DEF m
    <3>1. /\ wire \in Seq(Feed) /\ max_emitted_trade_id \in [Products -> Nat]
          /\ trades \in [Products -> Nat] /\ \A q \in Products : trades[q] <= trades[q]
      BY <1>1 DEF Types
    <3> QED BY <1>1, <2>2, <2>4, <3>1, FedMore
  <2>6. trades' \in [Products -> Nat \ {0}] /\ tick_seq' \in [Products -> Nat]
        /\ \A q \in Products : trades[q] <= trades'[q]
    BY <1>1, <2>2 DEF Types
  <2> QED BY <1>3, <2>2, <2>5, <2>6, WireOnly DEF SendHeartbeat, session
<1>4. CASE ServeRequest
  <2> DEFINE s == SetToSeq({Ticker(p, tick_seq[p], trades[p], TRUE) : p \in Products})
             o == <<Other("subscriptions")>>
             a == s \o o
             e == IF Head(requests) = "subscribe" THEN a ELSE << >>
  <2>1. /\ wire \in Seq(Feed) /\ max_emitted_trade_id \in [Products -> Nat]
        /\ trades \in [Products -> Nat] /\ \A q \in Products : trades[q] <= trades[q]
    BY <1>1 DEF Types
  <2>2. s \in Seq(Feed) /\ o \in Seq(Feed)
        /\ a \in Seq(Feed) /\ \A i \in 1..Len(a) : IsTicker(a[i]) => a[i].trade = trades[a[i].product]
    BY <1>1, Answer
  <2>3. e \in Seq(Feed) /\ \A i \in 1..Len(e) : IsTicker(e[i]) => e[i].trade = trades[e[i].product]
    <3> HIDE DEF a
    <3> QED BY <2>2
  <2>4. wire' = wire \o e
    <3>1. wire' = IF Head(requests) = "subscribe" THEN (wire \o s) \o o ELSE wire
      BY <1>4 DEF ServeRequest
    <3> HIDE DEF s, o
    <3>2. (wire \o s) \o o = wire \o (s \o o) /\ wire \o << >> = wire
      BY <2>1, <2>2, ConcatAssociative, ConcatEmptySeq
    <3> QED BY <3>1, <3>2
  <2>5. Fed(wire', max_emitted_trade_id, trades') /\ wire' \in Seq(Feed)
    <3> HIDE DEF e
    <3> QED BY <1>1, <1>4, <2>1, <2>3, <2>4, FedMore DEF ServeRequest
  <2>6. UNCHANGED <<trades, tick_seq, seq, session>>
    BY <1>4 DEF ServeRequest
  <2> QED BY <1>1, <2>1, <2>5, <2>6, WireOnly DEF Types, session
<1> QED BY <1>2, <1>3, <1>4 DEF Exchange

\* The steps of the network: a message is added that is no ticker, one is lost or garbled,
\* or the link dies with all that was in flight.
LEMMA NetworkIndInv ==
  ASSUME IndInv, Network
  PROVE  IndInv'
<1>1. /\ Types /\ Fed(wire, max_emitted_trade_id, trades)
      /\ wire \in Seq(Feed) /\ max_emitted_trade_id \in [Products -> Nat]
      /\ trades \in [Products -> Nat] /\ trades \in [Products -> Nat \ {0}]
      /\ \A p \in Products : max_emitted_trade_id[p] <= trades[p] /\ trades[p] <= trades[p]
  BY DEF IndInv, WireInv, HandedInv, Types
<1>2. UNCHANGED <<trades, tick_seq, seq, session>>
  BY DEF Network, SendError, Lose, HalfOpen, exchange
<1>3. wire' \in Seq(Feed) /\ Fed(wire', max_emitted_trade_id, trades)
  <2>1. CASE SendError
    <3> DEFINE m == Other("error")
    <3>1. m \in Feed /\ ~IsTicker(m)
      BY DEF Other, Feed, IsTicker
    <3>2. wire' = Append(wire, m)
      BY <2>1 DEF SendError
    <3> HIDE DEF m
    <3>3. wire' = wire \o <<m>> /\ <<m>> \in Seq(Feed)
          /\ \A i \in 1..Len(<<m>>) : IsTicker(<<m>>[i]) => <<m>>[i].trade = trades[<<m>>[i].product]
      <4>1. wire' = wire \o <<m>>
        BY <1>1, <3>2
      <4>2. <<m>> \in Seq(Feed)
        BY <3>1
      <4>3. Len(<<m>>) = 1 /\ <<m>>[1] = m
        OBVIOUS
      <4> QED BY <3>1, <4>1, <4>2, <4>3
    <3> QED BY <1>1, <3>3, FedMore
  <2>2. CASE Lose
    <3>1. Tail(wire) \in Seq(Feed) /\ Fed(Tail(wire), max_emitted_trade_id, trades)
      BY <1>1, <2>2, FedLess DEF Lose
    <3> DEFINE m == Other("malformed")
               t == Tail(wire)
               g == <<m>> \o t
    <3>2. m \in Feed /\ ~IsTicker(m)
      BY DEF Other, Feed, IsTicker
    <3>3. g \in Seq(Feed) /\ Fed(g, max_emitted_trade_id, trades)
      <4> HIDE DEF m, t
      <4>1. g \in Seq(Feed) /\ Len(g) = Len(t) + 1 /\ Len(t) \in Nat
        BY <3>1, <3>2 DEF t
      <4>2. \A i \in 1..Len(g) : g[i] = m \/ (i - 1 \in 1..Len(t) /\ g[i] = t[i - 1])
        BY <3>1, <3>2 DEF t
      <4> HIDE DEF g
      <4>3. \A i \in 1..Len(g) : IsTicker(g[i]) => i - 1 \in 1..Len(t) /\ g[i] = t[i - 1]
        BY <3>2, <4>2
      <4>4. \A i, j \in 1..Len(g) : i < j => i - 1 < j - 1
        BY <4>1
      <4>5. \A i \in 1..Len(g) : IsTicker(g[i]) => max_emitted_trade_id[g[i].product] <= g[i].trade
                                                   /\ g[i].trade <= trades[g[i].product]
        BY <3>1, <4>3 DEF Fed, t
      <4>6. \A i, j \in 1..Len(g) :
              i < j /\ IsTicker(g[i]) /\ IsTicker(g[j]) /\ g[i].product = g[j].product
                => g[i].trade <= g[j].trade
        BY <3>1, <4>3, <4>4 DEF Fed, t
      <4> QED BY <4>1, <4>5, <4>6 DEF Fed
    <3> QED BY <2>2, <3>1, <3>3 DEF Lose
  <2>3. CASE HalfOpen
    BY <2>3, FedEmpty DEF HalfOpen
  <2> QED BY <2>1, <2>2, <2>3 DEF Network
<1> QED BY <1>1, <1>2, <1>3, WireOnly DEF Types, session

\* Handing on a ticker at the head of the wire: what was handed on stays in order, nothing
\* is forgotten, and afterwards its trade is among what was handed on, now or before.
LEMMA TickerHandedOn ==
  ASSUME IndInv, wire # << >>, IsTicker(Head(wire)), EmitTrade(Head(wire)), UNCHANGED trades
  PROVE  LET m == Head(wire)
         IN  /\ max_emitted_trade_id' \in [Products -> Nat]
             /\ max_emitted_trade_id' = [max_emitted_trade_id EXCEPT ![m.product] = m.trade]
             /\ emitted' \in [Products -> Seq(Nat)]
             /\ m.product \in Products /\ m.trade \in Nat \ {0} /\ m.seq \in Nat
             /\ m.trade \in ToSet(emitted'[m.product])
             /\ \A p \in Products : HandedInv(p)' /\ ToSet(emitted[p]) \subseteq ToSet(emitted'[p])
<1> DEFINE m == Head(wire)
           n == m.trade
<1>1. /\ wire \in Seq(Feed) /\ trades \in [Products -> Nat]
      /\ max_emitted_trade_id \in [Products -> Nat] /\ emitted \in [Products -> Seq(Nat)]
      /\ Fed(wire, max_emitted_trade_id, trades)
      /\ \A p \in Products : HandedInv(p)
  BY DEF IndInv, Types, WireInv
<1>2. m \in Feed /\ m = wire[1] /\ 1 \in 1..Len(wire)
  BY <1>1
<1>3. PICK q \in Products : q = m.product /\ n \in Nat \ {0} /\ m.seq \in Nat
  BY <1>2 DEF Feed, IsTicker
<1>4. max_emitted_trade_id[q] <= n /\ n <= trades[q]
  BY <1>1, <1>2, <1>3 DEF Fed
<1>5. /\ max_emitted_trade_id' = IF n > max_emitted_trade_id[q]
                                  THEN [max_emitted_trade_id EXCEPT ![q] = n]
                                  ELSE max_emitted_trade_id
      /\ emitted' = IF n > max_emitted_trade_id[q]
                     THEN [emitted EXCEPT ![q] = Append(emitted[q], n)] ELSE emitted
      /\ trades' = trades
  BY <1>3 DEF EmitTrade, Emits
<1> HIDE DEF m, n
<1>6. CASE n > max_emitted_trade_id[q]
  <2>1. /\ max_emitted_trade_id' = [max_emitted_trade_id EXCEPT ![q] = n]
        /\ emitted' = [emitted EXCEPT ![q] = Append(emitted[q], n)]
        /\ n > max_emitted_trade_id[q]
    BY <1>5, <1>6
  <2>2. /\ max_emitted_trade_id' \in [Products -> Nat] /\ max_emitted_trade_id'[q] = n
        /\ emitted' \in [Products -> Seq(Nat)] /\ emitted'[q] = Append(emitted[q], n)
    BY <1>1, <1>3, <2>1
  <2> DEFINE old == emitted[q]
             new == emitted'[q]
  <2>3. /\ old \in Seq(Nat) /\ new \in Seq(Nat) /\ Len(new) = Len(old) + 1 /\ Len(old) \in Nat
        /\ new[Len(old) + 1] = n /\ \A i \in 1..Len(old) : new[i] = old[i]
    BY <1>1, <1>3, <2>2, SMTT(30)
  <2> HIDE DEF old, new
  <2>4. n \in ToSet(new)
    BY <2>3 DEF ToSet
  <2>5. ToSet(old) \subseteq ToSet(new)
    <3>1. DOMAIN old = 1..Len(old) /\ DOMAIN new = 1..Len(new) /\ 1..Len(old) \subseteq 1..Len(new)
      BY <2>3
    <3>2. \A i \in DOMAIN old : i \in DOMAIN new /\ new[i] = old[i]
      BY <2>3, <3>1
    <3> QED BY <3>2 DEF ToSet
  <2>6. HandedInv(q)'
    <3>1. HandedInv(q) /\ max_emitted_trade_id[q] \in Nat
      BY <1>1, <1>3
    <3>2. \A i \in 1..Len(old) : old[i] <= max_emitted_trade_id[q] /\ old[i] \in Nat
      BY <2>3, <3>1, SMTT(30) DEF HandedInv, old
    <3>3. \A i, j \in 1..Len(old) : i < j => old[i] < old[j]
      BY <3>1 DEF HandedInv, old
    <3>4. \A i \in 1..Len(new) : i \in 1..Len(old) \/ i = Len(old) + 1
      BY <2>3
    <3>5. \A i \in 1..Len(new) : new[i] <= n
      <4> SUFFICES ASSUME NEW i \in 1..Len(new) PROVE new[i] <= n
        OBVIOUS
      <4>1. CASE i \in 1..Len(old)
        <5>1. old[i] <= max_emitted_trade_id[q] /\ old[i] \in Nat /\ new[i] = old[i]
          BY <2>3, <3>2, <4>1
        <5> QED BY <1>3, <2>1, <3>1, <5>1
      <4>2. CASE i = Len(old) + 1
        BY <1>3, <2>3, <4>2
      <4> QED BY <3>4, <4>1, <4>2
    <3>6. \A i, j \in 1..Len(new) : i < j => new[i] < new[j]
      <4> SUFFICES ASSUME NEW i \in 1..Len(new), NEW j \in 1..Len(new), i < j
                   PROVE  new[i] < new[j]
        OBVIOUS
      <4>1. i \in 1..Len(old) /\ new[i] = old[i]
        BY <2>3, <3>4
      <4>2. CASE j \in 1..Len(old)
        BY <2>3, <3>3, <4>1, <4>2
      <4>3. CASE j = Len(old) + 1
        <5>1. old[i] <= max_emitted_trade_id[q] /\ old[i] \in Nat /\ new[j] = n
          BY <2>3, <3>2, <4>1, <4>3
        <5> QED BY <1>3, <2>1, <3>1, <4>1, <5>1
      <4> QED BY <3>4, <4>2, <4>3
    <3>7. max_emitted_trade_id'[q] = n /\ trades'[q] = trades[q]
      BY <1>5, <2>2
    <3> QED BY <1>4, <2>4, <3>5, <3>6, <3>7 DEF HandedInv, new
  <2>7. ASSUME NEW p \in Products, p # q PROVE HandedInv(p)' /\ emitted'[p] = emitted[p]
    <3>1. max_emitted_trade_id'[p] = max_emitted_trade_id[p] /\ emitted'[p] = emitted[p]
      BY <1>1, <2>1, <2>7
    <3> QED BY <1>1, <1>5, <2>7, <3>1 DEF HandedInv
  <2>8. \A p \in Products : HandedInv(p)' /\ ToSet(emitted[p]) \subseteq ToSet(emitted'[p])
    <3> TAKE p \in Products
    <3>1. CASE p = q
      BY <2>5, <2>6, <3>1 DEF old, new
    <3>2. CASE p # q
      BY <2>7, <3>2
    <3> QED BY <3>1, <3>2
  <2> QED BY <1>3, <2>1, <2>2, <2>4, <2>8 DEF m, n, new
<1>7. CASE ~(n > max_emitted_trade_id[q])
  <2>1. max_emitted_trade_id' = max_emitted_trade_id /\ emitted' = emitted
    BY <1>5, <1>7
  <2>2. max_emitted_trade_id[q] = n /\ max_emitted_trade_id[q] # 0
    BY <1>1, <1>3, <1>4, <1>7
  <2>3. n \in ToSet(emitted[q])
    BY <1>1, <1>3, <2>2 DEF HandedInv
  <2>4. \A p \in Products : HandedInv(p)'
    BY <1>1, <1>5, <2>1 DEF HandedInv
  <2>5. max_emitted_trade_id' = [max_emitted_trade_id EXCEPT ![q] = n]
    BY <1>1, <1>3, <2>1, <2>2
  <2> QED BY <1>1, <1>3, <2>1, <2>3, <2>4, <2>5 DEF m, n
<1> QED BY <1>6, <1>7

\* A message that asks for nothing extends the baseline or starts one.
LEMMA Remembered ==
  ASSUME IndInv, NEW m \in Feed, OnMessage(m) = "none", Remember(m),
         emitted' \in [Products -> Seq(Nat)],
         \A p \in Products : ToSet(emitted[p]) \subseteq ToSet(emitted'[p]),
         IsTicker(m) => m.trade \in ToSet(emitted'[m.product])
  PROVE  /\ last_seq' \in [Products -> Nat] /\ last_trade_id' \in [Products -> Nat]
         /\ base' \in [Products -> Nat] /\ \A p \in Products : BaselineInv(p)'
<1> DEFINE q == m.product
<1>1. /\ last_seq \in [Products -> Nat] /\ last_trade_id \in [Products -> Nat]
      /\ base \in [Products -> Nat] /\ \A p \in Products : BaselineInv(p)
  BY DEF IndInv, Types
<1>2. ASSUME NEW p \in Products, last_seq'[p] = last_seq[p] \/ last_trade_id[p] # None,
             last_trade_id'[p] = last_trade_id[p], base'[p] = base[p]
      PROVE  BaselineInv(p)'
  <2>1. BaselineInv(p) /\ ToSet(emitted[p]) \subseteq ToSet(emitted'[p])
    BY <1>1
  <2> QED BY <1>2, <2>1 DEF BaselineInv
<1>3. CASE IsTicker(m)
  <2>1. q \in Products /\ m.trade \in Nat \ {0} /\ m.seq \in Nat
    BY <1>3 DEF Feed, IsTicker
  <2>2. /\ last_seq' = [last_seq EXCEPT ![q] = m.seq]
        /\ last_trade_id' = [last_trade_id EXCEPT ![q] = m.trade]
        /\ base' = IF base[q] = None THEN [base EXCEPT ![q] = m.trade] ELSE base
    BY <1>3 DEF Remember, IsTicker
  <2>3. last_trade_id[q] = None \/ m.trade = last_trade_id[q] + 1
    BY <1>3 DEF OnMessage, OnTicker, IsTicker
  <2>4. /\ last_seq' \in [Products -> Nat] /\ last_trade_id' \in [Products -> Nat]
        /\ base' \in [Products -> Nat]
    BY <1>1, <2>1, <2>2
  <2>5. BaselineInv(q)'
    <3>1. last_trade_id'[q] = m.trade /\ m.trade # None
      BY <1>1, <2>1, <2>2 DEF None
    <3>2. base'[q] = (IF base[q] = None THEN m.trade ELSE base[q]) /\ base'[q] # None
      BY <1>1, <2>1, <2>2 DEF None
    <3>3. BaselineInv(q) /\ ToSet(emitted[q]) \subseteq ToSet(emitted'[q])
          /\ m.trade \in ToSet(emitted'[q])
      BY <1>1, <1>3, <2>1
    <3>4. base[q] \in Nat /\ last_trade_id[q] \in Nat
      BY <1>1, <2>1
    <3>5. (base'[q]..m.trade) \subseteq ToSet(emitted'[q])
      <4>1. CASE base[q] = None
        <5>1. base'[q]..m.trade = {m.trade}
          BY <2>1, <3>2, <4>1
        <5> QED BY <3>3, <5>1
      <4>2. CASE base[q] # None
        <5>1. last_trade_id[q] # None /\ m.trade = last_trade_id[q] + 1 /\ base'[q] = base[q]
          BY <2>3, <3>2, <3>3, <4>2 DEF BaselineInv
        <5>2. (base[q]..last_trade_id[q]) \subseteq ToSet(emitted'[q])
          BY <3>3, <5>1 DEF BaselineInv
        <5>3. base'[q]..m.trade \subseteq (base[q]..last_trade_id[q]) \cup {m.trade}
          BY <3>4, <5>1
        <5> QED BY <3>3, <5>2, <5>3
      <4> QED BY <4>1, <4>2
    <3> QED BY <3>1, <3>2, <3>5 DEF BaselineInv
  <2>6. ASSUME NEW p \in Products, p # q PROVE BaselineInv(p)'
    <3>1. last_seq'[p] = last_seq[p] /\ last_trade_id'[p] = last_trade_id[p] /\ base'[p] = base[p]
      BY <1>1, <2>1, <2>2, <2>6
    <3> QED BY <1>2, <3>1
  <2> QED BY <2>4, <2>5, <2>6
<1>4. CASE m.type = "heartbeat" /\ last_seq[q] # None
  <2>1. q \in Products /\ m.seq \in Nat
    BY <1>4 DEF Feed
  <2>2. last_trade_id[q] # None /\ base[q] # None
    BY <1>1, <1>4, <2>1 DEF BaselineInv
  <2>3. /\ last_seq' = [last_seq EXCEPT ![q] = m.seq]
        /\ last_trade_id' = last_trade_id /\ base' = base
    BY <1>4, <2>2 DEF Remember
  <2>4. last_seq' \in [Products -> Nat]
    BY <1>1, <2>1, <2>3
  <2>5. ASSUME NEW p \in Products PROVE last_seq'[p] = last_seq[p] \/ last_trade_id[p] # None
    BY <1>1, <2>1, <2>2, <2>3
  <2> QED BY <1>1, <1>2, <2>3, <2>4, <2>5
<1>5. CASE ~IsTicker(m) /\ ~(m.type = "heartbeat" /\ last_seq[q] # None)
  <2>1. last_seq' = last_seq /\ last_trade_id' = last_trade_id /\ base' = base
    BY <1>5 DEF Remember, IsTicker
  <2> QED BY <1>1, <1>2, <2>1
<1> QED BY <1>3, <1>4, <1>5

\* A text frame: the trade is handed on, then the baseline is extended or dropped.
LEMMA HandleTextIndInv ==
  ASSUME IndInv, HandleText
  PROVE  IndInv'
<1> DEFINE m == Head(wire)
           a == OnMessage(m)
<1>1. /\ wire # << >> /\ wire \in Seq(Feed) /\ m \in Feed /\ m = wire[1]
      /\ max_emitted_trade_id \in [Products -> Nat] /\ trades \in [Products -> Nat]
      /\ emitted \in [Products -> Seq(Nat)]
      /\ Fed(wire, max_emitted_trade_id, trades)
  <2>1. wire # << >> /\ wire \in Seq(Feed)
    BY DEF HandleText, IndInv, Types
  <2> QED BY <2>1 DEF IndInv, Types, WireInv
<1>2. /\ IF IsTicker(m) THEN EmitTrade(m) ELSE UNCHANGED <<max_emitted_trade_id, emitted>>
      /\ IF a = "none" THEN Remember(m) ELSE ResetBaselines
  BY DEF HandleText, IsTicker
<1>3. wire' \in {<< >>, Tail(wire)} /\ UNCHANGED <<trades, tick_seq, seq>>
  BY DEF HandleText, EndConnection, exchange
<1> HIDE DEF a
<1>4. /\ max_emitted_trade_id' \in [Products -> Nat]
      /\ emitted' \in [Products -> Seq(Nat)]
      /\ \A p \in Products : HandedInv(p)' /\ ToSet(emitted[p]) \subseteq ToSet(emitted'[p])
      /\ IsTicker(m) => m.trade \in ToSet(emitted'[m.product])
      /\ \A p \in Products : \/ max_emitted_trade_id'[p] = max_emitted_trade_id[p]
                             \/ IsTicker(wire[1]) /\ p = wire[1].product
                                  /\ max_emitted_trade_id'[p] = wire[1].trade
  <2>1. CASE IsTicker(m)
    <3>1. /\ max_emitted_trade_id' \in [Products -> Nat]
          /\ max_emitted_trade_id' = [max_emitted_trade_id EXCEPT ![m.product] = m.trade]
          /\ emitted' \in [Products -> Seq(Nat)]
          /\ m.trade \in ToSet(emitted'[m.product])
          /\ \A p \in Products : HandedInv(p)' /\ ToSet(emitted[p]) \subseteq ToSet(emitted'[p])
      BY <1>1, <1>2, <1>3, <2>1, TickerHandedOn
    <3>2. \A p \in Products : max_emitted_trade_id'[p] = max_emitted_trade_id[p]
                               \/ (p = m.product /\ max_emitted_trade_id'[p] = m.trade)
      BY <1>1, <3>1
    <3> QED BY <1>1, <2>1, <3>1, <3>2
  <2>2. CASE ~IsTicker(m)
    <3>1. max_emitted_trade_id' = max_emitted_trade_id /\ emitted' = emitted
      BY <1>2, <2>2
    <3>2. \A p \in Products : HandedInv(p)'
      BY <1>3, <3>1 DEF IndInv, HandedInv
    <3> QED BY <1>1, <2>2, <3>1, <3>2
  <2> QED BY <2>1, <2>2
<1>5. wire' \in Seq(Feed) /\ Fed(wire', max_emitted_trade_id', trades)
  BY <1>1, <1>3, <1>4, FedLess, FedEmpty
<1>6. /\ last_seq' \in [Products -> Nat] /\ last_trade_id' \in [Products -> Nat]
      /\ base' \in [Products -> Nat] /\ \A p \in Products : BaselineInv(p)'
  <2>1. CASE a = "none"
    BY <1>1, <1>2, <1>4, <2>1, Remembered DEF a
  <2>2. CASE a # "none"
    BY <1>2, <2>2, BaselinesDropped
  <2> QED BY <2>1, <2>2
<1>7. Types' /\ WireInv'
  BY <1>3, <1>4, <1>5, <1>6 DEF IndInv, Types, WireInv
<1> QED BY <1>4, <1>6, <1>7 DEF IndInv

\* The other steps of the runner hand nothing on: the wire stays or is emptied, and the
\* baselines stay or are dropped.
LEMMA ClientIndInv ==
  ASSUME IndInv, Client \/ DeadlinePasses \/ UNCHANGED vars, ~HandleText
  PROVE  IndInv'
<1>1. /\ UNCHANGED <<trades, tick_seq, seq, max_emitted_trade_id, emitted>>
      /\ wire' \in {wire, << >>}
      /\ ResetBaselines \/ UNCHANGED <<last_seq, last_trade_id, base>>
  BY DEF Client, DeadlinePasses, vars, Connect, ConnectFails, Send, SendFails, Tick, Disconnect,
         Finish, CtrlC, SleepEnds, EndConnection, exchange, session
<1>2. wire' \in Seq(Feed) /\ Fed(wire', max_emitted_trade_id, trades)
  BY <1>1, FedEmpty DEF IndInv, Types, WireInv
<1>3. CASE UNCHANGED <<last_seq, last_trade_id, base>>
  BY <1>1, <1>2, <1>3, WireOnly DEF IndInv, Types
<1>4. CASE ResetBaselines
  <2>1. /\ last_seq' \in [Products -> Nat] /\ last_trade_id' \in [Products -> Nat]
        /\ base' \in [Products -> Nat] /\ \A p \in Products : BaselineInv(p)'
    BY <1>4, BaselinesDropped
  <2>2. \A p \in Products : HandedInv(p)'
    BY <1>1 DEF IndInv, HandedInv
  <2>3. Types' /\ WireInv'
    BY <1>1, <1>2, <2>1 DEF IndInv, Types, WireInv
  <2> QED BY <2>1, <2>2, <2>3 DEF IndInv
<1> QED BY <1>1, <1>3, <1>4

\* Every step of the exchange, the network and the runner keeps the invariant.
LEMMA NextIndInv == IndInv /\ [Next]_vars => IndInv'
BY ExchangeIndInv, NetworkIndInv, HandleTextIndInv, ClientIndInv DEF Next, Client

-----------------------------------------------------------------------------
(* The backoff                                                             *)

\* Between two sleeps the backoff is the next one's, and in a sleep it is its own.
BackoffInv ==
  /\ naps \in Nat
  /\ phase \in {"connect", "up"} => backoff = Scheduled(naps + 1)
  /\ phase = "sleep" => naps > 0 /\ backoff = Scheduled(naps)

\* Doubling up to the cap, which five doublings reach, steps through the schedule.
LEMMA Doubling ==
  /\ Scheduled(1) = 1
  /\ \A n \in Nat \ {0} : Min2(2 * Scheduled(n), MaxBackoff) = Scheduled(n + 1)
<1>1. MaxBackoff \in Nat /\ 1 <= MaxBackoff /\ MaxBackoff <= 32
  <2>1. 2^5 = 32
    BY SMT
  <2> QED BY <2>1, FeedAssumption DEF MaxDoublings
<1>2. 2^0 = 1 /\ 2^1 = 2 /\ 2^2 = 4 /\ 2^3 = 8 /\ 2^4 = 16 /\ 2^5 = 32
  BY SMT
<1>3. /\ Min2(0, 5) = 0 /\ Min2(1, 5) = 1 /\ Min2(2, 5) = 2 /\ Min2(3, 5) = 3 /\ Min2(4, 5) = 4
      /\ \A k \in Nat : k >= 5 => Min2(k, 5) = 5
  BY DEF Min2
<1>4. /\ Scheduled(1) = Min2(1, MaxBackoff) /\ Scheduled(2) = Min2(2, MaxBackoff)
      /\ Scheduled(3) = Min2(4, MaxBackoff) /\ Scheduled(4) = Min2(8, MaxBackoff)
      /\ Scheduled(5) = Min2(16, MaxBackoff)
  <2>1. 1 - 1 = 0 /\ 2 - 1 = 1 /\ 3 - 1 = 2 /\ 4 - 1 = 3 /\ 5 - 1 = 4
    OBVIOUS
  <2> QED BY <1>2, <1>3, <2>1, Zenon DEF Scheduled, MaxDoublings
<1>5. ASSUME NEW n \in Nat, n >= 6 PROVE Scheduled(n) = Min2(32, MaxBackoff)
  <2>1. Min2(n - 1, 5) = 5
    BY <1>3, <1>5
  <2> QED BY <1>2, <2>1, Zenon DEF Scheduled, MaxDoublings
<1>6. ASSUME NEW n \in Nat \ {0} PROVE Min2(2 * Scheduled(n), MaxBackoff) = Scheduled(n + 1)
  <2>1. n = 1 \/ n = 2 \/ n = 3 \/ n = 4 \/ n = 5 \/ n >= 6
    OBVIOUS
  <2>2. CASE n >= 6
    <3>1. n \in Nat /\ n + 1 \in Nat /\ n + 1 >= 6
      BY <2>2
    <3>2. Scheduled(n) = Min2(32, MaxBackoff) /\ Scheduled(n + 1) = Min2(32, MaxBackoff)
      BY <1>5, <2>2, <3>1
    <3> QED BY <1>1, <3>2 DEF Min2
  <2>3. CASE n = 5
    <3>1. Scheduled(6) = Min2(32, MaxBackoff)
      BY <1>5
    <3> QED BY <1>1, <1>4, <2>3, <3>1 DEF Min2
  <2>4. CASE n = 1 \/ n = 2 \/ n = 3 \/ n = 4
    BY <1>1, <1>4, <2>4 DEF Min2
  <2> QED BY <2>1, <2>2, <2>3, <2>4
<1>7. Scheduled(1) = 1
  BY <1>1, <1>4 DEF Min2
<1> QED BY <1>6, <1>7

\* Every step keeps to the schedule: main resets the backoff after a connection that got a
\* message and doubles it after the sleep; all else leaves it alone.
LEMMA NextBackoffInv == BackoffInv /\ [Next]_vars => BackoffInv'
<1> SUFFICES ASSUME BackoffInv, [Next]_vars PROVE BackoffInv'
  OBVIOUS
<1>1. ASSUME NEW got \in BOOLEAN, EndConnection(got), phase \in {"connect", "up"}
      PROVE  BackoffInv'
  BY <1>1, Doubling DEF EndConnection, BackoffInv
<1>2. ASSUME UNCHANGED <<phase, backoff, naps>> PROVE BackoffInv'
  BY <1>2 DEF BackoffInv
<1>3. CASE Exchange \/ Network \/ DeadlinePasses \/ UNCHANGED vars
  BY <1>2, <1>3 DEF Exchange, Network, DeadlinePasses, Trade, SendHeartbeat, ServeRequest,
                    SendError, Lose, HalfOpen, vars, runner
<1>4. CASE Connect \/ Finish \/ CtrlC \/ Send
  BY <1>4 DEF Connect, Finish, CtrlC, Send, Polling, BackoffInv
<1>5. CASE ConnectFails
  BY <1>1, <1>5 DEF ConnectFails
<1>6. CASE HandleText
  <2>1. phase = "up" /\ (EndConnection(TRUE) \/ UNCHANGED <<phase, backoff, naps>>)
    BY <1>6 DEF HandleText, Polling
  <2> QED BY <1>1, <1>2, <2>1
<1>7. CASE Tick
  <2>1. phase = "up" /\ (EndConnection(got_message) \/ UNCHANGED <<phase, backoff, naps>>)
    BY <1>7 DEF Tick, Polling, runner
  <2>2. EndConnection(got_message) => EndConnection(TRUE) \/ EndConnection(FALSE)
    BY DEF EndConnection
  <2> QED BY <1>1, <1>2, <2>1, <2>2
<1>8. CASE Disconnect \/ SendFails
  <2>1. phase = "up" /\ EndConnection(got_message)
    BY <1>8 DEF Disconnect, SendFails
  <2>2. EndConnection(got_message) => EndConnection(TRUE) \/ EndConnection(FALSE)
    BY DEF EndConnection
  <2> QED BY <1>1, <2>1, <2>2
<1>9. CASE SleepEnds
  BY <1>9, Doubling DEF SleepEnds, NextBackoff, BackoffInv
<1> QED BY <1>3, <1>4, <1>5, <1>6, <1>7, <1>8, <1>9 DEF Next, Client

-----------------------------------------------------------------------------
(* Theorems                                                                *)

\* The inductive invariant holds of every behaviour of the runner.
THEOREM Invariance == Spec => []IndInv
BY InitIndInv, NextIndInv, PTL DEF Spec

\* on_ticker hands a trade to the sink at most once and in order, whatever the network
\* loses or garbles and however often the runner resubscribes and reconnects.
THEOREM EmittedOnceInOrder == Spec => []TradesEmittedOnceInOrder
<1>1. IndInv => TradesEmittedOnceInOrder
  <2> SUFFICES ASSUME IndInv, NEW p \in Products,
                      NEW i \in DOMAIN emitted[p], NEW j \in DOMAIN emitted[p], i < j
               PROVE  emitted[p][i] < emitted[p][j]
    BY DEF TradesEmittedOnceInOrder
  <2>1. HandedInv(p) /\ emitted[p] \in Seq(Nat)
    BY DEF IndInv, Types
  <2>2. DOMAIN emitted[p] = 1..Len(emitted[p])
    BY <2>1
  <2> QED BY <2>1, <2>2 DEF HandedInv
<1> QED BY <1>1, Invariance, PTL

\* While a product has a baseline, every trade since it was handed on: a hole in the trade
\* ids makes on_ticker drop the baseline and ask for a resubscribe.
THEOREM NoSilentGap == Spec => []ContiguousSinceBaseline
<1>1. IndInv => ContiguousSinceBaseline
  BY DEF IndInv, BaselineInv, ContiguousSinceBaseline
<1> QED BY <1>1, Invariance, PTL

\* The n-th sleep in a row lasts 2^(n-1) s, up to MAX_BACKOFF, and a connection that got a
\* message starts the series again, however connections end and whatever ends them.
THEOREM BackoffFollowsSchedule == Spec => []BackoffSchedule
<1>1. Init => BackoffInv
  BY Doubling DEF Init, BackoffInv
<1>2. BackoffInv => BackoffSchedule
  BY DEF BackoffInv, BackoffSchedule
<1> QED BY <1>1, <1>2, NextBackoffInv, PTL DEF Spec
=============================================================================
