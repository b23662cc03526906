----------------------------- MODULE MCAmmBook -----------------------------
(* Instance of AmmBook: pools of every kind, small enough that each product fits. *)
EXTENDS AmmBook

MCBands == <<10, 25, 50>>

\* The base token has fewer decimals than the book, as many, or more: units of 50, 100, 400.
V2Pools ==
  {[kind |-> "v2", reserve_base |-> 300, reserve_quote |-> u[3], fee_numerator |-> Bps - f,
    base_unit |-> u[1], quote_unit |-> u[2]] :
     f \in {0, 20}, u \in {<<50, 50, 600>>, <<100, 50, 600>>, <<50, 100, 600>>, <<400, 50, 60>>, <<400, 400, 300>>}}

Edges == {-2, 0, 1, 3}
Ranges == {r \in Edges \X Edges : r[1] < r[2]}
MCSqrtPriceOf == [t \in -2..3 |-> 70 + 4 * t]
Positions == {f \in [Ranges -> {0, 3}] : Cardinality({r \in Ranges : f[r] > 0}) \in 1..3}

ClmmPools == {[kind |-> "clmm", tick |-> 0, sqrt_price |-> MCSqrtPriceOf[0], positions |-> f] : f \in Positions}

V4Pools ==
  {[kind |-> "v4", tick |-> 0, sqrt_price |-> MCSqrtPriceOf[0], positions |-> f,
    key |-> [fee |-> 300, dynamic |-> k[1], before_swap |-> k[2]], hook |-> [override |-> k[3], delta |-> k[4]]] :
     f \in {g \in Positions : Cardinality({r \in Ranges : g[r] > 0}) = 2},
     k \in {<<FALSE, FALSE, -1, 5>>, <<TRUE, FALSE, 4, 5>>, <<TRUE, TRUE, 4, -9>>, <<TRUE, TRUE, 4, 3>>}}

CurvePool(r, a, f) ==
  [kind |-> "curve", raw_reserves |-> r, a |-> a, fee_bps |-> f,
   multipliers |-> [i \in 1..Len(r) |-> IF i = 2 THEN 2 ELSE 1]]
CurvePools ==
  {CurvePool(<<100, 50>>, 1, 0), CurvePool(<<100, 50>>, 3, 4), CurvePool(<<150, 20>>, 3, 0),
   CurvePool(<<50, 25, 50>>, 1, 4)}

MCPools == {[kind |-> "feed"]} \cup V2Pools \cup ClmmPools \cup V4Pools \cup CurvePools
=============================================================================
