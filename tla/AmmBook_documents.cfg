SPECIFICATION AmmSpec
CONSTANTS
  Levels = 40
  TickSize = 5
  BasePrice = 110
  MaxPrice = 99999
  Prices = {96, 98, 113, 124}
  Quantities = {0, 1}
  HalfBits = 6
  PriceScale = 100
  Bps = 100
  RatioScale = 1000
  Word = 1000000000
  U64 = 200000
  U16 = 655
  LiquidityUnit = 2
  TickStep = 2
  SqrtShift = 4
  SquareShift = 4
  FractionScale = 64
  UnitScale = 10
  Bands <- MCBands
  Pools <- MCPools
  SwapAmounts = {7, 20}
  SqrtPriceOf <- MCSqrtPriceOf
  MaxSwaps = 2
  MaxLadders = 2
INVARIANTS DepthAtEdge NotCrossed
CHECK_DEADLOCK FALSE
