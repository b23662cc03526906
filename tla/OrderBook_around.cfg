SPECIFICATION BookSpec
CONSTANTS
  Levels = 4
  TickSize = 10
  BasePrice = 100
  MaxPrice = 1000
  Prices = {90, 110}
  Quantities = {0, 1, 2}
INVARIANT FeedBestExact
