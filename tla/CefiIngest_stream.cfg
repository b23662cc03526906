SPECIFICATION IngestSpec
CONSTANTS
  MaxSeq = 3
  Decimals = 4
  IntWord = 134217728
  Minutes = 3
  FracDigits = 1
  MsScale = 10
  JsonRoom = 200
  MarketId = 12
  Messages <- MCMessages
INVARIANTS BookIsPrefix GapIsReal QuoteExact TimeExact
