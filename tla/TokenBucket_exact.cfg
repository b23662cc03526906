SPECIFICATION Spec
CONSTANTS
  Threads = {h1, h2}
  Second = 6
  Rate = 2
  Burst = 3
  TsSpan = 64
  TokenSpan = 16
  U32Span = 256
  U64Span = 4096
  Start = 1
  MaxMs = 11
  MaxTokens = 2
INVARIANTS NeverOverdrawn NeverShort
