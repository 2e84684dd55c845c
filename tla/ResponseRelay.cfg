SPECIFICATION FairSpec
CONSTANTS
  None = None
  Answers <- MCAnswers
  Rules <- MCRules
  Encodings = {"none", "coded", "unknown"}
  MaxChunk = 3
  MemoryThreshold = 2
  MaxBytes = 6
  MaxSummaryInput = 5
  MaxUsageEvent = 2
  Rounding = 4
  MaxAmount = 12
INVARIANTS
  LogSaysWhatTheStreamSaid
  PriceIsExact
PROPERTY ExchangesEnd
CHECK_DEADLOCK FALSE
