CONSTANTS
  kraken = kraken
  binance = binance
  Venues <- One
  Replayed = {kraken}
  Symbols = {1, 2}
  Later <- OnePartition
  TopTen <- Shallow
  DaySeconds = 2
  MaxEvents = 3
SPECIFICATION Spec
INVARIANTS
  ReplayYieldsEveryState
