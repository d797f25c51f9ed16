CONSTANTS
  kraken = kraken
  binance = binance
  Venues <- Both
  Replayed = {kraken}
  Symbols = {1, 2}
  Later <- OnePartition
  TopTen <- Shallow
  DaySeconds = 2
  MaxEvents = 5
SPECIFICATION Spec
INVARIANTS
  BatchesLeaveNoTrace
  OneSamplePerSecond
  VerifiedMeansVenues
