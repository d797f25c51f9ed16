CONSTANTS
  btc = btc
  Exchanges = {"binance", "kraken", "coinbase"}
  Order <- One
  QueueMax = 2
  ParkMax = 1
  SilenceMax = 1
  DelayMax = 2
  MaxChanges = 1
  MaxFaults = 1
SPECIFICATION Spec
PROPERTIES
  DarkBooksReturn
  HolesAreMended
  SilenceEnds
