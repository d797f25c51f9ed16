CONSTANTS
  btc = btc
  Exchanges = {"binance", "kraken", "coinbase"}
  Order <- One
  QueueMax = 2
  ParkMax = 2
  SilenceMax = 1
  DelayMax = 2
  MaxChanges = 2
  MaxFaults = 2
SPECIFICATION Spec
INVARIANTS
  NoPlausibleLie
  
  HolesArePending
