\* Changes, delistings and relistings of both dimensions, and a kill anywhere.
CONSTANTS
  instrument = instrument
  venue = venue
  Key = {instrument, venue}
  DimOf <- InstrumentAndVenue
  Attrs = {coarse, fine}
  NotListed = NotListed
  MaxRuns = 4
  MaxKills = 1
SPECIFICATION Spec
INVARIANTS
  CurrentSliceIsTold
  Tiles
  BoundariesAreChanges
PROPERTIES
  HistoryIsFixed
