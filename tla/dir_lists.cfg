SPECIFICATION Spec
CONSTANTS
  Discs <- MCDiscs
  System <- MCSystem
  Names <- MCNames
  MaxDepth = 6
  MaxFaults = 1
  Iso <- MCIso
  Chars <- MCChars
  Spelt <- MCSpelt
  JunkLens = {0, 3, 64}
  Udf <- MCUdf
  SectorSize = 160
  FidSize = 38
  Tracks <- MCTracks
  Iterators = {i1, i2}
  Places <- MCPlaces
  MaxOpens = 3
INVARIANTS TypeOK ListRight OwnEntries
PROPERTIES MountEnds
CHECK_DEADLOCK FALSE
