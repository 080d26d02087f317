SPECIFICATION SearchSpec
CONSTANTS
  plain = plain
  menus = menus
  regular = regular
  twin = twin
  tough = tough
  many = many
  Discs = {plain, menus, regular, twin, tough}
  Hash <- MCHash
  HasCss <- MCHasCss
  Blocks <- MCBlocks
  Vob <- MCVob
  SectorSize = 2
  MaxClear = 4
  NoDisc = NoDisc
  MaxFaults = 44
  Agids = {0, 1}
  MaxFailures = 1
  MaxMounts = 2
INVARIANTS SearchTypeOK InPlace Faithful AgidsAccounted NeverRefused
PROPERTIES Searches KnownStays
CHECK_DEADLOCK FALSE
