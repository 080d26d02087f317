SPECIFICATION Spec
CONSTANTS
  SectorSize = 3
  Dirlist <- MCDirlist
  TitleKeys <- MCTitleKeys
  Threads = {t1, t2}
  NoThread = none
  Lengths = {2, 5}
  RawReads <- MCRawReads
  Moves <- MCMoves
  MaxCalls = 4
  MaxFaults = 1
SYMMETRY ThreadSymmetry
INVARIANTS RightBytes RawBytes Delivered CacheSound BufferHonest OwnKey
CHECK_DEADLOCK FALSE
