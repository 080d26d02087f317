SPECIFICATION Spec
CONSTANTS
  SectorSize = 3
  PartitionLba = 1
  Version = 2
  FileEntries <- MCFileEntries
  ChunkSectors = 2
  Threads = {t1, t2}
  NoThread = none
  Discs = {"drive", "image"}
  Lengths = {2, 3, 7}
  RawReads <- MCRawReads
  Moves <- MCMoves
  MaxCalls = 4
  MaxFaults = 1
SYMMETRY ThreadSymmetry
INVARIANTS RightBytes RawBytes Delivered CacheSound BufferHonest
CHECK_DEADLOCK FALSE
