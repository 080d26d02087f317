SPECIFICATION Spec
CONSTANTS
  SectorSize = 3
  PartitionLba = 1
  Version = 3
  FileEntries <- MCFileEntries
  ChunkSectors = 2
  Threads = {t1, t2}
  NoThread = none
  Discs = {"drive", "image"}
  Lengths = {2, 7}
  RawReads <- MCRawReads
  Moves <- MCMoves
  MaxCalls = 4
  MaxFaults = 0
SYMMETRY ThreadSymmetry
INVARIANTS WithinExtents
CHECK_DEADLOCK FALSE
