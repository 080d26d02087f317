SPECIFICATION Spec
CONSTANTS
  Threads = {t1, t2}
  NoThread = NoThread
  Handles = {h1, h2}
  NoHandle = NoHandle
  Requests <- MCRequests
  FeaturesLength = 1
  LengthLimit = 4
  ReadLengths <- MCReadLengths
  Blocks = {b1, b2}
  NoBlock = NoBlock
  MaxCalls = 4
SYMMETRY Symmetry
INVARIANTS MemorySafe OneResponse OwnResponse Performed
CHECK_DEADLOCK FALSE
