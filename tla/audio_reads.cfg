SPECIFICATION Spec
CONSTANTS
  FrameSize = 3
  HeaderSize = 2
  PosLimit = 30000
  Threads = {t1, t2}
  NoThread = none
  Handles = {h1, h2}
  NoHandle = noh
  Discs <- MCDiscs
  Garbage = {0, 2, 200}
  AnySizes <- MCAnySizes
  Lengths = {1, 3, 5}
  Moves <- MCMoves
  MaxCalls = 5
  MaxFaults = 1
SYMMETRY Symmetry
INVARIANTS RightSamples CueFaithful
CHECK_DEADLOCK FALSE
