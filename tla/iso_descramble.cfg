SPECIFICATION Spec
CONSTANTS
  SectorSize = 3
  Dirlist <- MCDirlist
  TitleKeys <- MCTitleKeys
  Threads = {t1, t2}
  NoThread = none
  Lengths = {2, 5}
  RawReads <- MCRawReads
  Moves <- MCMoves
  MaxCalls = 3
  MaxFaults = 0
SYMMETRY ThreadSymmetry
INVARIANTS TransparentDescramble
CHECK_DEADLOCK FALSE
