SPECIFICATION Spec
CONSTANTS
  Objects = {a, b}
  Discs <- MCDiscs
  NoDisc = NoDisc
  MaxBuilt = 3
  MaxFaults = 2
INVARIANTS RegisteredLive Reachable Current NoLeak TrayReleased
SYMMETRY ObjectSymmetry
CHECK_DEADLOCK FALSE
