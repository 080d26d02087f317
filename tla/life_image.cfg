SPECIFICATION Spec
CONSTANTS
  Objects = {a, b}
  Discs <- MCDiscs
  NoDisc = NoDisc
  MaxBuilt = 3
  MaxFaults = 0
INVARIANTS ImageMounted
SYMMETRY ObjectSymmetry
CHECK_DEADLOCK FALSE
