SPECIFICATION Spec
CONSTANTS
  Threads = {t1, t2}
  NoThread = NoThread
  Issued <- SafetyCommands
  MaxCmds = 2
  MaxFaults = 2
INVARIANTS SuccessGenuine OwnData CleanVerdict InStep
PROPERTIES OnceUnlessLost ServiceSpec
SYMMETRY ThreadSymmetry
