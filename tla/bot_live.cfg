SPECIFICATION FairSpec
CONSTANTS
  Threads = {t1, t2}
  NoThread = NoThread
  Issued <- LiveCommands
  MaxCmds = 2
  MaxFaults = 1
PROPERTY EveryCommandReturns
