\* Two SIGINTs at any time in the life of the process.
SPECIFICATION FairSpec
CONSTANTS
  c1 = c1
  c2 = c2
  Signals = {c1, c2}
  Timeout = 2
  MaxConnections = 1
INVARIANTS
  LifeInv
  OnePass
  CleanExit
PROPERTIES
  NoPassAfterSIGINT
  SIGINTEndsProcess
  PassesGoOn
CHECK_DEADLOCK FALSE
