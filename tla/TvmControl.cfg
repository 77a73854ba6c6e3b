SPECIFICATION Spec
CONSTANTS
  Programs <- MCPrograms
  Elements = {0, 2}
  Unbounded = 1000
  MaxCycles = 25
  MaxCallDepth = 2
CHECK_DEADLOCK FALSE
INVARIANTS StacksFollowTheProgram IsolateWithinBudget
PROPERTIES TimeIsPaid BlocksKeepTime EveryRunEnds
