SPECIFICATION Spec
CONSTANTS
  Main = main
  Others = {w}
  Chans = {c}
  AnchorNames = {a}
  Capacities = {0, 2}
  Travellers = {main, w}
  MaxSend = 3
  MaxTicks = 1
  MaxSpec = 1
  MaxBlocks = 2
  MaxSteps = 9
CHECK_DEADLOCK FALSE
INVARIANTS MessagesConserved TickIsolation
PROPERTIES RewindRestoresChannels RewindLeavesNoTrace
