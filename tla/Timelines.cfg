SPECIFICATION Spec
CONSTANTS
  Main = main
  Others = {w, v}
  w = w
  v = v
  x = x
  y = y
  a = a
  Regs = {x, y}
  AnchorNames = {a}
  Resolutions <- MCResolutions
  MaxValues = 2
  MaxBlocks = 2
  MaxSteps = 6
CHECK_DEADLOCK FALSE
INVARIANTS EntangledUsedOnce
PROPERTIES PriorityPrevails
