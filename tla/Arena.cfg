\* Two registers, two structures of which fill the arena to its last bytes
SPECIFICATION Spec
CONSTANTS
  Initial = 1
  MaxRegs = 2
  Capacity = 220
  Policies = {"None", "EvictDecayed", "RingBuffer"}
  MaxDepth = 1
  MaxSteps = 5
INVARIANTS CountIsTrue LiveWithinCapacity
CHECK_DEADLOCK FALSE
