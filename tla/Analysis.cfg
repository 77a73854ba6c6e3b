SPECIFICATION Spec
CONSTANTS
  Programs <- MCPrograms
  Earlier <- MCEarlier
  Inputs <- MCInputs
  Fuel = 150
CHECK_DEADLOCK FALSE
INVARIANTS AcceptedRunsClean StraightIsExact EndsAsAnalysed LeaseWithinEstimate
