SPECIFICATION Spec
CONSTANTS
  Programs <- MCPrograms
  Inputs <- MCInputs
  Symbols <- MCSymbols
  MaxRounds = 10
  Fuel = 150
CHECK_DEADLOCK FALSE
INVARIANTS SameBehaviour WellFormed PassesSettle
