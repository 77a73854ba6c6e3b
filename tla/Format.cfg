SPECIFICATION Spec
CONSTANTS
  Commands <- AllCommands
  Parse <- Program
  Layout <- format_program
  SameTree <- programs_ast_eq
  MaxRuns = 2
INVARIANTS RefusedExactly MeaningKept FormattingSettles NothingLost
CHECK_DEADLOCK FALSE
