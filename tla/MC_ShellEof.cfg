CONSTANTS
  MAX_HIST <- MC_MAX_HIST
  MaxCmd <- MC_MaxCmd
  TokLen <- MC_TokLen
  Lines <- MC_Lines
SPECIFICATION Spec
PROPERTY ExitsAtEndOfInput
\* The shell exits on "exit"; the command numbers are bounded.
CHECK_DEADLOCK FALSE
