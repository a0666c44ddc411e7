CONSTANTS
  MAX_HIST <- MC_MAX_HIST
  MaxCmd <- MC_MaxCmd
  TokLen <- MC_TokLen
  Lines <- MC_Lines
SPECIFICATION Spec
INVARIANT ExpandsTypedNumber
\* The shell exits on "exit"; the command numbers are bounded.
CHECK_DEADLOCK FALSE
