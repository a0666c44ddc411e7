CONSTANTS
  MAX_HIST <- MC_MAX_HIST
  MaxCmd <- MC_MaxCmd
  TokLen <- MC_TokLen
  Lines <- MC_Lines
SPECIFICATION Spec
INVARIANTS
  TypeOK
  HistoryRingMatchesLog
  PrefixFindsNewest
  TokenizeMatchesReference
  LibraryMatchesReference
  TokenizerLoopMatchesFields
  GreeterStripsNewline
PROPERTIES
  NumbersNeverReused
\* The shell exits on "exit"; the command numbers are bounded.
CHECK_DEADLOCK FALSE
