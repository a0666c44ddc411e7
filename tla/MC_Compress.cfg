CONSTANTS
  ByteMod <- MC_ByteMod
  INBUF <- MC_INBUF
  Inputs <- MC_Inputs
  OldRle <- MC_OldRle
  OldOut <- MC_OldOut
  RleInputs <- MC_RleInputs

SPECIFICATION Spec

INVARIANTS
  TypeOK
  CompressLossless
  CompressMatchesReference
  RoundTrip
  DecompressAcceptsOnlyWellFormed

PROPERTIES
  Terminates

\* Both programs exit: the final states have no successor.
CHECK_DEADLOCK FALSE
