CONSTANTS
  NFrames <- MC_NFrames
  CPUs = {c1, c2}
  NIL = NIL

SPECIFICATION Spec


INVARIANTS
  TypeOK
  FreeListExact
  RefCountIsHolders
  ExclusiveUntilMapped

PROPERTIES
  LockReleased
