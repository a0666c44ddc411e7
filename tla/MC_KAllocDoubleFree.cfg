CONSTANTS
  NFrames <- MC_NFrames
  CPUs = {c1, c2}
  NIL = NIL

SPECIFICATION SpecDoubleFree

INVARIANTS
  FreeListExact
