CONSTANTS
  PAGE_SIZE <- MC_PAGE_SIZE
  HEADER_SIZE <- MC_HEADER_SIZE
  BASE <- MC_BASE
  ARENA_LIMIT <- MC_ARENA_LIMIT
  Requests <- MC_Requests
  CallocArgs <- MC_CallocArgs
  MaxLive <- MC_MaxLive
  UINT_RANGE <- MC_UINT_RANGE

SPECIFICATION ScenarioSpec

INVARIANT FirstFitPlacesGAtEnd

CHECK_DEADLOCK FALSE
