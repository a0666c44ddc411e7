---------------------------- MODULE MC_UMallocWrap ----------------------------
(* calloc with arguments near the top of the uint range.  uint is       *)
(* scaled from 2^32 to 2^30.  calloc(2, 2^29 + 8) asks for 2^30 + 16      *)
(* bytes, a product that wraps to 16; calloc(1, 2^30 - 8) asks for a size *)
(* that align16 rounds up past the range, to 0.  spec.md (section 4.2,    *)
(* calloc) says an overflowing count * size is an allocation failure.     *)
EXTENDS UMalloc

MC_PAGE_SIZE == 4096
MC_HEADER_SIZE == 32
MC_BASE == 16384
MC_ARENA_LIMIT == 4096
MC_Requests == {}
MC_CallocArgs == {<<2, 2^29 + 8>>, <<1, 2^30 - 8>>}
MC_MaxLive == 1
\* 2^32 scaled to 2^30, which TLC's 32-bit integers hold with room to add.
MC_UINT_RANGE == 2^30
=============================================================================
