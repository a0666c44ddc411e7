------------------------------ MODULE MC_UMalloc ------------------------------
(* Model-checking instance of UMalloc with the code's sizes: 4096-byte     *)
(* pages and 32-byte headers.  The requests are 0 (malloc returns NULL),  *)
(* 1000 and 1500 (several blocks share a page, so split and reuse of a   *)
(* freed block happen) and 5000 (sbrk for more than a page).  The arena   *)
(* may grow by two pages, so sbrk both succeeds and fails; the client     *)
(* holds at most three allocations.                                       *)
EXTENDS Getline, Broken

MC_PAGE_SIZE == 4096
MC_HEADER_SIZE == 32
MC_BASE == 16384
MC_ARENA_LIMIT == 2 * 4096
MC_Requests == {0, 1000, 1500, 5000}
MC_CallocArgs == {<<2, 500>>}
MC_MaxLive == 3
\* 2^32 scaled to 2^30, which TLC's 32-bit integers hold with room to add.
MC_UINT_RANGE == 2^30
\* A first line that outgrows the 2- and 4-byte buffers, a one-byte "\r"
\* line, and a last line without a line end.
MC_FileText == <<"a", "b", "\n", "\r", "c">>
=============================================================================
