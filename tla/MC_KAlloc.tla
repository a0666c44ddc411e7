------------------------------ MODULE MC_KAlloc ------------------------------
(* Model-checking instance of KAlloc: three pages and two CPUs, so that a *)
(* page can be shared by both processes while the third is allocated,     *)
(* and the free list can run empty.                                       *)
EXTENDS KAlloc, TLC

MC_NFrames == 3

=============================================================================
