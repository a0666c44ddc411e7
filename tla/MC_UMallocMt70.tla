---------------------------- MODULE MC_UMallocMt70 ----------------------------
(* The scenario of src/user/mt70.c run through UMalloc's malloc and free:  *)
(* A(132) B(42) C(132) D(132) E(132) F(3132) fill one page exactly, B and *)
(* D are freed, and G(42) is allocated under the default first fit.  The  *)
(* test's comment and spec section 8 say first fit puts G in the free     *)
(* space at the end of the page.                                          *)
EXTENDS UMalloc

VARIABLES
  step,   \* the next line of the scenario
  names   \* variable name in mt70 -> pointer it holds

MC_PAGE_SIZE == 4096
MC_HEADER_SIZE == 32
MC_BASE == 16384
MC_ARENA_LIMIT == 4096
MC_Requests == {132, 42, 3132}
MC_CallocArgs == {}
MC_MaxLive == 7
\* 2^32 scaled to 2^30, which TLC's 32-bit integers hold with room to add.
MC_UINT_RANGE == 2^30

Script ==
  << [op |-> "malloc", name |-> "a", size |-> 132],
     [op |-> "malloc", name |-> "b", size |-> 42],
     [op |-> "malloc", name |-> "c", size |-> 132],
     [op |-> "malloc", name |-> "d", size |-> 132],
     [op |-> "malloc", name |-> "e", size |-> 132],
     [op |-> "malloc", name |-> "f", size |-> 3132],
     [op |-> "free",   name |-> "b", size |-> 0],
     [op |-> "free",   name |-> "d", size |-> 0],
     [op |-> "malloc", name |-> "g", size |-> 42] >>

ScenarioInit == Init /\ step = 1 /\ names = << >>

ScenarioStep ==
  LET line == Script[step]
      R == MallocOp(Cur, line.size, current_fsm)
  IN
  /\ step <= Len(Script)
  /\ IF line.op = "malloc"
     THEN /\ SetHeap(R.heap)
          /\ names' = (line.name :> R.ptr) @@ names
     ELSE /\ SetHeap(FreeOp(Cur, names[line.name]))
          /\ UNCHANGED names
  /\ step' = step + 1
  /\ UNCHANGED <<current_fsm, live, freed>>

ScenarioSpec == ScenarioInit /\ [][ScenarioStep]_<<vars, step, names>>

\* mt70.c: "First fit: free space at the end of the page": G is placed
\* after F, not in B's or D's freed slot.
FirstFitPlacesGAtEnd == step > Len(Script) => names["g"] > names["f"]
=============================================================================
