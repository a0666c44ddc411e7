---------------------------- MODULE MC_UMallocMt90 ----------------------------
(* The main of src/user/mt90.c run through UMalloc: merge_test, then      *)
(* realloc_test on the heap merge_test leaves.  malloc_name and           *)
(* malloc_print are left out (labels and output only).  realloc_test's    *)
(* comments say which of its reallocs keep the pointer: all but R2, which *)
(* "must free + allocate new".                                            *)
EXTENDS UMalloc

VARIABLES
  step,   \* the next line of main
  names   \* variable name in mt90 -> the pointer (or sbrk(0) address) it holds

MC_PAGE_SIZE == 4096
MC_HEADER_SIZE == 32
MC_BASE == 16384
MC_ARENA_LIMIT == 16 * 4096
MC_Requests == {}
MC_CallocArgs == {}
MC_MaxLive == 0
\* 2^32 scaled to 2^30, which TLC's 32-bit integers hold with room to add.
MC_UINT_RANGE == 2^30

Line(op, name, size, inPlace) ==
  [op |-> op, name |-> name, size |-> size, inPlace |-> inPlace]

\* merge_test's variables are m_a .. m_h, realloc_test's a .. e.
Script ==
  << Line("sbrk", "start", 0, FALSE),
     Line("malloc", "m_a", 532, FALSE), Line("malloc", "m_b", 326, FALSE),
     Line("malloc", "m_c", 282, FALSE), Line("malloc", "m_d", 1032, FALSE),
     Line("malloc", "m_e", 432, FALSE),
     Line("free", "m_b", 0, FALSE), Line("free", "m_c", 0, FALSE),
     Line("free", "m_a", 0, FALSE), Line("free", "m_d", 0, FALSE),
     Line("free", "m_e", 0, FALSE),
     Line("malloc", "m_f", 632, FALSE), Line("malloc", "m_g", 182, FALSE),
     Line("malloc", "m_h", 9928, FALSE),
     Line("free", "m_f", 0, FALSE), Line("free", "m_g", 0, FALSE),
     Line("free", "m_h", 0, FALSE),
     Line("sbrk", "end", 0, FALSE),
     Line("malloc", "a", 532, FALSE), Line("malloc", "b", 326, FALSE),
     Line("malloc", "c", 282, FALSE), Line("malloc", "d", 1032, FALSE),
     Line("malloc", "e", 432, FALSE),
     Line("realloc", "a", 542, TRUE),     \* R1 "Does not actually need to be resized"
     Line("realloc", "c", 9632, FALSE),   \* R2 "No room, must free + allocate new"
     Line("realloc", "b", 632, TRUE),     \* R3 "we can expand 'b' into it"
     Line("realloc", "e", 1312, TRUE),    \* R4 "Expand into free space at the end"
     Line("realloc", "d", 832, TRUE),     \* R5 "Shrink 'd' down"
     Line("realloc", "d", 632, TRUE) >>   \* R6 "Shrink 'd' one more time"

ScenarioInit == Init /\ step = 1 /\ names = << >>

\* One line of main: the call, with the pointer it returns stored under
\* the variable it is assigned to.
ScenarioStep ==
  LET line == Script[step]
      M == MallocOp(Cur, line.size, current_fsm)
      R == ReallocOp(Cur, names[line.name], line.size, current_fsm)
  IN
  /\ step <= Len(Script)
  /\ CASE line.op = "sbrk" ->
            /\ names' = (line.name :> sys_sbrk(brk, 0, SBRK_EAGER).ret) @@ names
            /\ UNCHANGED heapVars
       [] line.op = "malloc" ->
            /\ SetHeap(M.heap)
            /\ names' = (line.name :> M.ptr) @@ names
       [] line.op = "free" ->
            /\ SetHeap(FreeOp(Cur, names[line.name]))
            /\ UNCHANGED names
       [] line.op = "realloc" ->
            /\ SetHeap(R.heap)
            /\ names' = [names EXCEPT ![line.name] = R.ptr]
  /\ step' = step + 1
  /\ UNCHANGED <<current_fsm, live, freed>>

ScenarioSpec == ScenarioInit /\ [][ScenarioStep]_<<vars, step, names>>

\* realloc_test's comments: R1 "does not actually need to be resized", R3
\* expands b into the freed c, R4 into the free space at the end, R5 and
\* R6 shrink d; each returns the pointer it was given.  The spec (4.2,
\* realloc) says the same of a resize that fits or can absorb a free
\* neighbour.
ReallocKeepsPointerAsMt90Expects ==
  [][ Script[step].op = "realloc" /\ Script[step].inPlace =>
        names'[Script[step].name] = names[Script[step].name] ]_<<vars, step, names>>
=============================================================================
