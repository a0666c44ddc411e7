-------------------------- MODULE MC_KAllocDoubleFree --------------------------
(* KAlloc with a caller that frees a page twice: after unmapping a page   *)
(* and kfree-ing it, the VM layer calls kfree on it once more (a double    *)
(* uvmunmap).  The spec (section 4.1) requires kfree of a page whose count *)
(* is already zero to be fatal; kfree (kalloc.c:78-81) only panics on a    *)
(* negative count and pushes the page again.                               *)
EXTENDS KAlloc

MC_NFrames == 2

\* The caller passes kfree a page that no process maps and no call holds:
\* a page already freed, whose ref_count is zero.
StrayKfree(c, f) ==
  /\ pc[c] = "idle"
  /\ Holders(f) = 0
  /\ pc' = [pc EXCEPT ![c] = "kfree"]
  /\ frame' = [frame EXCEPT ![c] = f]
  /\ UNCHANGED <<ref_count, next, freelist, lock, target, mapped, freemem>>

NextDoubleFree == Next \/ \E c \in CPUs, f \in Frames : StrayKfree(c, f)

SpecDoubleFree == Init /\ [][NextDoubleFree]_vars
=============================================================================
