---------------------------- MODULE AbstractHeap ----------------------------
(***************************************************************************)
(* What a heap allocator promises its client (spec section 4.2): every    *)
(* successful allocation is a 16-byte aligned region of at least the     *)
(* requested size inside the arena, disjoint from every other live       *)
(* allocation (realloc's new region also from the old one, which is still *)
(* live while the data is copied); the arena only grows; a failed call   *)
(* changes nothing.  Regions are named by their first byte.               *)
(***************************************************************************)
EXTENDS Naturals, TLC

CONSTANTS
  BASE,         \* first byte of the arena
  ARENA_LIMIT   \* most bytes the arena can grow by

VARIABLES
  allocs,     \* region start -> requested size, for each live allocation
  arena_end   \* first byte past the arena

vars == <<allocs, arena_end>>

\* [p, p + n) and [q, q + m) share no byte.
Apart(p, n, q, m) == p + n <= q \/ q + m <= p

\* A region the allocator may hand out in this step: aligned, inside the
\* arena as it is after the step, apart from every live region.
Fresh(p, n) ==
  /\ n > 0
  /\ p % 16 = 0
  /\ BASE <= p /\ p + n <= arena_end'
  /\ \A q \in DOMAIN allocs : Apart(p, n, q, allocs[q])

Grows == arena_end' \in arena_end..(BASE + ARENA_LIMIT)

\* The live regions other than p.
Without(p) == [q \in DOMAIN allocs \ {p} |-> allocs[q]]

Init ==
  /\ allocs = << >>
  /\ arena_end = BASE

(***************************************************************************)
(* The steps name the region they create by its start in allocs', so that *)
(* TLC checks them against an implementation's steps without enumerating  *)
(* addresses; the module is a property, not a model to run on its own.    *)
(***************************************************************************)
Alloc(p) ==
  /\ allocs' = (p :> allocs'[p]) @@ allocs
  /\ Grows
  /\ Fresh(p, allocs'[p])

Release(p) ==
  /\ allocs' = Without(p)
  /\ UNCHANGED arena_end

Resize(p, q) ==
  /\ allocs' = (q :> allocs'[q]) @@ Without(p)
  /\ Grows
  /\ Fresh(q, allocs'[q])

\* A resize in place keeps the start and changes only the size.
ResizeInPlace(p) ==
  /\ p \in DOMAIN allocs'
  /\ allocs' = [allocs EXCEPT ![p] = allocs'[p]]
  /\ Grows
  /\ LET others == Without(p) IN
       \A q \in DOMAIN others : Apart(p, allocs'[p], q, others[q])
  /\ p + allocs'[p] <= arena_end'

Next ==
  \/ \E p \in DOMAIN allocs : Release(p) \/ ResizeInPlace(p)
  \/ \E q \in DOMAIN allocs' \ DOMAIN allocs :
       \/ Alloc(q)
       \/ \E p \in DOMAIN allocs : Resize(p, q)

Spec == Init /\ [][Next]_vars

=============================================================================
