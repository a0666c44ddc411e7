------------------------------- MODULE KAlloc -------------------------------
(***************************************************************************)
(* The physical page allocator of src/kernel/kalloc.c: a LIFO free list    *)
(* threaded through the free pages themselves (struct run), a reference    *)
(* count per page (ref_count[]), and the spinlock kmem.lock that guards    *)
(* both.  Several CPUs call kalloc, kfree, incref and kfreepages           *)
(* concurrently.                                                           *)
(*                                                                         *)
(* Each CPU runs one process (xv6 processes have one thread).  The callers *)
(* of the allocator are sys_mmap and sys_freemem (src/kernel/sysproc.c)    *)
(* and the virtual-memory layer, which is not part of this repository:     *)
(* its unmapping of a page (kfree) and its sharing of a page with another  *)
(* address space (incref, then map) are modelled from the spec.            *)
(*                                                                         *)
(* The lock is a variable: acquire is a step of its own, and each          *)
(* critical section, release included, is one step, as it runs with       *)
(* interrupts off and never waits.  Work done outside the lock (the junk   *)
(* fill of kalloc, the callers' steps) is a separate step.                 *)
(***************************************************************************)
EXTENDS Naturals, FiniteSets, Sequences, SequencesExt

CONSTANTS
  NFrames,   \* pages between end[] and PHYSTOP; page i has address KERNBASE+i*PGSIZE
  CPUs,      \* the CPUs, each running its own process
  NIL        \* the null pointer / no CPU

ASSUME NFrames \in Nat \ {0}
ASSUME NIL \notin CPUs /\ NIL \notin 1..NFrames

Frames == 1..NFrames

VARIABLES
  ref_count,  \* ref_count[pa2idx(pa)]
  next,       \* r->next, stored in each free page
  freelist,   \* kmem.freelist
  lock,       \* holder of kmem.lock, or NIL
  pc,         \* where each CPU is in its current call
  frame,      \* the page a CPU's current call is about (r / pa)
  target,     \* process a page is being shared with (incref caller)
  mapped,     \* pages mapped by each CPU's process
  freemem     \* the page count kfreepages counted, until sys_freemem returns it

vars == <<ref_count, next, freelist, lock, pc, frame, target, mapped, freemem>>

PCs == {"idle", "kalloc", "kalloc_cs", "kalloc_fill", "mmap_map",
        "kfree", "kfree_cs", "incref", "incref_cs", "share_map",
        "kfreepages", "kfreepages_cs", "freemem_ret"}

\* The call states that are waiting to acquire kmem.lock, and the
\* critical section each one enters.
CriticalSection == [c \in {"kalloc", "kfree", "incref", "kfreepages"} |->
                      c \o "_cs"]

(***************************************************************************)
(* The free list as kfreepages walks it: follow r->next from              *)
(* kmem.freelist.  The walk is cut after NFrames+1 pages so that a cyclic *)
(* list yields a finite, over-long sequence.                              *)
(***************************************************************************)
RECURSIVE Walk(_, _)
Walk(r, n) == IF r = NIL \/ n = 0 THEN << >> ELSE <<r>> \o Walk(next[r], n - 1)

FreeChain == Walk(freelist, NFrames + 1)

(***************************************************************************)
(* kinit / freerange: kfree every page from PGROUNDUP(end) upward while   *)
(* ref_count is still all zero, so every page is pushed: the highest page *)
(* ends on top and each page links to the one below it.                   *)
(***************************************************************************)
Init ==
  /\ ref_count = [f \in Frames |-> 0]
  /\ next = [f \in Frames |-> IF f = 1 THEN NIL ELSE f - 1]
  /\ freelist = NFrames
  /\ lock = NIL
  /\ pc = [c \in CPUs |-> "idle"]
  /\ frame = [c \in CPUs |-> NIL]
  /\ target = [c \in CPUs |-> NIL]
  /\ mapped = [c \in CPUs |-> {}]
  /\ freemem = [c \in CPUs |-> 0]

\* acquire(&kmem.lock): spin until the lock is free, then take it.
Acquire(c) ==
  /\ pc[c] \in DOMAIN CriticalSection
  /\ lock = NIL
  /\ lock' = c
  /\ pc' = [pc EXCEPT ![c] = CriticalSection[pc[c]]]
  /\ UNCHANGED <<ref_count, next, freelist, frame, target, mapped, freemem>>

(* Mutant: kalloc returns the head page without popping it off the list. *)
KallocCSNoPop(c) ==
  /\ pc[c] = "kalloc_cs"
  /\ freelist # NIL
  /\ ref_count' = [ref_count EXCEPT ![freelist] = 1]
  /\ frame' = [frame EXCEPT ![c] = freelist]
  /\ pc' = [pc EXCEPT ![c] = "kalloc_fill"]
  /\ lock' = NIL
  /\ UNCHANGED <<next, freelist, target, mapped, freemem>>

(* Mutant: sys_mmap goes on with the 0 that kalloc returns on an empty  *)
(* list, as if its if(pa == 0) check were missing.                       *)
KallocCSNoNullCheck(c) ==
  /\ pc[c] = "kalloc_cs"
  /\ IF freelist # NIL
     THEN /\ freelist' = next[freelist]
          /\ ref_count' = [ref_count EXCEPT ![freelist] = 1]
     ELSE UNCHANGED <<freelist, ref_count>>
  /\ frame' = [frame EXCEPT ![c] = freelist]
  /\ pc' = [pc EXCEPT ![c] = "kalloc_fill"]
  /\ lock' = NIL
  /\ UNCHANGED <<next, target, mapped, freemem>>

(***************************************************************************)
(* kalloc, under the lock: pop the head of the free list and set its      *)
(* count to 1, then release.  With an empty list it returns 0 and         *)
(* sys_mmap returns -1.                                                   *)
(***************************************************************************)
KallocCS(c) ==
  /\ pc[c] = "kalloc_cs"
  /\ LET r == freelist IN
       IF r # NIL
       THEN /\ freelist' = next[r]
            /\ ref_count' = [ref_count EXCEPT ![r] = 1]
            /\ frame' = [frame EXCEPT ![c] = r]
            /\ pc' = [pc EXCEPT ![c] = "kalloc_fill"]
       ELSE /\ pc' = [pc EXCEPT ![c] = "idle"]
            /\ UNCHANGED <<freelist, ref_count, frame>>
  /\ lock' = NIL
  /\ UNCHANGED <<next, target, mapped, freemem>>

\* kalloc after release: memset(r, 5, PGSIZE) outside the lock, return r.
KallocFill(c) ==
  /\ pc[c] = "kalloc_fill"
  /\ pc' = [pc EXCEPT ![c] = "mmap_map"]
  /\ UNCHANGED <<ref_count, next, freelist, lock, frame, target, mapped, freemem>>

(* Mutant: kfree pushes the page even when its count stays positive. *)
KfreeCSAlwaysPush(c) ==
  LET pa == frame[c] IN
  /\ pc[c] = "kfree_cs"
  /\ ref_count' = [ref_count EXCEPT ![pa] = IF @ > 0 THEN @ - 1 ELSE @]
  /\ next' = [next EXCEPT ![pa] = freelist]
  /\ freelist' = pa
  /\ lock' = NIL
  /\ pc' = [pc EXCEPT ![c] = "idle"]
  /\ frame' = [frame EXCEPT ![c] = NIL]
  /\ UNCHANGED <<target, mapped, freemem>>

(* Mutant: the early return for a still-positive count forgets release. *)
KfreeCSKeepLock(c) ==
  LET pa == frame[c]
      rc == IF ref_count[pa] > 0 THEN ref_count[pa] - 1 ELSE ref_count[pa]
  IN
  /\ pc[c] = "kfree_cs"
  /\ ref_count' = [ref_count EXCEPT ![pa] = rc]
  /\ IF rc > 0
     THEN UNCHANGED <<next, freelist, lock>>
     ELSE /\ next' = [next EXCEPT ![pa] = freelist]
          /\ freelist' = pa
          /\ lock' = NIL
  /\ pc' = [pc EXCEPT ![c] = "idle"]
  /\ frame' = [frame EXCEPT ![c] = NIL]
  /\ UNCHANGED <<target, mapped, freemem>>

(***************************************************************************)
(* kfree, under the lock.  A positive count is decremented; if it is      *)
(* still positive the call releases and returns.  Otherwise (the count    *)
(* reached zero, or was already zero) the page is junk-filled and pushed. *)
(* The ref_count < 0 panic is unreachable: RefCountIsHolders keeps counts *)
(* non-negative.                                                          *)
(***************************************************************************)
KfreeCS(c) ==
  LET pa == frame[c]
      rc == IF ref_count[pa] > 0 THEN ref_count[pa] - 1 ELSE ref_count[pa]
  IN
  /\ pc[c] = "kfree_cs"
  /\ ref_count' = [ref_count EXCEPT ![pa] = rc]
  /\ IF rc > 0
     THEN UNCHANGED <<next, freelist>>
     ELSE /\ next' = [next EXCEPT ![pa] = freelist]
          /\ freelist' = pa
  /\ lock' = NIL
  /\ pc' = [pc EXCEPT ![c] = "idle"]
  /\ frame' = [frame EXCEPT ![c] = NIL]
  /\ UNCHANGED <<target, mapped, freemem>>

(* Mutant: the increment is lost (as a ++ done outside the lock can be). *)
IncrefCSLost(c) ==
  /\ pc[c] = "incref_cs"
  /\ lock' = NIL
  /\ pc' = [pc EXCEPT ![c] = "share_map"]
  /\ UNCHANGED <<ref_count, next, freelist, frame, target, mapped, freemem>>

\* incref, under the lock: ref_count[idx]++, release.
IncrefCS(c) ==
  /\ pc[c] = "incref_cs"
  /\ ref_count' = [ref_count EXCEPT ![frame[c]] = @ + 1]
  /\ lock' = NIL
  /\ pc' = [pc EXCEPT ![c] = "share_map"]
  /\ UNCHANGED <<next, freelist, frame, target, mapped, freemem>>

\* kfreepages, under the lock: count the pages on the free list, release;
\* sys_freemem returns the count (times 4 KiB).  On a cyclic list the walk
\* never ends, so the step is disabled.
KfreepagesCS(c) ==
  /\ pc[c] = "kfreepages_cs"
  /\ Len(FreeChain) <= NFrames
  /\ freemem' = [freemem EXCEPT ![c] = Len(FreeChain)]
  /\ lock' = NIL
  /\ pc' = [pc EXCEPT ![c] = "freemem_ret"]
  /\ UNCHANGED <<ref_count, next, freelist, frame, target, mapped>>

(***************************************************************************)
(* The callers.                                                            *)
(***************************************************************************)

\* sys_mmap: call kalloc().
SysMmap(c) ==
  /\ pc[c] = "idle"
  /\ pc' = [pc EXCEPT ![c] = "kalloc"]
  /\ UNCHANGED <<ref_count, next, freelist, lock, frame, target, mapped, freemem>>

\* sys_mmap after kalloc: memset(pa, 0), then mappages.  On success the
\* page is mapped into the process; on failure sys_mmap calls kfree(pa).
MmapMap(c) ==
  /\ pc[c] = "mmap_map"
  /\ \/ /\ mapped' = [mapped EXCEPT ![c] = @ \cup {frame[c]}]
        /\ pc' = [pc EXCEPT ![c] = "idle"]
        /\ frame' = [frame EXCEPT ![c] = NIL]
     \/ /\ pc' = [pc EXCEPT ![c] = "kfree"]
        /\ UNCHANGED <<mapped, frame>>
  /\ UNCHANGED <<ref_count, next, freelist, lock, target, freemem>>

\* sys_freemem: call kfreepages().
SysFreemem(c) ==
  /\ pc[c] = "idle"
  /\ pc' = [pc EXCEPT ![c] = "kfreepages"]
  /\ UNCHANGED <<ref_count, next, freelist, lock, frame, target, mapped, freemem>>

\* sys_freemem returns the count, times 4 KiB, to the process.
SysFreememReturn(c) ==
  /\ pc[c] = "freemem_ret"
  /\ pc' = [pc EXCEPT ![c] = "idle"]
  /\ freemem' = [freemem EXCEPT ![c] = 0]
  /\ UNCHANGED <<ref_count, next, freelist, lock, frame, target, mapped>>

\* The VM layer unmaps a page (uvmunmap with do_free): it removes the
\* mapping, then calls kfree on the page.
Unmap(c, f) ==
  /\ pc[c] = "idle"
  /\ f \in mapped[c]
  /\ mapped' = [mapped EXCEPT ![c] = @ \ {f}]
  /\ pc' = [pc EXCEPT ![c] = "kfree"]
  /\ frame' = [frame EXCEPT ![c] = f]
  /\ UNCHANGED <<ref_count, next, freelist, lock, target, freemem>>

\* The VM layer shares a mapped page with another address space (as fork
\* does for a copy-on-write page): it calls incref on the page, ...
Share(c, f, d) ==
  /\ pc[c] = "idle"
  /\ f \in mapped[c]
  /\ d # c /\ f \notin mapped[d]
  /\ pc' = [pc EXCEPT ![c] = "incref"]
  /\ frame' = [frame EXCEPT ![c] = f]
  /\ target' = [target EXCEPT ![c] = d]
  /\ UNCHANGED <<ref_count, next, freelist, lock, mapped, freemem>>

\* ... then maps it into the other address space.
ShareMap(c) ==
  /\ pc[c] = "share_map"
  /\ mapped' = [mapped EXCEPT ![target[c]] = @ \cup {frame[c]}]
  /\ pc' = [pc EXCEPT ![c] = "idle"]
  /\ frame' = [frame EXCEPT ![c] = NIL]
  /\ target' = [target EXCEPT ![c] = NIL]
  /\ UNCHANGED <<ref_count, next, freelist, lock, freemem>>

\* The steps a CPU takes while it holds kmem.lock.
HoldsLock(c) ==
  KallocCS(c) \/ KfreeCS(c) \/ IncrefCS(c) \/ KfreepagesCS(c)

Next ==
  \E c \in CPUs :
    \/ Acquire(c)
    \/ HoldsLock(c)
    \/ KallocFill(c)
    \/ SysMmap(c)
    \/ MmapMap(c)
    \/ SysFreemem(c)
    \/ SysFreememReturn(c)
    \/ ShareMap(c)
    \/ \E f \in Frames : Unmap(c, f)
    \/ \E f \in Frames, d \in CPUs : Share(c, f, d)

(***************************************************************************)
(* A CPU that holds kmem.lock runs with interrupts off and its critical   *)
(* section never waits, so it is weakly fair.  Acquiring the spinlock is  *)
(* not fair (a CPU can lose every race for it) and callers may stop.      *)
(***************************************************************************)
Fairness == \A c \in CPUs : WF_vars(HoldsLock(c))

Spec == Init /\ [][Next]_vars /\ Fairness

-----------------------------------------------------------------------------
(***************************************************************************)
(* Properties.                                                             *)
(***************************************************************************)

TypeOK ==
  /\ ref_count \in [Frames -> Nat]
  /\ next \in [Frames -> Frames \cup {NIL}]
  /\ freelist \in Frames \cup {NIL}
  /\ lock \in CPUs \cup {NIL}
  /\ pc \in [CPUs -> PCs]
  /\ frame \in [CPUs -> Frames \cup {NIL}]
  /\ target \in [CPUs -> CPUs \cup {NIL}]
  /\ mapped \in [CPUs -> SUBSET Frames]
  /\ freemem \in [CPUs -> 0..NFrames]

\* CPU c is in the middle of a call that holds one reference to page f:
\* between kalloc's pop and the mapping, between an unmap and kfree's
\* critical section, and between incref and mapping into the other process.
InFlight(c, f) ==
  /\ frame[c] = f
  /\ pc[c] \in {"kalloc_fill", "mmap_map", "kfree", "kfree_cs", "share_map"}

Holders(f) ==
  Cardinality({p \in CPUs : f \in mapped[p]}) +
  Cardinality({c \in CPUs : InFlight(c, f)})

\* The free list that kfreepages walks ends in NULL, has no page twice, and
\* holds exactly the pages whose ref_count is zero (spec: a frame is in the
\* free list iff its count is 0).  A page pushed twice by kfree would make
\* kalloc hand it out twice; a count dropped to 0 without a push leaks it.
FreeListExact ==
  /\ Len(FreeChain) <= NFrames
  /\ IsInjective(FreeChain)
  /\ ToSet(FreeChain) = {f \in Frames : ref_count[f] = 0}

\* Every page's ref_count equals the number of address spaces that map it
\* plus the calls in flight that hold it, whatever order the CPUs' kalloc,
\* kfree and incref calls interleave in: no reference is lost or invented.
RefCountIsHolders == \A f \in Frames : ref_count[f] = Holders(f)

\* A page that kalloc has just returned, and that kalloc is filling with
\* junk outside the lock or sys_mmap is about to map, belongs to that call
\* alone: no process maps it and no other CPU holds it.
ExclusiveUntilMapped ==
  \A c \in CPUs :
    pc[c] \in {"kalloc_fill", "mmap_map"} =>
      /\ \A p \in CPUs : frame[c] \notin mapped[p]
      /\ \A d \in CPUs \ {c} : frame[d] # frame[c]

\* Every path through kalloc, kfree (including its early return when the
\* count stays positive), incref and kfreepages releases kmem.lock.
LockReleased == [](lock # NIL => <>(lock = NIL))

=============================================================================
