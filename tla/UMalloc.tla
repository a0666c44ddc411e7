------------------------------ MODULE UMalloc ------------------------------
(***************************************************************************)
(* The user-space heap allocator of src/user/umalloc.c.  The arena is a   *)
(* list of blocks, each a struct mem_block header followed by a payload,  *)
(* linked by next/prev in address order from head to tail.  The low bit  *)
(* of a header's size field is the free flag.  malloc searches the list  *)
(* with the strategy selected by malloc_setfsm, splits the block it finds *)
(* and, when none fits, grows the arena with sbrk.  free only sets the   *)
(* free bit.  realloc is malloc + memmove + free.                         *)
(*                                                                         *)
(* The allocator is used by one single-threaded process, so every call is *)
(* one step.  Headers are records keyed by their address; the client's    *)
(* view is the set of payload pointers it holds and the size it asked    *)
(* for each.  The block name (malloc_name) is left out: nothing reads it. *)
(***************************************************************************)
EXTENDS Naturals, FiniteSets, Sequences, SequencesExt

CONSTANTS
  PAGE_SIZE,      \* 4096
  HEADER_SIZE,    \* sizeof(struct mem_block) = 8 + 8 + 8 + 8
  BASE,           \* the program break when the process first calls malloc
  ARENA_LIMIT,    \* bytes sbrk can add before growproc runs out of memory
  Requests,       \* sizes passed to malloc and realloc
  CallocArgs,     \* <<nmemb, size>> pairs passed to calloc
  MaxLive,        \* most allocations the client holds at once
  UINT_RANGE      \* 2^32: uint arithmetic is taken modulo this

NULL == 0
MIN_SPLIT_BLOCK_SIZE == HEADER_SIZE + 16

FSM_FIRST_FIT == 0
FSM_BEST_FIT == 1
FSM_WORST_FIT == 2

ASSUME BASE % 16 = 0 /\ BASE > 0 /\ HEADER_SIZE % 16 = 0
\* Every argument is a uint; calloc's product and malloc's size arithmetic
\* are taken modulo UINT_RANGE as the code's uint arithmetic is.
ASSUME UINT_RANGE % 16 = 0 /\ HEADER_SIZE < UINT_RANGE
ASSUME Requests \subseteq 0..(UINT_RANGE - 1)
ASSUME \A a \in CallocArgs : {a[1], a[2]} \subseteq 0..(UINT_RANGE - 1)

VARIABLES
  hdr,          \* block address -> [size, next, prev]: the mem_block headers
  head, tail,   \* the global head and tail of the block list
  brk,          \* the program break: end of the arena
  current_fsm,  \* the placement strategy
  live,         \* payload pointer -> requested size, for each held allocation
  freed         \* pointers the client has passed to free and not got back

heapVars == <<hdr, head, tail, brk>>
vars == <<hdr, head, tail, brk, current_fsm, live, freed>>

\* The heap as one record, so that a call can be composed of calls.
Cur == [hdr |-> hdr, head |-> head, tail |-> tail, brk |-> brk]

SetHeap(H) ==
  /\ hdr' = H.hdr
  /\ head' = H.head
  /\ tail' = H.tail
  /\ brk' = H.brk

(***************************************************************************)
(* Field helpers.                                                          *)
(***************************************************************************)
get_header(ptr) == ptr - HEADER_SIZE

\* (size + 15) & ~0x0F in uint: a size within 15 of UINT_RANGE wraps to 0.
align16(size) == (((size + 15) % UINT_RANGE) \div 16) * 16

is_free(b) == b.size % 2 = 1

get_size(b) == b.size - (b.size % 2)

SetUsed(H, a) == [H EXCEPT !.hdr[a].size = @ - (@ % 2)]

SetFree(H, a) == [H EXCEPT !.hdr[a].size = IF @ % 2 = 1 THEN @ ELSE @ + 1]

(***************************************************************************)
(* The block list as a walk from head along next, cut after one more     *)
(* step than there are headers so that a cycle shows as an over-long     *)
(* walk.                                                                  *)
(***************************************************************************)
RECURSIVE Walk(_, _, _)
Walk(h, a, n) ==
  IF a = NULL \/ n = 0 \/ a \notin DOMAIN h THEN << >>
  ELSE <<a>> \o Walk(h, h[a].next, n - 1)

Blocks(H) == Walk(H.hdr, H.head, Cardinality(DOMAIN H.hdr) + 1)

(* Mutant: split forgets block->next->prev = new_block. *)
splitNoPrevFix(H, a, total_sz) ==
  LET b == H.hdr[a]
      nb == a + total_sz
      h1 == (nb :> [size |-> (get_size(b) - total_sz) + 1, next |-> b.next,
                    prev |-> a]) @@ H.hdr
  IN
  IF ~is_free(b) \/ get_size(b) <= total_sz + MIN_SPLIT_BLOCK_SIZE THEN H
  ELSE [H EXCEPT !.hdr = (a :> [b EXCEPT !.size = total_sz, !.next = nb]) @@ h1,
                 !.tail = IF b.next = NULL THEN nb ELSE @]

(***************************************************************************)
(* split: carve total_sz bytes off the front of a free block when the     *)
(* remainder exceeds MIN_SPLIT_BLOCK_SIZE.  The remainder gets a header   *)
(* at block + total_sz; the writes are applied in the code's order, so a *)
(* later write to the same header wins.                                   *)
(***************************************************************************)
split(H, a, total_sz) ==
  LET b == H.hdr[a]
      old_size == get_size(b)
      nb == a + total_sz
      h1 == (nb :> [size |-> (old_size - total_sz) + 1, next |-> b.next,
                    prev |-> a]) @@ H.hdr
      h2 == IF b.next # NULL
            THEN (b.next :> [h1[b.next] EXCEPT !.prev = nb]) @@ h1
            ELSE h1
      h3 == (a :> [b EXCEPT !.size = total_sz, !.next = nb]) @@ h2
  IN
  IF ~is_free(b) \/ old_size <= total_sz + MIN_SPLIT_BLOCK_SIZE
  THEN H
  ELSE [H EXCEPT !.hdr = h3, !.tail = IF b.next = NULL THEN nb ELSE @]

(***************************************************************************)
(* find_free_block: the positions in the list of the free blocks of at    *)
(* least total_sz bytes, and the one each strategy returns.  Best and     *)
(* worst fit replace their candidate only on a strictly smaller / larger *)
(* size, so ties go to the first block in list order.                    *)
(***************************************************************************)
find_free_block(H, total_sz, fsm) ==
  LET L == Blocks(H)
      size(i) == get_size(H.hdr[L[i]])
      fits == {i \in 1..Len(L) : is_free(H.hdr[L[i]]) /\ size(i) >= total_sz}
      first(S) == CHOOSE i \in S : \A j \in S : i <= j
      best == {i \in fits : \A j \in fits : size(i) <= size(j)}
      worst == {i \in fits : \A j \in fits : size(i) >= size(j)}
  IN
  IF fits = {} THEN NULL
  ELSE L[CASE fsm = FSM_BEST_FIT  -> first(best)
           [] fsm = FSM_WORST_FIT -> first(worst)
           [] OTHER               -> first(fits)]

(***************************************************************************)
(* sbrk(n) of ulib.c is sys_sbrk(n, SBRK_EAGER).  sys_sbrk reads its      *)
(* argument as an int: malloc's uint request of UINT_RANGE / 2 or more is *)
(* a negative increment.  growproc is not in the repository; it is taken *)
(* as xv6 has it: a positive n grows the process or fails past           *)
(* ARENA_LIMIT, a negative n calls uvmdealloc(sz, sz + n), which does     *)
(* nothing when sz + n, a uint64, wraps above sz, and returns 0 either    *)
(* way.  The process size sz is the heap's break.                         *)
(***************************************************************************)
SBRK_EAGER == 1
SBRK_LAZY == 2

AsInt(u) == IF u >= UINT_RANGE \div 2 THEN u - UINT_RANGE ELSE u

\* sys_sbrk(n, t): the old size, or -1 when growproc fails.  An eager or
\* negative n goes through growproc: it fails for a positive n past
\* ARENA_LIMIT, and a negative n that wraps sz + n leaves sz as it is.  A
\* lazy non-negative n only moves sz (malloc never asks for one).
sys_sbrk(sz, n, t) ==
  CASE t # SBRK_EAGER /\ n >= 0 -> [ret |-> sz, sz |-> sz + n]
    [] n > 0 /\ sz + n > BASE + ARENA_LIMIT -> [ret |-> -1, sz |-> sz]
    [] n < 0 /\ sz + n < 0 -> [ret |-> sz, sz |-> sz]
    [] OTHER -> [ret |-> sz, sz |-> sz + n]

\* The pointer a call returns in the model when it killed the process.
KILLED == -1

\* The no-fit path of malloc: block = sbrk(request); on -1 malloc returns
\* NULL, else the region at block becomes one free block of request bytes
\* appended at the tail.  blk is -1 when sbrk failed.  fault: sbrk
\* returned an address whose header lies past the process's pages (a
\* negative increment returns the old size without growing), so the
\* header write block->size = request kills the process: growproc maps
\* whole pages, so the process can touch the bytes below its size rounded
\* up to a page (mapped_end), and vmfault kills it above (va >= p->sz).
Grow(H, request) ==
  LET sb == sys_sbrk(H.brk, AsInt(request), SBRK_EAGER)
      blk == sb.ret
      mapped_end == ((sb.sz + PAGE_SIZE - 1) \div PAGE_SIZE) * PAGE_SIZE
      linked == IF H.head = NULL THEN H.hdr
                ELSE (H.tail :> [H.hdr[H.tail] EXCEPT !.next = blk]) @@ H.hdr
  IN [blk |-> blk,
      fault |-> blk # -1 /\ blk + HEADER_SIZE > mapped_end,
      heap |-> [hdr  |-> (blk :> [size |-> request + 1, next |-> NULL,
                                  prev |-> H.tail]) @@ linked,
                head |-> IF H.head = NULL THEN blk ELSE H.head,
                tail |-> blk,
                brk  |-> sb.sz]]

(* Mutant: the block size leaves out the header (total_sz = align16(size)). *)
MallocOpNoHeader(H, size, fsm) ==
  LET total_sz == align16(size)
      found == find_free_block(H, total_sz, fsm)
      request == IF total_sz < PAGE_SIZE THEN PAGE_SIZE ELSE total_sz
      G == Grow(H, request)
      blk == G.blk
      grown == G.heap
  IN
  CASE size = 0 -> [heap |-> H, ptr |-> NULL]
    [] found # NULL -> [heap |-> SetUsed(split(H, found, total_sz), found),
                        ptr |-> found + HEADER_SIZE]
    [] blk = -1 -> [heap |-> H, ptr |-> NULL]
    [] G.fault -> [heap |-> H, ptr |-> KILLED]
    [] OTHER -> [heap |-> SetUsed(split(grown, blk, total_sz), blk),
                 ptr |-> blk + HEADER_SIZE]

(* Mutant: a found block is handed out without set_used, relying on split *)
(* to mark it, which split does not do when it declines to split.        *)
MallocOpNoSetUsed(H, size, fsm) ==
  LET total_sz == (HEADER_SIZE + align16(size)) % UINT_RANGE
      found == find_free_block(H, total_sz, fsm)
      request == IF total_sz < PAGE_SIZE THEN PAGE_SIZE ELSE total_sz
      G == Grow(H, request)
      blk == G.blk
      grown == G.heap
  IN
  CASE size = 0 -> [heap |-> H, ptr |-> NULL]
    [] found # NULL -> [heap |-> split(H, found, total_sz),
                        ptr |-> found + HEADER_SIZE]
    [] blk = -1 -> [heap |-> H, ptr |-> NULL]
    [] G.fault -> [heap |-> H, ptr |-> KILLED]
    [] OTHER -> [heap |-> SetUsed(split(grown, blk, total_sz), blk),
                 ptr |-> blk + HEADER_SIZE]

(***************************************************************************)
(* malloc(size): the heap after the call and the pointer it returns.      *)
(* With no fitting block it asks sbrk for max(total_sz, PAGE_SIZE) bytes  *)
(* (Grow); the new region is split like a found block.  A call whose     *)
(* header write faults returns KILLED: the process is dead, and no later *)
(* call of it happens, so the actions below take no step for it.         *)
(***************************************************************************)
MallocOp(H, size, fsm) ==
  LET total_sz == (HEADER_SIZE + align16(size)) % UINT_RANGE
      found == find_free_block(H, total_sz, fsm)
      request == IF total_sz < PAGE_SIZE THEN PAGE_SIZE ELSE total_sz
      G == Grow(H, request)
      blk == G.blk
      grown == G.heap
  IN
  CASE size = 0 ->
         [heap |-> H, ptr |-> NULL]
    [] found # NULL ->
         [heap |-> SetUsed(split(H, found, total_sz), found),
          ptr |-> found + HEADER_SIZE]
    [] blk = -1 ->
         [heap |-> H, ptr |-> NULL]
    [] G.fault ->
         [heap |-> H, ptr |-> KILLED]
    [] OTHER ->
         [heap |-> SetUsed(split(grown, blk, total_sz), blk),
          ptr |-> blk + HEADER_SIZE]

\* free(ptr): nothing for NULL or an already free block, else set the bit.
FreeOp(H, ptr) ==
  IF ptr = NULL \/ is_free(H.hdr[get_header(ptr)]) THEN H
  ELSE SetFree(H, get_header(ptr))

(* Mutant: the old payload is taken as the whole block, header included. *)
ReallocCopySizeWithHeader(H, ptr, size) ==
  LET old_total_size == H.hdr[get_header(ptr)].size
  IN IF old_total_size < size THEN old_total_size ELSE size

\* realloc's copy length: min(old payload, size), where the old payload is
\* the raw size field of the old header less the header.
ReallocCopySize(H, ptr, size) ==
  LET old_total_size == H.hdr[get_header(ptr)].size
      old_payload_size == old_total_size - HEADER_SIZE
  IN IF old_payload_size < size THEN old_payload_size ELSE size

\* realloc(ptr, size): malloc for NULL, free for size 0, else malloc a new
\* block, copy, and free the old one; if malloc fails the old block stays.
ReallocOp(H, ptr, size, fsm) ==
  LET M == MallocOp(H, size, fsm) IN
  CASE ptr = NULL -> M
    [] size = 0 -> [heap |-> FreeOp(H, ptr), ptr |-> NULL]
    [] M.ptr \in {NULL, KILLED} -> [heap |-> H, ptr |-> M.ptr]
    [] OTHER -> [heap |-> FreeOp(M.heap, ptr), ptr |-> M.ptr]

(***************************************************************************)
(* The calls.                                                              *)
(***************************************************************************)
Init ==
  /\ hdr = << >>
  /\ head = NULL
  /\ tail = NULL
  /\ brk = BASE
  /\ current_fsm = FSM_FIRST_FIT
  /\ live = << >>
  /\ freed = {}

\* The client records a pointer it got back from malloc, calloc or realloc.
Hold(p, size) ==
  /\ live' = IF p = NULL THEN live ELSE (p :> size) @@ live
  /\ freed' = freed \ {p}

Malloc(size) ==
  LET R == MallocOp(Cur, size, current_fsm) IN
  /\ Cardinality(DOMAIN live) < MaxLive
  /\ R.ptr # KILLED
  /\ SetHeap(R.heap)
  /\ Hold(R.ptr, size)
  /\ UNCHANGED current_fsm

\* calloc(nmemb, size): malloc(nmemb * size), then zero the payload.  The
\* product is a uint and wraps unchecked; the client has asked for, and
\* holds, nmemb elements of size bytes.
Calloc(nmemb, size) ==
  LET R == MallocOp(Cur, (nmemb * size) % UINT_RANGE, current_fsm) IN
  /\ Cardinality(DOMAIN live) < MaxLive
  /\ R.ptr # KILLED
  /\ SetHeap(R.heap)
  /\ Hold(R.ptr, nmemb * size)
  /\ UNCHANGED current_fsm

Free(p) ==
  /\ p \in DOMAIN live
  /\ SetHeap(FreeOp(Cur, p))
  /\ live' = [q \in DOMAIN live \ {p} |-> live[q]]
  /\ freed' = freed \cup {p}
  /\ UNCHANGED current_fsm

\* realloc of a held pointer, or of NULL (which allocates).
Realloc(p, size) ==
  LET kept == [q \in DOMAIN live \ {p} |-> live[q]] IN
  \E R \in {ReallocOp(Cur, p, size, current_fsm)} :
    /\ p \in DOMAIN live \cup {NULL}
    /\ p = NULL => Cardinality(DOMAIN live) < MaxLive
    /\ R.ptr # KILLED
    /\ SetHeap(R.heap)
    /\ IF p # NULL /\ (size = 0 \/ R.ptr # NULL)
       THEN /\ live' = IF R.ptr = NULL THEN kept ELSE (R.ptr :> size) @@ kept
            /\ freed' = (freed \ {R.ptr}) \cup {p}
       ELSE Hold(R.ptr, size)
    /\ UNCHANGED current_fsm

(* Mutant: malloc_setfsm stores any value it is given. *)
malloc_setfsmUnchecked(algo) ==
  /\ current_fsm' = algo
  /\ UNCHANGED <<hdr, head, tail, brk, live, freed>>

\* malloc_setfsm: only the three known strategies are accepted.
malloc_setfsm(algo) ==
  /\ current_fsm' = IF algo \in {FSM_FIRST_FIT, FSM_BEST_FIT, FSM_WORST_FIT}
                    THEN algo ELSE current_fsm
  /\ UNCHANGED <<hdr, head, tail, brk, live, freed>>

Next ==
  \/ \E s \in Requests : Malloc(s)
  \/ \E a \in CallocArgs : Calloc(a[1], a[2])
  \/ \E p \in DOMAIN live : Free(p)
  \/ \E p \in DOMAIN live \cup {NULL}, s \in Requests : Realloc(p, s)
  \/ \E algo \in 0..3 : malloc_setfsm(algo)

Spec == Init /\ [][Next]_vars

-----------------------------------------------------------------------------
(***************************************************************************)
(* Properties.                                                             *)
(***************************************************************************)

TypeOK ==
  /\ DOMAIN hdr \subseteq BASE..(BASE + ARENA_LIMIT)
  /\ \A a \in DOMAIN hdr :
       hdr[a] \in [size : Nat, next : Nat, prev : Nat]
  /\ {head, tail} \subseteq DOMAIN hdr \cup {NULL}
  /\ brk \in BASE..(BASE + ARENA_LIMIT)
  /\ current_fsm \in {FSM_FIRST_FIT, FSM_BEST_FIT, FSM_WORST_FIT}
  /\ DOMAIN live \subseteq Nat /\ freed \subseteq Nat

\* Walking next from head visits every header once and the blocks tile the
\* arena: the first starts at the first sbrk'd byte, each ends where the
\* next begins, prev mirrors next, tail is the last and the last ends at
\* the break; every size is a multiple of 16 with room for a header and
\* 16 bytes.  split, the sbrk append and the tail/prev fix-ups must all
\* agree for this to survive any sequence of calls.
BlocksTileArena ==
  LET L == Blocks(Cur)
      n == Len(L)
  IN
  /\ Len(L) = Cardinality(DOMAIN hdr)
  /\ n = 0 => head = NULL /\ tail = NULL /\ brk = BASE
  /\ n > 0 =>
       /\ L[1] = BASE /\ hdr[L[1]].prev = NULL
       /\ tail = L[n] /\ hdr[L[n]].next = NULL
       /\ L[n] + get_size(hdr[L[n]]) = brk
       /\ \A i \in 1..(n - 1) :
            /\ L[i + 1] = L[i] + get_size(hdr[L[i]])
            /\ hdr[L[i + 1]].prev = L[i]
       /\ \A i \in 1..n :
            /\ get_size(hdr[L[i]]) % 16 = 0
            /\ get_size(hdr[L[i]]) >= MIN_SPLIT_BLOCK_SIZE

\* Every pointer the client holds is 16-byte aligned and heads a used block
\* whose payload holds at least the bytes asked for and ends inside the
\* arena the process has been given (below the break); the used blocks are
\* exactly the held ones (none leaked by realloc or lost by a split); and
\* a pointer freed and not handed out again still heads a free block, so a
\* second free of it is the no-op the spec promises.
LiveAllocationsSound ==
  /\ \A p \in DOMAIN live :
       /\ p % 16 = 0
       /\ get_header(p) \in DOMAIN hdr
       /\ ~is_free(hdr[get_header(p)])
       /\ get_size(hdr[get_header(p)]) - HEADER_SIZE >= live[p]
       /\ get_header(p) + get_size(hdr[get_header(p)]) <= brk
  /\ {a \in DOMAIN hdr : ~is_free(hdr[a])} = {get_header(p) : p \in DOMAIN live}
  /\ \A p \in freed :
       get_header(p) \in DOMAIN hdr /\ is_free(hdr[get_header(p)])

\* Whatever realloc the client could call next, the memmove copies at least
\* the bytes the client had and asked to keep, reads no more than the old
\* payload and writes no more than the new one.
ReallocCopiesSafely ==
  \A p \in DOMAIN live, s \in Requests \ {0} :
    LET R == ReallocOp(Cur, p, s, current_fsm)
        n == ReallocCopySize(Cur, p, s)
    IN
    R.ptr # NULL =>
      /\ n >= IF live[p] < s THEN live[p] ELSE s
      /\ n <= get_size(hdr[get_header(p)]) - HEADER_SIZE
      /\ n <= get_size(R.heap.hdr[get_header(R.ptr)]) - HEADER_SIZE

\* The spec says (4.2, free) that free coalesces a freed block with free
\* neighbours until neither is free, so no two adjacent blocks are free.
NoAdjacentFreeBlocks ==
  LET L == Blocks(Cur) IN
  \A i \in 1..(Len(L) - 1) : ~(is_free(hdr[L[i]]) /\ is_free(hdr[L[i + 1]]))

(***************************************************************************)
(* Refinement: the allocator implements AbstractHeap.  A held pointer is  *)
(* an abstract region of the size the client asked for; the break is the *)
(* end of the arena.                                                      *)
(***************************************************************************)
Abstract == INSTANCE AbstractHeap
  WITH allocs <- live, arena_end <- brk

\* Every sequence of malloc, calloc, realloc, free and malloc_setfsm calls
\* is a behaviour of AbstractHeap: no allocation overlaps another live one
\* or leaves the arena, and the arena never shrinks.
ImplementsAbstractHeap == Abstract!Spec

=============================================================================
