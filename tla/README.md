# TLA+ models of FogOSv2's allocators, compressor and shell

This directory models the memory-management core of FogOSv2, its run-length
compressor and its shell, and checks them with TLC. The memory core has two parts:

- the kernel's physical page-frame allocator, `src/kernel/kalloc.c`, and the two
  system calls that use it directly, `sys_mmap` and `sys_freemem` in
  `src/kernel/sysproc.c`;
- the user-space heap allocator, `src/user/umalloc.c`, and its test
  programs `mt70.c` and `mt90.c`.

Three user programs that the spec leaves out of scope are modelled from their
source: `src/user/compress.c` with its test `compress_test.c`, the
interactive loop of `src/user/shell.c`, and the heap and string calls of the
exercise program `src/user/broken.c`.

`spec.md` describes the intended behaviour. Where the code and the spec
disagree, a run checks the spec's statement and TLC shows how the code breaks it.

## 1. Inventory

### Components and how they interact

| Component | Source | State | Operations |
|---|---|---|---|
| Page-frame allocator | `kernel/kalloc.c` | `kmem.freelist` (a LIFO stack threaded through the free pages' first word), `ref_count[]` per page, one spinlock `kmem.lock` | `kinit`/`freerange`, `kalloc`, `kfree`, `incref`, `kfreepages` |
| Page system calls | `kernel/sysproc.c` 48-72, 176-209 | the process's mappings; the process size | `sys_mmap` (kalloc, zero-fill, `mappages`, `kfree` on failure), `sys_freemem`, `sys_sbrk` (eager or lazy growth) |
| VM layer | not in the repository | page tables | unmap with free (`uvmunmap`), share a page (`uvmcopy` + `incref`) |
| Heap allocator | `user/umalloc.c` | a doubly linked list of `struct mem_block` headers (32 bytes: name, size with the free bit in bit 0, next, prev) tiling the arena; `head`, `tail`, `current_fsm` | `malloc`, `calloc`, `free`, `realloc`, `malloc_setfsm`, `malloc_name`, `malloc_print` |
| Heap tests | `user/mt70.c`, `user/mt90.c` | none | scripted allocation scenarios |
| RLE compressor | `user/compress.c`, `user/compress_test.c` | the encoder's run (`have_prev`, `prev`, `cnt`), the decoder's `carry`, the read buffers, the files | `rle_compress_fd`, `rle_decompress_fd`, `open_out`, `do_roundtrip` |
| Shell | `user/shell.c`, `gets` in `user/ulib.c` | `cmd_num`, `last_status`, the ring `hist[MAX_HIST]` | one iteration of `main`'s loop: `gets`, strip, `remove_comment`, `is_blank`, `!` expansion (`hist_num`, `hist_prefix`), `add_history`, `next_token`, builtins, fork/exec/wait |
| User library | `user/ulib.c` | none of its own; `getline` allocates from the heap allocator | `strcpy`, `strcmp`, `strlen`, `memset`, `strchr`, `gets`, `atoi`, `memmove`, `memcmp`, `memcpy`, `fgets`, `getline` |
| Exercise program | `user/broken.c` | none of its own; heap blocks from the heap allocator | `suffixer` (malloc, two `strcpy`), `tokenizer` (unchecked malloc, copy, split loop, free), `greeter` (`gets`, newline strip) |
| Others | `kernel/strace.h`, `stat`/`start` of `user/ulib.c`, the rest of `sysproc.c`, other programs | see section 5 | |

Several CPUs call the page allocator concurrently. Each operation takes
`kmem.lock` for a short critical section, and `kalloc` fills the page after
releasing it. `sys_mmap` on one CPU can interleave with `kfree` called from
unmapping on another CPU, and with `incref` from page sharing.

The heap allocator runs in one single-threaded process. It grows the arena
with `sbrk`, which is `sys_sbrk` in eager mode: it fails when the process
cannot grow, and the allocator never shrinks the arena. `getline` in the
user library is its one caller in the repository's libraries: it grows its
line buffer with `malloc`, `memcpy` and `free`. `broken.c`'s `suffixer` and
`tokenizer` are two more callers, each sizing a buffer from `strlen`.

### Hard behaviours

- **Page allocator.**
  - Lock-protected steps of two CPUs interleave.
  - The junk fill runs outside the lock.
  - `kfree` has an early return that must release the lock.
  - `kfree` of a page whose count is already zero pushes the page again.
    `freerange` relies on this at boot, but later it corrupts the list.
  - `kfreepages` walks the list under the lock, so a cyclic list makes the walk endless.
  - `kalloc` returns 0 when memory runs out.
  - `mappages` can fail after `kalloc` has succeeded.
- **Heap allocator.**
  - `split`'s pointer fix-ups (`next->prev`, `tail`) only show their effect several calls later.
  - A block found but not split is marked used only by `malloc`'s own `set_used`.
  - `sbrk` can fail.
  - `realloc` reads the raw size field, free bit included.
  - Best and worst fit break ties by list order.
  - `free` never coalesces, and `realloc` never resizes in place (the spec requires both).
  - `align16`, the header addition and `calloc`'s multiplication wrap at 2^32.
  - A request of 2^31 bytes or more reaches `sbrk(int n)` as a negative `n`.
- **broken.c.**
  - `suffixer`'s buffer must hold both strings and the NUL.
  - `tokenizer` does not check its `malloc`, and its loop must stop at the copy's NUL.
  - `greeter` strips a newline that may not be there.

- **Compressor.**
  - `read` may return any number of bytes, so the decoder's count byte is carried
    across a read boundary.
  - Runs are capped at 255.
  - Reads and writes can fail part way.
  - `open_out` does not truncate an existing file.
- **Shell.**
  - The ring wraps, so a slot can hold a newer command than the one asked for.
  - A failed expansion uses up a number without recording a line.
  - The `!N` digits overflow an `int`.
  - At end of input `gets` returns an empty buffer, not 0.

### Properties per component

- **Page allocator.**
  - The free list is NULL-terminated and has no page twice.
  - The free list holds exactly the pages whose count is 0.
  - Every count equals the number of mappings plus the in-flight calls that hold the page.
  - A page being filled or mapped belongs to its caller alone.
  - The lock is always eventually released.
- **Heap allocator.**
  - The blocks tile the arena, and prev mirrors next.
  - Held pointers are aligned and head used blocks that are large enough.
  - The used blocks are exactly the held ones.
  - `realloc`'s copy stays within both payloads.
  - The allocator implements an abstract heap of disjoint regions in a growing arena.
  - From the spec and the tests: no two adjacent blocks are free; `realloc` keeps the pointer when mt90 says the new size fits; in mt70, first fit puts G at the end of the page.
- **broken.c.** The bytes `suffixer`'s copies write fit its block; `tokenizer` prints exactly the words of its sentence and frees its copy; the split loop and `greeter` agree with reference definitions.
- **Compressor.** What the encoder has written decodes to what it has read; at exit it equals a reference encoding; decompress exits 0 only on a well-formed stream and restores the input; both programs terminate.
- **Shell.** The ring answers `!N` with command N or nothing, and always for the last `MAX_HIST` numbers; `!prefix` finds the newest recent match; a number is never given to two lines; `!N` runs command N; the shell exits at end of input.

## 2. Plan

| Module | Models | Composes / refines |
|---|---|---|
| `KAlloc` | kalloc.c plus `sys_mmap`/`sys_freemem` and the VM callers | — |
| `MC_KAlloc` | 2 CPUs, 3 pages | instance of `KAlloc` |
| `MC_KAllocDoubleFree` | `KAlloc` plus a caller's stray second `kfree` | extends `KAlloc` |
| `AbstractHeap` | what an allocator promises (spec 4.2) | abstract specification |
| `UMalloc` | umalloc.c | implements `AbstractHeap` (`INSTANCE ... WITH allocs <- live, arena_end <- brk`) |
| `MC_UMalloc` | the code's sizes, 4 request sizes, 2-page arena | instance of `UMalloc` |
| `MC_UMallocMt70`, `MC_UMallocMt90` | mt70.c's and mt90.c's `main` | replay `UMalloc`'s operators |
| `MC_UMallocWrap` | `calloc` arguments at the top of the uint range | instance of `UMalloc` |
| `Compress` | compress.c's encoder and decoder, run as compress_test runs them | — |
| `MC_Compress`, `MC_CompressStale` | inputs up to 5 bytes and, for `compress -d` alone, any stream up to 5 bytes; an existing output file | instances of `Compress` |
| `ULib` | ulib.c's string, memory and line-reading functions, as operators with reference definitions | checked in `MC_Shell` |
| `Getline` | ulib.c's `getline` over the heap | extends `UMalloc` and `ULib`; checked in `MC_UMalloc` |
| `BrokenStrings` | broken.c's string code: `greeter`, `tokenizer`'s loop, its sentence | extends `ULib`; checked in `MC_Shell` |
| `Broken` | broken.c's `suffixer` and `tokenizer` over the heap | extends `UMalloc` and `BrokenStrings`; checked in `MC_UMalloc` |
| `Shell` | shell.c's interactive loop | — |
| `MC_Shell`, `MC_ShellOverflow` | a 2-slot ring and 10 typed lines; the line `!4294967297` | instances of `Shell`; `MC_Shell` also extends `ULib` |

The modules were built in the order KAlloc, then UMalloc, then AbstractHeap
with the refinement, then the spec-divergence runs, then Compress and Shell,
then the uint width of UMalloc (`UINT_RANGE`) and its wrap run, then ULib
and Getline, then `sys_sbrk` under the heap's growth, the mt90 replay and
broken.c.
Modules planned for later:

1. (Done in the second extension: `UINT_RANGE` gives `UMalloc` the uint
   width, and the run umalloc_uint_wrap reaches the wrap.)
2. A run in which a stale second `free` releases a reused block. This breaks
   the spec's "free is idempotent".
3. (Done in the third extension: `MallocOp` grows the arena through
   `sys_sbrk`.)
4. (Done in the second extension: `ULib` and `Getline`.)

## 3. Modules

### KAlloc (kalloc.c, sysproc.c)

**State.** The variables are `ref_count`, `next` (each page's `run->next`),
`freelist` and `lock` (the holder of `kmem.lock` or `NIL`). Each CPU also has:

- `pc`, where it is in its call;
- `frame`, the page its call is about;
- `target`, the process it is sharing a page with;
- `freemem`, the count `kfreepages` returned until `sys_freemem` hands it back.

`mapped[c]` holds the pages mapped into CPU `c`'s process. Pages are the
numbers `1..NFrames`.

**Actions.** Each call is split at the lock:

- `Acquire(c)` models the spin on `acquire(&kmem.lock)`.
- `KallocCS`, `KfreeCS`, `IncrefCS` and `KfreepagesCS` are the critical
  sections. Each one ends with the release.
- `KallocFill` is the `memset` after the release.

`Init` is the state after `freerange`: all counts are 0, page `NFrames` is on
top, and each page links to the one below. The callers:

- `SysMmap` calls `kalloc`.
- `MmapMap` maps the page, or models a `mappages` failure that goes to `kfree`.
- `SysFreemem` and `SysFreememReturn` are `sys_freemem`.
- `Unmap`, `Share` and `ShareMap` are modelled from the spec. They stand for
  the VM layer, which is not in the repository. A CPU frees or shares only
  pages its process maps.

`kfree`'s panic for `ref_count < 0` is not an action, because it is
unreachable: `RefCountIsHolders` keeps every count non-negative.

### UMalloc (umalloc.c)

**State.**
- `hdr` maps each header's byte address to `[size, next, prev]`, with `size`
  holding the free bit exactly as the code does.
- `head`, `tail` and `current_fsm` are the code's globals.
- `brk` is the end of the arena.
- `live` maps each payload pointer the client holds to the size it asked for.
- `freed` holds the pointers the client freed and has not got back.

**Operators.** `split`, `find_free_block`, `MallocOp`, `FreeOp`, `ReallocOp`
and `ReallocCopySize` translate the functions of the same names, and each
returns the new heap.
- `split` applies the code's writes in order.
- `find_free_block` returns the first position among the candidates the
  strategy allows. That is the code's tie-break: `<` and `>` replace the
  candidate only on a strict improvement.
- `MallocOp` covers four outcomes: size 0, a fitting block found, `sbrk`
  failing past `ARENA_LIMIT`, and growth by `max(total_sz, PAGE_SIZE)`
  followed by a split.
- uint arithmetic is taken modulo `UINT_RANGE`: `align16`'s `(size + 15) & ~0x0F`,
  `total_sz`, and `calloc`'s `nmemb * size`. `Calloc` records that the client
  holds the product it asked for, not the wrapped one.

- `Grow` is `malloc`'s no-fit path. It calls `sys_sbrk(brk, n, SBRK_EAGER)`,
  which is what `sbrk` in ulib.c does. `AsInt` reads the uint request as
  `sbrk`'s `int`. `growproc` is not in the repository, so it is taken as
  xv6 has it: a positive `n` grows the process, or fails past `ARENA_LIMIT`.
  A negative `n` calls `uvmdealloc(sz, sz + n)`, which does nothing when
  `sz + n` wraps, and returns the old size either way. The lazy mode only
  moves the size; `malloc` never uses it.
- After a negative increment `sbrk` returns the old size, and `malloc`
  writes the new block's header there. The process's pages end at its size
  rounded up to a page. A header past that faults, and the kernel kills
  the process. `MallocOp` then returns `KILLED`, and the actions take no
  step for such a call, because a dead process makes no later call. No run's
  requests reach 2^31, so this path is modelled but never taken.

**Actions.** Each call is one step, because the process is single-threaded:
`Malloc`, `Calloc`, `Free`, `Realloc` and `malloc_setfsm`. `Realloc`
computes `ReallocOp` once and binds its result (`\E R \in {...}`). Under
TLC's coverage this keeps a single evaluation per state, where a `LET`
used by several conjuncts would be evaluated again at each use.

`MC_UMallocMt70` and `MC_UMallocMt90` replay the `main` of each test
program, one line per step. `sbrk(0)` is `sys_sbrk(brk, 0, SBRK_EAGER)`.
`malloc_name` and `malloc_print` are left out.

### AbstractHeap

**State.** `allocs` maps each region's start to its size. `arena_end` is the
end of the arena.

**Actions.** `Alloc`, `Release`, `Resize` and `ResizeInPlace`.

**Promises.** A new region is non-empty, 16-byte aligned, inside the arena
and apart from every live region. A moved region is apart from its old place
too, because the old one is live while `realloc` copies. The arena only grows.

**How TLC checks it.** The steps take the new region's start from `allocs'`,
so TLC checks a refinement without enumerating addresses.

### Compress (compress.c, compress_test.c)

**State.**
- The encoder has `src`, the bytes read so far (`cpos`), the current chunk
  (`cbuf`, `ci`), the run (`have_prev`, `prev`, `cnt`), the bytes it wrote
  (`rle`) and `cpc`.
- The decoder has `dpos`, `dbuf`, `di`, `carry` (-1 for none), `dphase`
  (where it is inside one loop iteration), the bytes it wrote (`out`) and `dpc`.
- `stale_rle` and `stale_out` are what the two files held before.
  `RleFile` and `OutFile` are the files as written over those contents,
  which `open_out` does not truncate.
- `job` is a history variable: `"roundtrip"` when the run is compress_test's
  (`RoundTripInit`), `"decode"` when `compress -d` is run alone on a file it
  is given (`DecodeInit`, from `main`'s mode 2). The round-trip properties
  are about the first job only.

**Actions.**
- `CRead` is the encoder's `read`. It returns any size from 1 to `INBUF`, 0 at
  end of file, or an error.
- `CByte` is one byte of the scan, with its three branches. The pair write can fail.
- `CFlush` writes the last pair.
- `DStart` is `do_roundtrip` running `compress -d` after `compress -c` exited 0.
- `DRead` is the decoder's read, with the odd-byte check at end of file.
- `DCarry` pairs a carried count with the first byte of the chunk.
- `DPair` decodes one full pair.
- `DTail` carries a dangling count byte to the next read.
- Every decoded run goes through `Emit`, which writes it or fails.

**Reference.** `RefEncode`, `RefDecode` and `WellFormed` define the format
from its description, recursively over the whole sequence and not from the
code's loops.

### Shell (shell.c, gets in ulib.c)

**State.**
- `cmd_num`, `last_status` and `hist` are the code's variables. `hist` maps
  each slot to `[num, line]`, and a line is a sequence of one-character strings.
- `eof` is set once standard input is closed, and `exited` once the shell exits.
- `log` is a history variable: every line recorded, by its number.
- `expansion` holds the digits of the last `!N` and the number it was parsed to.

**Actions.**
- `ReadLine(line)` is a whole iteration on a typed line: strip, comment,
  blank check, expansion, `add_history`, tokenizing and dispatch. The
  operators have the code's names.
- `Dispatch` covers `exit`, `history`, `cd` (missing argument, `chdir`
  failing or not) and an external command (fork failing, or fork, exec and
  `wait(0)`).
- `next_token`, with the file's own `strspn` and `strcspn`, is translated
  with `char *` as a record that may be null. `Tokenize` is main's loop over
  it, capped at 31 tokens.
- `ParseNum` computes the `!N` digit loop in a 32-bit `int` that wraps. It
  keeps the value as two 16-bit halves so that TLC's own integers never overflow.
- `scripting` is chosen in `Init`: an interactive shell, or one given a script file.
- `CloseStdin` is the user closing the input, or the script file ending.
- `GetsAtEof` is an interactive iteration after that: `gets` returns an
  empty buffer, which is skipped as blank, so the step changes nothing.
- `ScriptEof` is the script loop's empty read: `i == 0`, and `exit(0)`.

### ULib (ulib.c)

A C string is the sequence of its characters before the NUL; a `char *`
result is an index into it, or 0. Memory is a function from addresses to
bytes. A stream is the sequence of bytes `read` would still return.
- `strcmp`, `strlen`, `strchr`, `atoi` (a 32-bit `int` kept as two 16-bit
  halves), `memset`, `memmove` (forward when `src > dst`, else backward),
  `memcpy` (which is `memmove`) and `memcmp` follow their loops.
- `ReadUpTo` is the byte loop shared by `gets` and `fgets`. `gets` returns
  the buffer whatever happened; `fgets` returns -1 on a failed read even
  after it has stored bytes. The comment above `fgets` says it returns the
  characters read, so the reference check states only what the two agree
  on: a count is the bytes stored, and a line that fits is returned whole.
- Each operator has a reference definition (`RefCompare`, `RefChr`,
  `RefAtoi`, `RefLine`, `RefMove`, `RefCompareBytes`), written from what
  the function should do rather than from its loop.
- `MC_Shell` checks them (`LibraryMatchesReference`) on the probes and on
  the lines the shell holds in its ring, which are what `main` passes to
  `strcmp`.

### Getline (getline in ulib.c, over UMalloc)

`getline` is an operator from the heap before a call to the heap after it:
a program is one thread, so no other heap call runs in between. Its
`malloc` and `free` are `UMalloc`'s `MallocOp` and `FreeOp`, and its
`fgets`, `memcpy` and `strcmp` are `ULib`'s. `GetlineLoop` is the `while`
loop: `fgets` into the rest of the buffer, then `malloc(size * 2)`,
`memcpy`, `free` and the line-end test. The result records whether an
`fgets` or `memcpy` went past its buffer (`overrun`) and whether a `malloc`
returned NULL (`crash`). `ReadLines` is a caller that loops while `getline`
returns more than 0; each result is bound once, and its heap, buffer and
rest of the file feed the next call. The properties evaluate it from the current heap
`Cur` of every state of the umalloc run. `GetlineContract` computes each
caller's reads once and states three things about them: the lines read,
the buffer bounds, and the blocks left used.

`fgets`'s -1 after a partial read means `getline` drops a last line that
has no newline, although both comments say they return the characters
read. `GetlineContract` states only what the code and the comments agree
on: the first calls return the terminated lines with their lengths. It
says nothing about what the call after them returns. The disagreement
itself has no run (section 5).

### BrokenStrings and Broken (broken.c)

`broken.c` is a set of exercise functions that `main` calls in turn. Those
that touch the heap or read input are modelled; the rest print values fixed
at compile time (section 5).
- `BrokenStrings` (over `ULib`) has `greeter`: `gets(name, 128)`, then a
  pointer walk that stops at the first newline or at the NUL, and a NUL
  written there. It returns the name and whether the walk went past the
  string's NUL (`overrun`). It also has
  `tokenizer_loop`, the `while` loop that finds each space with `strchr`,
  cuts there and prints the word, breaking at the NUL. `Sentence` is the
  literal that `tokenizer` copies. The references `RefFields`, a recursive
  split into words, and `RefName`, `RefLine` without its newline, are written
  from what the functions should do.
- `Broken` (over `UMalloc`) has `suffixer` and `tokenizer` as operators from
  the heap before the call to the heap after it, as in `Getline`.
  - `suffixer` mallocs `strlen(a) + strlen(b) + 1` bytes. `StrcpyAt` is
    `strcpy` into the buffer at an offset: it stores the string and its NUL
    byte by byte. The bytes `suffixer` writes are those of `strcpy(buf, a)`
    and `strcpy(buf + strlen(a), b)`, and `CString` reads the result up to
    its first NUL.
  - `tokenizer` mallocs `strlen(str) + 1` bytes without checking the result.
    When `malloc` returns NULL, `strcpy` writes through it (`crash`).
    Otherwise it runs the loop and frees the copy.

## 4. Runs

| Run | Module / cfg | Expect | What it shows |
|---|---|---|---|
| kalloc | `MC_KAlloc` / `MC_KAlloc.cfg` | pass (209,754 states, ~20 s) | `TypeOK`, `FreeListExact`, `RefCountIsHolders`, `ExclusiveUntilMapped` and `LockReleased` hold under every interleaving of two CPUs' mmap, freemem, unmap and share calls. |
| kalloc_double_free | `MC_KAllocDoubleFree` | violation | A second `kfree` of a free page pushes it again: `next[1] = 2, next[2] = 1`, a cycle. The spec says this must be fatal. |
| umalloc | `MC_UMalloc` / `MC_UMalloc.cfg` | pass (18,756 states, ~1 min) | `TypeOK`, `BlocksTileArena`, `LiveAllocationsSound`, `ReallocCopiesSafely` and `ImplementsAbstractHeap` hold for every call sequence. `GetlineContract`: from every reachable heap, a caller reading a file with `getline` (passing size 0, or the capacity it was given) gets each terminated line in turn with its length, never writes or copies past a buffer, and ends holding exactly one new block, unless a `malloc` fails. From every reachable heap and strategy, `SuffixerFits`: every byte `suffixer`'s two `strcpy` calls write, at its offset, lies in the payload of the block `malloc` returned (its size after rounding), which nobody else holds, and the result reads `a` then `b`; `TokenizerSound`: unless its unchecked `malloc` fails, `tokenizer` prints exactly the sentence's words and leaves the used blocks as they were. |
| umalloc_coalesce | `MC_UMalloc` / `MC_UMallocCoalesce.cfg` | violation | A free next to the free remainder of a split leaves two adjacent free blocks. The spec requires coalescing. |
| umalloc_realloc_in_place | `MC_UMallocMt90` | violation | mt90's `main` replayed: `realloc_test`'s R1, `realloc(a, 542)`, which the test says "does not actually need to be resized", moves `a` from 17680 to 20512, because `realloc` always mallocs, copies and frees. |
| umalloc_mt70_first_fit | `MC_UMallocMt70` | violation | First fit puts G in B's slot (16592), not after F. The six blocks use 3952 bytes and leave a 144-byte free tail. |
| umalloc_uint_wrap | `MC_UMallocWrap` | violation | `calloc(1, UINT_RANGE - 8)`: `align16` rounds the size past the range to 0, and the caller holds a used block with a 0-byte payload for a request of almost 2^32 bytes (`LiveAllocationsSound`). `calloc(2, UINT_RANGE/2 + 8)` wraps the product to 16 the same way. The spec says an overflowing count * size is an allocation failure. |
| compress | `MC_Compress` | pass (113,331 states, ~10 s) | Two jobs, told apart by the history variable `job`. The round trip: for inputs of up to 5 bytes and every way reads split them, `CompressLossless`, `CompressMatchesReference` and `RoundTrip` into fresh files. `compress -d` alone (`DecodeInit`): for any stream of up to 5 bytes it exits 0 only on a well-formed stream and writes its reference decoding (`DecompressAcceptsOnlyWellFormed`). Both jobs terminate (`Terminates`). |
| compress_stale_output | `MC_CompressStale` | violation | Decompressing `<<1>>` into an existing file `<<0,0,0>>` exits 0 and leaves `<<1,0,0>>`: `open_out` has no `O_TRUNC`. |
| shell | `MC_Shell` | pass (10,230 states, ~75 s) | With a ring that wraps, `HistoryRingMatchesLog` (which includes `history` listing exactly the last `MAX_HIST` recorded commands), `PrefixFindsNewest` and `NumbersNeverReused` hold for every sequence of lines. `TokenizeMatchesReference` checks the tokenize loop against a reference split into words, on every string of up to 4 characters over a word character, a space and a tab, and on a line of 33 words, of which it keeps the first 31. `LibraryMatchesReference`: `strcmp`, `strchr`, `atoi`, `gets`, `fgets`, `memmove`, `memcpy` and `memcmp` agree with their reference definitions on the probes and on every line in the ring. From broken.c: `TokenizerLoopMatchesFields`, `tokenizer`'s split loop prints the reference words and never passes the NUL, on every string of up to 5 characters over a letter and a space, on the sentence and on every line in the ring; `GreeterStripsNewline`, `greeter` yields the line without its newline, on every line of up to 3 characters over a letter, `\n` and `\r` and on every line in the ring. |
| shell_hist_overflow | `MC_ShellOverflow` | violation | `!4294967297` wraps to 1 and runs command 1. |
| shell_eof | `MC_Shell` / `MC_ShellEof.cfg` | violation | After the input closes the shell never exits: `gets` never returns 0. |

Every property of the passing runs is also checked against a mutant of the
code it is about (`PROJECT.json`, "mutants"): a dropped pop, a dropped null
check, an unconditional push, a missing release, a lost increment, an
unchecked `malloc_setfsm`, a missing `prev` fix-up, a missing `set_used`, a
header-less block size, a copy size that includes the header, a run cap off
by one, a count not restarted, a last pair not written, a carry dropped or
ignored, a read loop that does not break, a ring slot off by one, a prefix
scan from the oldest end, `cd` not advancing the number, a status set to
the pid, `next_token` without its zero-length check, a token cap of 32, a
first `getline` buffer of one byte, a
`getline` that does not free the old buffer, and a `memmove` that always
copies forward, `suffixer` without the byte for the NUL, `tokenizer`
without its `free`, a split loop without its break at the NUL, and
`greeter`'s walk without its NUL test. TLC finds each of them.

### Bounds

**KAlloc: 2 CPUs and 3 pages.** This is enough for:
- one CPU to fill a page while the other allocates, frees or shares;
- a page to be shared, so that its count reaches 2;
- the list to empty, so that `kalloc` fails.

**UMalloc: requests 0, 1000, 1500 and 5000 bytes; calloc(2, 500); at most
3 live allocations; an arena of two pages.** These bounds produce:
- splits, and declined splits (the remainder is at most 48 bytes);
- reuse of freed blocks under all three strategies;
- a chunk larger than a page;
- `sbrk` failure;
- `realloc`'s failure path.

A third page, or smaller requests, multiply the states without adding a new
kind of step.

**UINT_RANGE is 2^30, not the code's 2^32.** TLC's integers are 32-bit and
signed, so 2^32 is not a value; 2^30 leaves room for the additions before
the modulus. The wraps happen at the same distance from the top: within 15
bytes for `align16`, and at any product past the range for `calloc`.
MC_UMallocWrap has one page of arena and one live allocation, because one
`calloc` call shows the wrap.

**Compress: bytes modulo 4 and inputs of up to 5 bytes over {0, 1}; read
buffer 512.**
- With a byte modulo 4 the run cap is 3, so a run of 4 or 5 equal bytes is
  split, as a run of 256 is in the code.
- Reads of every size from 1 up split the stream at every position. A pair
  therefore falls across a read boundary, and the carry is used.
- The decoder's run is any stream of up to 5 bytes over 0..3. That includes
  odd lengths and zero counts.

**Shell: 2 ring slots, command numbers up to 5, 10 typed lines.** With 2
slots the ring wraps after the second command. The lines cover an external
command, a comment, a blank line, `!!`, `!1`, `!a`, `cd` with and without an
argument, `history` and `exit`. `!1` reaches both a command still in its slot
and one overwritten. Failed expansions make holes in the ring.

**Getline and ULib.** The file is `a b \n \r c`: the first line outgrows
the 2- and 4-byte buffers, a one-byte `\r` line follows, and the last line
has no line end. The string functions are checked on every string of up to
3 characters over `a`, `b`, `1`, `\n` and `\r`, with every buffer size up
to the string's length plus 2; the memory functions on every pair of ranges
in 4 bytes.

**broken.c.** `suffixer` is called with `main`'s pair ("kayak", "ing") and
with a pair of 10 and 6 letters. For the second, a size that leaves out
the NUL asks for 16 bytes, which `align16` does not round up, so the NUL
lands past the payload; the first pair's rounding hides that mistake. `tokenizer` runs on its own sentence from every heap of the
umalloc run. After `malloc(5000)` the break is less than a page below the
limit, so `tokenizer`'s `malloc` also fails and its crash is reached.
Letters are abstracted to `w`: the loops compare only with space,
newline and NUL.

### Fairness

`KAlloc` assumes weak fairness only for a CPU that holds `kmem.lock`.
- The code justifies it: a critical section runs with interrupts off and
  contains no wait.
- Acquiring the spinlock is not fair, because a CPU may lose every race.
- Callers may stop calling, so no other fairness is assumed.

`LockReleased` uses this fairness. The heap runs have no liveness property.

`Compress` assumes weak fairness of its whole next-state relation. One
sequential program runs at a time, and nothing it does waits on anything but
its own reads and writes.

`Shell` assumes weak fairness only of the loop's iterations after end of
input (`GetsAtEof`, `ScriptEof`). The shell is one process that keeps
running, but the user is not obliged to type. `ExitsAtEndOfInput` fails
even under this fairness, because the interactive iteration changes
nothing; a shell run on a script exits by `ScriptEof`.

## 5. Not modelled

- `malloc_name` writes a label that nothing reads. `malloc_print` is pure output.
- `growproc`, `uvmdealloc` and the lazy allocation fault handler are not in
  the repository; `sys_sbrk` models them as xv6 has them (section 3).
- `strace.h` is pure formatting of system-call names and arguments.
- `compress.c`'s `main` parses its arguments and opens the files. These steps
  choose the mode and fail before any byte is read, so they are not modelled.
- In the shell:
  - Opening the script file is not modelled. A failure there exits before the loop.
  - `print_prompt` only prints. `history_command` is modelled by the set of
    entries it lists, without their format.
  - The duration stored after `wait` is only printed.
  - `last_status` is left unchanged after an external command, because
    `wait(0)` discards the child's status. The comment at `shell.c:204` says
    `last_status` means "0 = success, 1 = fail", but the code never sets it
    from a command's result. This disagreement has no run.
  - The 255-character copy of an expansion cannot truncate, because a
    history line holds at most 255 characters.
- `ulib.c`: `stat` (open, fstat, close), `start` (calls `main` and `exit`)
  and `sbrk`/`sbrklazy` (wrappers of `sys_sbrk`) are system-call plumbing.
- `getline`'s and `tokenizer`'s `malloc` results are not checked. When the
  heap cannot grow (in the umalloc run, after `malloc(5000)`), the next
  `fgets`, `memcpy` or `strcpy` writes through NULL. The model reaches this
  state (`crash`), and the properties exclude it. Nothing in the spec or
  the comments says the programs survive it, so it has no run.
- In `broken.c`, `angular`, `sizer`, `displayer`, `adder`, `driver` and
  `finisher` print only values fixed at compile time, so they have no
  state to model.
- `fgets` returns -1 when the stream ends before a line end, even after it
  has stored bytes, so `getline` returns -1 for a last line without a
  newline. The comments at `ulib.c:161` and `ulib.c:187` say both return
  the characters read. The properties leave this case out, and it has no
  run.
- `malloc` of 2^31 bytes or more kills the process (section 3). The spec
  says `malloc` then returns none. No run reaches it, because the model has
  no state after the process dies.
- A stale `free` of a pointer whose block was handed out again cannot be
  told from a free by the block's new holder, so the client model does not
  generate it.
- `atoi` wraps a value of 2^31 or more, but its reference is only stated for
  the short probes, which never reach it.
- The other user programs only call system calls and print. `leetify`
  forks, execs and pipes between processes; its character mapping is
  output formatting.
- The other system calls of `sysproc.c` either write a device register or call
  kernel code that is not in the repository (`kkill`, `sleep`, `fork`, `wait`).
- `incref` does not check that the page is allocated. Its callers, the VM
  layer, are not in the repository, and the model lets only a holder of a
  page share it, as the spec requires.
- The shell's `wait(0)` (`shell.c:375`) discards the child's status. This
  is the `last_status` disagreement above.
