------------------------------- MODULE Broken -------------------------------
(***************************************************************************)
(* The calls of src/user/broken.c that use the heap: suffixer's malloc    *)
(* and two strcpy calls, and tokenizer's unchecked malloc, copy, split    *)
(* loop (BrokenStrings) and free.  Each call is an operator from the heap *)
(* before it to the heap after it, as in Getline, so the properties are   *)
(* checked from every heap of the UMalloc model.                          *)
(***************************************************************************)
EXTENDS UMalloc, BrokenStrings

\* The NUL byte of a buffer.
NUL == "NUL"

\* strcpy(buf + off, t) on the bytes of buf, a function from offsets to
\* characters: while((*s++ = *t++) != 0) stores t and then its NUL from
\* offset off on.  The offsets are the bytes written.
StrcpyAt(bytes, off, t) ==
  LET w == Append(t, NUL) IN
  [i \in DOMAIN bytes \cup (off..(off + Len(t))) |->
     IF i \in off..(off + Len(t)) THEN w[i - off + 1] ELSE bytes[i]]

\* The C string at offset 0: the characters before the first NUL.
CString(bytes) ==
  LET n == CHOOSE k \in DOMAIN bytes :
             bytes[k] = NUL /\ \A j \in 0..(k - 1) : j \in DOMAIN bytes /\ bytes[j] # NUL
  IN [i \in 1..n |-> bytes[i - 1]]

(* Mutant: the buffer is one byte short, with no room for the NUL. *)
suffixer_no_nul(H, a, b, fsm) ==
  LET asked == strlen(a) + strlen(b)
      M == MallocOp(H, asked, fsm)
  IN IF M.ptr = NULL
     THEN [heap |-> M.heap, ptr |-> NULL, asked |-> asked, bytes |-> << >>]
     ELSE [heap |-> M.heap, ptr |-> M.ptr, asked |-> asked,
           bytes |-> StrcpyAt(StrcpyAt(<< >>, 0, a), strlen(a), b)]

\* suffixer(a, b): buf = malloc(strlen(a) + strlen(b) + 1), 0 if that
\* fails, else strcpy(buf, a) and strcpy(buf + strlen(a), b).  bytes: what
\* the two strcpy calls store, by offset from buf.
suffixer(H, a, b, fsm) ==
  LET asked == strlen(a) + strlen(b) + 1
      M == MallocOp(H, asked, fsm)
  IN IF M.ptr = NULL
     THEN [heap |-> M.heap, ptr |-> NULL, asked |-> asked, bytes |-> << >>]
     ELSE [heap |-> M.heap, ptr |-> M.ptr, asked |-> asked,
           bytes |-> StrcpyAt(StrcpyAt(<< >>, 0, a), strlen(a), b)]

(* Mutant: the copy is never freed. *)
tokenizer_no_free(H, str, fsm) ==
  LET M == MallocOp(H, strlen(str) + 1, fsm)
      T == tokenizer_loop(str)
  IN IF M.ptr = NULL
     THEN [heap |-> M.heap, crash |-> TRUE, printed |-> << >>, overrun |-> FALSE]
     ELSE [heap |-> M.heap, crash |-> FALSE,
           printed |-> T.printed, overrun |-> T.overrun]

\* tokenizer(): line = malloc(strlen(str) + 1), unchecked; strcpy, the
\* loop, and free(base).  crash: malloc returned NULL and strcpy wrote
\* through it.
tokenizer(H, str, fsm) ==
  LET M == MallocOp(H, strlen(str) + 1, fsm)
      T == tokenizer_loop(str)
  IN IF M.ptr = NULL
     THEN [heap |-> M.heap, crash |-> TRUE, printed |-> << >>, overrun |-> FALSE]
     ELSE [heap |-> FreeOp(M.heap, M.ptr), crash |-> FALSE,
           printed |-> T.printed, overrun |-> T.overrun]

(***************************************************************************)
(* Properties, checked from every heap of the UMalloc model.              *)
(***************************************************************************)

\* suffixer("kayak", "ing") as main calls it, and a pair whose lengths sum
\* to 16, where the rounding of malloc leaves no slack for the NUL.
SuffixArgs == {<<Word(5), Word(3)>>, <<Word(10), Word(6)>>}

\* Whatever the heap and strategy when suffixer runs: if malloc succeeds,
\* every byte the two strcpy calls write, at the offsets they write it,
\* lies in the payload of the block malloc returned (its size rounded by
\* align16, not the size asked), that block is none the client holds, and
\* the second copy overwrites the first NUL so that the string reads a
\* then b.
SuffixerFits ==
  \A ab \in SuffixArgs :
    \A S \in {suffixer(Cur, ab[1], ab[2], current_fsm)} :
      S.ptr # NULL =>
        /\ DOMAIN S.bytes \subseteq
             0..(get_size(S.heap.hdr[get_header(S.ptr)]) - HEADER_SIZE - 1)
        /\ S.ptr \notin DOMAIN live
        /\ CString(S.bytes) = ab[1] \o ab[2]

\* Whatever the heap and strategy when tokenizer runs: unless its unchecked
\* malloc failed, it prints exactly the space-separated words of str, c
\* never passes the NUL of the copy, and free(base) leaves in use exactly
\* the blocks in use before the call, so the copy does not leak.
TokenizerSound ==
  \A T \in {tokenizer(Cur, Sentence, current_fsm)} :
    ~T.crash =>
      /\ T.printed = RefFields(Sentence)
      /\ ~T.overrun
      /\ {a \in DOMAIN T.heap.hdr : ~is_free(T.heap.hdr[a])}
           = {a \in DOMAIN hdr : ~is_free(hdr[a])}

=============================================================================
