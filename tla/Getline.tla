------------------------------- MODULE Getline -------------------------------
(***************************************************************************)
(* ulib.c's getline(&buf, size, fd) over the heap of umalloc.c: its       *)
(* malloc and free calls are UMalloc's MallocOp and FreeOp, its fgets,    *)
(* memcpy and strcmp are ULib's.  A program is one thread, so a getline   *)
(* call runs from start to end with no other heap call in between: it is  *)
(* an operator from the heap before the call to the heap after it, and    *)
(* its properties are checked from every heap state the umalloc run       *)
(* reaches, for a caller that reads a whole file line by line.            *)
(*                                                                         *)
(* Memory contents are not modelled; text is what the buffer holds before *)
(* its NUL, and capacity the size its malloc was asked for.               *)
(***************************************************************************)
EXTENDS UMalloc, ULib

CONSTANT FileText   \* the bytes of the file the caller reads

\* What a getline call ends with.  crash: a malloc returned NULL and the
\* next write through it kills the process.  overrun: an fgets or memcpy
\* went past the end of its buffer.
Result(ret, H, b, cap, text, rest, overrun, crash) ==
  [ret |-> ret, heap |-> H, buf |-> b, cap |-> cap, text |-> text,
   rest |-> rest, overrun |-> overrun, crash |-> crash]

\* while ((curr_read = fgets(*buf + chars_read, size - chars_read, fd))):
\* return -1 on fgets' -1; else count it, grow the buffer to size * 2 with
\* malloc, memcpy and free, and stop after a line end.
RECURSIVE GetlineLoop(_, _, _, _, _, _, _, _, _)
GetlineLoop(H, b, cap, size, chars_read, in, text, ov, fsm) ==
  LET f == fgets(in, size - chars_read)
      written == chars_read + Len(f.buf) + (IF f.ret < 0 THEN 0 ELSE 1)
      ov1 == ov \/ written > cap
      txt == text \o f.buf
  IN
  IF f.ret <= 0
  THEN Result(IF f.ret < 0 THEN -1 ELSE chars_read, H, b, cap, txt, f.rest, ov1, FALSE)
  ELSE
    LET n == chars_read + f.ret
        temp == MallocOp(H, size * 2, fsm)
        ov2 == ov1 \/ n + 1 > cap \/ n + 1 > size * 2     \* memcpy(temp, *buf, n + 1)
        H2 == FreeOp(temp.heap, b)
        last_char == <<txt[n]>>
    IN
    IF temp.ptr = NULL
    THEN Result(-1, temp.heap, b, cap, txt, f.rest, ov2, TRUE)
    ELSE IF strcmp(last_char, <<"\n">>) = 0 \/ strcmp(last_char, <<"\r">>) = 0
    THEN Result(n, H2, temp.ptr, size * 2, txt, f.rest, ov2, FALSE)
    ELSE GetlineLoop(H2, temp.ptr, size * 2, size * 2, n, f.rest, txt, ov2, fsm)

(* Mutant: the first buffer is malloc(1), with no room for the NUL. *)
getline_malloc_one(H, b, cap, size, in, fsm) ==
  IF b = NULL \/ size < 2
  THEN LET M == MallocOp(FreeOp(H, b), 1, fsm) IN
       IF M.ptr = NULL THEN Result(-1, M.heap, NULL, 0, << >>, in, FALSE, TRUE)
       ELSE GetlineLoop(M.heap, M.ptr, 1, 2, 0, in, << >>, FALSE, fsm)
  ELSE GetlineLoop(H, b, cap, size, 0, in, << >>, FALSE, fsm)

(* Mutant: the old buffer is not freed before malloc(2). *)
getline_no_free(H, b, cap, size, in, fsm) ==
  IF b = NULL \/ size < 2
  THEN LET M == MallocOp(H, 2, fsm) IN
       IF M.ptr = NULL THEN Result(-1, M.heap, NULL, 0, << >>, in, FALSE, TRUE)
       ELSE GetlineLoop(M.heap, M.ptr, 2, 2, 0, in, << >>, FALSE, fsm)
  ELSE GetlineLoop(H, b, cap, size, 0, in, << >>, FALSE, fsm)

\* getline(&buf, size, fd) from heap H, where buf holds cap bytes: a NULL
\* buffer or a size below 2 is freed and replaced by malloc(2), unchecked.
getline(H, b, cap, size, in, fsm) ==
  IF b = NULL \/ size < 2
  THEN LET M == MallocOp(FreeOp(H, b), 2, fsm) IN
       IF M.ptr = NULL THEN Result(-1, M.heap, NULL, 0, << >>, in, FALSE, TRUE)
       ELSE GetlineLoop(M.heap, M.ptr, 2, 2, 0, in, << >>, FALSE, fsm)
  ELSE GetlineLoop(H, b, cap, size, 0, in, << >>, FALSE, fsm)

\* The caller: char *line = 0; while (getline(&line, size, fd) > 0) ...,
\* passing size 0 every time, or the capacity of the buffer it was given.
\* The sequence of the results of its calls; each result r is bound once
\* and its heap, buffer and rest of the file feed the next call.
RECURSIVE ReadLines(_, _, _, _, _, _)
ReadLines(H, b, cap, in, fsm, passCap) ==
  CHOOSE out \in
    { IF r.crash \/ r.ret <= 0 THEN <<r>>
      ELSE <<r>> \o ReadLines(r.heap, r.buf, r.cap, r.rest, fsm, passCap)
      : r \in {getline(H, b, cap, IF passCap THEN cap ELSE 0, in, fsm)} } : TRUE

\* Reference: the lines of a file, each through its "\n" or "\r".
RECURSIVE RefLines(_)
RefLines(s) ==
  IF ~HasEOL(s) THEN << >>
  ELSE <<RefLine(s)>> \o RefLines(SubSeq(s, Len(RefLine(s)) + 1, Len(s)))

\* The caller's reads of FileText from the current heap.
Reads(passCap) == ReadLines(Cur, NULL, 0, FileText, current_fsm, passCap)

UsedBlocks(H) == {a \in DOMAIN H.hdr : ~is_free(H.hdr[a])}

-----------------------------------------------------------------------------
(***************************************************************************)
(* Properties.                                                             *)
(***************************************************************************)

\* The caller's loop over the file, from every heap the program can be in,
\* passing size 0 each time or the capacity it was given:
\*  - its first calls return the lines of the file in turn, each through
\*    its line end, with the characters read (the comments at ulib.c:161
\*    and 187); what it returns for bytes after the last line end, on
\*    which the code and those comments disagree, is not stated here;
\*  - no fgets writes past the buffer it was given, NUL included, and no
\*    memcpy reads past the old buffer or writes past temp, however often
\*    the buffer grows;
\*  - every buffer getline grows out of is freed: afterwards the used
\*    blocks are those used before and the one line buffer, which holds
\*    its capacity.
\* Unless a malloc returns NULL, which kills the process.
GetlineContract ==
  \A passCap \in BOOLEAN : \A R \in {Reads(passCap)} :
    LET r == Last(R)
        L == RefLines(FileText)
    IN
    /\ \A i \in 1..Len(R) : ~R[i].overrun
    /\ ~r.crash =>
         /\ Len(R) > Len(L)
         /\ \A i \in 1..Len(L) : R[i].text = L[i] /\ R[i].ret = Len(L[i])
         /\ UsedBlocks(r.heap) = UsedBlocks(Cur) \cup {get_header(r.buf)}
         /\ get_size(r.heap.hdr[get_header(r.buf)]) - HEADER_SIZE >= r.cap

=============================================================================
