-------------------------------- MODULE ULib --------------------------------
(***************************************************************************)
(* The string and memory helpers of src/user/ulib.c as operators.         *)
(*                                                                         *)
(* A C string is the sequence of its characters before the NUL, each a    *)
(* one-character string; a char * result is an index into it (1 for the   *)
(* first character) or 0.  Memory is a function from addresses to byte    *)
(* values, and a copy is applied a byte at a time in the code's order.    *)
(* A stream (standard input or a file) is the sequence of bytes read(2)   *)
(* would still return; read fails (returns 0) when it is empty.           *)
(* Each operator is followed by the reference definition it is checked    *)
(* against.                                                               *)
(***************************************************************************)
EXTENDS Integers, Sequences, SequencesExt

LOWER == <<"a","b","c","d","e","f","g","h","i","j","k","l","m",
           "n","o","p","q","r","s","t","u","v","w","x","y","z">>
DIGITS == <<"0","1","2","3","4","5","6","7","8","9">>

\* uchar of the characters the models use: their ASCII codes.
ASCII ==
  ("\t" :> 9) @@ ("\n" :> 10) @@ ("\r" :> 13) @@ (" " :> 32)
  @@ ("!" :> 33) @@ ("#" :> 35) @@ ("-" :> 45)
  @@ [c \in ToSet(DIGITS) |-> 47 + CHOOSE i \in DOMAIN DIGITS : DIGITS[i] = c]
  @@ [c \in ToSet(LOWER) |-> 96 + CHOOSE i \in DOMAIN LOWER : LOWER[i] = c]

\* The byte a char * points at: the NUL past the end reads as 0.
At(s, i) == IF i <= Len(s) THEN ASCII[s[i]] ELSE 0

EOL == {"\n", "\r"}

(***************************************************************************)
(* Strings.                                                                *)
(***************************************************************************)

\* strcpy(s, t): while((*s++ = *t++) != 0); the buffer at s then holds t.
strcpy(s, t) == t

\* strcmp: advance while *p is not NUL and equals *q; return the difference
\* of the bytes where they stop.
strcmp(p, q) ==
  LET RECURSIVE Scan(_)
      Scan(i) == IF At(p, i) # 0 /\ At(p, i) = At(q, i) THEN Scan(i + 1)
                 ELSE At(p, i) - At(q, i)
  IN Scan(1)

\* Reference: the sign of the lexicographic order of two byte sequences,
\* a proper prefix first.
RefCompareBytes(x, y) ==
  IF x = y THEN 0
  ELSE IF IsPrefix(x, y) THEN -1
  ELSE IF IsPrefix(y, x) THEN 1
  ELSE LET i == CHOOSE k \in 1..Len(x) :
                  x[k] # y[k] /\ \A j \in 1..(k - 1) : x[j] = y[j]
       IN IF x[i] < y[i] THEN -1 ELSE 1

Bytes(s) == [i \in 1..Len(s) |-> ASCII[s[i]]]

RefCompare(p, q) == RefCompareBytes(Bytes(p), Bytes(q))

\* strlen: for(n = 0; s[n]; n++).
strlen(s) == Len(s)

\* strchr(s, c): the first position holding c, or 0.
strchr(s, c) == SelectInSeq(s, LAMBDA x : x = c)

\* Reference: 0 when c is absent, else a position of c with none before it.
RefChr(s, c) ==
  IF \A i \in 1..Len(s) : s[i] # c THEN 0
  ELSE CHOOSE i \in 1..Len(s) : s[i] = c /\ \A j \in 1..(i - 1) : s[j] # c

\* atoi: n = n*10 + *s++ - '0' over the leading digits, in an int that
\* wraps on overflow.  n is kept as two 16-bit halves so that TLC's own
\* integers never overflow.
atoi(s) ==
  LET RECURSIVE Acc(_, _, _)
      Acc(i, hi, lo) ==
        IF i > Len(s) \/ s[i] \notin ToSet(DIGITS) THEN <<hi, lo>>
        ELSE LET l == lo * 10 + (ASCII[s[i]] - 48)
             IN Acc(i + 1, (hi * 10 + l \div 65536) % 65536, l % 65536)
      h == Acc(1, 0, 0)
  IN IF h[1] >= 32768 THEN (h[1] - 65536) * 65536 + h[2] ELSE h[1] * 65536 + h[2]

\* Reference for numbers below 2^31: the value of the leading digits.
RefAtoi(s) ==
  LET k == IF \E i \in 1..Len(s) : s[i] \notin ToSet(DIGITS)
           THEN SelectInSeq(s, LAMBDA x : x \notin ToSet(DIGITS)) - 1
           ELSE Len(s)
  IN FoldLeft(LAMBDA n, c : n * 10 + (ASCII[c] - 48), 0, SubSeq(s, 1, k))

(***************************************************************************)
(* Reading a line.                                                         *)
(***************************************************************************)

\* The loop shared by gets and fgets: read one byte at a time while
\* i + 1 < max, store it, and stop after '\n' or '\r' or when read fails.
\* <<the bytes stored, the rest of the stream>>.
RECURSIVE ReadUpTo(_, _, _)
ReadUpTo(in, buf, max) ==
  IF Len(buf) + 1 >= max \/ in = << >> THEN <<buf, in>>
  ELSE IF Head(in) \in EOL THEN <<Append(buf, Head(in)), Tail(in)>>
  ELSE ReadUpTo(Tail(in), Append(buf, Head(in)), max)

\* gets(buf, max) on standard input: the loop ends on a failed read as on a
\* newline, and gets returns buf in every case.
gets(in, max) ==
  LET r == ReadUpTo(in, << >>, max) IN [buf |-> r[1], rest |-> r[2]]

\* fgets(buf, max, fd): as gets, but a failed read returns -1 at once,
\* whatever the loop had stored; otherwise the count stored.
fgets(in, max) ==
  LET r == ReadUpTo(in, << >>, max)
      failed == Len(r[1]) + 1 < max /\ (r[1] = << >> \/ Last(r[1]) \notin EOL)
  IN [ret |-> IF failed THEN -1 ELSE Len(r[1]), buf |-> r[1], rest |-> r[2]]

\* Reference for a line that fits: the bytes through the first line end.
RefLine(in) ==
  LET e == SelectInSeq(in, LAMBDA x : x \in EOL)
  IN IF e = 0 THEN in ELSE SubSeq(in, 1, e)

(***************************************************************************)
(* Memory.                                                                 *)
(***************************************************************************)

\* memset(dst, c, n): for(i = 0; i < n; i++) cdst[i] = c.
memset(mem, dst, c, n) ==
  [a \in DOMAIN mem |-> IF dst <= a /\ a < dst + n THEN c ELSE mem[a]]

(* Mutant: the copy always runs forward. *)
memmove_forward(mem, dst, src, n) ==
  LET RECURSIVE Fwd(_, _)
      Fwd(m, i) == IF i >= n THEN m ELSE Fwd([m EXCEPT ![dst + i] = m[src + i]], i + 1)
  IN Fwd(mem, 0)

\* memmove(dst, src, n): copy forward when src > dst, else backward from
\* the end, one byte at a time in that order.
memmove(mem, dst, src, n) ==
  LET RECURSIVE Fwd(_, _), Bwd(_, _)
      Fwd(m, i) == IF i >= n THEN m ELSE Fwd([m EXCEPT ![dst + i] = m[src + i]], i + 1)
      Bwd(m, i) == IF i < 0 THEN m ELSE Bwd([m EXCEPT ![dst + i] = m[src + i]], i - 1)
  IN IF src > dst THEN Fwd(mem, 0) ELSE Bwd(mem, n - 1)

\* memcpy(dst, src, n) is memmove(dst, src, n).
memcpy(mem, dst, src, n) == memmove(mem, dst, src, n)

\* Reference: the n bytes at src, as they were before the call, end up at
\* dst, and nothing else changes.
RefMove(mem, dst, src, n) ==
  [a \in DOMAIN mem |-> IF dst <= a /\ a < dst + n THEN mem[src + a - dst] ELSE mem[a]]

\* memcmp(s1, s2, n): the difference of the first differing bytes, or 0.
memcmp(mem, s1, s2, n) ==
  LET RECURSIVE Scan(_)
      Scan(i) == IF i >= n THEN 0
                 ELSE IF mem[s1 + i] # mem[s2 + i] THEN mem[s1 + i] - mem[s2 + i]
                 ELSE Scan(i + 1)
  IN Scan(0)

-----------------------------------------------------------------------------
(***************************************************************************)
(* The operators against their references, over every string of S read   *)
(* with every buffer size, and over memory of N bytes.                    *)
(***************************************************************************)
Sign(n) == IF n > 0 THEN 1 ELSE IF n < 0 THEN -1 ELSE 0

HasEOL(s) == \E i \in 1..Len(s) : s[i] \in EOL

StringsMatchReference(S) ==
  /\ \A p, q \in S : Sign(strcmp(p, q)) = RefCompare(p, q)
  /\ \A p \in S, c \in ToSet(LOWER) \cup EOL : strchr(p, c) = RefChr(p, c)
  /\ \A p \in S : atoi(p) = RefAtoi(p)
  /\ \A in \in S : \A max \in 0..(Len(in) + 2) :
       LET g == gets(in, max)
           f == fgets(in, max)
       IN
       \* nothing read is lost or invented, and the buffer is not overrun
       /\ g.buf \o g.rest = in /\ f.buf = g.buf /\ f.rest = g.rest
       /\ max >= 1 => Len(g.buf) <= max - 1
       \* a count fgets returns is the characters it stored; with room for a
       \* line and its NUL, fgets returns that line.  What it returns for a
       \* stream that ends before a line end, where the code and the comment
       \* at ulib.c:161 disagree, is not stated here.
       /\ f.ret # -1 => f.ret = Len(f.buf)
       /\ max > Len(RefLine(in)) + 1 /\ HasEOL(in) =>
            f.buf = RefLine(in) /\ f.ret = Len(RefLine(in))

MemoryMatchesReference(N) ==
  LET A == 0..(N - 1)
      Distinct == [a \in A |-> a + 1]
      Window(m, a, n) == [i \in 1..n |-> m[a + i - 1]]
  IN
  /\ \A d, s \in A, n \in 0..N :
       d + n <= N /\ s + n <= N =>
         /\ memmove(Distinct, d, s, n) = RefMove(Distinct, d, s, n)
         /\ memcpy(Distinct, d, s, n) = RefMove(Distinct, d, s, n)
  /\ \A m \in [A -> {1, 2}], s1, s2 \in A, n \in 0..N :
       s1 + n <= N /\ s2 + n <= N =>
         Sign(memcmp(m, s1, s2, n)) = RefCompareBytes(Window(m, s1, n), Window(m, s2, n))

=============================================================================
