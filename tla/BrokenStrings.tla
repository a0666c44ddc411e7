---------------------------- MODULE BrokenStrings ----------------------------
(***************************************************************************)
(* The string handling of src/user/broken.c: greeter's newline strip      *)
(* after gets, and the while loop of tokenizer that splits its copy of    *)
(* str at spaces.  Letters other than the space are abstracted to "w":    *)
(* the loops only compare with ' ', '\n' and NUL.  The heap side of       *)
(* tokenizer and suffixer is in Broken.                                   *)
(***************************************************************************)
EXTENDS ULib

\* A string of n letters.
Word(n) == [i \in 1..n |-> "w"]

\* tokenizer's str, "Hope was a letter I never could send", as its words'
\* lengths.
Sentence ==
  Word(4) \o <<" ">> \o Word(3) \o <<" ">> \o Word(1) \o <<" ">> \o Word(6)
    \o <<" ">> \o Word(1) \o <<" ">> \o Word(5) \o <<" ">> \o Word(5)
    \o <<" ">> \o Word(4)

(* Mutant: the scan stops only at '\n', not at the NUL. *)
greeter_no_nul_check(in) ==
  LET name == gets(in, 128).buf
      nl == SelectInSeq(name, LAMBDA ch : ch = "\n")
      p == IF nl = 0 THEN Len(name) + 2 ELSE nl
  IN [name |-> SubSeq(name, 1, Min({p, Len(name) + 1}) - 1),
      overrun |-> p > Len(name) + 1]

\* greeter: gets(name, 128), then for (; *p != '\n' && *p != 0; p++): p
\* stops at the first '\n' or at the NUL after the Len(name) bytes gets
\* stored; *p = '\0'.  overrun: p went past that NUL.
greeter(in) ==
  LET name == gets(in, 128).buf
      nl == SelectInSeq(name, LAMBDA ch : ch = "\n")
      p == IF nl = 0 THEN Len(name) + 1 ELSE nl
  IN [name |-> SubSeq(name, 1, p - 1), overrun |-> p > Len(name) + 1]

(* Mutant: after the last token the loop goes on from c + 1, the byte    *)
(* past the NUL, as it did before the break on '\0' was added.           *)
tokenizer_loop_no_break(str) ==
  LET RECURSIVE Loop(_, _)
      Loop(line, out) ==
        IF line > Len(str) + 1 THEN [printed |-> out, overrun |-> TRUE]
        ELSE IF line = Len(str) + 1 THEN [printed |-> out, overrun |-> FALSE]
        ELSE LET rest == SubSeq(str, line, Len(str))
                 sp == SelectInSeq(rest, LAMBDA ch : ch = " ")
                 c == IF sp = 0 THEN Len(str) + 1 ELSE line + sp - 1
             IN Loop(c + 1, Append(out, SubSeq(str, line, c - 1)))
  IN Loop(1, << >>)

\* tokenizer's loop on its copy of str: while (*c != '\0') find the next
\* ' ' or NUL from c; at the NUL print line and break, else overwrite the
\* space with '\0', print line, and go on from c + 1.  overrun: c went
\* past the NUL.
tokenizer_loop(str) ==
  LET RECURSIVE Loop(_, _)
      Loop(line, out) ==
        IF line > Len(str) + 1 THEN [printed |-> out, overrun |-> TRUE]
        ELSE IF line = Len(str) + 1 THEN [printed |-> out, overrun |-> FALSE]
        ELSE LET rest == SubSeq(str, line, Len(str))
                 sp == SelectInSeq(rest, LAMBDA ch : ch = " ")
                 c == IF sp = 0 THEN Len(str) + 1 ELSE line + sp - 1
             IN IF sp = 0
                THEN [printed |-> Append(out, SubSeq(str, line, c - 1)), overrun |-> FALSE]
                ELSE Loop(c + 1, Append(out, SubSeq(str, line, c - 1)))
  IN Loop(1, << >>)

\* Reference: the fields of s between single spaces, in order, without an
\* empty field after a final space.
RECURSIVE RefFields(_)
RefFields(s) ==
  IF s = << >> THEN << >>
  ELSE LET i == SelectInSeq(s, LAMBDA ch : ch = " ")
       IN IF i = 0 THEN <<s>>
          ELSE <<SubSeq(s, 1, i - 1)>> \o RefFields(SubSeq(s, i + 1, Len(s)))

\* Reference for greeter: the first line gets can store (127 bytes), less
\* a final '\n'.
RefName(in) ==
  LET l == SubSeq(RefLine(in), 1, Min({127, Len(RefLine(in))}))
  IN IF l # << >> /\ Last(l) = "\n" THEN Front(l) ELSE l

(***************************************************************************)
(* Checks against the references, stated as properties in MC_Shell.      *)
(***************************************************************************)

\* tokenizer's while loop on each string of S prints the reference fields
\* in order, and c never passes the NUL.
TokenizerLoopMatches(S) ==
  \A s \in S : tokenizer_loop(s) = [printed |-> RefFields(s), overrun |-> FALSE]

\* greeter on each line of S: the name is the line gets stored without its
\* '\n', and p never passes the NUL.
GreeterMatches(S) ==
  \A in \in S : greeter(in) = [name |-> RefName(in), overrun |-> FALSE]

=============================================================================
