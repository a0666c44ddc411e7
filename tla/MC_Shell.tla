------------------------------ MODULE MC_Shell ------------------------------
(***************************************************************************)
(* The shell's loop with a ring of 2 slots (the code has 100) and up to 5  *)
(* command numbers, so the ring wraps; the lines exercise an external     *)
(* command, a comment, a blank line, each kind of '!' expansion, cd with   *)
(* and without an argument, history and exit.                              *)
(***************************************************************************)
EXTENDS Shell, ULib, BrokenStrings

MC_MAX_HIST == 2
MC_MaxCmd == 5
MC_TokLen == 4
MC_Lines ==
  { <<"a", "\n">>,
    <<"a", "b", " ", "#", "x", "\n">>,
    <<" ", "#", "\n">>,
    <<"!", "!", "\n">>,
    <<"!", "1", "\n">>,
    <<"!", "a", "\n">>,
    <<"c", "d", " ", "a", "\n">>,
    <<"c", "d", "\n">>,
    <<"h", "i", "s", "t", "o", "r", "y", "\n">>,
    <<"e", "x", "i", "t", "\n">> }

\* Every string of up to 3 characters over a letter, a digit and the two line
\* ends, and 4 bytes of memory.
Probes == BoundedSeq({"a", "b", "1", "\n", "\r"}, 3)
MemBytes == 4

\* A constant: TLC evaluates it once.
LibraryChecks == StringsMatchReference(Probes) /\ MemoryMatchesReference(MemBytes)

\* ulib's strcmp, strchr, atoi, gets and fgets agree with their reference
\* definitions on every probe string read with every buffer size, and on
\* every line the shell's gets has put in the history ring (the lines main
\* compares with strcmp); memmove and memcpy move overlapping ranges as a
\* copy through a temporary would; memcmp orders byte ranges
\* lexicographically.
LibraryMatchesReference ==
  /\ LibraryChecks
  /\ StringsMatchReference({hist[i].line : i \in DOMAIN hist})

\* Every string of up to five letters and spaces (leading, doubled and
\* trailing spaces included), and every line of up to three letters, '\n'
\* and '\r', for the string functions of broken.c.
SpaceProbes == UNION {[1..n -> {"w", " "}] : n \in 0..5}
LineProbes == UNION {[1..n -> {"w", "\n", "\r"}] : n \in 0..3}
HistLines == {hist[i].line : i \in DOMAIN hist}

\* broken.c's tokenizer loop prints the space-separated fields of its
\* string in order and stops at the NUL of its copy (the '\0' break), on
\* its own sentence, on every short string of letters and spaces, and on
\* every line in the history ring.
TokenizerLoopMatchesFields ==
  TokenizerLoopMatches(SpaceProbes \cup {Sentence} \cup HistLines)

\* broken.c's greeter strips the '\n' gets kept and its scan stops at the
\* NUL when there is none (a '\r' ends the line and is kept), on every
\* short line and on every line in the history ring.
GreeterStripsNewline ==
  GreeterMatches(LineProbes \cup HistLines)
=============================================================================
