-------------------------- MODULE MC_ShellOverflow --------------------------
(***************************************************************************)
(* The shell with two commands and "!4294967297": the digits after '!'    *)
(* are accumulated in an int, and 4294967297 = 2^32 + 1 wraps to 1.        *)
(***************************************************************************)
EXTENDS Shell

MC_MAX_HIST == 2
MC_MaxCmd == 4
MC_TokLen == 4
MC_Lines ==
  { <<"a", "\n">>,
    <<"b", "\n">>,
    <<"!", "4", "2", "9", "4", "9", "6", "7", "2", "9", "7", "\n">> }
=============================================================================
