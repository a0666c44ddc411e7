----------------------------- MODULE MC_Compress -----------------------------
(* compress_test's round trip for every input of up to five bytes over    *)
(* two byte values.  Bytes are two bits wide, so a run is capped at 3 and *)
(* inputs of four or five equal bytes are split as the code splits runs   *)
(* longer than 255.  INBUF is the code's 512: every read of these short   *)
(* files may return any number of the remaining bytes.  The output files  *)
(* do not exist beforehand.  compress -d is also run alone on every file  *)
(* of up to five two-bit bytes, well formed or not.                       *)
EXTENDS Compress

MC_ByteMod == 4
MC_INBUF == 512
MC_Inputs == UNION {[1..n -> {0, 1}] : n \in 0..5}
MC_OldRle == {<< >>}
MC_OldOut == {<< >>}
MC_RleInputs == UNION {[1..n -> 0..3] : n \in 0..5}
=============================================================================
