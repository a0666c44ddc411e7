--------------------------- MODULE MC_CompressStale ---------------------------
(* compress_test's round trip when its .rle and output files are left     *)
(* over, longer, from an earlier run with other data: open_out opens them *)
(* with O_CREATE | O_WRONLY and no O_TRUNC.                               *)
EXTENDS Compress

MC_ByteMod == 4
MC_INBUF == 512
MC_Inputs == {<<1>>, <<1, 1>>}
MC_OldRle == {<< >>, <<1, 0, 2, 1>>}
MC_OldOut == {<< >>, <<0, 0, 0>>}
MC_RleInputs == {}
=============================================================================
