------------------------------ MODULE Compress ------------------------------
(***************************************************************************)
(* The run-length coder of src/user/compress.c, run the way compress_test *)
(* runs it: `compress -c in rle`, then, if that exited 0, `compress -d rle *)
(* out`.  The encoded stream is pairs <<count, value>> of bytes; runs      *)
(* longer than the largest byte value are split.                          *)
(*                                                                         *)
(* Each read(2) returns any number of bytes from 1 to INBUF (a pipe or    *)
(* stdin may return short reads), so the decoder's carry of a count byte  *)
(* across a read boundary is exercised for every split of the stream.     *)
(* Reads and writes may fail.  A byte is a number modulo ByteMod: the     *)
(* code's uchar has ByteMod = 256 and caps runs at 255 = ByteMod - 1.     *)
(*                                                                         *)
(* Both programs open their output with O_CREATE | O_WRONLY and no        *)
(* O_TRUNC, so a file that already exists keeps the bytes past those the  *)
(* program writes: stale_rle and stale_out are the files' old contents.   *)
(***************************************************************************)
EXTENDS Naturals, Sequences, SequencesExt

CONSTANTS
  ByteMod,   \* number of byte values (256)
  INBUF,     \* size of the read buffer (512)
  Inputs,    \* the input files compress -c may be given
  RleInputs, \* files given straight to compress -d, not written by compress
  OldRle,    \* possible old contents of the .rle file
  OldOut     \* possible old contents of the output file

Bytes == 0..(ByteMod - 1)
NoCarry == -1

VARIABLES
  src,        \* the input file
  cpos, cbuf, ci,          \* compress: bytes read, current chunk, next index
  have_prev, prev, cnt,    \* compress: the run being counted
  rle,        \* bytes compress has written to the .rle file
  cpc,        \* compress: "run", "flush", "exit0" or "exit1"
  stale_rle, stale_out,    \* old contents of the two output files
  dpos, dbuf, di, carry,   \* decompress: bytes read, chunk, index, carry
  dphase,     \* decompress: "read", "carry" or "pairs" within the loop
  out,        \* bytes decompress has written to the output file
  dpc,        \* decompress: "wait", "run", "exit0" or "exit1"
  job         \* history variable: "roundtrip" or "decode"

cvars == <<src, cpos, cbuf, ci, have_prev, prev, cnt, rle, cpc>>
dvars == <<dpos, dbuf, di, carry, dphase, out, dpc>>
vars == <<cvars, stale_rle, stale_out, dvars, job>>

\* A file written from offset 0 over old contents that are not truncated.
Overwrite(new, old) == new \o SubSeq(old, Len(new) + 1, Len(old))

RleFile == Overwrite(rle, stale_rle)
OutFile == Overwrite(out, stale_out)

\* cnt copies of val, as the decoder's write loop emits them.
Run(cnt_, val) == [k \in 1..cnt_ |-> val]

\* read(fd, buf, INBUF) on a file of which pos bytes have been read.
ReadSizes(file, pos) ==
  1..(IF Len(file) - pos < INBUF THEN Len(file) - pos ELSE INBUF)

(***************************************************************************)
(* rle_compress_fd                                                         *)
(***************************************************************************)
Pair == <<cnt % ByteMod, prev>>   \* uchar pair[2] = { (uchar)cnt, prev }

\* The read at the top of the loop, once the chunk is used up: n < 0 is a
\* read error, n == 0 ends the loop, otherwise the chunk is scanned.
CRead ==
  /\ cpc = "run" /\ ci > Len(cbuf)
  /\ \/ /\ cpos = Len(src)
        /\ cpc' = "flush"
        /\ UNCHANGED <<cpos, cbuf, ci>>
     \/ /\ cpc' = "exit1"
        /\ UNCHANGED <<cpos, cbuf, ci>>
     \/ \E n \in ReadSizes(src, cpos) :
          /\ cbuf' = SubSeq(src, cpos + 1, cpos + n)
          /\ cpos' = cpos + n
          /\ ci' = 1
          /\ UNCHANGED cpc
  /\ UNCHANGED <<src, have_prev, prev, cnt, rle>>

(* Mutant: the cap test lets a run reach ByteMod, whose count byte wraps. *)
CByteCapOffByOne ==
  LET b == cbuf[ci] IN
  /\ cpc = "run" /\ ci <= Len(cbuf)
  /\ ci' = ci + 1
  /\ \/ /\ ~have_prev
        /\ have_prev' = TRUE /\ prev' = b /\ cnt' = 1
        /\ UNCHANGED <<rle, cpc>>
     \/ /\ have_prev /\ b = prev /\ cnt <= ByteMod - 1
        /\ cnt' = cnt + 1
        /\ UNCHANGED <<have_prev, prev, rle, cpc>>
     \/ /\ have_prev /\ ~(b = prev /\ cnt <= ByteMod - 1)
        /\ rle' = rle \o Pair /\ prev' = b /\ cnt' = 1
        /\ UNCHANGED <<have_prev, cpc>>
  /\ UNCHANGED <<src, cpos, cbuf>>

(* Mutant: a new run after a written pair keeps the old count. *)
CByteNoRestart ==
  LET b == cbuf[ci] IN
  /\ cpc = "run" /\ ci <= Len(cbuf)
  /\ ci' = ci + 1
  /\ \/ /\ ~have_prev
        /\ have_prev' = TRUE /\ prev' = b /\ cnt' = 1
        /\ UNCHANGED <<rle, cpc>>
     \/ /\ have_prev /\ b = prev /\ cnt < ByteMod - 1
        /\ cnt' = cnt + 1
        /\ UNCHANGED <<have_prev, prev, rle, cpc>>
     \/ /\ have_prev /\ ~(b = prev /\ cnt < ByteMod - 1)
        /\ rle' = rle \o Pair /\ prev' = b
        /\ UNCHANGED <<have_prev, cnt, cpc>>
  /\ UNCHANGED <<src, cpos, cbuf>>

\* One byte of the chunk: start a run, extend it below the cap, or write
\* the finished pair (exit 1 if the write fails) and start a new run.
CByte ==
  LET b == cbuf[ci] IN
  /\ cpc = "run" /\ ci <= Len(cbuf)
  /\ ci' = ci + 1
  /\ \/ /\ ~have_prev
        /\ have_prev' = TRUE /\ prev' = b /\ cnt' = 1
        /\ UNCHANGED <<rle, cpc>>
     \/ /\ have_prev /\ b = prev /\ cnt < ByteMod - 1
        /\ cnt' = cnt + 1
        /\ UNCHANGED <<have_prev, prev, rle, cpc>>
     \/ /\ have_prev /\ ~(b = prev /\ cnt < ByteMod - 1)
        /\ \/ /\ rle' = rle \o Pair
              /\ prev' = b /\ cnt' = 1
              /\ UNCHANGED cpc
           \/ /\ cpc' = "exit1"
              /\ UNCHANGED <<rle, prev, cnt>>
        /\ UNCHANGED have_prev
  /\ UNCHANGED <<src, cpos, cbuf>>

(* Mutant: the pair of the last run is never written. *)
CFlushNoLastPair ==
  /\ cpc = "flush"
  /\ cpc' = "exit0"
  /\ UNCHANGED <<src, cpos, cbuf, ci, have_prev, prev, cnt, rle>>

\* After the loop: write the last pair, if any, then exit 0 (1 if the
\* write fails).
CFlush ==
  /\ cpc = "flush"
  /\ \/ /\ have_prev
        /\ \/ rle' = rle \o Pair /\ cpc' = "exit0"
           \/ cpc' = "exit1" /\ UNCHANGED rle
     \/ /\ ~have_prev
        /\ cpc' = "exit0"
        /\ UNCHANGED rle
  /\ UNCHANGED <<src, cpos, cbuf, ci, have_prev, prev, cnt>>

(***************************************************************************)
(* rle_decompress_fd, started by compress_test once compress exited 0.    *)
(***************************************************************************)
DStart ==
  /\ dpc = "wait" /\ cpc = "exit0"
  /\ dpc' = "run"
  /\ UNCHANGED <<dpos, dbuf, di, carry, dphase, out>>

\* Emit cnt copies of val, or fail on a short write.
Emit(cnt_, val) ==
  \/ out' = out \o Run(cnt_, val) /\ UNCHANGED dpc
  \/ dpc' = "exit1" /\ UNCHANGED out

(* Mutant: at end of file a pending count byte is ignored. *)
DReadIgnoresCarry ==
  /\ dpc = "run" /\ dphase = "read"
  /\ \/ dpos = Len(RleFile) /\ dpc' = "exit0" /\ UNCHANGED <<dpos, dbuf, di, dphase>>
     \/ \E n \in ReadSizes(RleFile, dpos) :
          /\ dbuf' = SubSeq(RleFile, dpos + 1, dpos + n)
          /\ dpos' = dpos + n /\ di' = 1
          /\ dphase' = IF carry # NoCarry THEN "carry" ELSE "pairs"
          /\ UNCHANGED dpc
  /\ UNCHANGED <<carry, out>>

(* Mutant: the loop does not break when read returns 0. *)
DReadNoBreak ==
  /\ dpc = "run" /\ dphase = "read"
  /\ \E n \in ReadSizes(RleFile, dpos) :
       /\ dbuf' = SubSeq(RleFile, dpos + 1, dpos + n)
       /\ dpos' = dpos + n /\ di' = 1
       /\ dphase' = IF carry # NoCarry THEN "carry" ELSE "pairs"
  /\ UNCHANGED <<carry, out, dpc>>

\* The read at the top of the loop.  At end of file a pending carry means
\* an odd byte count: corrupt input.
DRead ==
  /\ dpc = "run" /\ dphase = "read"
  /\ \/ /\ dpos = Len(RleFile)
        /\ dpc' = IF carry # NoCarry THEN "exit1" ELSE "exit0"
        /\ UNCHANGED <<dpos, dbuf, di, dphase>>
     \/ /\ dpc' = "exit1"
        /\ UNCHANGED <<dpos, dbuf, di, dphase>>
     \/ \E n \in ReadSizes(RleFile, dpos) :
          /\ dbuf' = SubSeq(RleFile, dpos + 1, dpos + n)
          /\ dpos' = dpos + n
          /\ di' = 1
          /\ dphase' = IF carry # NoCarry THEN "carry" ELSE "pairs"
          /\ UNCHANGED dpc
  /\ UNCHANGED <<carry, out>>

\* A count carried from the previous read pairs with the first byte.
DCarry ==
  /\ dpc = "run" /\ dphase = "carry"
  /\ IF carry <= 0
     THEN dpc' = "exit1" /\ UNCHANGED out
     ELSE Emit(carry, dbuf[1])
  /\ di' = 2 /\ carry' = NoCarry /\ dphase' = "pairs"
  /\ UNCHANGED <<dpos, dbuf>>

\* One full pair of the chunk.
DPair ==
  /\ dpc = "run" /\ dphase = "pairs" /\ di + 1 <= Len(dbuf)
  /\ IF dbuf[di] <= 0
     THEN dpc' = "exit1" /\ UNCHANGED out
     ELSE Emit(dbuf[di], dbuf[di + 1])
  /\ di' = di + 2
  /\ UNCHANGED <<dpos, dbuf, carry, dphase>>

(* Mutant: a dangling count byte is dropped instead of carried. *)
DTailDropsCarry ==
  /\ dpc = "run" /\ dphase = "pairs" /\ di + 1 > Len(dbuf)
  /\ dphase' = "read"
  /\ UNCHANGED <<dpos, dbuf, di, carry, out, dpc>>

\* After the pairs: a dangling count byte is carried to the next read.
DTail ==
  /\ dpc = "run" /\ dphase = "pairs" /\ di + 1 > Len(dbuf)
  /\ carry' = IF di <= Len(dbuf) THEN dbuf[Len(dbuf)] ELSE carry
  /\ dphase' = "read"
  /\ UNCHANGED <<dpos, dbuf, di, out, dpc>>

-----------------------------------------------------------------------------
InitFiles ==
  /\ stale_rle \in OldRle
  /\ stale_out \in OldOut
  /\ dpos = 0 /\ dbuf = << >> /\ di = 1 /\ carry = NoCarry
  /\ dphase = "read" /\ out = << >> /\ dpc = "wait"

\* compress_test: compress one of the inputs, then decompress the result.
RoundTripInit ==
  /\ src \in Inputs
  /\ cpos = 0 /\ cbuf = << >> /\ ci = 1
  /\ have_prev = FALSE /\ prev = 0 /\ cnt = 0
  /\ rle = << >> /\ cpc = "run"
  /\ InitFiles
  /\ job = "roundtrip"

\* compress -d run on a file it is given: the file stands where compress's
\* output would be, and the compress half is over.
DecodeInit ==
  /\ src = << >> /\ cpos = 0 /\ cbuf = << >> /\ ci = 1
  /\ have_prev = FALSE /\ prev = 0 /\ cnt = 0
  /\ rle \in RleInputs /\ cpc = "exit0"
  /\ InitFiles
  /\ job = "decode"

Init == RoundTripInit \/ DecodeInit

CompressStep == CRead \/ CByte \/ CFlush
DecompressStep == DStart \/ DRead \/ DCarry \/ DPair \/ DTail

Next ==
  \/ CompressStep /\ UNCHANGED <<stale_rle, stale_out, dvars, job>>
  \/ DecompressStep /\ UNCHANGED <<cvars, stale_rle, stale_out, job>>

\* One sequential program at a time, which the scheduler keeps running.
Spec == Init /\ [][Next]_vars /\ WF_vars(Next)

-----------------------------------------------------------------------------
(***************************************************************************)
(* Reference definitions of the format, written from its description at  *)
(* the top of compress.c, not from the code's loops.                      *)
(***************************************************************************)
\* The longest run at the front of s, at most ByteMod - 1 bytes.
RunLength(s) ==
  LET cap == IF Len(s) < ByteMod - 1 THEN Len(s) ELSE ByteMod - 1 IN
  CHOOSE k \in 1..cap :
    /\ \A j \in 1..k : s[j] = s[1]
    /\ k = cap \/ s[k + 1] # s[1]

RECURSIVE RefEncode(_)
RefEncode(s) ==
  IF s = << >> THEN << >>
  ELSE <<RunLength(s), s[1]>> \o RefEncode(SubSeq(s, RunLength(s) + 1, Len(s)))

RECURSIVE RefDecode(_)
RefDecode(e) ==
  IF Len(e) < 2 THEN << >>
  ELSE Run(e[1], e[2]) \o RefDecode(SubSeq(e, 3, Len(e)))

\* A stream the format admits: whole pairs, no zero count.
WellFormed(e) ==
  /\ Len(e) % 2 = 0
  /\ \A k \in 1..(Len(e) \div 2) : e[2 * k - 1] > 0

-----------------------------------------------------------------------------
(***************************************************************************)
(* Properties.                                                             *)
(***************************************************************************)
TypeOK ==
  /\ cpos \in 0..Len(src) /\ ci \in 1..(Len(cbuf) + 1)
  /\ cnt \in 0..(ByteMod - 1) /\ prev \in Bytes
  /\ rle \in Seq(Bytes) /\ out \in Seq(Bytes)
  /\ cpc \in {"run", "flush", "exit0", "exit1"}
  /\ dpos \in 0..Len(RleFile) /\ carry \in Bytes \cup {NoCarry}
  /\ dphase \in {"read", "carry", "pairs"}
  /\ dpc \in {"wait", "run", "exit0", "exit1"}

\* While compress runs, the pairs written so far followed by the run being
\* counted spell exactly the input bytes scanned so far, across every read
\* boundary and every run split at the cap.
CompressLossless ==
  cpc \in {"run", "flush"} =>
    /\ WellFormed(rle)
    /\ RefDecode(rle) \o (IF have_prev THEN Run(cnt, prev) ELSE << >>)
         = SubSeq(src, 1, cpos - (Len(cbuf) - ci + 1))

\* When compress exits 0 the .rle file holds the format's canonical
\* encoding of the input (maximal runs, split at ByteMod - 1).
CompressMatchesReference ==
  job = "roundtrip" /\ cpc = "exit0" => rle = RefEncode(src)

\* compress_test's check: when both steps exit 0, the output file equals
\* the input file, however the reads split the streams.
RoundTrip ==
  job = "roundtrip" /\ dpc = "exit0" => OutFile = src

\* Decompressing any byte stream: an exit 0 happens only for a well-formed
\* stream (whole pairs, no zero count), and then the output is its decoding;
\* an odd trailing count byte is caught even when it arrives in a read of
\* its own.
DecompressAcceptsOnlyWellFormed ==
  dpc = "exit0" => WellFormed(RleFile) /\ OutFile = RefDecode(RleFile)

\* Both programs finish: every loop consumes input or ends.
Terminates == <>(cpc = "exit1" \/ dpc \in {"exit0", "exit1"})

=============================================================================
