------------------------------- MODULE Shell -------------------------------
(***************************************************************************)
(* The interactive loop of src/user/shell.c: read a line with gets, strip *)
(* the newline and any comment, skip blank lines, expand !!, !N and       *)
(* !prefix from the history ring, record the line in the ring, tokenize   *)
(* it, and run the builtins exit, history and cd or fork/exec/wait an     *)
(* external command.  One step is one iteration of the loop.              *)
(*                                                                         *)
(* A line is a sequence of one-character strings.  What a command does,   *)
(* the clock and the prompt are left out; an external command's exit     *)
(* status, a chdir and a fork succeed or fail nondeterministically.       *)
(***************************************************************************)
EXTENDS Integers, Sequences, SequencesExt, FiniteSets

CONSTANTS
  MAX_HIST,   \* slots of the history ring (100)
  Lines,      \* the lines the user may type, each ending in "\n"
  MaxCmd,     \* bound on command numbers explored
  TokLen      \* length of the strings the tokenizer is checked on

ASSUME \A l \in Lines : 0 < Len(l) /\ Len(l) < 256

VARIABLES
  cmd_num,      \* number of the next command
  last_status,  \* 0 = success, 1 = fail, shown in the prompt
  hist,         \* slot -> [num, line]: struct history_entry hist[MAX_HIST]
  scripting,    \* main was given a script file (argv[1])
  eof,          \* standard input, or the script, is at its end
  exited,       \* the shell has called exit
  log,          \* history variable: command number -> the line recorded
  expansion     \* history variable: <<digits typed after !, number expanded>>

vars == <<cmd_num, last_status, hist, scripting, eof, exited, log, expansion>>

None == << >>   \* hist_num and hist_prefix return 0
Digits == {"0", "1", "2", "3", "4", "5", "6", "7", "8", "9"}
Delims == {" ", "\n", "\t", "\r"}
EXIT == <<"e", "x", "i", "t">>
HISTORY == <<"h", "i", "s", "t", "o", "r", "y">>
CD == <<"c", "d">>

(***************************************************************************)
(* Line helpers.                                                           *)
(***************************************************************************)
RECURSIVE strip_trailing_newline(_)
strip_trailing_newline(s) ==
  IF s # << >> /\ Last(s) \in {"\n", "\r"}
  THEN strip_trailing_newline(Front(s)) ELSE s

\* remove_comment: cut the line at its first '#'.
remove_comment(s) ==
  IF \E i \in 1..Len(s) : s[i] = "#"
  THEN SubSeq(s, 1, (CHOOSE i \in 1..Len(s) :
                       s[i] = "#" /\ \A j \in 1..(i - 1) : s[j] # "#") - 1)
  ELSE s

is_blank(s) == \A i \in 1..Len(s) : s[i] \in {" ", "\t", "\n", "\r"}

\* strspn: the length of the prefix made of characters in chars.
strspn(str, chars) ==
  LET out == SelectInSeq(str, LAMBDA c : c \notin chars)
  IN IF out = 0 THEN Len(str) ELSE out - 1

\* strcspn: the length of the prefix with no character in chars.  The
\* terminator is in every chars string, so the scan stops at the end.
strcspn(str, chars) ==
  LET in == SelectInSeq(str, LAMBDA c : c \in chars)
  IN IF in = 0 THEN Len(str) ELSE in - 1

\* A char * into the line: the characters from it to the NUL, or 0.
Ptr(str) == [null |-> FALSE, s |-> str]
NullPtr == [null |-> TRUE, s |-> << >>]

\* Mutant: the zero-length check is dropped.
next_token_no_zero_check(str_ptr, delim) ==
  IF str_ptr.null THEN <<NullPtr, NullPtr>>
  ELSE
    LET tok_start == strspn(str_ptr.s, delim)
        after == SubSeq(str_ptr.s, tok_start + 1, Len(str_ptr.s))
        tok_end == strcspn(after, delim)
    IN <<Ptr(SubSeq(after, 1, tok_end)),
         IF tok_end = Len(after) THEN NullPtr
         ELSE Ptr(SubSeq(after, tok_end + 2, Len(after)))>>

\* next_token(&str_ptr, delim): <<returned, new *str_ptr>>.  The delimiter
\* after the token is overwritten with NUL and skipped; at the end of the
\* string the pointer becomes 0.
next_token(str_ptr, delim) ==
  IF str_ptr.null THEN <<NullPtr, NullPtr>>
  ELSE
    LET tok_start == strspn(str_ptr.s, delim)
        after == SubSeq(str_ptr.s, tok_start + 1, Len(str_ptr.s))
        tok_end == strcspn(after, delim)
    IN IF tok_end = 0 THEN <<NullPtr, NullPtr>>
       ELSE <<Ptr(SubSeq(after, 1, tok_end)),
              IF tok_end = Len(after) THEN NullPtr
              ELSE Ptr(SubSeq(after, tok_end + 2, Len(after)))>>

(* Mutant: the cap is tested as tokens <= 31, so a 32nd token is stored
   and args[tokens] = 0 lands past args[31]. *)
RECURSIVE Tokenize_cap_32(_, _)
Tokenize_cap_32(next_tok, args) ==
  LET t == next_token(next_tok, Delims) IN
  IF t[1].null \/ Len(args) > 31 THEN args
  ELSE Tokenize_cap_32(t[2], Append(args, t[1].s))

\* while ((curr_tok = next_token(&next_tok, " \n\t\r")) != 0 && tokens < 31)
\*   args[tokens++] = curr_tok;
RECURSIVE Tokenize(_, _)
Tokenize(next_tok, args) ==
  LET t == next_token(next_tok, Delims) IN
  IF t[1].null \/ Len(args) >= 31 THEN args
  ELSE Tokenize(t[2], Append(args, t[1].s))

(***************************************************************************)
(* The history ring.                                                       *)
(***************************************************************************)
Slot(n) == (n - 1) % MAX_HIST

\* A copy into a char[256]: at most 255 characters and the terminator.
Truncate(s, n) == SubSeq(s, 1, Min({n, Len(s)}))

\* Mutant: the slot computed without the - 1.
add_history_slot_off(h, line, n) ==
  IF line = << >> THEN h
  ELSE [h EXCEPT ![n % MAX_HIST] = [num |-> n, line |-> Truncate(line, 255)]]

add_history(h, line, n) ==
  IF line = << >> THEN h
  ELSE [h EXCEPT ![Slot(n)] = [num |-> n, line |-> Truncate(line, 255)]]

Holds(h, n) == h[Slot(n)].num = n /\ h[Slot(n)].line # << >>

hist_num(h, num) ==
  IF num < 1 THEN None
  ELSE IF Holds(h, num) THEN h[Slot(num)].line ELSE None

\* Mutant: the scan runs from oldest to newest.
hist_prefix_oldest(h, prefix, last_done) ==
  LET M == {n \in 1..last_done : Holds(h, n) /\ IsPrefix(prefix, h[Slot(n)].line)}
  IN IF M = {} THEN None ELSE h[Slot(Min(M))].line

\* history_command: the <<num, line>> pairs it prints, for the numbers from
\* max(1, last_done - MAX_HIST + 1) to last_done still in their slots.
history_command(h, current_cmd_num) ==
  LET last_done == current_cmd_num - 1
      first == IF last_done - MAX_HIST + 1 < 1 THEN 1 ELSE last_done - MAX_HIST + 1
  IN {<<n, h[Slot(n)].line>> : n \in {m \in first..last_done : Holds(h, m)}}

\* Newest to oldest from last_done: the first entry still in its slot
\* that starts with the prefix.
hist_prefix(h, prefix, last_done) ==
  LET M == {n \in 1..last_done : Holds(h, n) /\ IsPrefix(prefix, h[Slot(n)].line)}
  IN IF M = {} THEN None ELSE h[Slot(Max(M))].line

\* n = n * 10 + (buf[i] - '0') over the digits after '!', in a 32-bit int
\* that wraps (signed overflow; the build wraps).  The value is kept as
\* two 16-bit halves so that TLC's integers never overflow.
DigitVal(c) == CHOOSE d \in 0..9 : <<"0","1","2","3","4","5","6","7","8","9">>[d + 1] = c

RECURSIVE ParseHalves(_, _, _)
ParseHalves(s, hi, lo) ==
  IF s = << >> \/ s[1] \notin Digits THEN <<hi, lo>>
  ELSE LET l == lo * 10 + DigitVal(s[1])
       IN ParseHalves(Tail(s), (hi * 10 + l \div 65536) % 65536, l % 65536)

ParseNum(s) ==
  LET h == ParseHalves(s, 0, 0) IN
  IF h[1] >= 32768 THEN (h[1] - 65536) * 65536 + h[2] ELSE h[1] * 65536 + h[2]

\* The digits typed, without leading zeros.
LeadingDigits(s) ==
  LET RECURSIVE Take(_)
      Take(t) == IF t = << >> \/ t[1] \notin Digits THEN << >>
                 ELSE <<t[1]>> \o Take(Tail(t))
      RECURSIVE Trim(_)
      Trim(t) == IF Len(t) > 1 /\ t[1] = "0" THEN Trim(Tail(t)) ELSE t
  IN Trim(Take(s))

RECURSIVE Decimal(_)
Decimal(n) ==
  IF n < 10 THEN <<<<"0","1","2","3","4","5","6","7","8","9">>[n + 1]>>
  ELSE Decimal(n \div 10) \o Decimal(n % 10)

\* The line a '!' command expands to, or None: "!!" is the last command,
\* "!" and digits is that command number, anything else is a prefix.
Expand(buf, h, last_done) ==
  IF Len(buf) = 2 /\ buf[2] = "!" THEN hist_num(h, last_done)
  ELSE IF Len(buf) >= 2 /\ buf[2] \in Digits
       THEN hist_num(h, ParseNum(Tail(buf)))
       ELSE hist_prefix(h, Tail(buf), last_done)

(***************************************************************************)
(* One iteration of main's loop on a line gets returned.                   *)
(***************************************************************************)
Init ==
  /\ cmd_num = 1
  /\ last_status = 0
  /\ hist = [s \in 0..(MAX_HIST - 1) |-> [num |-> 0, line |-> << >>]]
  /\ scripting \in BOOLEAN
  /\ eof = FALSE
  /\ exited = FALSE
  /\ log = << >>
  /\ expansion = << >>

\* Mutant: cd continues without cmd_num++.
DispatchCdKeepsNumber(args) ==
  \/ args[1] = EXIT /\ exited' = TRUE /\ UNCHANGED <<cmd_num, last_status>>
  \/ args[1] = HISTORY /\ last_status' = 0 /\ cmd_num' = cmd_num + 1
     /\ UNCHANGED exited
  \/ args[1] = CD /\ last_status' \in {0, 1}
     /\ UNCHANGED <<cmd_num, exited>>
  \/ args[1] \notin {EXIT, HISTORY, CD} /\ cmd_num' = cmd_num + 1 /\ UNCHANGED exited
     /\ (last_status' = 1 \/ UNCHANGED last_status)

\* Mutant: a failed fork stores the pid, last_status = pid.
DispatchStatusIsPid(args) ==
  \/ args[1] = EXIT /\ exited' = TRUE /\ UNCHANGED <<cmd_num, last_status>>
  \/ args[1] = HISTORY /\ last_status' = 0 /\ cmd_num' = cmd_num + 1
     /\ UNCHANGED exited
  \/ args[1] = CD /\ last_status' \in {0, 1}
     /\ cmd_num' = cmd_num + 1 /\ UNCHANGED exited
  \/ args[1] \notin {EXIT, HISTORY, CD} /\ cmd_num' = cmd_num + 1 /\ UNCHANGED exited
     /\ (last_status' = -1 \/ UNCHANGED last_status)

\* The builtins and the fork/exec/wait of an external command, after the
\* line is recorded.  Every path but exit ends with cmd_num++.  The
\* "tokens == 0" continue is unreachable: a line that is not blank has a
\* token, and a line from the ring was not blank when it was recorded.
Dispatch(args) ==
  \/ /\ args[1] = EXIT
     /\ exited' = TRUE
     /\ UNCHANGED <<cmd_num, last_status>>
  \/ /\ args[1] = HISTORY
     /\ last_status' = 0
     /\ cmd_num' = cmd_num + 1
     /\ UNCHANGED exited
  \/ /\ args[1] = CD
     /\ \/ Len(args) < 2 /\ last_status' = 1            \* missing arg
        \/ Len(args) >= 2 /\ last_status' \in {0, 1}    \* chdir(args[1])
     /\ cmd_num' = cmd_num + 1
     /\ UNCHANGED exited
  \/ /\ args[1] \notin {EXIT, HISTORY, CD}
     /\ \/ last_status' = 1                             \* fork failed
        \/ UNCHANGED last_status    \* wait(0): the child's status is dropped
     /\ cmd_num' = cmd_num + 1
     /\ UNCHANGED exited

\* add_history(buf, cmd_num), tokenize, dispatch.
Execute(buf) ==
  /\ hist' = add_history(hist, buf, cmd_num)
  /\ log' = (cmd_num :> buf) @@ log
  /\ Dispatch(Tokenize(Ptr(buf), << >>))

Bang(b) == b # << >> /\ b[1] = "!"

\* The digits of "!N" and the number hist_num was asked for.
Expansion(b) ==
  IF Bang(b) /\ Len(b) >= 2 /\ b[2] \in Digits
  THEN <<LeadingDigits(Tail(b)), ParseNum(Tail(b))>> ELSE << >>

\* gets returns a typed line, or the script loop reads one a byte at a
\* time up to its newline.  A blank line (after the
\* newline and comment are removed) is skipped without a step.
ReadLine(line) ==
  LET b == remove_comment(strip_trailing_newline(line))
      x == IF Bang(b) THEN Expand(b, hist, cmd_num - 1) ELSE b
  IN
  /\ ~eof /\ ~exited
  /\ cmd_num < MaxCmd
  /\ ~is_blank(b)
  /\ \/ /\ x = None                                     \* no match
        /\ last_status' = 1
        /\ cmd_num' = cmd_num + 1
        /\ expansion' = << >>
        /\ UNCHANGED <<hist, exited, log>>
     \/ /\ x # None
        /\ Execute(Truncate(x, 255))
        /\ expansion' = Expansion(b)
  /\ UNCHANGED <<scripting, eof>>

\* The user closes standard input, or the script file ends.
CloseStdin ==
  /\ ~eof /\ ~exited
  /\ eof' = TRUE
  /\ UNCHANGED <<cmd_num, last_status, hist, scripting, exited, log, expansion>>

\* At end of input gets still returns buf, now "", so the test
\* gets(buf, sizeof(buf)) == 0 is false and the empty line is skipped as
\* blank: the iteration changes nothing.
GetsAtEof ==
  /\ ~scripting /\ eof /\ ~exited
  /\ UNCHANGED vars

\* In a script, read returns r < 1 before a byte is stored: i == 0, and
\* main calls exit(0).
ScriptEof ==
  /\ scripting /\ eof /\ ~exited
  /\ exited' = TRUE
  /\ UNCHANGED <<cmd_num, last_status, hist, scripting, eof, log, expansion>>

Next ==
  \/ \E line \in Lines : ReadLine(line)
  \/ CloseStdin
  \/ GetsAtEof
  \/ ScriptEof

\* The shell is one process, so its loop keeps running.  The user is not
\* obliged to type anything.
Spec == Init /\ [][Next]_vars /\ WF_vars(GetsAtEof) /\ WF_vars(ScriptEof)

-----------------------------------------------------------------------------

TypeOK ==
  /\ cmd_num \in 1..MaxCmd
  /\ last_status \in {0, 1}
  /\ \A i \in DOMAIN hist : hist[i].num \in 0..MaxCmd
  /\ scripting \in BOOLEAN /\ eof \in BOOLEAN /\ exited \in BOOLEAN
  /\ DOMAIN log \subseteq 1..MaxCmd

\* The ring never answers with a wrong command: hist_num(n) returns the
\* line recorded as command n or nothing, and returns it for every one of
\* the last MAX_HIST numbers that recorded a line (add_history's slot
\* (cmd_num - 1) % MAX_HIST against hist_num's check of hist[slot].num).
\* "history" lists exactly the recorded commands of the last MAX_HIST
\* numbers.  "exit" records its line under cmd_num without advancing it, so the
\* later parts are about a shell that is still reading.
HistoryRingMatchesLog ==
  /\ \A n \in 1..MaxCmd :
       /\ hist_num(hist, n) \in {None} \cup (IF n \in DOMAIN log THEN {log[n]} ELSE {})
       /\ ~exited /\ n \in DOMAIN log /\ n > cmd_num - 1 - MAX_HIST => hist_num(hist, n) = log[n]
  /\ ~exited =>
       history_command(hist, cmd_num)
         = {<<m, log[m]>> : m \in {k \in DOMAIN log : k > cmd_num - 1 - MAX_HIST}}

\* "!prefix" expands to the newest of the last MAX_HIST recorded commands
\* that start with the prefix, whenever one does (hist_prefix's scan from
\* last_done down).  After exit nothing is looked up.
PrefixFindsNewest ==
  ~exited =>
  \A m \in DOMAIN log : \A k \in 0..Len(log[m]) :
    LET p == SubSeq(log[m], 1, k)
        W == {n \in DOMAIN log : n > cmd_num - 1 - MAX_HIST /\ IsPrefix(p, log[n])}
    IN W # {} => hist_prefix(hist, p, cmd_num - 1) = log[Max(W)]

\* A command number, once a line is recorded under it, is never given to
\* another line: every path of the loop that records a line ends with
\* cmd_num++ (or exit).
NumbersNeverReused ==
  [][\A n \in DOMAIN log : n \in DOMAIN log' /\ log'[n] = log[n]]_vars

\* Reference: the words of a line are its maximal runs of characters that
\* are not delimiters, in order.
RECURSIVE RefWords(_)
RefWords(s) ==
  IF \A i \in 1..Len(s) : s[i] \in Delims THEN << >>
  ELSE LET start == SelectInSeq(s, LAMBDA c : c \notin Delims)
           rest == SubSeq(s, start, Len(s))
           len == strcspn(rest, Delims)
       IN <<SubSeq(rest, 1, len)>> \o RefWords(SubSeq(rest, len + 1, Len(rest)))

\* A line of 33 one-letter words: more than args[32] can hold with its 0.
LongLine == [i \in 1..66 |-> IF i % 2 = 1 THEN "a" ELSE " "]

\* The tokenize loop of main splits every line in the history ring, every
\* string of up to TokLen characters over a word character and the
\* delimiters, and a line of 33 words, into its words, stopping after the
\* 31st so that args[tokens] = 0 stays inside args[32]: the words past
\* the 31st are dropped.
TokenizeMatchesReference ==
  \A s \in {hist[i].line : i \in DOMAIN hist}
           \cup UNION {[1..n -> {"a", " ", "\t"}] : n \in 0..TokLen}
           \cup {LongLine} :
    Tokenize(Ptr(s), << >>) = Truncate(RefWords(s), 31)

\* The comment on the '!' expansion says "!5" is command number 5: the
\* command run is the one whose number was typed.
ExpandsTypedNumber ==
  expansion # << >> => expansion[1] = Decimal(expansion[2])

\* main exits when gets reports end of input (printf("\n"); exit(0)).
ExitsAtEndOfInput ==
  eof ~> exited

=============================================================================
