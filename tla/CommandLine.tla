---------------------------- MODULE CommandLine ----------------------------
(***************************************************************************)
(* The line of input that decode_cmd of main.c collects, and get_cmd of    *)
(* monitor.c that takes it apart: String_t with its NULs, strtok and       *)
(* my_atoi.  A character is a string of length one or the name of a key;   *)
(* upper and lower case are one character, as for strcasecmp, and the word *)
(* PROC is the character "p".                                              *)
(***************************************************************************)
EXTENDS Integers, Sequences, SequencesExt, FiniteSetsExt

CONSTANTS
  MAX_STR_SZ,   \* the places of String_t
  MAX_PID,
  INT           \* integers are -INT..(INT - 1)

ASSUME LineOK == MAX_STR_SZ \in Nat /\ MAX_PID \in Nat /\ INT \in Nat \ {0}

NUL == "NUL"
TAB == "TAB"
Blank == {" ", TAB}
PROC == <<"p">>
Digit == [c \in {"0", "1"} |-> IF c = "0" THEN 0 ELSE 1]

\* String_t: every place has a character, and length says how many were added.
String_t(chars) == [length : 0..MAX_STR_SZ, data : [1..MAX_STR_SZ -> chars \cup {NUL}]]

Empty == [length |-> 0, data |-> [i \in 1..MAX_STR_SZ |-> NUL]]

add_char(str, c) ==
  IF str.length = MAX_STR_SZ THEN str
  ELSE [length |-> str.length + 1, data |-> [str.data EXCEPT ![str.length + 1] = c]]

\* Mutant of remove_char: the character is left behind the end.
remove_char_kept(str) == [str EXCEPT !.length = IF @ = 0 THEN 0 ELSE @ - 1]

remove_char(str) ==
  IF str.length = 0 THEN str
  ELSE [length |-> str.length - 1, data |-> [str.data EXCEPT ![str.length] = NUL]]

\* The places that length counts are cleared.
reset_str(str) ==
  [length |-> 0,
   data   |-> [i \in 1..MAX_STR_SZ |-> IF i <= str.length THEN NUL ELSE str.data[i]]]

-----------------------------------------------------------------------------
\* The text strtok sees: up to the first NUL, and, when the line is full, on
\* into the memory behind it.
CString(str, behind) ==
  LET text == str.data \o behind
      ends == {i \in DOMAIN text : text[i] = NUL}
  IN  SubSeq(text, 1, IF ends = {} THEN Len(text) ELSE Min(ends) - 1)

\* strtok from position from: blanks are skipped, then the token goes to the
\* next blank or the end.  No token is the NULL pointer.
NULL == <<>>

strtok(text, from) ==
  LET starts == {i \in from..Len(text) : text[i] \notin Blank}
      start  == Min(starts)
      stop   == Min({i \in start..Len(text) : text[i] \in Blank} \cup {Len(text) + 1})
  IN  IF starts = {} THEN [token |-> NULL, next |-> Len(text) + 1]
      ELSE [token |-> SubSeq(text, start, stop - 1), next |-> stop + 1]

\* Two's complement.
Wrap(n) == ((n + INT) % (2 * INT)) - INT

\* The values num can have after my_atoi has returned true; {} when it returns
\* false.  Without an argument it returns true and leaves num uninitialised.
my_atoi(arg) ==
  LET t[i \in 0..Len(arg)] == IF i = 0 THEN 0 ELSE Wrap(10 * t[i - 1] + Digit[arg[i]])
  IN  CASE arg = NULL -> (-INT)..(INT - 1)
        [] arg # NULL /\ ToSet(arg) \subseteq DOMAIN Digit -> {t[Len(arg)]}
        [] OTHER -> {}

\* What get_cmd can return: the pid (-1 no command, -2 not PROC, -3 no number)
\* and the message.
get_cmd(text) ==
  LET cmd    == strtok(text, 1)
      number == strtok(text, cmd.next)
      msg    == strtok(text, number.next)
      ids    == my_atoi(number.token)
      valid  == ids \cap 1..MAX_PID
      fail   == IF ids = {} \/ ids # valid THEN {[pid |-> -3, msg |-> NULL]} ELSE {}
  IN  CASE cmd.token = NULL -> {[pid |-> -1, msg |-> NULL]}
        [] cmd.token # NULL /\ cmd.token # PROC -> {[pid |-> -2, msg |-> NULL]}
        [] OTHER -> {[pid |-> id, msg |-> msg.token] : id \in valid} \cup fail
=============================================================================
