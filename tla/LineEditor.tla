----------------------------- MODULE LineEditor -----------------------------
(***************************************************************************)
(* What the user of the terminal can expect of the input line: a sequence  *)
(* of characters without buffer, NULs or tokens.  An escape sequence is    *)
(* left out, BACKSPACE takes back, and ENTER gives the order that the      *)
(* words of the line spell.                                                *)
(***************************************************************************)
EXTENDS Integers, Sequences, FiniteSets, SequencesExt

CONSTANTS Key, MAX_STR_SZ, MAX_PID, INT

VARIABLES
  skip,    \* how many more characters belong to an escape sequence
  key,     \* the character that input_server has not looked at yet
  text,    \* the line
  order    \* what the line asked for, after ENTER

NoKey == "none"
Blank == {" ", "TAB"}
Nothing == <<>>

\* A word: characters between blanks or the ends of the line.
IsWord(t, i, j) ==
  /\ 1 <= i /\ i <= j /\ j <= Len(t)
  /\ \A k \in i..j : t[k] \notin Blank
  /\ i = 1 \/ t[i - 1] \in Blank
  /\ j = Len(t) \/ t[j + 1] \in Blank

Starts(t) == {i \in 1..Len(t) : \E j \in i..Len(t) : IsWord(t, i, j)}

\* The n-th word.
Word(t, n) ==
  IF Cardinality(Starts(t)) < n THEN Nothing
  ELSE LET i == CHOOSE k \in Starts(t) : Cardinality({h \in Starts(t) : h < k}) = n - 1
           j == CHOOSE k \in i..Len(t) : IsWord(t, i, k)
       IN  SubSeq(t, i, j)

IsNumber(w) == w # Nothing /\ \A i \in 1..Len(w) : w[i] \in {"0", "1"}

\* The number that the digits of a word denote.
Value(w) ==
  LET v[i \in 0..Len(w)] ==
        IF i = 0 THEN 0 ELSE 10 * v[i - 1] + (IF w[i] = "1" THEN 1 ELSE 0)
  IN  v[Len(w)]

NoOrder == [pid |-> 0, msg |-> Nothing]
Rejected(why) == [pid |-> why, msg |-> Nothing]

\* PROC, a number and a message: the order is exactly what the words say.  What
\* the code does not promise: a line without number, with a number that does not
\* fit an int, or one that fills the buffer.
Means(o, t) ==
  LET number == Word(t, 2)
  IN  \/ /\ Len(t) = MAX_STR_SZ
         /\ o.pid \in 1..MAX_PID \/ \E why \in (-3)..(-1) : o = Rejected(why)
      \/ /\ Len(t) < MAX_STR_SZ
         /\ CASE Word(t, 1) = Nothing -> o = Rejected(-1)
              [] Word(t, 1) \notin {Nothing, <<"p">>} -> o = Rejected(-2)
              [] Word(t, 1) = <<"p">> /\ IsNumber(number) /\ Value(number) < INT ->
                   IF Value(number) \in 1..MAX_PID
                   THEN o = [pid |-> Value(number), msg |-> Word(t, 3)]
                   ELSE o = Rejected(-3)
              [] Word(t, 1) = <<"p">> /\ IsNumber(number) /\ Value(number) >= INT ->
                   o = Rejected(-3) \/ (o.pid \in 1..MAX_PID /\ o.msg = Word(t, 3))
              [] Word(t, 1) = <<"p">> /\ number = Nothing ->
                   o.pid \in {-3} \cup 1..MAX_PID /\ o.msg = Nothing
              [] OTHER -> o = Rejected(-3)

-----------------------------------------------------------------------------
Init == skip = 0 /\ key = NoKey /\ text = <<>> /\ order = NoOrder

\* ESC and the two characters after it.
Escape(c) ==
  /\ c = "ESC" \/ skip > 0
  /\ skip' = IF c = "ESC" THEN 2 ELSE skip - 1
  /\ UNCHANGED <<key, text, order>>

Press(c) ==
  /\ c # "ESC" /\ skip = 0 /\ key = NoKey
  /\ key' = c
  /\ UNCHANGED <<skip, text, order>>

Edit ==
  /\ key \notin {NoKey, "ENTER"}
  /\ key' = NoKey
  /\ text' = CASE key = "BACKSPACE" -> IF text = <<>> THEN text ELSE Front(text)
               [] key # "BACKSPACE" /\ Len(text) < MAX_STR_SZ -> Append(text, key)
               [] OTHER -> text
  /\ order' = NoOrder
  /\ UNCHANGED skip

Enter ==
  /\ key = "ENTER"
  /\ key' = NoKey
  /\ text' = <<>>
  /\ Means(order', text)
  /\ UNCHANGED skip

Next == (\E c \in Key : Escape(c) \/ Press(c)) \/ Edit \/ Enter

Spec == Init /\ [][Next]_<<skip, key, text, order>>
=============================================================================
