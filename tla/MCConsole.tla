----------------------------- MODULE MCConsole -----------------------------
(***************************************************************************)
(* The console in three kinds of scene: somebody types anything; somebody  *)
(* types and processes print; and any number of windows is set up.         *)
(***************************************************************************)
EXTENDS Console

Typing   == [keys |-> {"p", "1", " ", "TAB", "BACKSPACE", "ENTER", "ESC"},
             windows |-> 0, prints |-> FALSE, events |-> 0]
Printing == [keys |-> {"p", "ENTER"}, windows |-> 3, prints |-> TRUE, events |-> 4]
Starting == [keys : {{}}, windows : 0..MAX_WINDOWS, prints : {FALSE}, events : {0}]

AllScenes == {Typing, Printing} \cup Starting

\* A NUL at once, more of a number, and another word.
Memory == {<<"NUL">>, <<"1", "NUL">>, <<" ", "p", "NUL">>}
=============================================================================
