------------------------------ MODULE Console ------------------------------
(***************************************************************************)
(* The terminal, as its users see it: the keys that UART0_IntHandler lets  *)
(* through and input_server collects into a line, and the screen that      *)
(* input_server, output_server and the kernel's own prints share (main.c,  *)
(* monitor.c, the receiving half of Uart.c).                               *)
(*                                                                         *)
(* input_server and output_server are preempted between any two of their   *)
(* accesses to cup, to a window and to the terminal.  The prints of k_nice *)
(* and k_terminate are inside a kernel call and atomic.  The four digits   *)
(* of cup and its numbers l and c are one position here, written at once,  *)
(* and a cursor sequence or a message is sent at once: that other writers  *)
(* can come between two characters is module UartTx's matter.              *)
(***************************************************************************)
EXTENDS CommandLine

CONSTANTS
  MAX_LINE, MAX_COL,
  MAX_WINDOWS,     \* also the number of pcbs
  Beyond,          \* what the memory behind the line may hold
  Scenes           \* BOUND: the keys, the windows and the printing

\* Two digits for a line and a column (monitor.h:45-47), and a row for every window:
\* the code has 24 lines, 80 columns and 32 windows (monitor.h:26, 27, 32).
ASSUME ScreenOK ==
  /\ MAX_LINE \in 2..99 /\ MAX_COL \in 4..99 /\ MAX_COL % 2 = 0
  /\ MAX_WINDOWS \in 0..2 * (MAX_LINE - 1)
  /\ \A s \in Scenes : s.windows \in 0..MAX_WINDOWS /\ s.prints \in BOOLEAN
                        /\ s.events \in Nat /\ NUL \notin s.keys
  /\ \A b \in Beyond : b \in Seq(Range(b))

VARIABLES
  scene,
  events,          \* how many keys and prints are still to come, where processes print
  calls,           \* how many reg_proc calls with a window are still to come
  ProcessNumber,
  booted,          \* main has set the windows up, and the processes run
  awake_windows,   \* the windows in use, from the head of the ring on
  esc_cmd, esc_cmd_count,   \* the statics of UART0_IntHandler
  key,             \* the character in input_server's message queue
  str,             \* the line
  order,           \* what get_cmd made of the line, after ENTER
  cup,             \* where everybody believes the cursor to be
  at,              \* where the last cursor sequence took the terminal's
  itodo, itmp,     \* what input_server has still to do, and the cup it has computed
  otodo, target, pre,   \* output_server's, its window and the cup it restores
  ended            \* the windows whose process has terminated

line == <<esc_cmd, esc_cmd_count, key, str, order>>
boot == <<scene, calls, ProcessNumber, booted>>
input == <<itodo, itmp>>
output == <<otodo, target, pre>>
vars == <<boot, events, awake_windows, line, cup, at, input, output, ended>>

NoOrder == [pid |-> 0, msg |-> NULL]

-----------------------------------------------------------------------------
(* Positions and windows.                                                  *)

Home == [l |-> MAX_LINE, c |-> 1]

\* Mutant of update_cup: no limit on the right.
update_cup_free(from, dline, dcol) ==
  IF from.l + dline > MAX_LINE THEN [from EXCEPT !.c = 1]
  ELSE [l |-> from.l + dline, c |-> Max({1, from.c + dcol})]

\* Where update_cup moves to (no caller moves up).  Beyond the last column it
\* stays; beyond the last line it goes to the first column.
update_cup(from, dline, dcol) ==
  IF dcol > 0 /\ from.c + dcol > MAX_COL THEN from
  ELSE IF from.l + dline > MAX_LINE THEN [from EXCEPT !.c = 1]
  ELSE [l |-> from.l + dline, c |-> Max({1, from.c + dcol})]

\* A window before seg_windows.
NewWindow == [xl |-> 0, xh |-> 0, yl |-> 0, yh |-> 0, row |-> 1, col |-> 1]

\* Where the next text goes, in send_to_window after a text of this length.
advance(w, new_line, len) ==
  CASE w.row + 1 <= w.xh /\ new_line  -> [w EXCEPT !.row = @ + 1, !.col = w.yl]
    [] w.row + 1 <= w.xh /\ ~new_line -> [w EXCEPT !.col = @ + len]
    [] w.row + 1 > w.xh /\ new_line   -> [w EXCEPT !.row = w.xl, !.col = w.yl]
    [] OTHER                          -> [w EXCEPT !.row = w.xl]

\* The rows of a window below its first, in rows of two windows.  Without a window
\* that divides by zero: the build divides with SDIV, which gives 0 then (nothing
\* sets DIV_0_TRP, which would make it a fault), and deltax is -1 and not used.
row_windows(n) == (n + 1) \div 2
sdiv(a, b) == IF b = 0 THEN 0 ELSE a \div b
deltax(n) == sdiv(MAX_LINE - 1, row_windows(n)) - 1

\* Mutant of segment: a row more for each window.
segment_more(i, n) ==
  LET deltay == (MAX_COL \div 2) - 1
      row    == 1 + ((i - 1) \div 2) * (deltax(n) + 1)
      col    == 1 + ((i - 1) % 2) * (deltay + 1)
  IN  [xl |-> row, xh |-> row + deltax(n) + 1, yl |-> col, yh |-> col + deltay,
       row |-> row, col |-> col]

\* The i-th of n windows.
segment(i, n) ==
  LET deltay == (MAX_COL \div 2) - 1
      row    == 1 + ((i - 1) \div 2) * (deltax(n) + 1)
      col    == 1 + ((i - 1) % 2) * (deltay + 1)
  IN  [xl |-> row, xh |-> row + deltax(n), yl |-> col, yh |-> col + deltay,
       row |-> row, col |-> col]

\* The digits of a number, with a place of arr left for the NUL.
myitoa(num, length) ==
  [i \in 1..(length - 1) |-> (num \div 10^(length - 1 - i)) % 10]

\* "PID: ", the pid (as long as the largest), and the first line is the title's.
titled(w) ==
  LET t == advance(advance(w, FALSE, 5), TRUE, Len(myitoa(MAX_PID, 3)))
  IN  [t EXCEPT !.xl = @ + 1]

\* Without a window the loop is over at once.
seg_windows(n, ring) ==
  [i \in DOMAIN ring |-> IF i <= n THEN titled(segment(i, n)) ELSE ring[i]]

Pos(w) == [l |-> w.row, c |-> w.col]

-----------------------------------------------------------------------------
Init ==
  /\ scene \in Scenes
  /\ calls = scene.windows /\ events = scene.events
  /\ ProcessNumber = 0 /\ booted = FALSE /\ awake_windows = <<>>
  /\ esc_cmd = FALSE /\ esc_cmd_count = 0 /\ key = "none"
  /\ str = Empty /\ order = NoOrder
  /\ cup = Home /\ at = Home
  /\ itodo = <<>> /\ itmp = Home
  /\ otodo = <<>> /\ target = 0 /\ pre = Home
  /\ ended = {}

\* The number that the two digits of cup show.
TwoDigits(n) == 10 * ((n % 100) \div 10) + (n % 10)

\* The terminal's cursor is taken to where cup is.
send_cup == at' = [l |-> TwoDigits(cup.l), c |-> TwoDigits(cup.c)]

\* A text goes where the terminal's cursor is.
send_str == UNCHANGED at

\* How many of the windows reg_windows has made nobody uses.
asleep_windows(ring) == MAX_WINDOWS - Len(ring)

\* A window for a process becomes the head of the ring, as long as there is one.
assign_window(ring) == IF asleep_windows(ring) > 0 THEN <<NewWindow>> \o ring ELSE ring

\* reg_proc with a window.  Without a pcb or a stack nothing happens, and main
\* goes on.
reg_proc ==
  /\ calls > 0
  /\ calls' = calls - 1
  /\ \/ /\ ProcessNumber' = ProcessNumber + 1
        /\ awake_windows' = assign_window(awake_windows)
     \/ UNCHANGED <<ProcessNumber, awake_windows>>
  /\ UNCHANGED <<scene, booted, events, line, cup, at, input, output, ended>>

\* main, after the registrations, however many have failed.
main ==
  /\ calls = 0 /\ ~booted /\ booted' = TRUE
  /\ awake_windows' = seg_windows(ProcessNumber, awake_windows)
  /\ send_cup
  /\ UNCHANGED <<scene, calls, ProcessNumber, events, line, cup, input, output, ended>>

\* BOUND: only so many keys and prints together.
Counted == IF scene.prints THEN events > 0 /\ events' = events - 1 ELSE UNCHANGED events

-----------------------------------------------------------------------------
(* The keys.                                                               *)

\* UART0_IntHandler gets a character.
UartReceive(c) ==
  /\ booted /\ Counted
  /\ IF c = "ESC" THEN esc_cmd' = TRUE /\ esc_cmd_count' = 0
     ELSE IF esc_cmd THEN /\ esc_cmd_count' = esc_cmd_count + 1
                          /\ esc_cmd' = (esc_cmd_count + 1 # 3)
     ELSE UNCHANGED <<esc_cmd, esc_cmd_count>>
  /\ IF esc_cmd' THEN UNCHANGED key ELSE key = "none" /\ key' = c
  /\ UNCHANGED <<boot, awake_windows, str, order, cup, at, input, output, ended>>

\* What is left of decode_cmd: the two halves of update_cup, and the cursor
\* sequences.  The echo and the spaces of clean_input go where the cursor is.
UpdateCup(dline, dcol) == << <<"read", dline, dcol>>, <<"write">> >>

decode_cmd ==
  /\ key # "none" /\ itodo = <<>>
  /\ key' = "none"
  /\ CASE key = "BACKSPACE" -> /\ str' = remove_char(str)
                               /\ itodo' = UpdateCup(0, -1)
       [] key = "ENTER"     -> /\ str' = reset_str(str)
                               /\ itodo' = UpdateCup(1, -cup.c) \o << <<"send_cup">> >>
                                             \o << <<"clean_input">>, <<"send_cup">> >>
       [] key = TAB         -> /\ str' = add_char(str, key)
                               /\ itodo' = UpdateCup(0, 4)
       [] key \notin {"BACKSPACE", "ENTER", TAB} /\ str.length < MAX_STR_SZ ->
                               /\ str' = add_char(str, key)
                               /\ itodo' = UpdateCup(0, 1)
       [] OTHER -> UNCHANGED <<str, itodo>>
  /\ IF key = "ENTER"
     THEN \E b \in Beyond : order' \in get_cmd(CString(str, b))
     ELSE order' = NoOrder
  /\ UNCHANGED <<boot, events, awake_windows, esc_cmd, esc_cmd_count, cup, at, itmp, output, ended>>

\* A local that is not needed any more is Home again.
InputStep ==
  /\ itodo # <<>>
  /\ LET step == Head(itodo)
     IN  \/ /\ step[1] = "clean_input"
            /\ itodo' = UpdateCup(0, -cup.c) \o Tail(itodo)
            /\ UNCHANGED <<itmp, cup, at>>
         \/ /\ step[1] # "clean_input"
            /\ itodo' = Tail(itodo)
            /\ \/ /\ step[1] = "read"
                  /\ itmp' = update_cup(cup, step[2], step[3])
                  /\ UNCHANGED <<cup, at>>
               \/ step[1] = "write" /\ cup' = itmp /\ itmp' = Home /\ UNCHANGED at
               \/ step[1] = "send_cup" /\ send_cup /\ UNCHANGED <<itmp, cup>>
  /\ UNCHANGED <<boot, events, awake_windows, line, output, ended>>

-----------------------------------------------------------------------------
(* The windows.                                                            *)

\* output_server has a message for a window: send_to_window saves the cursor.
send_to_window(w) ==
  /\ booted /\ scene.prints /\ Counted
  /\ otodo = <<>>
  /\ target' = w
  /\ pre' = cup
  /\ otodo' = <<"set", "test", "send_cup", "send_str", "restore", "send_cup">>
  /\ UNCHANGED <<boot, awake_windows, line, cup, at, input, ended>>

Does(step) == otodo # <<>> /\ Head(otodo) = step

\* Mutant of Restore: only the column.
RestoreCol ==
  /\ Does("restore")
  /\ cup' = [cup EXCEPT !.c = pre.c]
  /\ pre' = Home
  /\ otodo' = Tail(otodo)
  /\ UNCHANGED <<awake_windows, at>>

Restore ==
  /\ Does("restore")
  /\ cup' = pre
  /\ pre' = Home
  /\ otodo' = Tail(otodo)
  /\ UNCHANGED <<awake_windows, at>>

\* NEW_LINE: first the test of the window's range, then the new row.
Advance ==
  LET w == awake_windows[target]
  IN  \/ /\ Does("test")
         /\ otodo' = <<IF w.row + 1 <= w.xh THEN "next" ELSE "top">> \o Tail(otodo)
         /\ UNCHANGED <<awake_windows, cup, at>>
      \/ /\ Does("next") \/ Does("top")
         /\ awake_windows' = [awake_windows EXCEPT ![target] =
              [w EXCEPT !.row = IF Does("next") THEN @ + 1 ELSE w.xl, !.col = w.yl]]
         /\ otodo' = Tail(otodo)
         /\ UNCHANGED <<cup, at>>

Show ==
  \/ /\ Does("set")
     /\ cup' = Pos(awake_windows[target])
     /\ otodo' = Tail(otodo)
     /\ UNCHANGED <<awake_windows, at>>
  \/ /\ Does("send_cup")
     /\ send_cup
     /\ otodo' = Tail(otodo)
     /\ UNCHANGED <<awake_windows, cup>>
  \/ /\ Does("send_str")
     /\ send_str
     /\ otodo' = Tail(otodo)
     /\ UNCHANGED <<awake_windows, cup>>

OutputStep ==
  /\ \/ Show /\ UNCHANGED pre
     \/ Advance /\ UNCHANGED pre
     \/ Restore
  /\ UNCHANGED <<boot, events, line, input, target, ended>>

\* k_nice ("Nice", Kernel.c:80) and k_terminate ("Terminate", without a new line,
\* Kernel.c:169) print in the window of the running process.
KernelPrint(w, new_line) ==
  /\ booted /\ scene.prints /\ Counted
  /\ w \notin ended
  /\ awake_windows' = [awake_windows EXCEPT ![w] = advance(@, new_line, 1)]
  /\ send_cup
  /\ ended' = IF new_line THEN ended ELSE ended \cup {w}
  /\ UNCHANGED <<boot, line, cup, input, output>>

Next == \/ reg_proc \/ main
        \/ \E c \in scene.keys : UartReceive(c)
        \/ decode_cmd \/ InputStep
        \/ \E w \in DOMAIN awake_windows :
             send_to_window(w) \/ \E nl \in BOOLEAN : KernelPrint(w, nl)
        \/ OutputStep

Spec == Init /\ [][Next]_vars

-----------------------------------------------------------------------------
(* What should hold.                                                       *)

OnScreen == [l : 1..MAX_LINE, c : 1..MAX_COL]

\* Whoever interrupts whom, the cursor that is sent is on the screen, and so is
\* every window's next text.
TypeOK ==
  /\ calls \in 0..MAX_WINDOWS /\ ProcessNumber \in 0..MAX_WINDOWS
  /\ Len(awake_windows) = ProcessNumber
  /\ booted => \A w \in DOMAIN awake_windows : Pos(awake_windows[w]) \in OnScreen
  /\ cup \in OnScreen /\ at \in OnScreen /\ itmp \in OnScreen /\ pre \in OnScreen
  /\ str \in String_t(UNION {s.keys : s \in Scenes})
  /\ order.pid \in (-3)..MAX_PID
  /\ esc_cmd \in BOOLEAN /\ esc_cmd_count \in 0..3

InWindow(pos, w) == /\ w.xl <= pos.l /\ pos.l <= w.xh
                    /\ w.yl <= pos.c /\ pos.c <= w.yh

\* Every window has a title row and a row for text.
Fit == booted /\ ProcessNumber <= 2 * ((MAX_LINE - 1) \div 2)

\* Whatever number of processes has a window, as long as they fit, the windows are
\* on the screen, apart from each other, titles included, and from the last line,
\* where the input is.  That line is all seg_windows keeps free, in general:
\* its comment, "save 4 rows at the bottom" (monitor.c:322), says more than it does.
WindowsApart ==
  Fit =>
    \A i, j \in DOMAIN awake_windows :
      LET v == awake_windows[i] w == awake_windows[j]
      IN  /\ 2 <= v.xl /\ v.xl <= v.xh /\ v.xh < MAX_LINE
          /\ 1 <= v.yl /\ v.yh <= MAX_COL
          /\ i # j => \/ v.xh < w.xl - 1 \/ w.xh < v.xl - 1
                      \/ v.yh < w.yl \/ w.yh < v.yl

\* Everybody's cursor is where it should be: the input's on the last line, and
\* output_server's in the window it prints to, at the place for the next text.
InPlace ==
  LET w == awake_windows[target]
  IN  /\ otodo = <<>> => cup.l = MAX_LINE
      /\ otodo # <<>> =>
           /\ pre.l = MAX_LINE
           /\ Does("test") \/ Does("next") \/ Does("top") => cup = Pos(w)
           /\ Does("next") => w.row + 1 <= w.xh
           /\ Fit /\ Len(otodo) \in {3, 4} => InWindow(cup, w)
           /\ Does("send_str") => at = cup
           /\ Len(otodo) = 1 => cup.l = MAX_LINE
      /\ itodo # <<>> /\ Head(itodo) = <<"write">> => itmp.l = MAX_LINE
      /\ Fit => \A i \in DOMAIN awake_windows :
                  InWindow(Pos(awake_windows[i]), awake_windows[i])

\* Text goes astray in one way only: another process or a kernel call comes
\* between output_server's first and last access to cup in send_to_window
\* (monitor.c:155-203).
LostOnlyWhenMixed ==
  [][InPlace => InPlace' \/ (otodo # <<>> /\ otodo' = otodo)]_vars

\* The escape filter, the buffer with its NULs, strtok and my_atoi do what the
\* user of a line editor expects: module LineEditor.
Line == INSTANCE LineEditor WITH
          Key  <- UNION {s.keys : s \in Scenes},
          skip <- IF esc_cmd THEN 2 - esc_cmd_count ELSE 0,
          text <- SubSeq(str.data, 1, str.length)
ImplementsLine == Line!Spec
=============================================================================
