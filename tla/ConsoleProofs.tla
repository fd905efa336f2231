---------------------------- MODULE ConsoleProofs ----------------------------
(***************************************************************************)
(* Proofs about Console: the windows are on the screen and apart for every *)
(* size of the screen and every number of processes; text is lost in one   *)
(* way only; and the line of input, with its NULs, strtok and my_atoi, is  *)
(* that of module LineEditor for every length of the line.                 *)
(***************************************************************************)
EXTENDS Console, SequenceTheorems, FiniteSetTheorems, WellFoundedInduction, TLAPS

Keys == UNION {s.keys : s \in Scenes}

Window == [xl : Int, xh : Int, yl : Int, yh : Int, row : Int, col : Int]

-----------------------------------------------------------------------------
(* The invariant.                                                          *)

\* Start-up.  There are windows enough, as many as processes, and none has been
\* set up before the last of them is registered.
Registered ==
  /\ scene \in Scenes
  /\ booted => calls = 0
  /\ calls \in Nat /\ ProcessNumber \in Nat /\ ProcessNumber + calls <= MAX_WINDOWS
  /\ awake_windows \in [1..ProcessNumber -> Window]
  /\ calls > 0 => \A i \in 1..ProcessNumber : awake_windows[i] = NewWindow

\* A window after seg_windows: its segment of the screen but for the title's row;
\* the next text goes to its first column, or behind "Terminate", and at most one
\* row too low: where "Nice" of k_nice came between output_server's test and step.
InSegment(i) ==
  LET w == awake_windows[i]
      s == segment(i, ProcessNumber)
  IN  /\ w.xl = s.xl + 1 /\ w.xh = s.xh /\ w.yl = s.yl /\ w.yh = s.yh
      /\ s.xl <= w.row /\ w.row <= w.xh + 1
      /\ i = target /\ Does("next") => w.row <= w.xh /\ w.xl <= w.xh
      /\ w.col = w.yl \/ (i \in ended /\ w.col = w.yl + 1)

Segmented == booted => \A i \in 1..ProcessNumber : InSegment(i)

InputSteps == {<<"read", a, b>> : a \in 0..1, b \in Int}
                \cup {<<"write">>, <<"send_cup">>, <<"clean_input">>}

\* What input_server has still to do: a cup is written after one was read.
Ordered(t) ==
  /\ t \in Seq(InputSteps)
  /\ \A k \in 2..Len(t) : t[k] = <<"write">> => t[k - 1][1] = "read"

InputTodo == Ordered(itodo)

\* What output_server has still to do in send_to_window.
AtLast    == <<"send_cup">>
AtRestore == <<"restore", "send_cup">>
AtText    == <<"send_str", "restore", "send_cup">>
AtCup     == <<"send_cup", "send_str", "restore", "send_cup">>
AtTop     == <<"top", "send_cup", "send_str", "restore", "send_cup">>
AtNext    == <<"next", "send_cup", "send_str", "restore", "send_cup">>
AtTest    == <<"test", "send_cup", "send_str", "restore", "send_cup">>
AtSet     == <<"set", "test", "send_cup", "send_str", "restore", "send_cup">>

OutputTodo ==
  /\ otodo \in {AtSet, AtTest, AtNext, AtTop, AtCup, AtText, AtRestore, AtLast, <<>>}
  /\ otodo # <<>> => booted /\ target \in 1..ProcessNumber

Cursors == cup \in OnScreen /\ at \in OnScreen /\ itmp \in OnScreen /\ pre \in OnScreen

Keyboard ==
  /\ esc_cmd \in BOOLEAN /\ esc_cmd_count \in 0..3 /\ (esc_cmd => esc_cmd_count \in 0..2)
  /\ key \in Keys \cup {"none"}

\* A line: characters up to its length, and NULs behind.
LineOf(s) == s \in String_t(Keys) /\ \A k \in 1..MAX_STR_SZ : s.data[k] = NUL <=> k > s.length

LineInv ==
  /\ LineOf(str)
  /\ order.pid \in (-3)..MAX_PID

Inv == Registered /\ Segmented /\ InputTodo /\ OutputTodo /\ Cursors /\ Keyboard /\ LineInv

-----------------------------------------------------------------------------
(* Where the windows are.                                                  *)

LEMMA ScreenSize == /\ MAX_LINE \in 2..99 /\ MAX_COL \in 4..99 /\ MAX_COL % 2 = 0
                    /\ MAX_WINDOWS \in 0..2 * (MAX_LINE - 1)
  BY ScreenOK

\* Division, by its remainder.
LEMMA DivisionIs ==
  ASSUME NEW m \in Nat, NEW k \in Nat \ {0}
  PROVE  m \div k \in Nat /\ k * (m \div k) <= m /\ m < k * (m \div k) + k
  <1>1. m % k \in 0..(k - 1) /\ m = k * (m \div k) + (m % k)
    OBVIOUS
  <1>2. m \div k \in Int
    OBVIOUS
  <1>3. ASSUME m \div k < 0 PROVE FALSE
    <2>1. k * (m \div k) <= -k
      BY <1>2, <1>3
    <2> QED BY <1>1, <1>2, <2>1
  <1>4. k * (m \div k) \in Int
    BY <1>2
  <1> QED BY <1>1, <1>2, <1>3, <1>4

\* A greater number has a greater product.
LEMMA ProductGrows ==
  ASSUME NEW a \in Nat, NEW b \in Nat, a <= b, NEW d \in Nat
  PROVE  a * d \in Nat /\ b * d \in Nat /\ a * d <= b * d
  OBVIOUS

\* The i-th of n windows: in band a of height d, left or right of the middle h.
LEMMA SegmentIs ==
  ASSUME NEW n \in Nat, NEW i \in 1..n
  PROVE  \E a, b, d, h \in Nat :
           /\ segment(i, n) = [xl |-> 1 + a * d, xh |-> a * d + d,
                               yl |-> 1 + b * h, yh |-> b * h + h,
                               row |-> 1 + a * d, col |-> 1 + b * h]
           /\ a = (i - 1) \div 2 /\ b = (i - 1) % 2 /\ b \in 0..1
           /\ d = (MAX_LINE - 1) \div ((n + 1) \div 2)
           /\ a * d \in Nat /\ a * d + d <= MAX_LINE - 1
           /\ 2 <= h /\ 2 * h = MAX_COL
  <1> DEFINE k == (n + 1) \div 2
             a == (i - 1) \div 2
             b == (i - 1) % 2
             d == (MAX_LINE - 1) \div k
             h == MAX_COL \div 2
  <1>1. k \in Nat \ {0} /\ a \in Nat /\ a + 1 <= k /\ b \in 0..1
    OBVIOUS
  <1>6. deltax(n) = d - 1
    BY <1>1 DEF deltax, sdiv, row_windows
  <1>2. d \in Nat /\ k * d <= MAX_LINE - 1
    <2> HIDE DEF k
    <2> QED BY <1>1, ScreenSize, DivisionIs
  <1>3. h \in Nat /\ 2 <= h /\ 2 * h = MAX_COL
    BY ScreenSize
  <1>4. a * d \in Nat /\ a * d + d <= MAX_LINE - 1
    <2> HIDE DEF k, a, d
    <2>1. (a + 1) * d <= k * d
      BY <1>1, <1>2, ProductGrows
    <2>2. (a + 1) * d = a * d + d /\ a * d \in Nat
      BY <1>1, <1>2
    <2> QED BY <1>1, <1>2, <2>1, <2>2, ScreenSize
  <1>5. segment(i, n) = [xl |-> 1 + a * d, xh |-> a * d + d,
                         yl |-> 1 + b * h, yh |-> b * h + h,
                         row |-> 1 + a * d, col |-> 1 + b * h]
    <2>1. segment(i, n) = [xl |-> 1 + a * (d - 1 + 1), xh |-> 1 + a * (d - 1 + 1) + (d - 1),
                           yl |-> 1 + b * (h - 1 + 1), yh |-> 1 + b * (h - 1 + 1) + (h - 1),
                           row |-> 1 + a * (d - 1 + 1), col |-> 1 + b * (h - 1 + 1)]
      BY <1>6 DEF segment
    <2> HIDE DEF k, a, b, d, h
    <2>2. d - 1 + 1 = d /\ h - 1 + 1 = h
      BY <1>2, <1>3
    <2>3. b * h \in Nat
      BY <1>1, <1>3
    <2>4. 1 + a * d + (d - 1) = a * d + d /\ 1 + b * h + (h - 1) = b * h + h
      BY <1>2, <1>3, <1>4, <2>3
    <2> QED BY <2>1, <2>2, <2>4
  <1> QED
    <2>1. d = (MAX_LINE - 1) \div k /\ a = (i - 1) \div 2 /\ b = (i - 1) % 2
      OBVIOUS
    <2>2. b \in Nat
      BY <1>1
    <2> HIDE DEF k, a, b, d, h
    <2> SUFFICES segment(i, n) = [xl |-> 1 + a * d, xh |-> a * d + d,
                               yl |-> 1 + b * h, yh |-> b * h + h,
                               row |-> 1 + a * d, col |-> 1 + b * h]
      BY <1>1, <1>2, <1>3, <1>4, <2>1, <2>2 DEF k
    <2> QED BY <1>5

\* Two lines at least in every window, if they fit.
LEMMA FitIs ==
  ASSUME NEW n \in Nat \ {0}, n <= 2 * ((MAX_LINE - 1) \div 2)
  PROVE  2 <= (MAX_LINE - 1) \div ((n + 1) \div 2)
  <1> DEFINE k == (n + 1) \div 2
             d == (MAX_LINE - 1) \div k
             m == (MAX_LINE - 1) \div 2
  <1>1. k \in Nat \ {0} /\ 2 * k <= MAX_LINE - 1
    <2>1. MAX_LINE - 1 \in Nat
      BY ScreenSize
    <2>2. m \in Nat /\ 2 * m <= MAX_LINE - 1
      BY <2>1
    <2>3. k \in Nat \ {0} /\ k <= m
      <3> HIDE DEF m
      <3>1. n <= 2 * m
        BY DEF m
      <3> QED BY <2>2, <3>1
    <2> QED BY <2>1, <2>2, <2>3
  <1>2. d \in Nat /\ MAX_LINE - 1 < k * d + k
    <2> HIDE DEF k
    <2>1. MAX_LINE - 1 \in Nat
      BY ScreenSize
    <2> QED BY <1>1, <2>1, DivisionIs
  <1>3. ASSUME d < 2 PROVE FALSE
    <2> HIDE DEF k, d
    <2>1. d = 0 \/ d = 1
      BY <1>2, <1>3
    <2>2. k * d <= k
      BY <1>1, <2>1
    <2> QED BY <1>1, <1>2, <2>2, ScreenSize
  <1> QED BY <1>2, <1>3

\* A window is on the screen, above the last line, with one line at least; and with
\* two, if the windows fit.
LEMMA SegmentBounds ==
  ASSUME NEW n \in 0..MAX_WINDOWS, NEW i \in 1..n
  PROVE  LET s == segment(i, n)
         IN  /\ s \in Window /\ s.row = s.xl /\ s.col = s.yl
             /\ 1 <= s.xl /\ s.xl <= s.xh /\ s.xh < MAX_LINE
             /\ 1 <= s.yl /\ s.yl + 1 <= s.yh /\ s.yh <= MAX_COL
             /\ n <= 2 * ((MAX_LINE - 1) \div 2) => s.xl + 1 <= s.xh
  <1> DEFINE s == segment(i, n)
             k == (n + 1) \div 2
  <1>1. n \in Nat /\ n # 0 /\ n <= 2 * (MAX_LINE - 1)
    BY ScreenSize
  <1>2. PICK a, b, d, h \in Nat :
           /\ segment(i, n) = [xl |-> 1 + a * d, xh |-> a * d + d,
                               yl |-> 1 + b * h, yh |-> b * h + h,
                               row |-> 1 + a * d, col |-> 1 + b * h]
           /\ a = (i - 1) \div 2 /\ b = (i - 1) % 2 /\ b \in 0..1
           /\ d = (MAX_LINE - 1) \div ((n + 1) \div 2)
           /\ a * d \in Nat /\ a * d + d <= MAX_LINE - 1
           /\ 2 <= h /\ 2 * h = MAX_COL
    BY <1>1, SegmentIs, Zenon
  <1>3. 1 <= d
    <2>1. k \in Nat \ {0} /\ k <= MAX_LINE - 1
      BY <1>1, ScreenSize
    <2>2. MAX_LINE - 1 < k * d + k
      <3>1. d = (MAX_LINE - 1) \div k
        BY <1>2
      <3> HIDE DEF k
      <3> QED BY <2>1, <3>1, ScreenSize, DivisionIs
    <2>3. ASSUME d = 0 PROVE FALSE
      <3>1. k * d = 0
        BY <2>1, <2>3
      <3> HIDE DEF k
      <3> QED BY <2>1, <2>2, <3>1, ScreenSize
    <2> QED BY <1>2, <2>3
  <1>4. b * h \in Nat /\ b * h + h <= MAX_COL
    <2>1. CASE b = 0
      BY <1>2, <2>1
    <2>2. CASE b = 1
      BY <1>2, <2>2
    <2> QED BY <1>2, <2>1, <2>2
  <1>5. n <= 2 * ((MAX_LINE - 1) \div 2) => 2 <= d
    BY <1>1, <1>2, FitIs
  <1>0. s = [xl |-> 1 + a * d, xh |-> a * d + d, yl |-> 1 + b * h, yh |-> b * h + h,
             row |-> 1 + a * d, col |-> 1 + b * h]
    BY <1>2, Zenon
  <1> HIDE DEF k, s
  <1>6. s \in Window /\ s.row = s.xl /\ s.col = s.yl
    BY <1>0, <1>2, <1>4 DEF Window
  <1> DEFINE ad == a * d
             bh == b * h
  <1>7. /\ s.xl = 1 + ad /\ s.xh = ad + d /\ s.yl = 1 + bh /\ s.yh = bh + h
        /\ ad \in Nat /\ ad + d <= MAX_LINE - 1 /\ bh \in Nat /\ bh + h <= MAX_COL
    BY <1>0, <1>2, <1>4
  <1>8. /\ 1 <= s.xl /\ s.xl <= s.xh /\ s.xh < MAX_LINE
        /\ 1 <= s.yl /\ s.yl + 1 <= s.yh /\ s.yh <= MAX_COL
        /\ 2 <= d => s.xl + 1 <= s.xh
    <2> HIDE DEF ad, bh
    <2> QED BY <1>2, <1>3, <1>7, ScreenSize
  <1> QED BY <1>5, <1>6, <1>8 DEF s

\* Two windows have different rows of the screen, or different halves.
LEMMA SegmentsApart ==
  ASSUME NEW n \in 0..MAX_WINDOWS, NEW i \in 1..n, NEW j \in 1..n, i # j
  PROVE  LET s == segment(i, n) t == segment(j, n)
         IN  s.xh < t.xl \/ t.xh < s.xl \/ s.yh < t.yl \/ t.yh < s.yl
  <1> DEFINE s == segment(i, n)
             t == segment(j, n)
  <1>1. n \in Nat
    BY ScreenSize
  <1>2. PICK a, b, d, h \in Nat :
           /\ segment(i, n) = [xl |-> 1 + a * d, xh |-> a * d + d,
                               yl |-> 1 + b * h, yh |-> b * h + h,
                               row |-> 1 + a * d, col |-> 1 + b * h]
           /\ a = (i - 1) \div 2 /\ b = (i - 1) % 2 /\ b \in 0..1
           /\ d = (MAX_LINE - 1) \div ((n + 1) \div 2)
           /\ a * d \in Nat /\ a * d + d <= MAX_LINE - 1
           /\ 2 <= h /\ 2 * h = MAX_COL
    BY <1>1, SegmentIs, Zenon
  <1>3. PICK e, f, g, m \in Nat :
           /\ segment(j, n) = [xl |-> 1 + e * g, xh |-> e * g + g,
                               yl |-> 1 + f * m, yh |-> f * m + m,
                               row |-> 1 + e * g, col |-> 1 + f * m]
           /\ e = (j - 1) \div 2 /\ f = (j - 1) % 2 /\ f \in 0..1
           /\ g = (MAX_LINE - 1) \div ((n + 1) \div 2)
           /\ e * g \in Nat /\ e * g + g <= MAX_LINE - 1
           /\ 2 <= m /\ 2 * m = MAX_COL
    BY <1>1, SegmentIs, Zenon
  <1>4. g = d /\ m = h
    BY <1>2, <1>3
  <1>5. a # e \/ b # f
    BY <1>2, <1>3
  <1>0. /\ s = [xl |-> 1 + a * d, xh |-> a * d + d, yl |-> 1 + b * h, yh |-> b * h + h,
                row |-> 1 + a * d, col |-> 1 + b * h]
        /\ t = [xl |-> 1 + e * g, xh |-> e * g + g, yl |-> 1 + f * m, yh |-> f * m + m,
                row |-> 1 + e * g, col |-> 1 + f * m]
    BY <1>2, <1>3, Zenon
  <1> HIDE DEF s, t
  <1>6. /\ s.xl = 1 + a * d /\ s.xh = a * d + d /\ s.yl = 1 + b * h /\ s.yh = b * h + h
        /\ t.xl = 1 + e * d /\ t.xh = e * d + d /\ t.yl = 1 + f * h /\ t.yh = f * h + h
    BY <1>0, <1>4
  <1>7. ASSUME NEW p \in Nat, NEW q \in Nat, p < q
        PROVE  p * d + d < 1 + q * d
    <2>1. (p + 1) * d <= q * d /\ (p + 1) * d \in Nat /\ q * d \in Nat
      BY <1>7, ProductGrows
    <2>2. (p + 1) * d = p * d + d
      OBVIOUS
    <2> QED BY <2>1, <2>2
  <1>8. CASE a < e
    BY <1>6, <1>7, <1>8 DEF s, t
  <1>9. CASE e < a
    BY <1>6, <1>7, <1>9 DEF s, t
  <1>10. CASE a = e
    <2>1. (b = 0 /\ f = 1) \/ (b = 1 /\ f = 0)
      BY <1>2, <1>3, <1>5, <1>10
    <2>2. s.yh < t.yl \/ t.yh < s.yl
      <3>1. CASE b = 0 /\ f = 1
        BY <1>6, <3>1
      <3>2. CASE b = 1 /\ f = 0
        BY <1>6, <3>2
      <3> QED BY <2>1, <3>1, <3>2
    <2> QED BY <2>2 DEF s, t
  <1> QED BY <1>8, <1>9, <1>10

\* Two windows that are in the same place.
SameWindow(v, w) == v.xl = w.xl /\ v.xh = w.xh /\ v.yl = w.yl /\ v.yh = w.yh

\* advance with a new line: the next row, and after the last the first.
LEMMA AdvanceLine ==
  ASSUME NEW w \in Window, NEW len
  PROVE  /\ advance(w, TRUE, len) \in Window
         /\ SameWindow(advance(w, TRUE, len), w)
         /\ advance(w, TRUE, len).row = (IF w.row + 1 > w.xh THEN w.xl ELSE w.row + 1)
         /\ advance(w, TRUE, len).col = w.yl
  <1>1. w.row \in Int /\ w.xh \in Int /\ w.col \in Int /\ w.xl \in Int /\ w.yl \in Int
    BY DEF Window
  <1>2. CASE w.row + 1 > w.xh
    <2>1. advance(w, TRUE, len) = [w EXCEPT !.row = w.xl, !.col = w.yl]
      BY <1>1, <1>2 DEF advance
    <2> QED BY <1>1, <1>2, <2>1 DEF Window, SameWindow
  <1>3. CASE ~(w.row + 1 > w.xh)
    <2>1. advance(w, TRUE, len) = [w EXCEPT !.row = w.row + 1, !.col = w.yl]
      BY <1>1, <1>3 DEF advance
    <2>2. w.row + 1 \in Int
      BY <1>1
    <2> QED BY <1>1, <1>3, <2>1, <2>2 DEF Window, SameWindow
  <1> QED BY <1>2, <1>3

\* advance without: behind the text, or in the last line back to the first.
LEMMA AdvanceText ==
  ASSUME NEW w \in Window, NEW len \in Int
  PROVE  /\ advance(w, FALSE, len) \in Window
         /\ SameWindow(advance(w, FALSE, len), w)
         /\ advance(w, FALSE, len).row = (IF w.row + 1 > w.xh THEN w.xl ELSE w.row)
         /\ advance(w, FALSE, len).col = (IF w.row + 1 > w.xh THEN w.col ELSE w.col + len)
  <1>1. w.row \in Int /\ w.xh \in Int /\ w.col \in Int /\ w.xl \in Int /\ w.yl \in Int
    BY DEF Window
  <1>2. CASE w.row + 1 > w.xh
    <2>1. advance(w, FALSE, len) = [w EXCEPT !.row = w.xl]
      BY <1>1, <1>2 DEF advance
    <2> QED BY <1>1, <1>2, <2>1 DEF Window, SameWindow
  <1>3. CASE ~(w.row + 1 > w.xh)
    <2>1. advance(w, FALSE, len) = [w EXCEPT !.col = w.col + len]
      BY <1>1, <1>3 DEF advance
    <2>2. w.col + len \in Int
      BY <1>1
    <2> QED BY <1>1, <1>3, <2>1, <2>2 DEF Window, SameWindow
  <1> QED BY <1>2, <1>3

\* What seg_windows leaves: the next text is in the window's first line, or, where
\* there is one, in the line below it.
LEMMA TitledIs ==
  ASSUME NEW s \in Window, s.row = s.xl, s.col = s.yl
  PROVE  /\ titled(s) \in Window
         /\ SameWindow(titled(s), [s EXCEPT !.xl = s.xl + 1])
         /\ titled(s).row = (IF s.xl + 1 > s.xh THEN s.xl ELSE s.xl + 1)
         /\ titled(s).col = s.yl
  <1> DEFINE u == advance(s, FALSE, 5)
             len == Len(myitoa(MAX_PID, 3))
             v == advance(u, TRUE, len)
  <1>1. s.xl \in Int /\ s.xh \in Int
    BY DEF Window
  <1>2. u \in Window /\ SameWindow(u, s) /\ u.row = s.xl
    <2>1. 5 \in Int
      OBVIOUS
    <2> QED BY <1>1, <2>1, AdvanceText
  <1>3. /\ v \in Window /\ SameWindow(v, s)
        /\ v.row = (IF s.xl + 1 > s.xh THEN s.xl ELSE s.xl + 1) /\ v.col = s.yl
    <2> HIDE DEF u, len
    <2> QED BY <1>2, AdvanceLine DEF SameWindow
  <1>4. titled(s) = [v EXCEPT !.xl = v.xl + 1]
    BY DEF titled
  <1> HIDE DEF v
  <1> QED BY <1>1, <1>3, <1>4 DEF Window, SameWindow

\* A window's next text is on the screen.
LEMMA NextOnScreen ==
  ASSUME Registered, Segmented, booted, NEW i \in 1..ProcessNumber
  PROVE  Pos(awake_windows[i]) \in OnScreen
  <1> DEFINE w == awake_windows[i]
             s == segment(i, ProcessNumber)
  <1>1. w \in Window /\ ProcessNumber \in 0..MAX_WINDOWS
    BY DEF Registered
  <1>2. /\ s \in Window /\ 1 <= s.xl /\ s.xl <= s.xh /\ s.xh < MAX_LINE
        /\ 1 <= s.yl /\ s.yl + 1 <= s.yh /\ s.yh <= MAX_COL
    BY <1>1, SegmentBounds
  <1>3. /\ s.xl <= w.row /\ w.row <= s.xh + 1
        /\ w.col = s.yl \/ w.col = s.yl + 1
    BY DEF Segmented, InSegment
  <1> HIDE DEF w, s
  <1>4. /\ w.row \in Int /\ w.col \in Int /\ s.xl \in Int /\ s.xh \in Int /\ s.yl \in Int
        /\ s.yh \in Int
    BY <1>1, <1>2 DEF Window
  <1>5. w.row \in 1..MAX_LINE /\ w.col \in 1..MAX_COL
    BY <1>2, <1>3, <1>4, ScreenSize
  <1>6. Pos(w) \in OnScreen
    BY <1>5 DEF Pos, OnScreen
  <1> QED BY <1>6 DEF w

LEMMA MaxIs ==
  ASSUME NEW n \in Int
  PROVE  Max({1, n}) = IF n <= 1 THEN 1 ELSE n
  <1> DEFINE m == IF n <= 1 THEN 1 ELSE n
  <1>1. m \in {1, n} /\ \A y \in {1, n} : m >= y
    OBVIOUS
  <1>2. ASSUME NEW x \in {1, n}, \A y \in {1, n} : x >= y PROVE x = m
    BY <1>1, <1>2
  <1> QED BY <1>1, <1>2 DEF Max

\* The cursor stays on the screen, and on the last line, when it moves in its line
\* or to the next.
LEMMA UpdatedOnScreen ==
  ASSUME NEW from \in OnScreen, NEW dline \in 0..1, NEW dcol \in Int
  PROVE  /\ update_cup(from, dline, dcol) \in OnScreen
         /\ from.l = MAX_LINE => update_cup(from, dline, dcol).l = MAX_LINE
  <1>1. from.l \in 1..MAX_LINE /\ from.c \in 1..MAX_COL /\ MAX_LINE \in Nat /\ MAX_COL \in Nat
    BY ScreenSize DEF OnScreen
  <1>2. CASE dcol > 0 /\ from.c + dcol > MAX_COL
    BY <1>2 DEF update_cup
  <1>3. CASE ~(dcol > 0 /\ from.c + dcol > MAX_COL) /\ from.l + dline > MAX_LINE
    <2>1. update_cup(from, dline, dcol) = [from EXCEPT !.c = 1]
      BY <1>3 DEF update_cup
    <2>2. 1 \in 1..MAX_COL
      BY <1>1
    <2> QED BY <2>1, <2>2 DEF OnScreen
  <1>4. CASE ~(dcol > 0 /\ from.c + dcol > MAX_COL) /\ ~(from.l + dline > MAX_LINE)
    <2> DEFINE l == from.l + dline
               c == Max({1, from.c + dcol})
    <2>1. update_cup(from, dline, dcol) = [l |-> l, c |-> c]
      BY <1>4 DEF update_cup
    <2>2. c = IF from.c + dcol <= 1 THEN 1 ELSE from.c + dcol
      BY <1>1, MaxIs
    <2>3. c \in 1..MAX_COL
      <3> HIDE DEF c
      <3> QED BY <1>1, <1>4, <2>2
    <2>4. l \in 1..MAX_LINE /\ (from.l = MAX_LINE => l = MAX_LINE)
      BY <1>1, <1>4
    <2> HIDE DEF l, c
    <2> QED BY <2>1, <2>3, <2>4 DEF OnScreen
  <1> QED BY <1>2, <1>3, <1>4

\* Two digits are enough for a position: the terminal goes where cup is.
LEMMA CupSent ==
  ASSUME cup \in OnScreen, send_cup
  PROVE  at' = cup
  <1>1. ASSUME NEW n \in 0..99 PROVE TwoDigits(n) = n
    BY DEF TwoDigits
  <1>2. cup.l \in 0..99 /\ cup.c \in 0..99 /\ cup = [l |-> cup.l, c |-> cup.c]
    BY ScreenSize DEF OnScreen
  <1> QED BY <1>1, <1>2 DEF send_cup

LEMMA HomeOnScreen == Home \in OnScreen /\ Home.l = MAX_LINE
  BY ScreenSize DEF Home, OnScreen

LEMMA KeysAre == NUL \notin Keys /\ \A s \in Scenes : s.keys \subseteq Keys
  BY ScreenOK DEF Keys

-----------------------------------------------------------------------------
(* The line in its buffer.                                                 *)

LEMMA EmptyLine == LineOf(Empty)
  BY LineOK DEF LineOf, Empty, String_t

LEMMA LineParts ==
  ASSUME NEW s, LineOf(s)
  PROVE  /\ s = [length |-> s.length, data |-> s.data]
         /\ s.length \in 0..MAX_STR_SZ /\ s.length \in Int /\ MAX_STR_SZ \in Nat
         /\ s.data \in [1..MAX_STR_SZ -> Keys \cup {NUL}]
  BY LineOK DEF LineOf, String_t

LEMMA CharAdded ==
  ASSUME NEW s, LineOf(s), NEW c \in Keys
  PROVE  LineOf(add_char(s, c))
  <1> DEFINE n == s.length + 1
             d == [s.data EXCEPT ![n] = c]
  <1>1. CASE s.length = MAX_STR_SZ
    BY <1>1 DEF add_char
  <1>2. CASE s.length # MAX_STR_SZ
    <2>1. n \in 1..MAX_STR_SZ
      BY <1>2, LineParts
    <2>2. d \in [1..MAX_STR_SZ -> Keys \cup {NUL}]
      BY <2>1, LineParts
    <2>3. ASSUME NEW k \in 1..MAX_STR_SZ PROVE d[k] = NUL <=> k > n
      BY <2>1, <2>3, LineParts, KeysAre DEF LineOf
    <2> HIDE DEF d
    <2>4. add_char(s, c) = [length |-> n, data |-> d]
      BY <1>2 DEF add_char, d
    <2>5. n \in 0..MAX_STR_SZ
      BY <2>1
    <2> HIDE DEF n
    <2> QED BY <2>2, <2>3, <2>4, <2>5 DEF LineOf, String_t
  <1> QED BY <1>1, <1>2

LEMMA CharRemoved ==
  ASSUME NEW s, LineOf(s)
  PROVE  LineOf(remove_char(s))
  <1> DEFINE n == s.length - 1
             d == [s.data EXCEPT ![s.length] = NUL]
  <1>1. CASE s.length = 0
    BY <1>1 DEF remove_char
  <1>2. CASE s.length # 0
    <2>1. n \in 0..MAX_STR_SZ /\ s.length \in 1..MAX_STR_SZ
      BY <1>2, LineParts
    <2>2. d \in [1..MAX_STR_SZ -> Keys \cup {NUL}]
      BY <2>1, LineParts
    <2>3. ASSUME NEW k \in 1..MAX_STR_SZ PROVE d[k] = NUL <=> k > n
      BY <2>1, <2>3, LineParts DEF LineOf
    <2> HIDE DEF d
    <2>4. remove_char(s) = [length |-> n, data |-> d]
      BY <1>2 DEF remove_char, d
    <2> HIDE DEF n
    <2> QED BY <2>1, <2>2, <2>3, <2>4 DEF LineOf, String_t
  <1> QED BY <1>1, <1>2

\* All that reset_str leaves is a buffer of NULs.
LEMMA LineReset ==
  ASSUME NEW s, LineOf(s)
  PROVE  LineOf(reset_str(s)) /\ reset_str(s).length = 0
  <1> DEFINE d == [k \in 1..MAX_STR_SZ |-> IF k <= s.length THEN NUL ELSE s.data[k]]
  <1>1. ASSUME NEW k \in 1..MAX_STR_SZ PROVE d[k] = NUL
    BY LineParts DEF LineOf
  <1>2. d \in [1..MAX_STR_SZ -> Keys \cup {NUL}]
    BY <1>1
  <1> HIDE DEF d
  <1>3. reset_str(s) = [length |-> 0, data |-> d]
    BY DEF reset_str, d
  <1> QED BY <1>1, <1>2, <1>3, LineParts DEF LineOf, String_t

\* Whatever strtok and my_atoi find, the pid is one of a process or an error.
LEMMA PidBounds ==
  ASSUME NEW t, NEW o \in get_cmd(t)
  PROVE  \/ o.pid \in 1..MAX_PID
         \/ \E why \in (-3)..(-1) : o = [pid |-> why, msg |-> NULL]
  BY LineOK DEF get_cmd

-----------------------------------------------------------------------------
(* The programs' places.                                                   *)

LEMMA Heads ==
  /\ Head(AtSet) = "set" /\ Head(AtTest) = "test" /\ Head(AtNext) = "next"
  /\ Head(AtTop) = "top" /\ Head(AtCup) = "send_cup" /\ Head(AtText) = "send_str"
  /\ Head(AtRestore) = "restore" /\ Head(AtLast) = "send_cup"
  BY DEF AtSet, AtTest, AtNext, AtTop, AtCup, AtText, AtRestore, AtLast

LEMMA Tails ==
  /\ Tail(AtSet) = AtTest /\ Tail(AtTest) = AtCup /\ Tail(AtNext) = AtCup
  /\ Tail(AtTop) = AtCup /\ Tail(AtCup) = AtText /\ Tail(AtText) = AtRestore
  /\ Tail(AtRestore) = AtLast /\ Tail(AtLast) = <<>>
  BY DEF AtSet, AtTest, AtNext, AtTop, AtCup, AtText, AtRestore, AtLast

LEMMA Lengths ==
  /\ Len(AtSet) = 6 /\ Len(AtTest) = 5 /\ Len(AtNext) = 5 /\ Len(AtTop) = 5
  /\ Len(AtCup) = 4 /\ Len(AtText) = 3 /\ Len(AtRestore) = 2 /\ Len(AtLast) = 1
  /\ Len(<<>>) = 0
  BY DEF AtSet, AtTest, AtNext, AtTop, AtCup, AtText, AtRestore, AtLast

LEMMA NotDone ==
  /\ AtSet # <<>> /\ AtTest # <<>> /\ AtNext # <<>> /\ AtTop # <<>> /\ AtCup # <<>>
  /\ AtText # <<>> /\ AtRestore # <<>> /\ AtLast # <<>>
  <1>1. <<>> \notin {AtSet, AtTest, AtNext, AtTop, AtCup, AtText, AtRestore, AtLast}
    BY Lengths
  <1> QED BY <1>1

\* A sequence with one element before it.
LEMMA Prepended ==
  ASSUME NEW S, NEW u \in Seq(S), NEW s \in Seq(S), NEW t \in Seq(S),
         Len(u) = 1, Len(t) = Len(s) + 1, t[1] = u[1],
         \A i \in 1..Len(s) : t[i + 1] = s[i]
  PROVE  u \o s = t
  <1> DEFINE v == u \o s
             n == Len(s)
  <1>0. n \in Nat /\ Len(t) = n + 1
    BY LenProperties
  <1>1. v \in Seq(S) /\ Len(v) = 1 + n
    <2>1. u \o s \in Seq(S) /\ Len(u \o s) = Len(u) + Len(s)
      BY ConcatProperties, Zenon
    <2> HIDE DEF v
    <2>2. v \in Seq(S) /\ Len(v) = Len(u) + Len(s)
      BY <2>1, Zenon DEF v
    <2> QED BY <2>2
  <1>2. ASSUME NEW i \in 1..(1 + n) PROVE v[i] = t[i]
    <2>1. v[i] = IF i <= 1 THEN u[i] ELSE s[i - 1]
      <3>1. \A k \in 1..(Len(u) + Len(s)) :
              v[k] = IF k <= Len(u) THEN u[k] ELSE s[k - Len(u)]
        BY ConcatProperties, Zenon
      <3> HIDE DEF v
      <3> QED BY <3>1
    <2> HIDE DEF v, n
    <2>0. i \in Int /\ 1 <= i /\ i <= 1 + n
      BY <1>0
    <2>2. CASE i = 1
      BY <2>1, <2>2
    <2>3. CASE i > 1
      <3>1. i - 1 \in 1..n /\ (i - 1) + 1 = i /\ ~(i <= 1)
        BY <1>0, <2>0, <2>3
      <3> QED BY <2>1, <3>1 DEF n
    <2> QED BY <2>0, <2>2, <2>3
  <1> HIDE DEF v
  <1>3. v = t
    BY <1>0, <1>1, <1>2, SeqEqual
  <1> QED BY <1>3 DEF v

LEMMA Chosen == <<"next">> \o AtCup = AtNext /\ <<"top">> \o AtCup = AtTop
  <1>1. ASSUME NEW step
        PROVE  <<step>> \o AtCup = <<step, "send_cup", "send_str", "restore", "send_cup">>
    <2> DEFINE S == {step, "send_cup", "send_str", "restore"}
               t == <<step, "send_cup", "send_str", "restore", "send_cup">>
               u == <<step>>
    <2>1. u \in Seq(S) /\ AtCup \in Seq(S) /\ t \in Seq(S)
      BY DEF AtCup
    <2>2. Len(u) = 1 /\ Len(AtCup) = 4 /\ Len(t) = 5
      BY DEF AtCup
    <2>3. /\ u[1] = t[1] /\ AtCup[1] = t[2] /\ AtCup[2] = t[3] /\ AtCup[3] = t[4]
          /\ AtCup[4] = t[5]
      BY DEF AtCup
    <2> HIDE DEF t, u, S
    <2>4. ASSUME NEW i \in 1..Len(AtCup) PROVE t[i + 1] = AtCup[i]
      <3>1. i = 1 \/ i = 2 \/ i = 3 \/ i = 4
        BY <2>2
      <3> QED BY <2>3, <3>1
    <2>5. Len(t) = Len(AtCup) + 1
      BY <2>2
    <2>6. u \o AtCup = t
      BY <2>1, <2>2, <2>3, <2>4, <2>5, Prepended, Zenon
    <2> QED BY <2>6 DEF t, u
  <1> QED BY <1>1 DEF AtNext, AtTop

\* The places of send_to_window are different, and known by their first step, but for
\* the two that send a cursor.
LEMMA Places ==
  ASSUME OutputTodo
  PROVE  /\ Does("set") <=> otodo = AtSet
         /\ Does("test") <=> otodo = AtTest
         /\ Does("next") <=> otodo = AtNext
         /\ Does("top") <=> otodo = AtTop
         /\ Does("send_cup") <=> otodo \in {AtCup, AtLast}
         /\ Does("send_str") <=> otodo = AtText
         /\ Does("restore") <=> otodo = AtRestore
         /\ Len(otodo) \in {3, 4} <=> otodo \in {AtText, AtCup}
         /\ Len(otodo) = 1 <=> otodo = AtLast
  <1>1. /\ <<>> \notin {AtSet, AtTest, AtNext, AtTop, AtCup, AtText, AtRestore, AtLast}
        /\ AtCup # AtLast
    BY Lengths
  <1>2. otodo = <<>> \/ otodo = AtSet \/ otodo = AtTest \/ otodo = AtNext \/ otodo = AtTop
          \/ otodo = AtCup \/ otodo = AtText \/ otodo = AtRestore \/ otodo = AtLast
    BY DEF OutputTodo
  <1>3. AtSet # <<>> /\ AtTest # <<>> /\ AtNext # <<>> /\ AtTop # <<>> /\ AtCup # <<>>
          /\ AtText # <<>> /\ AtRestore # <<>> /\ AtLast # <<>>
    BY <1>1
  <1>4. Does("set") <=> otodo = AtSet
    BY <1>2, <1>3, Heads DEF Does
  <1>5. Does("test") <=> otodo = AtTest
    BY <1>2, <1>3, Heads DEF Does
  <1>6. Does("next") <=> otodo = AtNext
    BY <1>2, <1>3, Heads DEF Does
  <1>7. Does("top") <=> otodo = AtTop
    BY <1>2, <1>3, Heads DEF Does
  <1>8. Does("send_cup") <=> otodo \in {AtCup, AtLast}
    BY <1>2, <1>3, Heads DEF Does
  <1>9. Does("send_str") <=> otodo = AtText
    BY <1>2, <1>3, Heads DEF Does
  <1>10. Does("restore") <=> otodo = AtRestore
    BY <1>2, <1>3, Heads DEF Does
  <1>11. /\ Len(otodo) \in {3, 4} <=> otodo \in {AtText, AtCup}
         /\ Len(otodo) = 1 <=> otodo = AtLast
    <2>0. /\ otodo = <<>> => Len(otodo) = 0
          /\ otodo = AtSet => Len(otodo) = 6
          /\ otodo = AtTest => Len(otodo) = 5
          /\ otodo = AtNext => Len(otodo) = 5
          /\ otodo = AtTop => Len(otodo) = 5
          /\ otodo = AtCup => Len(otodo) = 4
          /\ otodo = AtText => Len(otodo) = 3
          /\ otodo = AtRestore => Len(otodo) = 2
          /\ otodo = AtLast => Len(otodo) = 1
      BY Lengths
    <2> QED BY <1>2, <2>0
  <1> QED BY <1>4, <1>5, <1>6, <1>7, <1>8, <1>9, <1>10, <1>11

LEMMA OnlyNext ==
  ASSUME NEW o \in {AtSet, AtTest, AtNext, AtTop, AtCup, AtText, AtRestore, AtLast, <<>>}
  PROVE  o # <<>> /\ Head(o) = "next" <=> o = AtNext
  <1>1. AtNext # <<>>
    BY Lengths
  <1> QED BY <1>1, Heads

\* What output_server does next.
LEMMA OutputTurns ==
  ASSUME OutputTodo, OutputStep
  PROVE  LET w == awake_windows[target]
         IN  \/ /\ otodo = AtSet /\ otodo' = AtTest
                /\ cup' = Pos(w) /\ UNCHANGED <<awake_windows, at, pre>>
             \/ /\ otodo = AtTest
                /\ otodo' = IF w.row + 1 <= w.xh THEN AtNext ELSE AtTop
                /\ UNCHANGED <<awake_windows, cup, at, pre>>
             \/ /\ otodo \in {AtNext, AtTop} /\ otodo' = AtCup
                /\ awake_windows' = [awake_windows EXCEPT ![target] =
                     [w EXCEPT !.row = IF otodo = AtNext THEN @ + 1 ELSE w.xl, !.col = w.yl]]
                /\ UNCHANGED <<cup, at, pre>>
             \/ /\ \/ otodo = AtCup /\ otodo' = AtText
                   \/ otodo = AtLast /\ otodo' = <<>>
                /\ send_cup /\ UNCHANGED <<awake_windows, cup, pre>>
             \/ /\ otodo = AtText /\ otodo' = AtRestore
                /\ UNCHANGED <<awake_windows, cup, at, pre>>
             \/ /\ otodo = AtRestore /\ otodo' = AtLast
                /\ cup' = pre /\ pre' = Home /\ UNCHANGED <<awake_windows, at>>
  <1>1. CASE Show /\ UNCHANGED pre
    BY <1>1, Places, Tails DEF Show, send_str
  <1>2. CASE Advance /\ UNCHANGED pre
    <2>1. CASE Does("test") /\ UNCHANGED <<awake_windows, cup, at>>
      BY <1>2, <2>1, Places, Tails, Chosen DEF Advance
    <2>2. CASE Does("next") \/ Does("top")
      <3>1. otodo \in {AtNext, AtTop} /\ (Does("next") <=> otodo = AtNext)
            /\ AtNext # AtTest /\ AtTop # AtTest
        BY <2>2, Places, Heads
      <3>2. ~Does("test")
        BY <3>1, Places
      <3>3. Tail(otodo) = AtCup
        BY <3>1, Tails
      <3>4. /\ otodo' = Tail(otodo) /\ UNCHANGED <<cup, at>>
            /\ awake_windows' = [awake_windows EXCEPT ![target] =
                 [awake_windows[target] EXCEPT
                    !.row = IF Does("next") THEN @ + 1 ELSE awake_windows[target].xl,
                    !.col = awake_windows[target].yl]]
        BY <1>2, <3>2 DEF Advance
      <3> QED BY <1>2, <3>1, <3>3, <3>4
    <2> QED BY <1>2, <2>1, <2>2 DEF Advance
  <1>3. CASE Restore
    BY <1>3, Places, Tails DEF Restore
  <1> QED BY <1>1, <1>2, <1>3 DEF OutputStep

-----------------------------------------------------------------------------
(* The invariant holds.                                                    *)

LEMMA InvInit == Init => Inv
  <1> SUFFICES ASSUME Init PROVE Inv
    OBVIOUS
  <1>1. Registered
    <2>1. scene.windows \in 0..MAX_WINDOWS /\ MAX_WINDOWS \in Nat
      BY ScreenOK DEF Init
    <2>2. awake_windows \in [1..0 -> Window]
      BY DEF Init
    <2> QED BY <2>1, <2>2 DEF Init, Registered
  <1>2. Segmented
    BY DEF Init, Segmented
  <1>3. InputTodo
    BY DEF Init, InputTodo, Ordered
  <1>4. OutputTodo
    BY DEF Init, OutputTodo
  <1>5. Cursors
    BY HomeOnScreen DEF Init, Cursors
  <1>6. Keyboard
    <2>1. esc_cmd \in BOOLEAN /\ ~esc_cmd
      BY Zenon DEF Init
    <2> QED BY <2>1 DEF Init, Keyboard
  <1>7. LineInv
    BY EmptyLine, LineOK DEF Init, LineInv, NoOrder
  <1> QED BY <1>1, <1>2, <1>3, <1>4, <1>5, <1>6, <1>7 DEF Inv

\* Nothing prints before the windows are set up.
LEMMA StartingUp ==
  ASSUME OutputTodo, ~booted
  PROVE  otodo = <<>>
  BY DEF OutputTodo

\* reg_proc: a process more has a window more.
LEMMA RegProcInv ==
  ASSUME Inv, reg_proc
  PROVE  Inv' /\ ~booted'
  <1>1. ~booted /\ booted' = booted /\ otodo = <<>> /\ otodo' = <<>>
    BY StartingUp DEF reg_proc, Inv, Registered, output
  <1>2. calls \in Nat /\ calls' \in Nat /\ calls > 0 /\ scene' = scene
    BY DEF Inv, Registered, reg_proc
  <1>3. /\ \A i \in 1..ProcessNumber : awake_windows[i] = NewWindow
        /\ ProcessNumber \in Nat /\ awake_windows \in [1..ProcessNumber -> Window]
    BY <1>2 DEF Inv, Registered
  <1>4. NewWindow \in Window
    BY DEF NewWindow, Window
  <1>5. /\ ProcessNumber' \in Nat /\ awake_windows' \in [1..ProcessNumber' -> Window]
        /\ ProcessNumber' + calls' <= MAX_WINDOWS
        /\ \A i \in 1..ProcessNumber' : awake_windows'[i] = NewWindow
    <2>1. CASE UNCHANGED <<ProcessNumber, awake_windows>>
      BY <1>2, <1>3, <2>1, ScreenSize DEF reg_proc, Inv, Registered
    <2>2. CASE /\ ProcessNumber' = ProcessNumber + 1
               /\ awake_windows' = assign_window(awake_windows)
      <3> DEFINE old == awake_windows
                 n == ProcessNumber
                 new == <<NewWindow>>
      <3>1. old \in Seq({NewWindow}) /\ Len(old) = n
        BY <1>3
      <3>2. new \in Seq({NewWindow}) /\ Len(new) = 1 /\ new[1] = NewWindow
        OBVIOUS
      <3>3. calls' = calls - 1 /\ n + calls <= MAX_WINDOWS /\ MAX_WINDOWS \in Nat
        BY ScreenSize DEF reg_proc, Inv, Registered
      <3>4. awake_windows' = new \o old
        BY <1>2, <1>3, <2>2, <3>1, <3>3 DEF assign_window, asleep_windows
      <3> HIDE DEF old, new
      <3>5. new \o old \in Seq({NewWindow}) /\ Len(new \o old) = 1 + n
        <4>1. new \o old \in Seq({NewWindow}) /\ Len(new \o old) = Len(new) + Len(old)
          BY <3>1, <3>2, ConcatProperties, Zenon
        <4> QED BY <3>1, <3>2, <4>1
      <3> DEFINE r == new \o old
      <3>6. r \in Seq({NewWindow}) /\ Len(r) = n + 1
        BY <1>3, <3>5
      <3> HIDE DEF r
      <3>7. r \in [1..(n + 1) -> Window] /\ \A i \in 1..(n + 1) : r[i] = NewWindow
        BY <1>4, <3>6
      <3> QED BY <1>2, <1>3, <2>2, <3>3, <3>4, <3>7 DEF r
    <2> QED BY <2>1, <2>2 DEF reg_proc
  <1>6. ~booted'
    BY <1>1
  <1>7. Registered'
    BY <1>2, <1>4, <1>5, <1>6 DEF Inv, Registered
  <1>8. Segmented'
    BY <1>6 DEF Segmented
  <1>9. OutputTodo'
    BY <1>1 DEF OutputTodo
  <1>10. InputTodo' /\ Cursors' /\ Keyboard' /\ LineInv'
    BY DEF Inv, reg_proc, line, input, output, InputTodo, Cursors, Keyboard, LineInv
  <1> QED BY <1>6, <1>7, <1>8, <1>9, <1>10 DEF Inv

\* main: a window is its segment of the screen, and its text begins in the first line
\* below the title, if there is one.
LEMMA WindowSet ==
  ASSUME NEW n \in 0..MAX_WINDOWS, NEW i \in 1..n
  PROVE  LET s == segment(i, n) w == titled(s)
         IN  /\ w \in Window
             /\ w.xl = s.xl + 1 /\ w.xh = s.xh /\ w.yl = s.yl /\ w.yh = s.yh
             /\ w.row = (IF s.xl + 1 > s.xh THEN s.xl ELSE s.xl + 1)
             /\ w.col = w.yl /\ w.xh > 0
  <1> DEFINE s == segment(i, n)
  <1>1. s \in Window /\ s.row = s.xl /\ s.col = s.yl /\ 1 <= s.xl /\ s.xl <= s.xh
    BY SegmentBounds
  <1> HIDE DEF s
  <1> DEFINE w == titled(s)
  <1>2. /\ w \in Window /\ SameWindow(w, [s EXCEPT !.xl = s.xl + 1])
        /\ w.row = (IF s.xl + 1 > s.xh THEN s.xl ELSE s.xl + 1) /\ w.col = s.yl
    BY <1>1, TitledIs
  <1> HIDE DEF w
  <1>3. w.xl = s.xl + 1 /\ w.xh = s.xh /\ w.yl = s.yl /\ w.yh = s.yh
    BY <1>1, <1>2 DEF SameWindow, Window
  <1>4. s.xh > 0
    BY <1>1 DEF Window
  <1> QED BY <1>2, <1>3, <1>4 DEF w, s

LEMMA MainInv ==
  ASSUME Inv, main
  PROVE  /\ Inv'
         /\ \A i \in 1..ProcessNumber :
              awake_windows'[i] = titled(segment(i, ProcessNumber))
  <1> DEFINE n == ProcessNumber
  <1>1. /\ otodo = <<>> /\ otodo' = <<>> /\ calls = 0 /\ calls' = 0 /\ ProcessNumber' = n
        /\ scene' = scene /\ target' = target /\ ended' = ended /\ booted' = TRUE
    BY StartingUp DEF Inv, main, output
  <1>2. n \in 0..MAX_WINDOWS /\ awake_windows \in [1..n -> Window]
    BY <1>1, ScreenSize DEF Inv, Registered
  <1>3. /\ awake_windows' \in [1..n -> Window]
        /\ \A i \in 1..n : awake_windows'[i] = titled(segment(i, n))
    <2> DEFINE r == [i \in 1..n |-> titled(segment(i, n))]
    <2>1. awake_windows' = r
      BY <1>1, <1>2 DEF main, seg_windows
    <2>2. \A i \in 1..n : titled(segment(i, n)) \in Window
      BY <1>2, WindowSet
    <2>3. r \in [1..n -> Window]
      BY <2>2
    <2> QED BY <2>1, <2>3
  <1>4. Registered'
    BY <1>1, <1>2, <1>3 DEF Inv, Registered
  <1>5. Segmented'
    <2> SUFFICES ASSUME NEW i \in 1..n PROVE InSegment(i)'
      BY <1>1 DEF Segmented
    <2> DEFINE s == segment(i, n)
               w == awake_windows'[i]
    <2>1. /\ w \in Window /\ w.xl = s.xl + 1 /\ w.xh = s.xh /\ w.yl = s.yl /\ w.yh = s.yh
          /\ w.row = (IF s.xl + 1 > s.xh THEN s.xl ELSE s.xl + 1) /\ w.col = w.yl
      BY <1>2, <1>3, WindowSet
    <2>2. s \in Window /\ s.xl <= s.xh
      BY <1>2, SegmentBounds
    <2>3. ~(Does("next")')
      BY <1>1 DEF Does
    <2>4. s.xl <= w.row /\ w.row <= w.xh + 1
      <3> HIDE DEF s, w
      <3>1. s.xl \in Int /\ s.xh \in Int
        BY <2>2 DEF Window
      <3> QED BY <2>1, <2>2, <3>1
    <2> QED BY <1>1, <2>1, <2>3, <2>4 DEF InSegment
  <1>6. OutputTodo'
    BY <1>1 DEF OutputTodo
  <1>7. Cursors'
    BY CupSent DEF Inv, main, input, output, Cursors
  <1>8. InputTodo' /\ Keyboard' /\ LineInv'
    BY DEF Inv, main, line, input, InputTodo, Keyboard, LineInv
  <1> QED BY <1>3, <1>4, <1>5, <1>6, <1>7, <1>8 DEF Inv

\* What the start-up and the windows have to do with is left alone.
LEMMA WindowsKept ==
  ASSUME Inv, UNCHANGED <<boot, awake_windows, output, ended>>
  PROVE  Registered' /\ Segmented' /\ OutputTodo' /\ booted' = booted
  BY DEF Inv, boot, output, Registered, Segmented, InSegment, OutputTodo, Does

\* UART0_IntHandler.
LEMMA ReceiveInv ==
  ASSUME Inv, NEW c \in scene.keys, UartReceive(c)
  PROVE  Inv'
  <1>1. Registered' /\ Segmented' /\ OutputTodo'
    BY WindowsKept DEF UartReceive
  <1>2. Keyboard'
    <2>1. c \in Keys
      BY KeysAre DEF Inv, Registered
    <2>2. key' \in Keys \cup {"none"}
      BY <2>1 DEF UartReceive, Inv, Keyboard
    <2>3. esc_cmd \in BOOLEAN /\ esc_cmd_count \in 0..3 /\ (esc_cmd => esc_cmd_count \in 0..2)
      BY DEF Inv, Keyboard
    <2>4. CASE c = "ESC"
      BY <2>2, <2>4 DEF UartReceive, Keyboard
    <2>5. CASE c # "ESC" /\ esc_cmd
      <3>1. esc_cmd_count' = esc_cmd_count + 1 /\ esc_cmd' = (esc_cmd_count + 1 # 3)
        BY <2>5 DEF UartReceive
      <3>2. esc_cmd' \in BOOLEAN
        BY <3>1
      <3>3. esc_cmd_count' \in 1..3 /\ (esc_cmd_count + 1 # 3 => esc_cmd_count' \in 0..2)
        BY <2>3, <2>5, <3>1
      <3>4. esc_cmd' => esc_cmd_count + 1 # 3
        BY <3>1
      <3> QED BY <2>2, <3>2, <3>3, <3>4 DEF Keyboard
    <2>6. CASE c # "ESC" /\ ~esc_cmd
      BY <2>2, <2>3, <2>6 DEF UartReceive, Keyboard
    <2> QED BY <2>4, <2>5, <2>6
  <1>3. InputTodo' /\ Cursors' /\ LineInv'
    BY DEF Inv, UartReceive, input, output, InputTodo, Cursors, LineInv
  <1> QED BY <1>1, <1>2, <1>3 DEF Inv

\* One program after another.
LEMMA InOrder ==
  ASSUME NEW s, Ordered(s), NEW t, Ordered(t), s # <<>>, t # <<>> => t[1] # <<"write">>
  PROVE  Ordered(s \o t) /\ s \o t # <<>> /\ (s \o t)[1] = s[1]
  <1> DEFINE u == s \o t
             m == Len(s)
             n == Len(t)
  <1>1. s \in Seq(InputSteps) /\ t \in Seq(InputSteps) /\ m \in Nat /\ n \in Nat /\ m > 0
    BY DEF Ordered
  <1>2. u \in Seq(InputSteps) /\ Len(u) = m + n
    BY <1>1, ConcatProperties
  <1>3. \A k \in 1..(m + n) : u[k] = IF k <= m THEN s[k] ELSE t[k - m]
    BY <1>1, ConcatProperties, Zenon
  <1> HIDE DEF u, m, n
  <1>4. u # <<>> /\ u[1] = s[1]
    BY <1>1, <1>2, <1>3
  <1>5. ASSUME NEW k \in 2..(m + n), u[k] = <<"write">> PROVE u[k - 1][1] = "read"
    <2>1. k - 1 \in 1..(m + n) /\ k \in 1..(m + n)
      BY <1>1
    <2>2. CASE k <= m
      <3>1. k \in 2..m /\ u[k] = s[k] /\ u[k - 1] = s[k - 1]
        BY <1>1, <1>3, <2>1, <2>2
      <3> QED BY <1>5, <3>1 DEF Ordered, m
    <2>3. CASE k > m + 1
      <3>1. k - m \in 2..n /\ (k - 1) - m = (k - m) - 1
        BY <1>1, <2>3
      <3>2. u[k] = t[k - m] /\ u[k - 1] = t[(k - m) - 1]
        BY <1>1, <1>3, <2>1, <2>3, <3>1
      <3> QED BY <1>5, <3>1, <3>2 DEF Ordered, n
    <2>4. CASE k = m + 1
      <3>1. u[k] = t[1] /\ n > 0
        BY <1>1, <1>3, <2>1, <2>4
      <3>2. t # <<>>
        BY <1>1, <3>1 DEF n
      <3> QED BY <1>5, <3>1, <3>2
    <2> QED BY <1>1, <2>2, <2>3, <2>4
  <1> QED BY <1>2, <1>4, <1>5 DEF Ordered, u

\* What is left after the first step, and how it goes on.
LEMMA OneLess ==
  ASSUME NEW t, Ordered(t), t # <<>>
  PROVE  /\ Head(t) \in InputSteps /\ Head(t) = t[1] /\ Ordered(Tail(t))
         /\ Head(t)[1] # "read" /\ Tail(t) # <<>> => Tail(t)[1] # <<"write">>
  <1> DEFINE u == Tail(t)
  <1>1. t \in Seq(InputSteps) /\ Len(t) \in Nat /\ Len(t) > 0
    BY DEF Ordered
  <1>2. /\ u \in Seq(InputSteps) /\ Len(u) = Len(t) - 1
        /\ \A k \in 1..Len(u) : u[k] = t[k + 1]
    BY <1>1, HeadTailProperties
  <1>3. Head(t) \in InputSteps /\ Head(t) = t[1]
    BY <1>1
  <1> HIDE DEF u
  <1>4. ASSUME NEW k \in 2..Len(u), u[k] = <<"write">> PROVE u[k - 1][1] = "read"
    <2>1. k \in 1..Len(u) /\ k - 1 \in 1..Len(u) /\ k + 1 \in 2..Len(t)
      BY <1>1, <1>2
    <2>2. u[k] = t[k + 1] /\ u[k - 1] = t[(k - 1) + 1] /\ (k - 1) + 1 = (k + 1) - 1
      BY <1>2, <2>1
    <2> QED BY <1>4, <2>1, <2>2 DEF Ordered
  <1>5. ASSUME u # <<>>, u[1] = <<"write">> PROVE Head(t)[1] = "read"
    <2>1. Len(u) > 0
      BY <1>2, <1>5
    <2>2. 1 \in 1..Len(u) /\ 2 \in 2..Len(t) /\ u[1] = t[2]
      BY <1>1, <1>2, <2>1
    <2>3. t[2 - 1][1] = "read"
      BY <1>5, <2>2 DEF Ordered
    <2> QED BY <1>3, <2>3
  <1> QED BY <1>2, <1>3, <1>4, <1>5 DEF Ordered, u

LEMMA UpdateInOrder ==
  ASSUME NEW dline \in 0..1, NEW dcol \in Int
  PROVE  /\ Ordered(UpdateCup(dline, dcol)) /\ UpdateCup(dline, dcol) # <<>>
         /\ UpdateCup(dline, dcol)[1] = <<"read", dline, dcol>>
         /\ <<"read", dline, dcol>> # <<"write">>
  <1> DEFINE r == <<"read", dline, dcol>>
             w == <<"write">>
             u == <<r, w>>
  <1>1. r \in InputSteps /\ w \in InputSteps /\ r[1] = "read" /\ w[1] = "write"
    BY DEF InputSteps
  <1> HIDE DEF r, w
  <1>2. u \in Seq(InputSteps) /\ Len(u) = 2 /\ u[1] = r /\ u # <<>>
    BY <1>1
  <1> HIDE DEF u
  <1>3. Ordered(u)
    <2>1. \A k \in 2..2 : k - 1 = 1
      OBVIOUS
    <2> QED BY <1>1, <1>2, <2>1 DEF Ordered
  <1> QED BY <1>1, <1>2, <1>3 DEF UpdateCup, u, r, w

\* The cursor is sent, the line is cleaned, and the cursor is sent again.
LEMMA CleanInOrder ==
  /\ Ordered(<< <<"send_cup">> >>)
  /\ Ordered(<< <<"clean_input">>, <<"send_cup">> >>)
  /\ << <<"send_cup">> >>[1] # <<"write">>
  /\ << <<"clean_input">>, <<"send_cup">> >>[1] # <<"write">>
  <1> DEFINE a == <<"send_cup">>
             b == <<"clean_input">>
             w == <<"write">>
             u == <<a>>
             v == <<b, a>>
  <1>1. a \in InputSteps /\ b \in InputSteps /\ a[1] = "send_cup" /\ b[1] = "clean_input"
          /\ w[1] = "write"
    BY DEF InputSteps
  <1> HIDE DEF a, b, w
  <1>2. u \in Seq(InputSteps) /\ Len(u) = 1 /\ u[1] = a
    BY <1>1
  <1>3. v \in Seq(InputSteps) /\ Len(v) = 2 /\ v[1] = b /\ v[2] = a
    BY <1>1
  <1> HIDE DEF u, v
  <1>4. Ordered(u)
    BY <1>2 DEF Ordered
  <1>5. Ordered(v)
    <2>1. a # w
      BY <1>1
    <2>2. \A k \in 2..2 : k = 2
      OBVIOUS
    <2>3. \A k \in 2..Len(v) : v[k] = w => v[k - 1][1] = "read"
      BY <1>3, <2>1, <2>2
    <2> QED BY <1>3, <2>3 DEF Ordered, w
  <1>6. a # w /\ b # w
    BY <1>1
  <1> QED BY <1>2, <1>3, <1>4, <1>5, <1>6 DEF u, v, a, b, w

\* decode_cmd.
LEMMA DecodeInv ==
  ASSUME Inv, decode_cmd
  PROVE  Inv' /\ (itodo' # <<>> => itodo'[1] # <<"write">>)
  <1>1. Registered' /\ Segmented' /\ OutputTodo'
    BY WindowsKept DEF decode_cmd
  <1>2. cup \in OnScreen /\ -cup.c \in Int
    BY DEF Inv, Cursors, OnScreen
  <1>3. InputTodo' /\ (itodo' # <<>> => itodo'[1] # <<"write">>)
    <2>1. ASSUME NEW a \in 0..1, NEW b \in Int, itodo' = UpdateCup(a, b)
          PROVE  Ordered(itodo') /\ itodo'[1] # <<"write">>
      BY <2>1, UpdateInOrder, Zenon
    <2>2. CASE key = "ENTER"
      <3> DEFINE u == UpdateCup(1, -cup.c)
                 v == << <<"send_cup">> >>
                 w == << <<"clean_input">>, <<"send_cup">> >>
      <3>0. key # "BACKSPACE" /\ key # TAB
        BY <2>2 DEF TAB
      <3>1. itodo' = u \o v \o w
        BY <2>2, <3>0, Zenon DEF decode_cmd
      <3>2. 1 \in 0..1
        OBVIOUS
      <3>3. Ordered(u) /\ u # <<>> /\ u[1] # <<"write">>
        BY <1>2, <3>2, UpdateInOrder, Zenon
      <3>4. Ordered(v) /\ Ordered(w) /\ v[1] # <<"write">> /\ w[1] # <<"write">>
        BY CleanInOrder
      <3> HIDE DEF u, v, w
      <3>5. Ordered(u \o v) /\ u \o v # <<>> /\ (u \o v)[1] = u[1]
        BY <3>3, <3>4, InOrder
      <3>6. Ordered(u \o v \o w) /\ (u \o v \o w)[1] = u[1]
        BY <3>4, <3>5, InOrder
      <3> QED BY <3>1, <3>3, <3>6 DEF InputTodo
    <2>3. CASE key # "ENTER"
      <3>1. 0 \in 0..1 /\ 1 \in Int /\ 4 \in Int /\ -1 \in Int
        OBVIOUS
      <3>2. itodo = <<>>
        BY DEF decode_cmd
      <3>3. \/ itodo' = UpdateCup(0, -1) \/ itodo' = UpdateCup(0, 4)
            \/ itodo' = UpdateCup(0, 1) \/ itodo' = itodo
        BY <2>3 DEF decode_cmd
      <3>4. itodo' = itodo => Ordered(itodo')
        BY DEF Inv, InputTodo
      <3> QED BY <2>1, <3>1, <3>2, <3>3, <3>4 DEF InputTodo
    <2> QED BY <2>2, <2>3
  <1>4. Keyboard'
    BY DEF Inv, decode_cmd, Keyboard
  <1>5. LineOf(str)'
    <2>1. LineOf(str) /\ key \in Keys
      BY DEF Inv, LineInv, Keyboard, decode_cmd
    <2>2. \/ str' = remove_char(str) \/ str' = reset_str(str)
          \/ str' = add_char(str, key) \/ str' = str
      BY DEF decode_cmd
    <2> QED BY <2>1, <2>2, CharAdded, CharRemoved, LineReset
  <1>6. order'.pid \in (-3)..MAX_PID
    <2>1. CASE key = "ENTER"
      <3>1. PICK b \in Beyond : order' \in get_cmd(CString(str, b))
        BY <2>1 DEF decode_cmd
      <3> HIDE DEF get_cmd, CString
      <3> QED BY <3>1, PidBounds, LineOK
    <2>2. CASE key # "ENTER"
      BY <2>2, LineOK DEF decode_cmd, NoOrder
    <2> QED BY <2>1, <2>2
  <1>7. LineInv'
    BY <1>5, <1>6 DEF LineInv
  <1>8. Cursors'
    BY DEF Inv, decode_cmd, output, Cursors
  <1> QED BY <1>1, <1>3, <1>4, <1>7, <1>8 DEF Inv

\* A step of input_server: a new cup is computed, written or sent.
LEMMA InputTurns ==
  ASSUME Inv, InputStep
  PROVE  /\ InputTodo'
         /\ \/ UNCHANGED <<itmp, cup, at>> /\ itodo'[1] # <<"write">>
            \/ /\ itmp' \in OnScreen /\ (cup.l = MAX_LINE => itmp'.l = MAX_LINE)
               /\ UNCHANGED <<cup, at>>
            \/ /\ Head(itodo) = <<"write">> /\ cup' = itmp /\ itmp' = Home /\ UNCHANGED at
               /\ itodo' # <<>> => itodo'[1] # <<"write">>
            \/ /\ at' = cup /\ UNCHANGED <<itmp, cup>>
               /\ itodo' # <<>> => itodo'[1] # <<"write">>
  <1> DEFINE step == Head(itodo)
  <1>1. /\ Ordered(itodo) /\ itodo # <<>> /\ step \in InputSteps /\ Ordered(Tail(itodo))
        /\ step[1] # "read" /\ Tail(itodo) # <<>> => Tail(itodo)[1] # <<"write">>
    BY OneLess DEF Inv, InputTodo, InputStep
  <1>2. cup \in OnScreen /\ -cup.c \in Int
    BY DEF Inv, Cursors, OnScreen
  <1> HIDE DEF step
  <1>3. CASE /\ step[1] = "clean_input"
             /\ itodo' = UpdateCup(0, -cup.c) \o Tail(itodo)
             /\ UNCHANGED <<itmp, cup, at>>
    <2> DEFINE u == UpdateCup(0, -cup.c)
               v == Tail(itodo)
    <2>1. 0 \in 0..1
      OBVIOUS
    <2>2. Ordered(u) /\ u # <<>> /\ u[1] # <<"write">>
      BY <1>2, <2>1, UpdateInOrder, Zenon
    <2>3. Ordered(v) /\ (v # <<>> => v[1] # <<"write">>)
      BY <1>1, <1>3
    <2> HIDE DEF u, v
    <2>4. Ordered(u \o v) /\ (u \o v)[1] = u[1]
      BY <2>2, <2>3, InOrder
    <2> QED BY <1>3, <2>2, <2>4 DEF u, v, InputTodo
  <1>4. CASE step[1] # "clean_input" /\ itodo' = Tail(itodo)
    <2>1. CASE step[1] = "read" /\ itmp' = update_cup(cup, step[2], step[3])
                 /\ UNCHANGED <<cup, at>>
      <3>1. PICK a \in 0..1, b \in Int : step = <<"read", a, b>>
        <4>1. <<"write">>[1] # "read" /\ <<"send_cup">>[1] # "read"
                /\ <<"clean_input">>[1] # "read"
          OBVIOUS
        <4> QED BY <1>1, <2>1, <4>1 DEF InputSteps
      <3>2. step[2] = a /\ step[3] = b
        BY <3>1
      <3>3. itmp' \in OnScreen /\ (cup.l = MAX_LINE => itmp'.l = MAX_LINE)
        BY <1>2, <2>1, <3>2, UpdatedOnScreen
      <3> QED BY <1>1, <1>4, <2>1, <3>3 DEF InputTodo
    <2>2. CASE step[1] = "write" /\ cup' = itmp /\ itmp' = Home /\ UNCHANGED at
      <3>1. step = <<"write">>
        <4>1. <<"send_cup">>[1] # "write" /\ <<"clean_input">>[1] # "write"
          OBVIOUS
        <4>2. \A a \in 0..1, b \in Int : <<"read", a, b>>[1] # "write"
          OBVIOUS
        <4> QED BY <1>1, <2>2, <4>1, <4>2 DEF InputSteps
      <3>2. step[1] # "read"
        BY <2>2
      <3> QED BY <1>1, <1>4, <2>2, <3>1, <3>2 DEF InputTodo, step
    <2>3. CASE step[1] = "send_cup" /\ send_cup /\ UNCHANGED <<itmp, cup>>
      <3>1. step[1] # "read" /\ at' = cup
        BY <1>2, <2>3, CupSent
      <3> QED BY <1>1, <1>4, <2>3, <3>1 DEF InputTodo
    <2> QED BY <1>4, <2>1, <2>2, <2>3 DEF InputStep, step
  <1> QED BY <1>3, <1>4 DEF InputStep, step

LEMMA InputInv ==
  ASSUME Inv, InputStep
  PROVE  Inv'
  <1>1. Registered' /\ Segmented' /\ OutputTodo'
    BY WindowsKept DEF InputStep
  <1>2. InputTodo'
    BY InputTurns
  <1>3. Cursors'
    BY InputTurns, HomeOnScreen DEF Inv, Cursors, InputStep, output
  <1>4. Keyboard' /\ LineInv'
    BY DEF Inv, InputStep, line, Keyboard, LineInv
  <1> QED BY <1>1, <1>2, <1>3, <1>4 DEF Inv

\* output_server begins.
LEMMA SendInv ==
  ASSUME Inv, NEW w \in DOMAIN awake_windows, send_to_window(w)
  PROVE  Inv' /\ otodo' = AtSet
  <1>1. /\ otodo' = AtSet /\ target' = w /\ w \in 1..ProcessNumber /\ booted
        /\ pre' = cup
    BY DEF Inv, Registered, send_to_window, AtSet
  <1>2. booted' /\ ProcessNumber' = ProcessNumber
    BY <1>1 DEF send_to_window, boot
  <1>3. Registered'
    BY DEF Inv, Registered, send_to_window, boot
  <1>4. ~(Does("next")')
    BY <1>1, Heads DEF Does
  <1>5. Segmented'
    BY <1>1, <1>2, <1>4 DEF Inv, Segmented, InSegment, send_to_window
  <1>6. OutputTodo'
    BY <1>1, <1>2 DEF OutputTodo
  <1>7. Cursors'
    BY <1>1 DEF Inv, Cursors, send_to_window, input
  <1>8. InputTodo' /\ Keyboard' /\ LineInv'
    BY DEF Inv, send_to_window, input, line, InputTodo, Keyboard, LineInv
  <1> QED BY <1>1, <1>3, <1>5, <1>6, <1>7, <1>8 DEF Inv

\* A window in its segment, from which a text is printed.
LEMMA PrintedWhere ==
  ASSUME NEW w \in Window, NEW new_line \in BOOLEAN
  PROVE  LET v == advance(w, new_line, 1)
         IN  /\ v \in Window /\ SameWindow(v, w)
             /\ v.row = (IF w.row + 1 > w.xh THEN w.xl
                         ELSE IF new_line THEN w.row + 1 ELSE w.row)
             /\ v.col = (IF new_line THEN w.yl
                         ELSE IF w.row + 1 > w.xh THEN w.col ELSE w.col + 1)
  <1>1. 1 \in Int
    OBVIOUS
  <1>2. CASE new_line
    <2>1. advance(w, new_line, 1) = advance(w, TRUE, 1)
      BY <1>2
    <2> HIDE DEF advance
    <2> QED BY <1>2, <2>1, AdvanceLine
  <1>3. CASE ~new_line
    <2>1. advance(w, new_line, 1) = advance(w, FALSE, 1)
      BY <1>3
    <2> DEFINE v == advance(w, FALSE, 1)
    <2>2. /\ v \in Window /\ SameWindow(v, w)
          /\ v.row = (IF w.row + 1 > w.xh THEN w.xl ELSE w.row)
          /\ v.col = (IF w.row + 1 > w.xh THEN w.col ELSE w.col + 1)
      BY <1>1, AdvanceText, Zenon
    <2> HIDE DEF v
    <2>3. advance(w, new_line, 1) = v
      BY <2>1 DEF v
    <2> QED BY <1>3, <2>2, <2>3
  <1> QED BY <1>2, <1>3

LEMMA PrintInv ==
  ASSUME Inv, NEW w \in DOMAIN awake_windows, NEW new_line \in BOOLEAN,
         KernelPrint(w, new_line)
  PROVE  Inv'
  <1> DEFINE n == ProcessNumber
             old == awake_windows[w]
             new == advance(old, new_line, 1)
  <1>1. /\ booted /\ w \in 1..n /\ n \in 0..MAX_WINDOWS /\ awake_windows \in [1..n -> Window]
        /\ calls' = 0 /\ calls = 0
    BY ScreenSize DEF Inv, Registered, KernelPrint, boot
  <1>2. awake_windows' = [awake_windows EXCEPT ![w] = new]
    BY DEF KernelPrint
  <1>3. /\ n' = n /\ scene' = scene /\ w \notin ended /\ target' = target /\ otodo' = otodo
        /\ ended' = IF new_line THEN ended ELSE ended \cup {w}
    BY DEF KernelPrint, boot, output
  <1>4. /\ old \in Window /\ new \in Window /\ SameWindow(new, old)
        /\ new.row = (IF old.row + 1 > old.xh THEN old.xl
                      ELSE IF new_line THEN old.row + 1 ELSE old.row)
        /\ new.col = (IF new_line THEN old.yl
                      ELSE IF old.row + 1 > old.xh THEN old.col ELSE old.col + 1)
    BY <1>1, PrintedWhere
  <1> HIDE DEF new
  <1>5. /\ awake_windows' \in [1..n -> Window] /\ awake_windows'[w] = new
        /\ \A i \in 1..n : i # w => awake_windows'[i] = awake_windows[i]
    BY <1>1, <1>2, <1>4
  <1>7. booted' /\ booted' = booted
    BY <1>1 DEF KernelPrint, boot
  <1>6. Registered'
    BY <1>1, <1>3, <1>5, <1>7 DEF Inv, Registered
  <1>8. Segmented'
    <2> SUFFICES ASSUME NEW i \in 1..n PROVE InSegment(i)'
      BY <1>3 DEF Segmented
    <2>1. InSegment(i)
      BY <1>1 DEF Inv, Segmented
    <2>2. Does("next")' = Does("next")
      BY <1>3 DEF Does
    <2>3. CASE i # w
      BY <1>3, <1>5, <2>1, <2>2, <2>3 DEF InSegment
    <2>4. CASE i = w
      <3> DEFINE s == segment(w, n)
                 next == w = target /\ Does("next")
      <3>1. /\ old.xl = s.xl + 1 /\ old.xh = s.xh /\ old.yl = s.yl /\ old.yh = s.yh
            /\ s.xl <= old.row /\ old.row <= old.xh + 1
            /\ next => old.row <= old.xh /\ old.xl <= old.xh
            /\ old.col = old.yl
        BY <1>3, <2>1, <2>4 DEF InSegment
      <3>2. s \in Window /\ s.xl <= s.xh
        BY <1>1, SegmentBounds
      <3> HIDE DEF s, next, old
      <3>3. /\ old.row \in Int /\ old.xh \in Int /\ old.xl \in Int /\ s.xl \in Int
        BY <1>4, <3>2 DEF Window
      <3>4. /\ s.xl <= new.row /\ new.row <= old.xh + 1
            /\ next => new.row <= old.xh
        BY <1>4, <3>1, <3>2, <3>3
      <3>5. new.col = old.yl \/ (~new_line /\ new.col = old.yl + 1)
        BY <1>4, <3>1
      <3>6. new.xl = old.xl /\ new.xh = old.xh /\ new.yl = old.yl /\ new.yh = old.yh
        BY <1>4 DEF SameWindow
      <3>7. ~new_line => w \in ended'
        BY <1>3
      <3> QED BY <1>3, <1>5, <2>2, <2>4, <3>1, <3>4, <3>5, <3>6, <3>7 DEF InSegment, s, next
    <2> QED BY <2>3, <2>4
  <1>9. OutputTodo'
    BY <1>3, <1>7 DEF Inv, OutputTodo
  <1>10. Cursors'
    BY CupSent DEF Inv, Cursors, KernelPrint, input, output
  <1>11. InputTodo' /\ Keyboard' /\ LineInv'
    BY DEF Inv, KernelPrint, input, line, InputTodo, Keyboard, LineInv
  <1> QED BY <1>6, <1>8, <1>9, <1>10, <1>11 DEF Inv

LEMMA OutputInv ==
  ASSUME Inv, OutputStep
  PROVE  Inv'
  <1> DEFINE n == ProcessNumber
             w == awake_windows[target]
             v == [w EXCEPT !.row = IF otodo = AtNext THEN w.row + 1 ELSE w.xl, !.col = w.yl]
  <1>1. otodo # <<>>
    BY DEF OutputStep, Show, Advance, Restore, Does
  <1>2. /\ booted /\ target \in 1..n /\ n \in 0..MAX_WINDOWS
        /\ awake_windows \in [1..n -> Window] /\ OutputTodo
    BY <1>1, ScreenSize DEF Inv, Registered, OutputTodo
  <1>3. n' = n /\ scene' = scene /\ calls' = calls /\ target' = target /\ ended' = ended
    BY DEF OutputStep, boot
  <1>4. /\ otodo' \in {AtTest, AtNext, AtTop, AtCup, AtText, AtRestore, AtLast, <<>>}
        /\ cup' \in OnScreen /\ at' \in OnScreen /\ pre' \in OnScreen
        /\ otodo' = AtNext => otodo = AtTest /\ w.row + 1 <= w.xh
        /\ \/ awake_windows' = awake_windows
           \/ /\ otodo \in {AtNext, AtTop} /\ otodo' = AtCup
              /\ awake_windows' = [awake_windows EXCEPT ![target] = v]
    <2>0. cup \in OnScreen /\ at \in OnScreen /\ pre \in OnScreen /\ Pos(w) \in OnScreen
      BY <1>2, NextOnScreen DEF Inv, Cursors
    <2>1. /\ AtCup # AtNext /\ AtText # AtNext /\ AtRestore # AtNext /\ AtLast # AtNext
          /\ AtTop # AtNext /\ AtTest # AtNext /\ <<>> # AtNext
      BY Heads, Lengths
    <2> HIDE DEF v
    <2>2. CASE otodo = AtSet /\ otodo' = AtTest /\ cup' = Pos(w)
                 /\ UNCHANGED <<awake_windows, at, pre>>
      BY <2>0, <2>1, <2>2
    <2>3. CASE /\ otodo = AtTest
               /\ otodo' = IF w.row + 1 <= w.xh THEN AtNext ELSE AtTop
               /\ UNCHANGED <<awake_windows, cup, at, pre>>
      BY <2>0, <2>1, <2>3
    <2>4. CASE /\ otodo \in {AtNext, AtTop} /\ otodo' = AtCup
               /\ awake_windows' = [awake_windows EXCEPT ![target] = v]
               /\ UNCHANGED <<cup, at, pre>>
      BY <2>0, <2>1, <2>4
    <2>5. CASE /\ \/ otodo = AtCup /\ otodo' = AtText
                  \/ otodo = AtLast /\ otodo' = <<>>
               /\ send_cup /\ UNCHANGED <<awake_windows, cup, pre>>
      BY <2>0, <2>1, <2>5, CupSent
    <2>6. CASE otodo = AtText /\ otodo' = AtRestore
                 /\ UNCHANGED <<awake_windows, cup, at, pre>>
      BY <2>0, <2>1, <2>6
    <2>7. CASE otodo = AtRestore /\ otodo' = AtLast
                 /\ cup' = pre /\ pre' = Home /\ UNCHANGED <<awake_windows, at>>
      BY <2>0, <2>1, <2>7, HomeOnScreen
    <2> QED BY <1>2, <2>2, <2>3, <2>4, <2>5, <2>6, <2>7, OutputTurns DEF v
  <1>5. /\ w \in Window /\ v \in Window /\ SameWindow(v, w) /\ v.col = w.yl
        /\ v.row = IF otodo = AtNext THEN w.row + 1 ELSE w.xl
    <2>1. w \in Window
      BY <1>2
    <2> DEFINE r == IF otodo = AtNext THEN w.row + 1 ELSE w.xl
    <2>2. r \in Int
      BY <2>1 DEF Window
    <2>3. v = [w EXCEPT !.row = r, !.col = w.yl]
      OBVIOUS
    <2> HIDE DEF r, v, w
    <2>4. v \in Window /\ SameWindow(v, w) /\ v.col = w.yl /\ v.row = r
      BY <2>1, <2>2, <2>3 DEF Window, SameWindow
    <2> QED BY <2>1, <2>4 DEF r
  <1> HIDE DEF v
  <1>6. /\ awake_windows' \in [1..n -> Window]
        /\ \A i \in 1..n : i # target => awake_windows'[i] = awake_windows[i]
        /\ \/ awake_windows'[target] = w
           \/ awake_windows'[target] = v /\ otodo \in {AtNext, AtTop} /\ otodo' = AtCup
        /\ \A i \in 1..n : SameWindow(awake_windows'[i], awake_windows[i])
    <2>1. CASE awake_windows' = awake_windows
      BY <1>2, <2>1 DEF SameWindow
    <2>2. CASE /\ otodo \in {AtNext, AtTop} /\ otodo' = AtCup
               /\ awake_windows' = [awake_windows EXCEPT ![target] = v]
      <3>1. awake_windows' \in [1..n -> Window]
        BY <1>2, <1>5, <2>2
      <3>2. \A i \in 1..n : i # target => awake_windows'[i] = awake_windows[i]
        BY <1>2, <2>2
      <3>3. awake_windows'[target] = v
        BY <1>2, <2>2
      <3>4. \A i \in 1..n : SameWindow(awake_windows'[i], awake_windows[i])
        BY <1>5, <3>2, <3>3 DEF SameWindow
      <3> QED BY <2>2, <3>1, <3>2, <3>3, <3>4
    <2> QED BY <1>4, <2>1, <2>2
  <1>8. booted' /\ booted' = booted
    BY <1>2 DEF OutputStep, boot
  <1>7. Registered'
    BY <1>2, <1>3, <1>6, <1>8 DEF Inv, Registered
  <1>9. OutputTodo'
    BY <1>2, <1>3, <1>4, <1>8 DEF OutputTodo
  <1>10. Segmented'
    <2> SUFFICES ASSUME NEW i \in 1..n PROVE InSegment(i)'
      BY <1>3 DEF Segmented
    <2>1. InSegment(i)
      BY <1>2 DEF Inv, Segmented
    <2>2. Does("next")' <=> otodo' = AtNext
      <3>1. otodo' \in {AtSet, AtTest, AtNext, AtTop, AtCup, AtText, AtRestore, AtLast, <<>>}
        BY <1>4
      <3> QED BY <3>1, OnlyNext DEF Does
    <2>3. Does("next") <=> otodo = AtNext
      BY <1>2, Places
    <2>4. CASE i # target
      BY <1>3, <1>6, <2>1, <2>4 DEF InSegment
    <2>5. CASE i = target
      <3> DEFINE s == segment(target, n)
                 u == awake_windows'[target]
      <3>1. /\ w.xl = s.xl + 1 /\ w.xh = s.xh /\ w.yl = s.yl /\ w.yh = s.yh
            /\ s.xl <= w.row /\ w.row <= w.xh + 1
            /\ otodo = AtNext => w.row <= w.xh /\ w.xl <= w.xh
            /\ w.col = w.yl \/ (target \in ended /\ w.col = w.yl + 1)
        BY <2>1, <2>3, <2>5 DEF InSegment
      <3>2. s \in Window /\ s.xl <= s.xh
        BY <1>2, SegmentBounds
      <3>3. u.xl = w.xl /\ u.xh = w.xh /\ u.yl = w.yl /\ u.yh = w.yh
        BY <1>2, <1>6 DEF SameWindow
      <3>4. u = w \/ (u = v /\ otodo' = AtCup)
        BY <1>6
      <3>5. AtCup # AtNext
        BY Heads
      <3> HIDE DEF s, u, w
      <3>6. w.row \in Int /\ w.xh \in Int /\ w.xl \in Int /\ s.xl \in Int /\ w.yl \in Int
        BY <1>5, <3>2 DEF Window
      <3>7. /\ s.xl <= u.row /\ u.row <= w.xh + 1
            /\ u.col = w.yl \/ (target \in ended /\ u.col = w.yl + 1)
        <4>1. CASE u = w
          BY <3>1, <4>1
        <4>2. CASE u = v
          BY <1>5, <3>1, <3>2, <3>6, <4>2
        <4> QED BY <3>4, <4>1, <4>2
      <3>8. otodo' = AtNext => u.row <= w.xh /\ w.xl <= w.xh
        BY <1>4, <3>1, <3>4, <3>5, <3>6
      <3> QED BY <1>3, <2>2, <2>5, <3>1, <3>3, <3>7, <3>8 DEF InSegment, s, u
    <2> QED BY <2>4, <2>5
  <1>11. Cursors'
    BY <1>4 DEF Inv, Cursors, OutputStep, input
  <1>12. InputTodo' /\ Keyboard' /\ LineInv'
    BY DEF Inv, OutputStep, input, line, InputTodo, Keyboard, LineInv
  <1> QED BY <1>7, <1>9, <1>10, <1>11, <1>12 DEF Inv

LEMMA StutterInv ==
  ASSUME Inv, UNCHANGED vars
  PROVE  Inv'
  BY DEF Inv, vars, boot, line, input, output, Registered, Segmented, InSegment, InputTodo,
         OutputTodo, Does, Cursors, Keyboard, LineInv

LEMMA InvHolds == Spec => []Inv
  <1>1. Inv /\ [Next]_vars => Inv'
    BY RegProcInv, MainInv, ReceiveInv, DecodeInv, InputInv, SendInv, PrintInv, OutputInv,
       StutterInv DEF Next
  <1> QED BY InvInit, <1>1, PTL DEF Spec

\* Types, for every size of the screen and of the line, and every scene.  Whoever
\* interrupts whom, the cursor and every window's next text are on the screen.
THEOREM ConsoleTyped == Spec => []TypeOK
  <1>1. ASSUME Inv PROVE TypeOK
    <2>1. /\ calls \in 0..MAX_WINDOWS /\ ProcessNumber \in 0..MAX_WINDOWS
          /\ awake_windows \in [1..ProcessNumber -> Window]
      BY <1>1, ScreenSize DEF Inv, Registered
    <2>2. Len(awake_windows) = ProcessNumber /\ DOMAIN awake_windows = 1..ProcessNumber
      <3>1. awake_windows \in Seq(Window)
        BY <2>1
      <3> QED BY <2>1, <3>1
    <2>3. booted => \A i \in DOMAIN awake_windows : Pos(awake_windows[i]) \in OnScreen
      BY <1>1, <2>2, NextOnScreen DEF Inv
    <2>4. str \in String_t(UNION {s.keys : s \in Scenes}) /\ order.pid \in (-3)..MAX_PID
      BY <1>1 DEF Inv, LineInv, LineOf, Keys
    <2> QED BY <1>1, <2>1, <2>2, <2>3, <2>4 DEF TypeOK, Inv, Cursors, Keyboard
  <1> QED BY InvHolds, <1>1, PTL

\* The windows of any number of processes are on the screen, apart from each other and
\* from the line of the input, as long as every window has two rows.
THEOREM WindowsStayApart == Spec => []WindowsApart
  <1>1. ASSUME Inv PROVE WindowsApart
    <2> DEFINE n == ProcessNumber
    <2> SUFFICES ASSUME Fit, NEW i \in 1..n, NEW j \in 1..n
                 PROVE  LET v == awake_windows[i] w == awake_windows[j]
                        IN  /\ 2 <= v.xl /\ v.xl <= v.xh /\ v.xh < MAX_LINE
                            /\ 1 <= v.yl /\ v.yh <= MAX_COL
                            /\ i # j => \/ v.xh < w.xl - 1 \/ w.xh < v.xl - 1
                                        \/ v.yh < w.yl \/ w.yh < v.yl
      BY <1>1 DEF WindowsApart, Inv, Registered
    <2> DEFINE v == awake_windows[i]
               w == awake_windows[j]
               s == segment(i, n)
               t == segment(j, n)
    <2>1. n \in 0..MAX_WINDOWS
      BY <1>1, ScreenSize DEF Inv, Registered
    <2>2. /\ v.xl = s.xl + 1 /\ v.xh = s.xh /\ v.yl = s.yl /\ v.yh = s.yh
          /\ w.xl = t.xl + 1 /\ w.xh = t.xh /\ w.yl = t.yl /\ w.yh = t.yh
      BY <1>1 DEF Fit, Inv, Segmented, InSegment
    <2>3. /\ s \in Window /\ t \in Window
          /\ 1 <= s.xl /\ s.xl + 1 <= s.xh /\ s.xh < MAX_LINE
          /\ 1 <= s.yl /\ s.yh <= MAX_COL
      BY <2>1, SegmentBounds DEF Fit
    <2>4. i # j => s.xh < t.xl \/ t.xh < s.xl \/ s.yh < t.yl \/ t.yh < s.yl
      BY <2>1, SegmentsApart
    <2> HIDE DEF s, t, v, w
    <2>5. s.xl \in Int /\ s.xh \in Int /\ t.xl \in Int /\ t.xh \in Int
      BY <2>3 DEF Window
    <2>6. /\ 2 <= v.xl /\ v.xl <= v.xh /\ v.xh < MAX_LINE /\ 1 <= v.yl /\ v.yh <= MAX_COL
          /\ w.xl - 1 = t.xl /\ v.xl - 1 = s.xl
      BY <2>2, <2>3, <2>5
    <2> QED BY <2>2, <2>4, <2>6 DEF v, w
  <1> QED BY InvHolds, <1>1, PTL

-----------------------------------------------------------------------------
(* Text is lost in one way only.                                           *)

TextsFit == Fit => \A i \in DOMAIN awake_windows : InWindow(Pos(awake_windows[i]), awake_windows[i])

\* InPlace, by the places of send_to_window.
PlacedAt ==
  LET w == awake_windows[target]
  IN  /\ otodo \in {<<>>, AtLast} => cup.l = MAX_LINE
      /\ otodo # <<>> => pre.l = MAX_LINE
      /\ otodo \in {AtTest, AtNext, AtTop} => cup = Pos(w)
      /\ otodo = AtNext => w.row + 1 <= w.xh
      /\ Fit /\ otodo \in {AtCup, AtText} => InWindow(cup, w)
      /\ otodo = AtText => at = cup
      /\ itodo # <<>> /\ Head(itodo) = <<"write">> => itmp.l = MAX_LINE
      /\ TextsFit

LEMMA InPlaceIs == OutputTodo => (InPlace <=> PlacedAt)
  <1> SUFFICES ASSUME OutputTodo PROVE InPlace <=> PlacedAt
    OBVIOUS
  <1>1. AtTest # <<>> /\ AtNext # <<>> /\ AtTop # <<>> /\ AtCup # <<>> /\ AtText # <<>>
          /\ AtLast # <<>>
    BY NotDone
  <1> QED BY <1>1, Places DEF InPlace, PlacedAt, TextsFit

LEMMA InPlaceThen == (OutputTodo => (InPlace <=> PlacedAt))'
  BY InPlaceIs, PTL

\* What does not touch the windows leaves the texts in them.
LEMMA TextsKept ==
  ASSUME UNCHANGED <<boot, awake_windows>>
  PROVE  TextsFit' = TextsFit /\ Fit' = Fit
  BY DEF boot, TextsFit, Fit

LEMMA RegProcPlaced ==
  ASSUME Inv, PlacedAt, reg_proc
  PROVE  PlacedAt'
  <1>1. otodo = <<>> /\ otodo' = <<>>
    BY StartingUp DEF reg_proc, Inv, Registered, output
  <1>2. TextsFit'
    BY RegProcInv DEF TextsFit, Fit
  <1>3. AtTest # <<>> /\ AtNext # <<>> /\ AtTop # <<>> /\ AtCup # <<>> /\ AtText # <<>>
    BY NotDone
  <1> QED BY <1>1, <1>2, <1>3 DEF PlacedAt, reg_proc, input

LEMMA MainPlaced ==
  ASSUME Inv, PlacedAt, main
  PROVE  PlacedAt'
  <1> DEFINE n == ProcessNumber
  <1>1. otodo = <<>> /\ otodo' = <<>> /\ n' = n
    BY StartingUp DEF main, Inv, output
  <1>2. TextsFit'
    <2> SUFFICES ASSUME Fit', NEW i \in DOMAIN awake_windows'
                 PROVE  InWindow(Pos(awake_windows'[i]), awake_windows'[i])
      BY DEF TextsFit
    <2> DEFINE s == segment(i, n)
               w == awake_windows'[i]
    <2>1. n \in 0..MAX_WINDOWS /\ i \in 1..n /\ w = titled(s)
      BY <1>1, MainInv, ScreenSize DEF Inv, Registered
    <2>2. /\ w \in Window /\ w.xl = s.xl + 1 /\ w.xh = s.xh /\ w.yl = s.yl /\ w.yh = s.yh
          /\ w.row = (IF s.xl + 1 > s.xh THEN s.xl ELSE s.xl + 1) /\ w.col = w.yl
      BY <2>1, WindowSet
    <2>3. s \in Window /\ s.xl + 1 <= s.xh /\ s.yl + 1 <= s.yh
      BY <1>1, <2>1, SegmentBounds DEF Fit
    <2> HIDE DEF s, w
    <2>4. s.xl \in Int /\ s.xh \in Int /\ s.yl \in Int /\ s.yh \in Int
      BY <2>3 DEF Window
    <2>5. InWindow(Pos(w), w)
      BY <2>2, <2>3, <2>4 DEF InWindow, Pos
    <2> QED BY <2>5 DEF w
  <1>3. AtTest # <<>> /\ AtNext # <<>> /\ AtTop # <<>> /\ AtCup # <<>> /\ AtText # <<>>
    BY NotDone
  <1> QED BY <1>1, <1>2, <1>3 DEF PlacedAt, main, input

LEMMA ReceivePlaced ==
  ASSUME PlacedAt, NEW c, UartReceive(c)
  PROVE  PlacedAt'
  BY TextsKept DEF PlacedAt, UartReceive, input, output

LEMMA DecodePlaced ==
  ASSUME Inv, PlacedAt, decode_cmd
  PROVE  PlacedAt'
  <1>1. itodo' # <<>> => Head(itodo') # <<"write">>
    <2>1. itodo' # <<>> => itodo'[1] # <<"write">> /\ itodo' \in Seq(InputSteps)
      BY DecodeInv DEF Inv, InputTodo, Ordered
    <2> QED BY <2>1
  <1>2. UNCHANGED <<boot, awake_windows, cup, at, itmp, output>>
    BY DEF decode_cmd
  <1> QED BY <1>1, <1>2, TextsKept DEF PlacedAt, output

\* input_server can spoil output_server's cursor, but then output_server has been
\* interrupted.
LEMMA InputPlaced ==
  ASSUME Inv, PlacedAt, InputStep, otodo = <<>>
  PROVE  PlacedAt'
  <1>1. cup.l = MAX_LINE /\ otodo' = <<>>
    BY DEF PlacedAt, InputStep, output
  <1>2. /\ cup'.l = MAX_LINE
        /\ itodo' # <<>> /\ Head(itodo') = <<"write">> => itmp'.l = MAX_LINE
    <2>1. itodo' # <<>> => Head(itodo') = itodo'[1]
      <3>1. itodo' \in Seq(InputSteps)
        BY InputInv DEF Inv, InputTodo, Ordered
      <3> QED BY <3>1
    <2>2. itodo # <<>>
      BY DEF InputStep
    <2>3. CASE UNCHANGED <<itmp, cup, at>> /\ itodo'[1] # <<"write">>
      BY <1>1, <2>1, <2>3
    <2>4. CASE /\ itmp' \in OnScreen /\ (cup.l = MAX_LINE => itmp'.l = MAX_LINE)
               /\ UNCHANGED <<cup, at>>
      BY <1>1, <2>4
    <2>5. CASE /\ Head(itodo) = <<"write">> /\ cup' = itmp /\ itmp' = Home /\ UNCHANGED at
               /\ itodo' # <<>> => itodo'[1] # <<"write">>
      BY <2>1, <2>2, <2>5 DEF PlacedAt
    <2>6. CASE /\ at' = cup /\ UNCHANGED <<itmp, cup>>
               /\ itodo' # <<>> => itodo'[1] # <<"write">>
      BY <1>1, <2>1, <2>6
    <2> QED BY <2>3, <2>4, <2>5, <2>6, InputTurns
  <1>3. AtTest # <<>> /\ AtNext # <<>> /\ AtTop # <<>> /\ AtCup # <<>> /\ AtText # <<>>
    BY NotDone
  <1>4. TextsFit'
    BY TextsKept DEF PlacedAt, InputStep
  <1> QED BY <1>1, <1>2, <1>3, <1>4 DEF PlacedAt

LEMMA SendPlaced ==
  ASSUME Inv, PlacedAt, NEW w \in DOMAIN awake_windows, send_to_window(w)
  PROVE  PlacedAt'
  <1>1. otodo = <<>> /\ otodo' = AtSet /\ cup.l = MAX_LINE /\ pre' = cup
    BY SendInv DEF PlacedAt, send_to_window
  <1>2. /\ AtSet # <<>> /\ AtSet # AtTest /\ AtSet # AtNext /\ AtSet # AtTop /\ AtSet # AtCup
        /\ AtSet # AtText /\ AtSet # AtLast
    BY Lengths, Heads
  <1>3. TextsFit'
    BY TextsKept DEF PlacedAt, send_to_window
  <1> QED BY <1>1, <1>2, <1>3 DEF PlacedAt, send_to_window, input

\* The kernel prints in the first column or, once, behind it.
LEMMA PrintPlaced ==
  ASSUME Inv, PlacedAt, NEW w \in DOMAIN awake_windows, NEW new_line \in BOOLEAN,
         KernelPrint(w, new_line), otodo = <<>>
  PROVE  PlacedAt'
  <1> DEFINE n == ProcessNumber
             old == awake_windows[w]
             new == advance(old, new_line, 1)
  <1>1. /\ booted /\ w \in 1..n /\ n \in 0..MAX_WINDOWS /\ awake_windows \in [1..n -> Window]
    BY ScreenSize DEF Inv, Registered, KernelPrint
  <1>2. awake_windows' = [awake_windows EXCEPT ![w] = new]
    BY DEF KernelPrint
  <1>3. n' = n /\ w \notin ended /\ otodo' = <<>> /\ calls' = calls
    BY DEF KernelPrint, boot, output
  <1>4. /\ old \in Window /\ new \in Window /\ SameWindow(new, old)
        /\ new.row = (IF old.row + 1 > old.xh THEN old.xl
                      ELSE IF new_line THEN old.row + 1 ELSE old.row)
        /\ new.col = (IF new_line THEN old.yl
                      ELSE IF old.row + 1 > old.xh THEN old.col ELSE old.col + 1)
    BY <1>1, PrintedWhere
  <1> HIDE DEF new
  <1>5. /\ DOMAIN awake_windows' = 1..n /\ awake_windows'[w] = new
        /\ \A i \in 1..n : i # w => awake_windows'[i] = awake_windows[i]
    BY <1>1, <1>2
  <1>6. TextsFit'
    <2> SUFFICES ASSUME Fit', NEW i \in 1..n
                 PROVE  InWindow(Pos(awake_windows'[i]), awake_windows'[i])
      BY <1>5 DEF TextsFit
    <2>1. Fit
      BY <1>1, <1>3 DEF Fit
    <2>2. InWindow(Pos(awake_windows[i]), awake_windows[i])
      BY <1>1, <2>1 DEF PlacedAt, TextsFit
    <2>3. CASE i # w
      BY <1>5, <2>2, <2>3
    <2>4. CASE i = w
      <3> DEFINE s == segment(w, n)
      <3>1. /\ old.xl = s.xl + 1 /\ old.xh = s.xh /\ old.yl = s.yl /\ old.yh = s.yh
            /\ old.col = old.yl
        BY <1>1, <1>3 DEF Inv, Segmented, InSegment
      <3>2. s \in Window /\ s.xl + 1 <= s.xh /\ s.yl + 1 <= s.yh
        BY <1>1, <2>1, SegmentBounds DEF Fit
      <3>3. old.xl <= old.row /\ old.row <= old.xh
        BY <2>2, <2>4 DEF InWindow, Pos
      <3> HIDE DEF s, old
      <3>4. /\ old.row \in Int /\ old.xh \in Int /\ old.xl \in Int /\ old.yl \in Int
            /\ old.yh \in Int
        BY <1>4 DEF Window
      <3>5. old.xl <= old.xh /\ old.yl + 1 <= old.yh
        BY <3>1, <3>2
      <3>6. old.xl <= new.row /\ new.row <= old.xh
        BY <1>4, <3>3, <3>4, <3>5
      <3>7. old.yl <= new.col /\ new.col <= old.yh
        BY <1>4, <3>1, <3>4, <3>5
      <3>8. new.xl = old.xl /\ new.xh = old.xh /\ new.yl = old.yl /\ new.yh = old.yh
        BY <1>4 DEF SameWindow
      <3> QED BY <1>5, <2>4, <3>6, <3>7, <3>8 DEF InWindow, Pos
    <2> QED BY <2>3, <2>4
  <1>7. AtTest # <<>> /\ AtNext # <<>> /\ AtTop # <<>> /\ AtCup # <<>> /\ AtText # <<>>
    BY NotDone
  <1> QED BY <1>3, <1>6, <1>7 DEF PlacedAt, KernelPrint, input

\* A step of send_to_window keeps everybody in place.
LEMMA OutputPlaced ==
  ASSUME Inv, PlacedAt, OutputStep
  PROVE  PlacedAt'
  <1> DEFINE n == ProcessNumber
             w == awake_windows[target]
             v == [w EXCEPT !.row = IF otodo = AtNext THEN w.row + 1 ELSE w.xl, !.col = w.yl]
  <1>0. otodo # <<>> /\ OutputTodo
    BY DEF OutputStep, Show, Advance, Restore, Does, Inv
  <1>1. /\ booted /\ target \in 1..n /\ n \in 0..MAX_WINDOWS
        /\ awake_windows \in [1..n -> Window] /\ pre.l = MAX_LINE
    BY <1>0, ScreenSize DEF Inv, Registered, OutputTodo, PlacedAt
  <1>2. /\ itodo' = itodo /\ itmp' = itmp /\ target' = target /\ n' = n /\ calls' = calls
        /\ UNCHANGED boot
    BY DEF OutputStep, boot, input
  <1>3. /\ AtTest \notin {AtSet, AtNext, AtTop, AtCup, AtText, AtRestore, AtLast}
        /\ AtNext \notin {AtTop, AtCup, AtText, AtRestore, AtLast}
        /\ AtTop \notin {AtCup, AtText, AtRestore, AtLast}
        /\ AtCup \notin {AtText, AtRestore, AtLast}
        /\ AtText \notin {AtRestore, AtLast} /\ AtRestore # AtLast
    BY Heads, Lengths
  <1>4. otodo' # <<>> => pre'.l = MAX_LINE
    BY <1>0, <1>1, <1>3, OutputTurns, HomeOnScreen, NotDone
  <1>5. CASE awake_windows' = awake_windows
    <2>1. TextsFit' /\ Fit' = Fit
      BY <1>2, <1>5, TextsKept DEF PlacedAt
    <2>2. Fit => InWindow(Pos(w), w)
      BY <1>1 DEF PlacedAt, TextsFit
    <2>3. CASE otodo = AtSet /\ otodo' = AtTest /\ cup' = Pos(w)
      BY <1>2, <1>3, <1>4, <1>5, <2>1, <2>3, NotDone DEF PlacedAt
    <2>4. CASE /\ otodo = AtTest
               /\ otodo' = IF w.row + 1 <= w.xh THEN AtNext ELSE AtTop
               /\ UNCHANGED <<cup, at>>
      BY <1>2, <1>3, <1>4, <1>5, <2>1, <2>4, NotDone DEF PlacedAt
    <2>5. CASE otodo = AtCup /\ otodo' = AtText /\ send_cup /\ UNCHANGED cup
      <3>1. at' = cup'
        BY <2>5, CupSent DEF Inv, Cursors
      <3> QED BY <1>2, <1>3, <1>4, <1>5, <2>1, <2>5, <3>1, NotDone DEF PlacedAt
    <2>6. CASE otodo = AtLast /\ otodo' = <<>> /\ UNCHANGED cup
      BY <1>2, <1>3, <1>4, <1>5, <2>1, <2>6, NotDone DEF PlacedAt
    <2>7. CASE otodo = AtText /\ otodo' = AtRestore
      BY <1>2, <1>3, <1>4, <1>5, <2>1, <2>7, NotDone DEF PlacedAt
    <2>8. CASE otodo = AtRestore /\ otodo' = AtLast /\ cup' = pre
      BY <1>1, <1>2, <1>3, <1>4, <1>5, <2>1, <2>8, NotDone DEF PlacedAt
    <2>9. CASE /\ otodo \in {AtNext, AtTop} /\ otodo' = AtCup
               /\ awake_windows' = [awake_windows EXCEPT ![target] = v]
               /\ UNCHANGED <<cup, at>>
      <3>1. cup = Pos(w)
        BY <2>9 DEF PlacedAt
      <3> QED BY <1>2, <1>3, <1>4, <1>5, <2>1, <2>2, <2>9, <3>1, NotDone DEF PlacedAt
    <2> QED BY <1>0, <1>5, <2>3, <2>4, <2>5, <2>6, <2>7, <2>8, <2>9, OutputTurns
  <1>6. CASE /\ otodo \in {AtNext, AtTop} /\ otodo' = AtCup
             /\ awake_windows' = [awake_windows EXCEPT ![target] = v]
             /\ UNCHANGED <<cup, at, pre>>
    <2>1. w \in Window /\ v \in Window /\ SameWindow(v, w) /\ v.col = w.yl
            /\ v.row = IF otodo = AtNext THEN w.row + 1 ELSE w.xl
      <3>1. w \in Window
        BY <1>1
      <3> DEFINE r == IF otodo = AtNext THEN w.row + 1 ELSE w.xl
      <3>2. r \in Int
        BY <3>1 DEF Window
      <3>3. v = [w EXCEPT !.row = r, !.col = w.yl]
        OBVIOUS
      <3> HIDE DEF r, v, w
      <3>4. v \in Window /\ SameWindow(v, w) /\ v.col = w.yl /\ v.row = r
        BY <3>1, <3>2, <3>3 DEF Window, SameWindow
      <3> QED BY <3>1, <3>4 DEF r
    <2> HIDE DEF v
    <2>2. /\ awake_windows' \in [1..n -> Window] /\ awake_windows'[target] = v
          /\ \A i \in 1..n : i # target => awake_windows'[i] = awake_windows[i]
      BY <1>1, <1>6, <2>1
    <2>3. Fit' => Fit
      BY <1>1, <1>2 DEF Fit
    <2>4. ASSUME Fit PROVE InWindow(Pos(w), w) /\ InWindow(Pos(v), v) /\ w.yl <= w.yh
      <3> DEFINE s == segment(target, n)
      <3>1. InWindow(Pos(w), w)
        BY <1>1, <2>4 DEF PlacedAt, TextsFit
      <3>2. w.xl = s.xl + 1 /\ w.xh = s.xh /\ w.yl = s.yl /\ w.yh = s.yh /\ s.xl <= w.row
        BY <1>1 DEF Inv, Segmented, InSegment
      <3>3. s \in Window /\ s.xl + 1 <= s.xh /\ s.yl + 1 <= s.yh
        BY <1>1, <2>4, SegmentBounds DEF Fit
      <3>4. otodo = AtNext => w.row + 1 <= w.xh
        BY DEF PlacedAt
      <3>5. w.xl <= w.row
        BY <3>1 DEF InWindow, Pos
      <3> HIDE DEF s, w
      <3>6. w.row \in Int /\ w.xl \in Int /\ w.xh \in Int /\ w.yl \in Int /\ w.yh \in Int
        BY <2>1 DEF Window
      <3>7. w.xl <= w.xh /\ w.yl <= w.yh
        BY <3>2, <3>3, <3>6 DEF Window
      <3>8. w.xl <= v.row /\ v.row <= w.xh
        BY <2>1, <3>4, <3>5, <3>6, <3>7
      <3>9. InWindow(Pos(v), v)
        BY <2>1, <3>6, <3>7, <3>8 DEF InWindow, Pos, SameWindow
      <3> QED BY <3>1, <3>7, <3>9
    <2>5. TextsFit'
      <3> SUFFICES ASSUME Fit', NEW i \in 1..n
                   PROVE  InWindow(Pos(awake_windows'[i]), awake_windows'[i])
        BY <2>2 DEF TextsFit
      <3>1. CASE i = target
        BY <2>2, <2>3, <2>4, <3>1
      <3>2. CASE i # target
        BY <1>1, <2>2, <2>3, <3>2 DEF PlacedAt, TextsFit
      <3> QED BY <3>1, <3>2
    <2>6. ASSUME Fit' PROVE InWindow(cup', awake_windows'[target])
      <3>1. cup' = Pos(w)
        BY <1>6 DEF PlacedAt
      <3>2. InWindow(Pos(w), w)
        BY <2>3, <2>4, <2>6
      <3> QED BY <2>1, <2>2, <3>1, <3>2 DEF InWindow, SameWindow
    <2> QED BY <1>2, <1>3, <1>4, <1>6, <2>5, <2>6, NotDone DEF PlacedAt
  <1> QED BY <1>0, <1>5, <1>6, OutputTurns

\* Text goes astray in one way only: somebody comes between two steps of
\* send_to_window, from its save of cup to its restore.
THEOREM LostOnlyMixed == Spec => LostOnlyWhenMixed
  <1>1. ASSUME Inv, Inv', [Next]_vars, InPlace
        PROVE  InPlace' \/ (otodo # <<>> /\ otodo' = otodo)
    <2>1. PlacedAt
      BY <1>1, InPlaceIs DEF Inv
    <2> SUFFICES ASSUME ~(otodo # <<>> /\ otodo' = otodo) PROVE PlacedAt'
      BY <1>1, InPlaceThen DEF Inv
    <2>2. ASSUME otodo' = otodo PROVE otodo = <<>>
      BY <2>2
    <2>3. CASE reg_proc
      BY <1>1, <2>1, <2>3, RegProcPlaced
    <2>4. CASE main
      BY <1>1, <2>1, <2>4, MainPlaced
    <2>5. CASE \E c \in scene.keys : UartReceive(c)
      BY <2>1, <2>5, ReceivePlaced
    <2>6. CASE decode_cmd
      BY <1>1, <2>1, <2>6, DecodePlaced
    <2>7. CASE InputStep
      <3>1. otodo = <<>>
        BY <2>2, <2>7 DEF InputStep, output
      <3> QED BY <1>1, <2>1, <2>7, <3>1, InputPlaced
    <2>8. CASE \E w \in DOMAIN awake_windows :
                 send_to_window(w) \/ \E nl \in BOOLEAN : KernelPrint(w, nl)
      <3>1. PICK w \in DOMAIN awake_windows :
                 send_to_window(w) \/ \E nl \in BOOLEAN : KernelPrint(w, nl)
        BY <2>8
      <3>2. CASE send_to_window(w)
        BY <1>1, <2>1, <3>2, SendPlaced
      <3>3. ASSUME NEW nl \in BOOLEAN, KernelPrint(w, nl) PROVE PlacedAt'
        <4>1. otodo = <<>>
          BY <2>2, <3>3 DEF KernelPrint, output
        <4> QED BY <1>1, <2>1, <3>3, <4>1, PrintPlaced
      <3> QED BY <3>1, <3>2, <3>3
    <2>9. CASE OutputStep
      BY <1>1, <2>1, <2>9, OutputPlaced
    <2>10. CASE UNCHANGED vars
      BY <2>1, <2>10, TextsKept DEF PlacedAt, vars, boot, input, output
    <2> QED BY <1>1, <2>3, <2>4, <2>5, <2>6, <2>7, <2>8, <2>9, <2>10 DEF Next
  <1>2. Inv /\ Inv' /\ [Next]_vars
          => [InPlace => InPlace' \/ (otodo # <<>> /\ otodo' = otodo)]_vars
    BY <1>1
  <1> QED BY InvHolds, <1>2, PTL DEF Spec, LostOnlyWhenMixed

-----------------------------------------------------------------------------
(* Words.                                                                  *)

\* The least of the numbers in a set.
LEMMA LeastIs ==
  ASSUME NEW T \in SUBSET Nat, T # {}
  PROVE  Min(T) \in T /\ \A y \in T : Min(T) <= y
  <1> DEFINE Less == OpToRel(<, Nat)
  <1>1. PICK x \in T : \A y \in T : ~(<<y, x>> \in Less)
    <2> HIDE DEF Less
    <2>1. IsWellFoundedOn(Less, Nat)
      BY NatLessThanWellFounded DEF Less
    <2> QED BY <2>1, WFMin
  <1>2. ASSUME NEW y \in T PROVE x <= y
    <2>1. y \in Nat /\ x \in Nat
      OBVIOUS
    <2>2. ~(y < x)
      BY <1>1, <2>1 DEF OpToRel
    <2> QED BY <2>1, <2>2
  <1> QED BY <1>2 DEF Min

\* What holds at 0 and is handed on holds up to n.
LEMMA HandedOn ==
  ASSUME NEW n \in Nat, NEW T \in SUBSET (0..n), 0 \in T,
         \A i \in 1..n : i - 1 \in T => i \in T
  PROVE  T = 0..n
  <1> DEFINE U == (0..n) \ T
  <1>1. CASE U = {}
    BY <1>1
  <1>2. CASE U # {}
    <2>1. U \in SUBSET Nat
      OBVIOUS
    <2> DEFINE i == Min(U)
    <2>2. i \in U /\ \A y \in U : i <= y
      BY <1>2, <2>1, LeastIs
    <2> HIDE DEF i
    <2>3. i \in 1..n /\ i - 1 \in 0..n /\ ~(i <= i - 1)
      BY <2>2
    <2> QED BY <2>2, <2>3
  <1> QED BY <1>1, <1>2

\* The end of the word that begins at i: the place before the next blank.
StopAt(t, i) == Min({k \in i..Len(t) : t[k] \in Blank} \cup {Len(t) + 1})

LEMMA StopIs ==
  ASSUME NEW t, t \in Seq(Keys), NEW i \in 1..Len(t)
  PROVE  /\ StopAt(t, i) \in i..(Len(t) + 1)
         /\ \A k \in i..(StopAt(t, i) - 1) : t[k] \notin Blank
         /\ StopAt(t, i) = Len(t) + 1 \/ t[StopAt(t, i)] \in Blank
  <1> DEFINE T == {k \in i..Len(t) : t[k] \in Blank} \cup {Len(t) + 1}
             m == Min(T)
             n == Len(t)
  <1>1. n \in Nat
    OBVIOUS
  <1>2. T \in SUBSET Nat /\ T # {}
    BY <1>1
  <1>3. m \in T /\ \A y \in T : m <= y
    <2> HIDE DEF T
    <2> QED BY <1>2, LeastIs
  <1> HIDE DEF m
  <1>4. ASSUME NEW k \in i..(m - 1) PROVE t[k] \notin Blank
    <2>1. m \in Int /\ m <= n + 1
      BY <1>1, <1>3
    <2>2. k \in i..n /\ ~(m <= k)
      BY <1>1, <2>1
    <2> QED BY <1>3, <2>2
  <1>5. m \in i..(n + 1) /\ (m = n + 1 \/ t[m] \in Blank)
    BY <1>1, <1>3
  <1> QED BY <1>4, <1>5 DEF m, StopAt

\* A word begins where a character comes after a blank, and it ends before the next.
LEMMA WordBegins ==
  ASSUME NEW t, t \in Seq(Keys)
  PROVE  \A i \in 1..Len(t) :
           i \in Line!Starts(t) <=> t[i] \notin Blank /\ (i = 1 \/ t[i - 1] \in Blank)
  <1>0. Line!Blank = Blank
    BY DEF Line!Blank, Blank, TAB
  <1> SUFFICES ASSUME NEW i \in 1..Len(t)
               PROVE  i \in Line!Starts(t) <=> t[i] \notin Blank /\ (i = 1 \/ t[i - 1] \in Blank)
    OBVIOUS
  <1>1. ASSUME i \in Line!Starts(t) PROVE t[i] \notin Blank /\ (i = 1 \/ t[i - 1] \in Blank)
    <2>1. PICK j \in i..Len(t) : Line!IsWord(t, i, j)
      BY <1>1 DEF Line!Starts
    <2>2. i \in i..j
      OBVIOUS
    <2> QED BY <1>0, <2>1, <2>2 DEF Line!IsWord
  <1>2. ASSUME t[i] \notin Blank, i = 1 \/ t[i - 1] \in Blank PROVE i \in Line!Starts(t)
    <2> DEFINE m == StopAt(t, i)
    <2>1. /\ m \in i..(Len(t) + 1) /\ (\A k \in i..(m - 1) : t[k] \notin Blank)
          /\ m = Len(t) + 1 \/ t[m] \in Blank
      BY StopIs
    <2> HIDE DEF m
    <2>2. m # i
      BY <1>2, <2>1
    <2>3. m - 1 \in i..Len(t) /\ (m - 1) + 1 = m
      BY <2>1, <2>2
    <2>4. Line!IsWord(t, i, m - 1)
      BY <1>0, <1>2, <2>1, <2>3 DEF Line!IsWord
    <2> QED BY <2>3, <2>4 DEF Line!Starts
  <1> QED BY <1>1, <1>2

LEMMA WordEnds ==
  ASSUME NEW t, t \in Seq(Keys), NEW i \in Line!Starts(t)
  PROVE  /\ i \in 1..Len(t) /\ StopAt(t, i) \in (i + 1)..(Len(t) + 1)
         /\ (CHOOSE k \in i..Len(t) : Line!IsWord(t, i, k)) = StopAt(t, i) - 1
  <1> DEFINE m == StopAt(t, i)
  <1>0. Line!Blank = Blank
    BY DEF Line!Blank, Blank, TAB
  <1>1. i \in 1..Len(t)
    BY DEF Line!Starts
  <1>2. t[i] \notin Blank /\ (i = 1 \/ t[i - 1] \in Blank)
    BY <1>1, WordBegins
  <1>3. /\ m \in i..(Len(t) + 1) /\ (\A k \in i..(m - 1) : t[k] \notin Blank)
        /\ m = Len(t) + 1 \/ t[m] \in Blank
    BY <1>1, StopIs
  <1> HIDE DEF m
  <1>4. m # i
    BY <1>1, <1>2, <1>3
  <1>5. m - 1 \in i..Len(t) /\ (m - 1) + 1 = m
    BY <1>1, <1>3, <1>4
  <1>6. Line!IsWord(t, i, m - 1)
    BY <1>0, <1>1, <1>2, <1>3, <1>5 DEF Line!IsWord
  <1>7. ASSUME NEW k \in i..Len(t), Line!IsWord(t, i, k) PROVE k = m - 1
    <2>1. CASE k < m - 1
      <3>1. k + 1 \in i..(m - 1) /\ k # Len(t)
        BY <1>1, <1>3, <2>1
      <3>2. t[k + 1] \in Blank
        BY <1>0, <1>7, <3>1 DEF Line!IsWord
      <3> QED BY <1>3, <3>1, <3>2
    <2>2. CASE k > m - 1
      <3>1. m \in i..k /\ m # Len(t) + 1
        BY <1>1, <1>3, <2>2
      <3>2. t[m] \notin Blank
        BY <1>0, <1>7, <3>1 DEF Line!IsWord
      <3> QED BY <1>3, <3>1, <3>2
    <2> QED BY <1>1, <1>3, <2>1, <2>2
  <1>8. (CHOOSE k \in i..Len(t) : Line!IsWord(t, i, k)) = m - 1
    BY <1>5, <1>6, <1>7
  <1> QED BY <1>1, <1>3, <1>4, <1>8 DEF m

LEMMA SameCardinality == \A S : Line!Cardinality(S) = Cardinality(S)
  BY DEF Line!Cardinality, Cardinality

\* The words that begin before a place.
Before(t, from) == {h \in Line!Starts(t) : h < from}

LEMMA BeforeFinite ==
  ASSUME NEW t, t \in Seq(Keys)
  PROVE  /\ IsFiniteSet(Line!Starts(t)) /\ Cardinality(Line!Starts(t)) \in Nat
         /\ \A from \in Nat : IsFiniteSet(Before(t, from)) /\ Cardinality(Before(t, from)) \in Nat
  <1>1. Line!Starts(t) \subseteq 1..Len(t) /\ IsFiniteSet(1..Len(t))
    BY FS_Interval DEF Line!Starts
  <1>2. IsFiniteSet(Line!Starts(t))
    BY <1>1, FS_Subset
  <1>3. \A from \in Nat : IsFiniteSet(Before(t, from))
    BY <1>2, FS_Subset DEF Before
  <1> QED BY <1>2, <1>3, FS_CardinalityType

\* The words before a later word are more.
LEMMA BeforeGrows ==
  ASSUME NEW t, t \in Seq(Keys), NEW i \in Line!Starts(t), NEW from \in Nat,
         i < from, \A h \in Line!Starts(t) : h < from => h <= i
  PROVE  Cardinality(Before(t, from)) = Cardinality(Before(t, i)) + 1
  <1>1. i \in Nat /\ Line!Starts(t) \subseteq Nat
    BY DEF Line!Starts
  <1>2. i \notin Before(t, i)
    BY <1>1 DEF Before
  <1>3. Before(t, from) = Before(t, i) \cup {i}
    BY <1>1 DEF Before
  <1>4. IsFiniteSet(Before(t, i))
    BY <1>1, BeforeFinite
  <1> QED BY <1>2, <1>3, <1>4, FS_AddElement

LEMMA BeforeDiffer ==
  ASSUME NEW t, t \in Seq(Keys), NEW i \in Line!Starts(t), NEW j \in Line!Starts(t), i < j
  PROVE  Cardinality(Before(t, i)) < Cardinality(Before(t, j))
  <1>1. i \in Nat /\ j \in Nat /\ Line!Starts(t) \subseteq Nat
    BY DEF Line!Starts
  <1>2. Before(t, i) \subseteq Before(t, j) /\ i \in Before(t, j) /\ i \notin Before(t, i)
    BY <1>1 DEF Before
  <1>3. IsFiniteSet(Before(t, j)) /\ IsFiniteSet(Before(t, i))
    BY <1>1, BeforeFinite
  <1> QED BY <1>2, <1>3, FS_Subset, FS_CardinalityType

\* The word that begins at i, by its number.
LEMMA WordIs ==
  ASSUME NEW t, t \in Seq(Keys), NEW i \in Line!Starts(t), NEW k \in Nat,
         Cardinality(Before(t, i)) = k
  PROVE  /\ Line!Word(t, k + 1) = SubSeq(t, i, StopAt(t, i) - 1)
         /\ Line!Word(t, k + 1) # Line!Nothing /\ Line!Word(t, k + 1) \in Seq(Keys)
  <1> DEFINE S == Line!Starts(t)
             first == CHOOSE g \in S : Cardinality({h \in S : h < g}) = (k + 1) - 1
  <1>1. i \in 1..Len(t) /\ S \subseteq Nat
    BY DEF Line!Starts
  <1>2. ~(Cardinality(S) < k + 1)
    <2>1. Before(t, i) \subseteq S /\ i \in S /\ i \notin Before(t, i)
      BY <1>1 DEF Before
    <2>2. IsFiniteSet(S) /\ Cardinality(S) \in Nat /\ IsFiniteSet(Before(t, i))
      BY <1>1, BeforeFinite
    <2>3. Cardinality(Before(t, i)) < Cardinality(S)
      BY <2>1, <2>2, FS_Subset
    <2> HIDE DEF S
    <2> QED BY <2>2, <2>3
  <1>3. (k + 1) - 1 = k
    OBVIOUS
  <1>4. \A g \in S : {h \in S : h < g} = Before(t, g)
    BY DEF Before
  <1>5. ASSUME NEW g \in S, Cardinality(Before(t, g)) = k PROVE g = i
    <2>1. g \in Nat
      BY <1>1
    <2>2. CASE g < i
      <3>1. Cardinality(Before(t, g)) < Cardinality(Before(t, i))
        BY <2>2, BeforeDiffer
      <3> QED BY <1>5, <3>1
    <2>3. CASE i < g
      <3>1. Cardinality(Before(t, i)) < Cardinality(Before(t, g))
        BY <2>3, BeforeDiffer
      <3> QED BY <1>5, <3>1
    <2> QED BY <1>1, <2>1, <2>2, <2>3
  <1>6. first = i
    <2> HIDE DEF S
    <2>1. i \in S
      BY DEF S
    <2> QED BY <1>3, <1>4, <1>5, <2>1
  <1> HIDE DEF first
  <1>7. Line!Word(t, k + 1) = SubSeq(t, first, (CHOOSE j \in first..Len(t) : Line!IsWord(t, first, j)))
    BY <1>2, SameCardinality, Zenon DEF Line!Word, first
  <1>8. Line!Word(t, k + 1) = SubSeq(t, i, StopAt(t, i) - 1)
    BY <1>6, <1>7, WordEnds
  <1>9. SubSeq(t, i, StopAt(t, i) - 1) # <<>> /\ SubSeq(t, i, StopAt(t, i) - 1) \in Seq(Keys)
    <2>1. StopAt(t, i) - 1 \in i..Len(t)
      BY <1>1, WordEnds
    <2> DEFINE j == StopAt(t, i) - 1
    <2>2. i \in Int /\ j \in Int /\ i <= j /\ \A h \in i..j : t[h] \in Keys
      BY <1>1, <2>1
    <2> HIDE DEF j
    <2>3. SubSeq(t, i, j) \in Seq(Keys) /\ Len(SubSeq(t, i, j)) = j - i + 1
      BY <2>2, SubSeqProperties
    <2> DEFINE u == SubSeq(t, i, j)
    <2>4. u \in Seq(Keys) /\ Len(u) > 0
      BY <2>2, <2>3
    <2> HIDE DEF u
    <2>5. u # <<>>
      BY <2>4
    <2> QED BY <2>4, <2>5 DEF j, u
  <1> QED BY <1>8, <1>9 DEF Line!Nothing

\* Where strtok goes on from: the beginning, the end, or behind a blank.
AtWord(t, from) == from \in 1..(Len(t) + 2) /\ (from = 1 \/ from > Len(t) \/ t[from - 1] \in Blank)

\* strtok behind k words finds the next, or the end.
Finds(t, from, k) ==
  LET tok == strtok(t, from)
  IN  /\ tok.token = Line!Word(t, k + 1) /\ tok.token \in Seq(Keys)
      /\ AtWord(t, tok.next)
      /\ IF tok.token = NULL THEN tok.next = Len(t) + 1
         ELSE Cardinality(Before(t, tok.next)) = k + 1

LEMMA NextToken ==
  ASSUME NEW t, t \in Seq(Keys), NEW from, AtWord(t, from), NEW k \in Nat,
         Cardinality(Before(t, from)) = k
  PROVE  Finds(t, from, k)
  <1> DEFINE n == Len(t)
             T == {i \in from..n : t[i] \notin Blank}
  <1>1. n \in Nat /\ from \in Nat /\ from >= 1 /\ from <= n + 2
    BY DEF AtWord
  <1>2. Line!Starts(t) \subseteq 1..n
    BY DEF Line!Starts
  <1>3. CASE T = {}
    <2>1. strtok(t, from) = [token |-> NULL, next |-> n + 1]
      BY <1>3 DEF strtok
    <2>2. Before(t, from) = Line!Starts(t)
      <3>1. ASSUME NEW h \in Line!Starts(t) PROVE h < from
        <4>1. h \in 1..n /\ t[h] \notin Blank
          BY <1>2, WordBegins
        <4>2. h \notin from..n
          BY <1>3, <4>1
        <4> QED BY <1>1, <4>1, <4>2
      <3> QED BY <3>1 DEF Before
    <2>3. Line!Cardinality(Line!Starts(t)) < k + 1
      <3>1. Line!Cardinality(Line!Starts(t)) = k
        BY <2>2, SameCardinality, Zenon
      <3> QED BY <3>1
    <2>4. Line!Word(t, k + 1) = NULL
      BY <2>3 DEF Line!Word, Line!Nothing, NULL
    <2>5. AtWord(t, n + 1)
      BY <1>1 DEF AtWord
    <2>6. NULL \in Seq(Keys)
      BY DEF NULL
    <2> QED BY <2>1, <2>4, <2>5, <2>6 DEF Finds
  <1>4. CASE T # {}
    <2> DEFINE i == Min(T)
               m == StopAt(t, i)
    <2>1. T \in SUBSET Nat
      BY <1>1
    <2>2. i \in T /\ \A y \in T : i <= y
      <3> HIDE DEF T
      <3> QED BY <1>4, <2>1, LeastIs
    <2>3. strtok(t, from) = [token |-> SubSeq(t, i, m - 1), next |-> m + 1]
      BY <1>4 DEF strtok, StopAt
    <2> HIDE DEF i
    <2>4. i \in 1..n /\ i >= from /\ t[i] \notin Blank
      BY <1>1, <2>2
    <2>5. ASSUME NEW h \in from..(i - 1) PROVE t[h] \in Blank
      <3>1. h \in from..n /\ ~(i <= h)
        BY <1>1, <2>4
      <3> QED BY <2>2, <3>1
    <2>6. i \in Line!Starts(t)
      <3>1. i = 1 \/ t[i - 1] \in Blank
        <4>1. CASE i = from
          BY <2>4, <4>1 DEF AtWord
        <4>2. CASE i # from
          <5>1. i - 1 \in from..(i - 1)
            BY <1>1, <2>4, <4>2
          <5> QED BY <2>5, <5>1
        <4> QED BY <4>1, <4>2
      <3> QED BY <2>4, <3>1, WordBegins
    <2>7. Before(t, i) = Before(t, from)
      <3>1. ASSUME NEW h \in Line!Starts(t) PROVE h < i <=> h < from
        <4>1. h \in 1..n /\ t[h] \notin Blank
          BY <1>2, WordBegins
        <4>2. h \notin from..(i - 1)
          BY <2>5, <4>1
        <4> QED BY <1>1, <2>4, <4>1, <4>2
      <3> QED BY <3>1 DEF Before
    <2>8. Cardinality(Before(t, i)) = k
      BY <2>7
    <2>9. Line!Word(t, k + 1) = SubSeq(t, i, m - 1) /\ Line!Word(t, k + 1) # NULL
            /\ Line!Word(t, k + 1) \in Seq(Keys)
      <3>1. Line!Nothing = NULL
        BY DEF Line!Nothing, NULL
      <3> QED BY <2>6, <2>8, <3>1, WordIs, Zenon
    <2>10. m \in (i + 1)..(n + 1)
      BY <2>6, WordEnds
    <2>11. (\A h \in i..(m - 1) : t[h] \notin Blank) /\ (m = n + 1 \/ t[m] \in Blank)
      BY <2>4, StopIs
    <2> HIDE DEF m
    <2>12. AtWord(t, m + 1)
      <3>1. m + 1 \in 1..(n + 2) /\ (m + 1) - 1 = m
        BY <1>1, <2>4, <2>10
      <3> QED BY <1>1, <2>11, <3>1 DEF AtWord
    <2>13. Cardinality(Before(t, m + 1)) = k + 1
      <3>1. ASSUME NEW h \in Line!Starts(t), h < m + 1 PROVE h <= i
        <4> SUFFICES ASSUME h > i PROVE FALSE
          BY <1>2, <2>4
        <4>1. h \in 1..n /\ t[h] \notin Blank /\ (h = 1 \/ t[h - 1] \in Blank)
          BY <1>2, WordBegins
        <4>2. h <= m /\ h # 1 /\ h \in Int /\ m \in Int /\ i \in Int
          BY <2>4, <2>10, <3>1, <4>1
        <4>3. h # m
          BY <1>1, <2>11, <4>1
        <4>4. h - 1 \in i..(m - 1)
          BY <4>2, <4>3
        <4> QED BY <2>11, <4>1, <4>2, <4>4
      <3>2. m + 1 \in Nat /\ i < m + 1
        BY <2>4, <2>10
      <3> QED BY <2>6, <2>8, <3>1, <3>2, BeforeGrows
    <2> DEFINE tok == strtok(t, from)
               u == SubSeq(t, i, m - 1)
    <2>14. tok = [token |-> u, next |-> m + 1]
      BY <2>3
    <2> HIDE DEF tok, u
    <2>15. tok.token = u /\ tok.next = m + 1
      BY <2>14
    <2>16. u = Line!Word(t, k + 1) /\ u # NULL /\ u \in Seq(Keys)
      BY <2>9 DEF u
    <2> QED BY <2>12, <2>13, <2>15, <2>16, Zenon DEF tok, Finds
  <1> QED BY <1>3, <1>4

\* The three tokens of get_cmd are the first three words.
LEMMA Tokens ==
  ASSUME NEW t, t \in Seq(Keys)
  PROVE  LET cmd    == strtok(t, 1)
             number == strtok(t, cmd.next)
             msg    == strtok(t, number.next)
         IN  /\ cmd.token = Line!Word(t, 1)
             /\ cmd.token # NULL => number.token = Line!Word(t, 2) /\ number.token \in Seq(Keys)
             /\ cmd.token # NULL /\ number.token # NULL => msg.token = Line!Word(t, 3)
             /\ cmd.token # NULL /\ number.token = NULL => msg.token = NULL
  <1> DEFINE cmd    == strtok(t, 1)
             number == strtok(t, cmd.next)
             msg    == strtok(t, number.next)
  <1>1. Len(t) \in Nat /\ AtWord(t, 1)
    BY DEF AtWord
  <1>2. Cardinality(Before(t, 1)) = 0
    <2>1. Before(t, 1) = {}
      BY <1>1 DEF Before, Line!Starts
    <2> QED BY <2>1, FS_EmptySet
  <1>3. 0 \in Nat /\ 1 \in Nat /\ 2 \in Nat /\ 0 + 1 = 1 /\ 1 + 1 = 2 /\ 2 + 1 = 3
    OBVIOUS
  <1>4. /\ cmd.token = Line!Word(t, 1) /\ AtWord(t, cmd.next)
        /\ cmd.token # NULL => Cardinality(Before(t, cmd.next)) = 1
    <2>1. Finds(t, 1, 0)
      BY <1>1, <1>2, NextToken
    <2> QED BY <1>3, <2>1 DEF Finds
  <1> HIDE DEF cmd
  <1>5. ASSUME cmd.token # NULL
        PROVE  /\ number.token = Line!Word(t, 2) /\ AtWord(t, number.next)
               /\ number.token \in Seq(Keys)
               /\ number.token # NULL => Cardinality(Before(t, number.next)) = 2
               /\ number.token = NULL => number.next = Len(t) + 1
    <2>1. Finds(t, cmd.next, 1)
      BY <1>4, <1>5, NextToken
    <2> QED BY <1>3, <2>1 DEF Finds
  <1> HIDE DEF number
  <1>6. ASSUME cmd.token # NULL, number.token # NULL PROVE msg.token = Line!Word(t, 3)
    <2>1. Finds(t, number.next, 2)
      BY <1>5, <1>6, NextToken
    <2> QED BY <1>3, <2>1 DEF Finds
  <1>7. ASSUME cmd.token # NULL, number.token = NULL PROVE msg.token = NULL
    <2>1. number.next = Len(t) + 1
      BY <1>5, <1>7
    <2>2. {i \in (Len(t) + 1)..Len(t) : t[i] \notin Blank} = {}
      BY <1>1
    <2> QED BY <2>1, <2>2 DEF strtok
  <1> QED BY <1>4, <1>5, <1>6, <1>7 DEF cmd, number

-----------------------------------------------------------------------------
(* Numbers.                                                                *)

\* A recursive function on 0..n is there.
IsSteps(f, n, S, a, step) ==
  f \in [0..n -> S] /\ \A i \in 0..n : f[i] = IF i = 0 THEN a ELSE step[<<f[i - 1], i>>]

LEMMA RecursionExists ==
  ASSUME NEW n \in Nat, NEW S, NEW a \in S, NEW step \in [S \X (1..n) -> S]
  PROVE  \E f : IsSteps(f, n, S, a, step)
  <1> DEFINE Is(f, m) == /\ f \in [0..m -> S]
                         /\ \A i \in 0..m : f[i] = IF i = 0 THEN a ELSE step[<<f[i - 1], i>>]
             T == {m \in 0..n : \E f : Is(f, m)}
  <1>1. 0 \in T
    <2> DEFINE g == [i \in 0..0 |-> a]
    <2>1. Is(g, 0)
      OBVIOUS
    <2>2. 0 \in 0..n
      OBVIOUS
    <2> HIDE DEF Is
    <2>3. \E f : Is(f, 0)
      BY <2>1
    <2> QED BY <2>2, <2>3
  <1>2. ASSUME NEW m \in 1..n, m - 1 \in T PROVE m \in T
    <2>1. PICK f : Is(f, m - 1)
      BY <1>2
    <2> DEFINE g == [i \in 0..m |-> IF i = m THEN step[<<f[m - 1], m>>] ELSE f[i]]
    <2>2. m - 1 \in 0..(m - 1) /\ m \in 1..n /\ m # 0
      OBVIOUS
    <2>3. f[m - 1] \in S /\ step[<<f[m - 1], m>>] \in S
      BY <2>1, <2>2
    <2>4. \A i \in 0..m : i # m => i \in 0..(m - 1)
      OBVIOUS
    <2>5. g \in [0..m -> S]
      BY <2>1, <2>3, <2>4
    <2>6. ASSUME NEW i \in 0..m PROVE g[i] = IF i = 0 THEN a ELSE step[<<g[i - 1], i>>]
      <3>1. CASE i = m
        <4>1. g[i - 1] = f[m - 1]
          BY <2>2, <3>1
        <4> QED BY <2>2, <3>1, <4>1
      <3>2. CASE i # m /\ i = 0
        BY <2>1, <2>2, <2>4, <3>2
      <3>3. CASE i # m /\ i # 0
        <4>1. i \in 0..(m - 1) /\ i - 1 \in 0..m /\ i - 1 # m
          BY <3>3
        <4>2. g[i] = f[i] /\ g[i - 1] = f[i - 1]
          BY <3>3, <4>1
        <4>3. f[i] = step[<<f[i - 1], i>>]
          BY <2>1, <3>3, <4>1
        <4> QED BY <3>3, <4>2, <4>3
      <3> QED BY <3>1, <3>2, <3>3
    <2> HIDE DEF g
    <2>7. Is(g, m)
      BY <2>5, <2>6
    <2> QED BY <2>7
  <1>3. n \in T
    <2> HIDE DEF T
    <2>1. T \in SUBSET (0..n)
      BY DEF T
    <2>2. T = 0..n
      BY <1>1, <1>2, <2>1, HandedOn
    <2> QED BY <2>2
  <1> QED BY <1>3 DEF IsSteps

LEMMA WrapIs ==
  /\ \A x \in Int : Wrap(x) \in Int
  /\ \A x \in Nat : x < INT => Wrap(x) = x
  <1>1. ASSUME NEW x \in Int PROVE Wrap(x) \in Int
    <2>1. (x + INT) \in Int /\ 2 * INT \in Nat \ {0} /\ INT \in Int
      BY LineOK
    <2>2. (x + INT) % (2 * INT) \in Int
      BY <2>1
    <2> QED BY <2>1, <2>2 DEF Wrap
  <1>2. ASSUME NEW x \in Nat, x < INT PROVE Wrap(x) = x
    <2>1. x + INT \in 0..(2 * INT - 1) /\ 2 * INT \in Nat \ {0}
      BY <1>2, LineOK
    <2>2. \A y \in Nat \ {0} : \A z \in 0..(y - 1) : z % y = z
      OBVIOUS
    <2>3. (x + INT) % (2 * INT) = x + INT
      BY <2>1, <2>2
    <2> QED BY <1>2, <2>3, LineOK DEF Wrap
  <1> QED BY <1>1, <1>2

\* The digit that a character is.
Figure(c) == IF c = "1" THEN 1 ELSE 0

LEMMA DigitIs ==
  /\ DOMAIN Digit = {"0", "1"}
  /\ \A c \in {"0", "1"} : Digit[c] = Figure(c) /\ Figure(c) \in Nat
  BY DEF Digit, Figure

\* my_atoi gives one value to a number, the right one unless it overflows, and none
\* to anything else.
LEMMA AtoiIs ==
  ASSUME NEW w, w \in Seq(Keys), w # NULL
  PROVE  /\ Line!IsNumber(w) => \E x \in Int : my_atoi(w) = {x} /\ (Line!Value(w) < INT => x = Line!Value(w))
         /\ Line!IsNumber(w) => Line!Value(w) \in Nat
         /\ ~Line!IsNumber(w) => my_atoi(w) = {}
  <1> DEFINE n == Len(w)
             t == CHOOSE f : f = [i \in 0..n |-> IF i = 0 THEN 0
                                                 ELSE Wrap(10 * f[i - 1] + Digit[w[i]])]
             v == CHOOSE f : f = [i \in 0..n |-> IF i = 0 THEN 0
                                                 ELSE 10 * f[i - 1] + (IF w[i] = "1" THEN 1 ELSE 0)]
  <1>1. n \in Nat /\ DOMAIN w = 1..n
    OBVIOUS
  <1>2. Line!IsNumber(w) <=> ToSet(w) \subseteq DOMAIN Digit
    <2>1. ToSet(w) = {w[i] : i \in 1..n}
      BY <1>1 DEF ToSet
    <2>2. Line!Nothing = NULL
      BY DEF Line!Nothing, NULL
    <2> QED BY <2>1, <2>2, DigitIs DEF Line!IsNumber
  <1>3. ASSUME ~Line!IsNumber(w) PROVE my_atoi(w) = {}
    BY <1>2, <1>3 DEF my_atoi
  <1>4. ASSUME Line!IsNumber(w)
        PROVE  /\ \A i \in 0..n : v[i] \in Nat /\ t[i] \in Int /\ (v[i] < INT => t[i] = v[i])
               /\ my_atoi(w) = {t[n]} /\ Line!Value(w) = v[n]
    <2>1. my_atoi(w) = {t[n]}
      BY <1>2, <1>4 DEF my_atoi
    <2>2. Line!Value(w) = v[n]
      BY DEF Line!Value
    <2>3. ASSUME NEW i \in 1..n
          PROVE  Digit[w[i]] \in Nat /\ Digit[w[i]] = (IF w[i] = "1" THEN 1 ELSE 0)
      <3>1. w[i] \in {"0", "1"}
        BY <1>4 DEF Line!IsNumber
      <3> QED BY <3>1, DigitIs DEF Figure
    <2>4. t = [i \in 0..n |-> IF i = 0 THEN 0 ELSE Wrap(10 * t[i - 1] + Digit[w[i]])]
      <3> DEFINE step == [p \in Int \X (1..n) |-> Wrap(10 * p[1] + Digit[w[p[2]]])]
      <3>1. step \in [Int \X (1..n) -> Int]
        <4>1. ASSUME NEW p \in Int \X (1..n) PROVE Wrap(10 * p[1] + Digit[w[p[2]]]) \in Int
          <5>1. p[1] \in Int /\ Digit[w[p[2]]] \in Nat
            BY <2>3
          <5>2. 10 * p[1] + Digit[w[p[2]]] \in Int
            BY <5>1
          <5> QED BY <5>2, WrapIs
        <4> QED BY <4>1
      <3>2. 0 \in Int
        OBVIOUS
      <3>3. PICK f : IsSteps(f, n, Int, 0, step)
        <4> HIDE DEF step, n, t, v
        <4> QED BY <1>1, <3>1, <3>2, RecursionExists, Zenon
      <3>4. ASSUME NEW i \in 0..n, i # 0
            PROVE  step[<<f[i - 1], i>>] = Wrap(10 * f[i - 1] + Digit[w[i]])
        <4>1. i - 1 \in 0..n /\ i \in 1..n
          BY <3>4
        <4>2. f[i - 1] \in Int
          BY <3>3, <4>1 DEF IsSteps
        <4>3. <<f[i - 1], i>> \in Int \X (1..n)
          BY <4>1, <4>2
        <4> QED BY <4>3
      <3> HIDE DEF step
      <3>5. f = [i \in 0..n |-> IF i = 0 THEN 0 ELSE Wrap(10 * f[i - 1] + Digit[w[i]])]
        BY <3>3, <3>4 DEF IsSteps
      <3> QED BY <3>5
    <2>5. v = [i \in 0..n |-> IF i = 0 THEN 0 ELSE 10 * v[i - 1] + (IF w[i] = "1" THEN 1 ELSE 0)]
      <3> DEFINE step == [p \in Int \X (1..n) |-> 10 * p[1] + (IF w[p[2]] = "1" THEN 1 ELSE 0)]
      <3>1. step \in [Int \X (1..n) -> Int]
        OBVIOUS
      <3>2. 0 \in Int
        OBVIOUS
      <3>3. PICK f : IsSteps(f, n, Int, 0, step)
        <4> HIDE DEF step, n, t, v
        <4> QED BY <1>1, <3>1, <3>2, RecursionExists, Zenon
      <3>4. ASSUME NEW i \in 0..n, i # 0
            PROVE  step[<<f[i - 1], i>>] = 10 * f[i - 1] + (IF w[i] = "1" THEN 1 ELSE 0)
        <4>1. i - 1 \in 0..n /\ i \in 1..n
          BY <3>4
        <4>2. f[i - 1] \in Int
          BY <3>3, <4>1 DEF IsSteps
        <4>3. <<f[i - 1], i>> \in Int \X (1..n)
          BY <4>1, <4>2
        <4> QED BY <4>3
      <3> HIDE DEF step
      <3>5. f = [i \in 0..n |-> IF i = 0 THEN 0 ELSE 10 * f[i - 1] + (IF w[i] = "1" THEN 1 ELSE 0)]
        BY <3>3, <3>4 DEF IsSteps
      <3> QED BY <3>5
    <2> HIDE DEF t, v
    <2> DEFINE T == {i \in 0..n : v[i] \in Nat /\ t[i] \in Int /\ (v[i] < INT => t[i] = v[i])}
    <2>6. 0 \in T
      <3>1. t[0] = 0 /\ v[0] = 0 /\ 0 \in 0..n
        BY <1>1, <2>4, <2>5
      <3> QED BY <3>1
    <2>7. ASSUME NEW i \in 1..n, i - 1 \in T PROVE i \in T
      <3> DEFINE d == Digit[w[i]]
      <3>1. i \in 0..n /\ i # 0 /\ d \in Nat /\ v[i - 1] \in Nat /\ t[i - 1] \in Int
        BY <2>3, <2>7
      <3>2. t[i] = Wrap(10 * t[i - 1] + d)
        BY <2>4, <3>1
      <3>3. v[i] = 10 * v[i - 1] + d
        BY <2>3, <2>5, <3>1
      <3> HIDE DEF d
      <3>4. v[i] \in Nat /\ t[i] \in Int /\ v[i - 1] <= v[i]
        <4>1. 10 * t[i - 1] + d \in Int
          BY <3>1
        <4>2. t[i] \in Int
          BY <3>2, <4>1, WrapIs
        <4>3. \A x, y \in Nat : 10 * x + y \in Nat /\ x <= 10 * x + y
          OBVIOUS
        <4> QED BY <3>1, <3>3, <4>2, <4>3
      <3>5. ASSUME v[i] < INT PROVE t[i] = v[i]
        <4>1. v[i - 1] < INT
          BY <3>1, <3>4, <3>5, LineOK
        <4>2. t[i - 1] = v[i - 1]
          BY <2>7, <4>1
        <4>3. t[i] = Wrap(v[i])
          BY <3>2, <3>3, <4>2
        <4> QED BY <3>4, <3>5, <4>3, WrapIs
      <3> QED BY <3>1, <3>4, <3>5
    <2>8. T = 0..n
      <3> HIDE DEF T
      <3>1. T \in SUBSET (0..n)
        BY DEF T
      <3> QED BY <1>1, <2>6, <2>7, <3>1, HandedOn
    <2> QED BY <2>1, <2>2, <2>8
  <1> HIDE DEF t, v
  <1>5. n \in 0..n
    BY <1>1
  <1> QED BY <1>3, <1>4, <1>5

-----------------------------------------------------------------------------
(* The line editor is implemented.                                         *)

TextOf(s) == SubSeq(s.data, 1, s.length)

LEMMA FrontPart ==
  ASSUME NEW S, NEW d, NEW n \in Nat, \A i \in 1..n : d[i] \in S
  PROVE  /\ SubSeq(d, 1, n) \in Seq(S) /\ Len(SubSeq(d, 1, n)) = n
         /\ \A i \in 1..n : SubSeq(d, 1, n)[i] = d[i]
  <1>1. 1 \in Int /\ n \in Int /\ n - 1 + 1 = n /\ \A i \in 1..n : 1 + i - 1 = i
    OBVIOUS
  <1> DEFINE u == SubSeq(d, 1, n)
  <1>2. /\ u \in Seq(S) /\ Len(u) = (IF 1 <= n THEN n - 1 + 1 ELSE 0)
        /\ \A i \in 1..(n - 1 + 1) : u[i] = d[1 + i - 1]
    BY <1>1, SubSeqProperties
  <1> HIDE DEF u
  <1>3. Len(u) = n
    BY <1>2
  <1>4. \A i \in 1..n : u[i] = d[i]
    BY <1>1, <1>2
  <1> QED BY <1>2, <1>3, <1>4 DEF u

LEMMA TextIs ==
  ASSUME NEW s, LineOf(s)
  PROVE  /\ TextOf(s) \in Seq(Keys) /\ Len(TextOf(s)) = s.length
         /\ \A i \in 1..s.length : TextOf(s)[i] = s.data[i]
  <1>1. /\ s.length \in Nat /\ s.length <= MAX_STR_SZ /\ MAX_STR_SZ \in Nat
        /\ s.data \in [1..MAX_STR_SZ -> Keys \cup {NUL}]
    BY LineParts
  <1>2. \A i \in 1..s.length : s.data[i] \in Keys
    BY <1>1 DEF LineOf
  <1> DEFINE n == s.length
             d == s.data
             u == SubSeq(d, 1, n)
  <1>3. u \in Seq(Keys) /\ Len(u) = n /\ \A i \in 1..n : u[i] = d[i]
    <2> HIDE DEF n, d
    <2>1. n \in Nat /\ \A i \in 1..n : d[i] \in Keys
      BY <1>1, <1>2 DEF n, d
    <2> QED BY <2>1, FrontPart
  <1> QED BY <1>3 DEF TextOf

\* What strtok sees of a line that does not fill the buffer is the line.
LEMMA CStringIs ==
  ASSUME NEW s, LineOf(s), s.length < MAX_STR_SZ, NEW b \in Beyond
  PROVE  CString(s, b) = TextOf(s)
  <1> DEFINE n == s.length
             d == s.data
             S == Keys \cup {NUL} \cup Range(b)
             u == d \o b
             ends == {i \in DOMAIN u : u[i] = NUL}
  <1>1. /\ n \in Nat /\ n < MAX_STR_SZ /\ MAX_STR_SZ \in Nat
        /\ d \in [1..MAX_STR_SZ -> Keys \cup {NUL}]
    BY LineParts
  <1>2. d \in Seq(S) /\ Len(d) = MAX_STR_SZ
    BY <1>1
  <1>3. b \in Seq(S)
    <2>1. b \in Seq(Range(b))
      BY ScreenOK
    <2> QED BY <2>1
  <1> HIDE DEF d, S
  <1>4. Len(u) = MAX_STR_SZ + Len(b) /\ u \in Seq(S) /\ Len(b) \in Nat
    BY <1>2, <1>3, ConcatProperties
  <1>5. \A i \in 1..MAX_STR_SZ : u[i] = d[i]
    <2>1. \A i \in 1..(Len(d) + Len(b)) : u[i] = IF i <= Len(d) THEN d[i] ELSE b[i - Len(d)]
      BY <1>2, <1>3, ConcatProperties, Zenon
    <2> HIDE DEF u
    <2>2. \A i \in 1..MAX_STR_SZ : i \in 1..(Len(d) + Len(b)) /\ i <= Len(d)
      BY <1>1, <1>2, <1>4
    <2> QED BY <2>1, <2>2
  <1> HIDE DEF u
  <1>6. ends \in SUBSET Nat /\ n + 1 \in ends
    <2>1. DOMAIN u = 1..(MAX_STR_SZ + Len(b))
      BY <1>4
    <2>2. n + 1 \in 1..MAX_STR_SZ /\ n + 1 \in DOMAIN u
      BY <1>1, <1>4, <2>1
    <2>3. u[n + 1] = NUL
      BY <1>1, <1>5, <2>2 DEF LineOf, d
    <2> QED BY <2>1, <2>2, <2>3
  <1>7. \A i \in ends : n + 1 <= i
    <2> SUFFICES ASSUME NEW i \in ends, i <= n PROVE FALSE
      BY <1>1, <1>6
    <2>1. i \in Nat /\ i \in DOMAIN u /\ u[i] = NUL
      BY <1>6
    <2>2. i \in 1..MAX_STR_SZ
      BY <1>1, <1>4, <2>1
    <2> QED BY <1>1, <1>5, <2>1, <2>2 DEF LineOf, d
  <1> HIDE DEF ends
  <1>8. Min(ends) = n + 1
    <2>1. ends # {}
      BY <1>6
    <2>2. Min(ends) \in ends /\ \A y \in ends : Min(ends) <= y
      BY <1>6, <2>1, LeastIs
    <2>3. Min(ends) \in Nat
      BY <1>6, <2>2
    <2> QED BY <1>1, <1>6, <1>7, <2>2, <2>3
  <1>9. CString(s, b) = SubSeq(u, 1, n)
    <2>1. CString(s, b) = SubSeq(u, 1, IF ends = {} THEN Len(u) ELSE Min(ends) - 1)
      BY DEF CString, u, d, ends
    <2>2. ends # {} /\ (n + 1) - 1 = n
      BY <1>1, <1>6
    <2> QED BY <1>8, <2>1, <2>2
  <1>10. SubSeq(u, 1, n) = TextOf(s)
    <2> DEFINE v == SubSeq(u, 1, n)
    <2>1. /\ TextOf(s) \in Seq(Keys) /\ Len(TextOf(s)) = n
          /\ \A i \in 1..n : TextOf(s)[i] = d[i]
      BY TextIs DEF d
    <2>2. \A i \in 1..n : u[i] = d[i] /\ i \in 1..MAX_STR_SZ
      BY <1>1, <1>5
    <2>3. \A i \in 1..n : u[i] \in Keys
      <3>1. \A i \in 1..n : TextOf(s)[i] \in Keys
        BY <2>1
      <3> QED BY <2>1, <2>2, <3>1
    <2>4. v \in Seq(Keys) /\ Len(v) = n /\ \A i \in 1..n : v[i] = u[i]
      <3> HIDE DEF n
      <3> QED BY <1>1, <2>3, FrontPart
    <2> HIDE DEF v
    <2>7. \A i \in 1..n : v[i] = TextOf(s)[i]
      BY <2>1, <2>2, <2>4
    <2>8. v = TextOf(s)
      <3> HIDE DEF TextOf
      <3> QED BY <2>1, <2>4, <2>7, SeqEqual
    <2> QED BY <2>8 DEF v
  <1> QED BY <1>9, <1>10

\* get_cmd makes of a line what its words say.
LEMMA OrderMeant ==
  ASSUME NEW t, t \in Seq(Keys), Len(t) < MAX_STR_SZ, NEW o \in get_cmd(t)
  PROVE  Line!Means(o, t)
  <1> DEFINE cmd    == strtok(t, 1)
             number == strtok(t, cmd.next)
             msg    == strtok(t, number.next)
             ids    == my_atoi(number.token)
             valid  == ids \cap 1..MAX_PID
             fail   == IF ids = {} \/ ids # valid THEN {[pid |-> -3, msg |-> NULL]} ELSE {}
             W(k)   == Line!Word(t, k)
             No(k)  == [pid |-> k, msg |-> NULL]
  <1>1. /\ cmd.token = W(1)
        /\ cmd.token # NULL => number.token = W(2) /\ number.token \in Seq(Keys)
        /\ cmd.token # NULL /\ number.token # NULL => msg.token = W(3)
        /\ cmd.token # NULL /\ number.token = NULL => msg.token = NULL
    BY Tokens
  <1>2. get_cmd(t) = CASE cmd.token = NULL -> {No(-1)}
                       [] cmd.token # NULL /\ cmd.token # PROC -> {No(-2)}
                       [] OTHER -> {[pid |-> id, msg |-> msg.token] : id \in valid} \cup fail
    BY DEF get_cmd
  <1>3. /\ Line!Nothing = NULL /\ Len(t) # MAX_STR_SZ /\ <<"p">> # NULL /\ PROC = <<"p">>
        /\ \A k : Line!Rejected(k) = No(k)
    <2>1. Len(t) # MAX_STR_SZ
      BY LineOK
    <2>2. <<"p">> # NULL
      BY DEF NULL
    <2> QED BY <2>1, <2>2 DEF Line!Nothing, NULL, PROC, Line!Rejected
  <1> HIDE DEF cmd, number, msg, W, No
  <1>4. CASE W(1) = NULL
    <2>1. o = No(-1)
      BY <1>1, <1>2, <1>4
    <2> QED BY <1>3, <1>4, <2>1, Zenon DEF Line!Means, W
  <1>5. CASE W(1) # NULL /\ W(1) # PROC
    <2>1. o = No(-2)
      BY <1>1, <1>2, <1>5
    <2> QED BY <1>3, <1>5, <2>1, Zenon DEF Line!Means, W
  <1>6. CASE W(1) = PROC
    <2>1. W(1) # NULL /\ number.token = W(2) /\ number.token \in Seq(Keys)
      BY <1>1, <1>3, <1>6
    <2>2. o \in {[pid |-> id, msg |-> msg.token] : id \in valid} \cup fail
      BY <1>1, <1>2, <1>6, <2>1
    <2>3. fail \subseteq {No(-3)}
      BY DEF No
    <2>4. \/ o = No(-3) /\ (ids = {} \/ ids # valid)
          \/ \E id \in valid : o = [pid |-> id, msg |-> msg.token]
      BY <2>2, <2>3
    <2>5. CASE W(2) = NULL
      <3>1. o.pid \in {-3} \cup 1..MAX_PID /\ o.msg = NULL
        <4>1. msg.token = NULL
          BY <1>1, <2>1, <2>5
        <4> QED BY <2>4, <4>1 DEF No
      <3>2. ~Line!IsNumber(W(2))
        BY <1>3, <2>5 DEF Line!IsNumber
      <3> QED BY <1>3, <1>6, <2>1, <2>5, <3>1, <3>2, Zenon DEF Line!Means, W
    <2>6. CASE W(2) # NULL /\ ~Line!IsNumber(W(2))
      <3>1. ids = {}
        BY <2>1, <2>6, AtoiIs
      <3>2. o = No(-3)
        BY <2>4, <3>1
      <3> QED BY <1>3, <1>6, <2>1, <2>6, <3>2, Zenon DEF Line!Means, W
    <2>7. CASE W(2) # NULL /\ Line!IsNumber(W(2))
      <3> DEFINE n == Line!Value(W(2))
      <3>1. n \in Nat /\ \E x \in Int : ids = {x} /\ (n < INT => x = n)
        BY <2>1, <2>7, AtoiIs
      <3>2. msg.token = W(3)
        BY <1>1, <2>1, <2>7
      <3> HIDE DEF n
      <3>3. CASE n < INT
        <4>1. ids = {n} /\ ~(n >= INT)
          BY <3>1, <3>3, LineOK
        <4>2. CASE n \in 1..MAX_PID
          <5>1. valid = ids /\ valid = {n}
            BY <4>1, <4>2
          <5>2. o = [pid |-> n, msg |-> W(3)]
            BY <2>4, <3>2, <4>1, <5>1
          <5> QED BY <1>3, <1>6, <2>1, <2>7, <3>3, <4>1, <4>2, <5>2, SMT DEF Line!Means, W, n
        <4>3. CASE n \notin 1..MAX_PID
          <5>1. valid = {}
            BY <4>1, <4>3
          <5>2. o = No(-3)
            BY <2>4, <5>1
          <5> QED BY <1>3, <1>6, <2>1, <2>7, <3>3, <4>1, <4>3, <5>2, Zenon DEF Line!Means, W, n
        <4> QED BY <4>2, <4>3
      <3>4. CASE n >= INT
        <4>1. ~(n < INT)
          BY <3>1, <3>4, LineOK
        <4>2. o = No(-3) \/ (o.pid \in 1..MAX_PID /\ o.msg = W(3))
          BY <2>4, <3>2
        <4> QED BY <1>3, <1>6, <2>1, <2>7, <3>4, <4>1, <4>2, SMT DEF Line!Means, W, n
      <3>5. n < INT \/ n >= INT
        BY <3>1, LineOK
      <3> QED BY <3>3, <3>4, <3>5
    <2> QED BY <2>5, <2>6, <2>7
  <1> QED BY <1>4, <1>5, <1>6

\* The line with a character more, one less, and without any.
LEMMA TextAdded ==
  ASSUME NEW s, LineOf(s), NEW c \in Keys
  PROVE  TextOf(add_char(s, c)) = IF s.length < MAX_STR_SZ THEN Append(TextOf(s), c) ELSE TextOf(s)
  <1> DEFINE n == s.length
             d == [s.data EXCEPT ![n + 1] = c]
             r == add_char(s, c)
  <1>1. /\ n \in Nat /\ n <= MAX_STR_SZ /\ MAX_STR_SZ \in Nat
        /\ s.data \in [1..MAX_STR_SZ -> Keys \cup {NUL}]
    BY LineParts
  <1>2. CASE n = MAX_STR_SZ
    BY <1>1, <1>2 DEF add_char
  <1>3. CASE n # MAX_STR_SZ
    <2>1. LineOf(r)
      BY CharAdded
    <2>2. r = [length |-> n + 1, data |-> d]
      BY <1>3 DEF add_char
    <2> HIDE DEF r
    <2>3. r.length = n + 1 /\ r.data = d
      BY <2>2
    <2>4. /\ TextOf(r) \in Seq(Keys) /\ Len(TextOf(r)) = n + 1
          /\ \A i \in 1..(n + 1) : TextOf(r)[i] = d[i]
      BY <2>1, <2>3, TextIs
    <2>5. /\ TextOf(s) \in Seq(Keys) /\ Len(TextOf(s)) = n
          /\ \A i \in 1..n : TextOf(s)[i] = s.data[i]
      BY TextIs
    <2>6. \A i \in 1..(n + 1) : d[i] = IF i = n + 1 THEN c ELSE s.data[i]
      BY <1>1, <1>3
    <2> HIDE DEF TextOf, d
    <2>7. /\ Append(TextOf(s), c) \in Seq(Keys) /\ Len(Append(TextOf(s), c)) = n + 1
          /\ \A i \in 1..(n + 1) : Append(TextOf(s), c)[i] = IF i = n + 1 THEN c ELSE TextOf(s)[i]
      BY <2>5
    <2>8. \A i \in 1..(n + 1) : TextOf(r)[i] = Append(TextOf(s), c)[i]
      <3> TAKE i \in 1..(n + 1)
      <3>1. i # n + 1 => i \in 1..n
        BY <1>1
      <3> QED BY <2>4, <2>5, <2>6, <2>7, <3>1
    <2>9. TextOf(r) = Append(TextOf(s), c)
      BY <2>4, <2>7, <2>8, SeqEqual
    <2> QED BY <1>1, <1>3, <2>9 DEF r
  <1> QED BY <1>2, <1>3

LEMMA TextRemoved ==
  ASSUME NEW s, LineOf(s)
  PROVE  TextOf(remove_char(s)) = IF TextOf(s) = <<>> THEN TextOf(s) ELSE Front(TextOf(s))
  <1> DEFINE n == s.length
             d == [s.data EXCEPT ![n] = NUL]
             r == remove_char(s)
             t == TextOf(s)
  <1>1. /\ n \in Nat /\ n <= MAX_STR_SZ /\ MAX_STR_SZ \in Nat
        /\ s.data \in [1..MAX_STR_SZ -> Keys \cup {NUL}]
    BY LineParts
  <1>2. t \in Seq(Keys) /\ Len(t) = n /\ \A i \in 1..n : t[i] = s.data[i]
    BY TextIs
  <1>3. CASE n = 0
    <2>1. remove_char(s) = s
      BY <1>3 DEF remove_char
    <2> HIDE DEF t
    <2>2. t = <<>>
      BY <1>2, <1>3
    <2> QED BY <2>1, <2>2 DEF t
  <1>4. CASE n # 0
    <2>1. LineOf(r)
      BY CharRemoved
    <2>2. r = [length |-> n - 1, data |-> d]
      BY <1>4 DEF remove_char
    <2> HIDE DEF r
    <2>3. r.length = n - 1 /\ r.data = d
      BY <2>2
    <2>4. /\ TextOf(r) \in Seq(Keys) /\ Len(TextOf(r)) = n - 1
          /\ \A i \in 1..(n - 1) : TextOf(r)[i] = d[i]
      BY <2>1, <2>3, TextIs, ZenonT(60)
    <2>5. \A i \in 1..(n - 1) : d[i] = s.data[i]
      BY <1>1, <1>4
    <2> HIDE DEF t, d
    <2>6. t # <<>> /\ n - 1 \in Nat
      BY <1>1, <1>2, <1>4
    <2>7. Front(t) = SubSeq(t, 1, n - 1)
      BY <1>2 DEF Front
    <2>8. \A i \in 1..(n - 1) : t[i] \in Keys
      BY <1>1, <1>2
    <2>9. /\ Front(t) \in Seq(Keys) /\ Len(Front(t)) = n - 1
          /\ \A i \in 1..(n - 1) : Front(t)[i] = t[i]
      BY <2>6, <2>7, <2>8, FrontPart
    <2> HIDE DEF TextOf
    <2>10. \A i \in 1..(n - 1) : TextOf(r)[i] = Front(t)[i]
      <3>1. \A i \in 1..(n - 1) : i \in 1..n
        BY <1>1
      <3> QED BY <1>2, <2>4, <2>5, <2>9, <3>1
    <2>11. TextOf(r) = Front(t)
      BY <2>4, <2>9, <2>10, SeqEqual
    <2> QED BY <2>6, <2>11 DEF r, t
  <1> QED BY <1>3, <1>4

LEMMA NoText ==
  ASSUME NEW s, s.length = 0
  PROVE  TextOf(s) = <<>>
  BY SubSeqEmpty DEF TextOf

Skip == IF esc_cmd THEN 2 - esc_cmd_count ELSE 0

LEMMA ReceiveLine ==
  ASSUME Inv, NEW c \in scene.keys, UartReceive(c)
  PROVE  /\ UNCHANGED <<order, str>>
         /\ \/ /\ c = "ESC" \/ Skip > 0
               /\ Skip' = IF c = "ESC" THEN 2 ELSE Skip - 1
               /\ UNCHANGED key
            \/ c # "ESC" /\ Skip = 0 /\ Skip' = 0 /\ key = "none" /\ key' = c
  <1>1. UNCHANGED <<order, str>>
    BY DEF UartReceive
  <1>2. esc_cmd \in BOOLEAN /\ esc_cmd_count \in 0..3 /\ (esc_cmd => esc_cmd_count \in 0..2)
    BY DEF Inv, Keyboard
  <1>3. CASE c = "ESC"
    BY <1>1, <1>3 DEF UartReceive, Skip
  <1>4. CASE c # "ESC" /\ ~esc_cmd
    BY <1>1, <1>4 DEF UartReceive, Skip
  <1>5. CASE c # "ESC" /\ esc_cmd /\ esc_cmd_count = 2
    <2>1. esc_cmd_count + 1 = 3
      BY <1>5
    <2>2. ~esc_cmd' /\ key = "none" /\ key' = c
      BY <1>5, <2>1 DEF UartReceive
    <2> QED BY <1>1, <1>5, <2>2 DEF Skip
  <1>6. CASE c # "ESC" /\ esc_cmd /\ esc_cmd_count # 2
    <2>1. esc_cmd_count \in 0..1 /\ esc_cmd_count + 1 # 3
      BY <1>2, <1>6
    <2>2. esc_cmd' /\ key' = key /\ esc_cmd_count' = esc_cmd_count + 1
      BY <1>6, <2>1 DEF UartReceive
    <2> QED BY <1>1, <1>6, <2>1, <2>2 DEF Skip
  <1> QED BY <1>2, <1>3, <1>4, <1>5, <1>6

LEMMA DecodeLine ==
  ASSUME Inv, decode_cmd
  PROVE  /\ Skip' = Skip /\ key' = "none" /\ key # "none"
         /\ IF key = "ENTER"
            THEN TextOf(str)' = <<>> /\ Line!Means(order', TextOf(str))
            ELSE /\ order' = NoOrder
                 /\ TextOf(str)' =
                      IF key = "BACKSPACE"
                      THEN IF TextOf(str) = <<>> THEN TextOf(str) ELSE Front(TextOf(str))
                      ELSE IF Len(TextOf(str)) < MAX_STR_SZ THEN Append(TextOf(str), key)
                           ELSE TextOf(str)
  <1>1. Skip' = Skip /\ key' = "none" /\ key # "none" /\ key \in Keys /\ LineOf(str)
    BY DEF decode_cmd, Skip, Inv, Keyboard, LineInv
  <1>2. Len(TextOf(str)) = str.length /\ TextOf(str) \in Seq(Keys)
    BY <1>1, TextIs
  <1>3. str.length \in Nat /\ MAX_STR_SZ \in Nat /\ str.length <= MAX_STR_SZ
    BY <1>1, LineParts
  <1>4. CASE key = "ENTER"
    <2>1. key # "BACKSPACE" /\ key # TAB
      BY <1>4 DEF TAB
    <2>2. str' = reset_str(str)
      BY <1>4, <2>1 DEF decode_cmd
    <2>3. TextOf(str)' = <<>>
      <3>1. str'.length = 0
        BY <1>1, <2>2, LineReset
      <3> QED BY <3>1, NoText
    <2>4. PICK b \in Beyond : order' \in get_cmd(CString(str, b))
      BY <1>4 DEF decode_cmd
    <2>5. Line!Means(order', TextOf(str))
      <3>1. CASE str.length = MAX_STR_SZ
        <4>1. \/ order'.pid \in 1..MAX_PID
              \/ \E why \in (-3)..(-1) : order' = [pid |-> why, msg |-> NULL]
          BY <2>4, PidBounds
        <4>2. \A why : Line!Rejected(why) = [pid |-> why, msg |-> NULL]
          BY DEF Line!Rejected, Line!Nothing, NULL
        <4> QED BY <1>2, <3>1, <4>1, <4>2, Zenon DEF Line!Means
      <3>2. CASE str.length # MAX_STR_SZ
        <4>1. CString(str, b) = TextOf(str) /\ Len(TextOf(str)) < MAX_STR_SZ
          BY <1>1, <1>2, <1>3, <3>2, CStringIs
        <4> HIDE DEF get_cmd, CString, TextOf
        <4> QED BY <1>2, <2>4, <4>1, OrderMeant
      <3> QED BY <3>1, <3>2
    <2> QED BY <1>1, <1>4, <2>3, <2>5
  <1>5. CASE key = "BACKSPACE"
    <2>1. str' = remove_char(str) /\ order' = NoOrder
      BY <1>5, Zenon DEF decode_cmd, TAB
    <2>2. TextOf(str') = IF TextOf(str) = <<>> THEN TextOf(str) ELSE Front(TextOf(str))
      BY <1>1, <2>1, TextRemoved
    <2>3. TextOf(str)' = TextOf(str')
      BY DEF TextOf
    <2> QED BY <1>1, <1>5, <2>1, <2>2, <2>3
  <1>6. CASE key # "ENTER" /\ key # "BACKSPACE"
    <2>1. order' = NoOrder
      BY <1>6 DEF decode_cmd
    <2>2. TextOf(str)' = TextOf(str')
      BY DEF TextOf
    <2>3. str' = add_char(str, key) \/ (str' = str /\ ~(str.length < MAX_STR_SZ))
      BY <1>6, Zenon DEF decode_cmd
    <2>4. TextOf(add_char(str, key)) = IF str.length < MAX_STR_SZ THEN Append(TextOf(str), key)
                                       ELSE TextOf(str)
      BY <1>1, TextAdded
    <2> HIDE DEF TextOf, add_char
    <2> QED BY <1>1, <1>2, <1>6, <2>1, <2>2, <2>3, <2>4
  <1> QED BY <1>4, <1>5, <1>6

\* The escape filter, the buffer with its NULs, strtok and my_atoi are a line editor,
\* for every length of the buffer and every set of keys.
THEOREM LineImplemented == Spec => ImplementsLine
  <1>1. Init => Line!Init
    <2> SUFFICES ASSUME Init PROVE Line!Init
      OBVIOUS
    <2>1. ~esc_cmd /\ key = "none" /\ order = NoOrder /\ str.length = 0
      BY DEF Init, Empty
    <2>2. SubSeq(str.data, 1, str.length) = <<>>
      BY <2>1, SubSeqEmpty
    <2> QED BY <2>1, <2>2 DEF Line!Init, Line!NoKey, Line!NoOrder, Line!Nothing, NoOrder, NULL
  <1>2. ASSUME Inv, Inv', [Next]_vars
        PROVE  [Line!Next]_<<Skip, key, TextOf(str), order>>
    <2>1. ASSUME UNCHANGED line PROVE UNCHANGED <<Skip, key, TextOf(str), order>>
      BY <2>1 DEF line, Skip, TextOf
    <2>2. ASSUME NEW c \in scene.keys, UartReceive(c)
          PROVE  Line!Next
      <3>1. c \in UNION {s.keys : s \in Scenes}
        BY <1>2, KeysAre DEF Inv, Registered, Keys
      <3>2. Line!Escape(c) \/ Line!Press(c)
        BY <1>2, <2>2, ReceiveLine
          DEF Line!Escape, Line!Press, Line!NoKey, Skip, TextOf
      <3> QED BY <3>1, <3>2 DEF Line!Next
    <2>3. ASSUME decode_cmd PROVE Line!Edit \/ Line!Enter
      <3>1. CASE key = "ENTER"
        BY <1>2, <2>3, <3>1, DecodeLine DEF Line!Enter, Line!NoKey, Skip, TextOf
      <3>2. CASE key # "ENTER"
        <4>1. /\ Skip' = Skip /\ key' = "none" /\ key # "none" /\ order' = NoOrder
              /\ TextOf(str)' =
                   IF key = "BACKSPACE"
                   THEN IF TextOf(str) = <<>> THEN TextOf(str) ELSE Front(TextOf(str))
                   ELSE IF Len(TextOf(str)) < MAX_STR_SZ THEN Append(TextOf(str), key)
                        ELSE TextOf(str)
          BY <1>2, <2>3, <3>2, DecodeLine
        <4>2. \A t : Line!Front(t) = Front(t)
          BY DEF Line!Front, Front
        <4>3. Line!NoOrder = NoOrder /\ Line!NoKey = "none"
          BY DEF Line!NoOrder, Line!Nothing, NoOrder, NULL, Line!NoKey
        <4>4. CASE key = "BACKSPACE"
          BY <3>2, <4>1, <4>2, <4>3, <4>4, Zenon DEF Line!Edit, Skip, TextOf
        <4>5. CASE key # "BACKSPACE" /\ Len(TextOf(str)) < MAX_STR_SZ
          BY <3>2, <4>1, <4>3, <4>5, Zenon DEF Line!Edit, Skip, TextOf
        <4>6. CASE key # "BACKSPACE" /\ ~(Len(TextOf(str)) < MAX_STR_SZ)
          BY <3>2, <4>1, <4>3, <4>6, Zenon DEF Line!Edit, Skip, TextOf
        <4> QED BY <4>4, <4>5, <4>6
      <3> QED BY <3>1, <3>2
    <2>4. CASE reg_proc
      BY <2>1, <2>4 DEF reg_proc
    <2>5. CASE main
      BY <2>1, <2>5 DEF main
    <2>6. CASE InputStep
      BY <2>1, <2>6 DEF InputStep
    <2>7. ASSUME NEW w \in DOMAIN awake_windows,
                 send_to_window(w) \/ \E nl \in BOOLEAN : KernelPrint(w, nl)
          PROVE  UNCHANGED <<Skip, key, TextOf(str), order>>
      BY <2>1, <2>7 DEF send_to_window, KernelPrint
    <2>8. CASE OutputStep
      BY <2>1, <2>8 DEF OutputStep
    <2>9. CASE UNCHANGED vars
      BY <2>1, <2>9 DEF vars
    <2> QED BY <1>2, <2>2, <2>3, <2>4, <2>5, <2>6, <2>7, <2>8, <2>9 DEF Next, Line!Next
  <1>3. Inv /\ Inv' /\ [Next]_vars
          => [Line!Next]_<<IF esc_cmd THEN 2 - esc_cmd_count ELSE 0, key,
                           SubSeq(str.data, 1, str.length), order>>
    BY <1>2 DEF Skip, TextOf
  <1> QED BY <1>1, <1>3, InvHolds, PTL DEF Spec, ImplementsLine, Line!Spec

=============================================================================
