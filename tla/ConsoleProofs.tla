--------------------------- MODULE ConsoleProofs ----------------------------
(***************************************************************************)
(* Theorems about the console, for every screen size.  Finish, the end of  *)
(* every putc, is dealt with once: FinishSafe says it leaves the cursor on *)
(* the screen, FinishMoves that on the teletype's paper it only moves.     *)
(***************************************************************************)
EXTENDS Console, TLAPS

-----------------------------------------------------------------------------
(* The end of putc. *)

\* The switch of putc leaves the cursor at most one column past the right edge, or at
\* the left edge one row past the bottom.
AfterSwitch(x, y) ==
  /\ x \in 0 .. SCREEN_WIDTH
  /\ y \in 0 .. SCREEN_HEIGHT
  /\ x > 0 => y < SCREEN_HEIGHT

\* The row Finish goes to, before it scrolls.
RowAfter(x, y) == IF x >= SCREEN_WIDTH THEN y + 1 ELSE y

\* Scrolling keeps the buffer a buffer.
LEMMA ScrolledBuffer ==
  ASSUME ConsoleAssumption, NEW c \in Buffer
  PROVE  Scrolled(c, 1) \in Buffer
<1>1. EmptyRow \in Row
  BY DEF EmptyRow, Row
<1>2. ASSUME NEW r \in Rows
      PROVE  (IF r + 1 < SCREEN_HEIGHT THEN c[r + 1] ELSE EmptyRow) \in Row
  <2>1. CASE r + 1 < SCREEN_HEIGHT
    <3>1. r + 1 \in Rows
      BY <2>1, <1>2 DEF ConsoleAssumption, Rows
    <3>2. QED
      BY <3>1, <2>1 DEF Buffer
  <2>2. CASE ~(r + 1 < SCREEN_HEIGHT)
    BY <2>2, <1>1
  <2>3. QED
    BY <2>1, <2>2
<1>3. QED
  BY <1>2 DEF Scrolled, Buffer

\* After Finish the cursor is on the screen, at the row it goes to less the scrolling,
\* the hardware cursor with it.
LEMMA FinishSafe ==
  ASSUME ConsoleAssumption, NEW c \in Buffer, NEW x \in Int, NEW y \in Int,
         AfterSwitch(x, y), above \in Seq(Row), Finish(c, x, y)
  PROVE  /\ screenX' = IF x >= SCREEN_WIDTH THEN 0 ELSE x
         /\ screenX' \in Columns
         /\ screenY' \in Rows
         /\ hwCursor' = screenY' * SCREEN_WIDTH + screenX'
         /\ cells' \in Buffer
         /\ above' \in Seq(Row)
         /\ Len(above') + screenY' = Len(above) + RowAfter(x, y)
         /\ Len(above') = IF RowAfter(x, y) >= SCREEN_HEIGHT
                          THEN Len(above) + 1 ELSE Len(above)
<1> DEFINE row == RowAfter(x, y)
<1>1. row \in 0 .. SCREEN_HEIGHT
  BY DEF RowAfter, AfterSwitch, ConsoleAssumption
<1>2. /\ screenX' = IF x >= SCREEN_WIDTH THEN 0 ELSE x
      /\ hwCursor' = screenY' * SCREEN_WIDTH + screenX'
      /\ IF row >= SCREEN_HEIGHT
         THEN cells' = Scrolled(c, 1) /\ above' = Append(above, c[0]) /\ screenY' = row - 1
         ELSE cells' = c /\ screenY' = row /\ above' = above
  BY DEF Finish, setcursor, RowAfter
<1>3. screenX' \in Columns
  BY <1>2 DEF AfterSwitch, Columns, ConsoleAssumption
<1>4. CASE row >= SCREEN_HEIGHT
  <2>1. row = SCREEN_HEIGHT /\ screenY' = SCREEN_HEIGHT - 1
    BY <1>1, <1>2, <1>4 DEF ConsoleAssumption
  <2>2. c[0] \in Row
    BY DEF Buffer, Rows, ConsoleAssumption
  <2>3. above' \in Seq(Row) /\ Len(above') = Len(above) + 1
    BY <1>2, <1>4, <2>2
  <2>4. Scrolled(c, 1) \in Buffer
    BY ScrolledBuffer
  <2>5. Len(above) \in Nat
    OBVIOUS
  <2>6. screenY' \in Rows
    BY <2>1 DEF Rows, ConsoleAssumption
  <2>7. Len(above') + screenY' = Len(above) + row
    BY <2>1, <2>3, <2>5 DEF ConsoleAssumption
  <2>8. QED
    BY <1>2, <1>3, <1>4, <2>3, <2>4, <2>6, <2>7
<1>5. CASE ~(row >= SCREEN_HEIGHT)
  <2>1. screenY' \in Rows
    BY <1>1, <1>2, <1>5 DEF Rows, ConsoleAssumption
  <2>2. QED
    BY <1>2, <1>3, <1>5, <2>1
<1>6. QED
  BY <1>4, <1>5
-----------------------------------------------------------------------------
(* The invariant. *)

\* Before the first call the screen is the BIOS's.
LEMMA InitConsole ==
  ConsoleAssumption /\ Init => ConsoleInv
<1> SUFFICES ASSUME ConsoleAssumption, Init
             PROVE  ConsoleInv
  OBVIOUS
<1>1. TypeOK
  <2>1. /\ DOMAIN cells = Rows
        /\ \A r \in Rows : cells[r] \in [Columns -> Chars \cup {NUL, BiosChar}]
    BY DEF Init
  <2>2. screenX \in Columns /\ screenY \in Rows /\ calls \in 0 .. MaxCalls
    BY DEF Init, Rows, Columns, ConsoleAssumption
  <2>3. QED
    BY <2>1, <2>2 DEF Init, TypeOK
<1>2. HwCursorMatches /\ LoopOK /\ LinesBounded
  BY DEF Init, HwCursorMatches, LoopOK, LinesBounded
<1>3. QED
  BY <1>1, <1>2 DEF ConsoleInv

\* A written cell is a cell of the buffer.
LEMMA PutBuffer ==
  ASSUME ready, cells \in Buffer, NEW chr \in Chars \cup {NUL},
         NEW x \in Columns, NEW y \in Rows
  PROVE  putchr(x, y, chr) \in Buffer
<1>1. cells[y] \in Row
  BY DEF Buffer
<1>2. [cells[y] EXCEPT ![x] = chr] \in Row
  BY <1>1 DEF Row
<1>3. putchr(x, y, chr) = [cells EXCEPT ![y] = [cells[y] EXCEPT ![x] = chr]]
  BY DEF putchr, Buffer
<1>4. QED
  BY <1>2, <1>3 DEF Buffer

\* A step that ends with Finish keeps the invariant, if it leaves the call no more lines
\* to go down than it had.
LEMMA FinishKeepsInv ==
  ASSUME ConsoleAssumption, ConsoleInv, ready, ~dead, ready' = ready, dead' = dead,
         NEW c \in Buffer, NEW x \in Int, NEW y \in Int, AfterSwitch(x, y),
         Finish(c, x, y),
         tabI' \in -1 .. 4, calls' \in 0 .. MaxCalls,
         RowAfter(x, y) + (IF tabI' = -1 THEN 0 ELSE 4 - tabI') - 4 * calls'
           <= screenY + (IF tabI = -1 THEN 0 ELSE 4 - tabI) - 4 * calls
  PROVE  ConsoleInv'
<1>1. above \in Seq(Row) /\ screenY \in Int
  BY DEF ConsoleInv, TypeOK, Rows
<1>2. /\ screenX' \in Columns
      /\ screenY' \in Rows
      /\ hwCursor' = screenY' * SCREEN_WIDTH + screenX'
      /\ cells' \in Buffer
      /\ above' \in Seq(Row)
      /\ Len(above') + screenY' = Len(above) + RowAfter(x, y)
  BY <1>1, FinishSafe
<1>3. TypeOK'
  <2>1. \A r \in Rows : cells'[r] \in [Columns -> Chars \cup {NUL, BiosChar}]
    <3>1. \A r \in Rows : cells'[r] \in [Columns -> Chars \cup {NUL}]
      BY <1>2 DEF Buffer, Row
    <3>2. [Columns -> Chars \cup {NUL}] \subseteq [Columns -> Chars \cup {NUL, BiosChar}]
      OBVIOUS
    <3>3. QED
      BY <3>1, <3>2
  <2>2. DOMAIN cells' = Rows
    BY <1>2 DEF Buffer
  <2>3. ready' \in BOOLEAN /\ dead' \in BOOLEAN
    BY DEF ConsoleInv, TypeOK
  <2>4. QED
    BY <1>2, <2>1, <2>2, <2>3 DEF TypeOK
<1>4. HwCursorMatches'
  BY <1>2 DEF HwCursorMatches
<1>5. LoopOK'
  BY DEF LoopOK
<1>6. LinesBounded'
  <2>1. Len(above) \in Nat /\ Len(above') \in Nat /\ RowAfter(x, y) \in Int
        /\ screenY' \in Int /\ tabI \in Int /\ calls \in Int
    BY <1>1, <1>2 DEF RowAfter, ConsoleInv, TypeOK, Rows, ConsoleAssumption
  <2>2. Len(above) + screenY + (IF tabI = -1 THEN 0 ELSE 4 - tabI) <= 4 * calls
    BY DEF ConsoleInv, LinesBounded
  <2>3. tabI' \in Int /\ calls' \in Int /\ ~dead'
    BY <2>1 DEF ConsoleInv, TypeOK
  <2> DEFINE i == IF tabI = -1 THEN 0 ELSE 4 - tabI
             j == IF tabI' = -1 THEN 0 ELSE 4 - tabI'
  <2>4. Len(above') + screenY' + j <= 4 * calls'
    <3>1. i \in Int /\ j \in Int
      BY <2>1, <2>3
    <3>2. RowAfter(x, y) + j - 4 * calls' <= screenY + i - 4 * calls
      OBVIOUS
    <3>3. Len(above) + screenY + i <= 4 * calls
      BY <2>2
    <3>4. Len(above') + screenY' = Len(above) + RowAfter(x, y)
      BY <1>2
    <3> HIDE DEF i, j
    <3>5. /\ Len(above) \in Int /\ Len(above') \in Int /\ screenY \in Int /\ screenY' \in Int
          /\ RowAfter(x, y) \in Int /\ calls \in Int /\ calls' \in Int
      BY <1>1, <2>1, <2>3
    <3>6. RowAfter(x, y) + j <= screenY + i - 4 * calls + 4 * calls'
      BY <3>1, <3>2, <3>5
    <3>7. RowAfter(x, y) + Len(above) + j <= 4 * calls'
      BY <3>1, <3>3, <3>5, <3>6, SMTT(30)
    <3>8. QED
      BY <3>1, <3>4, <3>5, <3>7
  <2>5. QED
    BY <2>3, <2>4 DEF LinesBounded
<1>7. QED
  BY <1>3, <1>4, <1>5, <1>6 DEF ConsoleInv

\* Every call, and every blank of a tab, keeps the invariant.
LEMMA NextConsole ==
  ConsoleAssumption /\ ConsoleInv /\ [Next]_vars => ConsoleInv'
<1> SUFFICES ASSUME ConsoleAssumption, ConsoleInv, [Next]_vars
             PROVE  ConsoleInv'
  OBVIOUS
<1>1. /\ calls \in 0 .. MaxCalls
      /\ above \in Seq(Row)
      /\ tabI \in -1 .. 4
      /\ screenX \in Columns /\ (~dead => screenY \in Rows)
      /\ ready => cells \in Buffer
      /\ tabI # -1 => ready /\ ~dead
      /\ MaxCalls \in Nat
      /\ SCREEN_WIDTH \in Nat \ {0} /\ SCREEN_HEIGHT \in Nat \ {0}
      /\ Space \in Chars
  BY DEF ConsoleInv, TypeOK, LoopOK, ConsoleAssumption
<1>2. ASSUME Putc
      PROVE  /\ ready /\ ~dead /\ tabI = -1
             /\ calls' = calls + 1 /\ calls' \in 0 .. MaxCalls
             /\ cells \in Buffer /\ screenX \in Columns /\ screenY \in Rows
  BY <1>1, <1>2 DEF Putc, Called
<1>3. CASE clrscr
  <2>1. [r \in Rows |-> EmptyRow] \in Buffer
    BY DEF Buffer, Row, EmptyRow
  <2>2. TypeOK'
    <3>1. \A r \in Rows : cells'[r] \in [Columns -> Chars \cup {NUL, BiosChar}]
      BY <1>3 DEF clrscr, EmptyRow
    <3>2. screenX' \in Columns /\ screenY' \in Rows
      BY <1>1, <1>3 DEF clrscr, Columns, Rows
    <3>3. calls' \in 0 .. MaxCalls
      BY <1>1, <1>3 DEF clrscr, Called
    <3>4. QED
      BY <1>1, <1>3, <2>1, <3>1, <3>2, <3>3 DEF clrscr, Called, TypeOK
  <2>3. HwCursorMatches'
    BY <1>1, <1>3 DEF clrscr, setcursor, HwCursorMatches
  <2>4. LoopOK' /\ LinesBounded'
    BY <1>1, <1>3 DEF clrscr, Called, LoopOK, LinesBounded
  <2>5. QED
    BY <2>2, <2>3, <2>4 DEF ConsoleInv
<1>4. ASSUME NEW chr \in Chars, PrintChar(chr)
      PROVE  ConsoleInv'
  <2>1. Putc /\ UNCHANGED <<tabI, ready, dead>>
        /\ Finish(putchr(screenX, screenY, chr), screenX + 1, screenY)
    BY <1>4 DEF PrintChar
  <2>2. putchr(screenX, screenY, chr) \in Buffer
    BY <1>2, <2>1, PutBuffer
  <2>3. AfterSwitch(screenX + 1, screenY)
    BY <1>1, <1>2, <2>1 DEF AfterSwitch, Columns, Rows
  <2>4. RowAfter(screenX + 1, screenY) <= screenY + 1
    BY <1>2, <2>1 DEF RowAfter, Rows
  <2>5. QED
    BY <1>1, <1>2, <2>1, <2>2, <2>3, <2>4, FinishKeepsInv DEF Columns, Rows, RowAfter
<1>5. CASE NewLine
  <2>1. Putc /\ UNCHANGED <<tabI, ready, dead>> /\ Finish(cells, 0, screenY + 1)
    BY <1>5 DEF NewLine
  <2>2. AfterSwitch(0, screenY + 1) /\ RowAfter(0, screenY + 1) = screenY + 1
    BY <1>1, <1>2, <2>1 DEF AfterSwitch, RowAfter, Rows
  <2>3. QED
    BY <1>1, <1>2, <2>1, <2>2, FinishKeepsInv DEF Rows
<1>6. CASE Return
  <2>1. Putc /\ UNCHANGED <<tabI, ready, dead>> /\ Finish(cells, 0, screenY)
    BY <1>6 DEF Return
  <2>2. AfterSwitch(0, screenY) /\ RowAfter(0, screenY) = screenY
    BY <1>1, <1>2, <2>1 DEF AfterSwitch, RowAfter, Rows
  <2>3. QED
    BY <1>1, <1>2, <2>1, <2>2, FinishKeepsInv DEF Rows
<1>7. CASE Backspace
  <2>1. Putc /\ UNCHANGED <<tabI, ready>>
    BY <1>7 DEF Backspace
  <2>2. CASE screenX = 0 /\ screenY = 0
    <3>1. /\ dead' = TRUE
          /\ UNCHANGED <<cells, hwCursor, above>>
      BY <1>7, <2>2 DEF Backspace
    <3>2. TypeOK'
      <4>1. screenX' \in Columns
        BY <1>1, <1>7, <2>2 DEF Backspace, Columns
      <4>2. QED
        BY <1>2, <2>1, <3>1, <4>1 DEF ConsoleInv, TypeOK
    <3>3. HwCursorMatches' /\ LoopOK'
      BY <1>2, <2>1, <3>1 DEF HwCursorMatches, LoopOK
    <3>4. Len(above) <= 4 * calls /\ Len(above) \in Nat
      BY <1>1, <1>2, <2>1, <2>2 DEF ConsoleInv, LinesBounded
    <3>5. LinesBounded'
      BY <1>1, <1>2, <2>1, <3>1, <3>4 DEF LinesBounded
    <3>6. QED
      BY <3>2, <3>3, <3>5 DEF ConsoleInv
  <2>3. CASE ~(screenX = 0 /\ screenY = 0)
    <3> DEFINE x == IF screenX = 0 THEN SCREEN_WIDTH - 1 ELSE screenX - 1
               y == IF screenX = 0 THEN screenY - 1 ELSE screenY
    <3>1. Finish(putchr(x, y, Space), x, y) /\ dead' = dead
      BY <1>7, <2>3 DEF Backspace
    <3>2. x \in Columns /\ y \in Rows /\ y <= screenY
      BY <1>1, <1>2, <2>1, <2>3 DEF Columns, Rows
    <3>3. putchr(x, y, Space) \in Buffer
      BY <1>1, <1>2, <2>1, <3>2, PutBuffer
    <3>4. AfterSwitch(x, y) /\ RowAfter(x, y) = y
      BY <1>1, <3>2 DEF AfterSwitch, RowAfter, Columns, Rows
    <3> HIDE DEF x, y
    <3>5. QED
      BY <1>1, <1>2, <2>1, <3>1, <3>2, <3>3, <3>4, FinishKeepsInv DEF Columns, Rows
  <2>4. QED
    BY <2>2, <2>3
<1>8. CASE Tab
  <2>1. Putc /\ tabI' = 0 /\ UNCHANGED <<cells, cursor, ready, dead, above>>
    BY <1>8 DEF Tab
  <2>2. TypeOK' /\ HwCursorMatches' /\ LoopOK'
    BY <1>2, <2>1 DEF ConsoleInv, TypeOK, HwCursorMatches, LoopOK, cursor
  <2>3. Len(above) + screenY <= 4 * calls /\ Len(above) \in Nat /\ screenY \in Int
    BY <1>1, <1>2, <2>1 DEF ConsoleInv, LinesBounded, Rows
  <2>4. LinesBounded'
    BY <1>1, <1>2, <2>1, <2>3 DEF LinesBounded, cursor
  <2>5. QED
    BY <2>2, <2>4 DEF ConsoleInv
<1>9. CASE TabBlank
  <2>1. /\ 0 <= tabI /\ tabI < 4 - (screenX % 4)
        /\ Finish(putchr(screenX, screenY, Space), screenX + 1, screenY)
        /\ tabI' = tabI + 1
        /\ UNCHANGED <<ready, dead, calls>>
    BY <1>9 DEF TabBlank
  <2>2. /\ ready /\ ~dead /\ cells \in Buffer
        /\ screenX \in Columns /\ screenY \in Rows /\ tabI \in 0 .. 4
    BY <1>1, <2>1
  <2>3. screenX % 4 \in 0 .. 3
    BY <2>2 DEF Columns
  <2>4. tabI' \in 1 .. 4
    BY <2>1, <2>2, <2>3
  <2>5. putchr(screenX, screenY, Space) \in Buffer
    BY <1>1, <2>2, PutBuffer
  <2>6. AfterSwitch(screenX + 1, screenY) /\ RowAfter(screenX + 1, screenY) <= screenY + 1
    BY <1>1, <2>2 DEF AfterSwitch, RowAfter, Columns, Rows
  <2>7. QED
    BY <1>1, <2>1, <2>2, <2>4, <2>5, <2>6, FinishKeepsInv DEF Columns, Rows, RowAfter
<1>10. CASE TabEnd
  <2>1. /\ tabI # -1
        /\ Finish(cells, screenX, screenY)
        /\ tabI' = -1
        /\ UNCHANGED <<ready, dead, calls>>
    BY <1>10 DEF TabEnd
  <2>3. /\ ready /\ ~dead /\ cells \in Buffer
        /\ screenX \in Columns /\ screenY \in Rows /\ tabI \in 0 .. 4
    BY <1>1, <2>1
  <2>4. AfterSwitch(screenX, screenY) /\ RowAfter(screenX, screenY) = screenY
    BY <1>1, <2>3 DEF AfterSwitch, RowAfter, Columns, Rows
  <2>5. QED
    BY <1>1, <2>1, <2>3, <2>4, FinishKeepsInv DEF Columns, Rows
<1>11. CASE UNCHANGED vars
  BY <1>11 DEF vars, cursor, ConsoleInv, TypeOK, HwCursorMatches, LoopOK, LinesBounded
<1>12. QED
  BY <1>3, <1>4, <1>5, <1>6, <1>7, <1>8, <1>9, <1>10, <1>11 DEF Next
\* The invariant holds in every reachable state.
THEOREM ConsoleInvariant == Spec => []ConsoleInv
<1>1. ConsoleAssumption
  BY ConsoleAssumption
<1>2. Init => ConsoleInv
  BY <1>1, InitConsole
<1>3. ConsoleInv /\ [Next]_vars => ConsoleInv'
  BY <1>1, NextConsole
<1>4. QED
  BY <1>2, <1>3, PTL DEF Spec

\* On a screen of any size putchr writes inside the text buffer, and cursor, buffer and
\* tab loop keep their types (putc.c, clrscr.c).
THEOREM CursorOnScreen == Spec => []TypeOK
<1>1. ConsoleInv => TypeOK
  BY DEF ConsoleInv
<1>2. QED
  BY <1>1, ConsoleInvariant, PTL

\* The hardware cursor follows screenX and screenY (setcursor.c at the end of putc.c).
THEOREM CursorFollows == Spec => []HwCursorMatches
<1>1. ConsoleInv => HwCursorMatches
  BY DEF ConsoleInv
<1>2. QED
  BY <1>1, ConsoleInvariant, PTL

-----------------------------------------------------------------------------
(* The console is a teletype. *)

\* Scrolling a line up does not change the paper: the row goes from the screen to the
\* rows above, and the new one is blank as the paper is.
LEMMA ScrollKeepsPaper ==
  ASSUME ConsoleAssumption, NEW a \in Seq(Row), NEW c \in Buffer
  PROVE  PaperOf(Append(a, c[0]), Scrolled(c, 1)) = PaperOf(a, c)
<1> DEFINE b == Append(a, c[0])
<1>1. c[0] \in Row
  BY DEF Buffer, Rows, ConsoleAssumption
<1>2. /\ Len(b) = Len(a) + 1
      /\ b[Len(a) + 1] = c[0]
      /\ \A i \in 1 .. Len(a) : b[i] = a[i]
  BY <1>1
<1>3. Len(a) \in Nat /\ LastLine \in Nat /\ SCREEN_HEIGHT \in Nat /\ SCREEN_HEIGHT > 0
  BY DEF LastLine, ConsoleAssumption
<1> HIDE DEF b
<1>4. ASSUME NEW l \in 0 .. LastLine
      PROVE  (IF l < Len(b) THEN b[l + 1]
              ELSE IF l < Len(b) + SCREEN_HEIGHT THEN Scrolled(c, 1)[l - Len(b)] ELSE EmptyRow)
           = (IF l < Len(a) THEN a[l + 1]
              ELSE IF l < Len(a) + SCREEN_HEIGHT THEN c[l - Len(a)] ELSE EmptyRow)
  <2>1. CASE l < Len(a)
    BY <1>2, <1>3, <2>1
  <2>2. CASE l = Len(a)
    BY <1>2, <1>3, <2>2
  <2>3. CASE l > Len(a) /\ l < Len(b) + SCREEN_HEIGHT
    <3>1. l - Len(b) \in Rows /\ l - Len(b) + 1 = l - Len(a)
      BY <1>2, <1>3, <2>3 DEF Rows
    <3>2. Scrolled(c, 1)[l - Len(b)]
            = IF l - Len(a) < SCREEN_HEIGHT THEN c[l - Len(a)] ELSE EmptyRow
      BY <3>1 DEF Scrolled
    <3>3. ~(l < Len(b)) /\ ~(l < Len(a))
      BY <1>2, <1>3, <2>3
    <3>4. (l - Len(a) < SCREEN_HEIGHT) <=> (l < Len(a) + SCREEN_HEIGHT)
      BY <1>3
    <3>5. QED
      BY <2>3, <3>2, <3>3, <3>4
  <2>4. CASE l >= Len(b) + SCREEN_HEIGHT
    BY <1>2, <1>3, <2>4
  <2>5. QED
    BY <1>2, <1>3, <2>1, <2>2, <2>3, <2>4
<1>5. QED
  BY <1>4 DEF PaperOf, b

\* putchr on the screen is a character printed on the paper.
LEMMA PutOnPaper ==
  ASSUME ConsoleAssumption, cells \in Buffer, above \in Seq(Row), NEW chr,
         NEW x \in Columns, NEW y \in Rows, Len(above) + y <= LastLine
  PROVE  PaperOf(above, putchr(x, y, chr))
           = [PaperOf(above, cells) EXCEPT ![Len(above) + y][x] = chr]
<1> DEFINE l0 == Len(above) + y
           new == putchr(x, y, chr)
<1>1. Len(above) \in Nat /\ LastLine \in Nat /\ l0 \in 0 .. LastLine
      /\ SCREEN_HEIGHT \in Nat
  BY DEF LastLine, ConsoleAssumption, Rows
<1>2. /\ new[y] = [cells[y] EXCEPT ![x] = chr]
      /\ \A r \in Rows : r # y => new[r] = cells[r]
  BY DEF putchr, Buffer
<1>3. PaperOf(above, cells)[l0] = cells[y]
  BY <1>1 DEF PaperOf, Rows
<1> HIDE DEF new
<1>4. ASSUME NEW l \in 0 .. LastLine
      PROVE  PaperOf(above, new)[l]
           = IF l = l0 THEN [PaperOf(above, cells)[l0] EXCEPT ![x] = chr]
             ELSE PaperOf(above, cells)[l]
  <2>1. CASE l = l0
    <3>1. PaperOf(above, new)[l0] = new[y]
      BY <1>1 DEF PaperOf, Rows
    <3>2. QED
      BY <2>1, <3>1, <1>2, <1>3
  <2>2. CASE l # l0 /\ l >= Len(above) /\ l < Len(above) + SCREEN_HEIGHT
    <3>1. l - Len(above) \in Rows /\ l - Len(above) # y
      BY <1>1, <2>2 DEF Rows
    <3>2. /\ PaperOf(above, new)[l] = new[l - Len(above)]
          /\ PaperOf(above, cells)[l] = cells[l - Len(above)]
      BY <1>1, <2>2 DEF PaperOf
    <3>3. QED
      BY <1>2, <2>2, <3>1, <3>2
  <2>3. CASE l < Len(above) \/ l >= Len(above) + SCREEN_HEIGHT
    <3>1. PaperOf(above, new)[l] = PaperOf(above, cells)[l]
      BY <1>1, <2>3 DEF PaperOf
    <3>2. l # l0
      BY <1>1, <2>3 DEF Rows
    <3>3. QED
      BY <3>1, <3>2
  <2>4. QED
    BY <1>1, <2>1, <2>2, <2>3
<1>5. DOMAIN PaperOf(above, new) = 0 .. LastLine /\ DOMAIN PaperOf(above, cells) = 0 .. LastLine
  BY DEF PaperOf
<1>6. PaperOf(above, new) = [l \in 0 .. LastLine |-> PaperOf(above, new)[l]]
  BY DEF PaperOf
<1>7. QED
  BY <1>1, <1>4, <1>5, <1>6 DEF new
\* On the paper, Finish only moves: where the switch of putc has left the cursor, or to
\* the next line past the right edge.
LEMMA FinishMoves ==
  ASSUME ConsoleAssumption, ConsoleInv, ready, ~dead, ready' = ready, dead' = dead,
         NEW c \in Buffer, NEW x \in Int, NEW y \in Int, AfterSwitch(x, y),
         Finish(c, x, y)
  PROVE  /\ Paper' = PaperOf(above, c)
         /\ T!MoveTo(Len(above) + RowAfter(x, y), IF x >= SCREEN_WIDTH THEN 0 ELSE x)
<1> DEFINE row == RowAfter(x, y)
<1>1. above \in Seq(Row) /\ Len(above) \in Nat
  BY DEF ConsoleInv, TypeOK
<1>2. /\ screenX' = IF x >= SCREEN_WIDTH THEN 0 ELSE x
      /\ screenY' \in Rows
      /\ above' \in Seq(Row)
      /\ Len(above') + screenY' = Len(above) + row
      /\ Len(above') = IF row >= SCREEN_HEIGHT THEN Len(above) + 1 ELSE Len(above)
  BY <1>1, FinishSafe
<1>3. row \in 0 .. SCREEN_HEIGHT
  BY DEF RowAfter, AfterSwitch, ConsoleAssumption
<1>4. IF row >= SCREEN_HEIGHT
      THEN cells' = Scrolled(c, 1) /\ above' = Append(above, c[0])
      ELSE cells' = c /\ above' = above
  BY DEF Finish, RowAfter
<1>5. Paper' = PaperOf(above', cells')
  BY DEF Paper, PaperOf
<1>6. PaperOf(above', cells') = PaperOf(above, c)
  BY <1>1, <1>4, ScrollKeepsPaper
<1>7. Line' = Len(above) + row
  BY <1>2 DEF Line
<1> HIDE DEF row
<1>8. Len(above') = IF Len(above) + row >= Len(above) + SCREEN_HEIGHT
                    THEN (Len(above) + row) - SCREEN_HEIGHT + 1 ELSE Len(above)
  BY <1>1, <1>2, <1>3 DEF ConsoleAssumption
<1>9. screenX' = IF x >= SCREEN_WIDTH THEN 0 ELSE x
  BY <1>2
<1>10. T!MoveTo(Len(above) + row, IF x >= SCREEN_WIDTH THEN 0 ELSE x)
  BY <1>7, <1>8, <1>9, Zenon DEF T!MoveTo
<1>11. QED
  BY <1>5, <1>6, <1>10 DEF row

LEMMA CleanPaper ==
  ASSUME ConsoleAssumption
  PROVE  T!Clean = [l \in 0 .. LastLine |-> EmptyRow]
<1>1. 0 .. (LastLine + 1) - 1 = 0 .. LastLine
  BY DEF LastLine, ConsoleAssumption
<1>2. [c \in 0 .. SCREEN_WIDTH - 1 |-> NUL] = EmptyRow
  BY DEF EmptyRow, Columns
<1>3. T!Clean = [l \in 0 .. (LastLine + 1) - 1 |-> [c \in 0 .. SCREEN_WIDTH - 1 |-> NUL]]
  BY DEF T!Clean
<1>4. QED
  BY <1>1, <1>2, <1>3, Zenon

\* Before the first clrscr the paper is clean.
LEMMA InitTeletype ==
  ConsoleAssumption /\ Init => T!Init
<1> SUFFICES ASSUME ConsoleAssumption, Init
             PROVE  T!Init
  OBVIOUS
<1>1. Paper = T!Clean
  BY CleanPaper, Zenon DEF Init, Paper
<1>2. QED
  BY <1>1 DEF Init, Line, T!Init

\* A blank written at the cursor is a character printed.
LEMMA PrintStep ==
  ASSUME ConsoleAssumption, ConsoleInv, ready, ~dead, ready' = ready, dead' = dead,
         NEW chr \in Chars, Finish(putchr(screenX, screenY, chr), screenX + 1, screenY)
  PROVE  T!Type(chr)
<1>1. /\ above \in Seq(Row) /\ Len(above) \in Nat /\ cells \in Buffer
      /\ screenX \in Columns /\ screenY \in Rows
      /\ SCREEN_WIDTH \in Nat \ {0} /\ SCREEN_HEIGHT \in Nat \ {0}
  BY DEF ConsoleInv, TypeOK, ConsoleAssumption
<1>2. Line = Len(above) + screenY
  BY DEF Line
<1>3. Len(above) + screenY <= LastLine
  <2>1. Len(above) + screenY + (IF tabI = -1 THEN 0 ELSE 4 - tabI) <= 4 * calls
    BY DEF ConsoleInv, LinesBounded
  <2>2. calls \in 0 .. MaxCalls /\ tabI \in -1 .. 4 /\ MaxCalls \in Nat
    BY DEF ConsoleInv, TypeOK, ConsoleAssumption
  <2>3. QED
    BY <1>1, <2>1, <2>2 DEF LastLine, Rows
<1>4. putchr(screenX, screenY, chr) \in Buffer
  BY <1>1, PutBuffer
<1>5. AfterSwitch(screenX + 1, screenY)
  BY <1>1 DEF AfterSwitch, Columns, Rows
<1>6. screenX + 1 \in Int /\ screenY \in Int
  BY <1>1 DEF Columns, Rows
<1>7. /\ Paper' = PaperOf(above, putchr(screenX, screenY, chr))
      /\ T!MoveTo(Len(above) + RowAfter(screenX + 1, screenY),
                  IF screenX + 1 >= SCREEN_WIDTH THEN 0 ELSE screenX + 1)
  BY <1>4, <1>5, <1>6, FinishMoves
<1>8. Paper' = [Paper EXCEPT ![Line][screenX] = chr]
  BY <1>1, <1>2, <1>3, <1>7, PutOnPaper DEF Paper
<1>9. CASE screenX + 1 = SCREEN_WIDTH
  <2>1. RowAfter(screenX + 1, screenY) = screenY + 1
    BY <1>1, <1>9 DEF RowAfter
  <2>2. Len(above) + (screenY + 1) = Line + 1
    BY <1>1, <1>2, <1>6
  <2>3. T!MoveTo(Line + 1, 0)
    BY <1>1, <1>7, <1>9, <2>1, <2>2
  <2>4. QED
    BY <1>8, <1>9, <2>3 DEF T!Type
<1>10. CASE screenX + 1 # SCREEN_WIDTH
  <2>1. ~(screenX + 1 >= SCREEN_WIDTH)
    BY <1>1, <1>10 DEF Columns
  <2>2. RowAfter(screenX + 1, screenY) = screenY
    BY <2>1 DEF RowAfter
  <2>3. T!MoveTo(Line, screenX + 1)
    BY <1>2, <1>7, <2>1, <2>2
  <2>4. QED
    BY <1>8, <1>10, <2>3 DEF T!Type
<1>11. QED
  BY <1>9, <1>10

\* Every step of the console is a step of the teletype, or leaves it alone.
LEMMA NextTeletype ==
  ConsoleAssumption /\ ConsoleInv /\ [Next]_vars => [T!Next]_(T!vars)
<1> SUFFICES ASSUME ConsoleAssumption, ConsoleInv, [Next]_vars
             PROVE  [T!Next]_(T!vars)
  OBVIOUS
<1>1. /\ above \in Seq(Row) /\ Len(above) \in Nat /\ tabI \in -1 .. 4
      /\ screenX \in Columns /\ (~dead => screenY \in Rows)
      /\ ready => cells \in Buffer
      /\ tabI # -1 => ready /\ ~dead
      /\ SCREEN_WIDTH \in Nat \ {0} /\ SCREEN_HEIGHT \in Nat \ {0}
      /\ Space \in Chars /\ LastLine \in Nat
  BY DEF ConsoleInv, TypeOK, LoopOK, ConsoleAssumption, LastLine
<1>2. ASSUME Putc
      PROVE  ready /\ ~dead /\ cells \in Buffer /\ screenY \in Rows
             /\ Line = Len(above) + screenY
  BY <1>1, <1>2 DEF Putc, Called, Line
<1>3. CASE clrscr
  <2>1. Paper' = T!Clean
    <3>1. T!Clean = [l \in 0 .. LastLine |-> EmptyRow]
      BY CleanPaper
    <3>2. Paper' = PaperOf(<<>>, [r \in Rows |-> EmptyRow])
      BY <1>3 DEF clrscr, Paper, PaperOf
    <3>3. ASSUME NEW l \in 0 .. LastLine
          PROVE  (IF l < Len(<<>>) THEN <<>>[l + 1]
                  ELSE IF l < Len(<<>>) + SCREEN_HEIGHT
                       THEN [r \in Rows |-> EmptyRow][l - Len(<<>>)] ELSE EmptyRow) = EmptyRow
      <4>1. Len(<<>>) = 0 /\ l >= 0
        OBVIOUS
      <4>2. CASE l < SCREEN_HEIGHT
        <5>1. l \in Rows /\ l - Len(<<>>) = l
          BY <1>1, <4>1, <4>2 DEF Rows
        <5>2. QED
          BY <4>1, <5>1
      <4>3. CASE ~(l < SCREEN_HEIGHT)
        BY <1>1, <4>1, <4>3
      <4>4. QED
        BY <4>2, <4>3
    <3>4. PaperOf(<<>>, [r \in Rows |-> EmptyRow]) = [l \in 0 .. LastLine |-> EmptyRow]
      BY <3>3 DEF PaperOf
    <3>5. QED
      BY <3>1, <3>2, <3>4, Zenon
  <2>2. ~dead /\ dead' = dead /\ Line' = 0 /\ screenX' = 0 /\ Len(above') = 0
    BY <1>3 DEF clrscr, Called, Line
  <2>3. T!NewSheet
    BY <2>1, <2>2 DEF T!NewSheet
  <2>4. QED
    BY <2>2, <2>3 DEF T!Next
<1>4. ASSUME NEW chr \in Chars, PrintChar(chr)
      PROVE  [T!Next]_(T!vars)
  <2>1. Putc /\ UNCHANGED <<ready, dead>>
        /\ Finish(putchr(screenX, screenY, chr), screenX + 1, screenY)
    BY <1>4 DEF PrintChar
  <2>2. T!Type(chr)
    BY <1>2, <2>1, PrintStep
  <2>3. QED
    BY <1>2, <2>1, <2>2 DEF T!Next
<1>5. CASE NewLine
  <2>1. Putc /\ UNCHANGED <<ready, dead>> /\ Finish(cells, 0, screenY + 1)
    BY <1>5 DEF NewLine
  <2>2. AfterSwitch(0, screenY + 1) /\ RowAfter(0, screenY + 1) = screenY + 1
        /\ screenY + 1 \in Int
    BY <1>1, <1>2, <2>1 DEF AfterSwitch, RowAfter, Rows
  <2>3. Paper' = PaperOf(above, cells) /\ T!MoveTo(Len(above) + (screenY + 1), 0)
    BY <1>1, <1>2, <2>1, <2>2, FinishMoves
  <2>4. Len(above) + (screenY + 1) = Line + 1
    BY <1>1, <1>2, <2>1 DEF Rows
  <2>5. T!NewLine
    BY <1>2, <2>1, <2>3, <2>4 DEF T!NewLine, Paper
  <2>6. QED
    BY <1>2, <2>1, <2>5 DEF T!Next
<1>6. CASE Return
  <2>1. Putc /\ UNCHANGED <<ready, dead>> /\ Finish(cells, 0, screenY)
    BY <1>6 DEF Return
  <2>2. AfterSwitch(0, screenY) /\ RowAfter(0, screenY) = screenY /\ screenY \in Int
    BY <1>1, <1>2, <2>1 DEF AfterSwitch, RowAfter, Rows
  <2>3. Paper' = PaperOf(above, cells) /\ T!MoveTo(Len(above) + screenY, 0)
    BY <1>1, <1>2, <2>1, <2>2, FinishMoves
  <2>4. T!Return
    BY <1>2, <2>1, <2>3 DEF T!Return, Paper
  <2>5. QED
    BY <1>2, <2>1, <2>4 DEF T!Next
<1>7. CASE Backspace
  <2>1. Putc /\ UNCHANGED <<ready>>
    BY <1>7 DEF Backspace
  <2>2. CASE screenX = 0 /\ screenY = 0
    <3>1. dead' = TRUE /\ UNCHANGED <<cells, above, ready>> /\ screenX' = SCREEN_WIDTH - 1
      BY <1>7, <2>1, <2>2 DEF Backspace
    <3>2. Paper' = Paper
      BY <3>1 DEF Paper, PaperOf
    <3>3. Line = Len(above) /\ Line' = Len(above)
      BY <1>1, <1>2, <2>1, <2>2, <3>1 DEF Line
    <3>4. T!Die
      BY <2>2, <3>1, <3>2, <3>3 DEF T!Die
    <3>5. QED
      BY <1>2, <2>1, <3>4 DEF T!Next
  <2>3. CASE ~(screenX = 0 /\ screenY = 0)
    <3> DEFINE x == IF screenX = 0 THEN SCREEN_WIDTH - 1 ELSE screenX - 1
               y == IF screenX = 0 THEN screenY - 1 ELSE screenY
    <3>1. Finish(putchr(x, y, Space), x, y) /\ dead' = dead
      BY <1>7, <2>3 DEF Backspace
    <3>2. x \in Columns /\ y \in Rows /\ y <= screenY
      BY <1>1, <1>2, <2>1, <2>3 DEF Columns, Rows
    <3>3. Len(above) + y <= LastLine
      <4>1. Len(above) + screenY <= 4 * calls
        <5>1. tabI = -1 /\ ~dead
          BY <2>1 DEF Putc, Called
        <5>2. QED
          BY <1>1, <1>2, <2>1, <5>1 DEF ConsoleInv, LinesBounded, Rows
      <4>2. calls \in 0 .. MaxCalls /\ MaxCalls \in Nat
        BY DEF ConsoleInv, TypeOK, ConsoleAssumption
      <4>3. QED
        BY <1>1, <1>2, <2>1, <3>2, <4>1, <4>2 DEF LastLine, Rows
    <3>4. putchr(x, y, Space) \in Buffer
      BY <1>1, <1>2, <2>1, <3>2, PutBuffer
    <3>5. AfterSwitch(x, y) /\ RowAfter(x, y) = y /\ x \in Int /\ y \in Int
          /\ ~(x >= SCREEN_WIDTH)
      BY <1>1, <3>2 DEF AfterSwitch, RowAfter, Columns, Rows
    <3>6. /\ screenX > 0 \/ Line > Len(above)
          /\ x = IF screenX > 0 THEN screenX - 1 ELSE SCREEN_WIDTH - 1
          /\ Len(above) + y = IF screenX > 0 THEN Line ELSE Line - 1
      BY <1>1, <1>2, <2>1, <2>3 DEF Columns, Rows
    <3> HIDE DEF x, y
    <3>7. Paper' = PaperOf(above, putchr(x, y, Space)) /\ T!MoveTo(Len(above) + y, x)
      BY <1>1, <1>2, <2>1, <3>1, <3>4, <3>5, FinishMoves
    <3>8. Paper' = [Paper EXCEPT ![Len(above) + y][x] = Space]
      BY <1>1, <1>2, <2>1, <3>2, <3>3, <3>7, PutOnPaper DEF Paper
    <3>9. T!RubOut
      BY <3>6, <3>7, <3>8 DEF T!RubOut
    <3>10. QED
      BY <1>2, <2>1, <3>9 DEF T!Next
  <2>4. QED
    BY <2>2, <2>3
<1>8. CASE Tab
  <2>1. Paper' = Paper /\ Line' = Line
    BY <1>8 DEF Tab, Paper, PaperOf, Line, cursor
  <2>2. QED
    BY <1>8, <2>1 DEF Tab, cursor, T!vars
<1>9. CASE TabBlank
  <2>1. /\ Finish(putchr(screenX, screenY, Space), screenX + 1, screenY)
        /\ UNCHANGED <<ready, dead>> /\ ready /\ ~dead
    BY <1>1, <1>9 DEF TabBlank
  <2>2. T!Type(Space)
    BY <1>1, <2>1, PrintStep
  <2>3. QED
    BY <1>1, <2>1, <2>2 DEF T!Next
<1>10. CASE TabEnd
  <2>1. /\ Finish(cells, screenX, screenY)
        /\ UNCHANGED <<ready, dead>> /\ ready /\ ~dead
        /\ cells \in Buffer /\ screenY \in Rows
    BY <1>1, <1>10 DEF TabEnd
  <2>2. AfterSwitch(screenX, screenY) /\ RowAfter(screenX, screenY) = screenY
        /\ screenX \in Int /\ screenY \in Int /\ ~(screenX >= SCREEN_WIDTH)
    BY <1>1, <2>1 DEF AfterSwitch, RowAfter, Columns, Rows
  <2>3. Paper' = PaperOf(above, cells) /\ T!MoveTo(Len(above) + screenY, screenX)
    BY <2>1, <2>2, FinishMoves
  <2>4. Line = Len(above) + screenY
    BY <2>1 DEF Line
  <2>5. ~(Len(above) + screenY >= Len(above) + SCREEN_HEIGHT)
    BY <1>1, <2>1 DEF Rows
  <2>6. Paper' = Paper
    BY <2>1, <2>3 DEF Paper
  <2>7. QED
    BY <2>3, <2>4, <2>5, <2>6 DEF T!MoveTo, T!vars
<1>11. CASE UNCHANGED vars
  <2>1. Paper' = Paper /\ Line' = Line
    BY <1>11 DEF vars, cursor, Paper, PaperOf, Line
  <2>2. QED
    BY <1>11, <2>1 DEF vars, cursor, T!vars
<1>12. QED
  BY <1>3, <1>4, <1>5, <1>6, <1>7, <1>8, <1>9, <1>10, <1>11 DEF Next

\* For every screen size and any sequence of calls, putc and clrscr implement a printer
\* on endless paper: wrapping, scrolling, tabs and backspaces included.
THEOREM ConsoleIsTeletype == Spec => IsTeletype
<1>1. ConsoleAssumption
  BY ConsoleAssumption
<1>2. Init => T!Init
  BY <1>1, InitTeletype
<1>3. ConsoleInv /\ [Next]_vars => [T!Next]_(T!vars)
  BY <1>1, NextTeletype
<1>4. QED
  BY <1>2, <1>3, ConsoleInvariant, PTL DEF Spec, IsTeletype, T!Spec
=============================================================================
