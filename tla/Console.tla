------------------------------- MODULE Console -------------------------------
(***************************************************************************)
(* The text console of the kernel's libc (stdio): clrscr, putc, scrollback *)
(* and setcursor over the VGA text buffer and its cursor registers.        *)
(*                                                                         *)
(* A call is one step (the kernel prints from one context at a time, see   *)
(* ConsoleExclusive in Kernel), but for putc('\t'), a loop of putc(' ').   *)
(* Colours are left out: every cell gets DEFAULT_COLOR and nothing sets    *)
(* another.                                                                *)
(***************************************************************************)
EXTENDS Integers, Sequences

CONSTANTS
  SCREEN_WIDTH, SCREEN_HEIGHT,
  NUL, Space,   \* '\0' and ' '
  Chars,        \* what putc prints as itself, Space among them
  BiosChar,     \* what the BIOS left on the screen
  BiosCursor,   \* and where it left the cursor
  MaxCalls      \* bound on calls

ASSUME ConsoleAssumption ==
  /\ SCREEN_WIDTH \in Nat \ {0}
  /\ SCREEN_HEIGHT \in Nat \ {0}
  /\ Space \in Chars
  /\ NUL \notin Chars
  /\ BiosCursor \in Int
  /\ MaxCalls \in Nat

VARIABLES
  cells,             \* the text buffer: row -> column -> character
  screenX, screenY,
  hwCursor,          \* the cursor registers
  tabI,              \* i of the loop of a putc('\t') in progress, or -1
  ready,             \* clrscr has been called
  dead,              \* a write outside the mapped memory: page fault
  calls,
  above              \* history: the rows scrolled off since the last clrscr

cursor == <<screenX, screenY, hwCursor>>
vars == <<cells, cursor, tabI, ready, dead, calls, above>>

Rows     == 0 .. SCREEN_HEIGHT - 1
Columns  == 0 .. SCREEN_WIDTH - 1
EmptyRow == [c \in Columns |-> NUL]

Row    == [Columns -> Chars \cup {NUL}]
Buffer == [Rows -> Row]     \* the text buffer once it has been cleared

Init ==
  /\ cells = [r \in Rows |-> [c \in Columns |-> BiosChar]]
  /\ screenX = 0
  /\ screenY = 0
  /\ hwCursor = BiosCursor
  /\ tabI = -1
  /\ ready = FALSE
  /\ dead = FALSE
  /\ calls = 0
  /\ above = <<>>

setcursor(x, y) == hwCursor' = y * SCREEN_WIDTH + x

Called == ~dead /\ tabI = -1 /\ calls < MaxCalls /\ calls' = calls + 1

clrscr ==
  /\ Called
  /\ cells' = [r \in Rows |-> EmptyRow]
  /\ screenX' = 0
  /\ screenY' = 0
  /\ setcursor(0, 0)
  /\ ready' = TRUE
  /\ above' = <<>>
  /\ UNCHANGED <<tabI, dead>>

\* Faulty variant: rows are copied from the top of the copied part down one too few.
Scrolled_OneShort(c, lines) ==
  [r \in Rows |-> IF r + lines < SCREEN_HEIGHT - 1 THEN c[r + lines] ELSE EmptyRow]

\* The buffer after scrollback(lines).
Scrolled(c, lines) ==
  [r \in Rows |-> IF r + lines < SCREEN_HEIGHT THEN c[r + lines] ELSE EmptyRow]

\* Faulty variant: the hardware cursor is set before scrolling.
Finish_Early(c, x, y) ==
  LET wrap == x >= SCREEN_WIDTH
      row  == IF wrap THEN y + 1 ELSE y
  IN  /\ screenX' = IF wrap THEN 0 ELSE x
      /\ IF row >= SCREEN_HEIGHT
         THEN /\ cells' = Scrolled(c, 1)
              /\ above' = Append(above, c[0])
              /\ screenY' = row - 1
         ELSE cells' = c /\ screenY' = row /\ UNCHANGED above
      /\ setcursor(screenX', row)

\* Faulty variant: no wrap at the right edge.
Finish_NoWrap(c, x, y) ==
  /\ screenX' = x
  /\ IF y >= SCREEN_HEIGHT
     THEN /\ cells' = Scrolled(c, 1)
          /\ above' = Append(above, c[0])
          /\ screenY' = y - 1
     ELSE cells' = c /\ screenY' = y /\ UNCHANGED above
  /\ setcursor(screenX', screenY')

\* The end of every putc: wrap, scroll, move the cursor.  c, x and y are the buffer
\* and the position its switch has left.
Finish(c, x, y) ==
  LET wrap == x >= SCREEN_WIDTH
      row  == IF wrap THEN y + 1 ELSE y
  IN  /\ screenX' = IF wrap THEN 0 ELSE x
      /\ IF row >= SCREEN_HEIGHT
         THEN /\ cells' = Scrolled(c, 1)
              /\ above' = Append(above, c[0])
              /\ screenY' = row - 1
         ELSE cells' = c /\ screenY' = row /\ UNCHANGED above
      /\ setcursor(screenX', screenY')

Putc == Called /\ ready

putchr(x, y, chr) == [cells EXCEPT ![y][x] = chr]

PrintChar(chr) ==
  /\ Putc
  /\ Finish(putchr(screenX, screenY, chr), screenX + 1, screenY)
  /\ UNCHANGED <<tabI, ready, dead>>

NewLine ==
  /\ Putc
  /\ Finish(cells, 0, screenY + 1)
  /\ UNCHANGED <<tabI, ready, dead>>

Return ==
  /\ Putc
  /\ Finish(cells, 0, screenY)
  /\ UNCHANGED <<tabI, ready, dead>>

\* At the top left corner the row becomes -1; putchr's index is unsigned, so that the
\* write goes 4 GiB up, to memory no page maps.
Backspace ==
  /\ Putc
  /\ IF screenX = 0 /\ screenY = 0
     THEN /\ dead' = TRUE
          /\ screenX' = SCREEN_WIDTH - 1
          /\ screenY' = -1
          /\ UNCHANGED <<cells, hwCursor, above>>
     ELSE LET x == IF screenX = 0 THEN SCREEN_WIDTH - 1 ELSE screenX - 1
              y == IF screenX = 0 THEN screenY - 1 ELSE screenY
          IN  Finish(putchr(x, y, Space), x, y) /\ UNCHANGED dead
  /\ UNCHANGED <<tabI, ready>>

\* putc('\t'): the bound of the loop, 4 - screenX % 4, moves with the blanks written.
Tab ==
  /\ Putc
  /\ tabI' = 0
  /\ UNCHANGED <<cells, cursor, ready, dead, above>>

TabBlank ==
  /\ 0 <= tabI /\ tabI < 4 - (screenX % 4)
  /\ Finish(putchr(screenX, screenY, Space), screenX + 1, screenY)
  /\ tabI' = tabI + 1
  /\ UNCHANGED <<ready, dead, calls>>

TabEnd ==
  /\ tabI # -1 /\ tabI >= 4 - (screenX % 4)
  /\ Finish(cells, screenX, screenY)
  /\ tabI' = -1
  /\ UNCHANGED <<ready, dead, calls>>

Next ==
  \/ clrscr
  \/ \E chr \in Chars : PrintChar(chr)
  \/ NewLine
  \/ Return
  \/ Backspace
  \/ Tab
  \/ TabBlank
  \/ TabEnd

Spec == Init /\ [][Next]_vars

-----------------------------------------------------------------------------
(* Properties *)

\* The cursor is on the screen after every call, and inside a tab, whatever was
\* printed, wrapped or scrolled: putchr never writes past the text buffer (but for
\* the one write that stops the machine).
TypeOK ==
  /\ DOMAIN cells = Rows
  /\ \A r \in Rows : cells[r] \in [Columns -> Chars \cup {NUL, BiosChar}]
  /\ ready => cells \in Buffer
  /\ screenX \in Columns
  /\ ~dead => screenY \in Rows
  /\ tabI \in -1 .. 4
  /\ ready \in BOOLEAN
  /\ dead \in BOOLEAN
  /\ calls \in 0 .. MaxCalls
  /\ above \in Seq(Row)

\* The blinking cursor is where the next character will go, scrolled or not.
HwCursorMatches ==
  ready /\ ~dead => hwCursor = screenY * SCREEN_WIDTH + screenX

\* What makes the two inductive: a loop only runs on a live, cleared screen, and a
\* call moves down four lines at most.
LoopOK ==
  /\ tabI # -1 => ready /\ ~dead
  /\ dead => ready
  /\ ~ready => above = <<>> /\ screenX = 0 /\ screenY = 0

LinesBounded ==
  Len(above) + (IF dead THEN 0 ELSE screenY) + (IF tabI = -1 THEN 0 ELSE 4 - tabI)
    <= 4 * calls

\* The inductive invariant of the console.
ConsoleInv == TypeOK /\ HwCursorMatches /\ LoopOK /\ LinesBounded

\* The screen is a window on a teletype's paper: scrolling, wrapping, tabs and
\* backspaces lose, move or invent no character, and nothing but a backspace in the
\* top left corner stops the machine.
LastLine == MaxCalls * 4 + SCREEN_HEIGHT

PaperOf(a, c) ==
  [l \in 0 .. LastLine |->
     IF l < Len(a) THEN a[l + 1]
     ELSE IF l < Len(a) + SCREEN_HEIGHT THEN c[l - Len(a)] ELSE EmptyRow]

Paper == IF ready THEN PaperOf(above, cells) ELSE [l \in 0 .. LastLine |-> EmptyRow]

Line == Len(above) + (IF dead THEN 0 ELSE screenY)

T == INSTANCE Teletype WITH
       Width <- SCREEN_WIDTH, Height <- SCREEN_HEIGHT, Blank <- NUL,
       PaperLines <- LastLine + 1,
       paper <- Paper, line <- Line, col <- screenX, top <- Len(above)

\* putc on the scrolling screen implements typing on the teletype's paper.
IsTeletype == T!Spec
=============================================================================
