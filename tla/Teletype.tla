------------------------------ MODULE Teletype ------------------------------
(***************************************************************************)
(* What the console promises: a printer on an endless sheet of paper, of   *)
(* which the screen shows the Height lines that end with the lowest line   *)
(* reached.  Rubbing out goes back one column, at the left edge to the end *)
(* of the line above, and is lost only where that line has left the        *)
(* screen.                                                                 *)
(***************************************************************************)
EXTENDS Integers

CONSTANTS Width, Height, Blank, Space,
          Chars,       \* printing characters, Space among them
          PaperLines   \* bound on the lines of the sheet

VARIABLES paper, line, col,
          top,   \* the first line on the screen
          dead   \* the machine stopped

vars == <<paper, line, col, top, dead>>

Sheet == [0 .. PaperLines - 1 -> [0 .. Width - 1 -> Chars \cup {Blank}]]
Clean == [l \in 0 .. PaperLines - 1 |-> [c \in 0 .. Width - 1 |-> Blank]]

Init ==
  /\ paper = Clean
  /\ line = 0
  /\ col = 0
  /\ top = 0
  /\ dead = FALSE

MoveTo(l, c) ==
  /\ line' = l
  /\ col' = c
  /\ top' = IF l >= top + Height THEN l - Height + 1 ELSE top
  /\ dead' = dead

Type(chr) ==
  /\ paper' = [paper EXCEPT ![line][col] = chr]
  /\ IF col + 1 = Width THEN MoveTo(line + 1, 0) ELSE MoveTo(line, col + 1)

NewLine == MoveTo(line + 1, 0) /\ paper' = paper

Return == MoveTo(line, 0) /\ paper' = paper

RubOut ==
  /\ col > 0 \/ line > top
  /\ LET l == IF col > 0 THEN line ELSE line - 1
         c == IF col > 0 THEN col - 1 ELSE Width - 1
     IN  /\ MoveTo(l, c)
         /\ paper' = [paper EXCEPT ![l][c] = Space]

Die ==
  /\ col = 0 /\ line = top
  /\ dead' = TRUE
  /\ UNCHANGED <<paper, line, top>>
  /\ col' = Width - 1

NewSheet ==
  /\ paper' = Clean
  /\ line' = 0
  /\ col' = 0
  /\ top' = 0
  /\ dead' = dead

Next ==
  /\ ~dead
  /\ (\E chr \in Chars : Type(chr)) \/ NewLine \/ Return \/ RubOut \/ Die \/ NewSheet

Spec == Init /\ [][Next]_vars
=============================================================================
