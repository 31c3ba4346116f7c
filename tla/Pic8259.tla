------------------------------ MODULE Pic8259 ------------------------------
(***************************************************************************)
(* External: the pair of 8259 interrupt controllers as idt.c drives them.  *)
(* A controller is a record: icw is the initialisation word it expects     *)
(* ("no" when none), imr its mask as a byte, irr and isr the sets of lines *)
(* requested and in service, base its vector offset.                       *)
(***************************************************************************)
EXTENDS Integers

Lines == 0 .. 7
Cascade == 2                 \* the master line the slave is wired to

Chip == [icw : {"no", "icw2", "icw3", "icw4"}, imr : 0 .. 255,
         irr : SUBSET Lines, isr : SUBSET Lines, base : 0 .. 255]

PowerOnChip(mask, base) ==
  [icw |-> "no", imr |-> mask, irr |-> {}, isr |-> {}, base |-> base]

Masked(chip, line) == (chip.imr \div 2 ^ line) % 2 = 1

Lowest(S) == CHOOSE l \in S : \A k \in S : l <= k

\* An edge on a request line.
Raise(chip, line) == [chip EXCEPT !.irr = @ \cup {line}]

\* The requests that outrank everything in service, given the lines requested.
Eligible(chip, requests) ==
  {l \in requests : ~Masked(chip, l) /\ \A s \in chip.isr : l < s}

\* Writing the command port: ICW1 (0x11) restarts the chip and clears its edge
\* latches; 0x20 ends the interrupt of highest priority in service.
WriteCommand(chip, value) ==
  CASE value = 17 -> [chip EXCEPT !.icw = "icw2", !.imr = 0, !.irr = {}, !.isr = {}]
    [] value = 32 -> [chip EXCEPT !.isr = IF @ = {} THEN @ ELSE @ \ {Lowest(@)}]
    [] OTHER      -> chip

\* Writing the data port: the next initialisation word, or the mask.
WriteData(chip, value) ==
  CASE chip.icw = "icw2" -> [chip EXCEPT !.icw = "icw3", !.base = value - (value % 8)]
    [] chip.icw = "icw3" -> [chip EXCEPT !.icw = "icw4"]
    [] chip.icw = "icw4" -> [chip EXCEPT !.icw = "no"]
    [] chip.icw = "no"   -> [chip EXCEPT !.imr = value]
=============================================================================
