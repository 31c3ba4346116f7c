---------------------------- MODULE KernelProofs ----------------------------
(***************************************************************************)
(* Theorems about the kernel's interrupts, for every mask the BIOS leaves, *)
(* every keyboard and any number of interrupts.  The invariant follows the *)
(* two chips through the PIC program and through each interrupt: one line  *)
(* in service at most, ended by the writes of irq_handler.                 *)
(*                                                                         *)
(* Behind it, for every address and every place the linker chooses: what   *)
(* setIDTGate stores is what the CPU reads, the two GDTs describe the      *)
(* segments meant, and delivery works with every table the kernel loads.   *)
(*                                                                         *)
(* Last the keyboard's bytes, with an 8042 slower than the handler, for    *)
(* every sequence of bytes and any number of other interrupts: each is     *)
(* read once and in order, and what is typed is what the keys spell.       *)
(***************************************************************************)
EXTENDS Kernel, FiniteSetTheorems, SequenceTheorems, TLAPS

-----------------------------------------------------------------------------
(* The chips. *)

\* A set of lines that is not empty has a lowest line.
LEMMA LowestIn ==
  ASSUME NEW S \in SUBSET Lines, S # {}
  PROVE  Lowest(S) \in S
<1>1. \E l \in S : \A k \in S : l <= k
  <2>1. CASE 0 \in S
    BY <2>1 DEF Lines
  <2>2. CASE 0 \notin S /\ 1 \in S
    BY <2>2 DEF Lines
  <2>3. CASE 0 \notin S /\ 1 \notin S /\ 2 \in S
    BY <2>3 DEF Lines
  <2>4. CASE 0 \notin S /\ 1 \notin S /\ 2 \notin S /\ 3 \in S
    BY <2>4 DEF Lines
  <2>5. CASE 0 \notin S /\ 1 \notin S /\ 2 \notin S /\ 3 \notin S /\ 4 \in S
    BY <2>5 DEF Lines
  <2>6. CASE 0 \notin S /\ 1 \notin S /\ 2 \notin S /\ 3 \notin S /\ 4 \notin S /\ 5 \in S
    BY <2>6 DEF Lines
  <2>7. CASE 0 \notin S /\ 1 \notin S /\ 2 \notin S /\ 3 \notin S /\ 4 \notin S /\ 5 \notin S
             /\ 6 \in S
    BY <2>7 DEF Lines
  <2>8. CASE 0 \notin S /\ 1 \notin S /\ 2 \notin S /\ 3 \notin S /\ 4 \notin S /\ 5 \notin S
             /\ 6 \notin S
    <3>1. PICK l \in S : TRUE
      OBVIOUS
    <3>2. \A k \in S : k = 7
      BY <2>8 DEF Lines
    <3>3. QED
      BY <3>1, <3>2
  <2>9. QED
    BY <2>1, <2>2, <2>3, <2>4, <2>5, <2>6, <2>7, <2>8
<1>2. QED
  BY <1>1 DEF Lowest

\* An edge changes the requests of a chip only.
LEMMA RaiseChip ==
  ASSUME NEW chip \in Chip, NEW line \in Lines
  PROVE  /\ Raise(chip, line) \in Chip
         /\ Raise(chip, line).icw = chip.icw
         /\ Raise(chip, line).base = chip.base
         /\ Raise(chip, line).isr = chip.isr
  BY DEF Raise, Chip

\* A line enters service.
LEMMA ServiceChip ==
  ASSUME NEW chip \in Chip, NEW line \in Lines
  PROVE  /\ Service(chip, line) \in Chip
         /\ Service(chip, line).icw = chip.icw
         /\ Service(chip, line).base = chip.base
         /\ Service(chip, line).isr = chip.isr \cup {line}
  BY DEF Service, Chip

\* An end of interrupt ends the only line in service, and changes nothing else.
LEMMA EndChip ==
  ASSUME NEW chip \in Chip, AtMostOne(chip.isr)
  PROVE  /\ WriteCommand(chip, 32) \in Chip
         /\ WriteCommand(chip, 32).icw = chip.icw
         /\ WriteCommand(chip, 32).base = chip.base
         /\ WriteCommand(chip, 32).isr = {}
<1>1. WriteCommand(chip, 32)
        = [chip EXCEPT !.isr = IF @ = {} THEN @ ELSE @ \ {Lowest(@)}]
  BY DEF WriteCommand
<1>2. (IF chip.isr = {} THEN chip.isr ELSE chip.isr \ {Lowest(chip.isr)}) = {}
  <2>1. CASE chip.isr = {}
    BY <2>1
  <2>2. CASE chip.isr # {}
    <3>1. PICK l \in Lines : chip.isr = {l}
      BY <2>2 DEF AtMostOne
    <3>2. Lowest(chip.isr) \in chip.isr
      BY <2>2, <3>1, LowestIn
    <3>3. QED
      BY <2>2, <3>1, <3>2
  <2>3. QED
    BY <2>1, <2>2
<1>3. QED
  BY <1>1, <1>2 DEF Chip

\* ICW1 starts a chip's initialisation sequence.
LEMMA StartChip ==
  ASSUME NEW chip \in Chip
  PROVE  /\ WriteCommand(chip, 17) \in Chip
         /\ WriteCommand(chip, 17).icw = "icw2"
         /\ WriteCommand(chip, 17).base = chip.base
         /\ WriteCommand(chip, 17).isr = {}
<1>1. WriteCommand(chip, 17)
        = [chip EXCEPT !.icw = "icw2", !.imr = 0, !.irr = {}, !.isr = {}]
  BY DEF WriteCommand
<1>2. chip = [icw |-> chip.icw, imr |-> chip.imr, irr |-> chip.irr, isr |-> chip.isr,
              base |-> chip.base]
  BY DEF Chip
<1>3. WriteCommand(chip, 17)
        = [icw |-> "icw2", imr |-> 0, irr |-> {}, isr |-> {}, base |-> chip.base]
  BY <1>1, <1>2
<1>4. QED
  BY <1>3 DEF Chip

\* Each data byte moves the sequence on; the first sets the base, a multiple of 8.
LEMMA DataChip ==
  ASSUME NEW chip \in Chip, NEW value \in 0 .. 255
  PROVE  /\ WriteData(chip, value) \in Chip
         /\ WriteData(chip, value).isr = chip.isr
         /\ chip.icw = "icw2" => /\ WriteData(chip, value).icw = "icw3"
                                 /\ WriteData(chip, value).base = value - (value % 8)
         /\ chip.icw = "icw3" => /\ WriteData(chip, value).icw = "icw4"
                                 /\ WriteData(chip, value).base = chip.base
         /\ chip.icw = "icw4" => /\ WriteData(chip, value).icw = "no"
                                 /\ WriteData(chip, value).base = chip.base
         /\ chip.icw = "no" => /\ WriteData(chip, value).icw = "no"
                               /\ WriteData(chip, value).base = chip.base
<1>1. value - (value % 8) \in 0 .. 255
  <2>1. value % 8 \in 0 .. 7 /\ value % 8 <= value
    OBVIOUS
  <2>2. QED
    BY <2>1
<1>2. chip.icw \in {"no", "icw2", "icw3", "icw4"}
  BY DEF Chip
<1>3. CASE chip.icw = "icw2"
  <2>1. WriteData(chip, value) = [chip EXCEPT !.icw = "icw3", !.base = value - (value % 8)]
    BY <1>3 DEF WriteData
  <2>2. QED
    BY <1>1, <1>3, <2>1 DEF Chip
<1>4. CASE chip.icw = "icw3"
  <2>1. WriteData(chip, value) = [chip EXCEPT !.icw = "icw4"]
    BY <1>4 DEF WriteData
  <2>2. QED
    BY <1>4, <2>1 DEF Chip
<1>5. CASE chip.icw = "icw4"
  <2>1. WriteData(chip, value) = [chip EXCEPT !.icw = "no"]
    BY <1>5 DEF WriteData
  <2>2. QED
    BY <1>5, <2>1 DEF Chip
<1>6. CASE chip.icw = "no"
  <2>1. WriteData(chip, value) = [chip EXCEPT !.imr = value]
    BY <1>6 DEF WriteData
  <2>2. QED
    BY <1>6, <2>1 DEF Chip
<1>7. QED
  BY <1>2, <1>3, <1>4, <1>5, <1>6
Pics == [m : Chip, s : Chip]

\* One chip of the pair changes.
LEMMA PicM ==
  ASSUME NEW p \in Pics, NEW c \in Chip
  PROVE  /\ [p EXCEPT !.m = c] \in Pics
         /\ [p EXCEPT !.m = c].m = c
         /\ [p EXCEPT !.m = c].s = p.s
  BY DEF Pics

LEMMA PicS ==
  ASSUME NEW p \in Pics, NEW c \in Chip
  PROVE  /\ [p EXCEPT !.s = c] \in Pics
         /\ [p EXCEPT !.s = c].s = c
         /\ [p EXCEPT !.s = c].m = p.m
  BY DEF Pics

-----------------------------------------------------------------------------
(* The invariant. *)

LEMMA InitInterrupts ==
  KernelAssumption /\ Init => InterruptInv
<1> SUFFICES ASSUME KernelAssumption, Init
             PROVE  InterruptInv
  OBVIOUS
<1>1. PICK m \in 0 .. 255, s \in 0 .. 255 :
        pic = [m |-> PowerOnChip(m, 8), s |-> PowerOnChip(s, 112)]
  BY DEF Init, KernelAssumption
<1>2. PowerOnChip(m, 8) \in Chip /\ PowerOnChip(s, 112) \in Chip
  BY <1>1 DEF PowerOnChip, Chip
<1>3. /\ pic \in [m : Chip, s : Chip]
      /\ pic.m.icw = "no" /\ pic.s.icw = "no" /\ pic.m.isr = {} /\ pic.s.isr = {}
  BY <1>1, <1>2 DEF PowerOnChip
<1>4. kbd \in [queue : Seq(0 .. 255), full : BOOLEAN, data : 0 .. 255]
  BY DEF Init
<1>5. TypeOK
  <2>1. typed \in Text
    BY DEF Init, Text
  <2>2. sent \in Seq(0 .. 255) /\ taken \in Seq(0 .. 255)
    BY DEF Init
  <2>3. /\ pc \in {"kinit", "gdt", "masks", "icw", "gates", "paging", "print", "keyboard",
                    "idle"}
        /\ hpc = "none" /\ routines \subseteq {1} /\ clobbered \subseteq HandlerWrites
    BY DEF Init
  <2>4. /\ step \in 1 .. 10 /\ maskM \in 0 .. 255 /\ maskS \in 0 .. 255
        /\ intNo \in 0 .. 255 /\ scanCode \in 0 .. 127 /\ noise \in Nat
    BY DEF Init
  <2>5. flagI \in BOOLEAN /\ capsOn \in BOOLEAN /\ early \in BOOLEAN /\ mixed \in BOOLEAN
    BY Zenon DEF Init
  <2>6. cpu \in [gdt : {"stage2", "init", "kernel"}, cs : {8, 24},
                 tables : {"none", "init", "pager"}, rdi : ArgumentPages]
    BY DEF Init
  <2>7. QED
    BY <1>3, <1>4, <2>1, <2>2, <2>3, <2>4, <2>5, <2>6, Zenon DEF TypeOK
<1>6. QED
  BY <1>3, <1>5 DEF Init, InterruptInv, ProgramOK, InterruptsOK, InService, AtMostOne,
                    VectorsRemapped

\* The writes of the PIC program, one by one.
LEMMA ProgramStep ==
  ASSUME KernelAssumption, InterruptInv, ProgramPic
  PROVE  InterruptInv'
<1>1. /\ pic \in Pics /\ pic.m \in Chip /\ pic.s \in Chip
      /\ maskM \in 0 .. 255 /\ maskS \in 0 .. 255 /\ step \in 1 .. 10
      /\ hpc = "none" /\ ~flagI /\ pc = "icw"
      /\ pic.m.isr = {} /\ pic.s.isr = {}
  BY DEF InterruptInv, TypeOK, ProgramPic, InterruptsOK, InService, Pics
<1>2. Len(PicProgram) = 10
  BY DEF PicProgram
<1>3. /\ pc' = IF step = 10 THEN "gates" ELSE "icw"
      /\ step' = IF step = 10 THEN 1 ELSE step + 1
      /\ WritePic(PicProgram[step])
      /\ UNCHANGED <<cpu, device, maskM, maskS, flagI, routines, handler>>
  BY <1>2 DEF ProgramPic
<1>4. ASSUME pic' \in Pics, pic'.m.isr = {}, pic'.s.isr = {}, ProgramOK'
      PROVE  InterruptInv'
  <2>1. TypeOK'
    BY <1>1, <1>3, <1>4 DEF InterruptInv, TypeOK, device, handler, Pics
  <2>2. InterruptsOK' /\ VectorsRemapped'
    BY <1>1, <1>3 DEF InterruptInv, InterruptsOK, VectorsRemapped, handler
  <2>3. InService'
    BY <1>1, <1>3, <1>4 DEF InService, AtMostOne, handler
  <2>4. QED
    BY <1>4, <2>1, <2>2, <2>3 DEF InterruptInv
<1>5. CASE step = 1
  <2>1. pic' = [pic EXCEPT !.m = WriteCommand(pic.m, 17)]
    BY <1>1, <1>3, <1>5 DEF PicProgram, WritePic, Out, Pics
  <2>2. /\ pic' \in Pics /\ pic'.s = pic.s
        /\ pic'.m.icw = "icw2" /\ pic'.m.isr = {}
    BY <1>1, <2>1, StartChip, PicM
  <2>3. ProgramOK'
    BY <1>1, <1>3, <1>5, <2>2 DEF InterruptInv, ProgramOK
  <2>4. QED
    BY <1>1, <1>4, <2>2, <2>3
<1>6. CASE step = 2
  <2>1. pic' = [pic EXCEPT !.s = WriteCommand(pic.s, 17)]
    BY <1>1, <1>3, <1>6 DEF PicProgram, WritePic, Out, Pics
  <2>2. /\ pic' \in Pics /\ pic'.m = pic.m
        /\ pic'.s.icw = "icw2" /\ pic'.s.isr = {}
    BY <1>1, <2>1, StartChip, PicS
  <2>3. ProgramOK'
    BY <1>1, <1>3, <1>6, <2>2 DEF InterruptInv, ProgramOK
  <2>4. QED
    BY <1>1, <1>4, <2>2, <2>3
<1>7. ASSUME step \in {3, 5, 7, 9}
      PROVE  InterruptInv'
  <2> DEFINE v == PicProgram[step].value
  <2>1. v \in 0 .. 255 /\ (step = 3 => v = 32) /\ PicProgram[step].port = "data"
        /\ PicProgram[step].chip = "m"
    BY <1>1, <1>7 DEF PicProgram, Out
  <2>2. pic' = [pic EXCEPT !.m = WriteData(pic.m, v)]
    BY <1>1, <1>3, <2>1 DEF WritePic, Pics
  <2> HIDE DEF v
  <2> DEFINE new == WriteData(pic.m, v)
  <2>3. /\ new \in Chip
        /\ new.isr = pic.m.isr
        /\ pic.m.icw = "icw2" => new.icw = "icw3" /\ new.base = v - (v % 8)
        /\ pic.m.icw = "icw3" => new.icw = "icw4" /\ new.base = pic.m.base
        /\ pic.m.icw = "icw4" => new.icw = "no" /\ new.base = pic.m.base
        /\ pic.m.icw = "no" => new.icw = "no" /\ new.base = pic.m.base
    BY <1>1, <2>1, DataChip, Zenon
  <2> HIDE DEF new
  <2>4. /\ pic' \in Pics /\ pic'.s = pic.s /\ pic'.m = new
        /\ pic'.m.isr = {}
    <3>1. pic' = [pic EXCEPT !.m = new]
      BY <2>2 DEF new
    <3>2. QED
      BY <1>1, <2>3, <3>1, PicM
  <2>5. 32 - (32 % 8) = 32
    OBVIOUS
  <2>6. ProgramOK'
    <3>1. CASE step = 3
      <4>1. pic.m.icw = "icw2"
        BY <1>1, <3>1 DEF InterruptInv, ProgramOK
      <4>2. pic'.m.icw = "icw3" /\ pic'.m.base = 32
        BY <1>1, <2>1, <2>4, <2>5, <3>1, <4>1, <2>3
      <4>3. QED
        BY <1>1, <1>3, <2>4, <3>1, <4>2 DEF InterruptInv, ProgramOK
    <3>2. CASE step = 5
      <4>1. pic.m.icw = "icw3"
        BY <1>1, <3>2 DEF InterruptInv, ProgramOK
      <4>2. pic'.m.icw = "icw4" /\ pic'.m.base = pic.m.base
        BY <1>1, <2>1, <2>4, <4>1, <2>3
      <4>3. QED
        BY <1>1, <1>3, <2>4, <3>2, <4>2 DEF InterruptInv, ProgramOK
    <3>3. CASE step = 7
      <4>1. pic.m.icw = "icw4"
        BY <1>1, <3>3 DEF InterruptInv, ProgramOK
      <4>2. pic'.m.icw = "no" /\ pic'.m.base = pic.m.base
        BY <1>1, <2>1, <2>4, <4>1, <2>3
      <4>3. QED
        BY <1>1, <1>3, <2>4, <3>3, <4>2 DEF InterruptInv, ProgramOK
    <3>4. CASE step = 9
      <4>1. pic.m.icw = "no"
        BY <1>1, <3>4 DEF InterruptInv, ProgramOK
      <4>2. pic'.m.icw = "no" /\ pic'.m.base = pic.m.base
        BY <1>1, <2>1, <2>4, <4>1, <2>3
      <4>3. QED
        BY <1>1, <1>3, <2>4, <3>4, <4>2 DEF InterruptInv, ProgramOK
    <3>5. QED
      BY <1>7, <3>1, <3>2, <3>3, <3>4
  <2>7. QED
    BY <1>1, <1>4, <2>4, <2>6
<1>8. ASSUME step \in {4, 6, 8, 10}
      PROVE  InterruptInv'
  <2> DEFINE v == PicProgram[step].value
  <2>1. v \in 0 .. 255 /\ (step = 4 => v = 40) /\ PicProgram[step].port = "data"
        /\ PicProgram[step].chip = "s"
    BY <1>1, <1>8 DEF PicProgram, Out
  <2>2. pic' = [pic EXCEPT !.s = WriteData(pic.s, v)]
    BY <1>1, <1>3, <2>1 DEF WritePic, Pics
  <2> HIDE DEF v
  <2> DEFINE new == WriteData(pic.s, v)
  <2>3. /\ new \in Chip
        /\ new.isr = pic.s.isr
        /\ pic.s.icw = "icw2" => new.icw = "icw3" /\ new.base = v - (v % 8)
        /\ pic.s.icw = "icw3" => new.icw = "icw4" /\ new.base = pic.s.base
        /\ pic.s.icw = "icw4" => new.icw = "no" /\ new.base = pic.s.base
        /\ pic.s.icw = "no" => new.icw = "no" /\ new.base = pic.s.base
    BY <1>1, <2>1, DataChip, Zenon
  <2> HIDE DEF new
  <2>4. /\ pic' \in Pics /\ pic'.m = pic.m /\ pic'.s = new
        /\ pic'.s.isr = {}
    <3>1. pic' = [pic EXCEPT !.s = new]
      BY <2>2 DEF new
    <3>2. QED
      BY <1>1, <2>3, <3>1, PicS
  <2>5. 40 - (40 % 8) = 40
    OBVIOUS
  <2>6. ProgramOK'
    <3>1. CASE step = 4
      <4>1. pic.s.icw = "icw2"
        BY <1>1, <3>1 DEF InterruptInv, ProgramOK
      <4>2. pic'.s.icw = "icw3" /\ pic'.s.base = 40
        BY <1>1, <2>1, <2>4, <2>5, <3>1, <4>1, <2>3
      <4>3. QED
        BY <1>1, <1>3, <2>4, <3>1, <4>2 DEF InterruptInv, ProgramOK
    <3>2. CASE step = 6
      <4>1. pic.s.icw = "icw3"
        BY <1>1, <3>2 DEF InterruptInv, ProgramOK
      <4>2. pic'.s.icw = "icw4" /\ pic'.s.base = pic.s.base
        BY <1>1, <2>1, <2>4, <4>1, <2>3
      <4>3. QED
        BY <1>1, <1>3, <2>4, <3>2, <4>2 DEF InterruptInv, ProgramOK
    <3>3. CASE step = 8
      <4>1. pic.s.icw = "icw4"
        BY <1>1, <3>3 DEF InterruptInv, ProgramOK
      <4>2. pic'.s.icw = "no" /\ pic'.s.base = pic.s.base
        BY <1>1, <2>1, <2>4, <4>1, <2>3
      <4>3. QED
        BY <1>1, <1>3, <2>4, <3>3, <4>2 DEF InterruptInv, ProgramOK
    <3>4. CASE step = 10
      <4>1. pic.s.icw = "no" /\ pic.m.icw = "no" /\ pic.m.base = 32 /\ pic.s.base = 40
        BY <1>1, <3>4 DEF InterruptInv, ProgramOK
      <4>2. pic'.s.icw = "no" /\ pic'.s.base = pic.s.base
        BY <1>1, <2>1, <2>4, <4>1, <2>3
      <4>3. QED
        BY <1>1, <1>3, <2>4, <3>4, <4>1, <4>2 DEF ProgramOK
    <3>5. QED
      BY <1>8, <3>1, <3>2, <3>3, <3>4
  <2>7. QED
    BY <1>1, <1>4, <2>4, <2>6
<1>9. QED
  BY <1>1, <1>5, <1>6, <1>7, <1>8
\* Nothing but the PIC program changes a chip's base or its place in the sequence.
SameProgram ==
  /\ pic'.m.icw = pic.m.icw /\ pic'.m.base = pic.m.base
  /\ pic'.s.icw = pic.s.icw /\ pic'.s.base = pic.s.base

LEMMA ProgramKept ==
  ASSUME InterruptInv, SameProgram, UNCHANGED <<pc, step>>
  PROVE  ProgramOK'
  BY DEF InterruptInv, ProgramOK, SameProgram

\* The steps of main before and after the PIC program.
LEMMA MainSteps ==
  ASSUME KernelAssumption, InterruptInv,
         kinit \/ initGDT \/ ReadMasks \/ LoadIdt \/ initPaging \/ PrintMessages
           \/ initKeyboard
  PROVE  InterruptInv'
<1>1. CASE ReadMasks
  <2>1. pic.m.imr \in 0 .. 255
    BY DEF InterruptInv, TypeOK, Chip
  <2>2. TypeOK'
    BY <1>1, <2>1 DEF ReadMasks, InterruptInv, TypeOK, device, handler
  <2>3. ProgramOK'
    BY <1>1 DEF ReadMasks, InterruptInv, ProgramOK
  <2>4. InterruptsOK' /\ InService' /\ VectorsRemapped'
    BY <1>1 DEF ReadMasks, InterruptInv, InterruptsOK, InService, AtMostOne, VectorsRemapped,
                handler
  <2>5. QED
    BY <2>2, <2>3, <2>4 DEF InterruptInv
<1>2. CASE LoadIdt
  <2>1. TypeOK'
    BY <1>2 DEF LoadIdt, InterruptInv, TypeOK, device, handler
  <2>2. ProgramOK'
    BY <1>2 DEF LoadIdt, InterruptInv, ProgramOK
  <2>3. InterruptsOK' /\ InService' /\ VectorsRemapped'
    BY <1>2 DEF LoadIdt, InterruptInv, InterruptsOK, InService, AtMostOne, VectorsRemapped,
                handler
  <2>4. QED
    BY <2>1, <2>2, <2>3 DEF InterruptInv
<1>3. CASE PrintMessages
  <2>1. TypeOK'
    BY <1>3 DEF PrintMessages, InterruptInv, TypeOK, device, handler
  <2>2. ProgramOK'
    BY <1>3 DEF PrintMessages, InterruptInv, ProgramOK
  <2>3. InterruptsOK' /\ InService' /\ VectorsRemapped'
    BY <1>3 DEF PrintMessages, InterruptInv, InterruptsOK, InService, AtMostOne,
                VectorsRemapped, handler
  <2>4. QED
    BY <2>1, <2>2, <2>3 DEF InterruptInv
<1>4. CASE initKeyboard
  <2>1. TypeOK'
    BY <1>4, ZenonT(60) DEF initKeyboard, InterruptInv, TypeOK, device
  <2>2. ProgramOK'
    BY <1>4 DEF initKeyboard, InterruptInv, ProgramOK
  <2>3. InterruptsOK' /\ InService' /\ VectorsRemapped'
    BY <1>4 DEF initKeyboard, InterruptInv, InterruptsOK, InService, AtMostOne,
                VectorsRemapped
  <2>4. QED
    BY <2>1, <2>2, <2>3 DEF InterruptInv
<1>5. CASE kinit
  <2>1. TypeOK'
    BY <1>5, ZenonT(60) DEF kinit, InterruptInv, TypeOK, device, handler
  <2>2. ProgramOK'
    BY <1>5 DEF kinit, InterruptInv, ProgramOK
  <2>3. InterruptsOK' /\ InService' /\ VectorsRemapped'
    BY <1>5 DEF kinit, InterruptInv, InterruptsOK, InService, AtMostOne,
                VectorsRemapped, handler
  <2>4. QED
    BY <2>1, <2>2, <2>3 DEF InterruptInv
<1>6. CASE initGDT
  <2>1. TypeOK'
    BY <1>6, ZenonT(60) DEF initGDT, InterruptInv, TypeOK, device, handler
  <2>2. ProgramOK'
    BY <1>6 DEF initGDT, InterruptInv, ProgramOK
  <2>3. InterruptsOK' /\ InService' /\ VectorsRemapped'
    BY <1>6 DEF initGDT, InterruptInv, InterruptsOK, InService, AtMostOne,
                VectorsRemapped, handler
  <2>4. QED
    BY <2>1, <2>2, <2>3 DEF InterruptInv
<1>7. CASE initPaging
  <2>1. TypeOK'
    BY <1>7 DEF initPaging, InterruptInv, TypeOK, device, handler
  <2>2. ProgramOK'
    BY <1>7 DEF initPaging, InterruptInv, ProgramOK
  <2>3. InterruptsOK' /\ InService' /\ VectorsRemapped'
    BY <1>7 DEF initPaging, InterruptInv, InterruptsOK, InService, AtMostOne,
                VectorsRemapped, handler
  <2>4. QED
    BY <2>1, <2>2, <2>3 DEF InterruptInv
<1>8. QED
  BY <1>1, <1>2, <1>3, <1>4, <1>5, <1>6, <1>7

\* The keyboard, the timer and the RTC.
LEMMA HardwareSteps ==
  ASSUME KernelAssumption, InterruptInv, Hardware
  PROVE  InterruptInv'
<1>1. /\ pic \in Pics /\ pic.m \in Chip /\ pic.s \in Chip
      /\ kbd \in [queue : Seq(0 .. 255), full : BOOLEAN, data : 0 .. 255]
      /\ sent \in Seq(0 .. 255) /\ noise \in Nat
  BY DEF InterruptInv, TypeOK, Pics
<1>2. 0 \in Lines /\ 1 \in Lines
  BY DEF Lines
<1>3. ASSUME pic' \in Pics, SameProgram, pic'.m.isr = pic.m.isr, pic'.s.isr = pic.s.isr,
             kbd' \in [queue : Seq(0 .. 255), full : BOOLEAN, data : 0 .. 255],
             sent' \in Seq(0 .. 255), early' \in BOOLEAN /\ mixed' \in BOOLEAN,
             noise' \in Nat,
             UNCHANGED <<main, handler>>
      PROVE  InterruptInv'
  <2>1. TypeOK'
    BY <1>3, SMTT(30) DEF InterruptInv, TypeOK, Pics, main, handler
  <2>2. ProgramOK'
    BY <1>3, ProgramKept DEF main
  <2>3. InterruptsOK' /\ InService' /\ VectorsRemapped'
    BY <1>3 DEF InterruptInv, InterruptsOK, InService, AtMostOne, VectorsRemapped, main,
                handler
  <2>4. QED
    BY <2>1, <2>2, <2>3 DEF InterruptInv
<1>4. ASSUME NEW b \in ScanCodes, SendByte(b)
      PROVE  InterruptInv'
  <2>1. b \in 0 .. 255
    BY DEF KernelAssumption
  <2>2. sent' \in Seq(0 .. 255) /\ Append(kbd.queue, b) \in Seq(0 .. 255)
    BY <1>1, <1>4, <2>1 DEF SendByte
  <2>3. kbd' \in [queue : Seq(0 .. 255), full : BOOLEAN, data : 0 .. 255]
    BY <1>1, <1>4, <2>2 DEF SendByte
  <2>4. early' \in BOOLEAN /\ mixed' \in BOOLEAN /\ SameProgram /\ pic' = pic
    BY <1>4 DEF SendByte, SameProgram, InterruptInv, TypeOK
  <2>5. noise' \in Nat /\ UNCHANGED <<main, handler>>
    BY <1>1, <1>4 DEF SendByte
  <2>6. QED
    BY <1>1, <1>3, <2>2, <2>3, <2>4, <2>5
<1>5. CASE FillBuffer
  <2>1. pic' = [pic EXCEPT !.m = Raise(pic.m, 1)]
    BY <1>5 DEF FillBuffer
  <2>2. pic' \in Pics /\ SameProgram /\ pic'.m.isr = pic.m.isr /\ pic'.s.isr = pic.s.isr
    BY <1>1, <1>2, <2>1, RaiseChip, PicM DEF SameProgram
  <2>3. Tail(kbd.queue) \in Seq(0 .. 255) /\ Head(kbd.queue) \in 0 .. 255
    <3>1. kbd.queue \in Seq(0 .. 255) /\ kbd.queue # <<>>
      BY <1>1, <1>5 DEF FillBuffer
    <3>2. QED
      BY <3>1, HeadTailProperties
  <2>4. kbd' \in [queue : Seq(0 .. 255), full : BOOLEAN, data : 0 .. 255]
    BY <1>5, <2>3 DEF FillBuffer
  <2>5. early' \in BOOLEAN /\ mixed' \in BOOLEAN
    BY <1>5 DEF FillBuffer
  <2>6. sent' \in Seq(0 .. 255) /\ noise' \in Nat /\ UNCHANGED <<main, handler>>
    BY <1>1, <1>5 DEF FillBuffer
  <2>7. QED
    BY <1>3, <2>2, <2>4, <2>5, <2>6
<1>6. CASE Tick
  <2>1. pic' = [pic EXCEPT !.m = Raise(pic.m, 0)]
    BY <1>6 DEF Tick
  <2>2. pic' \in Pics /\ SameProgram /\ pic'.m.isr = pic.m.isr /\ pic'.s.isr = pic.s.isr
    BY <1>1, <1>2, <2>1, RaiseChip, PicM DEF SameProgram
  <2>3. early' \in BOOLEAN /\ mixed' \in BOOLEAN
    BY <1>6 DEF Tick, InterruptInv, TypeOK
  <2>4. kbd' = kbd /\ sent' = sent /\ noise' \in Nat /\ UNCHANGED <<main, handler>>
    BY <1>1, <1>6 DEF Tick
  <2>5. QED
    BY <1>1, <1>3, <2>2, <2>3, <2>4
<1>7. CASE RtcTick
  <2>1. pic' = [pic EXCEPT !.s = Raise(pic.s, 0)]
    BY <1>7 DEF RtcTick
  <2>2. pic' \in Pics /\ SameProgram /\ pic'.m.isr = pic.m.isr /\ pic'.s.isr = pic.s.isr
    BY <1>1, <1>2, <2>1, RaiseChip, PicS DEF SameProgram
  <2>3. early' \in BOOLEAN /\ mixed' \in BOOLEAN
    BY <1>7 DEF RtcTick, InterruptInv, TypeOK
  <2>4. kbd' = kbd /\ sent' = sent /\ noise' \in Nat /\ UNCHANGED <<main, handler>>
    BY <1>1, <1>7 DEF RtcTick
  <2>5. QED
    BY <1>1, <1>3, <2>2, <2>3, <2>4
<1>8. QED
  BY <1>4, <1>5, <1>6, <1>7 DEF Hardware

\* The best request of a chip is one of its lines.
LEMMA BestLines ==
  ASSUME pic \in Pics
  PROVE  MasterBest \subseteq Lines /\ SlaveBest \subseteq Lines
<1>1. pic.m.irr \subseteq Lines /\ pic.s.irr \subseteq Lines /\ Cascade \in Lines
  BY DEF Pics, Chip, Lines, Cascade
<1>2. QED
  BY <1>1 DEF MasterBest, SlaveBest, Eligible

\* While no handler runs and interrupts are on, both chips are remapped and idle.
LEMMA ReadyForIrq ==
  ASSUME InterruptInv, flagI, hpc = "none"
  PROVE  /\ pic \in Pics /\ pic.m \in Chip /\ pic.s \in Chip
         /\ pic.m.base = 32 /\ pic.s.base = 40
         /\ pic.m.isr = {} /\ pic.s.isr = {}
  BY DEF InterruptInv, TypeOK, ProgramOK, InterruptsOK, InService, Pics

\* An interrupt is accepted.
LEMMA TakeSteps ==
  ASSUME KernelAssumption, InterruptInv, TakeIrq \/ TakeSpurious
  PROVE  InterruptInv'
<1>1. flagI /\ hpc = "none" /\ hpc' = "dispatch"
  BY DEF TakeIrq, TakeSpurious, EnterHandler
<1>2. /\ pic \in Pics /\ pic.m \in Chip /\ pic.s \in Chip
      /\ pic.m.base = 32 /\ pic.s.base = 40
      /\ pic.m.isr = {} /\ pic.s.isr = {}
  BY <1>1, ReadyForIrq
<1>3. Cascade \in Lines
  BY DEF Cascade, Lines
<1>4. ASSUME pic' \in Pics, SameProgram, AtMostOne(pic'.m.isr), AtMostOne(pic'.s.isr),
             intNo' \in 32 .. 47, intNo' < 40 => pic'.s.isr = {}, noise' \in Nat,
             UNCHANGED <<kbd, sent, early, mixed, main, scanCode, capsOn, typed, taken,
                         clobbered>>
      PROVE  InterruptInv'
  <2>1. intNo' \in 0 .. 255
    BY <1>4
  <2>2. TypeOK'
    BY <1>1, <1>4, <2>1 DEF InterruptInv, TypeOK, Pics, main
  <2>3. ProgramOK'
    BY <1>4, ProgramKept DEF main
  <2>4. InterruptsOK' /\ VectorsRemapped'
    BY <1>1, <1>4 DEF InterruptInv, InterruptsOK, VectorsRemapped, main
  <2>5. InService'
    BY <1>1, <1>4 DEF InService
  <2>6. QED
    BY <2>2, <2>3, <2>4, <2>5 DEF InterruptInv
<1>5. CASE TakeIrq
  <2> DEFINE l == Lowest(MasterBest)
             k == Lowest(SlaveBest)
  <2>1. l \in Lines
    <3>1. MasterBest \in SUBSET Lines /\ MasterBest # {}
      BY <1>2, <1>5, BestLines DEF TakeIrq
    <3>2. QED
      BY <3>1, LowestIn
  <2>2. SlaveBest # {} => k \in Lines
    <3>1. SlaveBest \in SUBSET Lines
      BY <1>2, BestLines
    <3>2. QED
      BY <3>1, LowestIn
  <2>3. noise \in Nat
    BY DEF InterruptInv, TypeOK
  <2>4. CASE l = Cascade /\ SlaveBest # {}
    <3>1. /\ pic' = [m |-> Service(pic.m, l), s |-> Service(pic.s, k)]
          /\ EnterHandler(pic.s.base + k)
      BY <1>5, <2>4 DEF TakeIrq
    <3> HIDE DEF l, k
    <3>2. /\ Service(pic.m, l) \in Chip /\ Service(pic.m, l).isr = {l}
          /\ Service(pic.m, l).icw = pic.m.icw /\ Service(pic.m, l).base = pic.m.base
      BY <1>2, <2>1, ServiceChip
    <3>3. /\ Service(pic.s, k) \in Chip /\ Service(pic.s, k).isr = {k}
          /\ Service(pic.s, k).icw = pic.s.icw /\ Service(pic.s, k).base = pic.s.base
      BY <1>2, <2>2, <2>4, ServiceChip
    <3>4. /\ pic' \in Pics /\ SameProgram
          /\ pic'.m.isr = {l} /\ pic'.s.isr = {k}
      BY <3>1, <3>2, <3>3 DEF Pics, SameProgram
    <3>5. intNo' \in 40 .. 47
      BY <1>2, <2>2, <2>4, <3>1 DEF EnterHandler, Lines
    <3>6. AtMostOne(pic'.m.isr) /\ AtMostOne(pic'.s.isr)
      BY <2>1, <2>2, <2>4, <3>4 DEF AtMostOne
    <3>7. noise' \in Nat /\ UNCHANGED <<kbd, sent, early, mixed, main, scanCode, capsOn, typed,
                                        taken, clobbered>>
      BY <2>3, <3>1 DEF EnterHandler, device
    <3>8. intNo' \in 32 .. 47 /\ ~(intNo' < 40)
      BY <3>5
    <3>9. QED
      BY <1>4, <3>4, <3>6, <3>7, <3>8
  <2>5. CASE ~(l = Cascade /\ SlaveBest # {})
    <3>1. /\ pic' = [pic EXCEPT !.m = Service(pic.m, l)]
          /\ EnterHandler(pic.m.base + l)
      BY <1>5, <2>5 DEF TakeIrq
    <3> HIDE DEF l, k
    <3>2. /\ Service(pic.m, l) \in Chip /\ Service(pic.m, l).isr = {l}
          /\ Service(pic.m, l).icw = pic.m.icw /\ Service(pic.m, l).base = pic.m.base
      BY <1>2, <2>1, ServiceChip
    <3>3. /\ pic' \in Pics /\ SameProgram
          /\ pic'.m.isr = {l} /\ pic'.s.isr = {}
      BY <1>2, <3>1, <3>2, PicM DEF SameProgram
    <3>4. intNo' \in 32 .. 47
      BY <1>2, <2>1, <3>1 DEF EnterHandler, Lines
    <3>5. AtMostOne(pic'.m.isr) /\ AtMostOne(pic'.s.isr)
      BY <2>1, <3>3 DEF AtMostOne
    <3>6. noise' \in Nat /\ UNCHANGED <<kbd, sent, early, mixed, main, scanCode, capsOn, typed,
                                        taken, clobbered>>
      BY <2>3, <3>1 DEF EnterHandler, device
    <3>7. QED
      BY <1>4, <3>3, <3>4, <3>5, <3>6
  <2>6. QED
    BY <2>4, <2>5
<1>6. CASE TakeSpurious
  <2>1. noise' \in Nat /\ UNCHANGED <<kbd, sent, early, mixed, main, scanCode, capsOn, typed,
                                      taken, clobbered>>
    BY <1>6 DEF TakeSpurious, InterruptInv, TypeOK
  <2>2. CASE intNo' = pic.m.base + 7 /\ pic' = pic
    <3>1. intNo' \in 32 .. 47
      BY <1>2, <2>2
    <3>2. /\ pic' \in Pics /\ SameProgram /\ AtMostOne(pic'.m.isr) /\ AtMostOne(pic'.s.isr)
          /\ pic'.s.isr = {}
      BY <1>2, <2>2 DEF SameProgram, AtMostOne
    <3>3. QED
      BY <1>4, <2>1, <3>1, <3>2
  <2>3. CASE intNo' = pic.s.base + 7 /\ pic' = [pic EXCEPT !.m = Service(pic.m, Cascade)]
    <3>1. intNo' \in 32 .. 47
      BY <1>2, <2>3
    <3>2. /\ Service(pic.m, Cascade) \in Chip /\ Service(pic.m, Cascade).isr = {Cascade}
          /\ Service(pic.m, Cascade).icw = pic.m.icw
          /\ Service(pic.m, Cascade).base = pic.m.base
      BY <1>2, <1>3, ServiceChip
    <3>3. /\ pic' \in Pics /\ SameProgram
          /\ pic'.m.isr = {Cascade} /\ pic'.s.isr = {}
      BY <1>2, <2>3, <3>2, PicM DEF SameProgram
    <3>4. AtMostOne(pic'.m.isr) /\ AtMostOne(pic'.s.isr)
      BY <1>3, <3>3 DEF AtMostOne
    <3>5. QED
      BY <1>4, <2>1, <3>1, <3>3, <3>4
  <2>4. QED
    BY <1>6, <2>2, <2>3 DEF TakeSpurious
<1>7. QED
  BY <1>5, <1>6

\* Reading port 60h may drop a request of line 1, and touches nothing else of a chip.
LEMMA ReadPortChips ==
  ASSUME pic \in Pics, ReadPort60
  PROVE  /\ pic' \in Pics /\ SameProgram
         /\ pic'.m.isr = pic.m.isr /\ pic'.s.isr = pic.s.isr
<1>1. CASE pic' = pic
  BY <1>1 DEF SameProgram
<1>2. CASE pic' = [pic EXCEPT !.m.irr = @ \ {1}]
  <2> DEFINE chip == [pic.m EXCEPT !.irr = @ \ {1}]
  <2>1. pic' = [pic EXCEPT !.m = chip]
    BY <1>2 DEF Pics
  <2>2. /\ chip \in Chip /\ chip.icw = pic.m.icw /\ chip.base = pic.m.base
        /\ chip.isr = pic.m.isr
    BY DEF Pics, Chip
  <2> HIDE DEF chip
  <2>3. QED
    BY <2>1, <2>2, PicM DEF SameProgram
<1>3. QED
  BY <1>1, <1>2 DEF ReadPort60

\* What keyboardHandler keeps of a byte.
LEMMA ScanCodeRange ==
  ASSUME NEW byte \in Nat
  PROVE  byte % 128 \in 0 .. 127
<1>1. byte % 128 < 128 /\ byte % 128 >= 0 /\ byte % 128 \in Int
  OBVIOUS
<1>2. QED
  BY <1>1

\* What the switch types is text.
LEMMA SwitchText ==
  ASSUME NEW code \in 0 .. 127, NEW pressed \in BOOLEAN,
         capsOn \in BOOLEAN, typed \in Text, SwitchOn(code, pressed)
  PROVE  capsOn' \in BOOLEAN /\ typed' \in Text
<1>1. capsOn' \in BOOLEAN
  BY Zenon DEF SwitchOn
<1>2. (capsOn /\ code # Backspace) \in BOOLEAN
  BY Zenon
<1>3. ASSUME NEW c \in BOOLEAN
      PROVE  Append(typed, <<code, c>>) \in Text
  <2> DEFINE Characters == (0 .. 127) \X BOOLEAN
  <2>1. typed \in Seq(Characters)
    BY DEF Text
  <2>2. <<code, c>> \in Characters
    OBVIOUS
  <2> HIDE DEF Characters
  <2>3. Append(typed, <<code, c>>) \in Seq(Characters)
    BY <2>1, <2>2
  <2>4. QED
    BY <2>3 DEF Text, Characters
<1>4. typed' = typed \/ typed' = Append(typed, <<code, capsOn /\ code # Backspace>>)
  BY Zenon DEF SwitchOn
<1>5. QED
  BY <1>1, <1>2, <1>3, <1>4, Zenon

\* The steps of the handler.
LEMMA HandlerSteps ==
  ASSUME KernelAssumption, InterruptInv, HandlerStep
  PROVE  InterruptInv'
<1>1. /\ pic \in Pics /\ pic.m \in Chip /\ pic.s \in Chip
      /\ AtMostOne(pic.m.isr) /\ AtMostOne(pic.s.isr)
      /\ intNo \in 0 .. 255
  BY DEF InterruptInv, TypeOK, InService, Pics
<1>2. /\ kbd \in [queue : Seq(0 .. 255), full : BOOLEAN, data : 0 .. 255]
      /\ taken \in Seq(0 .. 255) /\ scanCode \in 0 .. 127
  BY DEF InterruptInv, TypeOK
<1>3. capsOn \in BOOLEAN /\ typed \in Text /\ clobbered \subseteq HandlerWrites
  BY Zenon DEF InterruptInv, TypeOK
<1>4. hpc # "none" /\ flagI
  BY DEF HandlerStep, Dispatch, Inb1, Inb2, EoiSlave, EoiMaster, Iretq, InterruptInv,
         InterruptsOK
<1>5. intNo \in 32 .. 47
  BY <1>4 DEF InterruptInv, VectorsRemapped
<1>6. ASSUME pic' \in Pics, SameProgram, UNCHANGED <<sent, early, mixed, noise, main, intNo>>,
             kbd' \in [queue : Seq(0 .. 255), full : BOOLEAN, data : 0 .. 255],
             hpc' \in {"none", "dispatch", "inb1", "inb2", "eoiS", "eoiM", "iretq"},
             scanCode' \in 0 .. 127, taken' \in Seq(0 .. 255),
             capsOn' \in BOOLEAN /\ typed' \in Text /\ clobbered' \subseteq HandlerWrites,
             InService'
      PROVE  InterruptInv'
  <2>1. TypeOK'
    BY <1>6 DEF InterruptInv, TypeOK, Pics, main
  <2>2. ProgramOK'
    BY <1>6, ProgramKept DEF main
  <2>3. InterruptsOK' /\ VectorsRemapped'
    BY <1>4, <1>5, <1>6 DEF InterruptInv, InterruptsOK, VectorsRemapped, main
  <2>4. QED
    BY <1>6, <2>1, <2>2, <2>3 DEF InterruptInv
<1>7. EoiStep \in {"eoiS", "eoiM"} /\ (EoiStep = "eoiS" => intNo >= 40)
      /\ (EoiStep = "eoiM" => intNo < 40)
  BY <1>1 DEF EoiStep
<1>8. CASE Dispatch
  <2>1. /\ hpc = "dispatch" /\ hpc' \in {"inb1", "eoiS", "eoiM"}
        /\ hpc' = "eoiS" => intNo >= 40
        /\ hpc' = "eoiM" => intNo < 40
    BY <1>7, <1>8 DEF Dispatch
  <2>2. UNCHANGED <<pic, device, main, intNo, scanCode, capsOn, typed, taken, clobbered>>
    BY <1>8 DEF Dispatch
  <2>3. InService'
    BY <2>1, <2>2 DEF InterruptInv, InService, AtMostOne
  <2>4. SameProgram
    BY <2>2 DEF SameProgram
  <2>5. QED
    BY <1>1, <1>2, <1>3, <1>6, <2>1, <2>2, <2>3, <2>4 DEF device
<1>9. CASE Inb1
  <2>1. /\ pic' \in Pics /\ SameProgram
        /\ pic'.m.isr = pic.m.isr /\ pic'.s.isr = pic.s.isr
    BY <1>1, <1>9, ReadPortChips DEF Inb1
  <2>2. kbd' \in [queue : Seq(0 .. 255), full : BOOLEAN, data : 0 .. 255]
    BY <1>2, <1>9 DEF Inb1, ReadPort60
  <2>3. scanCode' \in 0 .. 127
    <3>1. kbd.data \in 0 .. 255
      BY <1>2
    <3>2. scanCode' = kbd.data % 128
      BY <1>9, Zenon DEF Inb1
    <3>3. QED
      BY <3>1, <3>2, ScanCodeRange
  <2>4. taken' \in Seq(0 .. 255)
    BY <1>2, <1>9 DEF Inb1
  <2>5. /\ hpc = "inb1" /\ hpc' = "inb2"
        /\ UNCHANGED <<sent, early, mixed, noise, main, intNo, capsOn, typed, clobbered>>
    BY <1>9 DEF Inb1, ReadPort60
  <2>6. InService'
    BY <2>1, <2>5 DEF InterruptInv, InService, AtMostOne
  <2>7. QED
    BY <1>3, <1>6, <2>1, <2>2, <2>3, <2>4, <2>5, <2>6
<1>10. CASE Inb2
  <2>1. /\ pic' \in Pics /\ SameProgram
        /\ pic'.m.isr = pic.m.isr /\ pic'.s.isr = pic.s.isr
    BY <1>1, <1>10, ReadPortChips DEF Inb2
  <2>2. kbd' \in [queue : Seq(0 .. 255), full : BOOLEAN, data : 0 .. 255]
    BY <1>2, <1>10 DEF Inb2, ReadPort60
  <2>3. capsOn' \in BOOLEAN /\ typed' \in Text
    <3>1. SwitchOn(scanCode, kbd.data < 128)
      BY <1>10 DEF Inb2
    <3>2. (kbd.data < 128) \in BOOLEAN
      BY <1>2
    <3>3. QED
      BY <1>2, <1>3, <3>1, <3>2, SwitchText, Zenon
  <2>4. /\ hpc = "inb2" /\ hpc' = EoiStep
        /\ UNCHANGED <<sent, early, mixed, noise, main, intNo, scanCode, taken, clobbered>>
    BY <1>10 DEF Inb2, ReadPort60
  <2>5. InService'
    BY <1>7, <2>1, <2>4 DEF InterruptInv, InService, AtMostOne
  <2>6. QED
    BY <1>2, <1>3, <1>6, <1>7, <2>1, <2>2, <2>3, <2>4, <2>5
<1>11. CASE EoiSlave
  <2>1. pic' = [pic EXCEPT !.s = WriteCommand(pic.s, 32)]
    BY <1>11 DEF EoiSlave, EndOfInterrupt
  <2>2. /\ pic' \in Pics /\ SameProgram
        /\ pic'.m.isr = pic.m.isr /\ pic'.s.isr = {}
    BY <1>1, <2>1, EndChip, PicS DEF SameProgram
  <2>3. /\ hpc = "eoiS" /\ hpc' = "eoiM"
        /\ UNCHANGED <<device, main, intNo, scanCode, capsOn, typed, taken, clobbered>>
    BY <1>11 DEF EoiSlave
  <2>4. InService'
    BY <2>2, <2>3 DEF InterruptInv, InService, AtMostOne
  <2>5. QED
    BY <1>2, <1>3, <1>6, <2>2, <2>3, <2>4 DEF device
<1>12. CASE EoiMaster
  <2>1. pic' = [pic EXCEPT !.m = WriteCommand(pic.m, 32)]
    BY <1>12 DEF EoiMaster, EndOfInterrupt
  <2>2. /\ pic' \in Pics /\ SameProgram
        /\ pic'.m.isr = {} /\ pic'.s.isr = pic.s.isr
    BY <1>1, <2>1, EndChip, PicM DEF SameProgram
  <2>3. /\ hpc = "eoiM" /\ hpc' = "iretq"
        /\ UNCHANGED <<device, main, intNo, scanCode, capsOn, typed, taken, clobbered>>
    BY <1>12 DEF EoiMaster
  <2>4. InService'
    BY <2>2, <2>3 DEF InterruptInv, InService, AtMostOne
  <2>5. QED
    BY <1>2, <1>3, <1>6, <2>2, <2>3, <2>4 DEF device
<1>13. CASE Iretq
  <2>1. /\ hpc = "iretq" /\ hpc' = "none"
        /\ UNCHANGED <<pic, device, main, intNo, scanCode, capsOn, typed, taken>>
    BY <1>13 DEF Iretq
  <2>2. clobbered' \subseteq HandlerWrites
    BY <1>3, <1>13 DEF Iretq
  <2>3. InService'
    BY <2>1 DEF InterruptInv, InService, AtMostOne
  <2>4. SameProgram
    BY <2>1 DEF SameProgram
  <2>5. QED
    BY <1>1, <1>2, <1>3, <1>6, <2>1, <2>2, <2>3, <2>4 DEF device
<1>14. QED
  BY <1>8, <1>9, <1>10, <1>11, <1>12, <1>13 DEF HandlerStep

\* main stays at the instruction that reads bootParams.
LEMMA FaultSteps ==
  ASSUME KernelAssumption, InterruptInv, PageFault
  PROVE  InterruptInv'
<1>1. /\ UNCHANGED <<pic, device, main, hpc, intNo, scanCode, capsOn, typed, taken>>
      /\ clobbered' = clobbered \cup (HandlerWrites \ Pushed)
  BY DEF PageFault
<1>2. clobbered' \subseteq HandlerWrites
  BY <1>1 DEF InterruptInv, TypeOK
<1>3. TypeOK'
  BY <1>1, <1>2 DEF InterruptInv, TypeOK, device, main
<1>4. ProgramOK' /\ InterruptsOK' /\ InService' /\ VectorsRemapped'
  BY <1>1 DEF InterruptInv, ProgramOK, InterruptsOK, InService, AtMostOne, VectorsRemapped,
              main
<1>5. QED
  BY <1>3, <1>4 DEF InterruptInv

-----------------------------------------------------------------------------
(* The theorems. *)

\* Whatever main, the handler and the devices do, in any order: the interrupt state
\* of initIDT, irq_handler and the two controllers keeps to its invariant.
THEOREM InterruptInvariant ==
  Spec => []InterruptInv
<1> USE KernelAssumption
<1>1. Init => InterruptInv
  BY InitInterrupts
<1>2. InterruptInv /\ [Next]_vars => InterruptInv'
  <2> SUFFICES ASSUME InterruptInv, [Next]_vars
               PROVE  InterruptInv'
    OBVIOUS
  <2>1. CASE MainStep
    BY <2>1, ProgramStep, MainSteps DEF MainStep
  <2>2. CASE HandlerStep
    BY <2>2, HandlerSteps
  <2>3. CASE Hardware
    BY <2>3, HardwareSteps
  <2>4. CASE TakeIrq \/ TakeSpurious
    BY <2>4, TakeSteps
  <2>5. CASE PageFault
    BY <2>5, FaultSteps
  <2>6. CASE UNCHANGED vars
    BY <2>6, SMTT(60) DEF vars, device, main, handler, InterruptInv, TypeOK, ProgramOK,
                InterruptsOK, InService, AtMostOne, VectorsRemapped
  <2>7. QED
    BY <2>1, <2>2, <2>3, <2>4, <2>5, <2>6 DEF Next
<1>3. QED
  BY <1>1, <1>2, PTL DEF Spec

\* Type correctness of the kernel's interrupt code.
THEOREM TypeCorrect ==
  Spec => []TypeOK
<1>1. InterruptInv => TypeOK
  BY DEF InterruptInv
<1>2. QED
  BY <1>1, InterruptInvariant, PTL

\* irq_handler leaves nothing in service, at either chip.
THEOREM EveryIrqEnded ==
  Spec => []EoiBalanced
<1>1. InterruptInv => EoiBalanced
  BY DEF InterruptInv, InService, EoiBalanced
<1>2. QED
  BY <1>1, InterruptInvariant, PTL

\* irq_routines is never indexed outside its bounds.
THEOREM VectorsInBounds ==
  Spec => []VectorsRemapped
<1>1. InterruptInv => VectorsRemapped
  BY DEF InterruptInv
<1>2. QED
  BY <1>1, InterruptInvariant, PTL

-----------------------------------------------------------------------------
(* The descriptors: what gdt.c and idt.c take apart the CPU puts together  *)
(* again, for every address of a stub, and for the descriptors of both     *)
(* GDTs.                                                                   *)

\* Division with remainder, and that there is one way to do it.
LEMMA DivMod ==
  ASSUME NEW n \in Nat, NEW w \in Nat \ {0}
  PROVE  /\ n \div w \in Nat
         /\ n % w \in 0 .. w - 1
         /\ n = (w * (n \div w)) + (n % w)
  OBVIOUS

LEMMA DivModInt ==
  ASSUME NEW n \in Int, NEW w \in Nat \ {0}
  PROVE  /\ n \div w \in Int
         /\ n % w \in 0 .. w - 1
         /\ n = (w * (n \div w)) + (n % w)
  OBVIOUS

LEMMA DivUnique ==
  ASSUME NEW w \in Nat \ {0}, NEW q \in Nat, NEW r \in 0 .. w - 1,
         NEW p \in Nat, NEW s \in 0 .. w - 1,
         (w * q) + r = (w * p) + s
  PROVE  q = p
<1>1. CASE q < p
  <2>1. p = q + 1 + (p - q - 1) /\ p - q - 1 \in Nat
    BY <1>1
  <2>2. w * p = (w * q) + w + (w * (p - q - 1)) /\ w * (p - q - 1) \in Nat
    BY <2>1
  <2>3. QED
    BY <2>2
<1>2. CASE p < q
  <2>1. q = p + 1 + (q - p - 1) /\ q - p - 1 \in Nat
    BY <1>2
  <2>2. w * q = (w * p) + w + (w * (q - p - 1)) /\ w * (q - p - 1) \in Nat
    BY <2>1
  <2>3. QED
    BY <2>2
<1>3. QED
  BY <1>1, <1>2

\* Dividing twice by a word divides by a double word.
LEMMA DivTwice ==
  ASSUME NEW n \in Nat, NEW w \in Nat \ {0}
  PROVE  (n \div w) \div w = n \div (w * w)
<1> DEFINE q == n \div w
           p == q \div w
<1>1. q \in Nat /\ n % w \in 0 .. w - 1 /\ n = (w * q) + (n % w)
  BY DivMod
<1>2. p \in Nat /\ q % w \in 0 .. w - 1 /\ q = (w * p) + (q % w)
  BY <1>1, DivMod
<1>3. w * w \in Nat \ {0}
  OBVIOUS
<1>4. /\ n \div (w * w) \in Nat /\ n % (w * w) \in 0 .. (w * w) - 1
      /\ n = ((w * w) * (n \div (w * w))) + (n % (w * w))
  BY <1>3, DivMod
<1> HIDE DEF q, p
<1>5. PICK a \in 0 .. w - 1 : a = n % w
  BY <1>1
<1>6. PICK b \in 0 .. w - 1 : b = q % w
  BY <1>2
<1>7. n = ((w * w) * p) + ((w * b) + a)
  <2>1. n = (w * ((w * p) + b)) + a
    BY <1>1, <1>2, <1>5, <1>6
  <2>2. w * ((w * p) + b) = ((w * w) * p) + (w * b)
    BY <1>2, <1>6
  <2>3. w * b \in Nat /\ (w * w) * p \in Nat
    BY <1>2, <1>3, <1>6
  <2>4. QED
    BY <1>5, <2>1, <2>2, <2>3
<1>8. (w * b) + a \in 0 .. (w * w) - 1
  <2>1. w * b <= w * (w - 1) /\ w * b \in Nat
    BY <1>6
  <2>2. w * (w - 1) = (w * w) - w
    OBVIOUS
  <2>3. QED
    BY <1>3, <1>5, <2>1, <2>2
<1>9. p = n \div (w * w)
  BY <1>2, <1>3, <1>4, <1>7, <1>8, DivUnique
<1>10. QED
  BY <1>9 DEF p, q

\* A number below w * w, divided by w, is below w.
LEMMA DivBelow ==
  ASSUME NEW w \in Nat \ {0}, NEW n \in 0 .. (w * w) - 1
  PROVE  n \div w \in 0 .. w - 1
<1>1. n \div w \in Nat /\ n % w \in 0 .. w - 1 /\ n = (w * (n \div w)) + (n % w)
  <2>1. n \in Nat
    OBVIOUS
  <2>2. QED
    BY <2>1, DivMod
<1>2. PICK q \in Nat : q = n \div w
  BY <1>1
<1>3. w * q < w * w
  BY <1>1, <1>2
<1>4. q < w
  <2>1. SUFFICES ASSUME q >= w PROVE FALSE
    BY <1>2
  <2>2. w * q >= w * w
    BY <2>1
  <2>3. QED
    BY <1>3, <2>2
<1>5. QED
  BY <1>2, <1>4

\* Three digits, two of them written together.
LEMMA ThreeParts ==
  ASSUME NEW w \in Nat \ {0}, NEW p \in Nat, NEW b \in Nat, NEW a \in Nat
  PROVE  (w * ((w * p) + b)) + a = a + (w * b) + ((w * w) * p)
<1>1. w * ((w * p) + b) = (w * (w * p)) + (w * b)
  OBVIOUS
<1>2. w * (w * p) = (w * w) * p
  OBVIOUS
<1>3. (w * b) \in Nat /\ (w * (w * p)) \in Nat
  OBVIOUS
<1>4. QED
  BY <1>1, <1>2, <1>3

\* The three parts of a gate's offset (setIDTGate, idt.c) are the address again,
\* whatever address the linker gives a stub.
THEOREM GateDecodes ==
  ASSUME WORD \in Nat \ {0}, NEW offset \in 0 .. (DWORD * DWORD) - 1, NEW selector,
         NEW attributes
  PROVE  GateOffset(setIDTGate(offset, selector, attributes)) = offset
<1> DEFINE q == offset \div WORD
<1>1. DWORD \in Nat \ {0} /\ offset \in Nat
  BY DEF DWORD
<1>2. q \in Nat /\ offset % WORD \in 0 .. WORD - 1 /\ offset = (WORD * q) + (offset % WORD)
  BY <1>1, DivMod
<1>3. q \div WORD \in Nat /\ q % WORD \in 0 .. WORD - 1
      /\ q = (WORD * (q \div WORD)) + (q % WORD)
  BY <1>2, DivMod
<1>4. q \div WORD = offset \div DWORD
  BY <1>1, DivTwice DEF DWORD
<1>5. offset \div DWORD \in 0 .. DWORD - 1
  BY <1>1, DivBelow
<1>6. (offset \div DWORD) % DWORD = offset \div DWORD
  BY <1>1, <1>5
<1>7. GateOffset(setIDTGate(offset, selector, attributes))
        = (offset % WORD) + (WORD * (q % WORD)) + (DWORD * (offset \div DWORD))
  BY <1>6 DEF GateOffset, setIDTGate
<1> HIDE DEF q
<1>8. PICK p \in Nat, b \in Nat, a \in Nat :
         p = q \div WORD /\ b = q % WORD /\ a = offset % WORD
  BY <1>2, <1>3
<1>9. offset = a + (WORD * b) + (DWORD * p)
  <2>1. offset = (WORD * ((WORD * p) + b)) + a
    BY <1>2, <1>3, <1>8
  <2>2. (WORD * ((WORD * p) + b)) + a = a + (WORD * b) + ((WORD * WORD) * p)
    BY ThreeParts
  <2>3. QED
    BY <2>1, <2>2 DEF DWORD
<1>10. QED
  BY <1>4, <1>7, <1>8, <1>9

\* The code segments of the kernel's GDT and of prekernel.asm's are 64-bit code of
\* ring 0, and the data segment can be written.
LEMMA SegmentsDecode ==
  /\ Is64BitCode(KernelGdt[8]) /\ Ring(KernelGdt[8]) = 0
  /\ Is64BitCode(InitGdt[24]) /\ Ring(InitGdt[24]) = 0
  /\ IsWritableData(KernelGdt[16]) /\ IsWritableData(InitGdt[16])
<1>1. /\ KernelGdt[8] = setGDTGate(0, -1, CodeAccess(0), 175)
      /\ KernelGdt[16] = setGDTGate(0, -1, DataAccess(0), 175)
      /\ InitGdt[24] = setGDTGate(0, -1, CodeAccess(0), 175)
      /\ InitGdt[16] = setGDTGate(0, -1, DataAccess(0), 207)
  BY DEF KernelGdt, InitGdt
<1>2. CodeAccess(0) = 154 /\ DataAccess(0) = 146
  BY DEF CodeAccess, DataAccess
<1>3. Flags(-1, 175) = 175
  <2>1. PICK n \in Int : n = -1
    OBVIOUS
  <2>2. PICK w \in Nat \ {0}, v \in Nat \ {0} : w = 65536 /\ v = 16
    OBVIOUS
  <2>3. /\ n \div w \in Int /\ n % w \in 0 .. w - 1
        /\ n = (w * (n \div w)) + (n % w)
        /\ n \div v \in Int /\ n % v \in 0 .. v - 1
        /\ n = (v * (n \div v)) + (n % v)
    BY DivModInt, Zenon
  <2>4. n \div w = n
    BY <2>1, <2>2, <2>3
  <2>5. n % v = 15
    BY <2>1, <2>2, <2>3
  <2>6. (175 \div 16) % 16 = 10
    OBVIOUS
  <2>7. Flags(n, 175) = 175
    BY <2>2, <2>4, <2>5, <2>6 DEF Flags
  <2>8. QED
    BY <2>1, <2>7
<1>4. /\ Is64BitCode(setGDTGate(0, -1, CodeAccess(0), 175))
      /\ Ring(setGDTGate(0, -1, CodeAccess(0), 175)) = 0
  BY <1>2, <1>3 DEF Is64BitCode, Ring, Has, setGDTGate
<1>5. /\ IsWritableData(setGDTGate(0, -1, DataAccess(0), 175))
      /\ IsWritableData(setGDTGate(0, -1, DataAccess(0), 207))
  BY <1>2 DEF IsWritableData, Has, setGDTGate
<1>6. QED
  BY <1>1, <1>4, <1>5

\* Every gate of the IDT is an interrupt gate into the kernel's code segment, to its
\* vector's stub.
LEMMA IdtDecodes ==
  ASSUME DescriptorAssumption, NEW v \in Vectors
  PROVE  /\ IsInterruptGate(Idt[v])
         /\ GateOffset(Idt[v]) = StubAddress[v]
         /\ Idt[v].selector = 8
<1>1. Idt[v] = setIDTGate(StubAddress[v], 8, IDT_ATTRIBUTE_INTERRUPT)
  BY DEF Idt
<1>2. StubAddress[v] \in 0 .. (DWORD * DWORD) - 1 /\ WORD \in Nat \ {0}
  BY DEF DescriptorAssumption
<1>3. GateOffset(Idt[v]) = StubAddress[v]
  BY <1>1, <1>2, GateDecodes
<1>4. QED
  BY <1>1, <1>3 DEF IsInterruptGate, Has, setIDTGate, IDT_ATTRIBUTE_INTERRUPT

-----------------------------------------------------------------------------
(* Delivery: every interrupt and exception finds its way, for every place  *)
(* the linker gives the stubs and the kernel's pages.                      *)

\* Where main has brought the CPU's tables.
CpuOK ==
  /\ pc # "kinit" => cpu.tables \in {"init", "pager"}
  /\ pc \notin {"kinit", "gdt"} => cpu.gdt = "kernel" /\ cpu.cs = 8

-----------------------------------------------------------------------------
(* The page tables. *)

\* Both sets of tables map the kernel's image and the stack's page where the linker
\* put them.
LEMMA InitMaps ==
  ASSUME LayoutAssumption
  PROVE  KernelAddresses(InitTables) /\ LowAddresses(InitTables)
<1>1. /\ InitTables.top = [i \in {0, 511} |-> IF i = 0 THEN "init_page_dir_tab"
                                                       ELSE "kern_page_dir_tab"]
      /\ InitTables.middle["init_page_dir_tab"] = [i \in {0} |-> "init_page_dir"]
      /\ InitTables.middle["kern_page_dir_tab"] = [i \in {511} |-> "init_page_dir"]
      /\ InitTables.bottom["init_page_dir"] = [i \in Index |-> i]
  BY DEF InitTables
<1>2. ASSUME NEW p \in Index
      PROVE  MapsTo(InitTables, 511, 511, p, p) /\ MapsTo(InitTables, 0, 0, p, p)
  BY <1>1 DEF MapsTo
<1>3. ImagePages \subseteq Index /\ StackPage \in Index /\ 0 \in Index
  BY DEF LayoutAssumption, Index
<1>4. QED
  BY <1>2, <1>3 DEF KernelAddresses, LowAddresses

LEMMA PagerMaps ==
  ASSUME LayoutAssumption
  PROVE  KernelAddresses(PagerTables) /\ LowAddresses(PagerTables)
<1>1. /\ PagerTables.top = [i \in {0, 511} |-> "pageDirTab"]
      /\ PagerTables.middle["pageDirTab"]
           = [i \in {0, 511} |-> IF i = 0 THEN "basePageDir" ELSE "kernelPageDir"]
      /\ PagerTables.bottom["basePageDir"] = [i \in {0} |-> 0]
      /\ PagerTables.bottom["kernelPageDir"] = [i \in Index |-> i]
  BY DEF PagerTables
<1>2. ASSUME NEW p \in Index
      PROVE  MapsTo(PagerTables, 511, 511, p, p)
  BY <1>1 DEF MapsTo
<1>3. MapsTo(PagerTables, 0, 0, 0, 0)
  BY <1>1 DEF MapsTo
<1>4. ImagePages \subseteq Index /\ StackPage = 0
  BY DEF LayoutAssumption, Index
<1>5. QED
  BY <1>2, <1>3, <1>4 DEF KernelAddresses, LowAddresses

-----------------------------------------------------------------------------
(* The CPU's registers. *)

LEMMA CpuSteps ==
  ASSUME InterruptInv, CpuOK, [Next]_vars
  PROVE  CpuOK'
<1>1. cpu = [gdt |-> cpu.gdt, cs |-> cpu.cs, tables |-> cpu.tables, rdi |-> cpu.rdi]
  BY DEF InterruptInv, TypeOK
<1>2. CASE MainStep
  <2>1. CASE kinit
    BY <1>1, <2>1 DEF kinit, CpuOK
  <2>2. CASE initGDT
    BY <1>1, <2>2 DEF initGDT, CpuOK
  <2>3. CASE initPaging
    BY <1>1, <2>3 DEF initPaging, CpuOK
  <2>4. CASE ReadMasks \/ ProgramPic \/ LoadIdt \/ PrintMessages \/ initKeyboard
    <3>1. cpu' = cpu /\ pc \notin {"kinit", "gdt"}
      BY <2>4 DEF ReadMasks, ProgramPic, LoadIdt, PrintMessages, initKeyboard
    <3>2. QED
      BY <3>1 DEF CpuOK
  <2>5. QED
    BY <1>2, <2>1, <2>2, <2>3, <2>4 DEF MainStep
<1>3. CASE UNCHANGED <<cpu, pc>>
  BY <1>3 DEF CpuOK
<1>4. CASE HandlerStep \/ PageFault
  BY <1>3, <1>4 DEF HandlerStep, PageFault, Dispatch, Inb1, Inb2, EoiSlave, EoiMaster, Iretq, main
<1>5. CASE Hardware
  BY <1>3, <1>5 DEF Hardware, SendByte, FillBuffer, Tick, RtcTick, main
<1>6. CASE TakeIrq \/ TakeSpurious
  BY <1>3, <1>6 DEF TakeIrq, TakeSpurious, EnterHandler, main
<1>7. CASE UNCHANGED vars
  BY <1>3, <1>7 DEF vars, main
<1>8. QED
  BY <1>2, <1>4, <1>5, <1>6, <1>7 DEF Next

\* From kinit to the hlt loop, at every step of main between which an interrupt or an
\* exception may come, gates, segments and page tables fit together.
THEOREM InterruptsDelivered ==
  Spec => []DeliveryRight
<1> USE DescriptorAssumption, LayoutAssumption
<1>1. Init => CpuOK
  BY DEF Init, CpuOK
<1>2. InterruptInv /\ CpuOK /\ [Next]_vars => CpuOK'
  BY CpuSteps
<1>3. InterruptInv /\ CpuOK => DeliveryRight
  <2> SUFFICES ASSUME InterruptInv, CpuOK, flagI
               PROVE  DeliveryRight
    BY DEF DeliveryRight
  <2>1. pc \in {"paging", "print", "keyboard", "idle"}
    BY DEF InterruptInv, InterruptsOK
  <2>2. cpu.tables \in {"init", "pager"} /\ cpu.gdt = "kernel" /\ cpu.cs = 8
    BY <2>1 DEF CpuOK
  <2>3. Gdt = KernelGdt
    BY <2>2 DEF Gdt
  <2>4. Tables = InitTables \/ Tables = PagerTables
    BY <2>2 DEF Tables
  <2>5. KernelAddresses(Tables) /\ LowAddresses(Tables)
    BY <2>4, InitMaps, PagerMaps
  <2>6. \A v \in Vectors : /\ IsInterruptGate(Idt[v])
                           /\ GateOffset(Idt[v]) = StubAddress[v]
                           /\ Idt[v].selector = 8
    BY IdtDecodes
  <2>7. QED
    BY <2>2, <2>3, <2>5, <2>6, SegmentsDecode, Zenon DEF DeliveryRight
<1>4. QED
  BY <1>1, <1>2, <1>3, InterruptInvariant, PTL DEF Spec

-----------------------------------------------------------------------------
(* The keyboard. *)

\* An interrupt of line 1 is on its way to the first read of port 60h.
Serving == hpc = "inb1" \/ (hpc = "dispatch" /\ intNo = 33)

\* A byte in the output buffer is requested, being read, or came too early.  As long as
\* no byte has come between two reads, a request of line 1 stands for a byte there.
LineOK ==
  /\ kbd.full => 1 \in pic.m.irr \/ Serving \/ hpc = "inb2" \/ early
  /\ kbd.full /\ 1 \notin routines => early
  /\ ~mixed => /\ 1 \in pic.m.irr => kbd.full
               /\ Serving => kbd.full /\ 1 \notin pic.m.irr
               /\ hpc = "inb2" => ~kbd.full

\* Only initKeyboard installs a routine, and main is idle after it.
RoutineOK ==
  /\ routines # {} => pc = "idle"
  /\ hpc \in {"inb1", "inb2"} => 1 \in routines

KeyInv == LineOK /\ RoutineOK /\ NothingLost

-----------------------------------------------------------------------------
(* Sequences of bytes. *)

Bytes == 0 .. 255

\* A byte joins the queue, moves to the output buffer, and is read.
LEMMA ByteMoves ==
  ASSUME NEW t \in Seq(Bytes), NEW q \in Seq(Bytes), NEW d \in Seq(Bytes), NEW b \in Bytes
  PROVE  /\ (t \o d) \o Append(q, b) = Append((t \o d) \o q, b)
         /\ q # <<>> => (t \o <<Head(q)>>) \o Tail(q) = (t \o <<>>) \o q
         /\ (t \o <<b>>) \o q = (Append(t, b) \o <<>>) \o q
<1>1. (t \o d) \o Append(q, b) = Append((t \o d) \o q, b)
  OBVIOUS
<1>2. ASSUME q # <<>>
      PROVE  (t \o <<Head(q)>>) \o Tail(q) = (t \o <<>>) \o q
  <2>1. /\ Head(q) \in Bytes /\ Tail(q) \in Seq(Bytes)
        /\ <<Head(q)>> \o Tail(q) = q
    BY <1>2
  <2>2. <<Head(q)>> \in Seq(Bytes)
    BY <2>1
  <2>3. (t \o <<Head(q)>>) \o Tail(q) = t \o (<<Head(q)>> \o Tail(q))
    BY <2>1, <2>2, ConcatAssociative, SMTT(30)
  <2>4. t \o <<>> = t
    BY ConcatEmptySeq
  <2>5. QED
    BY <2>1, <2>3, <2>4
<1>3. (t \o <<b>>) \o q = (Append(t, b) \o <<>>) \o q
  <2>1. t \o <<b>> = Append(t, b)
    OBVIOUS
  <2>2. Append(t, b) \o <<>> = Append(t, b)
    BY ConcatEmptySeq
  <2>3. QED
    BY <2>1, <2>2
<1>4. QED
  BY <1>1, <1>2, <1>3

\* What was mixed up stays so.
LEMMA MixedStays ==
  ASSUME [Next]_vars
  PROVE  mixed => mixed'
<1>1. CASE FillBuffer
  BY <1>1 DEF FillBuffer
<1>2. CASE MainStep
  BY <1>2 DEF MainStep, kinit, initGDT, ReadMasks, ProgramPic, LoadIdt, initPaging,
              PrintMessages, initKeyboard, device
<1>3. CASE HandlerStep \/ PageFault
  BY <1>3 DEF HandlerStep, Dispatch, Inb1, Inb2, ReadPort60, EoiSlave, EoiMaster, Iretq,
              PageFault, device
<1>4. CASE (\E b \in ScanCodes : SendByte(b)) \/ Tick \/ RtcTick
  BY <1>4 DEF SendByte, Tick, RtcTick
<1>5. CASE TakeIrq \/ TakeSpurious
  BY <1>5 DEF TakeIrq, TakeSpurious, EnterHandler, device
<1>6. CASE UNCHANGED vars
  BY <1>6 DEF vars, device
<1>7. QED
  BY <1>1, <1>2, <1>3, <1>4, <1>5, <1>6 DEF Next, Hardware

\* Nothing is lost, doubled or overtaken on the way from the keyboard to the handler.
LEMMA ByteSteps ==
  ASSUME KernelAssumption, InterruptInv, LineOK, NothingLost, [Next]_vars
  PROVE  NothingLost'
<1> SUFFICES ASSUME ~mixed', ~mixed
             PROVE  NothingLost'
  BY MixedStays DEF NothingLost
<1>1. /\ sent \in Seq(Bytes) /\ taken \in Seq(Bytes) /\ kbd.queue \in Seq(Bytes)
      /\ kbd.data \in Bytes
      /\ kbd = [queue |-> kbd.queue, full |-> kbd.full, data |-> kbd.data]
  BY DEF InterruptInv, TypeOK, Bytes
<1>2. CASE UNCHANGED <<sent, taken, kbd>>
  BY <1>2 DEF NothingLost
<1>3. ASSUME NEW b \in ScanCodes, SendByte(b)
      PROVE  NothingLost'
  <2>1. b \in Bytes
    BY DEF KernelAssumption, Bytes
  <2> DEFINE d == IF kbd.full THEN <<kbd.data>> ELSE <<>>
  <2>2. d \in Seq(Bytes)
    BY <1>1
  <2>3. sent' = Append(sent, b) /\ kbd'.queue = Append(kbd.queue, b)
        /\ kbd'.full = kbd.full /\ kbd'.data = kbd.data /\ taken' = taken
    BY <1>1, <1>3 DEF SendByte, handler
  <2>4. sent = (taken \o d) \o kbd.queue
    BY DEF NothingLost
  <2> HIDE DEF d
  <2>5. (taken \o d) \o Append(kbd.queue, b) = Append((taken \o d) \o kbd.queue, b)
    <3>1. PICK t \in Seq(Bytes), q \in Seq(Bytes) : t = taken /\ q = kbd.queue
      BY <1>1
    <3>2. (t \o d) \o Append(q, b) = Append((t \o d) \o q, b)
      BY <2>1, <2>2, SMT
    <3>3. QED
      BY <3>1, <3>2, Zenon
  <2>6. sent' = (taken \o d) \o Append(kbd.queue, b)
    BY <2>3, <2>4, <2>5, Zenon
  <2>7. QED
    BY <2>3, <2>6 DEF NothingLost, d
<1>4. CASE FillBuffer
  <2>1. /\ kbd.queue # <<>> /\ ~kbd.full
        /\ kbd'.queue = Tail(kbd.queue) /\ kbd'.full /\ kbd'.data = Head(kbd.queue)
        /\ sent' = sent /\ taken' = taken
    BY <1>4 DEF FillBuffer, handler
  <2>2. sent = (taken \o <<>>) \o kbd.queue
    BY <2>1 DEF NothingLost
  <2>3. sent = (taken \o <<Head(kbd.queue)>>) \o Tail(kbd.queue)
    BY <1>1, <2>1, <2>2, ByteMoves
  <2>4. QED
    BY <2>1, <2>3 DEF NothingLost
<1>5. CASE Inb1
  <2>1. /\ kbd.full /\ ~kbd'.full /\ kbd'.queue = kbd.queue
        /\ taken' = Append(taken, kbd.data) /\ sent' = sent
    BY <1>1, <1>5 DEF Inb1, ReadPort60, LineOK, Serving
  <2>2. sent = (taken \o <<kbd.data>>) \o kbd.queue
    BY <2>1 DEF NothingLost
  <2>3. sent = (Append(taken, kbd.data) \o <<>>) \o kbd.queue
    BY <1>1, <2>2, ByteMoves
  <2>4. QED
    BY <2>1, <2>3 DEF NothingLost
<1>6. CASE Inb2
  <2>1. /\ ~kbd.full /\ ~kbd'.full /\ kbd'.queue = kbd.queue
        /\ taken' = taken /\ sent' = sent
    BY <1>1, <1>6 DEF Inb2, ReadPort60, LineOK
  <2>2. QED
    BY <2>1 DEF NothingLost
<1>7. CASE Dispatch \/ EoiSlave \/ EoiMaster \/ Iretq \/ PageFault
  BY <1>2, <1>7 DEF Dispatch, EoiSlave, EoiMaster, Iretq, PageFault, device
<1>8. CASE MainStep
  BY <1>2, <1>8 DEF MainStep, kinit, initGDT, ReadMasks, ProgramPic, LoadIdt, initPaging,
                    PrintMessages, initKeyboard, device, handler
<1>9. CASE Tick \/ RtcTick \/ TakeIrq \/ TakeSpurious
  BY <1>2, <1>9 DEF Tick, RtcTick, TakeIrq, TakeSpurious, EnterHandler, device, handler
<1>10. CASE UNCHANGED vars
  BY <1>2, <1>10 DEF vars, device, handler
<1>11. QED
  BY <1>3, <1>4, <1>5, <1>6, <1>7, <1>8, <1>9, <1>10 DEF Next, HandlerStep, Hardware

\* Routines are installed once, at the end of main.
LEMMA RoutineSteps ==
  ASSUME KernelAssumption, InterruptInv, RoutineOK, [Next]_vars
  PROVE  RoutineOK'
<1>1. routines \subseteq {1}
  BY DEF InterruptInv, TypeOK
<1>2. CASE MainStep
  <2>1. pc # "idle" /\ hpc' = hpc
    BY <1>2 DEF MainStep, kinit, initGDT, ReadMasks, ProgramPic, LoadIdt, initPaging,
                PrintMessages, initKeyboard, handler
  <2>2. hpc \notin {"inb1", "inb2"} /\ routines = {}
    BY <2>1 DEF RoutineOK
  <2>3. routines' = routines \/ pc' = "idle"
    BY <1>2 DEF MainStep, kinit, initGDT, ReadMasks, ProgramPic, LoadIdt, initPaging,
                PrintMessages, initKeyboard
  <2>4. QED
    BY <2>1, <2>2, <2>3 DEF RoutineOK
<1>3. CASE HandlerStep
  <2>1. UNCHANGED <<pc, routines>>
    BY <1>3 DEF HandlerStep, Dispatch, Inb1, Inb2, EoiSlave, EoiMaster, Iretq, main
  <2>2. CASE Dispatch
    <3>1. intNo \in 0 .. 255
      BY DEF InterruptInv, TypeOK
    <3>2. hpc' = "inb1" => intNo - 32 \in routines
      BY <2>2, <3>1 DEF Dispatch, EoiStep
    <3>3. hpc' # "inb2"
      BY <2>2 DEF Dispatch, EoiStep
    <3>4. QED
      BY <1>1, <2>1, <3>2, <3>3 DEF RoutineOK
  <2>3. CASE Inb1
    BY <2>1, <2>3 DEF Inb1, RoutineOK
  <2>4. CASE Inb2
    BY <2>1, <2>4 DEF Inb2, RoutineOK, EoiStep
  <2>5. CASE EoiSlave \/ EoiMaster \/ Iretq
    BY <2>1, <2>5 DEF EoiSlave, EoiMaster, Iretq, RoutineOK
  <2>6. QED
    BY <1>3, <2>2, <2>3, <2>4, <2>5 DEF HandlerStep
<1>4. CASE UNCHANGED <<pc, routines, hpc>>
  BY <1>4 DEF RoutineOK
<1>5. CASE Hardware \/ PageFault \/ UNCHANGED vars
  BY <1>4, <1>5 DEF Hardware, SendByte, FillBuffer, Tick, RtcTick, PageFault, vars, main, handler
<1>6. CASE TakeIrq \/ TakeSpurious
  BY <1>6 DEF TakeIrq, TakeSpurious, EnterHandler, main, RoutineOK
<1>7. QED
  BY <1>2, <1>3, <1>5, <1>6 DEF Next

\* Where the requests of line 1 go.
LEMMA LineRequests ==
  ASSUME KernelAssumption, InterruptInv
  PROVE  /\ FillBuffer => 1 \in pic'.m.irr
         /\ Tick \/ RtcTick => ((1 \in pic'.m.irr) <=> (1 \in pic.m.irr))
         /\ EoiSlave \/ EoiMaster => ((1 \in pic'.m.irr) <=> (1 \in pic.m.irr))
         /\ ProgramPic => pic'.m.irr \subseteq pic.m.irr
         /\ ReadPort60 => pic'.m.irr \subseteq pic.m.irr
<1>1. pic \in Pics /\ pic.m \in Chip /\ pic.s \in Chip /\ step \in 1 .. 10
  BY DEF InterruptInv, TypeOK, Pics
<1>2. FillBuffer => 1 \in pic'.m.irr
  BY <1>1 DEF FillBuffer, Raise, Pics, Chip
<1>3. Tick \/ RtcTick => ((1 \in pic'.m.irr) <=> (1 \in pic.m.irr))
  BY <1>1 DEF Tick, RtcTick, Raise, Pics, Chip
<1>4. EoiSlave \/ EoiMaster => ((1 \in pic'.m.irr) <=> (1 \in pic.m.irr))
  BY <1>1 DEF EoiSlave, EoiMaster, EndOfInterrupt, WriteCommand, Pics, Chip
<1>5. ProgramPic => pic'.m.irr \subseteq pic.m.irr
  <2> SUFFICES ASSUME ProgramPic
               PROVE  pic'.m.irr \subseteq pic.m.irr
    OBVIOUS
  <2> DEFINE w == PicProgram[step]
  <2>1. WritePic(w)
    BY DEF ProgramPic
  <2>2. w.chip \in {"m", "s"} /\ (w.port = "command" => w.value = 17)
    BY <1>1 DEF PicProgram, Out
  <2> HIDE DEF w
  <2>3. CASE w.port = "command"
    BY <1>1, <2>1, <2>2, <2>3 DEF WritePic, WriteCommand, Pics, Chip
  <2>4. CASE w.port # "command"
    <3>1. pic' = [pic EXCEPT ![w.chip] = WriteData(@, w.value)]
      BY <2>1, <2>4 DEF WritePic
    <3>2. WriteData(pic.m, w.value).irr = pic.m.irr
      <4>1. pic.m.icw \in {"no", "icw2", "icw3", "icw4"}
        BY <1>1 DEF Chip
      <4>2. QED
        BY <1>1, <4>1 DEF WriteData, Chip
    <3>3. QED
      BY <1>1, <2>2, <3>1, <3>2 DEF Pics
  <2>5. QED
    BY <2>3, <2>4
<1>6. ReadPort60 => pic'.m.irr \subseteq pic.m.irr
  BY <1>1 DEF ReadPort60, Pics, Chip
<1>7. QED
  BY <1>2, <1>3, <1>4, <1>5, <1>6

\* An interrupt of line 1 takes its request with it, and no other arrives as 33.
LEMMA LineTaken ==
  ASSUME KernelAssumption, InterruptInv, TakeIrq \/ TakeSpurious
  PROVE  /\ intNo' = 33 => 1 \in pic.m.irr /\ 1 \notin pic'.m.irr
         /\ intNo' # 33 => ((1 \in pic'.m.irr) <=> (1 \in pic.m.irr))
<1>1. /\ pic \in Pics /\ pic.m \in Chip /\ pic.s \in Chip
      /\ pic.m.base = 32 /\ pic.s.base = 40
  <2>1. flagI /\ hpc = "none"
    BY DEF TakeIrq, TakeSpurious, EnterHandler
  <2>2. QED
    BY <2>1, ReadyForIrq
<1>2. CASE TakeIrq
  <2> DEFINE l == Lowest(MasterBest)
             k == Lowest(SlaveBest)
  <2>1. MasterBest \in SUBSET Lines /\ SlaveBest \in SUBSET Lines /\ MasterBest # {}
    BY <1>1, <1>2, BestLines DEF TakeIrq
  <2>2. l \in MasterBest /\ l \in Lines /\ (SlaveBest # {} => k \in Lines)
    BY <2>1, LowestIn
  <2>3. MasterBest \subseteq pic.m.irr \cup {Cascade}
    BY DEF MasterBest, Eligible
  <2>4. CASE l = Cascade /\ SlaveBest # {}
    <3>1. /\ pic' = [m |-> Service(pic.m, l), s |-> Service(pic.s, k)]
          /\ intNo' = 40 + k
      BY <1>1, <1>2, <2>4 DEF TakeIrq, EnterHandler
    <3> HIDE DEF l, k
    <3>2. intNo' # 33
      BY <2>2, <2>4, <3>1 DEF Lines
    <3>3. pic'.m.irr = pic.m.irr \ {2}
      BY <1>1, <2>4, <3>1 DEF Service, Chip, Cascade
    <3>4. QED
      BY <3>2, <3>3
  <2>5. CASE ~(l = Cascade /\ SlaveBest # {})
    <3>1. /\ pic' = [pic EXCEPT !.m = Service(pic.m, l)]
          /\ intNo' = 32 + l
      BY <1>1, <1>2, <2>5 DEF TakeIrq, EnterHandler
    <3> HIDE DEF l, k
    <3>2. pic'.m.irr = pic.m.irr \ {l}
      BY <1>1, <3>1 DEF Service, Chip, Pics
    <3>3. intNo' = 33 <=> l = 1
      BY <2>2, <3>1 DEF Lines
    <3>4. l = 1 => 1 \in pic.m.irr
      BY <2>2, <2>3 DEF Cascade
    <3>5. QED
      BY <3>2, <3>3, <3>4
  <2>6. QED
    BY <2>4, <2>5
<1>3. CASE TakeSpurious
  <2>1. CASE intNo' = pic.m.base + 7 /\ pic' = pic
    BY <1>1, <2>1
  <2>2. CASE intNo' = pic.s.base + 7 /\ pic' = [pic EXCEPT !.m = Service(pic.m, Cascade)]
    <3>1. pic'.m.irr = pic.m.irr \ {2}
      BY <1>1, <2>2 DEF Service, Chip, Pics, Cascade
    <3>2. QED
      BY <1>1, <2>2, <3>1
  <2>3. QED
    BY <1>3, <2>1, <2>2 DEF TakeSpurious
<1>4. QED
  BY <1>2, <1>3

\* Every byte in the output buffer has its interrupt, unless it came too early.
LEMMA LineSteps ==
  ASSUME KernelAssumption, InterruptInv, RoutineOK, LineOK, [Next]_vars
  PROVE  LineOK'
<1>1. /\ routines \subseteq {1} /\ intNo \in 0 .. 255
      /\ kbd = [queue |-> kbd.queue, full |-> kbd.full, data |-> kbd.data]
      /\ hpc # "none" => flagI
      /\ flagI => pc # "icw"
      /\ mixed => mixed'
  BY MixedStays DEF InterruptInv, TypeOK, InterruptsOK
<1>2. ASSUME NEW b \in ScanCodes, SendByte(b)
      PROVE  LineOK'
  BY <1>1, <1>2 DEF SendByte, LineOK, Serving, main, handler
<1>3. CASE FillBuffer
  <2>1. 1 \in pic'.m.irr /\ kbd'.full /\ ~kbd.full
    BY <1>3, LineRequests DEF FillBuffer
  <2>2. /\ UNCHANGED <<hpc, intNo, routines>>
        /\ early' = (early \/ 1 \notin routines) /\ mixed' = (mixed \/ hpc = "inb2")
    BY <1>3 DEF FillBuffer, main, handler
  <2>3. ~mixed => ~Serving
    BY <1>1, <2>1 DEF LineOK
  <2>4. QED
    BY <1>1, <2>1, <2>2, <2>3 DEF LineOK, Serving
<1>4. CASE Tick \/ RtcTick
  <2>1. /\ (1 \in pic'.m.irr) <=> (1 \in pic.m.irr)
        /\ UNCHANGED <<kbd, early, routines, hpc, intNo>>
    BY <1>4, LineRequests DEF Tick, RtcTick, main, handler
  <2>2. QED
    BY <1>1, <2>1 DEF LineOK, Serving
<1>5. CASE TakeIrq \/ TakeSpurious
  <2>1. /\ intNo' = 33 => 1 \in pic.m.irr /\ 1 \notin pic'.m.irr
        /\ intNo' # 33 => ((1 \in pic'.m.irr) <=> (1 \in pic.m.irr))
    BY <1>5, LineTaken
  <2>2. hpc = "none" /\ hpc' = "dispatch" /\ UNCHANGED <<kbd, early, routines>>
    BY <1>5 DEF TakeIrq, TakeSpurious, EnterHandler, device, main
  <2>3. QED
    BY <1>1, <2>1, <2>2 DEF LineOK, Serving
<1>6. CASE MainStep
  <2>1. CASE kinit \/ initGDT \/ ReadMasks \/ LoadIdt \/ initPaging \/ PrintMessages
    <3>1. UNCHANGED <<pic, kbd, early, routines, hpc, intNo>>
      BY <2>1 DEF kinit, initGDT, ReadMasks, LoadIdt, initPaging, PrintMessages, device, handler
    <3>2. QED
      BY <1>1, <3>1 DEF LineOK, Serving
  <2>2. CASE ProgramPic
    <3>1. hpc = "none" /\ routines = {} /\ UNCHANGED <<kbd, early, routines, hpc, intNo>>
      BY <1>1, <2>2 DEF ProgramPic, RoutineOK, device, handler
    <3>2. pic'.m.irr \subseteq pic.m.irr
      BY <2>2, LineRequests
    <3>3. QED
      BY <1>1, <3>1, <3>2 DEF LineOK, Serving
  <2>3. CASE initKeyboard
    BY <1>1, <2>3 DEF initKeyboard, LineOK, Serving, device
  <2>4. QED
    BY <1>6, <2>1, <2>2, <2>3 DEF MainStep
<1>7. CASE Dispatch
  <2>1. /\ hpc = "dispatch" /\ UNCHANGED <<pic, kbd, early, routines, intNo>>
        /\ hpc' = IF intNo - 32 \in routines THEN "inb1" ELSE EoiStep
        /\ EoiStep \in {"eoiS", "eoiM"}
    BY <1>7 DEF Dispatch, device, main, EoiStep
  <2>2. CASE intNo - 32 \in routines
    <3>1. intNo = 33
      BY <1>1, <2>2
    <3>2. QED
      BY <1>1, <2>1, <2>2, <3>1 DEF LineOK, Serving
  <2>3. CASE intNo - 32 \notin routines
    <3>1. intNo = 33 => 1 \notin routines
      BY <2>3
    <3>2. QED
      BY <1>1, <2>1, <2>3, <3>1 DEF LineOK, Serving
  <2>4. QED
    BY <2>2, <2>3
<1>8. CASE Inb1
  <2>1. /\ hpc = "inb1" /\ hpc' = "inb2" /\ ~kbd'.full
        /\ pic'.m.irr \subseteq pic.m.irr /\ UNCHANGED <<early, routines>>
    <3>1. ReadPort60 /\ hpc = "inb1" /\ hpc' = "inb2" /\ UNCHANGED routines
      BY <1>8 DEF Inb1, main
    <3>2. pic'.m.irr \subseteq pic.m.irr
      BY <3>1, LineRequests
    <3>3. QED
      BY <1>1, <3>1, <3>2 DEF ReadPort60
  <2>2. ~mixed => 1 \notin pic'.m.irr
    BY <1>1, <2>1 DEF LineOK, Serving
  <2>3. QED
    BY <1>1, <2>1, <2>2 DEF LineOK, Serving
<1>9. CASE Inb2
  <2>1. /\ hpc = "inb2" /\ hpc' \in {"eoiS", "eoiM"} /\ ~kbd'.full
        /\ pic'.m.irr \subseteq pic.m.irr /\ UNCHANGED <<early, routines>>
    <3>1. ReadPort60 /\ hpc = "inb2" /\ hpc' \in {"eoiS", "eoiM"} /\ UNCHANGED routines
      BY <1>9 DEF Inb2, main, EoiStep
    <3>2. pic'.m.irr \subseteq pic.m.irr
      BY <3>1, LineRequests
    <3>3. QED
      BY <1>1, <3>1, <3>2 DEF ReadPort60
  <2>2. ~mixed => 1 \notin pic'.m.irr
    BY <1>1, <2>1 DEF LineOK
  <2>3. QED
    BY <1>1, <2>1, <2>2 DEF LineOK, Serving
<1>10. CASE EoiSlave \/ EoiMaster
  <2>1. /\ (1 \in pic'.m.irr) <=> (1 \in pic.m.irr)
        /\ hpc \in {"eoiS", "eoiM"} /\ hpc' \in {"eoiM", "iretq"}
        /\ UNCHANGED <<kbd, early, routines, intNo>>
    BY <1>10, LineRequests DEF EoiSlave, EoiMaster, device, main
  <2>2. QED
    BY <1>1, <2>1 DEF LineOK, Serving
<1>11. CASE Iretq
  BY <1>1, <1>11 DEF Iretq, device, main, LineOK, Serving
<1>12. CASE PageFault \/ UNCHANGED vars
  BY <1>1, <1>12 DEF PageFault, vars, device, main, handler, LineOK, Serving
<1>13. QED
  BY <1>2, <1>3, <1>4, <1>5, <1>6, <1>7, <1>8, <1>9, <1>10, <1>11, <1>12
     DEF Next, HandlerStep, Hardware

-----------------------------------------------------------------------------
(* What the bytes type. *)

\* As long as no byte has come between two reads: the last byte is, between its two,
\* taken and not yet typed, and capsOn is the shift state of the bytes before.
TypedInv ==
  /\ hpc # "inb2" /\ ~mixed =>
       Spells(taken, typed) /\ (capsOn <=> Shifted(taken, Len(taken)))
  /\ hpc = "inb2" /\ ~mixed =>
       \E s \in Seq(Bytes) : /\ taken = Append(s, kbd.data)
                             /\ Spells(s, typed) /\ (capsOn <=> Shifted(s, Len(s)))
                             /\ scanCode = kbd.data % 128 /\ kbd.data \in Bytes
  /\ 1 \notin routines => taken = <<>> /\ typed = <<>>

LEMMA CodeOf ==
  ASSUME NEW b \in 0 .. 255
  PROVE  /\ b < 128 => b % 128 = b
         /\ b >= 128 => b % 128 = b - 128
OBVIOUS

\* A byte more: the ones before it stay.
LEMMA OneMore ==
  ASSUME NEW s \in Seq(Bytes), NEW b \in Bytes
  PROVE  /\ Append(s, b) \in Seq(Bytes) /\ Len(Append(s, b)) = Len(s) + 1
         /\ \A i \in 1 .. Len(s) : Append(s, b)[i] = s[i]
         /\ Append(s, b)[Len(s) + 1] = b
OBVIOUS

\* What was held at a byte does not depend on those after it.
LEMMA HeldBefore ==
  ASSUME NEW s \in Seq(Bytes), NEW b \in Bytes, NEW i \in 0 .. Len(s), NEW key
  PROVE  Held(Append(s, b), key, i) <=> Held(s, key, i)
<1>1. \A j \in 1 .. i : j \in 1 .. Len(s)
  OBVIOUS
<1>2. \A j \in 1 .. Len(s) : Append(s, b)[j] = s[j]
  BY OneMore
<1>3. \A l \in 1 .. i : \A j \in l + 1 .. i : j \in 1 .. Len(s)
  OBVIOUS
<1> DEFINE u == Append(s, b)
<1> HIDE DEF u
<1>4. \A j \in 1 .. Len(s) : u[j] = s[j]
  BY <1>2 DEF u
<1>5. Held(u, key, i) <=> Held(s, key, i)
  BY <1>1, <1>3, <1>4, Zenon DEF Held
<1>6. QED
  BY <1>5 DEF u

\* The last byte decides about its key.
LEMMA HeldAfter ==
  ASSUME NEW s \in Seq(Bytes), NEW b \in Bytes, NEW key \in {42, 54}
  PROVE  /\ b = key => Held(Append(s, b), key, Len(s) + 1)
         /\ b = key + 128 => ~Held(Append(s, b), key, Len(s) + 1)
         /\ b \notin {key, key + 128} =>
              (Held(Append(s, b), key, Len(s) + 1) <=> Held(s, key, Len(s)))
<1>1. PICK n \in Nat : n = Len(s)
  OBVIOUS
<1>2. PICK u : u = Append(s, b)
  OBVIOUS
<1>3. u[n + 1] = b /\ \A i \in 1 .. n : u[i] = s[i]
  BY <1>1, <1>2, OneMore
<1>4. b = key => Held(u, key, n + 1)
  BY <1>3 DEF Held
<1>5. ASSUME b = key + 128, Held(u, key, n + 1)
      PROVE  FALSE
  <2>1. PICK i \in 1 .. n + 1 : u[i] = key /\ \A j \in i + 1 .. n + 1 : u[j] # key + 128
    BY <1>5, Zenon DEF Held
  <2>2. i # n + 1
    BY <1>3, <1>5, <2>1
  <2>3. n + 1 \in i + 1 .. n + 1
    BY <2>2
  <2>4. QED
    BY <1>3, <1>5, <2>1, <2>3
<1>6. ASSUME b \notin {key, key + 128}
      PROVE  Held(u, key, n + 1) <=> Held(s, key, n)
  <2>1. ASSUME Held(u, key, n + 1)
        PROVE  Held(s, key, n)
    <3>1. PICK i \in 1 .. n + 1 : u[i] = key /\ \A j \in i + 1 .. n + 1 : u[j] # key + 128
      BY <2>1, Zenon DEF Held
    <3>2. i \in 1 .. n
      BY <1>3, <1>6, <3>1
    <3>3. \A j \in i + 1 .. n : j \in i + 1 .. n + 1 /\ j \in 1 .. n
      BY <3>2
    <3>4. s[i] = key /\ \A j \in i + 1 .. n : s[j] # key + 128
      BY <1>3, <3>1, <3>2, <3>3, Zenon
    <3>5. QED
      BY <3>2, <3>4, Zenon DEF Held
  <2>2. ASSUME Held(s, key, n)
        PROVE  Held(u, key, n + 1)
    <3>1. PICK i \in 1 .. n : s[i] = key /\ \A j \in i + 1 .. n : s[j] # key + 128
      BY <2>2, Zenon DEF Held
    <3>2. i \in 1 .. n + 1 /\ u[i] = key
      BY <1>3, <3>1
    <3>3. ASSUME NEW j \in i + 1 .. n + 1
          PROVE  u[j] # key + 128
      <4>1. CASE j = n + 1
        BY <1>3, <1>6, <4>1
      <4>2. CASE j # n + 1
        <5>1. j \in i + 1 .. n /\ j \in 1 .. n
          BY <3>1, <4>2
        <5>2. QED
          BY <1>3, <3>1, <5>1, Zenon
      <4>3. QED
        BY <4>1, <4>2
    <3>4. QED
      BY <3>2, <3>3, Zenon DEF Held
  <2>3. QED
    BY <2>1, <2>2
<1>7. QED
  BY <1>1, <1>2, <1>4, <1>5, <1>6

\* The bytes of the shift keys, and what the handler makes of them.
LEMMA ShiftBytes ==
  ShiftKeys = {42, 54} /\ ShiftReleases = {170, 182}
BY DEF ShiftKeys, ShiftReleases

LEMMA ShiftCodes ==
  ASSUME NEW b \in Bytes
  PROVE  /\ b \in ShiftReleases <=> (b % 128 \in ShiftKeys /\ ~(b < 128))
         /\ b \in ShiftKeys <=> (b % 128 \in ShiftKeys /\ b < 128)
<1>1. b \in 0 .. 255
  BY DEF Bytes
<1>2. b % 128 = IF b < 128 THEN b ELSE b - 128
  BY <1>1, CodeOf
<1>3. QED
  BY <1>1, <1>2, ShiftBytes

\* Whether a shift key was let go last, at a byte, does not depend on those after it.
LEMMA LetGoBefore ==
  ASSUME NEW s \in Seq(Bytes), NEW b \in Bytes, NEW i \in 0 .. Len(s)
  PROVE  LetGo(Append(s, b), i) <=> LetGo(s, i)
<1>1. \A j \in 1 .. i : j \in 1 .. Len(s)
  OBVIOUS
<1>2. \A l \in 1 .. i : \A j \in l + 1 .. i : j \in 1 .. Len(s)
  OBVIOUS
<1> DEFINE u == Append(s, b)
<1>3. \A j \in 1 .. Len(s) : u[j] = s[j]
  BY OneMore
<1> HIDE DEF u
<1>4. LetGo(u, i) <=> LetGo(s, i)
  BY <1>1, <1>2, <1>3, Zenon DEF LetGo
<1>5. QED
  BY <1>4 DEF u

\* A byte of a shift key decides, any other leaves it.
LEMMA LetGoAfter ==
  ASSUME NEW s \in Seq(Bytes), NEW b \in Bytes
  PROVE  /\ b \in ShiftReleases => LetGo(Append(s, b), Len(s) + 1)
         /\ b \in ShiftKeys => ~LetGo(Append(s, b), Len(s) + 1)
         /\ b \notin ShiftKeys \cup ShiftReleases =>
              (LetGo(Append(s, b), Len(s) + 1) <=> LetGo(s, Len(s)))
<1> DEFINE Shifts == ShiftKeys \cup ShiftReleases
<1>1. PICK n \in Nat : n = Len(s)
  OBVIOUS
<1>2. PICK u : u = Append(s, b)
  OBVIOUS
<1>3. u[n + 1] = b /\ \A i \in 1 .. n : u[i] = s[i]
  BY <1>1, <1>2, OneMore
<1>4. ASSUME b \in ShiftReleases
      PROVE  LetGo(u, n + 1)
  <2>1. n + 1 \in 1 .. n + 1 /\ \A j \in (n + 1) + 1 .. n + 1 : u[j] \notin Shifts
    OBVIOUS
  <2>2. QED
    BY <1>3, <1>4, <2>1, Zenon DEF LetGo
<1>5. ASSUME b \in ShiftKeys, LetGo(u, n + 1)
      PROVE  FALSE
  <2>1. PICK i \in 1 .. n + 1 : u[i] \in ShiftReleases /\ \A j \in i + 1 .. n + 1 : u[j] \notin Shifts
    BY <1>5, Zenon DEF LetGo
  <2>2. b \notin ShiftReleases
    BY <1>5, ShiftBytes
  <2>3. i # n + 1
    BY <1>3, <2>1, <2>2
  <2>4. n + 1 \in i + 1 .. n + 1
    BY <2>3
  <2>5. QED
    BY <1>3, <1>5, <2>1, <2>4
<1>6. ASSUME b \notin Shifts
      PROVE  LetGo(u, n + 1) <=> LetGo(s, n)
  <2> HIDE DEF Shifts
  <2>1. ASSUME LetGo(u, n + 1)
        PROVE  LetGo(s, n)
    <3>1. PICK i \in 1 .. n + 1 : u[i] \in ShiftReleases /\ \A j \in i + 1 .. n + 1 : u[j] \notin Shifts
      BY <2>1, Zenon DEF LetGo, Shifts
    <3>2. b \notin ShiftReleases
      BY <1>6 DEF Shifts
    <3>3. i \in 1 .. n
      BY <1>3, <3>1, <3>2
    <3>4. \A j \in i + 1 .. n : j \in i + 1 .. n + 1 /\ j \in 1 .. n
      BY <3>3
    <3>5. s[i] \in ShiftReleases /\ \A j \in i + 1 .. n : s[j] \notin Shifts
      BY <1>3, <3>1, <3>3, <3>4, Zenon
    <3>6. QED
      BY <3>3, <3>5, Zenon DEF LetGo, Shifts
  <2>2. ASSUME LetGo(s, n)
        PROVE  LetGo(u, n + 1)
    <3>1. PICK i \in 1 .. n : s[i] \in ShiftReleases /\ \A j \in i + 1 .. n : s[j] \notin Shifts
      BY <2>2, Zenon DEF LetGo, Shifts
    <3>2. i \in 1 .. n + 1 /\ u[i] \in ShiftReleases
      BY <1>3, <3>1
    <3>3. ASSUME NEW j \in i + 1 .. n + 1
          PROVE  u[j] \notin Shifts
      <4>1. CASE j = n + 1
        BY <1>3, <1>6, <4>1
      <4>2. CASE j # n + 1
        <5>1. j \in i + 1 .. n /\ j \in 1 .. n
          BY <3>1, <4>2
        <5>2. QED
          BY <1>3, <3>1, <5>1, Zenon
      <4>3. QED
        BY <4>1, <4>2
    <3>4. QED
      BY <3>2, <3>3, Zenon DEF LetGo, Shifts
  <2>3. QED
    BY <2>1, <2>2
<1>7. QED
  BY <1>1, <1>2, <1>4, <1>5, <1>6

\* capsOn as the switch leaves it is the shift state.
LEMMA ShiftFollows ==
  ASSUME NEW s \in Seq(Bytes), NEW b \in Bytes
  PROVE  Shifted(Append(s, b), Len(s) + 1) <=>
           (IF b % 128 \in ShiftKeys THEN b < 128 ELSE Shifted(s, Len(s)))
<1>1. PICK u : u = Append(s, b)
  OBVIOUS
<1>2. PICK n : n = Len(s)
  OBVIOUS
<1>3. \A key \in ShiftKeys :
        /\ b = key => Held(u, key, Len(s) + 1)
        /\ b \notin {key, key + 128} => (Held(u, key, Len(s) + 1) <=> Held(s, key, n))
  BY <1>1, <1>2, HeldAfter, ShiftBytes
<1>4. /\ b \in ShiftReleases => LetGo(u, Len(s) + 1)
      /\ b \in ShiftKeys => ~LetGo(u, Len(s) + 1)
      /\ b \notin ShiftKeys \cup ShiftReleases => (LetGo(u, Len(s) + 1) <=> LetGo(s, n))
  BY <1>1, <1>2, LetGoAfter
<1>5. /\ b \in ShiftReleases <=> (b % 128 \in ShiftKeys /\ ~(b < 128))
      /\ b \in ShiftKeys <=> (b % 128 \in ShiftKeys /\ b < 128)
  BY ShiftCodes
<1>6. CASE b \in ShiftKeys
  <2>1. ShiftHeld(u, Len(s) + 1)
    BY <1>3, <1>6, Zenon DEF ShiftHeld
  <2>2. QED
    BY <1>1, <1>4, <1>5, <1>6, <2>1, Zenon DEF Shifted
<1>7. CASE b \in ShiftReleases
  BY <1>1, <1>4, <1>5, <1>7, Zenon DEF Shifted
<1>8. CASE b \notin ShiftKeys \cup ShiftReleases
  <2>1. \A key \in ShiftKeys : b \notin {key, key + 128}
    BY <1>8 DEF ShiftReleases
  <2>2. ShiftHeld(u, Len(s) + 1) <=> ShiftHeld(s, n)
    BY <1>3, <2>1, Zenon DEF ShiftHeld
  <2>3. b % 128 \notin ShiftKeys
    BY <1>5, <1>8
  <2>4. QED
    BY <1>1, <1>2, <1>4, <1>8, <2>2, <2>3, Zenon DEF Shifted
<1>9. QED
  BY <1>6, <1>7, <1>8

Typing == NumberKeys \cup LetterKeys \cup {Backspace}

\* The codes with a character are neither those of a shift key nor of a release.
LEMMA KeysApart ==
  ASSUME NEW b \in Bytes
  PROVE  /\ b \in Typing => b < 128 /\ b % 128 = b /\ b \notin ShiftKeys
         /\ b < 128 /\ b % 128 \in Typing => b \in Typing
BY CodeOf DEF Bytes, Typing, NumberKeys, LetterKeys, Backspace, ShiftKeys

\* The presses are a finite set, and each has its rank among them.
LEMMA PressRank ==
  ASSUME NEW s \in Seq(Bytes)
  PROVE  /\ IsFiniteSet(Presses(s)) /\ Cardinality(Presses(s)) \in Nat
         /\ \A i \in Presses(s) :
              Cardinality(Presses(s) \cap (1 .. i)) \in 1 .. Cardinality(Presses(s))
<1>1. IsFiniteSet(1 .. Len(s))
  BY FS_Interval
<1>2. IsFiniteSet(Presses(s)) /\ Cardinality(Presses(s)) \in Nat
  <2>1. Presses(s) \in SUBSET (1 .. Len(s))
    BY DEF Presses
  <2>2. QED
    BY <1>1, <2>1, FS_Subset, FS_CardinalityType, Zenon
<1>3. ASSUME NEW i \in Presses(s)
      PROVE  Cardinality(Presses(s) \cap (1 .. i)) \in 1 .. Cardinality(Presses(s))
  <2> DEFINE P == Presses(s)
             T == P \cap (1 .. i)
  <2>1. T \in SUBSET P
    OBVIOUS
  <2>2. i \in T
    BY DEF Presses
  <2> HIDE DEF P, T
  <2>3. IsFiniteSet(P) /\ Cardinality(P) \in Nat
    BY <1>2 DEF P
  <2>4. IsFiniteSet(T) /\ Cardinality(T) <= Cardinality(P)
    BY <2>1, <2>3, FS_Subset, Zenon
  <2>5. Cardinality(T) \in Nat /\ Cardinality(T) # 0
    BY <2>2, <2>4, FS_CardinalityType, FS_EmptySet, Zenon
  <2>6. Cardinality(T) \in 1 .. Cardinality(P)
    BY <2>3, <2>4, <2>5
  <2>7. QED
    BY <2>6 DEF P, T
<1>4. QED
  BY <1>2, <1>3

\* The characters of the bytes before a new one stay as they are.
LEMMA CharactersStay ==
  ASSUME NEW s \in Seq(Bytes), NEW b \in Bytes
  PROVE  /\ \A i \in Presses(s) : Character(Append(s, b), i) = Character(s, i)
         /\ Presses(Append(s, b)) =
              Presses(s) \cup (IF b \in Typing THEN {Len(s) + 1} ELSE {})
<1>1. PICK u : u = Append(s, b)
  OBVIOUS
<1>2. PICK n \in Nat : n = Len(s)
  OBVIOUS
<1>3. Len(u) = n + 1 /\ u[n + 1] = b /\ \A i \in 1 .. n : u[i] = s[i]
  BY <1>1, <1>2, OneMore
<1>4. ASSUME NEW i \in Presses(s)
      PROVE  Character(u, i) = Character(s, i)
  <2>1. i \in 1 .. n /\ i \in 0 .. n
    BY <1>2 DEF Presses
  <2>2. Shifted(u, i) <=> Shifted(s, i)
    <3>1. \A key : Held(u, key, i) <=> Held(s, key, i)
      BY <1>1, <1>2, <2>1, HeldBefore, Zenon
    <3>2. LetGo(u, i) <=> LetGo(s, i)
      BY <1>1, <1>2, <2>1, LetGoBefore, Zenon
    <3>3. QED
      BY <3>1, <3>2, Zenon DEF Shifted, ShiftHeld
  <2>3. u[i] = s[i]
    BY <1>3, <2>1
  <2>4. (u[i] # Backspace /\ Shifted(u, i)) = (s[i] # Backspace /\ Shifted(s, i))
    BY <2>2, <2>3, Zenon
  <2>5. QED
    BY <2>3, <2>4, Zenon DEF Character
<1>5. Presses(u) = Presses(s) \cup (IF b \in Typing THEN {n + 1} ELSE {})
  <2>1. Presses(u) = {i \in 1 .. n + 1 : u[i] \in Typing}
    BY <1>3 DEF Presses, Typing
  <2>2. Presses(s) = {i \in 1 .. n : s[i] \in Typing}
    BY <1>2 DEF Presses, Typing
  <2>3. QED
    BY <1>3, <2>1, <2>2
<1>6. QED
  BY <1>1, <1>2, <1>4, <1>5

\* A byte that types nothing leaves the text.
LEMMA SpellsSame ==
  ASSUME NEW s \in Seq(Bytes), NEW b \in Bytes, NEW t, Spells(s, t), b \notin Typing
  PROVE  Spells(Append(s, b), t)
<1>1. Presses(Append(s, b)) = Presses(s)
  BY CharactersStay
<1>2. \A i \in Presses(s) : Character(Append(s, b), i) = Character(s, i)
  BY CharactersStay, Zenon
<1>3. QED
  BY <1>1, <1>2, Zenon DEF Spells

\* A byte that types adds its character.
LEMMA SpellsMore ==
  ASSUME NEW s \in Seq(Bytes), NEW b \in Bytes, NEW t \in Text, Spells(s, t), b \in Typing,
         NEW c \in (0 .. 127) \X BOOLEAN, c = Character(Append(s, b), Len(s) + 1)
  PROVE  Spells(Append(s, b), Append(t, c))
<1> DEFINE u == Append(s, b)
           P == Presses(s)
           Q == Presses(u)
           w == Append(t, c)
<1>1. PICK n \in Nat : n = Len(s)
  OBVIOUS
<1>2. Q = P \cup {n + 1}
  BY <1>1, CharactersStay
<1>3. P \subseteq 1 .. n /\ IsFiniteSet(P) /\ Cardinality(P) \in Nat
  <2>1. P \subseteq 1 .. n
    BY <1>1 DEF Presses
  <2>2. QED
    BY <2>1, PressRank, Zenon
<1>4. \A i \in P : Character(u, i) = Character(s, i)
  BY CharactersStay, Zenon
<1>5. c = Character(u, n + 1)
  BY <1>1
<1>6. /\ Len(t) = Cardinality(P) /\ \A i \in P : t[Cardinality(P \cap (1 .. i))] = Character(s, i)
  BY Zenon DEF Spells
<1>7. \A i \in P : Cardinality(P \cap (1 .. i)) \in 1 .. Cardinality(P)
  BY PressRank, Zenon
<1>8. /\ Len(w) = Len(t) + 1 /\ w[Len(t) + 1] = c
      /\ \A i \in 1 .. Len(t) : w[i] = t[i]
  BY DEF Text
<1> HIDE DEF u, P, Q, w
<1>9. Cardinality(Q) = Cardinality(P) + 1
  <2>1. n + 1 \notin P
    BY <1>3
  <2>2. QED
    BY <1>2, <1>3, <2>1, FS_AddElement, Zenon
<1>10. ASSUME NEW i \in Q
       PROVE  w[Cardinality(Q \cap (1 .. i))] = Character(u, i)
  <2>1. CASE i \in P
    <3>1. Q \cap (1 .. i) = P \cap (1 .. i)
      BY <1>2, <1>3, <2>1
    <3>2. Cardinality(P \cap (1 .. i)) \in 1 .. Len(t)
      BY <1>6, <1>7, <2>1, Zenon
    <3>3. w[Cardinality(P \cap (1 .. i))] = t[Cardinality(P \cap (1 .. i))]
      BY <1>8, <3>2, Zenon
    <3>4. QED
      BY <1>4, <1>6, <2>1, <3>1, <3>3, Zenon
  <2>2. CASE i = n + 1
    <3>1. Q \cap (1 .. i) = Q
      <4>1. \A j \in Q : j \in 1 .. n + 1
        BY <1>2, <1>3
      <4>2. QED
        BY <2>2, <4>1
    <3>2. QED
      BY <1>5, <1>6, <1>8, <1>9, <2>2, <3>1, Zenon
  <2>3. QED
    BY <1>2, <2>1, <2>2
<1>11. Spells(u, w)
  BY <1>6, <1>8, <1>9, <1>10, Zenon DEF Spells, Q
<1>12. QED
  BY <1>11 DEF u, w

\* No bytes: no text, and no shift key held.
LEMMA EmptySpells ==
  Spells(<<>>, <<>>) /\ ~Shifted(<<>>, Len(<<>>))
<1>1. Presses(<<>>) = {}
  BY DEF Presses
<1>2. Spells(<<>>, <<>>)
  BY <1>1, FS_EmptySet DEF Spells
<1>3. ~Shifted(<<>>, Len(<<>>))
  BY DEF Shifted, ShiftHeld, Held
<1>4. QED
  BY <1>2, <1>3

\* What the switch does to the text and to capsOn is what the byte means.
LEMMA SwitchRight ==
  ASSUME NEW s \in Seq(Bytes), NEW b \in Bytes,
         typed \in Text, capsOn \in BOOLEAN,
         Spells(s, typed), capsOn <=> Shifted(s, Len(s)), SwitchOn(b % 128, b < 128)
  PROVE  /\ Spells(Append(s, b), typed')
         /\ capsOn' <=> Shifted(Append(s, b), Len(s) + 1)
<1>1. b \in 0 .. 255
  BY DEF Bytes
<1>2. Shifted(Append(s, b), Len(s) + 1) <=>
        (IF b % 128 \in ShiftKeys THEN b < 128 ELSE Shifted(s, Len(s)))
  BY ShiftFollows, Zenon
<1>3. capsOn' = IF b % 128 \in ShiftKeys THEN b < 128 ELSE capsOn
  BY Zenon DEF SwitchOn
<1>4. capsOn' <=> Shifted(Append(s, b), Len(s) + 1)
  <2>1. CASE b % 128 \in ShiftKeys
    BY <1>2, <1>3, <2>1, Zenon
  <2>2. CASE b % 128 \notin ShiftKeys
    BY <1>2, <1>3, <2>2, Zenon
  <2>3. QED
    BY <2>1, <2>2, Zenon
<1>5. /\ b \in Typing => b < 128 /\ b % 128 = b /\ b \notin ShiftKeys
      /\ b < 128 /\ b % 128 \in Typing => b \in Typing
  BY <1>1, KeysApart, Zenon
<1>6. CASE b \notin Typing
  <2>1. typed' = typed
    BY <1>5, <1>6, Zenon DEF SwitchOn, Typing
  <2>2. QED
    BY <1>1, <1>4, <1>6, <2>1, SpellsSame, Zenon
<1>7. CASE b \in Typing
  <2> DEFINE c == <<b, capsOn /\ b # Backspace>>
  <2>1. typed' = Append(typed, c)
    BY <1>5, <1>7, Zenon DEF SwitchOn, Typing
  <2>2. c \in (0 .. 127) \X BOOLEAN
    <3>1. b \in 0 .. 127
      BY <1>1, <1>5, <1>7
    <3>2. (capsOn /\ b # Backspace) \in BOOLEAN
      BY Zenon
    <3>3. QED
      BY <3>1, <3>2, Zenon
  <2>3. Append(s, b)[Len(s) + 1] = b
    BY <1>1, OneMore
  <2>4. capsOn <=> Shifted(Append(s, b), Len(s) + 1)
    BY <1>2, <1>5, <1>7, Zenon
  <2>5. (capsOn /\ b # Backspace) = (b # Backspace /\ Shifted(Append(s, b), Len(s) + 1))
    BY <2>4, Zenon
  <2>6. c = Character(Append(s, b), Len(s) + 1)
    BY <2>3, <2>5, Zenon DEF Character
  <2> HIDE DEF c
  <2>7. Spells(Append(s, b), Append(typed, c))
    BY <1>1, <1>7, <2>2, <2>6, SpellsMore, Zenon
  <2>8. QED
    BY <1>4, <2>1, <2>7, Zenon
<1>8. QED
  BY <1>6, <1>7

\* Between the handler's two reads the byte stays, as long as nothing is mixed, so the
\* text and capsOn follow what was taken.
LEMMA TypedSteps ==
  ASSUME KernelAssumption, InterruptInv, LineOK, RoutineOK, TypedInv, [Next]_vars
  PROVE  TypedInv'
<1>1. /\ kbd = [queue |-> kbd.queue, full |-> kbd.full, data |-> kbd.data]
      /\ typed \in Text /\ capsOn \in BOOLEAN /\ routines \subseteq {1}
      /\ kbd.data \in Bytes /\ taken \in Seq(Bytes)
  BY DEF InterruptInv, TypeOK, Bytes
<1>2. CASE /\ UNCHANGED <<taken, typed, capsOn, scanCode>> /\ kbd'.data = kbd.data
           /\ hpc' = "inb2" <=> hpc = "inb2"
           /\ routines' = routines
  BY <1>2, MixedStays, Zenon DEF TypedInv
<1>3. CASE Inb1
  <2>1. /\ hpc = "inb1" /\ hpc' = "inb2" /\ kbd'.data = kbd.data /\ mixed' = mixed
        /\ taken' = Append(taken, kbd.data) /\ scanCode' = kbd.data % 128
        /\ UNCHANGED <<typed, capsOn, routines>> /\ 1 \in routines
    BY <1>1, <1>3 DEF Inb1, ReadPort60, main, RoutineOK
  <2>2. hpc # "inb2"
    BY <2>1
  <2>3. ~mixed => Spells(taken, typed) /\ (capsOn <=> Shifted(taken, Len(taken)))
    BY <2>2, Zenon DEF TypedInv
  <2>4. QED
    BY <1>1, <2>1, <2>3, Zenon DEF TypedInv
<1>4. CASE Inb2
  <2>1. /\ hpc = "inb2" /\ hpc' # "inb2" /\ taken' = taken /\ mixed' = mixed
        /\ SwitchOn(scanCode, kbd.data < 128) /\ routines' = routines /\ 1 \in routines
    BY <1>4 DEF Inb2, EoiStep, ReadPort60, main, RoutineOK
  <2>2. ASSUME ~mixed
        PROVE  Spells(taken, typed') /\ (capsOn' <=> Shifted(taken, Len(taken)))
    <3>1. PICK s \in Seq(Bytes) :
            /\ taken = Append(s, kbd.data)
            /\ Spells(s, typed) /\ (capsOn <=> Shifted(s, Len(s)))
            /\ scanCode = kbd.data % 128 /\ kbd.data \in Bytes
      BY <2>1, <2>2, Zenon DEF TypedInv
    <3>2. SwitchOn(kbd.data % 128, kbd.data < 128)
      BY <2>1, <3>1, Zenon
    <3>3. /\ Spells(Append(s, kbd.data), typed')
          /\ capsOn' <=> Shifted(Append(s, kbd.data), Len(s) + 1)
      BY <1>1, <3>1, <3>2, SwitchRight, Zenon
    <3>4. Len(taken) = Len(s) + 1
      BY <3>1, AppendProperties, Zenon
    <3>5. QED
      BY <3>1, <3>3, <3>4, Zenon
  <2>3. QED
    BY <2>1, <2>2, Zenon DEF TypedInv
<1>5. CASE FillBuffer
  <2>1. /\ UNCHANGED <<hpc, taken, typed, capsOn, routines>>
        /\ mixed' = (mixed \/ hpc = "inb2")
    BY <1>5 DEF FillBuffer, handler, main
  <2>2. QED
    BY <2>1, Zenon DEF TypedInv
<1>6. CASE initKeyboard
  <2>1. /\ UNCHANGED <<hpc, taken, typed>> /\ capsOn' = FALSE /\ hpc = "none"
        /\ routines' = routines \cup {1} /\ pc # "idle"
    BY <1>6 DEF initKeyboard
  <2>2. taken = <<>> /\ typed = <<>>
    BY <2>1 DEF TypedInv, RoutineOK
  <2>3. QED
    BY <2>1, <2>2, EmptySpells DEF TypedInv
<1>7. ASSUME NEW b \in ScanCodes, SendByte(b)
      PROVE  TypedInv'
  BY <1>1, <1>2, <1>7 DEF SendByte, handler, main
<1>8. CASE kinit \/ initGDT \/ ReadMasks \/ ProgramPic \/ LoadIdt \/ initPaging \/ PrintMessages
  BY <1>2, <1>8 DEF kinit, initGDT, ReadMasks, ProgramPic, LoadIdt, initPaging,
                    PrintMessages, device, handler
<1>9. CASE Dispatch \/ EoiSlave \/ EoiMaster \/ Iretq \/ PageFault
  BY <1>2, <1>9 DEF Dispatch, EoiStep, EoiSlave, EoiMaster, Iretq, PageFault, device, main
<1>10. CASE Tick \/ RtcTick \/ TakeIrq \/ TakeSpurious
  BY <1>2, <1>10 DEF Tick, RtcTick, TakeIrq, TakeSpurious, EnterHandler, device, handler, main
<1>11. CASE UNCHANGED vars
  BY <1>2, <1>11 DEF vars, device, handler, main
<1>12. QED
  BY <1>3, <1>4, <1>5, <1>6, <1>7, <1>8, <1>9, <1>10, <1>11
     DEF Next, MainStep, HandlerStep, Hardware

-----------------------------------------------------------------------------
(* The theorems. *)

\* The invariant of the keyboard's bytes.
THEOREM KeyboardInvariant ==
  Spec => []KeyInv
<1> USE KernelAssumption
<1>1. Init => KeyInv
  BY DEF Init, KeyInv, LineOK, RoutineOK, NothingLost, Serving, PowerOnChip
<1>2. InterruptInv /\ KeyInv /\ [Next]_vars => KeyInv'
  BY ByteSteps, RoutineSteps, LineSteps DEF KeyInv
<1>3. QED
  BY <1>1, <1>2, InterruptInvariant, PTL DEF Spec

\* keyboardHandler reads every byte once and in order, whatever interrupts come and
\* whenever main is ready for them, until a byte comes between its two reads.
THEOREM EveryByteRead ==
  Spec => []NothingLost
<1>1. KeyInv => NothingLost
  BY DEF KeyInv
<1>2. QED
  BY <1>1, KeyboardInvariant, PTL

\* The keyboard falls silent only through a byte that came before initKeyboard: at any
\* pace of the 8042, bytes mixed up between the two reads included.
THEOREM SilentOnlyIfEarly ==
  Spec => []DeafOnlyIfEarly
<1>1. KeyInv => DeafOnlyIfEarly
  BY DEF KeyInv, LineOK, Serving, DeafOnlyIfEarly
<1>2. QED
  BY <1>1, KeyboardInvariant, PTL

\* The handler prints only when main has done printing.
THEOREM PrintsAlone ==
  Spec => ConsoleExclusive
<1>1. RoutineOK /\ InterruptInv /\ [Next]_vars => [typed' # typed => pc = "idle"]_vars
  <2> SUFFICES ASSUME RoutineOK, Next, typed' # typed
               PROVE  pc = "idle"
    OBVIOUS
  <2>1. Inb2
    BY DEF Next, MainStep, kinit, initGDT, ReadMasks, ProgramPic, LoadIdt, initPaging,
           PrintMessages, initKeyboard, HandlerStep, Dispatch, Inb1, EoiSlave, EoiMaster, Iretq,
           PageFault, Hardware, SendByte, FillBuffer, Tick, RtcTick, TakeIrq, TakeSpurious,
           EnterHandler, handler
  <2>2. QED
    BY <2>1 DEF Inb2, RoutineOK
<1>2. Init => RoutineOK
  BY DEF Init, RoutineOK
<1>3. RoutineOK /\ InterruptInv /\ [Next]_vars => RoutineOK'
  BY KernelAssumption, RoutineSteps
<1>4. QED
  BY <1>1, <1>2, <1>3, InterruptInvariant, PTL DEF Spec, ConsoleExclusive

\* No byte is lost and what putc got is what was typed, both shift keys included, for any bytes at any pace
\* until a byte comes between the handler's two reads.
THEOREM TypesRight ==
  Spec => []TypedRight
<1> USE KernelAssumption
<1>1. Init => TypedInv
  BY EmptySpells DEF Init, TypedInv
<1>2. InterruptInv /\ KeyInv /\ TypedInv /\ [Next]_vars => TypedInv'
  BY TypedSteps DEF KeyInv
<1>3. KeyInv /\ TypedInv => TypedRight
  BY Zenon DEF KeyInv, TypedInv, TypedRight
<1>4. QED
  BY <1>1, <1>2, <1>3, InterruptInvariant, KeyboardInvariant, PTL DEF Spec
=============================================================================
