------------------------------- MODULE Kernel -------------------------------
(***************************************************************************)
(* The kernel from its entry (prekernel.asm) through main (kernel/main.c)  *)
(* and its interrupts: initIDT and irq_handler (x86/idt.c), the irq stubs  *)
(* (x86/idt.asm) and the keyboard driver (drivers/keyboard/keyboard.c),    *)
(* over the controllers of Pic8259, an 8042 keyboard controller, the timer *)
(* on IRQ 0 and the RTC on IRQ 8 (external).  The tables the CPU uses are  *)
(* those of Descriptors and AddressSpace.                                  *)
(*                                                                         *)
(* main and the handler share one CPU; a step is a port access or the code *)
(* between two of them.  Scan codes are bytes; a character on the screen   *)
(* is <<scan code, shifted>>.                                              *)
(***************************************************************************)
EXTENDS Pic8259, Descriptors, AddressSpace, Sequences, FiniteSets

CONSTANTS
  MasterMasks, SlaveMasks, \* masks the BIOS may leave
  ArgumentPages, \* pages stage 2 may leave an address of in edi
  ScanCodes,   \* bytes the keyboard may send
  MaxKeys,     \* bound on bytes sent
  MaxNoise     \* bound on timer, RTC and spurious interrupts

ASSUME KernelAssumption ==
  /\ MasterMasks \subseteq 0 .. 255
  /\ SlaveMasks \subseteq 0 .. 255
  /\ ArgumentPages \subseteq Index
  /\ ScanCodes \subseteq 0 .. 255
  /\ MaxKeys \in Nat
  /\ MaxNoise \in Nat

VARIABLES
  pic,       \* [m |-> master, s |-> slave]
  kbd,       \* 8042: bytes waiting in the keyboard, output buffer and its flag
  cpu,       \* the GDT and page tables loaded, the code segment, and the page of the
             \* address in rdi, main's argument
  pc, step,  \* main: where it is, and the next write of the PIC program
  maskM, maskS,
  flagI,     \* the interrupt flag
  routines,  \* lines with an irq_routines entry
  hpc,       \* the handler: "none" or where it is
  intNo,     \* regs->int_no
  scanCode,  \* local of keyboardHandler
  capsOn,
  typed,     \* what putc was called with
  sent,      \* every byte the keyboard produced
  taken,     \* every byte the handler read first
  early,     \* a byte was in the output buffer before a handler was installed
  mixed,     \* a byte came between the handler's two reads of the one before it
  noise,     \* number of other interrupts so far
  clobbered  \* registers of main an interrupt has changed

device  == <<kbd, sent, early, mixed, noise>>
main    == <<cpu, pc, step, maskM, maskS, flagI, routines>>
handler == <<hpc, intNo, scanCode, capsOn, typed, taken, clobbered>>
vars    == <<pic, device, main, handler>>

Init ==
  /\ \E m \in MasterMasks, s \in SlaveMasks :
       pic = [m |-> PowerOnChip(m, 8), s |-> PowerOnChip(s, 112)]
  /\ kbd = [queue |-> <<>>, full |-> FALSE, data |-> 0]
  /\ cpu \in [gdt : {"stage2"}, cs : {8}, tables : {"none"}, rdi : ArgumentPages]
  /\ pc = "kinit"
  /\ step = 1
  /\ maskM = 0
  /\ maskS = 0
  /\ flagI = FALSE
  /\ routines = {}
  /\ hpc = "none"
  /\ intNo = 0
  /\ scanCode = 0
  /\ capsOn = FALSE
  /\ typed = <<>>
  /\ sent = <<>>
  /\ taken = <<>>
  /\ early = FALSE
  /\ mixed = FALSE
  /\ noise = 0
  /\ clobbered = {}
-----------------------------------------------------------------------------
(* Hardware (external). *)

\* A key is pressed, released or repeated.
SendByte(b) ==
  /\ Len(sent) < MaxKeys
  /\ sent' = Append(sent, b)
  /\ kbd' = [kbd EXCEPT !.queue = Append(@, b)]
  /\ UNCHANGED <<pic, early, mixed, noise, main, handler>>

\* The 8042 takes the next byte and raises IRQ 1, as soon as the buffer is empty or
\* later: a fast one gets in between the handler's two reads.
FillBuffer ==
  /\ kbd.queue # <<>>
  /\ ~kbd.full
  /\ kbd' = [queue |-> Tail(kbd.queue), full |-> TRUE, data |-> Head(kbd.queue)]
  /\ pic' = [pic EXCEPT !.m = Raise(@, 1)]
  /\ early' = (early \/ 1 \notin routines)
  /\ mixed' = (mixed \/ hpc = "inb2")
  /\ UNCHANGED <<sent, noise, main, handler>>

Tick ==
  /\ noise < MaxNoise
  /\ pic' = [pic EXCEPT !.m = Raise(@, 0)]
  /\ noise' = noise + 1
  /\ UNCHANGED <<kbd, sent, early, mixed, main, handler>>

RtcTick ==
  /\ noise < MaxNoise
  /\ pic' = [pic EXCEPT !.s = Raise(@, 0)]
  /\ noise' = noise + 1
  /\ UNCHANGED <<kbd, sent, early, mixed, main, handler>>

\* Reading port 60h empties the buffer and drops IRQ 1.  A request of the line that
\* is still latched may be dropped with it.
ReadPort60 ==
  /\ kbd' = [kbd EXCEPT !.full = FALSE]
  /\ pic' \in {pic, [pic EXCEPT !.m.irr = @ \ {1}]}
  /\ UNCHANGED <<sent, early, mixed, noise>>

\* The CPU accepts the best request: its line goes into service and its vector
\* selects the stub, which pushes the vector as int_no.
SlaveBest  == Eligible(pic.s, pic.s.irr)
MasterBest == Eligible(pic.m, pic.m.irr \cup (IF SlaveBest = {} THEN {} ELSE {Cascade}))

EnterHandler(vector) ==
  /\ flagI
  /\ hpc = "none"
  /\ hpc' = "dispatch"
  /\ intNo' = vector
  /\ UNCHANGED <<device, main, scanCode, capsOn, typed, taken, clobbered>>

Service(chip, line) ==
  [chip EXCEPT !.irr = @ \ {line}, !.isr = @ \cup {line}]

TakeIrq ==
  /\ MasterBest # {}
  /\ LET l == Lowest(MasterBest)
         k == Lowest(SlaveBest)
     IN  IF l = Cascade /\ SlaveBest # {}
         THEN /\ pic' = [m |-> Service(pic.m, l), s |-> Service(pic.s, k)]
              /\ EnterHandler(pic.s.base + k)
         ELSE /\ pic' = [pic EXCEPT !.m = Service(@, l)]
              /\ EnterHandler(pic.m.base + l)

\* A request that vanishes before it is accepted arrives as line 7, not in service.
TakeSpurious ==
  /\ noise < MaxNoise
  /\ flagI /\ hpc = "none"
  /\ hpc' = "dispatch"
  /\ noise' = noise + 1
  /\ \/ /\ intNo' = pic.m.base + 7
        /\ UNCHANGED pic
     \/ /\ intNo' = pic.s.base + 7
        /\ pic' = [pic EXCEPT !.m = Service(@, Cascade)]
  /\ UNCHANGED <<kbd, sent, early, mixed, main, scanCode, capsOn, typed, taken, clobbered>>

-----------------------------------------------------------------------------
(* kinit and main *)

Gdt    == CASE cpu.gdt = "init" -> InitGdt [] cpu.gdt = "kernel" -> KernelGdt
Tables == CASE cpu.tables = "init" -> InitTables [] cpu.tables = "pager" -> PagerTables

\* The temporary GDT, the page tables, long mode, the stack and the far jump.  rdi is
\* not loaded with the address of stage 2's bootParams.
kinit ==
  /\ pc = "kinit"
  /\ cpu' = [cpu EXCEPT !.gdt = "init", !.cs = 24, !.tables = "init"]
  /\ pc' = "gdt"
  /\ UNCHANGED <<pic, device, step, maskM, maskS, flagI, routines, handler>>

\* initGDT and gdt_flush, which returns into the new code segment.
initGDT ==
  /\ pc = "gdt"
  /\ cpu' = [cpu EXCEPT !.gdt = "kernel", !.cs = 8]
  /\ pc' = "masks"
  /\ UNCHANGED <<pic, device, step, maskM, maskS, flagI, routines, handler>>

\* The masks idt.c saves: both are read from the master's data port.
ReadMasks ==
  /\ pc = "masks"
  /\ maskM' = pic.m.imr
  /\ maskS' = pic.m.imr
  /\ pc' = "icw"
  /\ UNCHANGED <<cpu, pic, device, step, flagI, routines, handler>>

Out(chip, port, value) == [chip |-> chip, port |-> port, value |-> value]

\* Faulty variant: the slave's ICW2 and ICW3 are swapped.
PicProgram_Swapped ==
  << Out("m", "command", 17), Out("s", "command", 17),
     Out("m", "data", 32),    Out("s", "data", 2),
     Out("m", "data", 4),     Out("s", "data", 40),
     Out("m", "data", 1),     Out("s", "data", 1),
     Out("m", "data", maskM), Out("s", "data", maskS) >>

PicProgram ==
  << Out("m", "command", 17), Out("s", "command", 17),
     Out("m", "data", 32),    Out("s", "data", 40),
     Out("m", "data", 4),     Out("s", "data", 2),
     Out("m", "data", 1),     Out("s", "data", 1),
     Out("m", "data", maskM), Out("s", "data", maskS) >>

WritePic(w) ==
  pic' = [pic EXCEPT ![w.chip] =
            IF w.port = "command" THEN WriteCommand(@, w.value) ELSE WriteData(@, w.value)]

ProgramPic ==
  /\ pc = "icw"
  /\ WritePic(PicProgram[step])
  /\ step' = IF step = Len(PicProgram) THEN 1 ELSE step + 1
  /\ pc' = IF step = Len(PicProgram) THEN "gates" ELSE "icw"
  /\ UNCHANGED <<cpu, device, maskM, maskS, flagI, routines, handler>>

\* Faulty variant: initKeyboard is called before the messages.
LoadIdt_Keyboard ==
  /\ pc = "gates"
  /\ flagI' = TRUE
  /\ routines' = {1}
  /\ pc' = "paging"
  /\ UNCHANGED <<cpu, pic, device, step, maskM, maskS, handler>>

\* The gates, lidt and sti.
LoadIdt ==
  /\ pc = "gates"
  /\ flagI' = TRUE
  /\ pc' = "paging"
  /\ UNCHANGED <<cpu, pic, device, step, maskM, maskS, routines, handler>>

\* initPaging, between interrupts; the tables it fills are in use from its last
\* instruction on.
initPaging ==
  /\ pc = "paging"
  /\ hpc = "none"
  /\ cpu' = [cpu EXCEPT !.tables = "pager"]
  /\ pc' = "print"
  /\ UNCHANGED <<pic, device, step, maskM, maskS, flagI, routines, handler>>

\* The messages: C code that interrupts may fall into, if bootParams can be read.
ArgumentMapped == MapsTo(Tables, 0, 0, cpu.rdi, cpu.rdi)

PrintMessages ==
  /\ pc = "print"
  /\ hpc = "none"
  /\ ArgumentMapped
  /\ pc' = "keyboard"
  /\ UNCHANGED <<cpu, pic, device, step, maskM, maskS, flagI, routines, handler>>

\* initKeyboard, then the hlt loop.
initKeyboard ==
  /\ pc = "keyboard"
  /\ hpc = "none"
  /\ capsOn' = FALSE
  /\ routines' = routines \cup {1}
  /\ pc' = "idle"
  /\ UNCHANGED <<cpu, pic, device, step, maskM, maskS, flagI,
                 hpc, intNo, scanCode, typed, taken, clobbered>>

MainStep ==
  \/ kinit
  \/ initGDT
  \/ ReadMasks
  \/ ProgramPic
  \/ LoadIdt
  \/ initPaging
  \/ PrintMessages
  \/ initKeyboard
-----------------------------------------------------------------------------
(* The irq stub, irq_handler and keyboardHandler, with interrupts off. *)

EoiStep == IF intNo >= 40 THEN "eoiS" ELSE "eoiM"

\* Faulty variant: the routine of the line below.
Dispatch_OffByOne ==
  /\ hpc = "dispatch"
  /\ hpc' = IF intNo - 31 \in routines THEN "inb1" ELSE EoiStep
  /\ UNCHANGED <<pic, device, main, intNo, scanCode, capsOn, typed, taken, clobbered>>

\* Calls irq_routines[int_no - 32] if there is one.
Dispatch ==
  /\ hpc = "dispatch"
  /\ hpc' = IF intNo - 32 \in routines THEN "inb1" ELSE EoiStep
  /\ UNCHANGED <<pic, device, main, intNo, scanCode, capsOn, typed, taken, clobbered>>

\* Faulty variant: the release bit is not masked out of the scan code.
Inb1_NoMask ==
  /\ hpc = "inb1"
  /\ scanCode' = kbd.data
  /\ taken' = Append(taken, kbd.data)
  /\ ReadPort60
  /\ hpc' = "inb2"
  /\ UNCHANGED <<main, intNo, capsOn, typed, clobbered>>

\* Which key: the first read of port 60h.
Inb1 ==
  /\ hpc = "inb1"
  /\ scanCode' = kbd.data % 128
  /\ taken' = Append(taken, kbd.data)
  /\ ReadPort60
  /\ hpc' = "inb2"
  /\ UNCHANGED <<main, intNo, capsOn, typed, clobbered>>

ShiftKeys == {42, 54}
NumberKeys == (2 .. 13) \cup {41}
LetterKeys == (16 .. 40) \cup (43 .. 53) \cup {57}
Backspace == 14

\* Faulty variant: releasing a shift key is ignored.
SwitchOn_StickyShift(code, pressed) ==
  /\ capsOn' = (capsOn \/ (code \in ShiftKeys /\ pressed))
  /\ typed' = IF ~pressed \/ code \notin NumberKeys \cup LetterKeys \cup {Backspace}
              THEN typed
              ELSE Append(typed, <<code, capsOn /\ code # Backspace>>)

\* The switch on the scan code.
SwitchOn(code, pressed) ==
  /\ capsOn' = IF code \in ShiftKeys THEN pressed ELSE capsOn
  /\ typed' = IF ~pressed \/ code \notin NumberKeys \cup LetterKeys \cup {Backspace}
              THEN typed
              ELSE Append(typed, <<code, capsOn /\ code # Backspace>>)

\* Up or down: the second read of port 60h, then the switch.
Inb2 ==
  /\ hpc = "inb2"
  /\ SwitchOn(scanCode, kbd.data < 128)
  /\ ReadPort60
  /\ hpc' = EoiStep
  /\ UNCHANGED <<main, intNo, scanCode, taken, clobbered>>

EndOfInterrupt(chip) == pic' = [pic EXCEPT ![chip] = WriteCommand(@, 32)]

EoiSlave ==
  /\ hpc = "eoiS"
  /\ EndOfInterrupt("s")
  /\ hpc' = "eoiM"
  /\ UNCHANGED <<device, main, intNo, scanCode, capsOn, typed, taken, clobbered>>

\* Faulty variant: the master is told only about its own interrupts.
EoiMaster_OwnOnly ==
  /\ hpc = "eoiM"
  /\ IF intNo < 40 THEN EndOfInterrupt("m") ELSE UNCHANGED pic
  /\ hpc' = "iretq"
  /\ UNCHANGED <<device, main, intNo, scanCode, capsOn, typed, taken, clobbered>>

\* Faulty variant: only interrupts with a routine are ended.
EoiMaster_Handled ==
  /\ hpc = "eoiM"
  /\ IF intNo - 32 \in routines THEN EndOfInterrupt("m") ELSE UNCHANGED pic
  /\ hpc' = "iretq"
  /\ UNCHANGED <<device, main, intNo, scanCode, capsOn, typed, taken, clobbered>>

EoiMaster ==
  /\ hpc = "eoiM"
  /\ EndOfInterrupt("m")
  /\ hpc' = "iretq"
  /\ UNCHANGED <<device, main, intNo, scanCode, capsOn, typed, taken, clobbered>>

\* What every call of irq_handler writes (arguments of irq_handler and outb, the
\* port and the value), and what pushall saves.
HandlerWrites == {"rax", "rdx", "rdi", "rsi"}
Pushed == {"rax", "rbx", "rcx", "rdx"}

\* popall and iretq: back into main, whose C code runs on with its registers.
Iretq ==
  /\ hpc = "iretq"
  /\ hpc' = "none"
  /\ clobbered' = clobbered \cup (HandlerWrites \ Pushed)
  /\ UNCHANGED <<pic, device, main, intNo, scanCode, capsOn, typed, taken>>

\* If it cannot, isr14 and isr_handler print and return to the instruction that
\* faulted, for ever.
PageFault ==
  /\ pc = "print"
  /\ hpc = "none"
  /\ ~ArgumentMapped
  /\ clobbered' = clobbered \cup (HandlerWrites \ Pushed)
  /\ UNCHANGED <<pic, device, main, hpc, intNo, scanCode, capsOn, typed, taken>>

HandlerStep == Dispatch \/ Inb1 \/ Inb2 \/ EoiSlave \/ EoiMaster \/ Iretq

Hardware == \/ \E b \in ScanCodes : SendByte(b)
            \/ FillBuffer
            \/ Tick
            \/ RtcTick

Next == MainStep \/ HandlerStep \/ PageFault \/ Hardware \/ TakeIrq \/ TakeSpurious

Spec == Init /\ [][Next]_vars

\* The CPU executes, accepts interrupts, and the 8042 delivers.
FairSpec == /\ Spec
            /\ WF_vars(MainStep)
            /\ WF_vars(HandlerStep)
            /\ WF_vars(TakeIrq)
            /\ WF_vars(FillBuffer)
-----------------------------------------------------------------------------
(* Properties *)

\* Characters: a key and whether it is shifted.
Text == Seq((0 .. 127) \X BOOLEAN)

\* Every variable keeps to its type: the chips are always in a state of the 8259's
\* command sequence, and main and the handler at one of their steps.
TypeOK ==
  /\ pic \in [m : Chip, s : Chip]
  /\ kbd \in [queue : Seq(0 .. 255), full : BOOLEAN, data : 0 .. 255]
  /\ cpu \in [gdt : {"stage2", "init", "kernel"}, cs : {8, 24},
              tables : {"none", "init", "pager"}, rdi : ArgumentPages]
  /\ pc \in {"kinit", "gdt", "masks", "icw", "gates", "paging", "print", "keyboard", "idle"}
  /\ step \in 1 .. 10
  /\ maskM \in 0 .. 255
  /\ maskS \in 0 .. 255
  /\ flagI \in BOOLEAN
  /\ routines \subseteq {1}
  /\ hpc \in {"none", "dispatch", "inb1", "inb2", "eoiS", "eoiM", "iretq"}
  /\ intNo \in 0 .. 255
  /\ scanCode \in 0 .. 127
  /\ capsOn \in BOOLEAN
  /\ typed \in Text
  /\ sent \in Seq(0 .. 255)
  /\ taken \in Seq(0 .. 255)
  /\ early \in BOOLEAN
  /\ mixed \in BOOLEAN
  /\ noise \in Nat
  /\ clobbered \subseteq HandlerWrites

\* irq_handler ends exactly what was begun, at both chips: after the handler no line
\* is left in service (which would block its priority for ever), spurious line 7 and
\* the cascade included.
EoiBalanced == hpc = "none" => pic.m.isr = {} /\ pic.s.isr = {}

\* Whatever interrupt is accepted, and whenever, its number is one irq_routines can
\* be indexed with: interrupts are not enabled before both chips are remapped.
VectorsRemapped == hpc # "none" => intNo \in 32 .. 47

\* An interrupt or exception finds its way, before initPaging as after it: each gate
\* leads to its stub, through a segment that is 64-bit ring 0 code in the GDT loaded, as
\* is the one iretq returns to; and under the page tables loaded, code, IDT, stack and
\* screen are where handler and main use them.
DeliveryRight ==
  flagI =>
    /\ \A v \in Vectors : /\ IsInterruptGate(Idt[v])
                         /\ GateOffset(Idt[v]) = StubAddress[v]
                         /\ Is64BitCode(Gdt[Idt[v].selector])
                         /\ Ring(Gdt[Idt[v].selector]) = 0
    /\ Is64BitCode(Gdt[cpu.cs]) /\ Ring(Gdt[cpu.cs]) = 0
    /\ IsWritableData(Gdt[16])
    /\ KernelAddresses(Tables) /\ LowAddresses(Tables)

\* What makes these two inductive: where the PIC program has brought each chip, that
\* interrupts are on only after it, and what is in service at each handler step.
ProgramOK ==
  /\ pc # "icw" => step = 1 /\ pic.m.icw = "no" /\ pic.s.icw = "no"
  /\ pc = "icw" =>
       /\ pic.m.icw = CASE step \in {1, 8, 9, 10} -> "no"  [] step \in {2, 3} -> "icw2"
                        [] step \in {4, 5} -> "icw3"        [] step \in {6, 7} -> "icw4"
       /\ pic.s.icw = CASE step \in {1, 2, 9, 10} -> "no"  [] step \in {3, 4} -> "icw2"
                        [] step \in {5, 6} -> "icw3"        [] step \in {7, 8} -> "icw4"
  /\ pc \in {"gates", "paging", "print", "keyboard", "idle"} \/ step > 3 => pic.m.base = 32
  /\ pc \in {"gates", "paging", "print", "keyboard", "idle"} \/ step > 4 => pic.s.base = 40

InterruptsOK ==
  /\ hpc # "none" => flagI
  /\ flagI => pc \in {"paging", "print", "keyboard", "idle"}

AtMostOne(S) == S = {} \/ \E l \in Lines : S = {l}

InService ==
  /\ hpc \in {"none", "iretq"} => pic.m.isr = {}
  /\ hpc \in {"none", "iretq", "eoiM"} \/ intNo < 40 => pic.s.isr = {}
  /\ AtMostOne(pic.m.isr) /\ AtMostOne(pic.s.isr)
  /\ hpc = "eoiS" => intNo >= 40

\* The inductive invariant of the interrupt path.
InterruptInv == TypeOK /\ ProgramOK /\ InterruptsOK /\ InService /\ VectorsRemapped

\* keyboardHandler reads every byte of the keyboard once and in order: what it read,
\* the byte in the output buffer and those behind it are all that was sent, unless the
\* second of its two reads has met another byte than the first.
NothingLost ==
  ~mixed => sent = taken \o (IF kbd.full THEN <<kbd.data>> ELSE <<>>) \o kbd.queue

\* A shift key counts as held if the last event of that key is a press.
Held(s, key, n) ==
  \E i \in 1 .. n : /\ s[i] = key
                    /\ \A j \in i + 1 .. n : s[j] # key + 128

ShiftHeld(s, n) == \E key \in ShiftKeys : Held(s, key, n)

\* A shift key was let go, and none touched since.  If the other one is still held, the
\* one capsOn of both does not know it.
ShiftReleases == {key + 128 : key \in ShiftKeys}

LetGo(s, n) ==
  \E i \in 1 .. n : /\ s[i] \in ShiftReleases
                    /\ \A j \in i + 1 .. n : s[j] \notin ShiftKeys \cup ShiftReleases

Shifted(s, n) == ShiftHeld(s, n) /\ ~LetGo(s, n)

\* The presses among the bytes s of a key that has a character, and the character of
\* the one at i.
Presses(s) == {i \in 1 .. Len(s) : s[i] \in NumberKeys \cup LetterKeys \cup {Backspace}}

Character(s, i) == <<s[i], s[i] # Backspace /\ Shifted(s, i)>>

\* The bytes s type the text t: one character for each press, in the order of the bytes.
Spells(s, t) ==
  /\ Len(t) = Cardinality(Presses(s))
  /\ \A i \in Presses(s) : t[Cardinality(Presses(s) \cap (1 .. i))] = Character(s, i)

\* What putc got is what the user typed: every byte of the keyboard is read, and the
\* bytes read type the keys pressed, in order, each shifted exactly when a shift key was
\* held; but after one of two held shift keys is let go the text goes on unshifted.  Any
\* bytes at any pace, as long as no byte has come between the two reads of another.
TypedRight ==
  /\ NothingLost
  /\ hpc # "inb2" /\ ~mixed => Spells(taken, typed)

\* A byte waits with no interrupt to announce it (so the keyboard is silent for ever)
\* only if it came before initKeyboard had installed the handler.
DeafOnlyIfEarly ==
  kbd.full /\ hpc = "none" /\ 1 \notin pic.m.irr => early

\* The interrupt handler never calls putc while main is printing: cursor and screen
\* (vars.c) have no lock, and putc is not reentrant.
ConsoleExclusive == [][typed' # typed => pc = "idle"]_vars

\* Every byte that comes after initKeyboard is handled: read out of the 8042 in an
\* interrupt of its own or, mixed with the one before it, in that one's.
BytesRead == Len(sent) - Len(kbd.queue) - (IF kbd.full THEN 1 ELSE 0)

KeysHandled ==
  \A n \in 1 .. MaxKeys : (Len(sent) >= n /\ ~early) ~> (BytesRead >= n \/ early)

\* main gets to its hlt loop, whatever interrupts come, exactly if the address stage 2
\* left in edi lies in the first 2 MiB: kinit does not load main's argument, and main
\* reads through it when initPaging has unmapped the rest.
MainArrives ==
  /\ [](pc = "idle" => cpu.rdi = 0)
  /\ cpu.rdi = 0 ~> pc = "idle"

\* The two reads of port 60h are of one byte (keyboard.c: "What key is pressed?",
\* "Pressed down or released?"), so that what putc got is what the user typed, with any
\* 8042.
TypedAlways == hpc # "inb2" => Spells(taken, typed)

\* An interrupt leaves main's registers as they were (idt.asm: pushall, popall).
InterruptTransparent == pc # "idle" => clobbered = {}
=============================================================================
