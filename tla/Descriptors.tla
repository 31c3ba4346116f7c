---------------------------- MODULE Descriptors -----------------------------
(***************************************************************************)
(* Segment descriptors and interrupt gates: how gdt.c and idt.c take the   *)
(* fields apart for the tables, and how the CPU (external) puts them       *)
(* together again.  A 64-bit offset is four words of WORD values each; a   *)
(* 32-bit value with its top bit set is written negative, in two's         *)
(* complement: its low bits are the same.                                  *)
(***************************************************************************)
EXTENDS Integers

CONSTANTS
  WORD,         \* 2^16
  StubAddress   \* where the stub of a vector lies (idt.asm)

\* The vectors initIDT sets a gate for.
Vectors == (0 .. 47) \cup {127, 128}

DWORD == WORD * WORD

ASSUME DescriptorAssumption ==
  /\ WORD \in Nat \ {0}
  /\ StubAddress \in [Vectors -> 0 .. (DWORD * DWORD) - 1]

-----------------------------------------------------------------------------
(* The GDT. *)

\* Faulty variant: the second assignment to flags replaces the first.
Flags_LimitOnly(limit, granularity) == (limit \div 65536) % 16

\* The byte with the limit's upper bits and the flags.
Flags(limit, granularity) == ((limit \div 65536) % 16) + (16 * ((granularity \div 16) % 16))

setGDTGate(base, limit, access, granularity) ==
  [ base_low  |-> base % 65536,
    base_mid  |-> (base \div 65536) % 256,
    base_high |-> (base \div 16777216) % 256,
    limit     |-> limit % 65536,
    flags     |-> Flags(limit, granularity),
    access    |-> access ]

\* GDT_ACCESS_PRESENT, _TYPE, _EXEC and _RW; ring 0 and ring 3.
CodeAccess(ring) == 128 + (32 * ring) + 16 + 8 + 2
DataAccess(ring) == 128 + (32 * ring) + 16 + 2

\* initGDT, by selector.
KernelGdt ==
  [ s \in {0, 8, 16, 24, 32} |->
      CASE s = 0  -> setGDTGate(0, 0, 0, 0)
        [] s = 8  -> setGDTGate(0, -1, CodeAccess(0), 175)
        [] s = 16 -> setGDTGate(0, -1, DataAccess(0), 175)
        [] s = 24 -> setGDTGate(0, -1, CodeAccess(3), 175)
        [] s = 32 -> setGDTGate(0, -1, DataAccess(3), 175) ]

\* init_GDT of prekernel.asm: code and data of 32 bits, then of 64.
InitGdt ==
  [ s \in {0, 8, 16, 24, 32} |->
      CASE s = 0  -> setGDTGate(0, 0, 0, 0)
        [] s = 8  -> setGDTGate(0, -1, CodeAccess(0), 207)
        [] s = 16 -> setGDTGate(0, -1, DataAccess(0), 207)
        [] s = 24 -> setGDTGate(0, -1, CodeAccess(0), 175)
        [] s = 32 -> setGDTGate(0, -1, DataAccess(0), 175) ]

\* What the CPU reads out of a descriptor.
SegmentBase(d)  == d.base_low + (65536 * d.base_mid) + (16777216 * d.base_high)
SegmentLimit(d) == d.limit + (65536 * (d.flags % 16))

Has(byte, bit) == (byte \div bit) % 2 = 1
Ring(d)      == (d.access \div 32) % 4
Is64BitCode(d) ==
  /\ Has(d.access, 128) /\ Has(d.access, 16) /\ Has(d.access, 8)
  /\ Has(d.flags, 32) /\ ~Has(d.flags, 64)
IsWritableData(d) ==
  Has(d.access, 128) /\ Has(d.access, 16) /\ ~Has(d.access, 8) /\ Has(d.access, 2)

-----------------------------------------------------------------------------
(* The IDT. *)

setIDTGate(offset, selector, attributes) ==
  [ offset_low  |-> offset % WORD,
    offset_mid  |-> (offset \div WORD) % WORD,
    offset_high |-> (offset \div DWORD) % DWORD,
    ist         |-> 0,
    selector    |-> selector,
    reserved    |-> 0,
    attributes  |-> attributes ]

IDT_ATTRIBUTE_INTERRUPT == 142

\* The gates initIDT sets; the memset has left the others not present.
Idt == [v \in Vectors |-> setIDTGate(StubAddress[v], 8, IDT_ATTRIBUTE_INTERRUPT)]

\* What the CPU reads out of a gate.
GateOffset(g) == g.offset_low + (WORD * g.offset_mid) + (DWORD * g.offset_high)
IsInterruptGate(g) == Has(g.attributes, 128) /\ g.attributes % 16 = 14
=============================================================================
