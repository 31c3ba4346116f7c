----------------------------- MODULE MemDetect ------------------------------
(***************************************************************************)
(* The memory map: MemDetect (stage2/libs/memdetect.c) collects the blocks *)
(* that E820NextBlock (x86.asm) gets from the BIOS, one call at a time.    *)
(*                                                                         *)
(* The BIOS is external: it lists its blocks 1 to bios.blocks, the         *)
(* continuation value naming the next one, and ends as BIOSes do, with a   *)
(* continuation of 0 beside the last block or, past it, with the carry     *)
(* flag; one that fails may answer any call with an error, the same call   *)
(* repeated included.  Which BIOS it is shows when it is first asked, and  *)
(* does not matter before.                                                 *)
(***************************************************************************)
EXTENDS Integers, Sequences

CONSTANTS
  MAX_E820_REGIONS,
  MaxBlocks,    \* bound on the length of the BIOS's list
  BlockSizes,   \* sizes of a block the BIOS reports (20 without ACPI word, 24)
  UpperCr0      \* bits 16 to 31 of CR0 in stage 2 (paging, bit 31 of CR0, is off)

ASSUME MemDetectAssumption ==
  /\ MAX_E820_REGIONS \in Nat \ {0}
  /\ MaxBlocks \in Nat \ {0}
  /\ BlockSizes \subseteq 1 .. 24
  /\ \A c \in UpperCr0 : c \in Nat /\ c < 2 ^ 15

VARIABLES
  bios,          \* what the machine is, once it has been asked
  block,         \* the local block: a number of the BIOS's list, 0 at first
  continuation,
  e820,          \* the local ret
  memRegions,    \* the blocks stored, as a sequence
  detecting,     \* "first", "loop", "next", "done" or "overrun"
  RegionCount    \* memInfo->RegionCount

frame    == <<bios, block, continuation, e820, memRegions>>
detector == <<frame, detecting, RegionCount>>

Bioses == [blocks : 1 .. MaxBlocks, end : {"zero", "carry"},
           fails : BOOLEAN, cr0 : UpperCr0]

NotAsked == [blocks |-> 0, end |-> "zero", fails |-> FALSE, cr0 |-> 0]

DetectInit ==
  /\ bios = NotAsked
  /\ block = 0
  /\ continuation = 0
  /\ e820 = 0
  /\ memRegions = <<>>
  /\ detecting = "first"
  /\ RegionCount = 0

\* enterProtectedMode keeps ax, the low half of eax, only: the high half is CR0's.
Returned(b, ax) == (b.cr0 * 2 ^ 16) + ax

\* The low half of -1.
Error == 2 ^ 16 - 1

\* The call fails, if the machine's calls may or the list is at its end; a later one may
\* still succeed.
CallFails(machine) ==
  /\ machine.fails \/ continuation + 1 > machine.blocks
  /\ e820' = Returned(machine, Error)
  /\ UNCHANGED <<block, continuation>>

\* One call of int 15h, function E820h, on the given machine.
E820NextBlock(machine) ==
  \/ CallFails(machine)
  \/ LET b == continuation + 1
     IN  /\ b <= machine.blocks
         /\ \E size \in BlockSizes : e820' = Returned(machine, size)
         /\ block' = b
         /\ continuation' = IF b = machine.blocks /\ machine.end = "zero" THEN 0 ELSE b

FirstBlock ==
  /\ detecting = "first"
  /\ bios' \in Bioses
  /\ E820NextBlock(bios')
  /\ detecting' = "loop"
  /\ UNCHANGED <<memRegions, RegionCount>>

\* Faulty variant: every block is stored twice.
Store_Twice ==
  /\ detecting = "loop"
  /\ e820 > 0 /\ continuation # 0
  /\ IF Len(memRegions) = MAX_E820_REGIONS
     THEN detecting' = "overrun" /\ UNCHANGED memRegions
     ELSE detecting' = "next" /\ memRegions' = memRegions \o <<block, block>>
  /\ UNCHANGED <<bios, block, continuation, e820, RegionCount>>

\* Faulty variant: the loop does not look at the continuation.
Store_NoContinuation ==
  /\ detecting = "loop"
  /\ e820 > 0
  /\ IF Len(memRegions) = MAX_E820_REGIONS
     THEN detecting' = "overrun" /\ UNCHANGED memRegions
     ELSE detecting' = "next" /\ memRegions' = Append(memRegions, block)
  /\ UNCHANGED <<bios, block, continuation, e820, RegionCount>>

\* Faulty variant: blocks beyond the array are ignored.
Store_Clamped ==
  /\ detecting = "loop"
  /\ e820 > 0 /\ continuation # 0
  /\ detecting' = "next"
  /\ memRegions' = IF Len(memRegions) = MAX_E820_REGIONS
                   THEN memRegions ELSE Append(memRegions, block)
  /\ UNCHANGED <<bios, block, continuation, e820, RegionCount>>

\* The body of the loop stores the block, past the array's end if it is full.
Store ==
  /\ detecting = "loop"
  /\ e820 > 0 /\ continuation # 0
  /\ IF Len(memRegions) = MAX_E820_REGIONS
     THEN detecting' = "overrun" /\ UNCHANGED memRegions
     ELSE detecting' = "next" /\ memRegions' = Append(memRegions, block)
  /\ UNCHANGED <<bios, block, continuation, e820, RegionCount>>

NextBlock ==
  /\ detecting = "next"
  /\ E820NextBlock(bios)
  /\ detecting' = "loop"
  /\ UNCHANGED <<bios, memRegions, RegionCount>>

\* Fills in memInfo.
Finish ==
  /\ detecting = "loop"
  /\ ~(e820 > 0 /\ continuation # 0)
  /\ RegionCount' = Len(memRegions)
  /\ detecting' = "done"
  /\ UNCHANGED frame

\* The steps of MemDetect.
Detect == FirstBlock \/ Store \/ NextBlock \/ Finish

\* MemDetect has returned: its frame, memRegions included, is given back and the
\* calls that follow write over it.
FrameLost ==
  /\ bios' = NotAsked
  /\ block' = 0
  /\ continuation' = 0
  /\ e820' = 0
  /\ memRegions' = <<>>
-----------------------------------------------------------------------------
(* Properties *)

Failing == bios.end = "carry" \/ bios.fails

\* The list never holds more than the array; a count is reported only at the end and
\* is the number of blocks stored.
DetectTypeOK ==
  /\ bios \in Bioses \cup {NotAsked}
  /\ block \in 0 .. bios.blocks
  /\ continuation \in 0 .. bios.blocks
  /\ e820 \in Nat /\ e820 <= 2147483647
  /\ memRegions \in Seq(1 .. bios.blocks)
  /\ Len(memRegions) <= MAX_E820_REGIONS
  /\ detecting \in {"first", "loop", "next", "done", "overrun"}
  /\ RegionCount \in 0 .. MAX_E820_REGIONS
  /\ detecting # "done" => RegionCount = 0
  /\ detecting = "done" /\ bios # NotAsked => RegionCount = Len(memRegions)

\* The blocks are stored in the BIOS's order without gaps, and without repetition as
\* long as no call has failed.
InOrder ==
  \A i \in DOMAIN memRegions :
    /\ i = 1 => memRegions[i] = 1
    /\ i > 1 => memRegions[i] = memRegions[i - 1] + 1
                  \/ (Failing /\ memRegions[i] = memRegions[i - 1])

\* The array is written past its end only for a list of more blocks than it holds
\* (and the last, which is never stored), or after a call that failed.
OverrunOnlyIf ==
  detecting = "overrun" => bios.blocks > MAX_E820_REGIONS + 1 \/ Failing

\* A BIOS that ends its list with a continuation of 0 gets its whole list stored but
\* for the last block.
AllButLast ==
  detecting = "done" /\ bios # NotAsked /\ ~Failing => RegionCount = bios.blocks - 1
=============================================================================
