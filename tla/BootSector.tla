----------------------------- MODULE BootSector -----------------------------
(***************************************************************************)
(* The boot sector (boot.asm): reads stage 2 from the reserved sectors,    *)
(* three attempts with a reset between them, then opens the A20 gate       *)
(* through the 8042 keyboard controller and enters protected mode.         *)
(*                                                                         *)
(* The BIOS and the 8042 are external.  The 8042 takes a byte from its     *)
(* input buffer at its own pace and answers through the output buffer,     *)
(* which it shares with the keyboard.  Of a byte only the two low bits     *)
(* count: in the output port, bit 0 is the CPU's reset line (0 resets) and *)
(* bit 1 the A20 gate.                                                     *)
(***************************************************************************)
EXTENDS Chs, Sequences

CONSTANTS
  Geometries,             \* geometries of the drive the BIOS booted from
  Drives,                 \* and its number
  bdb_sectors_per_track, bdb_heads,
  StageSectors,           \* bdb_reserved_sectors - 1
  MaxKeys                 \* bound on bytes from the keyboard

ASSUME BootAssumption ==
  /\ Geometries \subseteq [cylinders : 1 .. 1024, heads : 1 .. 256, sectors : 2 .. 63]
  /\ Drives \subseteq 0 .. 255
  /\ bdb_sectors_per_track \in 2 .. 63
  /\ bdb_heads \in 1 .. 256
  /\ StageSectors \in 1 .. 128
  /\ MaxKeys \in Nat

VARIABLES
  geom, drive,      \* the boot drive (never change)
  faulted,          \* drives in an error state
  pc,               \* "init", "main", "read", "reset", "check", "error", "a20",
                    \* "stage2" or "resetting"
  dl, di, ax,       \* drive number, attempts left, boot_disk_read's result
  loaded,           \* the sectors at 7E00h
  step,             \* EnableA20: the port access it waits to make
  al,               \* EnableA20: the byte it read
  input, expects,   \* 8042: input buffer; the next data byte is the output port's
  output, reply,    \* 8042: output buffer; an answer to D0 is due
  kbdOn, port,      \* 8042: keyboard enabled; the output port
  keys,             \* bytes the keyboard has sent
  stale             \* a scan code was waiting when the keyboard was disabled

disk == <<faulted, dl, di, ax, loaded>>
kbc  == <<input, expects, output, reply, kbdOn, port, keys, stale>>
vars == <<geom, drive, pc, disk, step, al, kbc>>

Attempts == 3
Nothing  == <<>>
Bits     == 0 .. 3
Empty    == [is |-> "none", bits |-> 0]
Commands == {"Disable", "ReadPort", "WritePort", "Enable"}
Byte8042(is, bits) == [is |-> is, bits |-> bits]

Init ==
  /\ geom \in Geometries
  /\ drive \in Drives
  /\ faulted = {}
  /\ pc = "init"
  /\ dl = 0
  /\ di = 0
  /\ ax = 0
  /\ loaded = Nothing
  /\ step = 1
  /\ al = 0
  /\ input = Empty
  /\ expects = FALSE
  /\ output = Empty
  /\ reply = FALSE
  /\ kbdOn = TRUE
  /\ port \in {1, 3}
  /\ keys = 0
  /\ stale = FALSE

-----------------------------------------------------------------------------
(* Loading stage 2. *)

\* The segments, the stack and the far return to main.
Start ==
  /\ pc = "init"
  /\ pc' = "main"
  /\ UNCHANGED <<geom, drive, disk, step, al, kbc>>

\* Faulty variant: the sector number is not made one-based.
boot_lba_to_chs_NoInc(lba) ==
  LET track == lba \div bdb_sectors_per_track
  IN  [ ch |-> (track \div bdb_heads) % Byte,
        cl |-> CylinderHigh(track \div bdb_heads) + (lba % bdb_sectors_per_track),
        dh |-> (track % bdb_heads) % Byte ]

\* The two divisions and the packing of the cylinder into CH and CL.
boot_lba_to_chs(lba) ==
  LET track == lba \div bdb_sectors_per_track
  IN  [ ch |-> (track \div bdb_heads) % Byte,
        cl |-> CylinderHigh(track \div bdb_heads) + (lba % bdb_sectors_per_track) + 1,
        dh |-> (track % bdb_heads) % Byte ]

\* main saves the drive number and calls boot_disk_read for sector 1.
Main ==
  /\ pc = "main"
  /\ dl' = drive
  /\ di' = Attempts
  /\ pc' = "read"
  /\ UNCHANGED <<geom, drive, faulted, ax, loaded, step, al, kbc>>

ReadSucceeds ==
  LET first == BiosLba(geom, boot_lba_to_chs(1))
  IN  /\ pc = "read"
      /\ loaded' = [k \in 0 .. StageSectors - 1 |-> first + k]
      /\ faulted' = faulted \ {dl}
      /\ ax' = 0
      /\ pc' = "check"
      /\ UNCHANGED <<geom, drive, dl, di, step, al, kbc>>

ReadFails ==
  /\ pc = "read"
  /\ faulted' = faulted \cup {dl}
  /\ pc' = "reset"
  /\ UNCHANGED <<geom, drive, dl, di, ax, loaded, step, al, kbc>>

\* Faulty variants: an attempt too many; the result of the reset not looked at.
ResetSucceeds_OneMore ==
  /\ pc = "reset"
  /\ faulted' = faulted \ {dl}
  /\ di' = di - 1
  /\ IF di < 0
     THEN pc' = "check" /\ ax' = 1
     ELSE pc' = "read" /\ UNCHANGED ax
  /\ UNCHANGED <<geom, drive, dl, loaded, step, al, kbc>>

ResetFails_Ignored ==
  /\ pc = "reset"
  /\ di' = di - 1
  /\ IF di = 1
     THEN pc' = "check" /\ ax' = 1
     ELSE pc' = "read" /\ UNCHANGED ax
  /\ UNCHANGED <<geom, drive, faulted, dl, loaded, step, al, kbc>>

\* boot_disk_reset, and the end of the retry loop.
ResetSucceeds ==
  /\ pc = "reset"
  /\ faulted' = faulted \ {dl}
  /\ di' = di - 1
  /\ IF di = 1
     THEN pc' = "check" /\ ax' = 1
     ELSE pc' = "read" /\ UNCHANGED ax
  /\ UNCHANGED <<geom, drive, dl, loaded, step, al, kbc>>

ResetFails ==
  /\ pc = "reset"
  /\ ax' = 2
  /\ pc' = "check"
  /\ UNCHANGED <<geom, drive, faulted, dl, di, loaded, step, al, kbc>>

\* .check_fail_reset and .check_fail_read: error prints a message and reboots on a
\* key press, the start of another run of the machine; otherwise cli.
CheckResult ==
  /\ pc = "check"
  /\ pc' = IF ax \in {1, 2} THEN "error" ELSE "a20"
  /\ UNCHANGED <<geom, drive, disk, step, al, kbc>>

-----------------------------------------------------------------------------
(* EnableA20: commands to the 8042, each once the input buffer is empty, and one *)
(* read, once the output buffer is full.                                         *)

\* Faulty variants: the keyboard stays on; the answer is read twice.
A20Program_KeyboardOn == <<"ReadPort", "in", "WritePort", "out", "Enable", "ret">>
A20Program_ReadsTwice ==
  <<"Disable", "ReadPort", "in", "in", "WritePort", "out", "Enable", "ret">>

A20Program == <<"Disable", "ReadPort", "in", "WritePort", "out", "Enable", "ret">>

\* Faulty variant: the gate's bit is not set.
OrA20_Forgotten(b) == b

\* or al, 2
OrA20(b) == 2 + (b % 2)

Now(access) == pc = "a20" /\ A20Program[step] = access

Write(byte) ==
  /\ input = Empty
  /\ input' = byte
  /\ step' = step + 1
  /\ UNCHANGED <<geom, drive, pc, disk, al, expects, output, reply, kbdOn, port, keys, stale>>

WriteCommand ==
  \E c \in Commands : Now(c) /\ Write(Byte8042(c, 0))

WriteData == Now("out") /\ Write(Byte8042("data", OrA20(al)))

ReadAnswer ==
  /\ Now("in")
  /\ output # Empty
  /\ al' = output.bits
  /\ output' = Empty
  /\ step' = step + 1
  /\ UNCHANGED <<geom, drive, pc, disk, input, expects, reply, kbdOn, port, keys, stale>>

\* The last wait for the input buffer, lgdt, the switch of CR0 and the far jump.
EnterStage2 ==
  /\ Now("ret")
  /\ input = Empty
  /\ pc' = "stage2"
  /\ UNCHANGED <<geom, drive, disk, step, al, kbc>>

EnableA20 == WriteCommand \/ WriteData \/ ReadAnswer \/ EnterStage2

-----------------------------------------------------------------------------
(* The 8042 and the keyboard (external). *)

Live == pc # "resetting"

TakeCommand ==
  /\ Live
  /\ input.is \in Commands
  /\ input' = Empty
  /\ kbdOn' = (input.is = "Enable" \/ (kbdOn /\ input.is # "Disable"))
  /\ stale' = (stale \/ (input.is = "Disable" /\ output # Empty))
  /\ reply' = (reply \/ input.is = "ReadPort")
  /\ expects' = (expects \/ input.is = "WritePort")
  /\ UNCHANGED <<geom, drive, pc, disk, step, al, output, port, keys>>

\* A data byte after D1 goes to the output port; its bit 0 drives the reset line.
TakeData ==
  /\ Live
  /\ input.is = "data"
  /\ expects
  /\ input' = Empty
  /\ expects' = FALSE
  /\ port' = input.bits
  /\ pc' = IF input.bits % 2 = 0 THEN "resetting" ELSE pc
  /\ UNCHANGED <<geom, drive, disk, step, al, output, reply, kbdOn, keys, stale>>

Answer ==
  /\ Live
  /\ reply
  /\ output = Empty
  /\ output' = Byte8042("port", port)
  /\ reply' = FALSE
  /\ UNCHANGED <<geom, drive, pc, disk, step, al, input, expects, kbdOn, port, keys, stale>>

\* A byte from the keyboard.
SendKey(b) ==
  /\ Live
  /\ kbdOn
  /\ output = Empty
  /\ keys < MaxKeys
  /\ keys' = keys + 1
  /\ output' = Byte8042("key", b)
  /\ UNCHANGED <<geom, drive, pc, disk, step, al, input, expects, reply, kbdOn, port, stale>>

\* Until cli, the BIOS's interrupt handler takes it.
BiosTakesKey ==
  /\ pc \notin {"a20", "stage2", "resetting"}
  /\ output # Empty
  /\ output' = Empty
  /\ UNCHANGED <<geom, drive, pc, disk, step, al, input, expects, reply, kbdOn, port,
                 keys, stale>>

Boot == \/ Start \/ Main
        \/ ReadSucceeds \/ ReadFails
        \/ ResetSucceeds \/ ResetFails
        \/ CheckResult
        \/ EnableA20

Controller == TakeCommand \/ TakeData \/ Answer

Next == Boot \/ Controller \/ (\E b \in Bits : SendKey(b)) \/ BiosTakesKey

Spec == Init /\ [][Next]_vars

\* The CPU executes, BIOS calls return, and the 8042 works off its buffers.
FairSpec == Spec /\ WF_vars(Boot) /\ WF_vars(Controller)

-----------------------------------------------------------------------------
(* Properties *)

\* Every variable keeps to its type: an attempt is made only while one is left, and
\* main sees one of the three codes boot_disk_read documents.
TypeOK ==
  /\ geom \in Geometries
  /\ drive \in Drives
  /\ faulted \subseteq Drives
  /\ pc \in {"init", "main", "read", "reset", "check", "error", "a20", "stage2", "resetting"}
  /\ dl \in Drives \cup {0}
  /\ di \in 0 .. Attempts
  /\ pc \in {"read", "reset"} => di > 0 /\ dl = drive
  /\ ax \in 0 .. 2
  /\ step \in 1 .. Len(A20Program)
  /\ al \in Bits
  /\ input \in [is : Commands \cup {"none", "data"}, bits : Bits]
  /\ input.is = "data" => expects
  /\ output \in [is : {"none", "key", "port"}, bits : Bits]
  /\ port \in Bits
  /\ keys \in 0 .. MaxKeys
  /\ {expects, reply, kbdOn, stale} \subseteq BOOLEAN

\* Attempts two and three find a drive that was reset: boot_disk_read passes its DL
\* on to boot_disk_reset, and gives up when the reset fails.
RetryAfterReset == pc = "read" => drive \notin faulted

\* boot_disk_read keeps the promise that disk.c makes too: one answer, which is 0 only
\* with the sectors asked for in memory, whatever the geometry of the drive.
Device == INSTANCE BlockDevice WITH
  Lbas   <- {1}, Counts <- {StageSectors},
  phase  <- CASE pc = "init" -> "off" [] pc = "main" -> "ready"
              [] pc \in {"read", "reset"} -> "busy" [] OTHER -> "done",
  lba    <- IF pc \in {"init", "main"} THEN 0 ELSE 1,
  count  <- IF pc \in {"init", "main"} THEN 0 ELSE StageSectors,
  status <- IF pc \in {"init", "main", "read", "reset"} THEN -1 ELSE ax,
  data   <- loaded

\* The one request of the boot sector, boot_disk_read's, is a request to a block device.
LoadIsBlockDevice == Device!FairSpec

\* Stage 2 runs with the A20 gate open: the write has reached the port, whatever the
\* keyboard did meanwhile.
A20Open == pc = "stage2" => port \div 2 = 1

\* The handshake touches nothing else, unless a scan code lay in the output buffer when
\* the keyboard was disabled: EnableA20 reads the port and not a key, does not pull the
\* reset line, and leaves no answer behind.
HandshakeClean ==
  ~stale => /\ pc # "resetting"
            /\ pc = "stage2" => ~reply /\ output.is \in {"none", "key"}

\* The boot sector ends in stage 2, in an error message, or in the reset it caused.
BootEnds == <>(pc \in {"stage2", "error", "resetting"})
=============================================================================
