-------------------------------- MODULE Disk --------------------------------
(***************************************************************************)
(* The stage 2 disk driver (disk.c over the BIOS thunks of x86.asm).       *)
(* One action per BIOS call: DISK_Init, the read attempt and the reset     *)
(* inside the three-attempt loop of DISK_ReadSectors.  The BIOS (external) *)
(* may fail any call; after a failed read the drive stays in an error      *)
(* state until it is reset.                                                *)
(***************************************************************************)
EXTENDS Chs

CONSTANTS Geometries,    \* geometries the boot drive may have
          Drives,        \* BIOS drive numbers the machine may boot from
          ReturnAddress, \* where diskReset16 returns to, in the stage 2 image
          Lbas, Counts,  \* requests fat.c makes
          Errors         \* nonzero int 13h status codes

ASSUME DiskAssumption ==
  /\ Geometries \subseteq Geometry
  /\ Drives \subseteq 0 .. 255
  /\ ReturnAddress \in Nat /\ ReturnAddress < 65536   \* stage 2 is linked below 64 KiB
  /\ Lbas \subseteq Nat
  /\ Counts \subseteq 1 .. 128
  /\ Errors \subseteq 1 .. 255

VARIABLES
  geom,     \* true geometry of the boot drive (never changes)
  drive,    \* boot drive number (never changes)
  faulted,  \* drives in an error state (external)
  pc,       \* "off", "ready", "read", "reset", "done" or "dead"
  disk,     \* the DISK struct
  lba, count,
  i,        \* loop counter of DISK_ReadSectors
  result,   \* its result variable
  dataOut   \* the sectors the caller's buffer is known to hold

vars == <<geom, drive, faulted, pc, disk, lba, count, i, result, dataOut>>

Attempts == 3
Nothing  == <<>>
NoDisk   == [id |-> 0, cylinders |-> 0, heads |-> 0, sectors |-> 0]

InRange(l, n) == l + n <= Total(geom)

Init ==
  /\ geom \in Geometries
  /\ drive \in Drives
  /\ faulted = {}
  /\ pc = "off"
  /\ disk = NoDisk
  /\ lba = 0
  /\ count = 0
  /\ i = 0
  /\ result = 0
  /\ dataOut = Nothing

-----------------------------------------------------------------------------
(* DISK_Init: fills the DISK struct from int 13h/08h, or fails with 1. *)
DISK_Init ==
  /\ pc = "off"
  /\ \/ LET params == diskGetDriveParams16(BiosDriveParams(geom)) IN
        /\ disk' = [id |-> drive, cylinders |-> params.cylinders,
                    heads |-> params.heads, sectors |-> params.sectors]
        /\ pc' = "ready"
        /\ UNCHANGED result
     \/ /\ result' = 1
        /\ pc' = "dead"
        /\ UNCHANGED disk
  /\ UNCHANGED <<geom, drive, faulted, lba, count, i, dataOut>>

(* Entry of DISK_ReadSectors, on a fresh caller buffer. *)
DISK_ReadSectors(l, n) ==
  /\ pc \in {"ready", "done"}
  /\ InRange(l, n)
  /\ pc' = "read"
  /\ lba' = l
  /\ count' = n
  /\ i' = 0
  /\ dataOut' = Nothing
  /\ UNCHANGED <<geom, drive, faulted, disk, result>>

(* One pass of the loop body up to the result test: diskRead16. *)
Registers == ReadRegisters(disk.id, DISK_LBA2CHS(disk, lba), count)

ReadSucceeds ==
  LET first == BiosLba(geom, Registers)
      n     == Registers.al
  IN  /\ pc = "read"
      /\ first \in 0 .. Total(geom) - n
      /\ dataOut' = [k \in 0 .. n - 1 |-> first + k]
      /\ faulted' = faulted \ {Registers.dl}
      /\ result' = 0
      /\ pc' = "done"
      /\ UNCHANGED <<geom, drive, disk, lba, count, i>>

ReadFails ==
  /\ pc = "read"
  /\ result' \in Errors
  /\ faulted' = faulted \cup {Registers.dl}
  /\ pc' = "reset"
  /\ UNCHANGED <<geom, drive, disk, lba, count, i, dataOut>>

(* The drive diskReset16 passes in DL.  It reads [esp + 4] after a 2-byte  *)
(* push, which is byte 2 of the return address, not the argument.          *)
ResetDrive == (ReturnAddress \div Word) % Byte

(* The for loop's test after its i++. *)
AfterReset(n) == IF n < Attempts THEN "read" ELSE "done"

(* Faulty variants: retrying without a reset, and not counting the attempt. *)
DISK_Reset_Skipped ==
  /\ pc = "reset"
  /\ i' = i + 1
  /\ pc' = AfterReset(i + 1)
  /\ UNCHANGED <<geom, drive, faulted, disk, lba, count, result, dataOut>>

DISK_Reset_Uncounted ==
  /\ pc = "reset"
  /\ pc' = "read"
  /\ faulted' = faulted \ {ResetDrive}
  /\ UNCHANGED <<geom, drive, disk, lba, count, i, result, dataOut>>

(* The other half of the body: DISK_Reset, and the end of the loop. *)
DISK_Reset ==
  /\ pc = "reset"
  /\ \/ /\ faulted' = faulted \ {ResetDrive}
        /\ i' = i + 1
        /\ pc' = AfterReset(i + 1)
        /\ UNCHANGED result
     \/ /\ result' = 1
        /\ pc' = "done"
        /\ UNCHANGED <<faulted, i>>
  /\ UNCHANGED <<geom, drive, disk, lba, count, dataOut>>

Next ==
  \/ DISK_Init
  \/ \E l \in Lbas, n \in Counts : DISK_ReadSectors(l, n)
  \/ ReadSucceeds
  \/ ReadFails
  \/ DISK_Reset

Spec == Init /\ [][Next]_vars

\* The loop is straight-line code and every BIOS call returns.
FairSpec ==
  Spec /\ WF_vars(ReadSucceeds \/ ReadFails) /\ WF_vars(DISK_Reset)

-----------------------------------------------------------------------------
(* Properties. *)

\* Types, and the DISK struct describes the drive once DISK_Init succeeded.
TypeOK ==
  /\ geom \in Geometries
  /\ drive \in Drives
  /\ faulted \subseteq Drives
  /\ pc \in {"off", "ready", "read", "reset", "done", "dead"}
  /\ disk = IF pc \in {"off", "dead"}
            THEN NoDisk
            ELSE [id |-> drive, cylinders |-> geom.cylinders,
                  heads |-> geom.heads, sectors |-> geom.sectors]
  /\ lba \in Lbas \cup {0}
  /\ count \in Counts \cup {0}
  /\ i \in 0 .. Attempts
  /\ result \in IF pc = "reset" THEN Errors ELSE Errors \cup {0, 1}
  /\ pc \in {"read", "reset"} => i < Attempts
  /\ pc \in {"read", "reset", "done"} =>
       lba \in Lbas /\ count \in Counts /\ InRange(lba, count)

\* A zero return from DISK_ReadSectors means the caller's buffer holds exactly
\* the sectors asked for: the LBA survives the division into C/H/S, the packing
\* into CH, CL and DH and the BIOS's reading of them, and no failed attempt is
\* ever reported as success.
SuccessMeansData ==
  pc = "done" /\ result = 0 => dataOut = [k \in 0 .. count - 1 |-> lba + k]

\* A second or third attempt is made only after the drive that failed has been
\* reset: DISK_Reset is asked to reset disk->id, and boot_disk_reset resets the
\* drive that diskReset16 left in DL.
RetryAfterReset == pc = "read" /\ i > 0 => disk.id \notin faulted

\* It holds for the drive number that diskReset16 passes on, whatever was asked for:
\* drive 0 for a stage 2 linked below 64 KiB, the floppy the image is made for.
Drive0RetryAfterReset == drive = ResetDrive => RetryAfterReset

\* The driver as fat.c sees it: one request, one answer, and the three-attempt
\* loop invisible and finite.
Device == INSTANCE BlockDevice WITH
  phase  <- IF pc \in {"read", "reset"} THEN "busy" ELSE pc,
  status <- IF pc = "done" THEN result ELSE -1,
  data   <- dataOut

\* DISK_Read, with its retries and resets, implements the block device: it answers every
\* request once, for the sectors asked for, and it does answer.
IsBlockDevice == Device!FairSpec
=============================================================================
