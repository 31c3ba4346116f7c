------------------------------- MODULE Stage2 -------------------------------
(***************************************************************************)
(* cmain (stage2/main.c): opens the disk and the volume, loads kernel.bin  *)
(* in chunks of MEMORY_LOAD_SIZE through the load buffer and jumps to it.  *)
(* The driver's own steps are those of FatDriver, the steps that count the *)
(* memory blocks on the way those of MemDetect.                            *)
(***************************************************************************)
EXTENDS FatDriver, MemDetect

CONSTANTS Kernel,           \* the path it opens
          MEMORY_LOAD_SIZE

ASSUME Stage2Assumption ==
  /\ MEMORY_LOAD_SIZE \in Nat
  /\ MEMORY_LOAD_SIZE % SECTOR_SIZE = 0
  /\ MEMORY_LOAD_SIZE >= 2 * SECTOR_SIZE
  /\ Kernel \in Seq(Seq(STRING)) /\ Len(Kernel) = 1
  /\ Len(Kernel[1]) + 1 < MAX_PATH_SIZE

\* The names FAT_Open may search the root directory for.
KernelNames ==
  {FatNameOf(Extracted(NoName, Kernel[1], r)) : r \in Leftovers(NoName, Len(Kernel[1]))}

\* What mtools makes of the disk image: the kernel is no directory, and a file has
\* no more clusters than its bytes fill.
ASSUME ImageAssumption ==
  \A v \in Volumes : \A entry \in Listed(v) :
    LET clusterSize == v.sectorsPerCluster * SECTOR_SIZE
    IN  /\ entry.name \in KernelNames => ~entry.dir
        /\ ~entry.dir => Len(v.chains[entry.first]) * clusterSize < entry.size + clusterSize

VARIABLES
  pc,          \* "disk", "fat", "memory", "open", "opening", "load", "chunk", "close",
               \* "halt" or "kernel"
  kernelfd,    \* what FAT_Open returned
  kernelEntry, \* the directory entry it stands for
  mem          \* the bytes copied from MEMORY_KERNEL_ADDR on

loader == <<pc, kernelfd, kernelEntry, mem>>
vars   == <<driver, loader, detector>>

Init ==
  /\ DriverInit
  /\ DetectInit
  /\ pc = "disk"
  /\ kernelfd = NULL
  /\ kernelEntry = NoEntry
  /\ mem = <<>>

\* DISK_Init succeeds, or cmain returns 1 and init.asm halts.
OpenDisk ==
  /\ pc = "disk"
  /\ pc' \in {"fat", "halt"}
  /\ UNCHANGED <<driver, kernelfd, kernelEntry, mem, detector>>

\* Faulty variant: the result of FAT_Initialize is not tested.
OpenVolume_Unchecked ==
  /\ pc = "fat"
  /\ FAT_Initialize
  /\ pc' = IF op' \in {"failed", "idle"} THEN "memory" ELSE "fat"
  /\ UNCHANGED <<kernelfd, kernelEntry, mem, detector>>

\* FAT_Initialize, or another return 1.
OpenVolume ==
  /\ pc = "fat"
  /\ FAT_Initialize
  /\ pc' = CASE op' = "failed" -> "halt" [] op' = "idle" -> "memory" [] OTHER -> "fat"
  /\ UNCHANGED <<kernelfd, kernelEntry, mem, detector>>

\* MemDetect, with the count for bootParams; once its array is overrun nothing more
\* is said.
DetectMemory ==
  /\ pc = "memory"
  /\ Detect
  /\ pc' = IF detecting' = "done" THEN "open" ELSE "memory"
  /\ UNCHANGED <<driver, kernelfd, kernelEntry, mem>>

CallOpen ==
  /\ pc = "open"
  /\ FAT_Open(Kernel)
  /\ FrameLost
  /\ pc' = "opening"
  /\ UNCHANGED <<kernelfd, kernelEntry, mem, detecting, RegionCount>>

Opening ==
  /\ pc = "opening"
  /\ FAT_FindFile \/ FAT_OpenEntry
  /\ IF op' = "idle"
     THEN pc' = "load" /\ kernelfd' = ret' /\ kernelEntry' = target'
     ELSE UNCHANGED <<pc, kernelfd, kernelEntry>>
  /\ UNCHANGED <<mem, detector>>

\* The while loop's FAT_Read; it dereferences kernelfd as FAT_Open returned it.
CallRead ==
  /\ pc = "load"
  /\ kernelfd # NULL
  /\ FAT_Read(kernelfd, kernelEntry, MEMORY_LOAD_SIZE)
  /\ pc' = "chunk"
  /\ UNCHANGED <<kernelfd, kernelEntry, mem, detector>>

ReadThroughNull ==
  /\ pc = "load"
  /\ kernelfd = NULL
  /\ op' = "wild"
  /\ pc' = "chunk"
  /\ UNCHANGED <<vol, dataSectionLba, fd, path, current, names, target, ret, io, failures,
                 tainted, kernelfd, kernelEntry, mem, detector>>

\* Faulty variants: a short read ends the loop; nothing ends it.
Chunk_ShortEnds ==
  /\ pc = "chunk"
  /\ ReadLoop \/ ReadReturns
  /\ IF op' # "idle"
     THEN UNCHANGED <<pc, mem>>
     ELSE /\ mem' = mem \o io'.out
          /\ pc' = IF Len(io'.out) < MEMORY_LOAD_SIZE THEN "close" ELSE "load"
  /\ UNCHANGED <<kernelfd, kernelEntry, detector>>

Chunk_Endless ==
  /\ pc = "chunk"
  /\ ReadLoop \/ ReadReturns
  /\ IF op' # "idle"
     THEN UNCHANGED <<pc, mem>>
     ELSE mem' = mem \o io'.out /\ pc' = "load"
  /\ UNCHANGED <<kernelfd, kernelEntry, detector>>

\* FAT_Read, and once it returns the memcpy to the kernel's place.
Chunk ==
  /\ pc = "chunk"
  /\ ReadLoop \/ ReadReturns
  /\ IF op' # "idle"
     THEN UNCHANGED <<pc, mem>>
     ELSE /\ mem' = mem \o io'.out
          /\ pc' = IF io'.out = <<>> THEN "close" ELSE "load"
  /\ UNCHANGED <<kernelfd, kernelEntry, detector>>

\* FAT_Close and the jump.
StartKernel ==
  /\ pc = "close"
  /\ FAT_Close(kernelfd)
  /\ pc' = "kernel"
  /\ UNCHANGED <<kernelfd, kernelEntry, mem, detector>>

Next ==
  \/ OpenDisk
  \/ OpenVolume
  \/ DetectMemory
  \/ CallOpen
  \/ Opening
  \/ CallRead
  \/ ReadThroughNull
  \/ Chunk
  \/ StartKernel

Spec == Init /\ [][Next]_vars

\* One thread of straight-line code, interrupts off.
FairSpec == Spec /\ WF_vars(Next)

-----------------------------------------------------------------------------
(* Properties. *)

\* The loader and the driver agree on where they are: no driver call is in
\* progress while the loader is between calls, and none starts before the volume
\* is open.
TypeOK ==
  /\ DetectTypeOK
  /\ pc \in {"disk", "fat", "memory", "open", "opening", "load", "chunk", "close", "halt", "kernel"}
  /\ kernelfd \in Handles \cup {NULL}
  /\ pc \in {"memory", "open", "load", "close", "kernel"} => op = "idle"
  /\ pc = "fat" => op \in {"off", "table", "root"}
  /\ pc = "chunk" => op \in {"read", "fault", "wild"}
  /\ pc \in {"chunk", "close", "kernel"} /\ op # "wild" => kernelfd # NULL

Truth == FileBytes(kernelEntry, 0, kernelEntry.size)

\* With no failed read, the kernel is entered with exactly the file in memory,
\* however the file's clusters are scattered and whatever its size is modulo the
\* sector, the cluster and the load buffer.
LoadedImageCorrect == pc = "kernel" /\ failures = 0 => mem = Truth

\* cmain goes on after FAT_Read's "Read error!".  The image then still has the
\* file's length, and each failed read has spoilt at most the one sector.
DamageBounded ==
  pc = "kernel" =>
    /\ Len(mem) = kernelEntry.size
    /\ Cardinality({k \in DOMAIN mem : mem[k] # Truth[k]}) <= SECTOR_SIZE * failures

\* The last FAT_Read asks for r bytes.  It divides by zero in the progress bar
\* when less than one sector is left after its first one.
ShortTail(entry) ==
  LET r == ((entry.size - 1) % MEMORY_LOAD_SIZE) + 1
  IN  /\ entry.size > 0
      /\ \/ SECTOR_SIZE < r /\ r < 2 * SECTOR_SIZE
         \/ r = SECTOR_SIZE /\ entry.size % (vol.sectorsPerCluster * SECTOR_SIZE) # 0

\* Without failed reads the load ends in a divide error exactly for the files with
\* a short tail, and in the kernel for all others.
FaultIffShortTail ==
  failures = 0 =>
    /\ op = "fault" => ShortTail(kernelEntry)
    /\ pc = "kernel" => ~ShortTail(kernelEntry)

\* A kernel on a sound disk is loaded without a divide error.
NoDivideError == failures = 0 => op # "fault"

\* Loading ends: in the kernel, in a halt, or in one of the three crashes.
BootEnds ==
  <>(pc \in {"kernel", "halt"} \/ op \in {"fault", "wild"} \/ detecting = "overrun")
=============================================================================
