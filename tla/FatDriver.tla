----------------------------- MODULE FatDriver -----------------------------
(***************************************************************************)
(* The FAT12 driver of stage 2 (fat.c): FAT_Initialize, FAT_Open,          *)
(* FAT_Read and FAT_Close.  A step runs from one DISK_ReadSectors call to  *)
(* the next; the call itself is atomic and may fail (see BlockDevice).     *)
(*                                                                         *)
(* A sector's contents are its LBA: a buffer is the LBA it was filled      *)
(* from, and a byte is <<LBA, offset>>.  Directory sectors also have       *)
(* entries (vol.slots), which fill DirEntrySize bytes each.                *)
(***************************************************************************)
EXTENDS Fat12, FatName, FiniteSets

CONSTANTS
  Volumes,           \* volumes the boot drive may hold
  SECTOR_SIZE,
  DirEntrySize,      \* sizeof(FAT_DirectoryEntry)
  MAX_FILE_HANDLES,
  MaxFailures        \* bound on failed DISK_ReadSectors calls

ASSUME FatAssumption ==
  /\ SECTOR_SIZE \in Nat \ {0}
  /\ DirEntrySize \in Nat \ {0}
  /\ SECTOR_SIZE % DirEntrySize = 0
  /\ MAX_FILE_HANDLES \in Nat \ {0}
  /\ MaxFailures \in Nat

Root    == -1                          \* ROOT_DIRECTORY_HANDLE
NULL    == -2                          \* the NULL FAT_File*
Handles == 0 .. MAX_FILE_HANDLES - 1
Junk    == -1                          \* a buffer holding no one sector
NoEntry == [name |-> <<>>, dir |-> FALSE, first |-> 0, size |-> 0]

VARIABLES
  vol,             \* the volume (never changes)
  dataSectionLba,
  fd,              \* fatData->RootDirectory and fatData->OpenedFiles
  op,              \* what the driver is doing; "idle" between calls
  path, current,   \* FAT_Open: components left, directory being searched
  name, fatName,   \* FAT_Open: its buffer for a component; the name searched for
  target,          \* FAT_Open: the entry found
  ret,             \* FAT_Open: handle returned, or NULL
  io,              \* FAT_Read: the call in progress, or the last one
  failures,        \* number of failed DISK_ReadSectors calls
  tainted          \* handles whose file had a failed read since it was opened

names  == <<name, fatName>>
driver == <<vol, dataSectionLba, fd, op, path, current, names, target, ret, io,
            failures, tainted>>

\* FAT_FileData.  Below 0 a buffer's LBA stands for 2^32 more: cluster 0, an empty file's.
FileData == [Opened : BOOLEAN, IsDirectory : BOOLEAN, Position : Nat, Size : Nat,
             FirstCluster : Nat, CurrentCluster : Nat,
             CurrentSectorInCluster : Nat, Buffer : Int]

Closed == [Opened |-> FALSE, IsDirectory |-> FALSE, Position |-> 0, Size |-> 0,
           FirstCluster |-> 0, CurrentCluster |-> 0,
           CurrentSectorInCluster |-> 0, Buffer |-> Junk]

NoRead == [h |-> NULL, entry |-> NoEntry, from |-> 0, want |-> 0, n |-> 0,
           maxSector |-> 0, out |-> <<>>, clean |-> FALSE]

DriverInit ==
  /\ vol \in Volumes
  /\ dataSectionLba = 0
  /\ fd = [h \in Handles \cup {Root} |-> Closed]
  /\ op = "off"
  /\ path = <<>>
  /\ current = NULL
  /\ name = NoName
  /\ fatName = <<>>
  /\ target = NoEntry
  /\ ret = NULL
  /\ io = NoRead
  /\ failures = 0
  /\ tainted = {}

\* The variables of a FAT_Open or FAT_Read that has returned are dead; the next
\* call clears them.
ForgetNames == name' = NoName /\ fatName' = <<>>

ForgetOpen ==
  /\ ForgetNames
  /\ path' = <<>>
  /\ current' = NULL
  /\ target' = NoEntry
  /\ ret' = NULL

-----------------------------------------------------------------------------
(* Disk reads and layout. *)

\* Outcomes of reading one sector over a buffer; after a failure the buffer holds
\* its old contents, the new ones or a mixture.
DiskRead(old, lba) ==
  {[ok |-> TRUE, buf |-> lba]} \cup
  {[ok |-> FALSE, buf |-> b] :
     b \in IF failures < MaxFailures THEN {old, lba, Junk} ELSE {}}

Counted(ok) == failures' = failures + (IF ok THEN 0 ELSE 1)

RootDirLba  == vol.reserved + vol.sectorsPerFat * vol.fatCount
RootDirSize == DirEntrySize * vol.dirEntryCount

\* Faulty variant: the last, partly used root sector is not counted.
DataSectionLba_RoundedDown == RootDirLba + RootDirSize \div SECTOR_SIZE

DataSectionLba == RootDirLba + (RootDirSize + SECTOR_SIZE - 1) \div SECTOR_SIZE

FAT_ClusterToLba(cluster) ==
  dataSectionLba + (cluster - 2) * vol.sectorsPerCluster

-----------------------------------------------------------------------------
(* FAT_Initialize: boot sector, table, root directory. *)

ReadBootSector ==
  /\ op = "off"
  /\ \E r \in DiskRead(Junk, 0) :
       /\ op' = IF r.ok /\ vol.signature = 41 /\ FatFits(vol.bytesPerSector, vol.fatSectors)
                THEN "table" ELSE "failed"
       /\ Counted(r.ok)
  /\ UNCHANGED <<vol, dataSectionLba, fd, path, current, names, target, ret, io, tainted>>

ReadTable ==
  /\ op = "table"
  /\ \E r \in DiskRead(Junk, vol.reserved) :
       /\ op' = IF r.ok THEN "root" ELSE "failed"
       /\ Counted(r.ok)
  /\ UNCHANGED <<vol, dataSectionLba, fd, path, current, names, target, ret, io, tainted>>

RootFile(buf) ==
  [Opened |-> TRUE, IsDirectory |-> TRUE, Position |-> 0, Size |-> RootDirSize,
   FirstCluster |-> RootDirLba, CurrentCluster |-> RootDirLba,
   CurrentSectorInCluster |-> 0, Buffer |-> buf]

ReadRoot ==
  /\ op = "root"
  /\ \E r \in DiskRead(Junk, RootDirLba) :
       /\ fd' = [fd EXCEPT ![Root] = RootFile(r.buf)]
       /\ IF r.ok
          THEN op' = "idle" /\ dataSectionLba' = DataSectionLba
          ELSE op' = "failed" /\ UNCHANGED dataSectionLba
       /\ Counted(r.ok)
  /\ UNCHANGED <<vol, path, current, names, target, ret, io, tainted>>

-----------------------------------------------------------------------------
(* The loop of FAT_Read.  An iteration takes bytes from the buffer and, when *)
(* it used the buffer up, moves to the next sector.                          *)

\* Bytes FAT_Read will try to deliver; a subdirectory's size is 0 and no limit.
Limit(f, byteCount) ==
  IF (f.IsDirectory /\ f.Size = 0) \/ byteCount < f.Size - f.Position
  THEN byteCount ELSE f.Size - f.Position

\* Faulty variant: CurrentSectorInCluster is not reset at a cluster's end.
Advance_NoReset(f) ==
  IF f.CurrentSectorInCluster + 1 >= vol.sectorsPerCluster
  THEN [f EXCEPT !.CurrentSectorInCluster = @ + 1,
                 !.CurrentCluster = FAT_NextCluster(vol.table, @)]
  ELSE [f EXCEPT !.CurrentSectorInCluster = @ + 1]

Advance(f) ==
  IF f.CurrentSectorInCluster + 1 >= vol.sectorsPerCluster
  THEN [f EXCEPT !.CurrentSectorInCluster = 0,
                 !.CurrentCluster = FAT_NextCluster(vol.table, @)]
  ELSE [f EXCEPT !.CurrentSectorInCluster = @ + 1]

\* Faulty variant: the bar leaves out the sector being read.
NextFileSector_OffByOne(f, n, maxSector) ==
  LET g   == Advance(f)
      max == IF maxSector = 0 THEN n \div SECTOR_SIZE - 1 ELSE maxSector
      lba == FAT_ClusterToLba(g.CurrentCluster) + g.CurrentSectorInCluster
  IN  IF EndOfChain(g.CurrentCluster)
      THEN {[f |-> [g EXCEPT !.Size = g.Position], max |-> maxSector,
             status |-> "break", ok |-> TRUE]}
      ELSE {[f |-> [g EXCEPT !.Buffer = r.buf], max |-> max, ok |-> r.ok,
             status |-> IF ~r.ok THEN "break" ELSE IF max = 0 THEN "fault" ELSE "more"] :
             r \in DiskRead(f.Buffer, lba)}

\* The progress bar divides by maxSector.
NextFileSector(f, n, maxSector) ==
  LET g   == Advance(f)
      max == IF maxSector = 0 THEN n \div SECTOR_SIZE ELSE maxSector
      lba == FAT_ClusterToLba(g.CurrentCluster) + g.CurrentSectorInCluster
  IN  IF EndOfChain(g.CurrentCluster)
      THEN {[f |-> [g EXCEPT !.Size = g.Position], max |-> maxSector,
             status |-> "break", ok |-> TRUE]}
      ELSE {[f |-> [g EXCEPT !.Buffer = r.buf], max |-> max, ok |-> r.ok,
             status |-> IF ~r.ok THEN "break" ELSE IF max = 0 THEN "fault" ELSE "more"] :
             r \in DiskRead(f.Buffer, lba)}

NextRootSector(f, maxSector) ==
  {[f |-> [f EXCEPT !.CurrentCluster = @ + 1, !.Buffer = r.buf], max |-> maxSector,
    status |-> IF r.ok THEN "more" ELSE "break", ok |-> r.ok] :
    r \in DiskRead(f.Buffer, f.CurrentCluster + 1)}

\* One iteration with n > 0 bytes still wanted: the bytes taken and what follows.
Take(f, n) ==
  LET left == SECTOR_SIZE - (f.Position % SECTOR_SIZE)
  IN  IF n < left THEN n ELSE left

Bytes(f, n) ==
  [k \in 1 .. Take(f, n) |-> <<f.Buffer, (f.Position % SECTOR_SIZE) + k - 1>>]

Iterate(h, n, maxSector) ==
  LET f     == fd[h]
      moved == [f EXCEPT !.Position = @ + Take(f, n)]
  IN  IF moved.Position % SECTOR_SIZE # 0
      THEN {[f |-> moved, max |-> maxSector, status |-> "more", ok |-> TRUE]}
      ELSE IF h = Root THEN NextRootSector(moved, maxSector)
      ELSE NextFileSector(moved, n - Take(f, n), maxSector)

-----------------------------------------------------------------------------
(* FAT_Close *)

\* Faulty variants: the root is not rewound; a closed file keeps its handle.
Closed_NoRewind(h, f) == IF h = Root THEN f ELSE [f EXCEPT !.Opened = FALSE]
Closed_Leaks(h, f) ==
  IF h = Root THEN [f EXCEPT !.Position = 0, !.CurrentCluster = f.FirstCluster] ELSE f

\* The file data f of handle h after FAT_Close.  Root's buffer is not read again.
AfterClose(h, f) ==
  IF h = Root
  THEN [f EXCEPT !.Position = 0, !.CurrentCluster = f.FirstCluster]
  ELSE [f EXCEPT !.Opened = FALSE]

FAT_Close(h) ==
  /\ op = "idle"
  /\ fd' = [fd EXCEPT ![h] = AfterClose(h, fd[h])]
  /\ io' = NoRead
  /\ ForgetOpen
  /\ UNCHANGED <<vol, dataSectionLba, op, failures, tainted>>

-----------------------------------------------------------------------------
(* FAT_Open: a search and an open per path component. *)

\* Takes a component out of the path and converts it.  Behind the last component
\* name is not used any more.
NextName(old, component, isLast) ==
  \E r \in Leftovers(old, Len(component)) :
    LET extracted == Extracted(old, component, r)
    IN  /\ fatName' = FatNameOf(extracted)
        /\ name' = IF isLast THEN NoName ELSE extracted

FAT_Open(p) ==
  /\ op = "idle"
  /\ op' = "find"
  /\ NextName(NoName, p[1], Len(p) = 1)
  /\ path' = p
  /\ current' = Root
  /\ target' = NoEntry
  /\ ret' = NULL
  /\ io' = NoRead
  /\ UNCHANGED <<vol, dataSectionLba, fd, failures, tainted>>

\* The entry at the current position of a directory, as its buffer has it.
EntryAt(f) ==
  IF f.Buffer \in DOMAIN vol.slots
  THEN vol.slots[f.Buffer][(f.Position % SECTOR_SIZE) \div DirEntrySize + 1]
  ELSE NoEntry

\* Faulty variant: a search without result starts over.
SearchEnds_Retries(f, entry, found) ==
  /\ fd' = [fd EXCEPT ![current] = AfterClose(current, f)]
  /\ target' = entry
  /\ op' = IF found THEN "entry" ELSE "find"
  /\ UNCHANGED <<ret, names>>

\* What FAT_Open does with a search that ended: closes the directory, and opens
\* the entry or returns NULL.
SearchEnds(f, entry, found) ==
  LET goesOn == found /\ (Len(path) = 1 \/ entry.dir)
  IN  /\ fd' = [fd EXCEPT ![current] = AfterClose(current, f)]
      /\ target' = entry
      /\ IF goesOn
         THEN op' = "entry" /\ UNCHANGED <<ret, names>>
         ELSE op' = "idle" /\ ret' = NULL /\ ForgetNames

\* FAT_FindFile: one FAT_ReadEntry and its comparison.
FAT_FindFile ==
  /\ op = "find"
  /\ UNCHANGED <<vol, dataSectionLba, path, current, io>>
  /\ LET f == fd[current]
         n == Limit(f, DirEntrySize)
     IN  IF n = 0
         THEN /\ SearchEnds(f, NoEntry, FALSE)
              /\ UNCHANGED <<failures, tainted>>
         ELSE \E it \in Iterate(current, n, 0) :
                /\ Counted(it.ok)
                /\ tainted' = IF it.ok THEN tainted ELSE tainted \cup {current}
                /\ \/ /\ it.status # "fault"
                      /\ EntryAt(f).name = fatName
                      /\ SearchEnds(it.f, EntryAt(f), TRUE)
                   \/ /\ it.status # "fault"
                      /\ EntryAt(f).name # fatName
                      /\ fd' = [fd EXCEPT ![current] = it.f]
                      /\ UNCHANGED <<op, target, ret, names>>
                   \/ /\ it.status = "fault"
                      /\ op' = "fault"
                      /\ UNCHANGED <<fd, target, ret, names>>

\* Where FAT_Open goes on with what FAT_OpenEntry returned: to the caller, or to a
\* search of it, through the NULL pointer too.
OpenReturns(h) ==
  /\ path' = Tail(path)
  /\ current' = h
  /\ IF Len(path) = 1
     THEN op' = "idle" /\ ret' = h /\ ForgetNames
     ELSE /\ op' = IF h = NULL THEN "wild" ELSE "find"
          /\ NextName(name, path[2], Len(path) = 2)
          /\ UNCHANGED ret

FreeHandles == {h \in Handles : ~fd[h].Opened}

FAT_OpenEntry ==
  /\ op = "entry"
  /\ UNCHANGED <<vol, dataSectionLba, target, io>>
  /\ \/ /\ FreeHandles = {}
        /\ OpenReturns(NULL)
        /\ UNCHANGED <<fd, failures, tainted>>
     \/ LET h == CHOOSE g \in FreeHandles : \A k \in FreeHandles : g <= k
        IN  /\ FreeHandles # {}
            /\ \E r \in DiskRead(fd[h].Buffer, FAT_ClusterToLba(target.first)) :
                 /\ fd' = [fd EXCEPT ![h] =
                             [Opened |-> r.ok, IsDirectory |-> target.dir, Position |-> 0,
                              Size |-> target.size, FirstCluster |-> target.first,
                              CurrentCluster |-> target.first,
                              CurrentSectorInCluster |-> 0, Buffer |-> r.buf]]
                 /\ Counted(r.ok)
                 /\ OpenReturns(IF r.ok THEN h ELSE NULL)
            /\ tainted' = tainted \ {h}

-----------------------------------------------------------------------------
(* FAT_Read, called for an open file; file is the entry it was opened from. *)

FAT_Read(h, file, byteCount) ==
  /\ op = "idle"
  /\ op' = "read"
  /\ io' = [h |-> h, entry |-> file, from |-> fd[h].Position, want |-> byteCount,
            n |-> Limit(fd[h], byteCount), maxSector |-> 0, out |-> <<>>,
            clean |-> h \notin tainted]
  /\ ForgetOpen
  /\ UNCHANGED <<vol, dataSectionLba, fd, failures, tainted>>

ReadLoop ==
  /\ op = "read"
  /\ io.n > 0
  /\ \E it \in Iterate(io.h, io.n, io.maxSector) :
       /\ fd' = [fd EXCEPT ![io.h] = it.f]
       /\ io' = [io EXCEPT !.n = @ - Take(fd[io.h], @),
                           !.out = @ \o Bytes(fd[io.h], io.n),
                           !.maxSector = it.max,
                           !.clean = @ /\ it.ok]
       /\ op' = CASE it.status = "more" -> "read"
                  [] it.status = "break" -> "idle"
                  [] it.status = "fault" -> "fault"
       /\ Counted(it.ok)
       /\ tainted' = IF it.ok THEN tainted ELSE tainted \cup {io.h}
  /\ UNCHANGED <<vol, dataSectionLba, path, current, names, target, ret>>

ReadReturns ==
  /\ op = "read"
  /\ io.n = 0
  /\ op' = "idle"
  /\ UNCHANGED <<vol, dataSectionLba, fd, path, current, names, target, ret, io, failures, tainted>>

FAT_Initialize == ReadBootSector \/ ReadTable \/ ReadRoot

\* A step of the driver inside a call.
DriverStep ==
  \/ FAT_Initialize
  \/ FAT_FindFile
  \/ FAT_OpenEntry
  \/ ReadLoop
  \/ ReadReturns

-----------------------------------------------------------------------------
(* What the volume holds (external): the truth reads are compared with. *)

\* A file has a cluster for each of its bytes; a directory has a cluster and, as FAT
\* prescribes, the size 0.  The entries of the table link the clusters, and one from
\* 0xff8 on marks the last.
WellFormed(v, entry) ==
  LET chain == v.chains[entry.first]
  IN  /\ entry.dir \in BOOLEAN
      /\ {entry.first, entry.size} \subseteq Nat
      /\ entry.first \in DOMAIN v.chains
      /\ chain \in Seq(Nat)
      /\ entry.size <= Len(chain) * v.sectorsPerCluster * SECTOR_SIZE
      /\ entry.dir => entry.size = 0 /\ chain # <<>>
      /\ chain # <<>> => chain[1] = entry.first
      /\ \A k \in DOMAIN chain :
           /\ chain[k] \in DOMAIN v.entries /\ chain[k] < 4088
           /\ IF k = Len(chain) THEN v.entries[chain[k]] >= 4088
              ELSE v.entries[chain[k]] = chain[k + 1]

\* The table on the disk has the entries in FAT12's packed form.
TablePacked(v) ==
  /\ v.pairs \in Nat
  /\ v.entries \in [0 .. 2 * v.pairs - 1 -> Entry12]
  /\ v.table = Packed(v.entries, v.pairs)

\* The entries a path may find.
Listed(v) ==
  {entry \in UNION { {v.slots[l][k] : k \in DOMAIN v.slots[l]} : l \in DOMAIN v.slots } :
     entry.name # <<>>}

ASSUME VolumeAssumption ==
  \A v \in Volumes :
    /\ {v.reserved, v.sectorsPerFat, v.fatCount, v.dirEntryCount} \subseteq Nat
    /\ v.sectorsPerCluster \in Nat \ {0}
    /\ TablePacked(v)
    /\ \A l \in DOMAIN v.slots : DOMAIN v.slots[l] = 1 .. SECTOR_SIZE \div DirEntrySize
    /\ \A entry \in Listed(v) : WellFormed(v, entry)

\* The cluster area begins behind the sectors in which an entry of the root begins.
DataStart(v) ==
  v.reserved + v.fatCount * v.sectorsPerFat
    + Cardinality({k \in 0 .. v.dirEntryCount - 1 : (k * DirEntrySize) % SECTOR_SIZE = 0})

FirstDataLba == DataStart(vol)

\* Byte k of the file with this entry.
FileByte(entry, k) ==
  LET chain  == vol.chains[entry.first]
      sector == k \div SECTOR_SIZE
      spc    == vol.sectorsPerCluster
  IN  << FirstDataLba + (chain[(sector \div spc) + 1] - 2) * spc + (sector % spc),
         k % SECTOR_SIZE >>

FileBytes(entry, from, n) == [k \in 1 .. n |-> FileByte(entry, from + k - 1)]
=============================================================================
