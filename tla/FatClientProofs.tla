--------------------------- MODULE FatClientProofs ---------------------------
(***************************************************************************)
(* The FAT driver under any sequence of legal calls, for every well-formed *)
(* volume, number of handles and number of failed reads: types, handles,   *)
(* buffers, that FAT_Read delivers the file's bytes, and that FAT_Open     *)
(* returns the file of its path.                                           *)
(***************************************************************************)
EXTENDS FatClient, FatDriverProofs

Opened == {h \in Handles : fd[h].Opened}

\* Handles taken are those the client holds, and in a search the directory's.
HandlesOK ==
  /\ op \in {"off", "table", "root", "idle", "entry", "read"} => Opened = held
  /\ op = "find" => /\ current \notin held
                    /\ Opened = held \cup ({current} \cap Handles)

\* A held handle stands where its position says, and unless a read of its sectors failed
\* its buffer holds the sector of its position.
HeldAt(h) ==
  /\ entryOf[h] \in Listed(vol)
  /\ fd[h].CurrentSectorInCluster < vol.sectorsPerCluster
  /\ fd[h].IsDirectory = entryOf[h].dir
  /\ ~entryOf[h].dir => /\ Tracks(fd[h], entryOf[h])
                        /\ h \notin tainted => Right(fd[h], entryOf[h])

HeldOK == \A h \in held : HeldAt(h)

CallOK ==
  /\ held \subseteq Handles
  /\ DOMAIN entryOf = Handles
  /\ op \in {"off", "table", "root"} => held = {}
  /\ op = "read" => io.h \in held /\ io.entry = entryOf[io.h]

ClientInv == DriverOK /\ HandlesOK /\ HeldOK /\ CallOK

-----------------------------------------------------------------------------

LEMMA ClientInit == Init => ClientInv
<1> SUFFICES ASSUME Init
             PROVE  ClientInv
  OBVIOUS
<1>1. DriverOK
  BY FatAssumption, InitiallyOK DEF Init
<1>2. Opened = {} /\ held = {} /\ op = "off"
  BY DEF Init, DriverInit, Opened, Closed
<1>3. DOMAIN entryOf = Handles
  BY DEF Init
<1>4. QED
  BY <1>1, <1>2, <1>3 DEF ClientInv, HandlesOK, HeldOK, CallOK

\* What no step touches of a held file stays as it was.
LEMMA HeldStays ==
  ASSUME vol' = vol, NEW h, HeldAt(h), fd'[h] = fd[h], entryOf'[h] = entryOf[h],
         h \in tainted => h \in tainted'
  PROVE  HeldAt(h)'
<1>1. Tracks(fd[h], entryOf[h])' <=> Tracks(fd[h], entryOf[h])
  <2>1. Tracks(fd'[h], entryOf'[h]) <=> Tracks(fd[h], entryOf[h])
    OBVIOUS
  <2>2. QED
    BY <2>1, VolumeKept
<1>2. Right(fd[h], entryOf[h])' <=> Right(fd[h], entryOf[h])
  <2>1. Right(fd'[h], entryOf'[h]) <=> Right(fd[h], entryOf[h])
    OBVIOUS
  <2>2. QED
    BY <2>1, VolumeKept
<1>3. QED
  BY <1>1, <1>2 DEF HeldAt

LEMMA OpenStep ==
  ASSUME ClientInv, NEW p \in Paths, Open(p)
  PROVE  ClientInv'
<1>1. DriverOK /\ HandlesOK /\ HeldOK /\ CallOK /\ FAT_Open(p)
  BY DEF ClientInv, Open
<1>2. p \in Seq(Seq(STRING)) /\ p # <<>>
  BY ClientAssumption DEF ClientAssumption
<1>3. DriverOK'
  BY <1>1, <1>2, FatAssumption, NameAssumption, OpenKeeps
<1>4. /\ op = "idle" /\ op' = "find" /\ current' = Root /\ vol' = vol /\ fd' = fd
      /\ tainted' = tainted /\ held' = held /\ entryOf' = entryOf
  BY <1>1 DEF FAT_Open, Open
<1>5. HandlesOK'
  <2>1. Opened' = held
    BY <1>1, <1>4 DEF HandlesOK, Opened
  <2>2. Root \notin Handles /\ held \subseteq Handles
    BY <1>1, FatAssumption, NotHandles DEF CallOK
  <2>3. QED
    BY <1>4, <2>1, <2>2 DEF HandlesOK
<1>6. HeldOK'
  BY <1>1, <1>4, HeldStays DEF HeldOK
<1>7. CallOK'
  BY <1>1, <1>4 DEF CallOK
<1>8. QED
  BY <1>3, <1>5, <1>6, <1>7 DEF ClientInv

LEMMA ReadStep ==
  ASSUME ClientInv, NEW h \in Handles, NEW n \in ReadSizes, Read(h, n)
  PROVE  ClientInv'
<1>1. /\ DriverOK /\ HandlesOK /\ HeldOK /\ CallOK
      /\ h \in held /\ ~fd[h].IsDirectory /\ FAT_Read(h, entryOf[h], n)
  BY DEF ClientInv, Read
<1>2. PICK e \in Listed(vol) : e = entryOf[h]
  BY <1>1 DEF HeldOK, HeldAt
<1>3. ~e.dir /\ Tracks(fd[h], e) /\ (h \notin tainted => Right(fd[h], e))
  BY <1>1, <1>2 DEF HeldOK, HeldAt
<1>4. n \in Nat
  BY ClientAssumption DEF ClientAssumption
<1>5. FAT_Read(h, e, n)
  BY <1>1, <1>2
<1>6. DriverOK'
  BY <1>1, <1>3, <1>4, <1>5, FatAssumption, VolumeAssumption, ReadKeeps
<1>7. /\ op = "idle" /\ op' = "read" /\ io'.h = h /\ io'.entry = e /\ vol' = vol /\ fd' = fd
      /\ tainted' = tainted /\ held' = held /\ entryOf' = entryOf
  BY <1>5 DEF FAT_Read, Read
<1>8. HandlesOK'
  BY <1>1, <1>7 DEF HandlesOK, Opened
<1>9. HeldOK'
  BY <1>1, <1>7, HeldStays DEF HeldOK
<1>10. CallOK'
  BY <1>1, <1>2, <1>7 DEF CallOK
<1>11. QED
  BY <1>6, <1>8, <1>9, <1>10 DEF ClientInv

LEMMA CloseStep ==
  ASSUME ClientInv, NEW h \in Handles, Close(h)
  PROVE  ClientInv'
<1>1. DriverOK /\ HandlesOK /\ HeldOK /\ CallOK /\ FAT_Close(h)
  BY DEF ClientInv, Close
<1>2. DriverOK' /\ (\E f \in FileData : f.Opened = FALSE /\ fd' = [fd EXCEPT ![h] = f])
  BY <1>1, FatAssumption, CloseKeeps
<1>3. PICK f \in FileData : f.Opened = FALSE /\ fd' = [fd EXCEPT ![h] = f]
  BY <1>2
<1>4. /\ op = "idle" /\ op' = "idle" /\ vol' = vol /\ tainted' = tainted
      /\ held' = held \ {h} /\ entryOf' = [entryOf EXCEPT ![h] = NoEntry]
  BY DEF FAT_Close, Close
<1>5. fd'[h] = f /\ (\A k \in Handles \ {h} : fd'[k] = fd[k] /\ entryOf'[k] = entryOf[k])
  BY <1>1, <1>3, <1>4 DEF DriverOK, DriverTypes, CallOK
<1>6. HandlesOK'
  <2>1. Opened = held
    BY <1>1, <1>4 DEF HandlesOK
  <2>2. \A k \in Handles : fd'[k].Opened <=> k # h /\ fd[k].Opened
    BY <1>3, <1>5
  <2>3. Opened' = held'
    BY <1>4, <2>1, <2>2 DEF Opened
  <2>4. QED
    BY <1>4, <2>3 DEF HandlesOK
<1>7. HeldOK'
  BY <1>1, <1>4, <1>5, HeldStays DEF HeldOK, CallOK
<1>8. CallOK'
  BY <1>1, <1>4 DEF CallOK
<1>9. QED
  BY <1>2, <1>6, <1>7, <1>8 DEF ClientInv

-----------------------------------------------------------------------------
(* Steps inside a call. *)

LEMMA InitializeStep ==
  ASSUME ClientInv, Step, FAT_Initialize
  PROVE  HandlesOK' /\ HeldOK' /\ CallOK'
<1>1. DriverOK /\ HandlesOK /\ HeldOK /\ CallOK
  BY DEF ClientInv
<1>2. /\ op \in {"off", "table", "root"}
      /\ op' \in {"table", "root", "idle", "failed"}
      /\ \A h \in Handles : fd'[h] = fd[h]
      /\ UNCHANGED <<vol, tainted>>
  BY <1>1, FatAssumption, VolumeAssumption, InitializeKeeps
<1>3. held' = held /\ entryOf' = entryOf /\ held = {}
  BY <1>1, <1>2 DEF Step, CallOK
<1>4. Opened' = Opened /\ Opened = held
  BY <1>1, <1>2 DEF Opened, HandlesOK
<1>5. QED
  BY <1>1, <1>2, <1>3, <1>4 DEF HandlesOK, HeldOK, CallOK

LEMMA FindStep ==
  ASSUME ClientInv, Step, FAT_FindFile
  PROVE  HandlesOK' /\ HeldOK' /\ CallOK'
<1>1. DriverOK /\ HandlesOK /\ HeldOK /\ CallOK /\ op = "find"
  BY DEF ClientInv, FAT_FindFile
<1>2. vol' = vol /\ current' = current /\ held' = held /\ entryOf' = entryOf
  BY <1>1 DEF FAT_FindFile, Step
<1>3. PICK f \in FileData :
           /\ f.Opened = fd[current].Opened
           /\ current = Root => f.IsDirectory = TRUE /\ (f.Size = 0 \/ f.Position <= f.Size)
           /\ current = Root => f.Size = fd[Root].Size /\ f.FirstCluster = fd[Root].FirstCluster
           /\ current # Root => TracksDir(f, target)
           /\ \/ /\ op' \in {"idle", "entry"}
                 /\ fd' = [fd EXCEPT ![current] = AfterClose(current, f)]
                 /\ op' = "entry" => /\ target' \in Listed(vol) /\ target'.name = fatName
                                     /\ Len(path) = 1 \/ target'.dir
                 /\ op' = "idle" => ret' = NULL
                 /\ ret' \in {ret, NULL}
              \/ /\ op' = "find"
                 /\ fd' = [fd EXCEPT ![current] = f]
                 /\ UNCHANGED <<target, ret, names>>
              \/ /\ op' = "fault" /\ current # Root
                 /\ UNCHANGED <<fd, ret>>
           /\ failures' \in 0 .. MaxFailures
           /\ tainted' \in {tainted, tainted \cup {current}}
  BY <1>1, FatAssumption, VolumeAssumption, FindOutcome
<1>4. /\ current \notin held /\ held \subseteq Handles
      /\ Opened = held \cup ({current} \cap Handles)
      /\ current \in Handles \cup {Root}
      /\ fd \in [Handles \cup {Root} -> FileData]
  BY <1>1 DEF HandlesOK, CallOK, DriverOK, DriverTypes, InCall, Searching
<1>5. PICK g \in FileData : /\ g = AfterClose(current, f)
                            /\ current # Root => g.Opened = FALSE
  BY ClosedData
<1>6. \A k \in Handles \ {current} : fd'[k] = fd[k]
  BY <1>3, <1>4
<1>7. HeldOK'
  BY <1>1, <1>2, <1>3, <1>4, <1>6, HeldStays DEF HeldOK
<1>8. CallOK'
  BY <1>1, <1>2, <1>3 DEF CallOK
<1>9. HandlesOK'
  <2>1. CASE op' \in {"idle", "entry"}
    <3>1. fd'[current] = g
      BY <1>3, <1>4, <1>5, <2>1
    <3>2. current \in Handles => fd'[current].Opened = FALSE
      BY <1>5, <3>1, FatAssumption, NotHandles
    <3>3. Opened' = held
      BY <1>4, <1>6, <3>2 DEF Opened
    <3>4. QED
      BY <1>2, <2>1, <3>3 DEF HandlesOK
  <2>2. CASE op' = "find"
    <3>1. fd'[current] = f
      BY <1>3, <1>4, <2>2
    <3>2. \A k \in Handles : fd'[k].Opened = fd[k].Opened
      BY <1>3, <1>6, <3>1
    <3>3. Opened' = Opened
      BY <3>2 DEF Opened
    <3>4. QED
      BY <1>2, <1>4, <2>2, <3>3 DEF HandlesOK
  <2>3. CASE op' = "fault"
    BY <2>3 DEF HandlesOK
  <2>4. QED
    BY <1>3, <2>1, <2>2, <2>3
<1>10. QED
  BY <1>7, <1>8, <1>9

LEMMA EntryStep ==
  ASSUME ClientInv, Step, FAT_OpenEntry
  PROVE  HandlesOK' /\ HeldOK' /\ CallOK'
<1>1. DriverOK /\ HandlesOK /\ HeldOK /\ CallOK /\ op = "entry" /\ Found
  BY DEF ClientInv, FAT_OpenEntry, DriverOK, InCall
<1>2. vol' = vol /\ target' = target
  BY DEF FAT_OpenEntry
<1>3. /\ held \subseteq Handles /\ Opened = held /\ DOMAIN entryOf = Handles
      /\ fd \in [Handles \cup {Root} -> FileData]
  BY <1>1 DEF HandlesOK, CallOK, DriverOK, DriverTypes
<1>4. NULL \notin Handles
  BY FatAssumption, NotHandles
<1>5. IF op' = "idle" /\ ret' # NULL
      THEN /\ held' = held \cup {ret'}
           /\ entryOf' = [entryOf EXCEPT ![ret'] = target]
      ELSE held' = held /\ entryOf' = entryOf
  BY <1>1 DEF Step
<1>6. ASSUME NEW h, OpenReturns(h)
      PROVE  /\ current' = h
             /\ \/ op' = "idle" /\ ret' = h
                \/ op' = "wild" /\ h = NULL
                \/ op' = "find" /\ h # NULL
  BY <1>6 DEF OpenReturns
<1>7. CASE /\ OpenReturns(NULL) /\ Opened' = Opened
           /\ \A k \in held : fd'[k] = fd[k] /\ (k \in tainted => k \in tainted')
  <2>1. op' \in {"idle", "wild"} /\ (op' = "idle" => ret' = NULL)
    BY <1>6, <1>7
  <2>2. held' = held /\ entryOf' = entryOf
    BY <1>5, <2>1
  <2>3. HeldOK'
    BY <1>1, <1>2, <1>7, <2>2, HeldStays DEF HeldOK
  <2>4. QED
    BY <1>1, <1>3, <1>7, <2>1, <2>2, <2>3 DEF HandlesOK, CallOK
<1>8. ASSUME NEW h \in Handles, NEW f \in FileData, ~fd[h].Opened, fd' = [fd EXCEPT ![h] = f],
             tainted' = tainted \ {h}, f.Opened = TRUE, OpenReturns(h),
             f.IsDirectory = target.dir, f.CurrentSectorInCluster = 0,
             ~target.dir => Tracks(f, target) /\ Right(f, target)
      PROVE  HandlesOK' /\ HeldOK' /\ CallOK'
  <2>1. h \notin held /\ h # NULL
    BY <1>3, <1>4, <1>8 DEF Opened
  <2>2. fd'[h] = f /\ (\A k \in Handles \ {h} : fd'[k] = fd[k])
    BY <1>3, <1>8
  <2>3. Opened' = held \cup {h}
    BY <1>3, <1>8, <2>2 DEF Opened
  <2>4. current' = h /\ ((op' = "idle" /\ ret' = h) \/ op' = "find")
    BY <1>6, <1>8, <2>1
  <2>5. ASSUME NEW k \in held, k \in held', entryOf'[k] = entryOf[k]
        PROVE  HeldAt(k)'
    BY <1>1, <1>2, <1>3, <1>8, <2>1, <2>2, <2>5, HeldStays DEF HeldOK
  <2>6. CASE op' = "idle" /\ ret' = h
    <3>1. held' = held \cup {h} /\ entryOf' = [entryOf EXCEPT ![h] = target]
      BY <1>5, <2>1, <2>6
    <3>2. entryOf'[h] = target /\ (\A k \in held : entryOf'[k] = entryOf[k])
      BY <1>3, <2>1, <3>1
    <3>3. HeldAt(h)'
      <4>1. target \in Listed(vol)
        BY <1>1 DEF Found
      <4>2. 0 < vol.sectorsPerCluster
        <5>1. vol \in Volumes
          BY <1>1 DEF DriverOK, DriverTypes
        <5>2. vol.sectorsPerCluster \in Nat \ {0}
          BY <4>1, <5>1, VolumeAssumption, ChainFacts
        <5>3. QED
          BY <5>2
      <4>3. ~entryOf'[h].dir => Tracks(fd'[h], entryOf'[h]) /\ Right(fd'[h], entryOf'[h])
        BY <1>8, <2>2, <3>2
      <4>4. ~entryOf'[h].dir => Tracks(fd[h], entryOf[h])' /\ Right(fd[h], entryOf[h])'
        BY <1>2, <4>3, VolumeKept
      <4>5. QED
        BY <1>2, <1>8, <2>2, <3>2, <4>1, <4>2, <4>4 DEF HeldAt
    <3>4. HeldOK'
      BY <2>5, <3>1, <3>2, <3>3 DEF HeldOK
    <3>5. QED
      BY <1>3, <2>3, <2>6, <3>1, <3>4 DEF HandlesOK, CallOK
  <2>7. CASE op' = "find"
    <3>1. held' = held /\ entryOf' = entryOf
      BY <1>5, <2>7
    <3>2. HeldOK'
      BY <2>5, <3>1 DEF HeldOK
    <3>3. HandlesOK'
      BY <2>1, <2>3, <2>4, <2>7, <3>1 DEF HandlesOK
    <3>4. CallOK'
      BY <1>1, <1>3, <2>7, <3>1 DEF CallOK
    <3>5. QED
      BY <3>2, <3>3, <3>4
  <2>8. QED
    BY <2>4, <2>6, <2>7
<1>9. CASE UNCHANGED <<fd, failures, tainted>> /\ OpenReturns(NULL)
  <2>1. Opened' = Opened
    BY <1>9 DEF Opened
  <2>2. QED
    BY <1>7, <1>9, <2>1
<1>10. ASSUME NEW h \in Handles, NEW f \in FileData, ~fd[h].Opened, fd' = [fd EXCEPT ![h] = f],
             tainted' = tainted \ {h}, f.Opened = FALSE, OpenReturns(NULL)
       PROVE  HandlesOK' /\ HeldOK' /\ CallOK'
  <2>1. fd'[h] = f /\ (\A k \in Handles \ {h} : fd'[k] = fd[k])
    BY <1>3, <1>10
  <2>2. h \notin held
    BY <1>3, <1>10 DEF Opened
  <2>3. Opened' = Opened
    BY <1>10, <2>1 DEF Opened
  <2>4. \A k \in held : fd'[k] = fd[k] /\ (k \in tainted => k \in tainted')
    BY <1>3, <1>10, <2>1, <2>2
  <2>5. QED
    BY <1>7, <1>10, <2>3, <2>4
<1>11. QED
  BY <1>1, <1>8, <1>9, <1>10, FatAssumption, VolumeAssumption, EntryOutcome

LEMMA LoopStep ==
  ASSUME ClientInv, Step, ReadLoop
  PROVE  HandlesOK' /\ HeldOK' /\ CallOK'
<1>1. DriverOK /\ HandlesOK /\ HeldOK /\ CallOK /\ op = "read" /\ Reading
  BY DEF ClientInv, ReadLoop, DriverOK, InCall
<1>2. vol' = vol /\ held' = held /\ entryOf' = entryOf
  BY <1>1 DEF ReadLoop, Step
<1>3. PICK f \in FileData, t \in Nat \ {0}, ok \in BOOLEAN :
           /\ fd' = [fd EXCEPT ![io.h] = f]
           /\ f.Opened = fd[io.h].Opened
           /\ Tracks(f, io.entry)
           /\ failures' \in 0 .. MaxFailures
           /\ failures' = failures + (IF ok THEN 0 ELSE 1)
           /\ tainted' = IF ok THEN tainted ELSE tainted \cup {io.h}
           /\ Right(fd[io.h], io.entry) /\ ok => Right(f, io.entry)
           /\ f.Position % SECTOR_SIZE = 0 /\ ok => Right(f, io.entry)
           /\ f.Position % SECTOR_SIZE # 0 => ok
           /\ op' \in {"read", "idle", "fault"}
           /\ op' = "idle" /\ ok => f.Position = io.entry.size
           /\ t = Take(fd[io.h], io.n) /\ t <= io.n
           /\ f.Position = fd[io.h].Position + t
           /\ io' \in Transfers
           /\ io'.h = io.h /\ io'.entry = io.entry /\ io'.from = io.from /\ io'.want = io.want
           /\ io'.n = io.n - t
           /\ io'.out = io.out \o Bytes(fd[io.h], io.n)
           /\ io'.clean = (io.clean /\ ok)
  BY <1>1, FatAssumption, VolumeAssumption, LoopOutcome
<1>4. PICK h \in Handles, e \in Listed(vol) : h = io.h /\ e = io.entry /\ ~e.dir
  BY <1>1 DEF Reading, Transfers
<1>5. h \in held /\ e = entryOf[h] /\ held \subseteq Handles
  BY <1>1, <1>4 DEF CallOK
<1>6. fd'[h] = f /\ (\A k \in Handles \ {h} : fd'[k] = fd[k])
  BY <1>1, <1>3, <1>4 DEF DriverOK, DriverTypes
<1>7. HandlesOK'
  <2>1. \A k \in Handles : fd'[k].Opened = fd[k].Opened
    BY <1>3, <1>4, <1>6
  <2>2. Opened' = Opened /\ Opened = held
    BY <1>1, <2>1 DEF Opened, HandlesOK
  <2>3. QED
    BY <1>2, <1>3, <2>2 DEF HandlesOK
<1>8. HeldAt(h)'
  <2>1. HeldAt(h)
    BY <1>1, <1>5 DEF HeldOK
  <2>2. h \notin tainted' => h \notin tainted /\ ok
    BY <1>3, <1>4
  <2>3. Tracks(fd'[h], entryOf'[h]) /\ (h \notin tainted' => Right(fd'[h], entryOf'[h]))
    BY <1>2, <1>3, <1>4, <1>5, <1>6, <2>1, <2>2 DEF HeldAt
  <2>4. Tracks(fd[h], entryOf[h])' /\ (h \notin tainted' => Right(fd[h], entryOf[h])')
    BY <1>2, <2>3, VolumeKept
  <2>5. /\ fd'[h].CurrentSectorInCluster < vol.sectorsPerCluster
        /\ fd'[h].IsDirectory = FALSE
    BY <1>3, <1>4, <1>6 DEF Tracks, FileData
  <2>6. entryOf'[h] = e /\ e.dir = FALSE
    <3>1. e.dir \in BOOLEAN
      BY <1>1, VolumeAssumption, ChainFacts DEF DriverOK, DriverTypes
    <3>2. QED
      BY <1>2, <1>4, <1>5, <3>1
  <2>7. QED
    BY <1>2, <2>4, <2>5, <2>6 DEF HeldAt
<1>9. HeldOK'
  <2>1. ASSUME NEW k \in held, k # h
        PROVE  HeldAt(k)'
    BY <1>1, <1>2, <1>3, <1>4, <1>5, <1>6, <2>1, HeldStays DEF HeldOK
  <2>2. QED
    BY <1>2, <1>8, <2>1 DEF HeldOK
<1>10. CallOK'
  BY <1>1, <1>2, <1>3 DEF CallOK
<1>11. QED
  BY <1>7, <1>9, <1>10

LEMMA ReturnStep ==
  ASSUME ClientInv, Step, ReadReturns
  PROVE  HandlesOK' /\ HeldOK' /\ CallOK'
<1>1. HandlesOK /\ HeldOK /\ CallOK /\ op = "read" /\ op' = "idle"
  BY DEF ClientInv, ReadReturns
<1>2. /\ vol' = vol /\ held' = held /\ entryOf' = entryOf /\ fd' = fd /\ tainted' = tainted
  BY <1>1 DEF ReadReturns, Step
<1>3. HeldOK'
  BY <1>1, <1>2, HeldStays DEF HeldOK
<1>4. QED
  BY <1>1, <1>2, <1>3 DEF HandlesOK, Opened, CallOK

\* Calls between which nothing happens.
LEMMA Stutter ==
  ASSUME ClientInv, UNCHANGED vars
  PROVE  ClientInv'
<1>1. UNCHANGED <<vol, fd, op, current, io, tainted, held, entryOf>> /\ UNCHANGED driver
  BY DEF vars, driver, client
<1>2. DriverOK'
  BY <1>1, DriverStays DEF ClientInv
<1>3. HeldOK'
  BY <1>1, HeldStays DEF ClientInv, HeldOK
<1>4. HandlesOK' /\ CallOK'
  BY <1>1 DEF ClientInv, HandlesOK, Opened, CallOK
<1>5. QED
  BY <1>2, <1>3, <1>4 DEF ClientInv

LEMMA ClientNext ==
  ASSUME ClientInv, [Next]_vars
  PROVE  ClientInv'
<1>1. CASE Step
  <2>1. DriverOK'
    BY <1>1, FatAssumption, VolumeAssumption, NameAssumption, StepKeeps DEF ClientInv, Step
  <2>2. HandlesOK' /\ HeldOK' /\ CallOK'
    BY <1>1, InitializeStep, FindStep, EntryStep, LoopStep, ReturnStep DEF Step, DriverStep
  <2>3. QED
    BY <2>1, <2>2 DEF ClientInv
<1>2. QED
  BY <1>1, OpenStep, ReadStep, CloseStep, Stutter DEF Next

LEMMA ClientInvariant == Spec => []ClientInv
<1>1. Init => ClientInv
  BY ClientInit
<1>2. ClientInv /\ [Next]_vars => ClientInv'
  BY ClientNext
<1>3. QED
  BY <1>1, <1>2, PTL DEF Spec

-----------------------------------------------------------------------------
(* What a path's component becomes. *)

Letters == {toupper(c) : c \in STRING} \cup {" "}

LEMMA PaddedIs ==
  ASSUME NEW s \in Seq(STRING), NEW n \in Nat
  PROVE  /\ Padded(s, n) \in Seq(Letters)
         /\ Len(Padded(s, n)) = n
         /\ \A i \in 1 .. n : /\ i <= Len(s) => Padded(s, n)[i] = toupper(s[i])
                              /\ i > Len(s) => Padded(s, n)[i] = " "
<1>1. \A i \in 1 .. n : (IF i <= Len(s) THEN toupper(s[i]) ELSE " ") \in Letters
  <2> SUFFICES ASSUME NEW i \in 1 .. n, i <= Len(s)
               PROVE  toupper(s[i]) \in Letters
    BY DEF Letters
  <2>1. s[i] \in STRING
    OBVIOUS
  <2>2. QED
    BY <2>1 DEF Letters
<1>2. Padded(s, n) \in [1 .. n -> Letters]
  BY <1>1 DEF Padded
<1>3. Padded(s, n) \in Seq(Letters) /\ Len(Padded(s, n)) = n
  BY <1>2
<1>4. ASSUME NEW i \in 1 .. n
      PROVE  /\ i <= Len(s) => Padded(s, n)[i] = toupper(s[i])
             /\ i > Len(s) => Padded(s, n)[i] = " "
  <2>1. Padded(s, n)[i] = IF i <= Len(s) THEN toupper(s[i]) ELSE " "
    BY DEF Padded
  <2>2. ~(i > Len(s)) \/ ~(i <= Len(s))
    OBVIOUS
  <2>3. QED
    BY <2>1, <2>2
<1>5. QED
  BY <1>3, <1>4

Whole(short, n) == short = [i \in 1 .. n |-> short[i]]
Base(short, base, b) ==
  \A i \in 1 .. b : /\ i <= Len(base) => short[i] = toupper(base[i])
                    /\ i > Len(base) => short[i] = " "
Extension(short, b, ext, x) ==
  \A i \in 1 .. x : /\ i <= Len(ext) => short[b + i] = toupper(ext[i])
                    /\ i > Len(ext) => short[b + i] = " "
Joins(short, base, b, ext, x) == short = Padded(base, b) \o Padded(ext, x)

\* A directory entry's form of a name: its base, then its extension.
LEMMA ShortNameIs ==
  ASSUME NEW b \in Nat, NEW x \in Nat, NEW base \in Seq(STRING), NEW ext \in Seq(STRING),
         NEW short, Joins(short, base, b, ext, x)
  PROVE  /\ Whole(short, b + x)
         /\ Base(short, base, b)
         /\ Extension(short, b, ext, x)
<1>2. PICK s \in Seq(Letters) : s = Padded(base, b)
  BY PaddedIs
<1>3. PICK t \in Seq(Letters) : t = Padded(ext, x)
  BY PaddedIs
<1>4. Len(s) = b /\ Len(t) = x
  BY <1>2, <1>3, PaddedIs
<1>5. /\ s \o t \in Seq(Letters) /\ Len(s \o t) = b + x
      /\ \A i \in 1 .. b : (s \o t)[i] = s[i]
  <2>1. s \o t \in Seq(Letters) /\ Len(s \o t) = b + x
    BY <1>4, ConcatProperties
  <2>2. ASSUME NEW i \in 1 .. b
        PROVE  (s \o t)[i] = s[i]
    BY <1>4
  <2>3. QED
    BY <2>1, <2>2
<1>6. \A i \in 1 .. x : (s \o t)[b + i] = t[i]
  <2> SUFFICES ASSUME NEW i \in 1 .. x
               PROVE  (s \o t)[b + i] = t[i]
    OBVIOUS
  <2>1. PICK j \in Int : j = b + i /\ j - b = i /\ b < j /\ j <= b + x
    OBVIOUS
  <2>2. (s \o t)[j] = t[j - b]
    BY <1>4, <2>1, ConcatProperties
  <2>3. QED
    BY <2>1, <2>2
<1>7. \A i \in 1 .. b : /\ i <= Len(base) => s[i] = toupper(base[i])
                        /\ i > Len(base) => s[i] = " "
  BY <1>2, PaddedIs
<1>8. \A i \in 1 .. x : /\ i <= Len(ext) => t[i] = toupper(ext[i])
                        /\ i > Len(ext) => t[i] = " "
  BY <1>3, PaddedIs
<1>9. s \o t = [i \in 1 .. b + x |-> (s \o t)[i]]
  <2>1. s \o t \in [1 .. b + x -> Letters]
    <3>1. \A u \in Seq(Letters) : u \in [1 .. Len(u) -> Letters]
      OBVIOUS
    <3>2. QED
      BY <1>5, <3>1
  <2>2. \A u \in [1 .. b + x -> Letters] : u = [i \in 1 .. b + x |-> u[i]]
    OBVIOUS
  <2>3. QED
    BY <2>1, <2>2
<1>10. short = s \o t
  BY <1>2, <1>3 DEF Joins
<1>11. \A i \in 1 .. b : short[i] = s[i]
  BY <1>5, <1>10
<1>12. \A i \in 1 .. x : short[b + i] = t[i]
  BY <1>6, <1>10
<1>13. Whole(short, b + x)
  BY <1>9, <1>10 DEF Whole
<1>14. QED
  BY <1>7, <1>8, <1>11, <1>12, <1>13, Zenon DEF Base, Extension

\* FAT_Open's terminator one byte too far does not change a settled name.
LEMMA ConvertsName ==
  ASSUME NameAssumption, NEW old, NEW component \in Seq(STRING), NEW r,
         \A i \in DOMAIN component : component[i] # "NUL", Settled(component)
  PROVE  FatNameOf(Extracted(old, component, r)) = ShortName(component)
<1>1. PICK b \in Nat, x \in Nat, m \in Nat : /\ b = BASE /\ x = EXT /\ b > 0 /\ x > 0
                                           /\ m = MAX_PATH_SIZE - 1 /\ m >= b + x + 2
  BY DEF NameAssumption
<1>2. PICK len \in Nat : len = Len(component)
  BY LenProperties
<1>3. DOMAIN component = 1 .. len
  BY <1>2
<1>4. PICK e : e = Extracted(old, component, r)
  OBVIOUS
<1>5. \A i \in 0 .. b + x + 1 :
        /\ i < len => e[i] = component[i + 1]
        /\ i = len => e[i] = r
        /\ i = len + 1 => e[i] = "NUL"
  BY <1>1, <1>2, <1>4 DEF Extracted, NameBytes
<1> DEFINE dots == {i \in 0 .. b + x + 1 : Reaches(e, 0, i) /\ e[i] = "."}
<1>6. Ext(e) = IF dots = {} THEN b + x ELSE CHOOSE i \in dots : \A j \in dots : i <= j
  <2>1. len <= b + x + 1
    <3>1. CASE Dots(component) = {}
      BY <1>1, <1>2, <3>1 DEF Settled
    <3>2. CASE Dots(component) # {}
      <4>1. PICK dot \in Dots(component) : len - dot = x /\ dot <= b + 1
        BY <1>1, <1>2, <3>2 DEF Settled
      <4>2. dot \in 1 .. len
        BY <1>3, <4>1 DEF Dots
      <4>3. QED
        BY <4>1, <4>2
    <3>3. QED
      BY <3>1, <3>2
  <2>2. e[len + 1] = "NUL"
    <3>1. len + 1 \in NameBytes /\ ~(len + 1 < len) /\ len + 1 # len
      BY <1>1, <2>1 DEF NameBytes
    <3>2. QED
      BY <1>2, <1>4, <3>1 DEF Extracted
  <2> DEFINE all == {i \in NameBytes : Reaches(e, 0, i) /\ e[i] = "."}
  <2>3. dots = all
    <3>1. ASSUME NEW i \in NameBytes, Reaches(e, 0, i)
          PROVE  i \in 0 .. b + x + 1
      <4>1. i \in Nat
        BY <1>1, <3>1 DEF NameBytes
      <4>2. len + 1 \notin 0 .. i
        BY <2>2, <3>1 DEF Reaches
      <4>3. QED
        BY <2>1, <4>1, <4>2
    <3>2. 0 .. b + x + 1 \subseteq NameBytes
      BY <1>1 DEF NameBytes
    <3>3. QED
      BY <3>1, <3>2
  <2>4. Ext(e) = IF all = {} THEN BASE + EXT ELSE CHOOSE i \in all : \A j \in all : i <= j
    BY DEF Ext
  <2>5. BASE + EXT = b + x
    BY <1>1
  <2> HIDE DEF dots, all
  <2>6. QED
    BY <2>3, <2>4, <2>5, Zenon
<1>7. FatNameOf(e) =
        [i \in 1 .. b + x |->
           IF i <= b
           THEN IF Reaches(e, 0, i - 1) /\ i - 1 < Ext(e) THEN toupper(e[i - 1]) ELSE " "
           ELSE IF Ext(e) # b + x /\ Reaches(e, Ext(e) + 1, Ext(e) + i - b)
                THEN toupper(e[Ext(e) + i - b]) ELSE " "]
  BY <1>1 DEF FatNameOf
<1>8. \A i \in Nat : i < len /\ i <= b + x + 1 => \A j \in 0 .. i : e[j] # "NUL"
  <2> SUFFICES ASSUME NEW i \in Nat, i < len, i <= b + x + 1, NEW j \in 0 .. i
               PROVE  e[j] # "NUL"
    OBVIOUS
  <2>1. e[j] = component[j + 1]
    BY <1>5
  <2>2. j + 1 \in DOMAIN component
    BY <1>3
  <2>3. QED
    BY <2>1, <2>2
<1>9. ASSUME Dots(component) = {}
      PROVE  FatNameOf(e) = ShortName(component)
  <2>1. len = b
    BY <1>1, <1>2, <1>9 DEF Settled
  <2>2. ShortName(component) = Padded(component, BASE) \o Padded(<<>>, EXT)
    BY <1>9 DEF ShortName
  <2>3. <<>> \in Seq(STRING) /\ Len(<<>>) = 0
    OBVIOUS
  <2>4. PICK short : short = ShortName(component)
    OBVIOUS
  <2>5. short = [i \in 1 .. b + x |-> short[i]]
    <3>1. Joins(short, component, b, <<>>, x)
      BY <1>1, <2>2, <2>4 DEF Joins
    <3>2. Whole(short, b + x)
      BY <2>3, <3>1, ShortNameIs
    <3>3. QED
      BY <3>2 DEF Whole
  <2>6. /\ \A i \in 1 .. b : short[i] = toupper(component[i])
        /\ \A i \in 1 .. x : short[b + i] = " "
    <3>1. \A i \in 1 .. b : i <= Len(component)
      BY <1>2, <2>1
    <3>2. \A i \in 1 .. x : i > Len(<<>>)
      BY <2>3
    <3>3. QED
      <4>1. Joins(short, component, b, <<>>, x)
        BY <1>1, <2>2, <2>4 DEF Joins
      <4>2. Base(short, component, b) /\ Extension(short, b, <<>>, x)
        BY <2>3, <4>1, ShortNameIs
      <4>3. QED
        BY <3>1, <3>2, <4>2, Zenon DEF Base, Extension
  <2>7. Ext(e) \in {b, b + x}
    <3>1. \A i \in dots : i = b
      <4> SUFFICES ASSUME NEW i \in dots
                   PROVE  i = b
        OBVIOUS
      <4>1. i >= b
        <5>1. i < b => i + 1 \in DOMAIN component /\ component[i + 1] = "."
          BY <1>3, <1>5, <2>1
        <5>2. QED
          BY <1>9, <5>1 DEF Dots
      <4>2. i <= b
        <5>1. b + 1 \in 0 .. b + x + 1 /\ e[b + 1] = "NUL"
          BY <1>5, <2>1
        <5>2. QED
          BY <5>1 DEF Reaches
      <4>3. QED
        BY <4>1, <4>2
    <3>2. QED
      BY <1>6, <3>1
  <2>8. \A i \in 1 .. b : /\ Reaches(e, 0, i - 1) /\ i - 1 < Ext(e)
                          /\ e[i - 1] = component[i]
    <3> SUFFICES ASSUME NEW i \in 1 .. b
                 PROVE  Reaches(e, 0, i - 1) /\ i - 1 < Ext(e) /\ e[i - 1] = component[i]
      OBVIOUS
    <3>1. i - 1 \in Nat /\ i - 1 < len /\ i - 1 <= b + x + 1
      BY <2>1
    <3>2. Reaches(e, 0, i - 1)
      BY <1>8, <3>1 DEF Reaches
    <3>3. QED
      BY <1>5, <2>7, <3>1, <3>2
  <2>9. \A i \in b + 1 .. b + x :
          /\ ~(Ext(e) # b + x /\ Reaches(e, Ext(e) + 1, Ext(e) + i - b))
          /\ short[i] = " "
    <3> SUFFICES ASSUME NEW i \in b + 1 .. b + x
                 PROVE  /\ ~(Ext(e) # b + x /\ Reaches(e, Ext(e) + 1, Ext(e) + i - b))
                        /\ short[i] = " "
      OBVIOUS
    <3>1. e[b + 1] = "NUL" /\ b + 1 \in b + 1 .. b + i - b
      BY <1>5, <2>1
    <3>2. Ext(e) = b => ~Reaches(e, Ext(e) + 1, Ext(e) + i - b)
      BY <3>1 DEF Reaches
    <3>3. PICK j \in 1 .. x : i = b + j
      OBVIOUS
    <3>4. short[i] = " "
      BY <2>6, <3>3
    <3>5. QED
      BY <2>7, <3>2, <3>4
  <2>10. FatNameOf(e) = [i \in 1 .. b + x |-> short[i]]
    <3>1. ASSUME NEW i \in 1 .. b + x
          PROVE  (IF i <= b
                  THEN IF Reaches(e, 0, i - 1) /\ i - 1 < Ext(e) THEN toupper(e[i - 1]) ELSE " "
                  ELSE IF Ext(e) # b + x /\ Reaches(e, Ext(e) + 1, Ext(e) + i - b)
                       THEN toupper(e[Ext(e) + i - b]) ELSE " ") = short[i]
      <4>1. CASE i <= b
        <5>1. i \in 1 .. b
          BY <4>1
        <5>2. /\ Reaches(e, 0, i - 1) /\ i - 1 < Ext(e)
              /\ short[i] = toupper(e[i - 1])
          BY <2>6, <2>8, <5>1
        <5>3. QED
          BY <4>1, <5>2, Zenon
      <4>2. CASE ~(i <= b)
        <5>1. i \in b + 1 .. b + x
          BY <4>2
        <5>2. QED
          BY <2>9, <4>2, <5>1, Zenon
      <4>3. QED
        BY <4>1, <4>2
    <3>2. QED
      BY <1>7, <3>1, Zenon
  <2>11. QED
    BY <2>4, <2>5, <2>10
<1>10. ASSUME Dots(component) # {}
       PROVE  FatNameOf(e) = ShortName(component)
  <2>1. PICK d \in Dots(component) : TRUE
    BY <1>10
  <2>2. d \in 1 .. len /\ component[d] = "." /\ len - d = x /\ d <= b + 1
    BY <1>1, <1>2, <1>3, <1>10 DEF Settled, Dots
  <2>3. Dots(component) = {d}
    BY <1>1, <1>2, <1>3, <1>10, <2>2 DEF Settled, Dots
  <2>4. (CHOOSE i \in Dots(component) : \A j \in Dots(component) : i <= j) = d
    BY <2>2, <2>3
  <2>5. PICK base : base = SubSeq(component, 1, d - 1)
    OBVIOUS
  <2>6. PICK ext : ext = SubSeq(component, d + 1, len)
    OBVIOUS
  <2>7. /\ base \in Seq(STRING) /\ Len(base) = d - 1
        /\ \A i \in 1 .. d - 1 : base[i] = component[i]
    BY <1>2, <2>2, <2>5
  <2>8. /\ ext \in Seq(STRING) /\ Len(ext) = x
        /\ \A i \in 1 .. x : ext[i] = component[d + i]
    BY <1>2, <2>2, <2>6
  <2>9. ShortName(component) = Padded(base, BASE) \o Padded(ext, EXT)
    BY <1>2, <1>10, <2>4, <2>5, <2>6 DEF ShortName
  <2>10. PICK short : short = ShortName(component)
    OBVIOUS
  <2>11. short = [i \in 1 .. b + x |-> short[i]]
    <3>1. Joins(short, base, b, ext, x)
      BY <1>1, <2>9, <2>10 DEF Joins
    <3>2. Whole(short, b + x)
      BY <2>7, <2>8, <3>1, ShortNameIs
    <3>3. QED
      BY <3>2 DEF Whole
  <2>12. /\ \A i \in 1 .. b : i < d => short[i] = toupper(component[i])
         /\ \A i \in 1 .. b : ~(i < d) => short[i] = " "
         /\ \A i \in 1 .. x : short[b + i] = toupper(component[d + i])
    <3>1. /\ \A i \in 1 .. b : i < d => i <= Len(base) /\ base[i] = component[i]
          /\ \A i \in 1 .. b : ~(i < d) => i > Len(base)
      BY <2>2, <2>7
    <3>2. \A i \in 1 .. x : i <= Len(ext) /\ ext[i] = component[d + i]
      BY <2>8
    <3>3. /\ \A i \in 1 .. b : i <= Len(base) => short[i] = toupper(base[i])
          /\ \A i \in 1 .. b : i > Len(base) => short[i] = " "
          /\ \A i \in 1 .. x : i <= Len(ext) => short[b + i] = toupper(ext[i])
      <4>1. Joins(short, base, b, ext, x)
        BY <1>1, <2>9, <2>10 DEF Joins
      <4>2. Base(short, base, b) /\ Extension(short, b, ext, x)
        BY <2>7, <2>8, <4>1, ShortNameIs
      <4>3. QED
        BY <4>2, Zenon DEF Base, Extension
    <3>4. \A i \in 1 .. b : i < d => short[i] = toupper(component[i])
      BY <3>1, <3>3, Zenon
    <3>5. \A i \in 1 .. b : ~(i < d) => short[i] = " "
      BY <3>1, <3>3, Zenon
    <3>6. \A i \in 1 .. x : short[b + i] = toupper(component[d + i])
      BY <3>2, <3>3
    <3>7. QED
      BY <3>4, <3>5, <3>6
  <2>13. Ext(e) = d - 1
    <3>1. d - 1 \in dots
      <4>1. d - 1 \in 0 .. b + x + 1 /\ d - 1 < len /\ d - 1 \in Nat
        BY <2>2
      <4>2. e[d - 1] = "."
        BY <1>5, <2>2, <4>1
      <4>3. QED
        BY <1>8, <4>1, <4>2 DEF Reaches
    <3>2. \A i \in dots : d - 1 <= i
      <4> SUFFICES ASSUME NEW i \in dots, i < d - 1
                   PROVE  FALSE
        BY <2>2
      <4>1. i + 1 \in DOMAIN component /\ component[i + 1] = "."
        BY <1>3, <1>5, <2>2
      <4>2. i + 1 \in Dots(component)
        BY <4>1 DEF Dots
      <4>3. QED
        BY <2>2, <2>3, <4>2
    <3>3. \A i \in dots : (\A j \in dots : i <= j) => i = d - 1
      BY <2>2, <3>1, <3>2
    <3>4. (CHOOSE i \in dots : \A j \in dots : i <= j) = d - 1
      BY <3>1, <3>2, <3>3
    <3>5. QED
      BY <1>6, <3>1, <3>4
  <2>14. d - 1 # b + x
    BY <1>1, <2>2
  <2>15. \A i \in 1 .. b : i < d => Reaches(e, 0, i - 1) /\ e[i - 1] = component[i]
    <3> SUFFICES ASSUME NEW i \in 1 .. b, i < d
                 PROVE  Reaches(e, 0, i - 1) /\ e[i - 1] = component[i]
      OBVIOUS
    <3>1. i - 1 \in Nat /\ i - 1 < len /\ i - 1 <= b + x + 1
      BY <2>2
    <3>2. Reaches(e, 0, i - 1)
      BY <1>8, <3>1 DEF Reaches
    <3>3. QED
      BY <1>5, <3>1, <3>2
  <2>16. \A i \in b + 1 .. b + x :
           /\ Reaches(e, (d - 1) + 1, (d - 1) + i - b)
           /\ short[i] = toupper(e[(d - 1) + i - b])
    <3> SUFFICES ASSUME NEW i \in b + 1 .. b + x
                 PROVE  /\ Reaches(e, (d - 1) + 1, (d - 1) + i - b)
                        /\ short[i] = toupper(e[(d - 1) + i - b])
      OBVIOUS
    <3>1. PICK k \in Nat : /\ k = (d - 1) + i - b /\ k < len /\ k <= b + x + 1
                           /\ k + 1 = d + (i - b) /\ i - b \in 1 .. x
                           /\ b + (i - b) = i
      BY <2>2
    <3>2. \A j \in 0 .. k : e[j] # "NUL"
      BY <1>8, <3>1
    <3>3. Reaches(e, (d - 1) + 1, k)
      BY <2>2, <3>2 DEF Reaches
    <3>4. e[k] = component[d + (i - b)]
      BY <1>5, <3>1
    <3>5. short[b + (i - b)] = toupper(component[d + (i - b)])
      BY <2>12, <3>1
    <3>6. short[i] = toupper(e[k])
      BY <3>1, <3>4, <3>5
    <3>7. QED
      BY <3>1, <3>3, <3>6
  <2>17. FatNameOf(e) = [i \in 1 .. b + x |-> short[i]]
    <3>1. ASSUME NEW i \in 1 .. b + x
          PROVE  (IF i <= b
                  THEN IF Reaches(e, 0, i - 1) /\ i - 1 < d - 1 THEN toupper(e[i - 1]) ELSE " "
                  ELSE IF d - 1 # b + x /\ Reaches(e, (d - 1) + 1, (d - 1) + i - b)
                       THEN toupper(e[(d - 1) + i - b]) ELSE " ") = short[i]
      <4>1. CASE i <= b /\ i < d
        <5>1. i \in 1 .. b /\ i - 1 < d - 1
          BY <2>2, <4>1
        <5>2. Reaches(e, 0, i - 1) /\ short[i] = toupper(e[i - 1])
          <6>1. short[i] = toupper(component[i])
            BY <2>12, <4>1, <5>1
          <6>2. Reaches(e, 0, i - 1) /\ e[i - 1] = component[i]
            BY <2>15, <4>1, <5>1
          <6>3. QED
            BY <6>1, <6>2
        <5>3. QED
          BY <4>1, <5>1, <5>2, Zenon
      <4>2. CASE i <= b /\ ~(i < d)
        <5>1. i \in 1 .. b /\ ~(i - 1 < d - 1)
          BY <2>2, <4>2
        <5>2. short[i] = " "
          BY <2>12, <4>2, <5>1
        <5>3. QED
          BY <4>2, <5>1, <5>2, Zenon
      <4>3. CASE ~(i <= b)
        <5>1. i \in b + 1 .. b + x
          BY <4>3
        <5>2. QED
          BY <2>14, <2>16, <4>3, <5>1, Zenon
      <4>4. QED
        BY <4>1, <4>2, <4>3
    <3>2. QED
      BY <1>7, <2>13, <3>1, Zenon
  <2>18. QED
    BY <2>10, <2>11, <2>17
<1>11. QED
  BY <1>4, <1>9, <1>10

-----------------------------------------------------------------------------
(* Where paths lead. *)

\* The entries that the first n components of a path lead to.
Reached(p, n) == {w[n] : w \in Walks(p, n)}

LEMMA SectorHasEntries ==
  ASSUME FatAssumption
  PROVE  EntriesPerSector \in Nat \ {0} /\ SECTOR_SIZE = DirEntrySize * EntriesPerSector
<1>1. PICK d \in Nat \ {0}, w \in Nat \ {0} : d = DirEntrySize /\ w = SECTOR_SIZE /\ w % d = 0
  BY DEF FatAssumption
<1>2. PICK m \in Nat : m = w \div d /\ w = (d * m) + (w % d)
  BY DivMod
<1>3. w = d * m
  BY <1>1, <1>2
<1>4. m # 0
  BY <1>3
<1>5. QED
  BY <1>1, <1>2, <1>3, <1>4 DEF EntriesPerSector

LEMMA ShortNameNotEmpty ==
  ASSUME NameAssumption, NEW component \in Seq(STRING)
  PROVE  ShortName(component) # <<>>
<1>1. PICK b \in Nat, x \in Nat : b = BASE /\ x = EXT /\ b > 0
  BY DEF NameAssumption
<1>2. \E base, ext \in Seq(STRING) : Joins(ShortName(component), base, b, ext, x)
  <2>1. CASE Dots(component) = {}
    <3>1. <<>> \in Seq(STRING)
      OBVIOUS
    <3>2. Joins(ShortName(component), component, b, <<>>, x)
      BY <1>1, <2>1 DEF ShortName, Joins
    <3>3. QED
      BY <3>1, <3>2
  <2>2. CASE Dots(component) # {}
    <3>1. Dots(component) \subseteq Nat /\ IsFiniteSet(Dots(component))
      <4>1. Dots(component) \subseteq 1 .. Len(component) /\ Len(component) \in Nat
        BY DEF Dots
      <4>2. IsFiniteSet(1 .. Len(component))
        BY <4>1, FS_Interval
      <4>3. QED
        BY <4>1, <4>2, FS_Subset
    <3>2. \E i \in Dots(component) : \A j \in Dots(component) : i <= j
      BY <2>2, <3>1, HasMinimum
    <3>3. PICK d : d = CHOOSE i \in Dots(component) : \A j \in Dots(component) : i <= j
      OBVIOUS
    <3>4. d \in Dots(component)
      BY <3>2, <3>3
    <3>5. d \in 1 .. Len(component) /\ Len(component) \in Nat
      BY <3>4 DEF Dots
    <3>6. PICK base : base = SubSeq(component, 1, d - 1)
      OBVIOUS
    <3>7. PICK ext : ext = SubSeq(component, d + 1, Len(component))
      OBVIOUS
    <3>8. base \in Seq(STRING) /\ ext \in Seq(STRING)
      BY <3>5, <3>6, <3>7
    <3>9. ShortName(component) = Padded(base, BASE) \o Padded(ext, EXT)
      BY <2>2, <3>3, <3>6, <3>7 DEF ShortName
    <3>10. Joins(ShortName(component), base, b, ext, x)
      BY <1>1, <3>9 DEF Joins
    <3>11. QED
      BY <3>8, <3>10
  <2>3. QED
    BY <2>1, <2>2
<1>3. Whole(ShortName(component), b + x)
  BY <1>2, ShortNameIs
<1>4. DOMAIN ShortName(component) = 1 .. b + x
  BY <1>3 DEF Whole
<1>5. 1 \in DOMAIN ShortName(component)
  BY <1>1, <1>4
<1>6. QED
  BY <1>5

\* A named slot of a directory's sector is a listed entry.
LEMMA SlotListed ==
  ASSUME VolumeAssumption, vol \in Volumes, NEW lba, NEW k \in 1 .. EntriesPerSector,
         Slot(vol, lba, k).name # <<>>
  PROVE  Slot(vol, lba, k) \in Listed(vol)
<1>1. lba \in DOMAIN vol.slots /\ Slot(vol, lba, k) = vol.slots[lba][k]
  BY DEF Slot, NoEntry
<1>2. k \in DOMAIN vol.slots[lba]
  BY <1>1 DEF VolumeAssumption, EntriesPerSector
<1>3. Slot(vol, lba, k) \in
        UNION { {vol.slots[l][i] : i \in DOMAIN vol.slots[l]} : l \in DOMAIN vol.slots }
  BY <1>1, <1>2
<1>4. QED
  BY <1>3 DEF Listed

LEMMA EntriesListed ==
  ASSUME FatAssumption, NameAssumption, VolumeAssumption, vol \in Volumes,
         NEW component \in Seq(STRING)
  PROVE  /\ Named(RootEntries(vol), component) \subseteq Listed(vol)
         /\ \A d : Named(DirEntries(vol, d), component) \subseteq Listed(vol)
<1>1. \A e : e.name = ShortName(component) => e.name # <<>>
  BY ShortNameNotEmpty
<1>2. PICK m \in Nat \ {0} : m = EntriesPerSector
  BY SectorHasEntries
<1>3. ASSUME NEW e \in Named(RootEntries(vol), component)
      PROVE  e \in Listed(vol)
  <2>1. PICK k \in 0 .. vol.dirEntryCount - 1 : \E lba : e = Slot(vol, lba, (k % m) + 1)
    BY <1>2, <1>3 DEF Named, RootEntries
  <2>2. k \in Nat
    <3>1. vol.dirEntryCount \in Nat
      BY DEF VolumeAssumption
    <3>2. QED
      BY <3>1
  <2>3. (k % m) + 1 \in 1 .. m
    <3>1. PICK r \in 0 .. m - 1 : r = k % m
      BY <2>2, DivMod
    <3>2. QED
      BY <3>1
  <2>4. e.name # <<>>
    BY <1>1, <1>3 DEF Named
  <2>5. QED
    BY <1>2, <2>1, <2>3, <2>4, SlotListed
<1>4. ASSUME NEW d, NEW e \in Named(DirEntries(vol, d), component)
      PROVE  e \in Listed(vol)
  <2>1. PICK k \in 1 .. EntriesPerSector : \E lba : e = Slot(vol, lba, k)
    BY <1>4 DEF Named, DirEntries
  <2>2. e.name # <<>>
    BY <1>1, <1>4 DEF Named
  <2>3. QED
    BY <2>1, <2>2, SlotListed
<1>5. QED
  BY <1>3, <1>4

\* A directory has one entry of a name.
LEMMA NamedOnce ==
  ASSUME NameAssumption, NEW component \in Seq(STRING), NEW entries, Distinct(entries),
         NEW e \in Named(entries, component)
  PROVE  Named(entries, component) = {e}
<1>1. ShortName(component) # <<>>
  BY ShortNameNotEmpty
<1>2. QED
  BY <1>1 DEF Named, Distinct

LEMMA ReachedFirst ==
  ASSUME FatAssumption, NameAssumption, VolumeAssumption, vol \in Volumes,
         NEW p, p[1] \in Seq(STRING)
  PROVE  Reached(p, 1) = Named(RootEntries(vol), p[1])
<1>1. ASSUME NEW e \in Reached(p, 1)
      PROVE  e \in Named(RootEntries(vol), p[1])
  BY <1>1 DEF Reached, Walks
<1>2. ASSUME NEW e \in Named(RootEntries(vol), p[1])
      PROVE  e \in Reached(p, 1)
  <2>1. PICK w : w = [k \in 1 .. 1 |-> e]
    OBVIOUS
  <2>2. e \in Listed(vol)
    BY <1>2, EntriesListed
  <2>3. w \in [1 .. 1 -> Listed(vol)] /\ w[1] = e
    BY <2>1, <2>2
  <2>4. w \in Walks(p, 1)
    BY <1>2, <2>3 DEF Walks
  <2>5. QED
    BY <2>3, <2>4 DEF Reached
<1>3. QED
  BY <1>1, <1>2

\* The beginning of a walk is a walk.
LEMMA WalkBegins ==
  ASSUME NEW p, NEW m \in Nat, NEW n \in 1 .. m, NEW w \in Walks(p, m)
  PROVE  [k \in 1 .. n |-> w[k]] \in Walks(p, n)
<1>1. PICK v : v = [k \in 1 .. n |-> w[k]]
  OBVIOUS
<1>2. w \in [1 .. m -> Listed(vol)]
  BY DEF Walks
<1>3. v \in [1 .. n -> Listed(vol)] /\ (\A k \in 1 .. n : v[k] = w[k])
  BY <1>1, <1>2
<1>4. v[1] \in Named(RootEntries(vol), p[1])
  BY <1>3 DEF Walks
<1>5. ASSUME NEW k \in 2 .. n
      PROVE  v[k - 1].dir /\ v[k] \in Named(DirEntries(vol, v[k - 1]), p[k])
  <2>1. k \in 2 .. m /\ v[k] = w[k] /\ v[k - 1] = w[k - 1]
    BY <1>3
  <2>2. w[k - 1].dir /\ w[k] \in Named(DirEntries(vol, w[k - 1]), p[k])
    BY <2>1 DEF Walks
  <2>3. QED
    BY <2>1, <2>2
<1>6. QED
  BY <1>1, <1>3, <1>4, <1>5 DEF Walks

\* A path that stops leading anywhere leads nowhere.
LEMMA ReachedNone ==
  ASSUME NEW p, NEW m \in Nat, NEW n \in 1 .. m, Reached(p, n) = {}
  PROVE  Reached(p, m) = {}
<1>1. ASSUME NEW w \in Walks(p, m)
      PROVE  FALSE
  <2>1. [k \in 1 .. n |-> w[k]] \in Walks(p, n)
    BY WalkBegins
  <2>2. QED
    BY <2>1 DEF Reached
<1>2. QED
  BY <1>1 DEF Reached

\* One component further.
LEMMA ReachedNext ==
  ASSUME FatAssumption, NameAssumption, VolumeAssumption, vol \in Volumes,
         NEW p, NEW n \in Nat \ {0}, p[n + 1] \in Seq(STRING),
         NEW d, Reached(p, n) = {d}
  PROVE  /\ d.dir => Reached(p, n + 1) = Named(DirEntries(vol, d), p[n + 1])
         /\ ~d.dir => Reached(p, n + 1) = {}
<1>1. ASSUME NEW e \in Reached(p, n + 1)
      PROVE  d.dir /\ e \in Named(DirEntries(vol, d), p[n + 1])
  <2>1. PICK w \in Walks(p, n + 1) : e = w[n + 1]
    BY <1>1 DEF Reached
  <2>2. PICK v : v = [k \in 1 .. n |-> w[k]] /\ v \in Walks(p, n)
    <3>1. n + 1 \in Nat /\ n \in 1 .. n + 1
      OBVIOUS
    <3>2. [k \in 1 .. n |-> w[k]] \in Walks(p, n)
      BY <3>1, WalkBegins
    <3>3. QED
      BY <3>2
  <2>3. v[n] = w[n] /\ v[n] \in Reached(p, n)
    BY <2>2 DEF Reached
  <2>4. w[n] = d
    BY <2>3
  <2>5. n + 1 \in 2 .. n + 1 /\ (n + 1) - 1 = n
    OBVIOUS
  <2>6. w[n].dir /\ w[n + 1] \in Named(DirEntries(vol, w[n]), p[n + 1])
    BY <2>1, <2>5 DEF Walks
  <2>7. QED
    BY <2>1, <2>4, <2>6
<1>2. ASSUME d.dir, NEW e \in Named(DirEntries(vol, d), p[n + 1])
      PROVE  e \in Reached(p, n + 1)
  <2>1. PICK w \in Walks(p, n) : w[n] = d
    BY DEF Reached
  <2>2. PICK v : v = [k \in 1 .. n + 1 |-> IF k = n + 1 THEN e ELSE w[k]]
    OBVIOUS
  <2>3. w \in [1 .. n -> Listed(vol)] /\ e \in Listed(vol)
    BY <1>2, EntriesListed DEF Walks
  <2>4. /\ v \in [1 .. n + 1 -> Listed(vol)]
        /\ v[n + 1] = e
        /\ \A k \in 1 .. n : v[k] = w[k]
    BY <2>2, <2>3
  <2>5. v[1] \in Named(RootEntries(vol), p[1])
    BY <2>4 DEF Walks
  <2>6. ASSUME NEW k \in 2 .. n + 1
        PROVE  v[k - 1].dir /\ v[k] \in Named(DirEntries(vol, v[k - 1]), p[k])
    <3>1. CASE k = n + 1
      BY <1>2, <2>1, <2>4, <3>1
    <3>2. CASE k # n + 1
      <4>1. k \in 2 .. n /\ v[k - 1] = w[k - 1] /\ v[k] = w[k]
        BY <2>4, <3>2
      <4>2. w[k - 1].dir /\ w[k] \in Named(DirEntries(vol, w[k - 1]), p[k])
        BY <4>1 DEF Walks
      <4>3. QED
        BY <4>1, <4>2
    <3>3. QED
      BY <3>1, <3>2
  <2>7. v \in Walks(p, n + 1)
    BY <2>4, <2>5, <2>6 DEF Walks
  <2>8. QED
    BY <2>4, <2>7 DEF Reached
<1>3. QED
  BY <1>1, <1>2

-----------------------------------------------------------------------------
(* What a FAT_Open keeps while it walks its path. *)

\* The root directory is at its beginning except while it is searched.
RootRests ==
  op \in Active =>
    /\ fd[Root].Size = RootDirSize
    /\ fd[Root].FirstCluster = RootDirLba
    /\ op # "find" \/ current # Root => /\ fd[Root].Position = 0
                                        /\ fd[Root].CurrentCluster = RootDirLba

\* What is left of the path is its end.
CallKept ==
  /\ op \in {"off", "table", "root", "read"} => ~call.open
  /\ call.open => call.path \in Paths /\ call.before \in Nat /\ call.before <= failures
  /\ op \in {"find", "entry"} =>
       /\ call.open
       /\ call.room => held # Handles
       /\ Len(path) <= Len(call.path)
       /\ \A k \in 1 .. Len(path) : path[k] = call.path[Len(call.path) - Len(path) + k]

\* The opens OpenCorrectFresh speaks of, and those of them in which no read failed so far.
Judged == call.open /\ call.fresh /\ \A k \in DOMAIN call.path : Settled(call.path[k])
Unfailed == failures = call.before

\* The number of the component that is looked for.
Level == Len(call.path) - Len(path) + 1

RootSlot(k) == Slot(vol, RootDirLba + (k \div EntriesPerSector), (k % EntriesPerSector) + 1)

\* The search of the root stands at its n-th entry, and has passed over no entry of the
\* name unless a read failed.
RootAt(n) ==
  /\ fd[Root].Position = n * DirEntrySize
  /\ fd[Root].CurrentCluster = RootDirLba + (n \div EntriesPerSector)
  /\ \/ fd[Root].Buffer = Junk
     \/ \E s \in 0 .. n \div EntriesPerSector : fd[Root].Buffer = RootDirLba + s
  /\ Unfailed => /\ fd[Root].Buffer = fd[Root].CurrentCluster
                 /\ \A k \in 0 .. n - 1 : RootSlot(k).name # fatName

\* The same of a subdirectory, which is never searched behind its first sector: only a
\* directory of one sector is searched to its end.
DirAt(n) ==
  /\ fd[current].Position = n * DirEntrySize
  /\ fd[current].Buffer = FAT_ClusterToLba(target.first)
  /\ \A k \in 1 .. n : Slot(vol, fd[current].Buffer, k).name # fatName
  /\ n < EntriesPerSector => /\ fd[current].Size = 0
                             /\ fd[current].CurrentCluster = target.first
                             /\ fd[current].CurrentSectorInCluster = 0
  /\ n = EntriesPerSector => /\ fd[current].Size # 0
                             /\ vol.sectorsPerCluster = 1
                             /\ Len(Chain(target)) = 1

InRoot == Level = 1 /\ \E n \in 0 .. vol.dirEntryCount : RootAt(n)

InDirectory ==
  /\ Level > 1
  /\ Reached(call.path, Level - 1) = {target}
  /\ fd[current].Buffer \in DirLbas(vol, target) \cup {Junk}
  /\ Unfailed => \E n \in 0 .. EntriesPerSector : DirAt(n)

OnTheWay ==
  /\ op = "find" => /\ fatName = ShortName(path[1])
                    /\ current = Root => InRoot
                    /\ current # Root => InDirectory
  /\ op = "entry" => Reached(call.path, Level) = {target}
  /\ op = "idle" => /\ ret # NULL => target \in Resolve(call.path)
                    /\ call.room /\ Unfailed /\ Resolve(call.path) # {} => ret # NULL

SearchInv == RootRests /\ CallKept /\ (Judged => OnTheWay)

-----------------------------------------------------------------------------
(* The entry at a position. *)

\* The n-th entry of d bytes begins at byte p: where that is in its sector of w bytes, or
\* m entries.
Begins(n, p, d, m, w) ==
  \E r \in 0 .. m - 1, t \in 0 .. w - d :
    n % m = r /\ p % w = t /\ t \div d = r /\ (t = 0 <=> r = 0)

LEMMA Positions ==
  ASSUME NEW d \in Nat \ {0}, NEW m \in Nat \ {0}, NEW w \in Nat \ {0}, w = d * m,
         NEW n \in Nat, NEW p \in Nat, p = n * d
  PROVE  Begins(n, p, d, m, w)
<1>1. PICK q \in Nat : q = n \div m
  BY DivMod
<1>2. PICK r \in 0 .. m - 1 : r = n % m
  BY DivMod
<1>3. n = (m * q) + r /\ r \in Nat
  BY <1>1, <1>2, DivMod
<1>5. PICK t \in Nat : t = d * r
  BY <1>3
<1>6. t <= w - d
  <2>1. PICK i \in Nat : r + i = m - 1
    BY <1>2
  <2>2. d * (r + i) = d * r + d * i /\ d * i \in Nat /\ d * (m - 1) = d * m - d
    BY <1>3
  <2>3. QED
    BY <1>5, <2>1, <2>2
<1>7. n * d = (w * q) + t
  <2>1. n * d = (m * q) * d + r * d
    BY <1>3
  <2>2. (m * q) * d = (d * m) * q /\ r * d = d * r
    BY <1>3
  <2>3. QED
    BY <1>5, <2>1, <2>2
<1>8. (n * d) % w = t
  <2>1. n * d \in Nat /\ t \in 0 .. w - 1
    BY <1>5, <1>6
  <2>2. QED
    BY <1>7, <2>1, DivUnique
<1>9. t \div d = r
  <2>1. t = (d * r) + 0 /\ 0 \in 0 .. d - 1
    BY <1>5
  <2>2. QED
    BY <1>3, <2>1, DivUnique
<1>10. t = 0 <=> r = 0
  BY <1>3, <1>5
<1>11. p % w = t /\ t \in 0 .. w - d
  BY <1>5, <1>6, <1>8
<1>12. QED
  BY <1>2, <1>9, <1>10, <1>11 DEF Begins

\* A directory stands at its n-th entry.
LEMMA AtEntry ==
  ASSUME FatAssumption, NEW f \in FileData, NEW n \in Nat, f.Position = n * DirEntrySize
  PROVE  /\ EntryAt(f) = Slot(vol, f.Buffer, (n % EntriesPerSector) + 1)
         /\ Take(f, DirEntrySize) = DirEntrySize
         /\ f.Position + Take(f, DirEntrySize) = (n + 1) * DirEntrySize
<1>1. PICK d \in Nat \ {0}, m \in Nat \ {0} :
        d = DirEntrySize /\ m = EntriesPerSector /\ SECTOR_SIZE = d * m
  <2>1. DirEntrySize \in Nat \ {0}
    BY DEF FatAssumption
  <2>2. QED
    BY <2>1, SectorHasEntries
<1>2. PICK w \in Nat \ {0} : w = d * m
  OBVIOUS
<1>3. PICK p \in Nat : p = n * d
  OBVIOUS
<1>4. PICK r \in 0 .. m - 1, t \in 0 .. w - d :
        n % m = r /\ p % w = t /\ t \div d = r /\ (t = 0 <=> r = 0)
  <2>1. Begins(n, p, d, m, w)
    BY <1>2, <1>3, Positions
  <2>2. QED
    BY <2>1 DEF Begins
<1>5. f.Position % SECTOR_SIZE = t
  BY <1>1, <1>2, <1>3, <1>4
<1>6. (f.Position % SECTOR_SIZE) \div DirEntrySize + 1 = (n % EntriesPerSector) + 1
  BY <1>1, <1>4, <1>5
<1>7. EntryAt(f) = Slot(vol, f.Buffer, (n % EntriesPerSector) + 1)
  BY <1>6 DEF EntryAt, Slot
<1>8. Take(f, DirEntrySize) = DirEntrySize
  <2>1. PICK left \in Int : left = w - t /\ d <= left
    BY <1>4
  <2>2. Take(f, DirEntrySize) = IF d < left THEN d ELSE left
    BY <1>1, <1>2, <1>5, <2>1 DEF Take
  <2>3. QED
    BY <1>1, <2>1, <2>2
<1>9. (n + 1) * d = (n * d) + d
  OBVIOUS
<1>10. QED
  BY <1>1, <1>7, <1>8, <1>9

\* Wherever it stands, its entry is in a slot of the sector in the buffer.
LEMMA SomeEntry ==
  ASSUME FatAssumption, NEW f \in FileData
  PROVE  \E k \in 1 .. EntriesPerSector : EntryAt(f) = Slot(vol, f.Buffer, k)
<1>1. PICK d \in Nat \ {0}, m \in Nat \ {0} :
        d = DirEntrySize /\ m = EntriesPerSector /\ SECTOR_SIZE = d * m
  <2>1. DirEntrySize \in Nat \ {0}
    BY DEF FatAssumption
  <2>2. QED
    BY <2>1, SectorHasEntries
<1>2. PICK w \in Nat \ {0} : w = d * m
  OBVIOUS
<1>3. PICK p \in Nat : p = f.Position
  BY DEF FileData
<1>4. PICK r \in 0 .. w - 1 : r = p % w
  BY DivMod
<1>5. PICK i \in Nat : i = r \div d /\ i < m
  <2>1. r \in Nat /\ r < d * m
    BY <1>2, <1>4
  <2>2. r \div d \in Nat /\ r \div d < m
    BY <2>1, DivMod, DivLess
  <2>3. QED
    BY <2>2
<1>6. i + 1 \in 1 .. m
  BY <1>5
<1>7. (f.Position % SECTOR_SIZE) \div DirEntrySize + 1 = i + 1
  BY <1>1, <1>2, <1>3, <1>4, <1>5
<1>8. EntryAt(f) = Slot(vol, f.Buffer, i + 1)
  BY <1>7 DEF EntryAt, Slot
<1>9. QED
  BY <1>1, <1>6, <1>8

\* A buffer that a failed read left holds no entry of a name.
LEMMA JunkHasNoName ==
  ASSUME DirectoryAssumption, vol \in Volumes, NEW k
  PROVE  Slot(vol, Junk, k).name = <<>>
<1>1. Junk \notin DOMAIN vol.slots
  BY DEF DirectoryAssumption, Junk
<1>2. QED
  BY <1>1 DEF Slot, NoEntry

-----------------------------------------------------------------------------
(* The search of the root directory. *)

\* The entry with n's place in an earlier sector.
LEMMA EarlierSector ==
  ASSUME NEW m \in Nat \ {0}, NEW n \in Nat, NEW s \in Nat, s <= n \div m
  PROVE  \E k \in Nat : k <= n /\ k \div m = s /\ k % m = n % m
<1>1. PICK q \in Nat : q = n \div m
  BY DivMod
<1>2. PICK r \in 0 .. m - 1 : r = n % m
  BY DivMod
<1>3. n = (m * q) + r
  BY <1>1, <1>2, DivMod
<1>4. PICK k \in Nat : k = (m * s) + r
  BY <1>2
<1>5. k \div m = s /\ k % m = r
  BY <1>4, DivUnique
<1>6. k <= n
  <2>1. PICK i \in Nat : s + i = q
    BY <1>1
  <2>2. m * (s + i) = m * s + m * i /\ m * i \in Nat
    BY <2>1
  <2>3. m * q = m * s + m * i
    BY <2>1, <2>2
  <2>4. QED
    BY <1>2, <1>3, <1>4, <2>2, <2>3
<1>7. QED
  BY <1>2, <1>5, <1>6

\* How much FAT_ReadEntry still finds.
LEMMA RootLimit ==
  ASSUME FatAssumption, DirectoryAssumption, VolumeAssumption, vol \in Volumes,
         NEW f \in FileData, f.Size = RootDirSize,
         NEW n \in 0 .. vol.dirEntryCount, f.Position = n * DirEntrySize
  PROVE  /\ n < vol.dirEntryCount <=> Limit(f, DirEntrySize) # 0
         /\ n < vol.dirEntryCount => Limit(f, DirEntrySize) = DirEntrySize
<1>1. PICK d \in Nat \ {0}, c \in Nat \ {0} : d = DirEntrySize /\ c = vol.dirEntryCount
  <2>1. DirEntrySize \in Nat \ {0} /\ vol.dirEntryCount \in Nat /\ vol.dirEntryCount > 0
    BY DEF FatAssumption, DirectoryAssumption, VolumeAssumption
  <2>2. QED
    BY <2>1
<1>2. PICK i \in Nat : n + i = c /\ n \in Nat
  <2>1. n \in 0 .. c
    BY <1>1
  <2>2. c - n \in Nat /\ n + (c - n) = c /\ n \in Nat
    BY <2>1
  <2>3. QED
    BY <2>2
<1>3. PICK left \in Nat : left = d * i
  BY <1>2
<1>4. f.Size - f.Position = left /\ f.Size # 0
  <2>1. f.Size = d * c /\ f.Position = n * d
    BY <1>1 DEF RootDirSize
  <2>2. d * c = d * n + d * i /\ n * d = d * n /\ d * n \in Nat /\ d * i \in Nat
    BY <1>2
  <2>3. d * c # 0
    BY <1>1
  <2>4. QED
    BY <1>3, <2>1, <2>2, <2>3
<1>5. left = 0 <=> i = 0
  BY <1>3
<1>6. i # 0 => left >= d
  <2>1. CASE i # 0
    <3>1. PICK j \in Nat : i = j + 1
      BY <1>2, <2>1
    <3>2. d * (j + 1) = d * j + d /\ d * j \in Nat
      BY <3>1
    <3>3. QED
      BY <1>3, <3>1, <3>2
  <2>2. QED
    BY <2>1
<1>7. Limit(f, DirEntrySize) = IF d < left THEN d ELSE left
  BY <1>1, <1>4 DEF Limit
<1>8. n < c <=> i # 0
  BY <1>2
<1>9. QED
  BY <1>1, <1>5, <1>6, <1>7, <1>8

\* The entry found is one of the root directory's.
LEMMA RootFound ==
  ASSUME FatAssumption, DirectoryAssumption, VolumeAssumption, vol \in Volumes,
         fd[Root] \in FileData, NEW n \in 0 .. vol.dirEntryCount - 1, RootAt(n),
         EntryAt(fd[Root]).name # <<>>
  PROVE  EntryAt(fd[Root]) \in RootEntries(vol)
<1>1. PICK m \in Nat \ {0} : m = EntriesPerSector
  BY SectorHasEntries
<1>2. n \in Nat
  BY DEF VolumeAssumption
<1>3. PICK f \in FileData : f = fd[Root]
  OBVIOUS
<1>4. EntryAt(f) = Slot(vol, f.Buffer, (n % m) + 1)
  BY <1>1, <1>2, <1>3, AtEntry DEF RootAt
<1>5. f.Buffer # Junk
  BY <1>3, <1>4, JunkHasNoName
<1>6. PICK s \in Nat : s <= n \div m /\ f.Buffer = RootDirLba + s
  <2>1. PICK q \in Nat : q = n \div m
    BY <1>2, DivMod
  <2>2. PICK s \in 0 .. q : f.Buffer = RootDirLba + s
    BY <1>1, <1>3, <1>5, <2>1 DEF RootAt
  <2>3. s \in Nat /\ s <= q
    BY <2>2
  <2>4. QED
    BY <2>1, <2>2, <2>3
<1>7. PICK k \in Nat : k <= n /\ k \div m = s /\ k % m = n % m
  BY <1>2, <1>6, EarlierSector
<1>8. k \in 0 .. vol.dirEntryCount - 1
  BY <1>2, <1>7 DEF VolumeAssumption
<1>9. EntryAt(f) = RootSlot(k)
  BY <1>1, <1>4, <1>6, <1>7 DEF RootSlot
<1>10. QED
  BY <1>3, <1>8, <1>9 DEF RootEntries, RootSlot, RootDirLba

\* A search that went through found nothing.
LEMMA RootMissing ==
  ASSUME VolumeAssumption, vol \in Volumes, RootAt(vol.dirEntryCount), Unfailed,
         NEW component, fatName = ShortName(component)
  PROVE  Named(RootEntries(vol), component) = {}
<1>1. ASSUME NEW e \in Named(RootEntries(vol), component)
      PROVE  FALSE
  <2>1. PICK k \in 0 .. vol.dirEntryCount - 1 : e = RootSlot(k)
    BY <1>1 DEF Named, RootEntries, RootSlot, RootDirLba
  <2>2. RootSlot(k).name # fatName
    BY <2>1 DEF RootAt
  <2>3. QED
    BY <1>1, <2>1, <2>2 DEF Named
<1>2. QED
  BY <1>1

\* A step of it.
LEMMA RootAdvances ==
  ASSUME FatAssumption, VolumeAssumption, vol \in Volumes,
         fd[Root] \in FileData, NEW n \in Nat, RootAt(n),
         NEW it \in Iterate(Root, DirEntrySize, 0), EntryAt(fd[Root]).name # fatName,
         fd'[Root] = it.f, vol' = vol, fatName' = fatName, call' = call,
         Counted(it.ok), failures \in Nat, call.before \in Nat, call.before <= failures
  PROVE  RootAt(n + 1)'
<1>1. PICK m \in Nat \ {0} : m = EntriesPerSector
  BY SectorHasEntries
<1>2. PICK f \in FileData : f = fd[Root]
  OBVIOUS
<1>3. PICK g : g = it.f
  OBVIOUS
<1>4. DirEntrySize \in Nat \ {0} /\ 0 \in Nat
  BY DEF FatAssumption
<1>5. f.Position = n * DirEntrySize
  BY <1>2 DEF RootAt
<1>6. /\ g.Position = f.Position + Take(f, DirEntrySize)
      /\ g.Position % SECTOR_SIZE # 0 =>
           it.ok /\ g.CurrentCluster = f.CurrentCluster /\ g.Buffer = f.Buffer
      /\ g.Position % SECTOR_SIZE = 0 =>
           /\ g.CurrentCluster = f.CurrentCluster + 1
           /\ g.Buffer \in {f.Buffer, g.CurrentCluster, Junk}
           /\ it.ok => g.Buffer = g.CurrentCluster
      /\ it.ok \in BOOLEAN
  BY <1>2, <1>3, <1>4, IterateRoot
<1>7. PICK i \in Nat : i = n + 1
  OBVIOUS
<1>8. g.Position = i * DirEntrySize
  BY <1>2, <1>5, <1>6, <1>7, AtEntry
<1>9. g.Position % SECTOR_SIZE = 0 <=> i % m = 0
  <2>1. PICK d \in Nat \ {0} : d = DirEntrySize
    BY <1>4
  <2>2. PICK w \in Nat \ {0} : w = d * m
    OBVIOUS
  <2>3. PICK p \in Nat : p = i * d
    OBVIOUS
  <2>4. Begins(i, p, d, m, w)
    BY <2>2, <2>3, Positions
  <2>5. p % w = 0 <=> i % m = 0
    BY <2>4 DEF Begins
  <2>6. SECTOR_SIZE = w
    BY <1>1, <2>1, <2>2, SectorHasEntries
  <2>7. QED
    BY <1>8, <2>1, <2>3, <2>5, <2>6
<1>10. PICK q \in Nat, a \in Nat : q = n \div m /\ a = RootDirLba
  <2>1. RootDirLba \in Nat
    BY DEF RootDirLba, VolumeAssumption
  <2>2. QED
    BY <2>1, DivMod
<1>11. /\ i % m = 0 => i \div m = q + 1
       /\ i % m # 0 => i \div m = q
  <2>1. (n % m) + 1 >= m \/ (n % m) + 1 < m
    BY SectorSteps
  <2>2. (n % m) + 1 # 0
    BY SectorSteps
  <2>3. QED
    BY <1>7, <1>10, <2>1, <2>2, SectorSteps
<1>12. f.CurrentCluster = a + q
  BY <1>1, <1>2, <1>10 DEF RootAt
<1>13. g.CurrentCluster = a + (i \div m)
  BY <1>6, <1>9, <1>10, <1>11, <1>12
<1>14. f.Buffer = Junk \/ \E s \in 0 .. q : f.Buffer = a + s
  BY <1>1, <1>2, <1>10 DEF RootAt
<1>15. g.Buffer = Junk \/ \E s \in 0 .. i \div m : g.Buffer = a + s
  <2>1. PICK j \in Nat : j = i \div m
    BY DivMod
  <2>2. 0 .. q \subseteq 0 .. j /\ j \in 0 .. j
    BY <1>10, <1>11, <2>1
  <2>3. g.Buffer \in {f.Buffer, g.CurrentCluster, Junk}
    BY <1>6, <1>9
  <2>4. QED
    BY <1>13, <1>14, <2>1, <2>2, <2>3
<1>16. Unfailed' => /\ g.Buffer = g.CurrentCluster
                    /\ \A k \in 0 .. i - 1 : RootSlot(k).name # fatName
  <2> SUFFICES ASSUME Unfailed'
               PROVE  /\ g.Buffer = g.CurrentCluster
                      /\ \A k \in 0 .. i - 1 : RootSlot(k).name # fatName
    OBVIOUS
  <2>1. it.ok /\ Unfailed
    BY <1>6 DEF Unfailed, Counted
  <2>2. /\ f.Buffer = f.CurrentCluster
        /\ \A k \in 0 .. n - 1 : RootSlot(k).name # fatName
    BY <1>2, <2>1 DEF RootAt
  <2>3. g.Buffer = g.CurrentCluster
    BY <1>6, <2>1, <2>2
  <2>4. EntryAt(f) = Slot(vol, f.Buffer, (n % m) + 1)
    BY <1>1, <1>5, AtEntry
  <2>5. EntryAt(f) = RootSlot(n)
    BY <1>1, <1>10, <1>12, <2>2, <2>4 DEF RootSlot
  <2>6. RootSlot(n).name # fatName
    BY <1>2, <2>5
  <2>7. \A k \in 0 .. i - 1 : k \in 0 .. n - 1 \/ k = n
    BY <1>7
  <2>8. QED
    BY <2>2, <2>3, <2>6, <2>7
<1>17. RootDirLba' = a /\ (\A k : RootSlot(k)' = RootSlot(k))
  BY <1>10 DEF RootDirLba, RootSlot
<1>18. /\ fd'[Root].Position = (n + 1) * DirEntrySize
       /\ fd'[Root].CurrentCluster = a + ((n + 1) \div EntriesPerSector)
       /\ \/ fd'[Root].Buffer = Junk
          \/ \E s \in 0 .. (n + 1) \div EntriesPerSector : fd'[Root].Buffer = a + s
  BY <1>1, <1>3, <1>7, <1>8, <1>13, <1>15
<1>19. Unfailed' => /\ fd'[Root].Buffer = fd'[Root].CurrentCluster
                    /\ \A k \in 0 .. (n + 1) - 1 : RootSlot(k).name # fatName
  BY <1>3, <1>7, <1>16
<1>20. QED
  BY <1>17, <1>18, <1>19 DEF RootAt

-----------------------------------------------------------------------------
(* The search of a subdirectory. *)

\* A sector of the directory is in the buffer.
LEMMA ClusterInDirectory ==
  ASSUME VolumeAssumption, vol \in Volumes, dataSectionLba = FirstDataLba,
         NEW d \in Listed(vol), NEW k \in DOMAIN Chain(d), NEW s \in Nat, s < vol.sectorsPerCluster
  PROVE  FAT_ClusterToLba(Chain(d)[k]) + s \in DirLbas(vol, d)
<1>1. s \in 0 .. vol.sectorsPerCluster - 1
  BY ChainFacts
<1>2. QED
  BY <1>1 DEF DirLbas, FAT_ClusterToLba, FirstDataLba, Chain

LEMMA FirstCluster ==
  ASSUME VolumeAssumption, vol \in Volumes, dataSectionLba \in Nat, dataSectionLba = FirstDataLba,
         NEW d \in Listed(vol), d.dir
  PROVE  /\ d.first \in Nat /\ d.size = 0
         /\ 1 \in DOMAIN Chain(d) /\ Chain(d)[1] = d.first
         /\ FAT_ClusterToLba(d.first) \in Int
         /\ FAT_ClusterToLba(d.first) \in DirLbas(vol, d)
<1>1. PICK chain \in Seq(Nat) : chain = Chain(d) /\ chain # <<>> /\ chain[1] = d.first
  BY ChainFacts
<1>2. 1 \in DOMAIN chain
  BY <1>1
<1>3. PICK c \in Nat \ {0} : c = vol.sectorsPerCluster
  BY ChainFacts
<1>4. PICK f \in Nat : f = d.first /\ d.size = 0
  BY ChainFacts
<1>5. FAT_ClusterToLba(d.first) \in Int /\ FAT_ClusterToLba(d.first) + 0 = FAT_ClusterToLba(d.first)
  <2>1. (f - 2) * c \in Int
    OBVIOUS
  <2>2. QED
    BY <1>3, <1>4, <2>1 DEF FAT_ClusterToLba
<1>6. FAT_ClusterToLba(Chain(d)[1]) + 0 \in DirLbas(vol, d)
  <2>1. 0 \in Nat /\ 0 < vol.sectorsPerCluster /\ 1 \in DOMAIN Chain(d)
    BY <1>1, <1>2, <1>3
  <2>2. QED
    BY <2>1, ClusterInDirectory
<1>7. QED
  BY <1>1, <1>2, <1>4, <1>5, <1>6

LEMMA DirLimit ==
  ASSUME FatAssumption, NEW f \in FileData, NEW d, TracksDir(f, d)
  PROVE  /\ f.Size = 0 => Limit(f, DirEntrySize) = DirEntrySize
         /\ f.Size # 0 => Limit(f, DirEntrySize) = 0
<1>1. PICK b \in Nat \ {0} : b = DirEntrySize
  BY DEF FatAssumption
<1>2. PICK p \in Nat, z \in Nat : p = f.Position /\ z = f.Size
  BY DEF FileData
<1>3. f.IsDirectory = TRUE
  BY DEF TracksDir, FileData
<1>4. z # 0 => z = p
  BY <1>2 DEF TracksDir
<1>5. CASE z = 0
  BY <1>1, <1>2, <1>3, <1>5 DEF Limit
<1>6. CASE z # 0
  <2>1. z - p = 0 /\ ~(b < 0)
    BY <1>4, <1>6
  <2>2. QED
    BY <1>1, <1>2, <1>6, <2>1 DEF Limit
<1>7. QED
  BY <1>2, <1>5, <1>6

\* The buffer of a directory that is searched holds one of its sectors or none.
LEMMA DirBuffer ==
  ASSUME FatAssumption, VolumeAssumption, vol \in Volumes, dataSectionLba \in Nat,
         dataSectionLba = FirstDataLba, NEW h \in Handles, fd[h] \in FileData,
         NEW d \in Listed(vol), TracksDir(fd[h], d), fd[h].Size = 0,
         NEW it \in Iterate(h, DirEntrySize, 0),
         fd[h].Buffer \in DirLbas(vol, d) \cup {Junk}
  PROVE  it.f.Buffer \in DirLbas(vol, d) \cup {Junk}
<1>1. DirEntrySize \in Nat \ {0} /\ 0 \in Nat
  BY DEF FatAssumption
<1>2. /\ it.f \in FileData /\ TracksDir(it.f, d)
      /\ it.f.Size = 0 =>
           it.f.Buffer \in {fd[h].Buffer, Junk,
                            FAT_ClusterToLba(it.f.CurrentCluster) + it.f.CurrentSectorInCluster}
      /\ it.f.Size # 0 => it.f.Buffer = fd[h].Buffer
  BY <1>1, IterateDirectory
<1>3. CASE it.f.Size # 0
  BY <1>2, <1>3
<1>4. CASE it.f.Size = 0
  <2>1. /\ it.f.CurrentSectorInCluster \in Nat
        /\ it.f.CurrentSectorInCluster < vol.sectorsPerCluster
    BY <1>2 DEF TracksDir, FileData
  <2>2. PICK k \in DOMAIN Chain(d) : it.f.CurrentCluster = Chain(d)[k]
    BY <1>2, <1>4 DEF TracksDir
  <2>3. FAT_ClusterToLba(it.f.CurrentCluster) + it.f.CurrentSectorInCluster \in DirLbas(vol, d)
    BY <2>1, <2>2, ClusterInDirectory
  <2>4. QED
    BY <1>2, <1>4, <2>3
<1>5. QED
  BY <1>3, <1>4

\* The entry found is one of the directory's.
LEMMA DirFound ==
  ASSUME FatAssumption, DirectoryAssumption, vol \in Volumes, NEW f \in FileData,
         NEW d, f.Buffer \in DirLbas(vol, d) \cup {Junk}, EntryAt(f).name # <<>>
  PROVE  EntryAt(f) \in DirEntries(vol, d)
<1>1. PICK k \in 1 .. EntriesPerSector : EntryAt(f) = Slot(vol, f.Buffer, k)
  BY SomeEntry
<1>2. f.Buffer \in DirLbas(vol, d)
  BY <1>1, JunkHasNoName
<1>3. QED
  BY <1>1, <1>2 DEF DirEntries

\* A search that went through found nothing.
LEMMA DirMissing ==
  ASSUME FatAssumption, VolumeAssumption, vol \in Volumes, dataSectionLba \in Nat,
         dataSectionLba = FirstDataLba, target \in Listed(vol), target.dir,
         DirAt(EntriesPerSector), NEW component, fatName = ShortName(component)
  PROVE  Named(DirEntries(vol, target), component) = {}
<1>1. /\ vol.sectorsPerCluster = 1 /\ Len(Chain(target)) = 1
      /\ fd[current].Buffer = FAT_ClusterToLba(target.first)
  BY DEF DirAt
<1>2. DOMAIN Chain(target) = {1} /\ Chain(target)[1] = target.first /\ target.first \in Nat
  BY <1>1, ChainFacts, FirstCluster
<1>3. \A lba \in DirLbas(vol, target) : lba = fd[current].Buffer
  <2> SUFFICES ASSUME NEW lba \in DirLbas(vol, target)
               PROVE  lba = fd[current].Buffer
    OBVIOUS
  <2>1. PICK k \in DOMAIN Chain(target), s \in 0 .. vol.sectorsPerCluster - 1 :
          lba = DataStart(vol) + (Chain(target)[k] - 2) * vol.sectorsPerCluster + s
    BY DEF DirLbas, Chain
  <2>2. k = 1 /\ s = 0
    BY <1>1, <1>2, <2>1
  <2>3. PICK f \in Nat : f = target.first
    BY <1>2
  <2>4. lba = dataSectionLba + (f - 2) * 1 + 0
    BY <1>1, <1>2, <2>1, <2>2, <2>3 DEF FirstDataLba
  <2>5. fd[current].Buffer = dataSectionLba + (f - 2) * 1
    BY <1>1, <2>3 DEF FAT_ClusterToLba
  <2>6. QED
    BY <2>4, <2>5
<1>4. ASSUME NEW e \in Named(DirEntries(vol, target), component)
      PROVE  FALSE
  <2>1. PICK lba \in DirLbas(vol, target), k \in 1 .. EntriesPerSector : e = Slot(vol, lba, k)
    BY <1>4 DEF Named, DirEntries
  <2>2. Slot(vol, fd[current].Buffer, k).name # fatName
    BY DEF DirAt
  <2>3. QED
    BY <1>3, <1>4, <2>1, <2>2 DEF Named
<1>5. QED
  BY <1>4

\* Behind the first sector of a directory a search ends: in the division by the bar's
\* maximum, or because the directory ends there.
LEMMA DirectoryEnds ==
  ASSUME FatAssumption, VolumeAssumption, vol \in Volumes, dataSectionLba \in Nat,
         NEW h \in Handles, fd[h] \in FileData, NEW d \in Listed(vol), d.dir,
         fd[h].CurrentCluster = d.first, fd[h].CurrentSectorInCluster = 0, fd[h].Size = 0,
         NEW it \in Iterate(h, DirEntrySize, 0), it.ok, it.status # "fault",
         Take(fd[h], DirEntrySize) = DirEntrySize,
         (fd[h].Position + DirEntrySize) % SECTOR_SIZE = 0
  PROVE  /\ vol.sectorsPerCluster = 1 /\ Len(Chain(d)) = 1
         /\ it.f.Buffer = fd[h].Buffer /\ it.f.Size # 0
<1>1. PICK b \in Nat \ {0} : b = DirEntrySize
  BY DEF FatAssumption
<1>2. PICK f \in FileData : f = fd[h]
  OBVIOUS
<1>3. PICK p \in Nat : p = f.Position + b
  BY DEF FileData
<1>4. PICK moved : moved = [f EXCEPT !.Position = @ + Take(f, DirEntrySize)]
  OBVIOUS
<1>5. /\ moved = [f EXCEPT !.Position = p]
      /\ moved \in FileData /\ moved.Position = p /\ moved.Buffer = f.Buffer
      /\ moved.CurrentCluster = d.first /\ moved.CurrentSectorInCluster = 0
  <2>1. moved = [f EXCEPT !.Position = p]
    BY <1>1, <1>2, <1>3, <1>4
  <2>2. QED
    BY <1>2, <2>1 DEF FileData
<1>6. it \in NextFileSector(moved, 0, 0)
  <2>1. h # Root
    BY NotHandles
  <2>2. p % SECTOR_SIZE = 0
    BY <1>1, <1>2, <1>3
  <2>3. it \in NextFileSector(moved, DirEntrySize - Take(f, DirEntrySize), 0)
    BY <1>2, <1>4, <1>5, <2>1, <2>2 DEF Iterate
  <2>4. DirEntrySize - Take(f, DirEntrySize) = 0
    BY <1>1, <1>2
  <2>5. QED
    BY <2>3, <2>4
<1>7. PICK g : g = Advance(moved)
  OBVIOUS
<1>8. 0 \div SECTOR_SIZE = 0
  <2>1. PICK w \in Nat \ {0} : w = SECTOR_SIZE
    BY DEF FatAssumption
  <2>2. 0 = (w * 0) + 0 /\ 0 \in 0 .. w - 1
    OBVIOUS
  <2>3. QED
    BY <2>1, <2>2, DivUnique
<1>9. EndOfChain(g.CurrentCluster) /\ it.f = [g EXCEPT !.Size = g.Position]
  <2>1. CASE EndOfChain(g.CurrentCluster)
    BY <1>6, <1>7, <2>1 DEF NextFileSector
  <2>2. CASE ~EndOfChain(g.CurrentCluster)
    <3>1. \E r \in DiskRead(moved.Buffer,
                            FAT_ClusterToLba(g.CurrentCluster) + g.CurrentSectorInCluster) :
            /\ it.ok = r.ok
            /\ it.status = IF ~r.ok THEN "break" ELSE IF 0 = 0 THEN "fault" ELSE "more"
      BY <1>6, <1>7, <1>8, <2>2 DEF NextFileSector
    <3>2. QED
      BY <3>1
  <2>3. QED
    BY <2>1, <2>2
<1>10. PICK c \in Nat \ {0} : c = vol.sectorsPerCluster
  BY ChainFacts
<1>11. PICK chain \in Seq(Nat) : chain = Chain(d)
  BY ChainFacts
<1>12. chain[1] = d.first /\ 1 \in 1 .. Len(chain)
  <2>1. chain # <<>> /\ chain[1] = d.first
    BY <1>11, ChainFacts
  <2>2. QED
    BY <2>1
<1>13. c = 1
  <2>1. CASE 0 + 1 >= c
    BY <2>1
  <2>2. CASE ~(0 + 1 >= c)
    <3>1. g = [moved EXCEPT !.CurrentSectorInCluster = @ + 1]
      BY <1>5, <1>7, <1>10, <2>2 DEF Advance
    <3>2. g.CurrentCluster = d.first
      BY <1>5, <3>1 DEF FileData
    <3>3. ~EndOfChain(d.first)
      BY <1>11, <1>12, ChainFacts
    <3>4. QED
      BY <1>9, <3>2, <3>3
  <2>3. QED
    BY <2>1, <2>2
<1>14. g = [moved EXCEPT !.CurrentSectorInCluster = 0,
                         !.CurrentCluster = FAT_NextCluster(vol.table, @)]
  <2>1. moved.CurrentSectorInCluster + 1 >= vol.sectorsPerCluster
    BY <1>5, <1>10, <1>13
  <2>2. QED
    BY <1>7, <2>1, Zenon DEF Advance
<1>15. g.CurrentCluster = FAT_NextCluster(vol.table, d.first) /\ g.Buffer = f.Buffer
  BY <1>5, <1>14 DEF FileData
<1>16. Len(chain) = 1
  <2>1. PICK l \in Nat : l = Len(chain)
    BY <1>11
  <2>2. ASSUME l > 1
        PROVE  FALSE
    <3>1. FAT_NextCluster(vol.table, chain[1]) = chain[2] /\ 2 \in 1 .. Len(chain)
      BY <1>11, <1>12, <2>1, <2>2, ChainFacts
    <3>2. ~EndOfChain(chain[2])
      BY <1>11, <3>1, ChainFacts
    <3>3. QED
      BY <1>9, <1>12, <1>15, <3>1, <3>2
  <2>3. 1 \in 1 .. l
    BY <1>12, <2>1
  <2>4. QED
    BY <2>1, <2>2, <2>3
<1>17. it.f.Buffer = f.Buffer /\ it.f.Size # 0
  <2>1. g \in FileData /\ g.Position = p /\ g.Buffer = f.Buffer
    <3>1. PICK c2 \in Nat : c2 = FAT_NextCluster(vol.table, d.first)
      <4>1. FAT_NextCluster(vol.table, chain[1]) \in Nat
        BY <1>11, <1>12, ChainFacts
      <4>2. QED
        BY <1>12, <4>1
    <3>2. g = [moved EXCEPT !.CurrentSectorInCluster = 0, !.CurrentCluster = c2]
      BY <1>5, <1>14, <3>1
    <3>3. QED
      BY <1>5, <3>2 DEF FileData
  <2>2. p # 0
    BY <1>1, <1>2, <1>3 DEF FileData
  <2>3. QED
    BY <1>9, <1>15, <2>1, <2>2 DEF FileData
<1>18. QED
  BY <1>2, <1>10, <1>11, <1>13, <1>16, <1>17

\* A step of it.
LEMMA ItsOwnRest ==
  ASSUME NEW n \in Nat, NEW m \in Nat, n < m
  PROVE  n % m = n
<1>1. m \in Nat \ {0} /\ n \in 0 .. m - 1 /\ 0 \in Nat /\ n = (m * 0) + n
  OBVIOUS
<1>2. QED
  BY <1>1, DivUnique

LEMMA DirAdvances ==
  ASSUME FatAssumption, VolumeAssumption, vol \in Volumes, dataSectionLba \in Nat,
         current \in Handles, fd[current] \in FileData, target \in Listed(vol), target.dir,
         TracksDir(fd[current], target), fd[current].Size = 0,
         NEW n \in 0 .. EntriesPerSector - 1, DirAt(n),
         NEW it \in Iterate(current, DirEntrySize, 0), it.ok, it.status # "fault",
         EntryAt(fd[current]).name # fatName, fd'[current] = it.f,
         UNCHANGED <<vol, dataSectionLba, target, current, fatName>>
  PROVE  DirAt(n + 1)'
<1>1. PICK m \in Nat \ {0} : m = EntriesPerSector
  BY SectorHasEntries
<1>2. PICK f \in FileData : f = fd[current]
  OBVIOUS
<1>3. PICK g : g = it.f
  OBVIOUS
<1>4. PICK i \in Nat : i = n + 1 /\ i <= m /\ n \in Nat
  <2>1. n \in 0 .. m - 1
    BY <1>1
  <2>2. n + 1 \in Nat /\ n + 1 <= m /\ n \in Nat
    BY <2>1
  <2>3. QED
    BY <2>2
<1>5. f.Position = n * DirEntrySize /\ f.Buffer = FAT_ClusterToLba(target.first)
  BY <1>2 DEF DirAt
<1>6. /\ EntryAt(f) = Slot(vol, f.Buffer, (n % m) + 1)
      /\ Take(f, DirEntrySize) = DirEntrySize
      /\ f.Position + DirEntrySize = i * DirEntrySize
  BY <1>1, <1>4, <1>5, AtEntry
<1>7. n % m = n
  <2>1. PICK j \in Nat : j = n /\ j < m
    BY <1>4
  <2>2. j % m = j
    BY <2>1, ItsOwnRest
  <2>3. QED
    BY <2>1, <2>2
<1>8. DirEntrySize \in Nat \ {0} /\ 0 \in Nat
  BY DEF FatAssumption
<1>9. /\ g.Position = i * DirEntrySize
      /\ g.Position % SECTOR_SIZE # 0 =>
           /\ g.Size = 0
           /\ g.CurrentCluster = f.CurrentCluster
           /\ g.CurrentSectorInCluster = f.CurrentSectorInCluster
           /\ g.Buffer = f.Buffer
  <2>1. /\ g.Position = f.Position + Take(f, DirEntrySize)
        /\ g.Position % SECTOR_SIZE # 0 =>
             /\ g.Size = 0
             /\ g.CurrentCluster = f.CurrentCluster
             /\ g.CurrentSectorInCluster = f.CurrentSectorInCluster
             /\ g.Buffer = f.Buffer
    BY <1>2, <1>3, <1>8, IterateDirectory
  <2>2. QED
    BY <1>6, <2>1
<1>10. g.Position % SECTOR_SIZE = 0 <=> i % m = 0
  <2>1. PICK d \in Nat \ {0} : d = DirEntrySize
    BY <1>8
  <2>2. PICK w \in Nat \ {0} : w = d * m
    OBVIOUS
  <2>3. PICK p \in Nat : p = i * d
    OBVIOUS
  <2>4. Begins(i, p, d, m, w)
    BY <2>2, <2>3, Positions
  <2>5. p % w = 0 <=> i % m = 0
    BY <2>4 DEF Begins
  <2>6. SECTOR_SIZE = w
    BY <1>1, <2>1, <2>2, SectorHasEntries
  <2>7. QED
    BY <1>9, <2>1, <2>3, <2>5, <2>6
<1>11. i % m = 0 <=> i = m
  <2>1. CASE i = m
    <3>1. i = (m * 1) + 0 /\ 0 \in 0 .. m - 1
      BY <2>1
    <3>2. i % m = 0
      BY <3>1, DivUnique
    <3>3. QED
      BY <2>1, <3>2
  <2>2. CASE i # m
    <3>1. i = (m * 0) + i /\ i \in 0 .. m - 1 /\ i # 0
      BY <1>4, <2>2
    <3>2. i % m = i
      BY <3>1, DivUnique
    <3>3. QED
      BY <2>2, <3>1, <3>2
  <2>3. QED
    BY <2>1, <2>2
<1>12. i = m => /\ vol.sectorsPerCluster = 1 /\ Len(Chain(target)) = 1
                /\ g.Buffer = f.Buffer /\ g.Size # 0
  <2> SUFFICES ASSUME i = m
               PROVE  /\ vol.sectorsPerCluster = 1 /\ Len(Chain(target)) = 1
                      /\ g.Buffer = f.Buffer /\ g.Size # 0
    OBVIOUS
  <2>1. (f.Position + DirEntrySize) % SECTOR_SIZE = 0
    BY <1>6, <1>9, <1>10, <1>11
  <2>2. n < EntriesPerSector
    BY <1>1, <1>4
  <2>3. f.CurrentCluster = target.first /\ f.CurrentSectorInCluster = 0
    BY <1>2, <2>2 DEF DirAt
  <2>4. QED
    BY <1>2, <1>3, <1>6, <2>1, <2>3, DirectoryEnds
<1>13. g.Buffer = f.Buffer
  BY <1>9, <1>10, <1>11, <1>12
<1>14. \A k \in 1 .. i : Slot(vol, g.Buffer, k).name # fatName
  <2>1. \A k \in 1 .. n : Slot(vol, f.Buffer, k).name # fatName
    BY <1>2 DEF DirAt
  <2>2. Slot(vol, f.Buffer, i).name # fatName
    BY <1>2, <1>4, <1>6, <1>7
  <2>3. \A k \in 1 .. i : k \in 1 .. n \/ k = i
    BY <1>4
  <2>4. QED
    BY <1>13, <2>1, <2>2, <2>3
<1>15. i < m => g.Size = 0 /\ g.CurrentCluster = target.first /\ g.CurrentSectorInCluster = 0
  <2>1. n < EntriesPerSector
    BY <1>1, <1>4
  <2>2. f.CurrentCluster = target.first /\ f.CurrentSectorInCluster = 0
    BY <1>2, <2>1 DEF DirAt
  <2>3. i < m => i # m
    BY <1>4
  <2>4. QED
    BY <1>9, <1>10, <1>11, <2>2, <2>3
<1>16. FAT_ClusterToLba(target.first)' = FAT_ClusterToLba(target.first)
  BY DEF FAT_ClusterToLba
<1>17. Chain(target)' = Chain(target)
  BY DEF Chain
<1>18. /\ fd'[current].Position = (n + 1) * DirEntrySize
       /\ fd'[current].Buffer = FAT_ClusterToLba(target.first)
       /\ \A k \in 1 .. n + 1 : Slot(vol, fd'[current].Buffer, k).name # fatName
       /\ n + 1 < EntriesPerSector => /\ fd'[current].Size = 0
                                      /\ fd'[current].CurrentCluster = target.first
                                      /\ fd'[current].CurrentSectorInCluster = 0
       /\ n + 1 = EntriesPerSector => /\ fd'[current].Size # 0
                                      /\ vol.sectorsPerCluster = 1
                                      /\ Len(Chain(target)) = 1
  BY <1>1, <1>3, <1>4, <1>5, <1>9, <1>12, <1>13, <1>14, <1>15
<1>19. QED
  BY <1>16, <1>17, <1>18 DEF DirAt

-----------------------------------------------------------------------------
(* What a search finds. *)

LEMMA FromTheEnd ==
  ASSUME NEW n \in Nat, NEW l \in Nat, l > 0, l <= n
  PROVE  \E i \in Nat : i = n - l + 1 /\ i > 0 /\ i <= n /\ (i = n <=> l = 1)
<1>1. n - l \in Nat
  OBVIOUS
<1>2. PICK i \in Nat : i = n - l + 1
  BY <1>1
<1>3. i > 0 /\ i <= n /\ (i = n <=> l = 1)
  BY <1>2
<1>4. QED
  BY <1>2, <1>3

\* The component looked for is the first of those left.
LEMMA Component ==
  ASSUME ClientAssumption, CallKept, op \in {"find", "entry"},
         path \in Seq(Seq(STRING)), path # <<>>
  PROVE  /\ Level \in Nat /\ Level > 0 /\ Level <= Len(call.path) /\ Len(call.path) \in Nat
         /\ Level = Len(call.path) <=> Len(path) = 1
         /\ call.path \in Seq(Seq(STRING)) /\ DOMAIN call.path = 1 .. Len(call.path)
         /\ path[1] = call.path[Level]
         /\ \A k \in 1 .. Len(call.path) :
              /\ call.path[k] \in Seq(STRING)
              /\ \A i \in DOMAIN call.path[k] : call.path[k][i] # "NUL"
         /\ Len(path) > 1 => path[2] = call.path[Level + 1]
<1>1. call.path \in Paths /\ Len(path) <= Len(call.path)
  BY DEF CallKept
<1>2. /\ call.path \in Seq(Seq(STRING))
      /\ \A k \in DOMAIN call.path : \A i \in DOMAIN call.path[k] : call.path[k][i] # "NUL"
  BY <1>1 DEF ClientAssumption
<1>3. PICK cp \in Seq(Seq(STRING)) : cp = call.path
  BY <1>2
<1>4. PICK n \in Nat : n = Len(cp) /\ DOMAIN cp = 1 .. n /\ (\A k \in 1 .. n : cp[k] \in Seq(STRING))
  OBVIOUS
<1>5. PICK l \in Nat : l = Len(path) /\ l > 0 /\ l <= n
  <2>1. Len(path) \in Nat /\ Len(path) > 0
    OBVIOUS
  <2>2. QED
    BY <1>1, <1>3, <1>4, <2>1
<1>6. PICK i \in Nat : i = n - l + 1 /\ i > 0 /\ i <= n /\ (i = n <=> l = 1)
  <2>1. \E i \in Nat : i = n - l + 1 /\ i > 0 /\ i <= n /\ (i = n <=> l = 1)
    BY <1>5, FromTheEnd
  <2>2. QED
    BY <2>1
<1>7. i = Level
  BY <1>3, <1>4, <1>5, <1>6 DEF Level
<1>8. \A k \in 1 .. l : path[k] = cp[n - l + k]
  BY <1>3, <1>4, <1>5 DEF CallKept
<1>9. path[1] = cp[i]
  <2>1. 1 \in 1 .. l /\ n - l + 1 = i
    BY <1>5, <1>6
  <2>2. QED
    BY <1>8, <2>1
<1>10. l > 1 => path[2] = cp[i + 1]
  <2>1. l > 1 => 2 \in 1 .. l /\ n - l + 2 = i + 1
    BY <1>5, <1>6
  <2>2. QED
    BY <1>8, <2>1
<1>11. \A k \in 1 .. n : \A c \in DOMAIN cp[k] : cp[k][c] # "NUL"
  BY <1>2, <1>3, <1>4
<1>12. QED
  BY <1>3, <1>4, <1>5, <1>6, <1>7, <1>9, <1>10, <1>11

\* The directory the component is looked for in.
Entries == IF current = Root THEN RootEntries(vol) ELSE DirEntries(vol, target)

LEMMA LooksIn ==
  ASSUME FatAssumption, NameAssumption, VolumeAssumption, DirectoryAssumption, ClientAssumption,
         DriverOK, CallKept, Judged, OnTheWay, op = "find"
  PROVE  /\ Reached(call.path, Level) = Named(Entries, call.path[Level])
         /\ Distinct(Entries)
<1>1. /\ vol \in Volumes /\ Searching /\ path \in Seq(Seq(STRING)) /\ path # <<>>
  BY DEF DriverOK, DriverTypes, InCall, Searching
<1>2. /\ Level \in Nat /\ Level > 0 /\ Level <= Len(call.path)
      /\ \A k \in 1 .. Len(call.path) : call.path[k] \in Seq(STRING)
      /\ Len(call.path) \in Nat
  BY <1>1, Component
<1>3. PICK i \in Nat : i = Level /\ i \in 1 .. Len(call.path) /\ call.path[i] \in Seq(STRING)
  <2>1. Level \in 1 .. Len(call.path)
    BY <1>2
  <2>2. QED
    BY <1>2, <2>1
<1>4. CASE current = Root
  <2>1. i = 1
    BY <1>3, <1>4 DEF OnTheWay, InRoot
  <2>2. Reached(call.path, 1) = Named(RootEntries(vol), call.path[1])
    BY <1>1, <1>3, <2>1, ReachedFirst
  <2>3. Distinct(RootEntries(vol))
    BY <1>1 DEF DirectoryAssumption
  <2>4. QED
    BY <1>3, <1>4, <2>1, <2>2, <2>3 DEF Entries
<1>5. CASE current # Root
  <2>1. target \in Listed(vol) /\ target.dir
    BY <1>1, <1>5 DEF Searching
  <2>2. i > 1 /\ Reached(call.path, i - 1) = {target}
    BY <1>3, <1>5 DEF OnTheWay, InDirectory
  <2>3. PICK j \in Nat \ {0} : j = i - 1 /\ j + 1 = i
    BY <2>2
  <2>4. Reached(call.path, j) = {target} /\ call.path[j + 1] \in Seq(STRING)
    BY <1>3, <2>2, <2>3
  <2>5. Reached(call.path, j + 1) = Named(DirEntries(vol, target), call.path[j + 1])
    BY <1>1, <2>1, <2>4, ReachedNext
  <2>6. Distinct(DirEntries(vol, target))
    BY <1>1, <2>1 DEF DirectoryAssumption
  <2>7. QED
    BY <1>3, <1>5, <2>3, <2>5, <2>6 DEF Entries
<1>6. QED
  BY <1>4, <1>5

\* The entry with the name is the one the path leads to.
LEMMA FoundIs ==
  ASSUME FatAssumption, NameAssumption, VolumeAssumption, DirectoryAssumption, ClientAssumption,
         DriverOK, RootRests, CallKept, Judged, OnTheWay, op = "find",
         Limit(fd[current], DirEntrySize) # 0, EntryAt(fd[current]).name = fatName
  PROVE  Reached(call.path, Level) = {EntryAt(fd[current])}
<1>1. /\ Reached(call.path, Level) = Named(Entries, call.path[Level])
      /\ Distinct(Entries)
  BY LooksIn
<1>2. /\ vol \in Volumes /\ Searching /\ path \in Seq(Seq(STRING)) /\ path # <<>>
      /\ fatName # <<>> /\ fd \in [Handles \cup {Root} -> FileData]
  BY DEF DriverOK, DriverTypes, InCall, Searching
<1>3. PICK component \in Seq(STRING) : component = call.path[Level] /\ component = path[1]
  <2>1. Level \in 1 .. Len(call.path)
    BY <1>2, Component
  <2>2. call.path[Level] \in Seq(STRING) /\ path[1] = call.path[Level]
    BY <1>2, <2>1, Component
  <2>3. QED
    BY <2>2
<1>4. fatName = ShortName(component)
  BY <1>3 DEF OnTheWay
<1>5. PICK e : e = EntryAt(fd[current])
  OBVIOUS
<1>6. e \in Entries
  <2>1. CASE current = Root
    <3>1. PICK n \in 0 .. vol.dirEntryCount : RootAt(n)
      BY <2>1 DEF OnTheWay, InRoot
    <3>2. fd[Root].Position = n * DirEntrySize /\ fd[Root].Size = RootDirSize
      BY <3>1 DEF RootAt, RootRests, Active
    <3>3. n < vol.dirEntryCount
      BY <1>2, <2>1, <3>2, RootLimit
    <3>4. n \in 0 .. vol.dirEntryCount - 1
      <4>1. vol.dirEntryCount \in Nat
        BY <1>2 DEF VolumeAssumption
      <4>2. QED
        BY <3>3, <4>1
    <3>5. EntryAt(fd[Root]) \in RootEntries(vol)
      BY <1>2, <2>1, <3>1, <3>4, RootFound
    <3>6. QED
      BY <1>5, <2>1, <3>5 DEF Entries
  <2>2. CASE current # Root
    <3>1. fd[current].Buffer \in DirLbas(vol, target) \cup {Junk}
      BY <2>2 DEF OnTheWay, InDirectory
    <3>2. fd[current] \in FileData
      BY <1>2, <2>2 DEF Searching
    <3>3. EntryAt(fd[current]) \in DirEntries(vol, target)
      BY <1>2, <3>1, <3>2, DirFound
    <3>4. QED
      BY <1>5, <2>2, <3>3 DEF Entries
  <2>3. QED
    BY <2>1, <2>2
<1>7. e \in Named(Entries, component)
  BY <1>4, <1>5, <1>6 DEF Named
<1>8. QED
  BY <1>1, <1>3, <1>5, <1>7, NamedOnce

\* Where nothing can be read any more, the path leads to nothing.
LEMMA MissingIs ==
  ASSUME FatAssumption, NameAssumption, VolumeAssumption, DirectoryAssumption, ClientAssumption,
         DriverOK, RootRests, CallKept, Judged, OnTheWay, op = "find", Unfailed,
         Limit(fd[current], DirEntrySize) = 0
  PROVE  Reached(call.path, Level) = {}
<1>1. Reached(call.path, Level) = Named(Entries, call.path[Level])
  BY LooksIn
<1>2. /\ vol \in Volumes /\ Searching /\ path \in Seq(Seq(STRING)) /\ path # <<>>
      /\ fd \in [Handles \cup {Root} -> FileData]
      /\ dataSectionLba \in Nat /\ dataSectionLba = FirstDataLba
  BY DEF DriverOK, DriverTypes, RootOK, Active, InCall, Searching
<1>3. fatName = ShortName(call.path[Level])
  BY <1>2, Component DEF OnTheWay
<1>4. CASE current = Root
  <2>1. PICK n \in 0 .. vol.dirEntryCount : RootAt(n)
    BY <1>4 DEF OnTheWay, InRoot
  <2>2. fd[Root].Position = n * DirEntrySize /\ fd[Root].Size = RootDirSize
    BY <2>1 DEF RootAt, RootRests, Active
  <2>3. ~(n < vol.dirEntryCount)
    BY <1>2, <1>4, <2>2, RootLimit
  <2>4. n = vol.dirEntryCount
    <3>1. vol.dirEntryCount \in Nat
      BY <1>2 DEF VolumeAssumption
    <3>2. QED
      BY <2>3, <3>1
  <2>5. Named(RootEntries(vol), call.path[Level]) = {}
    BY <1>2, <1>3, <2>1, <2>4, RootMissing
  <2>6. QED
    BY <1>1, <1>4, <2>5 DEF Entries
<1>5. CASE current # Root
  <2>1. PICK n \in 0 .. EntriesPerSector : DirAt(n)
    BY <1>5 DEF OnTheWay, InDirectory
  <2>2. /\ fd[current] \in FileData /\ TracksDir(fd[current], target)
        /\ target \in Listed(vol) /\ target.dir
    BY <1>2, <1>5 DEF Searching
  <2>3. fd[current].Size # 0
    <3>1. DirEntrySize # 0
      BY DEF FatAssumption
    <3>2. QED
      BY <2>2, <3>1, DirLimit
  <2>4. n = EntriesPerSector
    <3>1. EntriesPerSector \in Nat /\ ~(n < EntriesPerSector)
      BY <2>1, <2>3, SectorHasEntries DEF DirAt
    <3>2. QED
      BY <3>1
  <2>5. Named(DirEntries(vol, target), call.path[Level]) = {}
    BY <1>2, <1>3, <2>1, <2>2, <2>4, DirMissing
  <2>6. QED
    BY <1>1, <1>5, <2>5 DEF Entries
<1>6. QED
  BY <1>4, <1>5

\* Where a path leads does not change.
LEMMA TruthKept ==
  ASSUME vol' = vol
  PROVE  /\ \A p, n : Reached(p, n)' = Reached(p, n)
         /\ \A p : Resolve(p)' = Resolve(p)
         /\ RootDirLba' = RootDirLba /\ RootDirSize' = RootDirSize
         /\ \A p : Resolve(p) = Reached(p, Len(p))
<1>1. \A p, n : Walks(p, n)' = Walks(p, n)
  BY DEF Walks
<1>2. QED
  BY <1>1 DEF Reached, Resolve, RootDirLba, RootDirSize

\* A path that leads nowhere at some component names nothing.
LEMMA LeadsNowhere ==
  ASSUME NEW p, Len(p) \in Nat, NEW n \in Nat \ {0}, n <= Len(p), Reached(p, n) = {}
  PROVE  Resolve(p) = {}
<1>1. n \in 1 .. Len(p)
  OBVIOUS
<1>2. Reached(p, Len(p)) = {}
  BY <1>1, ReachedNone
<1>3. QED
  BY <1>2 DEF Resolve, Reached

-----------------------------------------------------------------------------
(* Steps. *)

\* Failed reads are only ever added.
LEMMA FailuresGrow ==
  ASSUME failures \in Nat, NEW ok, Counted(ok)
  PROVE  /\ failures' \in Nat /\ failures <= failures'
         /\ failures' = failures => ok
<1>1. CASE ok
  BY <1>1 DEF Counted
<1>2. CASE ~ok
  BY <1>2 DEF Counted
<1>3. QED
  BY <1>1, <1>2

\* A closed root directory is at its beginning.
LEMMA RootCloses ==
  ASSUME NEW f \in FileData
  PROVE  /\ AfterClose(Root, f).Size = f.Size
         /\ AfterClose(Root, f).FirstCluster = f.FirstCluster
         /\ AfterClose(Root, f).Position = 0
         /\ AfterClose(Root, f).CurrentCluster = f.FirstCluster
<1>1. PICK c \in Nat : c = f.FirstCluster
  BY DEF FileData
<1>2. PICK g : g = [f EXCEPT !.Position = 0, !.CurrentCluster = c]
  OBVIOUS
<1>3. AfterClose(Root, f) = g
  BY <1>1, <1>2 DEF AfterClose
<1>4. QED
  BY <1>1, <1>2, <1>3 DEF FileData

LEMMA FindRests ==
  ASSUME FatAssumption, VolumeAssumption, DriverOK, RootRests, FAT_FindFile
  PROVE  RootRests'
<1>1. op = "find" /\ vol' = vol /\ current' = current
  BY DEF FAT_FindFile
<1>2. PICK f \in FileData :
           /\ f.Opened = fd[current].Opened
           /\ current = Root => f.IsDirectory = TRUE /\ (f.Size = 0 \/ f.Position <= f.Size)
           /\ current = Root => f.Size = fd[Root].Size /\ f.FirstCluster = fd[Root].FirstCluster
           /\ current # Root => TracksDir(f, target)
           /\ \/ /\ op' \in {"idle", "entry"}
                 /\ fd' = [fd EXCEPT ![current] = AfterClose(current, f)]
                 /\ op' = "entry" => /\ target' \in Listed(vol) /\ target'.name = fatName
                                     /\ Len(path) = 1 \/ target'.dir
                 /\ op' = "idle" => ret' = NULL
                 /\ ret' \in {ret, NULL}
              \/ /\ op' = "find"
                 /\ fd' = [fd EXCEPT ![current] = f]
                 /\ UNCHANGED <<target, ret, names>>
              \/ /\ op' = "fault" /\ current # Root
                 /\ UNCHANGED <<fd, ret>>
           /\ failures' \in 0 .. MaxFailures
           /\ tainted' \in {tainted, tainted \cup {current}}
  BY FindOutcome
<1>3. PICK g : g = AfterClose(current, f)
  OBVIOUS
<1>4. /\ fd[Root].Size = RootDirSize /\ fd[Root].FirstCluster = RootDirLba
      /\ current # Root => fd[Root].Position = 0 /\ fd[Root].CurrentCluster = RootDirLba
  BY <1>1 DEF RootRests, Active
<1>5. \/ op' \in {"idle", "entry"} /\ fd' = [fd EXCEPT ![current] = g]
      \/ op' = "find" /\ fd' = [fd EXCEPT ![current] = f]
      \/ op' = "fault"
  BY <1>2, <1>3
<1>6. fd \in [Handles \cup {Root} -> FileData]
  BY DEF DriverOK, DriverTypes
<1>7. RootDirLba' = RootDirLba /\ RootDirSize' = RootDirSize
  BY <1>1, TruthKept
<1>8. CASE current # Root
  <2>1. op' = "fault" \/ fd'[Root] = fd[Root]
    BY <1>5, <1>6, <1>8
  <2>2. CASE op' = "fault"
    BY <2>2 DEF RootRests, Active
  <2>3. CASE fd'[Root] = fd[Root]
    <3>1. /\ fd'[Root].Size = RootDirSize' /\ fd'[Root].FirstCluster = RootDirLba'
          /\ fd'[Root].Position = 0 /\ fd'[Root].CurrentCluster = RootDirLba'
      BY <1>4, <1>7, <1>8, <2>3
    <3>2. QED
      BY <3>1 DEF RootRests
  <2>4. QED
    BY <2>1, <2>2, <2>3
<1>9. CASE current = Root
  <2>1. /\ g.Size = RootDirSize /\ g.FirstCluster = RootDirLba
        /\ g.Position = 0 /\ g.CurrentCluster = RootDirLba
    BY <1>2, <1>3, <1>4, <1>9, RootCloses
  <2>2. f.Size = RootDirSize /\ f.FirstCluster = RootDirLba
    BY <1>2, <1>4, <1>9
  <2>3. /\ op' \in {"idle", "entry"} => fd'[Root] = g
        /\ op' = "find" => fd'[Root] = f
    BY <1>5, <1>6, <1>9
  <2>4. QED
    BY <1>1, <1>5, <1>7, <1>9, <2>1, <2>2, <2>3 DEF RootRests, Active
<1>10. QED
  BY <1>8, <1>9

\* What is left of the path stays while the call goes on.
LEMMA CallStays ==
  ASSUME CallKept, call' = call, path' = path, held' = held, failures \in Nat,
         failures' \in Nat, failures <= failures', op \in {"find", "entry"},
         op' \in {"idle", "find", "entry", "fault"}
  PROVE  CallKept'
<1>1. PICK b \in Nat : b = call.before /\ b <= failures
  BY DEF CallKept
<1>2. b <= failures'
  BY <1>1
<1>3. /\ call.open /\ call.path \in Paths
      /\ call.room => held # Handles
      /\ Len(path) <= Len(call.path)
      /\ \A k \in 1 .. Len(path) : path[k] = call.path[Len(call.path) - Len(path) + k]
  BY DEF CallKept
<1>4. /\ call'.open /\ call'.path \in Paths
      /\ call'.room => held' # Handles
      /\ Len(path') <= Len(call'.path)
      /\ \A k \in 1 .. Len(path') : path'[k] = call'.path[Len(call'.path) - Len(path') + k]
  BY <1>3
<1>5. call'.before \in Nat /\ call'.before <= failures'
  BY <1>1, <1>2
<1>6. QED
  BY <1>4, <1>5 DEF CallKept

\* The first component of a search's path, and how far it is.
LEMMA Unmoved ==
  ASSUME call' = call, path' = path
  PROVE  Level' = Level
BY DEF Level

\* A search over in which the name was found.
LEMMA SearchFinds ==
  ASSUME FatAssumption, NameAssumption, VolumeAssumption, ClientAssumption,
         vol \in Volumes, CallKept, op \in {"find", "entry"},
         path \in Seq(Seq(STRING)), path # <<>>,
         NEW f, NEW e, Reached(call.path, Level) = {e}, SearchEnds(f, e, TRUE),
         vol' = vol, call' = call, path' = path
  PROVE  OnTheWay'
<1>1. /\ target' = e
      /\ Len(path) = 1 \/ e.dir => op' = "entry"
      /\ ~(Len(path) = 1 \/ e.dir) => op' = "idle" /\ ret' = NULL
  BY DEF SearchEnds
<1>2. CASE Len(path) = 1 \/ e.dir
  <2>1. Reached(call'.path, Level') = {target'}
    BY <1>1, Unmoved
  <2>2. Reached(call.path, Level)' = {target'}
    BY <2>1, TruthKept
  <2>3. QED
    BY <1>1, <1>2, <2>2 DEF OnTheWay
<1>3. CASE ~(Len(path) = 1 \/ e.dir)
  <2>1. PICK n \in Nat, i \in Nat \ {0} :
          n = Len(call.path) /\ i = Level /\ i <= n /\ (i = n <=> Len(path) = 1)
    BY Component
  <2>2. i + 1 \in 1 .. n /\ i + 1 \in Nat \ {0} /\ i + 1 <= n
    BY <1>3, <2>1
  <2>3. call.path[i + 1] \in Seq(STRING)
    BY <2>1, <2>2, Component
  <2>4. Reached(call.path, i + 1) = {}
    BY <1>3, <2>1, <2>3, ReachedNext
  <2>5. Resolve(call.path) = {}
    BY <2>1, <2>2, <2>4, LeadsNowhere
  <2>6. Resolve(call'.path) = {}
    BY <2>5
  <2>7. Resolve(call.path)' = {}
    BY <2>6, TruthKept
  <2>8. QED
    BY <1>1, <1>3, <2>7 DEF OnTheWay
<1>4. QED
  BY <1>2, <1>3

LEMMA FindSearch ==
  ASSUME ClientInv, SearchInv, Step, FAT_FindFile
  PROVE  SearchInv'
<1>1. /\ DriverOK /\ RootRests /\ CallKept /\ (Judged => OnTheWay) /\ op = "find"
      /\ FatAssumption /\ NameAssumption /\ VolumeAssumption /\ DirectoryAssumption
      /\ ClientAssumption
  BY FatAssumption, NameAssumption, VolumeAssumption, DirectoryAssumption, ClientAssumption
     DEF ClientInv, SearchInv, FAT_FindFile
<1>2. /\ vol \in Volumes /\ dataSectionLba \in Nat /\ dataSectionLba = FirstDataLba
      /\ fd \in [Handles \cup {Root} -> FileData]
      /\ failures \in Nat /\ Searching /\ path \in Seq(Seq(STRING)) /\ path # <<>>
  BY <1>1 DEF DriverOK, DriverTypes, RootOK, Active, InCall, Searching
<1>3. /\ vol' = vol /\ dataSectionLba' = dataSectionLba /\ path' = path /\ current' = current
      /\ call' = call /\ held' = held
  BY <1>1 DEF FAT_FindFile, Step
<1>4. RootRests'
  BY <1>1, FindRests
<1>5. failures' \in Nat /\ failures <= failures'
  <2>1. (\E ok : Counted(ok)) \/ failures' = failures
    BY DEF FAT_FindFile
  <2>2. QED
    BY <1>2, <2>1, FailuresGrow
<1>6. CallKept'
  <2>1. op' \in {"idle", "find", "entry", "fault"}
    BY <1>1 DEF FAT_FindFile, SearchEnds
  <2>2. QED
    BY <1>1, <1>2, <1>3, <1>5, <2>1, CallStays
<1>7. call.before \in Nat /\ call.before <= failures /\ call.open
  BY <1>1 DEF CallKept
<1>8. Unfailed' => Unfailed /\ failures' = failures
  <2>1. failures' = call.before => failures = call.before
    BY <1>2, <1>5, <1>7
  <2>2. QED
    BY <1>3, <2>1 DEF Unfailed
<1>9. PICK f \in FileData : f = fd[current]
  BY <1>2 DEF Searching
<1>10. ASSUME Judged
       PROVE  OnTheWay'
  <2>1. OnTheWay
    BY <1>1, <1>10
  <2>2. CASE Limit(f, DirEntrySize) = 0
    <3>1. SearchEnds(f, NoEntry, FALSE)
      BY <1>9, <2>2 DEF FAT_FindFile
    <3>2. op' = "idle" /\ ret' = NULL
      BY <3>1 DEF SearchEnds
    <3>3. Unfailed => Resolve(call.path) = {}
      <4>1. Unfailed => Reached(call.path, Level) = {}
        BY <1>1, <1>9, <1>10, <2>1, <2>2, MissingIs
      <4>2. Len(call.path) \in Nat /\ Level \in Nat \ {0} /\ Level <= Len(call.path)
        BY <1>1, <1>2, Component
      <4>3. QED
        BY <4>1, <4>2, LeadsNowhere
    <3>4. Unfailed => Resolve(call'.path) = {}
      BY <1>3, <3>3
    <3>5. Unfailed => Resolve(call.path)' = {}
      BY <1>3, <3>4, TruthKept
    <3>6. QED
      BY <1>8, <3>2, <3>5 DEF OnTheWay
  <2>3. CASE Limit(f, DirEntrySize) # 0
    <3>1. current = Root =>
            \E n \in 0 .. vol.dirEntryCount : RootAt(n) /\ n < vol.dirEntryCount
      <4> SUFFICES ASSUME current = Root
                   PROVE  \E n \in 0 .. vol.dirEntryCount : RootAt(n) /\ n < vol.dirEntryCount
        OBVIOUS
      <4>1. PICK n \in 0 .. vol.dirEntryCount : RootAt(n)
        BY <1>1, <2>1 DEF OnTheWay, InRoot
      <4>2. f.Position = n * DirEntrySize /\ f.Size = RootDirSize
        BY <1>1, <1>9, <4>1 DEF RootAt, RootRests, Active
      <4>3. n < vol.dirEntryCount
        BY <1>1, <1>2, <2>3, <4>2, RootLimit
      <4>4. QED
        BY <4>1, <4>3
    <3>2. Limit(f, DirEntrySize) = DirEntrySize /\ (current # Root => f.Size = 0)
      <4>1. CASE current = Root
        <5>1. PICK n \in 0 .. vol.dirEntryCount : RootAt(n) /\ n < vol.dirEntryCount
          BY <3>1, <4>1
        <5>2. f.Position = n * DirEntrySize /\ f.Size = RootDirSize
          BY <1>1, <1>9, <4>1, <5>1 DEF RootAt, RootRests, Active
        <5>3. QED
          BY <1>1, <1>2, <4>1, <5>1, <5>2, RootLimit
      <4>2. CASE current # Root
        <5>1. TracksDir(f, target)
          BY <1>2, <1>9, <4>2 DEF Searching
        <5>2. QED
          BY <1>1, <2>3, <5>1, DirLimit
      <4>3. QED
        BY <4>1, <4>2
    <3>3. PICK it \in Iterate(current, DirEntrySize, 0) :
            /\ Counted(it.ok)
            /\ \/ /\ it.status # "fault"
                  /\ EntryAt(f).name = fatName
                  /\ SearchEnds(it.f, EntryAt(f), TRUE)
               \/ /\ it.status # "fault"
                  /\ EntryAt(f).name # fatName
                  /\ fd' = [fd EXCEPT ![current] = it.f]
                  /\ UNCHANGED <<op, target, ret, names>>
               \/ op' = "fault"
      BY <1>9, <2>3, <3>2 DEF FAT_FindFile
    <3>4. CASE EntryAt(f).name = fatName /\ SearchEnds(it.f, EntryAt(f), TRUE)
      <4>1. PICK e : e = EntryAt(f)
        OBVIOUS
      <4>2. Reached(call.path, Level) = {e}
        BY <1>1, <1>9, <1>10, <2>1, <2>3, <3>4, <4>1, FoundIs
      <4>3. SearchEnds(it.f, e, TRUE)
        BY <3>4, <4>1
      <4>4. QED
        BY <1>1, <1>2, <1>3, <4>2, <4>3, SearchFinds
    <3>5. CASE op' = "fault"
      BY <3>5 DEF OnTheWay
    <3>6. CASE /\ it.status # "fault"
               /\ EntryAt(f).name # fatName
               /\ fd' = [fd EXCEPT ![current] = it.f]
               /\ UNCHANGED <<op, target, ret, names>>
      <4>1. /\ op' = "find" /\ target' = target /\ fatName' = fatName
            /\ current \in Handles \cup {Root} /\ fd'[current] = it.f
        BY <1>1, <1>2, <3>6 DEF names, Searching
      <4>2. fatName' = ShortName(path'[1])
        BY <1>1, <1>3, <2>1, <4>1 DEF OnTheWay
      <4>3. ASSUME current = Root
            PROVE  InRoot'
        <5>1. PICK n \in 0 .. vol.dirEntryCount : RootAt(n) /\ n < vol.dirEntryCount
          BY <3>1, <4>3
        <5>2. n \in Nat /\ n + 1 \in 0 .. vol.dirEntryCount
          <6>1. vol.dirEntryCount \in Nat
            BY <1>1, <1>2 DEF VolumeAssumption
          <6>2. QED
            BY <5>1, <6>1
        <5>3. EntryAt(fd[Root]).name # fatName /\ fd'[Root] = it.f /\ fd[Root] \in FileData
          BY <1>9, <3>6, <4>1, <4>3
        <5>4. it \in Iterate(Root, DirEntrySize, 0)
          BY <4>3
        <5>5. RootAt(n + 1)'
          BY <1>1, <1>2, <1>3, <1>7, <3>3, <4>1, <5>1, <5>2, <5>3, <5>4, RootAdvances
        <5>6. Level' = 1
          BY <1>1, <1>3, <2>1, <4>3, Unmoved DEF OnTheWay, InRoot
        <5>7. n + 1 \in 0 .. vol'.dirEntryCount
          BY <1>3, <5>2
        <5>8. QED
          BY <5>5, <5>6, <5>7 DEF InRoot
      <4>4. ASSUME current # Root
            PROVE  InDirectory'
        <5>1. /\ InDirectory /\ current \in Handles /\ target \in Listed(vol) /\ target.dir
              /\ TracksDir(fd[current], target) /\ fd[current].Size = 0
              /\ fd[current] \in FileData
          BY <1>1, <1>2, <1>9, <2>1, <3>2, <4>4 DEF OnTheWay, Searching
        <5>2. Level' > 1 /\ Reached(call.path, Level - 1)' = {target'}
          <6>1. Level > 1 /\ Reached(call.path, Level - 1) = {target} /\ Level' = Level
            BY <1>3, <5>1, Unmoved DEF InDirectory
          <6>2. Reached(call'.path, Level' - 1) = {target'}
            BY <1>3, <4>1, <6>1
          <6>3. QED
            BY <1>3, <6>1, <6>2, TruthKept
        <5>3. it.f.Buffer \in DirLbas(vol, target) \cup {Junk}
          <6>1. fd[current].Buffer \in DirLbas(vol, target) \cup {Junk}
            BY <5>1 DEF InDirectory
          <6>2. QED
            BY <1>1, <1>2, <3>3, <5>1, <6>1, DirBuffer
        <5>4. fd'[current'].Buffer \in DirLbas(vol', target') \cup {Junk}
          BY <1>3, <4>1, <5>3
        <5>5. ASSUME Unfailed'
              PROVE  \E n \in 0 .. EntriesPerSector : DirAt(n)'
          <6>1. Unfailed /\ it.ok
            BY <1>2, <1>8, <3>3, <5>5, FailuresGrow
          <6>2. PICK n \in 0 .. EntriesPerSector : DirAt(n)
            BY <5>1, <6>1 DEF InDirectory
          <6>3. n # EntriesPerSector
            BY <5>1, <6>2 DEF DirAt
          <6>4. n \in 0 .. EntriesPerSector - 1 /\ n + 1 \in 0 .. EntriesPerSector
            <7>1. EntriesPerSector \in Nat
              BY <1>1, SectorHasEntries
            <7>2. QED
              BY <6>3, <7>1
          <6>5. EntryAt(fd[current]).name # fatName
            BY <1>9, <3>6
          <6>6. DirAt(n + 1)'
            BY <1>1, <1>2, <1>3, <3>3, <3>6, <4>1, <5>1, <6>1, <6>2, <6>4, <6>5, DirAdvances
          <6>7. QED
            BY <6>4, <6>6
        <5>6. QED
          BY <5>2, <5>4, <5>5 DEF InDirectory
      <4>5. QED
        BY <1>3, <4>1, <4>2, <4>3, <4>4 DEF OnTheWay
    <3>7. QED
      BY <3>3, <3>4, <3>5, <3>6
  <2>4. QED
    BY <2>2, <2>3
<1>11. Judged' => Judged
  BY <1>3 DEF Judged
<1>12. QED
  BY <1>4, <1>6, <1>10, <1>11 DEF SearchInv

\* A component taken out of a judged path is converted as a directory entry has it.
LEMMA JudgedName ==
  ASSUME NameAssumption, ClientAssumption, NEW p \in Paths, NEW k \in 1 .. Len(p),
         Settled(p[k]), NEW old, NEW isLast, NextName(old, p[k], isLast)
  PROVE  fatName' = ShortName(p[k])
<1>1. /\ p \in Seq(Seq(STRING))
      /\ \A i \in DOMAIN p : \A j \in DOMAIN p[i] : p[i][j] # "NUL"
  BY DEF ClientAssumption
<1>2. k \in DOMAIN p
  BY <1>1
<1>3. PICK c \in Seq(STRING) : c = p[k] /\ (\A j \in DOMAIN c : c[j] # "NUL")
  BY <1>1, <1>2
<1>4. PICK r : fatName' = FatNameOf(Extracted(old, c, r))
  BY <1>3 DEF NextName
<1>5. Settled(c)
  BY <1>3
<1>6. FatNameOf(Extracted(old, c, r)) = ShortName(c)
  BY <1>3, <1>5, ConvertsName
<1>7. QED
  BY <1>3, <1>4, <1>6

LEMMA SomeLength ==
  ASSUME NEW p \in Seq(Seq(STRING)), p # <<>>
  PROVE  Len(p) \in Nat /\ Len(p) > 0
OBVIOUS

LEMMA TailIs ==
  ASSUME NEW p \in Seq(Seq(STRING)), NEW l \in Nat, l = Len(p), l > 1
  PROVE  Len(Tail(p)) = l - 1 /\ (\A k \in 1 .. l - 1 : Tail(p)[k] = p[k + 1])
<1>1. p # <<>>
  OBVIOUS
<1>2. Len(Tail(p)) = l - 1
  BY <1>1, HeadTailProperties
<1>3. ASSUME NEW k \in 1 .. l - 1
      PROVE  Tail(p)[k] = p[k + 1]
  OBVIOUS
<1>4. QED
  BY <1>2, <1>3

LEMMA EndShifts ==
  ASSUME NEW n \in Nat, NEW l \in Nat, l > 1, l <= n, NEW k \in 1 .. l - 1
  PROVE  k + 1 \in 1 .. l /\ n - l + (k + 1) = n - (l - 1) + k
OBVIOUS

\* The path with its first component taken out.
LEMMA PathShorter ==
  ASSUME ClientAssumption, CallKept, op = "entry", path \in Seq(Seq(STRING)), path # <<>>,
         Len(path) # 1, path' = Tail(path), call' = call
  PROVE  /\ Len(path') <= Len(call'.path)
         /\ \A k \in 1 .. Len(path') : path'[k] = call'.path[Len(call'.path) - Len(path') + k]
         /\ path'[1] = path[2]
         /\ Level' = Level + 1
<1>1. PICK p \in Seq(Seq(STRING)), l \in Nat : p = path /\ l = Len(p) /\ l > 1
  <2>1. Len(path) \in Nat /\ Len(path) > 0
    BY SomeLength
  <2>2. PICK l \in Nat : l = Len(path) /\ l > 0 /\ l # 1
    BY <2>1
  <2>3. l > 1
    BY <2>2
  <2>4. QED
    BY <2>2, <2>3
<1>2. PICK t : t = Tail(p) /\ Len(t) = l - 1 /\ (\A k \in 1 .. l - 1 : t[k] = p[k + 1])
  <2>1. Len(Tail(p)) = l - 1 /\ (\A k \in 1 .. l - 1 : Tail(p)[k] = p[k + 1])
    BY <1>1, TailIs
  <2>2. QED
    BY <2>1
<1>3. path' = t
  BY <1>1, <1>2
<1>4. PICK n \in Nat : n = Len(call.path) /\ l <= n
  <2>1. Len(call.path) \in Nat
    BY Component
  <2>2. QED
    BY <1>1, <2>1 DEF CallKept
<1>5. \A k \in 1 .. l : p[k] = call.path[n - l + k]
  BY <1>1, <1>4 DEF CallKept
<1>6. l - 1 \in Nat /\ l - 1 <= n
  BY <1>1, <1>4
<1>7. ASSUME NEW k \in 1 .. l - 1
      PROVE  t[k] = call.path[n - (l - 1) + k]
  <2>1. k + 1 \in 1 .. l /\ n - l + (k + 1) = n - (l - 1) + k
    BY <1>1, <1>4, EndShifts
  <2>2. QED
    BY <1>2, <1>5, <2>1
<1>8. t[1] = p[2]
  <2>1. 1 \in 1 .. l - 1 /\ 1 + 1 = 2
    BY <1>1
  <2>2. QED
    BY <1>2, <2>1
<1>9. n - (l - 1) + 1 = (n - l + 1) + 1
  BY <1>1, <1>4
<1>10. Level = n - l + 1 /\ Level' = n - (l - 1) + 1
  BY <1>1, <1>2, <1>3, <1>4 DEF Level
<1>11. QED
  BY <1>1, <1>2, <1>3, <1>4, <1>6, <1>7, <1>8, <1>9, <1>10

\* FAT_Open returns to its caller.
LEMMA EntryReturns ==
  ASSUME ClientAssumption, CallKept, op = "entry", OnTheWay,
         path \in Seq(Seq(STRING)), path # <<>>, Len(path) = 1,
         vol' = vol, call' = call, target' = target, op' = "idle",
         call.room /\ Unfailed' => ret' # NULL
  PROVE  OnTheWay'
<1>1. Level = Len(call.path)
  BY Component
<1>2. Reached(call.path, Len(call.path)) = {target}
  BY <1>1 DEF OnTheWay
<1>3. Resolve(call.path) = {target}
  BY <1>2 DEF Resolve, Reached
<1>4. target' \in Resolve(call'.path)
  BY <1>3
<1>5. target' \in Resolve(call.path)'
  BY <1>4, TruthKept
<1>6. QED
  BY <1>5 DEF OnTheWay

\* The search of a directory begins.
LEMMA EntryDescends ==
  ASSUME FatAssumption, NameAssumption, VolumeAssumption, ClientAssumption,
         vol \in Volumes, dataSectionLba \in Nat, dataSectionLba = FirstDataLba,
         CallKept, Judged, op = "entry", OnTheWay,
         path \in Seq(Seq(STRING)), path # <<>>, Len(path) # 1,
         target \in Listed(vol), target.dir,
         NextName(name, path[2], Len(path) = 2), path' = Tail(path),
         vol' = vol, dataSectionLba' = dataSectionLba, call' = call, target' = target,
         op' = "find", NEW h \in Handles, current' = h,
         fd'[h].Position = 0, fd'[h].Size = target.size,
         fd'[h].CurrentCluster = target.first, fd'[h].CurrentSectorInCluster = 0,
         fd'[h].Buffer = FAT_ClusterToLba(target.first)
  PROVE  OnTheWay'
<1>1. path'[1] = path[2] /\ Level' = Level + 1
  BY PathShorter
<1>2. PICK n \in Nat, i \in Nat \ {0} :
        n = Len(call.path) /\ i = Level /\ i < n /\ path[2] = call.path[i + 1]
  <2>1. /\ Len(call.path) \in Nat /\ Level \in Nat \ {0} /\ Level <= Len(call.path)
        /\ (Level = Len(call.path) <=> Len(path) = 1)
        /\ Len(path) > 1 => path[2] = call.path[Level + 1]
    BY Component
  <2>2. Len(path) > 1
    <3>1. Len(path) \in Nat /\ Len(path) > 0
      BY SomeLength
    <3>2. PICK l \in Nat : l = Len(path) /\ l > 0 /\ l # 1
      BY <3>1
    <3>3. l > 1
      BY <3>2
    <3>4. QED
      BY <3>2, <3>3
  <2>3. Level < Len(call.path)
    BY <2>1
  <2>4. QED
    BY <2>1, <2>2, <2>3
<1>3. fatName' = ShortName(path'[1])
  <2>1. PICK p \in Paths : p = call.path
    BY DEF CallKept
  <2>2. PICK k \in 1 .. Len(p) : k = i + 1 /\ path[2] = p[k]
    BY <1>2, <2>1
  <2>3. Settled(p[k])
    <3>1. p \in Seq(Seq(STRING))
      BY DEF ClientAssumption
    <3>2. k \in DOMAIN p
      BY <3>1
    <3>3. QED
      BY <2>1, <3>2 DEF Judged
  <2>4. NextName(name, p[k], Len(path) = 2)
    BY <2>2
  <2>5. PICK isLast : isLast = (Len(path) = 2)
    OBVIOUS
  <2>6. NextName(name, p[k], isLast)
    BY <2>4, <2>5
  <2>7. fatName' = ShortName(p[k])
    BY <2>3, <2>6, JudgedName
  <2>8. QED
    BY <1>1, <2>2, <2>7
<1>4. current' # Root
  BY NotHandles
<1>5. Level' > 1 /\ Level' - 1 = i
  BY <1>1, <1>2
<1>6. Reached(call.path, Level - 1)' = {target'}
  <2>1. Reached(call.path, i) = {target}
    BY <1>2 DEF OnTheWay
  <2>2. Reached(call'.path, Level' - 1) = {target'}
    BY <1>5, <2>1
  <2>3. QED
    BY <2>2, TruthKept
<1>7. fd'[current'].Buffer \in DirLbas(vol', target') \cup {Junk}
  BY FirstCluster
<1>8. DirAt(0)'
  <2>1. PICK m \in Nat \ {0} : m = EntriesPerSector
    BY SectorHasEntries
  <2>2. 0 * DirEntrySize = 0
    BY DEF FatAssumption
  <2>3. FAT_ClusterToLba(target.first)' = FAT_ClusterToLba(target.first)
    BY DEF FAT_ClusterToLba
  <2>4. target.size = 0
    BY FirstCluster
  <2>5. /\ fd'[current'].Position = 0 * DirEntrySize
        /\ fd'[current'].Buffer = FAT_ClusterToLba(target.first)'
        /\ \A k \in 1 .. 0 : Slot(vol', fd'[current'].Buffer, k).name # fatName'
        /\ fd'[current'].Size = 0
        /\ fd'[current'].CurrentCluster = target'.first
        /\ fd'[current'].CurrentSectorInCluster = 0
    BY <2>2, <2>3, <2>4
  <2>6. 0 # EntriesPerSector
    BY <2>1
  <2>7. QED
    BY <2>5, <2>6 DEF DirAt
<1>9. InDirectory'
  <2>1. 0 \in 0 .. EntriesPerSector
    BY SectorHasEntries
  <2>2. QED
    BY <1>5, <1>6, <1>7, <1>8, <2>1 DEF InDirectory
<1>10. QED
  BY <1>3, <1>4, <1>9 DEF OnTheWay

LEMMA EntrySearch ==
  ASSUME ClientInv, SearchInv, Step, FAT_OpenEntry
  PROVE  SearchInv'
<1>1. /\ DriverOK /\ HandlesOK /\ RootRests /\ CallKept /\ (Judged => OnTheWay) /\ op = "entry"
      /\ FatAssumption /\ NameAssumption /\ VolumeAssumption /\ ClientAssumption
  BY FatAssumption, NameAssumption, VolumeAssumption, ClientAssumption
     DEF ClientInv, SearchInv, FAT_OpenEntry
<1>2. /\ vol \in Volumes /\ dataSectionLba \in Nat /\ dataSectionLba = FirstDataLba
      /\ fd \in [Handles \cup {Root} -> FileData]
      /\ failures \in Nat /\ Found /\ path \in Seq(Seq(STRING)) /\ path # <<>>
      /\ target \in Listed(vol) /\ (Len(path) = 1 \/ target.dir)
  BY <1>1 DEF DriverOK, DriverTypes, RootOK, Active, InCall, Found
<1>3. /\ vol' = vol /\ dataSectionLba' = dataSectionLba /\ target' = target /\ call' = call
      /\ op' # "idle" => held' = held
  BY <1>1 DEF FAT_OpenEntry, Step
<1>4. call.open /\ call.path \in Paths /\ call.before \in Nat /\ call.before <= failures
  BY <1>1 DEF CallKept
<1>5. Judged' => Judged
  BY <1>3 DEF Judged
<1>6. RootDirLba' = RootDirLba /\ RootDirSize' = RootDirSize
  BY <1>3, TruthKept
<1>7. ASSUME NEW h \in Handles \cup {NULL}, OpenReturns(h), fd'[Root] = fd[Root],
             failures' \in Nat, failures <= failures',
             h = NULL => ~call.room \/ failures' > failures,
             h # NULL => /\ fd'[h].Position = 0 /\ fd'[h].Size = target.size
                         /\ fd'[h].CurrentCluster = target.first
                         /\ fd'[h].CurrentSectorInCluster = 0
                         /\ fd'[h].Buffer = FAT_ClusterToLba(target.first)
      PROVE  SearchInv'
  <2>1. /\ path' = Tail(path)
        /\ current' = h
        /\ Len(path) = 1 => op' = "idle" /\ ret' = h
        /\ Len(path) # 1 => /\ op' = IF h = NULL THEN "wild" ELSE "find"
                            /\ NextName(name, path[2], Len(path) = 2)
    BY <1>7 DEF OpenReturns
  <2>2. op' \in {"idle", "wild", "find"}
    BY <2>1
  <2>3. RootRests'
    <3>1. /\ fd[Root].Size = RootDirSize /\ fd[Root].FirstCluster = RootDirLba
          /\ fd[Root].Position = 0 /\ fd[Root].CurrentCluster = RootDirLba
      BY <1>1 DEF RootRests, Active
    <3>2. QED
      BY <1>6, <1>7, <3>1 DEF RootRests
  <2>4. call.before <= failures'
    BY <1>2, <1>4, <1>7
  <2>5. op' = "find" => /\ call'.open
                        /\ call'.room => held' # Handles
                        /\ Len(path') <= Len(call'.path)
                        /\ \A k \in 1 .. Len(path') :
                             path'[k] = call'.path[Len(call'.path) - Len(path') + k]
    <3> SUFFICES ASSUME op' = "find"
                 PROVE  /\ call'.open
                        /\ call'.room => held' # Handles
                        /\ Len(path') <= Len(call'.path)
                        /\ \A k \in 1 .. Len(path') :
                             path'[k] = call'.path[Len(call'.path) - Len(path') + k]
      OBVIOUS
    <3>1. Len(path) # 1 /\ held' = held
      BY <1>3, <2>1
    <3>2. call'.open /\ (call'.room => held' # Handles)
      BY <1>1, <1>3, <1>4, <3>1 DEF CallKept
    <3>3. QED
      BY <1>1, <1>2, <1>3, <2>1, <3>1, <3>2, PathShorter
  <2>6. CallKept'
    BY <1>3, <1>4, <2>2, <2>4, <2>5 DEF CallKept
  <2>7. ASSUME Judged
        PROVE  OnTheWay'
    <3>1. OnTheWay
      BY <1>1, <2>7
    <3>2. CASE Len(path) = 1
      <4>1. op' = "idle" /\ ret' = h
        BY <2>1, <3>2
      <4>2. call.room /\ Unfailed' => ret' # NULL
        <5>1. Unfailed' => ~(failures' > failures)
          BY <1>2, <1>3, <1>4, <1>7 DEF Unfailed
        <5>2. QED
          BY <1>7, <4>1, <5>1
      <4>3. QED
        BY <1>1, <1>2, <1>3, <3>1, <3>2, <4>1, <4>2, EntryReturns
    <3>3. CASE Len(path) # 1 /\ h = NULL
      <4>1. op' = "wild"
        BY <2>1, <3>3
      <4>2. QED
        BY <4>1 DEF OnTheWay
    <3>4. CASE Len(path) # 1 /\ h # NULL
      <4>1. h \in Handles /\ op' = "find" /\ current' = h /\ target.dir
            /\ NextName(name, path[2], Len(path) = 2) /\ path' = Tail(path)
        BY <1>2, <1>7, <2>1, <3>4
      <4>2. QED
        BY <1>1, <1>2, <1>3, <1>7, <2>7, <3>1, <3>4, <4>1, EntryDescends
    <3>5. QED
      BY <3>2, <3>3, <3>4
  <2>8. QED
    BY <1>5, <2>3, <2>6, <2>7 DEF SearchInv
<1>8. CASE UNCHANGED <<fd, failures, tainted>> /\ OpenReturns(NULL) /\ FreeHandles = {}
  <2>1. ~call.room
    <3>1. Opened = held /\ (call.room => held # Handles)
      BY <1>1 DEF HandlesOK, CallKept
    <3>2. Opened = Handles
      BY <1>8 DEF FreeHandles, Opened
    <3>3. QED
      BY <3>1, <3>2
  <2>2. failures' \in Nat /\ failures <= failures' /\ fd'[Root] = fd[Root]
    BY <1>2, <1>8
  <2>3. NULL \in Handles \cup {NULL}
    OBVIOUS
  <2>4. QED
    BY <1>7, <1>8, <2>1, <2>2, <2>3
<1>9. ASSUME NEW h \in Handles, NEW f \in FileData, fd' = [fd EXCEPT ![h] = f],
             f.Position = 0,
             \/ OpenReturns(NULL) /\ failures' = failures + 1
             \/ /\ OpenReturns(h) /\ failures' = failures
                /\ f.Size = target.size
                /\ f.CurrentCluster = target.first
                /\ f.CurrentSectorInCluster = 0
                /\ f.Buffer = FAT_ClusterToLba(target.first)
      PROVE  SearchInv'
  <2>1. h # Root /\ h # NULL /\ fd'[h] = f /\ fd'[Root] = fd[Root]
    BY <1>1, <1>2, <1>9, NotHandles
  <2>2. failures' \in Nat /\ failures <= failures' /\ (failures' = failures + 1 => failures' > failures)
    BY <1>2, <1>9
  <2>3. CASE OpenReturns(NULL) /\ failures' = failures + 1
    <3>1. NULL \in Handles \cup {NULL}
      OBVIOUS
    <3>2. QED
      BY <1>7, <2>1, <2>2, <2>3, <3>1
  <2>4. CASE /\ OpenReturns(h) /\ failures' = failures
             /\ f.Size = target.size
             /\ f.CurrentCluster = target.first
             /\ f.CurrentSectorInCluster = 0
             /\ f.Buffer = FAT_ClusterToLba(target.first)
    <3>1. h \in Handles \cup {NULL}
      OBVIOUS
    <3>2. QED
      BY <1>7, <1>9, <2>1, <2>2, <2>4, <3>1
  <2>5. QED
    BY <1>9, <2>3, <2>4
<1>10. QED
  BY <1>1, <1>8, <1>9, EntryOutcome

LEMMA RootBegins ==
  ASSUME VolumeAssumption, vol \in Volumes
  PROVE  RootDirLba \in Nat
<1>1. PICK r \in Nat, s \in Nat, c \in Nat :
        r = vol.reserved /\ s = vol.sectorsPerFat /\ c = vol.fatCount
  BY DEF VolumeAssumption
<1>2. r + s * c \in Nat
  OBVIOUS
<1>3. QED
  BY <1>1, <1>2 DEF RootDirLba

LEMMA OpenSearch ==
  ASSUME ClientInv, SearchInv, NEW p \in Paths, Open(p)
  PROVE  SearchInv'
<1>1. /\ DriverOK /\ HandlesOK /\ RootRests /\ FAT_Open(p)
      /\ FatAssumption /\ NameAssumption /\ VolumeAssumption /\ ClientAssumption
  BY FatAssumption, NameAssumption, VolumeAssumption, ClientAssumption
     DEF ClientInv, SearchInv, Open
<1>2. /\ op = "idle" /\ op' = "find" /\ path' = p /\ current' = Root /\ fd' = fd /\ vol' = vol
      /\ failures' = failures /\ held' = held /\ NextName(NoName, p[1], Len(p) = 1)
  BY <1>1 DEF FAT_Open, Open
<1>3. /\ call'.open = TRUE /\ call'.path = p /\ call'.room = (FreeHandles # {})
      /\ call'.fresh = (fd[Root].Buffer = RootDirLba) /\ call'.before = failures
  BY DEF Open
<1>4. vol \in Volumes /\ failures \in Nat
  BY <1>1 DEF DriverOK, DriverTypes
<1>5. RootDirLba' = RootDirLba /\ RootDirSize' = RootDirSize
  BY <1>2, TruthKept
<1>6. /\ fd[Root].Size = RootDirSize /\ fd[Root].FirstCluster = RootDirLba
      /\ fd[Root].Position = 0 /\ fd[Root].CurrentCluster = RootDirLba
  BY <1>1, <1>2 DEF RootRests, Active
<1>7. RootRests'
  BY <1>2, <1>5, <1>6 DEF RootRests
<1>8. PICK n \in Nat : n = Len(p) /\ n > 0
  <2>1. p \in Seq(Seq(STRING)) /\ p # <<>>
    BY <1>1 DEF ClientAssumption
  <2>2. QED
    BY <2>1, SomeLength
<1>9. CallKept'
  <2>1. FreeHandles # {} => held # Handles
    <3>1. Opened = held
      BY <1>1, <1>2 DEF HandlesOK
    <3>2. QED
      BY <3>1 DEF FreeHandles, Opened
  <2>2. \A k \in 1 .. n : p[k] = p[n - n + k]
    BY <1>8
  <2>3. n <= n /\ failures <= failures
    BY <1>4, <1>8
  <2>4. \A k \in 1 .. Len(path') : path'[k] = call'.path[Len(call'.path) - Len(path') + k]
    BY <1>2, <1>3, <1>8, <2>2
  <2>5. QED
    BY <1>2, <1>3, <1>4, <1>8, <2>1, <2>3, <2>4 DEF CallKept
<1>10. Level' = 1
  <2>1. n - n + 1 = 1
    BY <1>8
  <2>2. QED
    BY <1>2, <1>3, <1>8, <2>1 DEF Level
<1>11. ASSUME Judged'
       PROVE  OnTheWay'
  <2>1. fatName' = ShortName(path'[1])
    <3>1. PICK k \in 1 .. Len(p) : k = 1
      BY <1>8
    <3>2. Settled(p[k])
      <4>1. k \in DOMAIN p
        BY <1>1, <3>1 DEF ClientAssumption
      <4>2. QED
        BY <1>3, <1>11, <4>1 DEF Judged
    <3>3. PICK isLast : isLast = (Len(p) = 1)
      OBVIOUS
    <3>4. PICK old : old = NoName
      OBVIOUS
    <3>5. NextName(old, p[k], isLast)
      BY <1>2, <3>1, <3>3, <3>4
    <3>6. fatName' = ShortName(p[k])
      BY <1>1, <3>2, <3>5, JudgedName
    <3>7. QED
      BY <1>2, <3>1, <3>6
  <2>2. fd[Root].Buffer = RootDirLba
    BY <1>3, <1>11 DEF Judged
  <2>3. PICK m \in Nat \ {0}, a \in Nat, c \in Nat :
          m = EntriesPerSector /\ a = RootDirLba /\ c = vol.dirEntryCount
    <3>1. RootDirLba \in Nat
      BY <1>1, <1>4, RootBegins
    <3>2. vol.dirEntryCount \in Nat
      BY <1>1, <1>4 DEF VolumeAssumption
    <3>3. QED
      BY <1>1, <3>1, <3>2, SectorHasEntries
  <2>4. 0 \div m = 0
    <3>1. 0 = (m * 0) + 0 /\ 0 \in 0 .. m - 1
      OBVIOUS
    <3>2. QED
      BY <3>1, DivUnique
  <2>5. 0 * DirEntrySize = 0 /\ a + 0 = a /\ 0 \in 0 .. c /\ 0 \in 0 .. 0
    BY <1>1 DEF FatAssumption
  <2>6. RootAt(0)'
    <3>1. /\ fd'[Root].Position = 0 * DirEntrySize
          /\ fd'[Root].CurrentCluster = RootDirLba' + (0 \div EntriesPerSector)
      BY <1>2, <1>5, <1>6, <2>3, <2>4, <2>5
    <3>2. \E s \in 0 .. 0 \div EntriesPerSector : fd'[Root].Buffer = RootDirLba' + s
      BY <1>2, <1>5, <2>2, <2>3, <2>4, <2>5
    <3>3. fd'[Root].Buffer = fd'[Root].CurrentCluster
      BY <1>2, <1>6, <2>2
    <3>4. \A k \in 0 .. 0 - 1 : FALSE
      OBVIOUS
    <3>5. QED
      BY <3>1, <3>2, <3>3, <3>4 DEF RootAt
  <2>7. InRoot'
    BY <1>2, <1>10, <2>3, <2>5, <2>6 DEF InRoot
  <2>8. QED
    BY <1>2, <2>1, <2>7 DEF OnTheWay
<1>12. QED
  BY <1>7, <1>9, <1>11 DEF SearchInv

\* What no call of FAT_Open does leaves the root at its beginning.
LEMMA OutOfSearch ==
  ASSUME RootRests, op \in Active, op # "find", vol' = vol, fd'[Root] = fd[Root]
  PROVE  RootRests'
<1>1. RootDirLba' = RootDirLba /\ RootDirSize' = RootDirSize
  BY TruthKept
<1>2. /\ fd[Root].Size = RootDirSize /\ fd[Root].FirstCluster = RootDirLba
      /\ fd[Root].Position = 0 /\ fd[Root].CurrentCluster = RootDirLba
  BY DEF RootRests
<1>3. QED
  BY <1>1, <1>2 DEF RootRests

\* Nothing is to be said of a call that is no FAT_Open.
LEMMA NoOpen ==
  ASSUME ~call'.open, op' \notin {"find", "entry"}, RootRests'
  PROVE  SearchInv'
BY DEF SearchInv, CallKept, Judged

LEMMA ReadSearch ==
  ASSUME ClientInv, SearchInv, NEW h \in Handles, NEW n \in ReadSizes, Read(h, n)
  PROVE  SearchInv'
<1>1. op = "idle" /\ op' = "read" /\ fd' = fd /\ vol' = vol
  BY DEF Read, FAT_Read
<1>2. call'.open = FALSE
  BY DEF Read, NoCall
<1>3. RootRests'
  BY <1>1, OutOfSearch DEF SearchInv, Active
<1>4. QED
  BY <1>1, <1>2, <1>3, NoOpen

LEMMA CloseSearch ==
  ASSUME ClientInv, SearchInv, NEW h \in Handles, Close(h)
  PROVE  SearchInv'
<1>1. DriverOK /\ FAT_Close(h)
  BY DEF ClientInv, Close
<1>2. op = "idle" /\ op' = "idle" /\ vol' = vol
  BY <1>1 DEF FAT_Close
<1>3. fd'[Root] = fd[Root]
  <2>1. PICK f \in FileData : fd' = [fd EXCEPT ![h] = f]
    BY <1>1, FatAssumption, CloseKeeps
  <2>2. h # Root
    BY FatAssumption, NotHandles
  <2>3. QED
    BY <1>1, <2>1, <2>2 DEF DriverOK, DriverTypes
<1>4. call'.open = FALSE
  BY DEF Close, NoCall
<1>5. RootRests'
  BY <1>2, <1>3, OutOfSearch DEF SearchInv, Active
<1>6. QED
  BY <1>2, <1>4, <1>5, NoOpen

LEMMA InitializeSearch ==
  ASSUME ClientInv, SearchInv, Step, FAT_Initialize
  PROVE  SearchInv'
<1>1. DriverOK /\ call' = call
  BY DEF ClientInv, Step
<1>2. op \in {"off", "table", "root"} /\ op' \in {"table", "root", "idle", "failed"} /\ vol' = vol
  BY <1>1, FatAssumption, VolumeAssumption, InitializeKeeps
<1>3. ~call'.open
  BY <1>1, <1>2 DEF SearchInv, CallKept
<1>4. RootRests'
  <2> SUFFICES ASSUME op' = "idle"
               PROVE  RootRests'
    BY <1>2 DEF RootRests, Active
  <2>1. PICK b : fd' = [fd EXCEPT ![Root] = RootFile(b)]
    BY DEF FAT_Initialize, ReadBootSector, ReadTable, ReadRoot
  <2>2. fd'[Root] = RootFile(b)
    BY <1>1, <2>1 DEF DriverOK, DriverTypes
  <2>3. RootDirLba' = RootDirLba /\ RootDirSize' = RootDirSize
    BY <1>2, TruthKept
  <2>4. QED
    BY <2>2, <2>3 DEF RootRests, RootFile
<1>5. QED
  BY <1>2, <1>3, <1>4, NoOpen

LEMMA LoopSearch ==
  ASSUME ClientInv, SearchInv, Step, ReadLoop \/ ReadReturns
  PROVE  SearchInv'
<1>1. DriverOK /\ call' = call /\ op = "read" /\ vol' = vol
  BY DEF ClientInv, Step, ReadLoop, ReadReturns
<1>2. ~call'.open
  BY <1>1 DEF SearchInv, CallKept
<1>3. op' \in {"read", "idle", "fault"} /\ fd'[Root] = fd[Root]
  <2>1. CASE ReadReturns
    BY <2>1 DEF ReadReturns
  <2>2. CASE ReadLoop
    <3>1. PICK f \in FileData : /\ fd' = [fd EXCEPT ![io.h] = f]
                                /\ op' \in {"read", "idle", "fault"}
      BY <1>1, <2>2, FatAssumption, VolumeAssumption, LoopOutcome
    <3>2. io.h # Root
      <4>1. io.h \in Handles
        BY <1>1 DEF DriverOK, InCall, Reading, Transfers
      <4>2. QED
        BY <4>1, FatAssumption, NotHandles
    <3>3. QED
      BY <1>1, <3>1, <3>2 DEF DriverOK, DriverTypes
  <2>3. QED
    BY <2>1, <2>2
<1>4. RootRests'
  BY <1>1, <1>3, OutOfSearch DEF SearchInv, Active
<1>5. QED
  BY <1>2, <1>3, <1>4, NoOpen

LEMMA StutterSearch ==
  ASSUME SearchInv, UNCHANGED vars
  PROVE  SearchInv'
<1>1. UNCHANGED <<vol, dataSectionLba, fd, op, path, current, fatName, target, ret, failures,
                  held, call>>
  BY DEF vars, driver, client, names
<1>2. RootDirLba' = RootDirLba /\ RootDirSize' = RootDirSize
  BY <1>1, TruthKept
<1>3. RootRests'
  BY <1>1, <1>2 DEF SearchInv, RootRests
<1>4. CallKept'
  BY <1>1 DEF SearchInv, CallKept
<1>5. Level' = Level /\ (Unfailed' <=> Unfailed) /\ (Judged' <=> Judged)
  BY <1>1 DEF Level, Unfailed, Judged
<1>6. \A k : RootSlot(k)' = RootSlot(k)
  BY <1>1, <1>2 DEF RootSlot
<1>7. \A n : RootAt(n)' <=> RootAt(n)
  BY <1>1, <1>2, <1>5, <1>6 DEF RootAt
<1>8. \A n : DirAt(n)' <=> DirAt(n)
  <2>1. FAT_ClusterToLba(target.first)' = FAT_ClusterToLba(target.first)
    BY <1>1 DEF FAT_ClusterToLba
  <2>2. Chain(target)' = Chain(target)
    BY <1>1 DEF Chain
  <2>3. QED
    BY <1>1, <2>1, <2>2 DEF DirAt
<1>9. InRoot => InRoot'
  BY <1>1, <1>5, <1>7 DEF InRoot
<1>10. InDirectory => InDirectory'
  <2> SUFFICES ASSUME InDirectory
               PROVE  InDirectory'
    OBVIOUS
  <2>1. Reached(call'.path, Level' - 1) = {target'}
    BY <1>1, <1>5 DEF InDirectory
  <2>2. Reached(call.path, Level - 1)' = {target'}
    BY <1>1, <2>1, TruthKept
  <2>3. fd'[current'].Buffer \in DirLbas(vol', target') \cup {Junk}
    BY <1>1 DEF InDirectory
  <2>4. QED
    BY <1>5, <1>8, <2>2, <2>3 DEF InDirectory
<1>11. OnTheWay => OnTheWay'
  <2> SUFFICES ASSUME OnTheWay
               PROVE  OnTheWay'
    OBVIOUS
  <2>1. op = "entry" => Reached(call'.path, Level') = {target'}
    BY <1>1, <1>5 DEF OnTheWay
  <2>2. op = "entry" => Reached(call.path, Level)' = {target'}
    BY <1>1, <2>1, TruthKept
  <2>3. Resolve(call'.path) = Resolve(call.path)
    BY <1>1
  <2>4. Resolve(call.path)' = Resolve(call.path)
    BY <1>1, <2>3, TruthKept
  <2>5. QED
    BY <1>1, <1>5, <1>9, <1>10, <2>2, <2>4 DEF OnTheWay
<1>12. QED
  BY <1>3, <1>4, <1>5, <1>11 DEF SearchInv

LEMMA SearchNext ==
  ASSUME ClientInv, SearchInv, [Next]_vars
  PROVE  SearchInv'
<1>1. CASE Step
  BY <1>1, InitializeSearch, FindSearch, EntrySearch, LoopSearch DEF Step, DriverStep
<1>2. QED
  BY <1>1, OpenSearch, ReadSearch, CloseSearch, StutterSearch DEF Next

LEMMA SearchInvariant == Spec => [](ClientInv /\ SearchInv)
<1>1. Init => SearchInv
  BY DEF Init, DriverInit, SearchInv, RootRests, CallKept, Judged, NoCall, Active
<1>2. Init => ClientInv
  BY ClientInit
<1>3. ClientInv /\ SearchInv /\ [Next]_vars => ClientInv' /\ SearchInv'
  BY ClientNext, SearchNext
<1>4. QED
  BY <1>1, <1>2, <1>3, PTL DEF Spec

-----------------------------------------------------------------------------
(* What the runs check, for every value of the constants. *)

\* No handle is read past its file's size, nor its sector counter past the cluster.
THEOREM TypeCorrect == Spec => []TypeOK
<1>1. ClientInv => TypeOK
  <2> SUFFICES ASSUME ClientInv
               PROVE  TypeOK
    OBVIOUS
  <2>1. /\ vol \in Volumes
        /\ fd \in [Handles \cup {Root} -> FileData]
        /\ op \in {"off", "table", "root", "idle", "find", "entry", "read",
                   "failed", "fault", "wild"}
        /\ current \in Handles \cup {Root, NULL}
        /\ ret \in Handles \cup {NULL}
        /\ failures \in 0 .. MaxFailures
        /\ tainted \subseteq Handles \cup {Root}
        /\ held \subseteq Handles
    BY DEF ClientInv, DriverOK, DriverTypes, CallOK
  <2>2. ASSUME NEW h \in held
        PROVE  /\ fd[h].CurrentSectorInCluster < vol.sectorsPerCluster
               /\ ~fd[h].IsDirectory => fd[h].Position <= fd[h].Size
    BY DEF ClientInv, HeldOK, HeldAt, Tracks
  <2>3. QED
    BY <2>1, <2>2 DEF TypeOK
<1>2. QED
  BY <1>1, ClientInvariant, PTL

\* No search, failed open or wrong path leaves a handle taken.
THEOREM HandlesComeBack == Spec => []NoHandleLeak
<1>1. ClientInv => NoHandleLeak
  BY DEF ClientInv, HandlesOK, Opened, NoHandleLeak
<1>2. QED
  BY <1>1, ClientInvariant, PTL

\* Between calls the buffer of an open file holds the sector of its position.
THEOREM BuffersCoherent == Spec => []BufferCoherent
<1>1. ClientInv => BufferCoherent
  <2> SUFFICES ASSUME ClientInv, NEW h \in held \ tainted,
                      ~fd[h].IsDirectory, fd[h].Position < fd[h].Size
               PROVE  fd[h].Buffer = FileByte(entryOf[h], fd[h].Position)[1]
    BY DEF BufferCoherent
  <2>1. Tracks(fd[h], entryOf[h]) /\ Right(fd[h], entryOf[h])
    BY DEF ClientInv, HeldOK, HeldAt
  <2>2. QED
    BY <2>1 DEF Tracks, Right
<1>2. QED
  BY <1>1, ClientInvariant, PTL

\* FAT_Read delivers the file's bytes, as many as asked for or left, whatever was opened,
\* read and closed in between.
THEOREM ReadsCorrect == Spec => []ReadCorrect
<1>1. ClientInv => ReadCorrect
  BY DEF ClientInv, DriverOK, Delivered, ReadCorrect, Wanted
<1>2. QED
  BY <1>1, ClientInvariant, PTL

\* FAT_Open, begun with the root's first sector in its buffer, returns the file of the
\* path, and NULL only when there is none, no handle is free or a read failed - through
\* any number of directories, whatever other opens, reads and closes went before.
THEOREM OpensCorrect == Spec => []OpenCorrectFresh
<1>1. SearchInv => OpenCorrectFresh
  BY DEF SearchInv, OnTheWay, Judged, Unfailed, OpenCorrectFresh, OpenCorrect
<1>2. QED
  BY <1>1, SearchInvariant, PTL
=============================================================================
