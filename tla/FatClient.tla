----------------------------- MODULE FatClient -----------------------------
(***************************************************************************)
(* The FAT driver under any sequence of legal calls: one call at a time    *)
(* (stage 2 is single-threaded with interrupts off), any path opened, any  *)
(* held file read or closed.                                               *)
(***************************************************************************)
EXTENDS FatDriver

CONSTANTS Paths,      \* paths the client may open, sequences of names
          ReadSizes,  \* byte counts it may ask for
          MaxOpens    \* bound on FAT_Open calls

ASSUME ClientAssumption ==
  /\ \A p \in Paths :
       /\ p \in Seq(Seq(STRING)) /\ p # <<>>
       /\ \A k \in DOMAIN p : /\ \A i \in DOMAIN p[k] : p[k][i] # "NUL"
                              /\ Len(p[k]) + 1 < MAX_PATH_SIZE
  /\ ReadSizes \subseteq Nat
  /\ MaxOpens \in Nat

VARIABLES held,       \* handles FAT_Open returned and the client has not closed
          entryOf,    \* handle -> the directory entry it was opened from
          call        \* the last FAT_Open: its path and the state it began in

client == <<held, entryOf, call>>
vars == <<driver, client>>

NoCall == [open |-> FALSE, count |-> 0, path |-> <<>>, room |-> FALSE,
           fresh |-> FALSE, before |-> 0]

Init ==
  /\ DriverInit
  /\ held = {}
  /\ entryOf = [h \in Handles |-> NoEntry]
  /\ call = NoCall

Open(p) ==
  /\ call.count < MaxOpens
  /\ FAT_Open(p)
  /\ call' = [open |-> TRUE, count |-> call.count + 1, path |-> p,
              room |-> FreeHandles # {}, fresh |-> fd[Root].Buffer = RootDirLba,
              before |-> failures]
  /\ UNCHANGED <<held, entryOf>>

Read(h, n) ==
  /\ h \in held
  /\ ~fd[h].IsDirectory
  /\ FAT_Read(h, entryOf[h], n)
  /\ call' = [NoCall EXCEPT !.count = call.count]
  /\ UNCHANGED <<held, entryOf>>

Close(h) ==
  /\ h \in held
  /\ FAT_Close(h)
  /\ held' = held \ {h}
  /\ entryOf' = [entryOf EXCEPT ![h] = NoEntry]
  /\ call' = [NoCall EXCEPT !.count = call.count]

\* The call goes on; when it is a FAT_Open that succeeds, the client gets a handle.
Step ==
  /\ DriverStep
  /\ UNCHANGED call
  /\ IF op = "entry" /\ op' = "idle" /\ ret' # NULL
     THEN /\ held' = held \cup {ret'}
          /\ entryOf' = [entryOf EXCEPT ![ret'] = target]
     ELSE UNCHANGED <<held, entryOf>>

Next ==
  \/ \E p \in Paths : Open(p)
  \/ \E h \in Handles, n \in ReadSizes : Read(h, n)
  \/ \E h \in Handles : Close(h)
  \/ Step

Spec == Init /\ [][Next]_vars

\* A call is straight-line code: once made it runs on.
FairSpec == Spec /\ WF_vars(Step)

-----------------------------------------------------------------------------
(* The truth about paths (external). *)

EntriesPerSector == SECTOR_SIZE \div DirEntrySize

\* The entry in slot k of a sector; only the sectors of directories have any.
Slot(v, lba, k) == IF lba \in DOMAIN v.slots THEN v.slots[lba][k] ELSE NoEntry

\* The root directory's entries fill sectors that follow each other, a subdirectory's
\* the sectors of its clusters.
RootEntries(v) ==
  {Slot(v, v.reserved + v.sectorsPerFat * v.fatCount + (k \div EntriesPerSector),
           (k % EntriesPerSector) + 1) : k \in 0 .. v.dirEntryCount - 1}

DirLbas(v, entry) ==
  {DataStart(v) + (v.chains[entry.first][k] - 2) * v.sectorsPerCluster + s :
     k \in DOMAIN v.chains[entry.first], s \in 0 .. v.sectorsPerCluster - 1}
DirEntries(v, entry) ==
  {Slot(v, lba, k) : lba \in DirLbas(v, entry), k \in 1 .. EntriesPerSector}

\* No two entries of a directory have the same name.
Distinct(entries) ==
  \A e1, e2 \in entries : e1.name = e2.name /\ e1.name # <<>> => e1 = e2

ASSUME DirectoryAssumption ==
  \A v \in Volumes :
    /\ v.dirEntryCount > 0
    /\ DOMAIN v.slots \subseteq Nat
    /\ Distinct(RootEntries(v))
    /\ \A d \in Listed(v) : d.dir => Distinct(DirEntries(v, d))

Named(entries, component) == {e \in entries : e.name = ShortName(component)}

\* The entries that lead along the first n components of a path.
Walks(p, n) ==
  {w \in [1 .. n -> Listed(vol)] :
     /\ w[1] \in Named(RootEntries(vol), p[1])
     /\ \A k \in 2 .. n : w[k - 1].dir /\ w[k] \in Named(DirEntries(vol, w[k - 1]), p[k])}

\* The entries a path names.
Resolve(p) == {w[Len(p)] : w \in Walks(p, Len(p))}

-----------------------------------------------------------------------------
(* Properties. *)

\* Types; no handle is ever read past its file's size, nor its sector counter
\* past the cluster.
TypeOK ==
  /\ vol \in Volumes
  /\ fd \in [Handles \cup {Root} -> FileData]
  /\ op \in {"off", "table", "root", "idle", "find", "entry", "read",
             "failed", "fault", "wild"}
  /\ current \in Handles \cup {Root, NULL}
  /\ ret \in Handles \cup {NULL}
  /\ failures \in 0 .. MaxFailures
  /\ tainted \subseteq Handles \cup {Root}
  /\ held \subseteq Handles
  /\ \A h \in held : /\ fd[h].CurrentSectorInCluster < vol.sectorsPerCluster
                     /\ ~fd[h].IsDirectory => fd[h].Position <= fd[h].Size

\* FAT_Read delivers exactly the bytes of the file from the position it had, as
\* many as were asked for or as are left, whatever other handles were opened,
\* read or closed in between - unless a read of that file's sectors failed.
ReadCorrect ==
  op = "idle" /\ io.clean =>
    LET left == io.entry.size - io.from
        n    == IF io.want < left THEN io.want ELSE left
    IN  io.out = FileBytes(io.entry, io.from, n)

\* Between calls the buffer of an open file holds the sector its position is in:
\* FAT_Read copies from it before it reads anything.
BufferCoherent ==
  op = "idle" =>
    \A h \in held \ tainted :
      ~fd[h].IsDirectory /\ fd[h].Position < fd[h].Size =>
        fd[h].Buffer = FileByte(entryOf[h], fd[h].Position)[1]

\* Between calls the opened handles are those the client holds: no search of a
\* subdirectory, failed open or wrong path leaves a handle taken.
NoHandleLeak ==
  op = "idle" => {h \in Handles : fd[h].Opened} = held

\* FAT_Open returns a file of the path, and finds one when there is one, a handle
\* is free and no read failed - for names whose conversion does not reach the byte
\* FAT_Open leaves unwritten.
OpenCorrect ==
  op = "idle" /\ call.open /\ (\A k \in DOMAIN call.path : Settled(call.path[k])) =>
    /\ ret # NULL => target \in Resolve(call.path)
    /\ call.room /\ failures = call.before /\ Resolve(call.path) # {} => ret # NULL

\* The same, for an open that starts with the root's first sector in its buffer,
\* as FAT_Initialize leaves it (FAT_Close does not restore it).
OpenCorrectFresh == call.fresh => OpenCorrect

\* Every call returns, or ends in a divide error or through a NULL handle.
CallsReturn ==
  op \in {"find", "entry", "read"} ~> op \in {"idle", "fault", "wild"}
=============================================================================
