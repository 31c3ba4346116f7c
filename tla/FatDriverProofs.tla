--------------------------- MODULE FatDriverProofs ---------------------------
(***************************************************************************)
(* The FAT driver for every well-formed volume: the table's arithmetic, a  *)
(* step along a file or a directory, and what every call of the driver     *)
(* keeps.                                                                  *)
(***************************************************************************)
EXTENDS FatDriver, FiniteSetTheorems, SequenceTheorems,
        WellFoundedInduction, TLAPS

-----------------------------------------------------------------------------
(* The table. *)

\* The three bytes of a pair of entries.
LEMMA PackedBytes ==
  ASSUME NEW pairs \in Nat, NEW entries \in [0 .. 2 * pairs - 1 -> Entry12],
         NEW p \in 0 .. pairs - 1
  PROVE  LET fat == Packed(entries, pairs)
         IN  /\ fat[3 * p] = entries[2 * p] % 256
             /\ fat[3 * p + 1] = (entries[2 * p] \div 256) + 16 * (entries[2 * p + 1] % 16)
             /\ fat[3 * p + 2] = entries[2 * p + 1] \div 16
<1>1. /\ 3 * p \in 0 .. 3 * pairs - 1
      /\ 3 * p + 1 \in 0 .. 3 * pairs - 1
      /\ 3 * p + 2 \in 0 .. 3 * pairs - 1
  OBVIOUS
<1>2. (3 * p) \div 3 = p /\ (3 * p) % 3 = 0
  OBVIOUS
<1>3. (3 * p + 1) \div 3 = p /\ (3 * p + 1) % 3 = 1
  OBVIOUS
<1>4. (3 * p + 2) \div 3 = p /\ (3 * p + 2) % 3 = 2
  OBVIOUS
<1>5. Packed(entries, pairs)[3 * p] = entries[2 * p] % 256
  <2>1. PICK b \in 0 .. 3 * pairs - 1 : b = 3 * p
    BY <1>1
  <2>2. b \div 3 = p /\ b % 3 = 0
    BY <1>2, <2>1
  <2>3. Packed(entries, pairs)[b] = entries[2 * p] % 256
    BY <2>2 DEF Packed
  <2>4. QED
    BY <2>1, <2>3
<1>6. Packed(entries, pairs)[3 * p + 1]
        = (entries[2 * p] \div 256) + 16 * (entries[2 * p + 1] % 16)
  BY <1>1, <1>3 DEF Packed
<1>7. Packed(entries, pairs)[3 * p + 2] = entries[2 * p + 1] \div 16
  BY <1>1, <1>4 DEF Packed
<1>8. QED
  BY <1>5, <1>6, <1>7

\* Two 12-bit numbers can be put together again from the shared bytes.
LEMMA Nibbles ==
  ASSUME NEW a \in Entry12, NEW b \in Entry12
  PROVE  /\ ((a % 256) + 256 * ((a \div 256) + 16 * (b % 16))) % 4096 = a
         /\ ((a \div 256) + 16 * (b % 16) + 256 * (b \div 16)) \div 16 = b
  BY DEF Entry12

LEMMA EntryIsNat == \A a \in Entry12 : a \in Nat
BY DEF Entry12

\* FAT_NextCluster reads back every entry of every FAT12 table: the shared middle
\* byte never leaks a nibble of a cluster's neighbour into its successor.
THEOREM NextClusterDecodes ==
  ASSUME NEW pairs \in Nat, NEW entries \in [0 .. 2 * pairs - 1 -> Entry12],
         NEW c \in 0 .. 2 * pairs - 1
  PROVE  FAT_NextCluster(Packed(entries, pairs), c) = entries[c]
<1> DEFINE fat == Packed(entries, pairs)
           p   == c \div 2
<1>1. p \in 0 .. pairs - 1 /\ (c = 2 * p \/ c = 2 * p + 1)
  OBVIOUS
<1>2. entries[2 * p] \in Entry12 /\ entries[2 * p + 1] \in Entry12
  BY <1>1
<1>3. /\ fat[3 * p] = entries[2 * p] % 256
      /\ fat[3 * p + 1] = (entries[2 * p] \div 256) + 16 * (entries[2 * p + 1] % 16)
      /\ fat[3 * p + 2] = entries[2 * p + 1] \div 16
  BY <1>1, PackedBytes, SMTT(30)
<1> HIDE DEF fat, p
<1>4. CASE c = 2 * p
  <2>1. (c * 3) \div 2 = 3 * p /\ c % 2 = 0
    BY <1>1, <1>4
  <2>2. Word16(fat, 3 * p) % 4096 = entries[2 * p]
    BY <1>2, <1>3, Nibbles DEF Word16
  <2>3. QED
    BY <1>4, <2>1, <2>2 DEF FAT_NextCluster, fat
<1>5. CASE c = 2 * p + 1
  <2>1. (c * 3) \div 2 = 3 * p + 1 /\ c % 2 = 1
    BY <1>1, <1>5
  <2>2. Word16(fat, 3 * p + 1) \div 16 = entries[2 * p + 1]
    <3>1. 3 * p + 1 + 1 = 3 * p + 2
      BY <1>1
    <3>2. QED
      BY <1>2, <1>3, <3>1, Nibbles DEF Word16
  <2>3. QED
    BY <1>5, <2>1, <2>2 DEF FAT_NextCluster, fat
<1>6. QED
  BY <1>1, <1>4, <1>5

\* On a volume of 512-byte sectors, the only size the driver reads, the guard keeps
\* the table clear of the kernel's load buffer, and the sector count it admits
\* survives the uint8_t parameter of DISK_ReadSectors.
THEOREM FatReadFits ==
  ASSUME NEW sectorsPerFat \in Nat, FatFits(SectorBytes, sectorsPerFat)
  PROVE  /\ sectorsPerFat % 256 = sectorsPerFat
         /\ MEMORY_FAT_ADDR + SizeofFatData + SectorBytes * sectorsPerFat < MEMORY_LOAD_KERNEL
<1>1. SizeofFatData = 6496
  BY DEF SizeofFatData, SizeofFileData, SectorBytes
<1>2. 6496 + 512 * sectorsPerFat < 65536
  BY <1>1 DEF FatFits, SectorBytes, MEMORY_FAT_SIZE
<1>3. sectorsPerFat \in Nat /\ sectorsPerFat <= 127
  BY <1>2
<1>4. sectorsPerFat % 256 = sectorsPerFat
  BY <1>3
<1>5. MEMORY_FAT_ADDR + SizeofFatData + SectorBytes * sectorsPerFat < MEMORY_LOAD_KERNEL
  BY <1>1, <1>2 DEF SectorBytes, MEMORY_FAT_ADDR, MEMORY_LOAD_KERNEL
<1>6. QED
  BY <1>4, <1>5
-----------------------------------------------------------------------------
(* Division. *)

LEMMA DivMod ==
  ASSUME NEW n \in Nat, NEW w \in Nat \ {0}
  PROVE  /\ n \div w \in Nat
         /\ n % w \in 0 .. w - 1
         /\ n = (w * (n \div w)) + (n % w)
  OBVIOUS

\* There is one way to divide.
LEMMA DivUnique ==
  ASSUME NEW w \in Nat \ {0}, NEW n \in Nat, NEW q \in Nat, NEW r \in 0 .. w - 1,
         n = (w * q) + r
  PROVE  n \div w = q /\ n % w = r
<1>1. PICK p \in Nat : p = n \div w
  BY DivMod
<1>2. PICK s \in 0 .. w - 1 : s = n % w
  BY DivMod
<1>3. (w * p) + s = (w * q) + r
  BY <1>1, <1>2, DivMod
<1>4. ~(q < p)
  <2>1. SUFFICES ASSUME q < p PROVE FALSE
    OBVIOUS
  <2>2. PICK d \in Nat : p = q + 1 + d
    <3>1. p - q - 1 \in Nat /\ p = q + 1 + (p - q - 1)
      BY <2>1
    <3>2. QED
      BY <3>1
  <2>3. w * p = (w * q) + w + (w * d) /\ w * d \in Nat /\ w * q \in Nat
    BY <2>2
  <2>4. QED
    BY <1>3, <2>3
<1>5. ~(p < q)
  <2>1. SUFFICES ASSUME p < q PROVE FALSE
    OBVIOUS
  <2>2. PICK d \in Nat : q = p + 1 + d
    <3>1. q - p - 1 \in Nat /\ q = p + 1 + (q - p - 1)
      BY <2>1
    <3>2. QED
      BY <3>1
  <2>3. w * q = (w * p) + w + (w * d) /\ w * d \in Nat /\ w * p \in Nat
    BY <2>2
  <2>4. QED
    BY <1>3, <2>3
<1>6. p = q
  BY <1>4, <1>5
<1>7. s = r
  <2>1. w * p \in Nat
    OBVIOUS
  <2>2. QED
    BY <1>3, <1>6, <2>1
<1>8. QED
  BY <1>1, <1>2, <1>6, <1>7

\* A number is smaller than w * m exactly if its quotient by w is smaller than m.
LEMMA DivLess ==
  ASSUME NEW w \in Nat \ {0}, NEW n \in Nat, NEW m \in Nat
  PROVE  n < w * m <=> n \div w < m
<1>1. PICK q \in Nat : q = n \div w
  BY DivMod
<1>2. PICK r \in 0 .. w - 1 : r = n % w
  BY DivMod
<1>3. n = (w * q) + r
  BY <1>1, <1>2, DivMod
<1>4. CASE q < m
  <2>1. PICK d \in Nat : m = q + 1 + d
    <3>1. m - q - 1 \in Nat /\ m = q + 1 + (m - q - 1)
      BY <1>4
    <3>2. QED
      BY <3>1
  <2>2. w * m = (w * q) + w + (w * d) /\ w * d \in Nat /\ w * q \in Nat
    BY <2>1
  <2>3. QED
    BY <1>1, <1>3, <1>4, <2>2
<1>5. CASE ~(q < m)
  <2>1. PICK d \in Nat : q = m + d
    <3>1. q - m \in Nat /\ q = m + (q - m)
      BY <1>5
    <3>2. QED
      BY <3>1
  <2>2. w * q = (w * m) + (w * d) /\ w * d \in Nat /\ w * m \in Nat
    BY <2>1
  <2>3. QED
    BY <1>1, <1>3, <1>5, <2>2
<1>6. QED
  BY <1>4, <1>5

\* Steps inside a block of w, and up to its end.
LEMMA StepInBlock ==
  ASSUME NEW w \in Nat \ {0}, NEW n \in Nat, NEW t \in Nat, t < w - (n % w)
  PROVE  (n + t) \div w = n \div w /\ (n + t) % w = (n % w) + t
<1>1. PICK q \in Nat : q = n \div w
  BY DivMod
<1>2. PICK r \in 0 .. w - 1 : r = n % w
  BY DivMod
<1>3. n = (w * q) + r /\ w * q \in Nat
  BY <1>1, <1>2, DivMod
<1>4. n + t = (w * q) + (r + t) /\ r + t \in 0 .. w - 1
  BY <1>2, <1>3
<1>5. n + t \in Nat
  OBVIOUS
<1>6. (n + t) \div w = q /\ (n + t) % w = r + t
  BY <1>4, <1>5, DivUnique
<1>7. QED
  BY <1>1, <1>2, <1>6

LEMMA StepToEnd ==
  ASSUME NEW w \in Nat \ {0}, NEW n \in Nat
  PROVE  LET t == w - (n % w)
         IN  /\ t \in 1 .. w
             /\ (n + t) \div w = (n \div w) + 1
             /\ (n + t) % w = 0
<1>1. PICK q \in Nat : q = n \div w
  BY DivMod
<1>2. PICK r \in 0 .. w - 1 : r = n % w
  BY DivMod
<1>3. n = (w * q) + r /\ w * q \in Nat
  BY <1>1, <1>2, DivMod
<1>4. w * (q + 1) = (w * q) + w
  OBVIOUS
<1>5. n + (w - r) = (w * (q + 1)) + 0 /\ n + (w - r) \in Nat /\ w - r \in 1 .. w
  BY <1>3, <1>4
<1>6. (n + (w - r)) \div w = q + 1 /\ (n + (w - r)) % w = 0
  BY <1>5, DivUnique
<1>7. QED
  BY <1>1, <1>2, <1>5, <1>6

-----------------------------------------------------------------------------
(* Where the data begins. *)

\* The multiples of m below n.
LEMMA Multiples ==
  ASSUME NEW m \in Nat \ {0}, NEW n \in Nat
  PROVE  Cardinality({k \in 0 .. n - 1 : k % m = 0}) = (n + m - 1) \div m
<1> DEFINE T == {k \in 0 .. n - 1 : k % m = 0}
<1>1. n + m - 1 \in Nat
  OBVIOUS
<1>2. PICK c \in Nat : c = (n + m - 1) \div m
  BY <1>1, DivMod
<1>3. ASSUME NEW j \in Nat
      PROVE  j < c <=> m * j < n
  <2>1. n + m - 1 < m * (j + 1) <=> c < j + 1
    <3>1. j + 1 \in Nat
      OBVIOUS
    <3>2. QED
      BY <1>1, <1>2, <3>1, DivLess
  <2>2. m * (j + 1) = (m * j) + m /\ m * j \in Nat
    OBVIOUS
  <2>3. QED
    BY <2>1, <2>2
<1> DEFINE f == [j \in 0 .. c - 1 |-> m * j]
<1>4. ASSUME NEW j \in 0 .. c - 1
      PROVE  f[j] \in T
  <2>1. m * j \in Nat /\ m * j < n
    BY <1>3
  <2>2. m * j = (m * j) + 0
    BY <2>1
  <2>3. (m * j) % m = 0
    BY <2>1, <2>2, DivUnique
  <2>4. QED
    BY <2>1, <2>3
<1>5. ASSUME NEW i \in 0 .. c - 1, NEW j \in 0 .. c - 1, f[i] = f[j]
      PROVE  i = j
  <2>1. m * i = (m * i) + 0 /\ m * i = (m * j) + 0 /\ m * i \in Nat
    BY <1>5
  <2>2. (m * i) \div m = i /\ (m * i) \div m = j
    BY <2>1, DivUnique
  <2>3. QED
    BY <2>2
<1>6. ASSUME NEW k \in T
      PROVE  \E j \in 0 .. c - 1 : f[j] = k
  <2>1. k \in Nat /\ k % m = 0 /\ k < n
    OBVIOUS
  <2>2. PICK j \in Nat : j = k \div m
    BY <2>1, DivMod
  <2>3. k = m * j
    <3>1. k = (m * j) + 0
      BY <2>1, <2>2, DivMod
    <3>2. QED
      BY <3>1
  <2>4. j \in 0 .. c - 1
    BY <1>3, <2>1, <2>3
  <2>5. QED
    BY <2>3, <2>4
<1>7. f \in Bijection(0 .. c - 1, T)
  <2>1. f \in [0 .. c - 1 -> T]
    BY <1>4
  <2> HIDE DEF f, T
  <2>2. QED
    BY <1>5, <1>6, <2>1 DEF Bijection, Injection, Surjection, IsInjective
<1> HIDE DEF f, T
<1>8. ExistsBijection(0 .. c - 1, T)
  BY <1>7 DEF ExistsBijection
<1>9. IsFiniteSet(0 .. c - 1) /\ Cardinality(0 .. c - 1) = c
  BY FS_Interval
<1>10. Cardinality(T) = c
  BY <1>8, <1>9, FS_Bijection
<1>11. QED
  BY <1>2, <1>10 DEF T

\* Of entries of d bytes, d * m to a sector, the one in every m that opens a sector.
LEMMA OpensSector ==
  ASSUME NEW d \in Nat \ {0}, NEW m \in Nat \ {0}, NEW k \in Nat
  PROVE  (k * d) % (d * m) = 0 <=> k % m = 0
<1>1. PICK q \in Nat : q = k \div m
  BY DivMod
<1>2. PICK r \in 0 .. m - 1 : r = k % m
  BY DivMod
<1>3. k = (m * q) + r
  BY <1>1, <1>2, DivMod
<1>4. k * d = ((d * m) * q) + (d * r)
  <2>1. k * d = (m * q) * d + r * d
    BY <1>3
  <2>2. (m * q) * d = (d * m) * q /\ r * d = d * r
    OBVIOUS
  <2>3. QED
    BY <2>1, <2>2
<1>5. d * r \in 0 .. (d * m) - 1
  <2>1. d * r <= d * (m - 1) /\ d * r \in Nat
    OBVIOUS
  <2>2. d * (m - 1) = (d * m) - d
    OBVIOUS
  <2>3. d * m \in Nat
    OBVIOUS
  <2>4. QED
    BY <2>1, <2>2, <2>3
<1>6. d * m \in Nat \ {0} /\ k * d \in Nat
  OBVIOUS
<1>7. (k * d) % (d * m) = d * r
  BY <1>4, <1>5, <1>6, DivUnique
<1>8. d * r = 0 <=> r = 0
  OBVIOUS
<1>9. QED
  BY <1>2, <1>7, <1>8

\* Of n entries of d bytes, the number that open a sector of w bytes is the number of
\* sectors that their bytes fill.
LEMMA SectorsFilled ==
  ASSUME NEW d \in Nat \ {0}, NEW w \in Nat \ {0}, w % d = 0, NEW n \in Nat
  PROVE  /\ Cardinality({k \in 0 .. n - 1 : (k * d) % w = 0}) = ((d * n) + w - 1) \div w
         /\ ((d * n) + w - 1) \div w \in Nat
<1>1. PICK m \in Nat \ {0} : w = d * m
  <2>1. PICK m \in Nat : m = w \div d
    BY DivMod
  <2>2. w = (d * m) + 0
    BY <2>1, DivMod
  <2>3. w = d * m
    BY <2>2
  <2>4. m # 0
    BY <2>3
  <2>5. QED
    BY <2>3, <2>4
<1>2. {k \in 0 .. n - 1 : (k * d) % w = 0} = {k \in 0 .. n - 1 : k % m = 0}
  <2>1. ASSUME NEW k \in 0 .. n - 1
        PROVE  (k * d) % w = 0 <=> k % m = 0
    <3>1. k \in Nat
      OBVIOUS
    <3>2. (k * d) % (d * m) = 0 <=> k % m = 0
      BY <3>1, OpensSector
    <3>3. QED
      BY <1>1, <3>2, Zenon
  <2>2. QED
    BY <2>1, Zenon
<1>3. Cardinality({k \in 0 .. n - 1 : (k * d) % w = 0}) = (n + m - 1) \div m
  BY <1>2, Multiples
<1>4. n + m - 1 \in Nat
  OBVIOUS
<1>5. PICK c \in Nat : c = (n + m - 1) \div m
  BY <1>4, DivMod
<1>6. PICK s \in 0 .. m - 1 : s = (n + m - 1) % m
  BY <1>4, DivMod
<1>7. n + m - 1 = (m * c) + s
  BY <1>4, <1>5, <1>6, DivMod
<1>8. (d * n) + w - 1 = (w * c) + ((d * s) + d - 1)
  <2>1. d * (n + m - 1) = (d * (m * c)) + (d * s)
    BY <1>7
  <2>2. d * (n + m - 1) = (d * n) + (d * m) - d
    OBVIOUS
  <2>3. d * (m * c) = w * c
    BY <1>1
  <2>4. d * n \in Nat /\ d * s \in Nat /\ w * c \in Nat
    OBVIOUS
  <2>5. QED
    BY <1>1, <2>1, <2>2, <2>3, <2>4
<1>9. (d * s) + d - 1 \in 0 .. w - 1
  <2>1. d * s <= d * (m - 1) /\ d * s \in Nat
    OBVIOUS
  <2>2. d * (m - 1) = w - d
    BY <1>1
  <2>3. QED
    BY <2>1, <2>2
<1>10. (d * n) + w - 1 \in Nat
  OBVIOUS
<1>11. ((d * n) + w - 1) \div w = c
  BY <1>8, <1>9, <1>10, DivUnique
<1>12. QED
  BY <1>3, <1>5, <1>11

\* FAT_Initialize rounds the root directory up to whole sectors: the cluster area begins
\* behind the sector of its last entry.
THEOREM DataSectionRight ==
  ASSUME FatAssumption, VolumeAssumption, vol \in Volumes
  PROVE  DataSectionLba = FirstDataLba /\ DataSectionLba \in Nat
<1>1. DirEntrySize \in Nat \ {0} /\ SECTOR_SIZE \in Nat \ {0} /\ SECTOR_SIZE % DirEntrySize = 0
  BY DEF FatAssumption
<1>2. /\ vol.reserved \in Nat
      /\ vol.fatCount \in Nat
      /\ vol.sectorsPerFat \in Nat
      /\ vol.dirEntryCount \in Nat
  BY DEF VolumeAssumption
<1>3. PICK r \in Nat :
        /\ r = (RootDirSize + SECTOR_SIZE - 1) \div SECTOR_SIZE
        /\ r = Cardinality({k \in 0 .. vol.dirEntryCount - 1 : (k * DirEntrySize) % SECTOR_SIZE = 0})
  <2>1. PICK d \in Nat \ {0} : d = DirEntrySize
    BY <1>1
  <2>2. PICK w \in Nat \ {0} : w = SECTOR_SIZE
    BY <1>1
  <2>3. PICK n \in Nat : n = vol.dirEntryCount
    BY <1>2
  <2>4. w % d = 0
    BY <1>1, <2>1, <2>2
  <2>5. /\ Cardinality({k \in 0 .. n - 1 : (k * d) % w = 0}) = ((d * n) + w - 1) \div w
        /\ ((d * n) + w - 1) \div w \in Nat
    BY <2>4, SectorsFilled
  <2>6. QED
    BY <2>1, <2>2, <2>3, <2>5 DEF RootDirSize
<1>4. vol.fatCount * vol.sectorsPerFat = vol.sectorsPerFat * vol.fatCount
      /\ vol.sectorsPerFat * vol.fatCount \in Nat
  <2>1. \A a, b \in Nat : a * b = b * a /\ a * b \in Nat
    OBVIOUS
  <2>2. QED
    BY <1>2, <2>1
<1>5. DataSectionLba = vol.reserved + vol.sectorsPerFat * vol.fatCount + r
  BY <1>3 DEF DataSectionLba, RootDirLba
<1>6. FirstDataLba = vol.reserved + vol.fatCount * vol.sectorsPerFat + r
  BY <1>3 DEF FirstDataLba, DataStart
<1>7. QED
  BY <1>2, <1>4, <1>5, <1>6

-----------------------------------------------------------------------------
(* Following a chain of clusters. *)

Chain(entry) == vol.chains[entry.first]

\* Where a file opened from entry stands: the cluster and the sector in it are those of
\* its position.
Tracks(f, entry) ==
  LET s == f.Position \div SECTOR_SIZE
  IN  /\ ~f.IsDirectory
      /\ f.Size = entry.size
      /\ f.Position <= entry.size
      /\ f.CurrentSectorInCluster < vol.sectorsPerCluster
      /\ f.Position < entry.size =>
           /\ f.CurrentCluster = Chain(entry)[(s \div vol.sectorsPerCluster) + 1]
           /\ f.CurrentSectorInCluster = s % vol.sectorsPerCluster

\* The buffer holds the sector of the position.
Right(f, entry) ==
  f.Position < entry.size => f.Buffer = FileByte(entry, f.Position)[1]

\* A directory is somewhere in its chain, or its size was set when the chain ended.
TracksDir(f, entry) ==
  /\ f.IsDirectory
  /\ f.CurrentSectorInCluster < vol.sectorsPerCluster
  /\ \/ f.Size = 0 /\ \E k \in DOMAIN Chain(entry) : f.CurrentCluster = Chain(entry)[k]
     \/ f.Size = f.Position /\ f.Size > 0

\* What the volume's tables say of an entry that can be opened.
LEMMA ChainFacts ==
  ASSUME VolumeAssumption, vol \in Volumes, NEW entry \in Listed(vol)
  PROVE  /\ vol.sectorsPerCluster \in Nat \ {0}
         /\ entry.dir \in BOOLEAN /\ entry.first \in Nat /\ entry.size \in Nat
         /\ Chain(entry) \in Seq(Nat)
         /\ entry.size <= Len(Chain(entry)) * vol.sectorsPerCluster * SECTOR_SIZE
         /\ entry.dir => entry.size = 0 /\ Chain(entry) # <<>>
         /\ Chain(entry) # <<>> => Chain(entry)[1] = entry.first
         /\ \A k \in 1 .. Len(Chain(entry)) :
              /\ ~EndOfChain(Chain(entry)[k])
              /\ FAT_NextCluster(vol.table, Chain(entry)[k]) \in Nat
              /\ k = Len(Chain(entry)) => EndOfChain(FAT_NextCluster(vol.table, Chain(entry)[k]))
              /\ k < Len(Chain(entry)) =>
                   FAT_NextCluster(vol.table, Chain(entry)[k]) = Chain(entry)[k + 1]
<1>1. WellFormed(vol, entry) /\ vol.sectorsPerCluster \in Nat \ {0}
  BY DEF VolumeAssumption
<1>2. Chain(entry) \in Seq(Nat)
  BY <1>1 DEF WellFormed, Chain
<1>3. DOMAIN Chain(entry) = 1 .. Len(Chain(entry))
  BY <1>2
<1>4. ASSUME NEW k \in 1 .. Len(Chain(entry))
      PROVE  /\ ~EndOfChain(Chain(entry)[k])
             /\ FAT_NextCluster(vol.table, Chain(entry)[k]) \in Nat
             /\ k = Len(Chain(entry)) => EndOfChain(FAT_NextCluster(vol.table, Chain(entry)[k]))
             /\ k < Len(Chain(entry)) =>
                  FAT_NextCluster(vol.table, Chain(entry)[k]) = Chain(entry)[k + 1]
  <2>1. k \in DOMAIN Chain(entry)
    BY <1>3
  <2>2. PICK c : c = Chain(entry)[k]
    OBVIOUS
  <2>3. /\ c \in DOMAIN vol.entries /\ c < 4088
        /\ k = Len(Chain(entry)) => vol.entries[c] >= 4088
        /\ k # Len(Chain(entry)) => vol.entries[c] = Chain(entry)[k + 1]
    BY <1>1, <2>1, <2>2 DEF WellFormed, Chain
  <2>4. PICK pairs \in Nat : TablePacked(vol) /\ pairs = vol.pairs
    BY DEF VolumeAssumption, TablePacked
  <2>5. PICK entries \in [0 .. 2 * pairs - 1 -> Entry12] :
          entries = vol.entries /\ vol.table = Packed(entries, pairs)
    BY <2>4 DEF TablePacked
  <2>6. c \in 0 .. 2 * pairs - 1
    BY <2>3, <2>5
  <2>7. FAT_NextCluster(Packed(entries, pairs), c) = entries[c]
    BY <2>6, NextClusterDecodes
  <2>8. FAT_NextCluster(vol.table, c) = vol.entries[c] /\ vol.entries[c] \in Entry12
    <3>1. entries[c] \in Entry12
      BY <2>6
    <3>2. QED
      BY <2>5, <2>7, <3>1
  <2>9. vol.entries[c] \in Nat
    BY <2>8, EntryIsNat
  <2>10. k < Len(Chain(entry)) => k # Len(Chain(entry))
    BY <1>2
  <2>11. ~EndOfChain(c) /\ (vol.entries[c] >= 4088 => EndOfChain(vol.entries[c]))
    BY <2>3, <2>6 DEF EndOfChain
  <2>12. QED
    BY <2>2, <2>3, <2>8, <2>9, <2>10, <2>11
<1>5. QED
  BY <1>1, <1>2, <1>4 DEF WellFormed, Chain

\* A position inside the file lies in one of its clusters.
LEMMA InChain ==
  ASSUME NEW w \in Nat \ {0}, NEW c \in Nat \ {0}, NEW l \in Nat, NEW p \in Nat,
         p < l * c * w
  PROVE  ((p \div w) \div c) + 1 \in 1 .. l
<1>1. PICK m \in Nat : m = c * l
  OBVIOUS
<1>2. l * c * w = w * m
  <2>1. l * c = m
    BY <1>1
  <2>2. QED
    BY <2>1
<1>3. p \div w < m
  BY <1>2, DivLess
<1>4. PICK q \in Nat : q = p \div w
  BY DivMod
<1>5. q < c * l
  BY <1>1, <1>3, <1>4
<1>6. q \div c < l /\ q \div c \in Nat
  BY <1>5, DivLess, DivMod
<1>7. QED
  BY <1>4, <1>6

\* Position and cluster of the next sector.
LEMMA SectorSteps ==
  ASSUME NEW c \in Nat \ {0}, NEW q \in Nat
  PROVE  /\ q % c \in 0 .. c - 1
         /\ (q % c) + 1 >= c => (q + 1) \div c = (q \div c) + 1 /\ (q + 1) % c = 0
         /\ (q % c) + 1 < c => (q + 1) \div c = q \div c /\ (q + 1) % c = (q % c) + 1
<1>1. PICK r \in 0 .. c - 1 : r = q % c
  BY DivMod
<1>2. CASE r + 1 >= c
  <2>1. c - r = 1
    BY <1>2
  <2>2. (q + (c - r)) \div c = (q \div c) + 1 /\ (q + (c - r)) % c = 0
    BY <1>1, StepToEnd
  <2>3. QED
    BY <1>1, <1>2, <2>1, <2>2
<1>3. CASE r + 1 < c
  <2>1. 1 < c - r
    BY <1>3
  <2>2. (q + 1) \div c = q \div c /\ (q + 1) % c = r + 1
    BY <1>1, <2>1, StepInBlock
  <2>3. QED
    BY <1>1, <1>3, <2>2
<1>4. QED
  BY <1>2, <1>3

\* DISK_ReadSectors: a read that succeeds fills the buffer with the sector.
LEMMA ReadOutcome ==
  ASSUME NEW old \in Int, NEW lba \in Int, NEW r \in DiskRead(old, lba)
  PROVE  /\ r.ok \in BOOLEAN
         /\ r.buf \in Int
         /\ r.buf \in {old, lba, Junk}
         /\ r.ok => r.buf = lba
         /\ ~r.ok => failures < MaxFailures
<1>1. CASE r = [ok |-> TRUE, buf |-> lba]
  BY <1>1
<1>2. CASE r # [ok |-> TRUE, buf |-> lba]
  <2>1. PICK b \in IF failures < MaxFailures THEN {old, lba, Junk} ELSE {} :
          r = [ok |-> FALSE, buf |-> b]
    BY <1>2 DEF DiskRead
  <2>2. failures < MaxFailures /\ b \in {old, lba, Junk}
    BY <2>1
  <2>3. b \in Int
    BY <2>2 DEF Junk
  <2>4. QED
    BY <2>1, <2>2, <2>3
<1>3. QED
  BY <1>1, <1>2

LEMMA MovedData ==
  ASSUME NEW f \in FileData, NEW c \in Nat, NEW s \in Nat
  PROVE  [f EXCEPT !.CurrentSectorInCluster = s, !.CurrentCluster = c] \in FileData
BY DEF FileData

\* Where the sector of a position ends.
SectorEnd(p) == p + (SECTOR_SIZE - (p % SECTOR_SIZE))

\* The move of FAT_Read to the next sector stays in the file's chain, and tells its end.
LEMMA AdvanceTracks ==
  ASSUME FatAssumption, VolumeAssumption, vol \in Volumes,
         NEW entry \in Listed(vol), NEW f \in FileData, Tracks(f, entry),
         NEW moved \in FileData, moved.IsDirectory = f.IsDirectory, moved.Size = f.Size,
         moved.CurrentCluster = f.CurrentCluster,
         moved.CurrentSectorInCluster = f.CurrentSectorInCluster,
         moved.Position = SectorEnd(f.Position),
         moved.Position <= entry.size, NEW g, g = Advance(moved)
  PROVE  /\ g \in FileData
         /\ g.Opened = moved.Opened /\ g.Position = moved.Position
         /\ Tracks(g, entry)
         /\ EndOfChain(g.CurrentCluster) => moved.Position = entry.size
<1>1. PICK w \in Nat \ {0} : w = SECTOR_SIZE
  BY DEF FatAssumption
<1>2. PICK c \in Nat \ {0} : c = vol.sectorsPerCluster
  BY ChainFacts
<1>3. PICK chain \in Seq(Nat) : chain = Chain(entry)
  BY ChainFacts
<1>4. PICK size \in Nat : size = entry.size
  BY ChainFacts
<1>5. PICK l \in Nat : l = Len(chain)
  <2>1. Len(chain) \in Nat
    BY LenProperties
  <2>2. QED
    BY <2>1
<1>6. \A n \in Nat : n < size => ((n \div w) \div c) + 1 \in 1 .. l
  <2>1. size <= l * c * w
    BY <1>1, <1>2, <1>3, <1>4, <1>5, ChainFacts
  <2>2. l * c * w \in Nat
    OBVIOUS
  <2>3. ASSUME NEW n \in Nat, n < size
        PROVE  ((n \div w) \div c) + 1 \in 1 .. l
    <3>1. n < l * c * w
      BY <2>1, <2>2, <2>3
    <3>2. QED
      BY <3>1, InChain
  <2>4. QED
    BY <2>3
<1>7. PICK p \in Nat : p = f.Position
  BY DEF FileData
<1>8. PICK p2 \in Nat : p2 = moved.Position
  BY DEF FileData
<1>9. PICK q \in Nat : q = p \div w
  BY DivMod
<1>10. p2 \div w = q + 1 /\ p < p2 /\ p2 <= size
  <2>1. /\ w - (p % w) \in 1 .. w
        /\ (p + (w - (p % w))) \div w = (p \div w) + 1
    BY StepToEnd
  <2>2. p2 = p + (w - (p % w)) /\ p2 <= size
    BY <1>1, <1>4, <1>7, <1>8 DEF SectorEnd
  <2>3. QED
    BY <1>9, <2>1, <2>2
<1>11. p < size
  BY <1>10
<1>12. PICK d \in Nat : d = q \div c
  BY DivMod
<1>13. PICK r \in 0 .. c - 1 : r = q % c
  BY DivMod
<1>14. PICK k \in 1 .. l : k = d + 1
  BY <1>6, <1>9, <1>11, <1>12
<1>15. PICK here \in Nat : here = chain[k]
  BY <1>5
<1>16. /\ moved.CurrentCluster = here /\ moved.CurrentSectorInCluster = r
       /\ moved.IsDirectory = FALSE /\ moved.Size = size
  <2>1. f.CurrentCluster = here /\ f.CurrentSectorInCluster = r
    BY <1>1, <1>2, <1>3, <1>4, <1>7, <1>9, <1>11, <1>12, <1>13, <1>14, <1>15 DEF Tracks
  <2>2. f.IsDirectory = FALSE /\ f.Size = size
    BY <1>4 DEF Tracks, FileData
  <2>3. QED
    BY <2>1, <2>2 DEF FileData
<1>17. PICK next \in Nat :
         /\ next = FAT_NextCluster(vol.table, here)
         /\ k = l => EndOfChain(next)
         /\ k < l => next = chain[k + 1] /\ ~EndOfChain(next)
  <2>1. k < l => k + 1 \in 1 .. l
    OBVIOUS
  <2>2. /\ FAT_NextCluster(vol.table, here) \in Nat
        /\ k = l => EndOfChain(FAT_NextCluster(vol.table, here))
        /\ k < l => FAT_NextCluster(vol.table, here) = chain[k + 1]
    BY <1>3, <1>5, <1>15, ChainFacts
  <2>3. \A j \in 1 .. l : ~EndOfChain(chain[j])
    BY <1>3, <1>5, ChainFacts
  <2>4. QED
    BY <2>1, <2>2, <2>3
<1>18. ~EndOfChain(here)
  BY <1>3, <1>5, <1>15, ChainFacts
<1>19. p2 < size => ((q + 1) \div c) + 1 \in 1 .. l
  BY <1>6, <1>10
<1>20. CASE r + 1 >= c
  <2>1. g = [moved EXCEPT !.CurrentSectorInCluster = 0, !.CurrentCluster = next]
    BY <1>2, <1>16, <1>17, <1>20 DEF Advance
  <2>2. (q + 1) \div c = d + 1 /\ (q + 1) % c = 0
    BY <1>12, <1>13, <1>20, SectorSteps
  <2>3. /\ g \in FileData /\ g.Position = p2 /\ g.Size = size /\ g.IsDirectory = FALSE
        /\ g.CurrentSectorInCluster = 0 /\ g.CurrentCluster = next
        /\ g.Opened = moved.Opened
    <3>2. /\ g.Position = p2 /\ g.Size = size /\ g.IsDirectory = FALSE
          /\ g.CurrentSectorInCluster = 0 /\ g.CurrentCluster = next
          /\ g.Opened = moved.Opened
      BY <1>8, <1>16, <2>1 DEF FileData
    <3>3. [moved EXCEPT !.CurrentSectorInCluster = 0, !.CurrentCluster = next] \in FileData
      BY MovedData
    <3>4. QED
      BY <2>1, <3>2, <3>3
  <2>4. p2 < size => k < l /\ ((q + 1) \div c) + 1 = k + 1
    <3>1. ((q + 1) \div c) + 1 = k + 1
      BY <1>14, <2>2
    <3>2. p2 < size => k + 1 \in 1 .. l
      BY <1>19, <3>1
    <3>3. QED
      BY <3>1, <3>2
  <2>5. p2 < size => next = chain[((q + 1) \div c) + 1] /\ ~EndOfChain(next)
    BY <1>17, <2>4
  <2>6. Tracks(g, entry)
    <3>1. g.Position \div SECTOR_SIZE = q + 1
      BY <1>1, <1>10, <2>3
    <3>2. 0 < c
      OBVIOUS
    <3>3. QED
      BY <1>2, <1>3, <1>4, <1>10, <2>2, <2>3, <2>5, <3>1, <3>2 DEF Tracks
  <2>7. EndOfChain(g.CurrentCluster) => p2 = size
    BY <1>10, <2>3, <2>5
  <2>8. QED
    BY <1>4, <1>8, <2>3, <2>6, <2>7
<1>21. CASE r + 1 < c
  <2>1. g = [moved EXCEPT !.CurrentSectorInCluster = r + 1, !.CurrentCluster = here]
    <3>1. g = [moved EXCEPT !.CurrentSectorInCluster = r + 1]
      BY <1>2, <1>16, <1>21, SMTT(30) DEF Advance
    <3>2. QED
      BY <1>16, <3>1 DEF FileData
  <2>2. (q + 1) \div c = d /\ (q + 1) % c = r + 1
    BY <1>12, <1>13, <1>21, SectorSteps
  <2>3. /\ g \in FileData /\ g.Position = p2 /\ g.Size = size /\ g.IsDirectory = FALSE
        /\ g.CurrentSectorInCluster = r + 1 /\ g.CurrentCluster = here
        /\ g.Opened = moved.Opened
    <3>1. PICK s \in Nat : s = r + 1
      OBVIOUS
    <3>2. QED
      BY <1>8, <1>16, <2>1, <3>1 DEF FileData
  <2>4. Tracks(g, entry)
    <3>1. g.Position \div SECTOR_SIZE = q + 1
      BY <1>1, <1>10, <2>3
    <3>2. p2 < size => chain[((q + 1) \div c) + 1] = here
      BY <1>14, <1>15, <2>2
    <3>3. g.CurrentSectorInCluster < c
      BY <1>21, <2>3
    <3>4. g.CurrentSectorInCluster = (g.Position \div SECTOR_SIZE) % vol.sectorsPerCluster
      BY <1>2, <2>2, <2>3, <3>1
    <3>5. p2 < size => g.CurrentCluster =
            Chain(entry)[((g.Position \div SECTOR_SIZE) \div vol.sectorsPerCluster) + 1]
      BY <1>2, <1>3, <2>3, <3>1, <3>2
    <3>6. g.Position <= size /\ g.Size = size /\ ~g.IsDirectory
      BY <1>10, <2>3
    <3>7. g.Position < size => p2 < size
      BY <2>3
    <3>8. /\ g.Size = entry.size /\ g.Position <= entry.size
          /\ g.CurrentSectorInCluster < vol.sectorsPerCluster
          /\ g.Position < entry.size => p2 < size
      BY <1>2, <1>4, <3>3, <3>6, <3>7
    <3>9. QED
      BY <3>4, <3>5, <3>6, <3>8, Zenon DEF Tracks
  <2>5. QED
    BY <1>8, <1>18, <2>3, <2>4
<1>22. QED
  BY <1>20, <1>21

\* An iteration takes bytes of one sector, and uses the sector up when it reaches its end.
LEMMA Taken ==
  ASSUME FatAssumption, NEW f, f.Position \in Nat, NEW n \in Nat \ {0}
  PROVE  LET p == f.Position
             t == Take(f, n)
         IN  /\ t \in 1 .. n
             /\ t <= SECTOR_SIZE - (p % SECTOR_SIZE)
             /\ (p + t) % SECTOR_SIZE = 0 => t = SECTOR_SIZE - (p % SECTOR_SIZE)
             /\ (p + t) % SECTOR_SIZE # 0 => /\ t < SECTOR_SIZE - (p % SECTOR_SIZE)
                                             /\ (p + t) \div SECTOR_SIZE = p \div SECTOR_SIZE
<1>1. PICK w \in Nat \ {0} : w = SECTOR_SIZE
  BY DEF FatAssumption
<1>2. PICK p \in Nat : p = f.Position
  OBVIOUS
<1>3. PICK r \in 0 .. w - 1 : r = p % w
  BY DivMod
<1>4. PICK t \in 1 .. n : /\ t = Take(f, n)
                          /\ t <= w - r
  BY <1>1, <1>2, <1>3 DEF Take
<1>5. CASE t = w - r
  <2>1. (p + t) % w = 0
    BY <1>3, <1>5, StepToEnd
  <2>2. QED
    BY <1>1, <1>2, <1>3, <1>4, <1>5, <2>1
<1>6. CASE t < w - r
  <2>1. (p + t) % w = r + t /\ (p + t) \div w = p \div w
    <3>1. t \in Nat /\ t < w - (p % w)
      BY <1>3, <1>6
    <3>2. QED
      BY <1>3, <3>1, StepInBlock
  <2>2. (p + t) % w # 0
    BY <2>1
  <2>3. QED
    BY <1>1, <1>2, <1>3, <1>4, <1>6, <2>1, <2>2
<1>7. QED
  BY <1>4, <1>5, <1>6

\* An iteration of FAT_Read on a file: the place in the chain follows the position, and
\* a sector that was read without failure is the position's.
LEMMA IterateFile ==
  ASSUME FatAssumption, VolumeAssumption, vol \in Volumes, dataSectionLba = FirstDataLba,
         dataSectionLba \in Nat,
         NEW h \in Handles, fd[h] \in FileData, NEW entry \in Listed(vol), Tracks(fd[h], entry),
         NEW n \in Nat \ {0}, n <= entry.size - fd[h].Position, NEW m \in Nat,
         NEW it \in Iterate(h, n, m)
  PROVE  /\ it.f \in FileData
         /\ it.f.Opened = fd[h].Opened
         /\ it.f.Position = fd[h].Position + Take(fd[h], n)
         /\ Tracks(it.f, entry)
         /\ it.ok \in BOOLEAN
         /\ it.max \in Nat
         /\ it.status \in {"more", "break", "fault"}
         /\ ~it.ok => failures < MaxFailures /\ it.status = "break"
         /\ it.f.Position % SECTOR_SIZE # 0 =>
              /\ it.ok = TRUE
              /\ it.status = "more"
              /\ it.max = m
              /\ Right(fd[h], entry) => Right(it.f, entry)
         /\ it.f.Position % SECTOR_SIZE = 0 /\ it.ok => Right(it.f, entry)
         /\ it.status = "break" /\ it.ok => it.f.Position = entry.size
<1>a. PICK f \in FileData : f = fd[h] /\ Tracks(f, entry)
  OBVIOUS
<1>b. PICK moved : moved = [f EXCEPT !.Position = @ + Take(f, n)]
  OBVIOUS
<1>1. PICK p \in Nat : p = f.Position
  BY DEF FileData
<1>2. PICK size \in Nat : size = entry.size
  BY ChainFacts
<1>3. PICK w \in Nat \ {0} : w = SECTOR_SIZE
  BY DEF FatAssumption
<1>4. PICK c \in Nat \ {0} : c = vol.sectorsPerCluster
  BY ChainFacts
<1>5. PICK t \in 1 .. n : t = Take(f, n)
  BY <1>1, Taken
<1>6. PICK p2 \in Nat : p2 = p + t
  OBVIOUS
<1>7. p2 <= size /\ p < p2 /\ p < size
  BY <1>a, <1>1, <1>2, <1>6, SMTT(30)
<1>8. /\ p2 % w = 0 => t = w - (p % w)
      /\ p2 % w # 0 => p2 \div w = p \div w
  BY <1>1, <1>3, <1>5, <1>6, Taken
<1>9. /\ moved \in FileData /\ moved.Position = p2 /\ moved = [f EXCEPT !.Position = moved.Position]
      /\ moved.Opened = f.Opened /\ moved.IsDirectory = f.IsDirectory /\ moved.Size = f.Size
      /\ moved.CurrentCluster = f.CurrentCluster /\ moved.Buffer = f.Buffer
      /\ moved.CurrentSectorInCluster = f.CurrentSectorInCluster
  BY <1>b, <1>1, <1>5, <1>6 DEF FileData
<1>10. h # Root
  BY DEF Handles, Root
<1>11. CASE p2 % w # 0
  <2>1. it = [f |-> moved, max |-> m, status |-> "more", ok |-> TRUE]
    BY <1>a, <1>b, <1>3, <1>9, <1>11 DEF Iterate
  <2>2. p2 \div w = p \div w
    BY <1>8, <1>11
  <2>3. Tracks(moved, entry)
    BY <1>a, <1>1, <1>2, <1>3, <1>7, <1>9, <2>2 DEF Tracks
  <2>4. Right(f, entry) => Right(moved, entry)
    <3>1. FileByte(entry, p2)[1] = FileByte(entry, p)[1]
      BY <1>3, <2>2 DEF FileByte
    <3>2. QED
      BY <1>1, <1>2, <1>7, <1>9, <3>1 DEF Right
  <2>5. QED
    BY <1>a, <1>1, <1>3, <1>5, <1>6, <1>9, <1>11, <2>1, <2>3, <2>4
<1>12. CASE p2 % w = 0
  <2>a. PICK g : g = Advance(moved)
    OBVIOUS
  <2>b. PICK u \in Nat : u = n - t
    OBVIOUS
  <2>1. it \in NextFileSector(moved, u, m)
    BY <2>b, <1>a, <1>b, <1>3, <1>5, <1>9, <1>10, <1>12 DEF Iterate
  <2>2. moved.Position = SectorEnd(f.Position)
    BY <1>1, <1>3, <1>6, <1>8, <1>9, <1>12 DEF SectorEnd
  <2>3. moved.Position <= entry.size
    BY <1>2, <1>7, <1>9
  <2>4. /\ g \in FileData /\ g.Position = p2 /\ g.Opened = f.Opened /\ g.Size = size
        /\ Tracks(g, entry)
        /\ EndOfChain(g.CurrentCluster) => p2 = size
    <3>1. /\ g \in FileData
          /\ g.Opened = moved.Opened /\ g.Position = moved.Position
          /\ Tracks(g, entry)
          /\ EndOfChain(g.CurrentCluster) => moved.Position = entry.size
      <4>1. /\ f \in FileData /\ Tracks(f, entry)
            /\ moved \in FileData
            /\ moved.IsDirectory = f.IsDirectory /\ moved.Size = f.Size
            /\ moved.CurrentCluster = f.CurrentCluster
            /\ moved.CurrentSectorInCluster = f.CurrentSectorInCluster
        BY <1>a, <1>9
      <4>2. QED
        BY <2>a, <2>2, <2>3, <4>1, AdvanceTracks
    <3>2. g.Size = size
      BY <1>2, <3>1 DEF Tracks
    <3>3. QED
      BY <1>2, <1>9, <3>1, <3>2
  <2>5. PICK cc \in Nat : cc = g.CurrentCluster
    BY <2>4 DEF FileData
  <2>6. PICK cs \in Nat : cs = g.CurrentSectorInCluster
    BY <2>4 DEF FileData
  <2>7. PICK lba \in Int : lba = FAT_ClusterToLba(cc) + cs
    BY <1>4 DEF FAT_ClusterToLba
  <2>8. moved.Buffer \in Int
    BY <1>9 DEF FileData
  <2>9. PICK max \in Nat : max = IF m = 0 THEN u \div SECTOR_SIZE ELSE m
    BY <1>3, DivMod
  <2>10. \/ /\ EndOfChain(cc)
            /\ it.f = [g EXCEPT !.Size = g.Position]
            /\ it.max = m /\ it.status = "break" /\ it.ok = TRUE
         \/ /\ ~EndOfChain(cc)
            /\ \E b \in Int : it.f = [g EXCEPT !.Buffer = b] /\ (it.ok => b = lba)
            /\ it.ok \in BOOLEAN
            /\ ~it.ok => failures < MaxFailures /\ it.status = "break"
            /\ it.ok => it.status = IF max = 0 THEN "fault" ELSE "more"
            /\ it.max = max
    <3>1. lba = FAT_ClusterToLba(g.CurrentCluster) + g.CurrentSectorInCluster
      BY <2>5, <2>6, <2>7
    <3>2. CASE EndOfChain(cc)
      BY <2>a, <2>1, <2>5, <3>2 DEF NextFileSector
    <3>3. CASE ~EndOfChain(cc)
      <4>1. PICK r \in DiskRead(moved.Buffer, lba) :
              it = [f |-> [g EXCEPT !.Buffer = r.buf], max |-> max, ok |-> r.ok,
                    status |-> IF ~r.ok THEN "break" ELSE IF max = 0 THEN "fault" ELSE "more"]
        BY <2>a, <2>1, <2>5, <2>9, <3>1, <3>3 DEF NextFileSector
      <4>2. /\ r.ok \in BOOLEAN /\ r.buf \in Int
            /\ r.ok => r.buf = lba
            /\ ~r.ok => failures < MaxFailures
        BY <2>8, ReadOutcome
      <4>3. /\ it.f = [g EXCEPT !.Buffer = r.buf]
            /\ it.max = max
            /\ it.ok = r.ok
            /\ it.status = IF ~r.ok THEN "break" ELSE IF max = 0 THEN "fault" ELSE "more"
        BY <4>1
      <4>4. \E b \in Int : it.f = [g EXCEPT !.Buffer = b] /\ (it.ok => b = lba)
        BY <4>2, <4>3
      <4>5. QED
        BY <3>3, <4>2, <4>3, <4>4
    <3>4. QED
      BY <3>2, <3>3
  <2>11. CASE EndOfChain(cc)
    <3>1. it.f = [g EXCEPT !.Size = g.Position] /\ p2 = size
      BY <2>4, <2>5, <2>10, <2>11
    <3>2. it.f = g
      BY <2>4, <3>1 DEF FileData
    <3>3. Right(it.f, entry)
      BY <1>2, <2>4, <3>1, <3>2 DEF Right
    <3>4. QED
      BY <1>a, <1>1, <1>2, <1>3, <1>5, <1>6, <1>12, <2>4, <2>10, <2>11, <3>1, <3>2, <3>3
  <2>12. CASE ~EndOfChain(cc)
    <3>1. PICK b \in Int : it.f = [g EXCEPT !.Buffer = b] /\ (it.ok => b = lba)
      BY <2>10, <2>12
    <3>2. /\ it.f \in FileData /\ it.f.Position = p2 /\ it.f.Opened = f.Opened
          /\ it.f.Size = size /\ it.f.Buffer = b /\ it.f.IsDirectory = g.IsDirectory
          /\ it.f.CurrentCluster = cc /\ it.f.CurrentSectorInCluster = cs
      BY <2>4, <2>5, <2>6, <3>1 DEF FileData
    <3>3. Tracks(it.f, entry)
      BY <2>4, <2>5, <2>6, <3>2, <1>2 DEF Tracks
    <3>4. it.ok => Right(it.f, entry)
      <4> SUFFICES ASSUME it.ok, p2 < size
                   PROVE  b = FileByte(entry, p2)[1]
        BY <1>2, <3>2 DEF Right
      <4>1. /\ cc = Chain(entry)[((p2 \div w) \div c) + 1]
            /\ cs = (p2 \div w) % c
        BY <1>2, <1>3, <1>4, <3>2, <3>3 DEF Tracks
      <4>2. b = FirstDataLba + (cc - 2) * c + cs
        BY <1>4, <2>7, <3>1 DEF FAT_ClusterToLba
      <4>3. FileByte(entry, p2)[1] = FirstDataLba + (cc - 2) * c + cs
        BY <1>3, <1>4, <4>1 DEF FileByte, Chain
      <4>4. QED
        BY <4>2, <4>3
    <3>5. /\ it.ok \in BOOLEAN
          /\ it.max = max
          /\ ~it.ok => failures < MaxFailures /\ it.status = "break"
          /\ it.ok => it.status \in {"fault", "more"}
      BY <2>10, <2>12
    <3>6. QED
      BY <1>a, <1>1, <1>3, <1>5, <1>6, <1>12, <3>2, <3>3, <3>4, <3>5
  <2>13. QED
    BY <2>11, <2>12
<1>13. QED
  BY <1>11, <1>12

-----------------------------------------------------------------------------
(* The bytes of a file. *)

\* The bytes of one sector differ in their offset only.
LEMMA SameSector ==
  ASSUME FatAssumption, NEW entry, NEW p \in Nat, NEW j \in Nat,
         j < SECTOR_SIZE - (p % SECTOR_SIZE)
  PROVE  FileByte(entry, p + j) = <<FileByte(entry, p)[1], (p % SECTOR_SIZE) + j>>
<1>1. PICK w \in Nat \ {0} : w = SECTOR_SIZE
  BY DEF FatAssumption
<1>2. (p + j) % w = (p % w) + j /\ (p + j) \div w = p \div w
  BY <1>1, StepInBlock
<1>3. (p + j) % SECTOR_SIZE = (p % SECTOR_SIZE) + j
      /\ (p + j) \div SECTOR_SIZE = p \div SECTOR_SIZE
  BY <1>1, <1>2
<1>4. QED
  BY <1>3 DEF FileByte

\* With the right sector in the buffer, FAT_Read copies the file's bytes.
LEMMA BytesRight ==
  ASSUME FatAssumption, NEW f, NEW entry, f.Position \in Nat, NEW n \in Nat \ {0},
         f.Position < entry.size, Right(f, entry)
  PROVE  Bytes(f, n) = FileBytes(entry, f.Position, Take(f, n))
<1>1. PICK w \in Nat \ {0} : w = SECTOR_SIZE
  BY DEF FatAssumption
<1>2. PICK p \in Nat : p = f.Position
  OBVIOUS
<1>3. PICK t \in 1 .. n : t = Take(f, n) /\ t <= SECTOR_SIZE - (p % SECTOR_SIZE)
  BY <1>2, Taken
<1>4. PICK b : b = FileByte(entry, p)[1] /\ b = f.Buffer
  BY <1>2 DEF Right
<1>5. PICK r \in Nat : r = p % SECTOR_SIZE /\ r < SECTOR_SIZE
  <2>1. p % w \in 0 .. w - 1
    BY DivMod
  <2>2. QED
    BY <1>1, <2>1
<1>6. ASSUME NEW k \in 1 .. t
      PROVE  <<b, r + k - 1>> = FileByte(entry, p + k - 1)
  <2>1. PICK j \in Nat : j = k - 1
    OBVIOUS
  <2>2. j < SECTOR_SIZE - (p % SECTOR_SIZE)
    BY <1>1, <1>3, <1>5, <2>1
  <2>3. FileByte(entry, p + j) = <<b, r + j>>
    <3>1. FileByte(entry, p + j) = <<FileByte(entry, p)[1], (p % SECTOR_SIZE) + j>>
      BY <2>2, SameSector
    <3>2. QED
      BY <1>4, <1>5, <3>1
  <2>4. p + j = p + k - 1 /\ r + j = r + k - 1
    BY <2>1
  <2>5. QED
    BY <2>3, <2>4
<1>7. Bytes(f, n) = [k \in 1 .. t |-> <<b, r + k - 1>>]
  BY <1>2, <1>3, <1>4, <1>5 DEF Bytes
<1>8. FileBytes(entry, p, t) = [k \in 1 .. t |-> FileByte(entry, p + k - 1)]
  BY DEF FileBytes
<1>9. [k \in 1 .. t |-> <<b, r + k - 1>>] = [k \in 1 .. t |-> FileByte(entry, p + k - 1)]
  BY <1>6, Zenon
<1>10. QED
  BY <1>2, <1>3, <1>7, <1>8, <1>9

\* What an iteration copies is a sequence of Take bytes.
LEMMA BytesTaken ==
  ASSUME FatAssumption, NEW f, f.Position \in Nat, f.Buffer \in Int, NEW n \in Nat \ {0}
  PROVE  Bytes(f, n) \in Seq(Int \X Int) /\ Len(Bytes(f, n)) = Take(f, n)
<1>1. PICK t \in 1 .. n : t = Take(f, n)
  BY Taken
<1>2. PICK r \in Nat : r = f.Position % SECTOR_SIZE
  BY DivMod DEF FatAssumption
<1>3. PICK b \in Int : b = f.Buffer
  OBVIOUS
<1>4. Bytes(f, n) = [k \in 1 .. t |-> <<b, r + k - 1>>]
  BY <1>1, <1>2, <1>3 DEF Bytes
<1>5. \A k \in 1 .. t : <<b, r + k - 1>> \in Int \X Int
  OBVIOUS
<1>6. t \in Nat
  OBVIOUS
<1>7. [k \in 1 .. t |-> <<b, r + k - 1>>] \in [1 .. t -> Int \X Int]
  BY <1>5, Zenon
<1>8. Bytes(f, n) \in [1 .. t -> Int \X Int]
  BY <1>4, <1>7
<1>9. QED
  BY <1>1, <1>6, <1>8

\* A name for concatenation, which the provers do not instantiate under quantifiers.
Joined(s, t) == s \o t

\* Of c bytes from the byte from, the first a end before the byte p and b follow.
Split(from, a, p, b, c) == p = from + a /\ c = a + b

\* Two adjoining pieces of a file make one.
LEMMA BytesJoin ==
  ASSUME NEW entry, NEW from \in Nat, NEW a \in Nat, NEW b \in Nat,
         NEW p \in Nat, NEW c \in Nat, Split(from, a, p, b, c)
  PROVE  Joined(FileBytes(entry, from, a), FileBytes(entry, p, b)) = FileBytes(entry, from, c)
<1> DEFINE S == {FileByte(entry, k) : k \in Nat}
<1>a. p = from + a /\ c = a + b
  BY DEF Split
<1>1. ASSUME NEW n \in Nat, NEW first \in Nat
      PROVE  /\ FileBytes(entry, first, n) \in Seq(S)
             /\ Len(FileBytes(entry, first, n)) = n
             /\ \A k \in 1 .. n : FileBytes(entry, first, n)[k] = FileByte(entry, first + k - 1)
  <2>1. ASSUME NEW k \in 1 .. n
        PROVE  FileByte(entry, first + k - 1) \in S
    <3>1. first + k - 1 \in Nat
      OBVIOUS
    <3>2. QED
      BY <3>1
  <2> HIDE DEF S
  <2>2. FileBytes(entry, first, n) \in [1 .. n -> S]
    BY <2>1 DEF FileBytes
  <2>3. \A k \in 1 .. n : FileBytes(entry, first, n)[k] = FileByte(entry, first + k - 1)
    BY DEF FileBytes
  <2>4. QED
    BY <2>2, <2>3
<1> HIDE DEF S
<1>2. PICK s \in Seq(S) : /\ s = FileBytes(entry, from, a) /\ Len(s) = a
                          /\ \A k \in 1 .. a : s[k] = FileByte(entry, from + k - 1)
  BY <1>1
<1>3. PICK t \in Seq(S) : /\ t = FileBytes(entry, p, b) /\ Len(t) = b
                          /\ \A k \in 1 .. b : t[k] = FileByte(entry, p + k - 1)
  BY <1>1
<1>4. PICK u \in Seq(S) : /\ u = FileBytes(entry, from, c) /\ Len(u) = c
                          /\ \A k \in 1 .. c : u[k] = FileByte(entry, from + k - 1)
  BY <1>1
<1>5. s \o t \in Seq(S) /\ Len(s \o t) = c
  <2>1. s \o t \in Seq(S) /\ Len(s \o t) = Len(s) + Len(t)
    BY ConcatProperties
  <2>2. QED
    BY <1>a, <1>2, <1>3, <2>1
<1>6. ASSUME NEW k \in 1 .. c
      PROVE  (s \o t)[k] = u[k]
  <2>1. CASE k <= a
    <3>1. k \in 1 .. Len(s) + Len(t) /\ k <= Len(s)
      BY <1>a, <1>2, <1>3, <2>1
    <3>2. (s \o t)[k] = s[k]
      BY <3>1, ConcatProperties
    <3>3. QED
      BY <1>2, <1>4, <2>1, <3>2
  <2>2. CASE k > a
    <3>1. PICK j \in 1 .. b : j = k - a
      BY <1>a, <2>2
    <3>2. (s \o t)[k] = t[j]
      <4>1. k > Len(s) /\ k <= Len(s) + Len(t) /\ k - Len(s) = j
        BY <1>a, <1>2, <1>3, <2>2, <3>1
      <4>2. QED
        BY <4>1, ConcatProperties
    <3>3. p + j - 1 = from + k - 1
      BY <1>a, <3>1
    <3>4. QED
      BY <1>3, <1>4, <3>2, <3>3
  <2>3. k <= a \/ k > a
    OBVIOUS
  <2>4. QED
    BY <2>1, <2>2, <2>3
<1>7. s \o t = u
  BY <1>4, <1>5, <1>6, SeqEqual
<1>8. QED
  BY <1>2, <1>3, <1>4, <1>7 DEF Joined

-----------------------------------------------------------------------------
(* Searching a directory. *)

\* An iteration over the root directory, whose sectors follow each other.
LEMMA IterateRoot ==
  ASSUME FatAssumption, fd[Root] \in FileData, NEW n \in Nat \ {0}, NEW m \in Nat,
         NEW it \in Iterate(Root, n, m)
  PROVE  /\ it.f \in FileData
         /\ it.f.Opened = fd[Root].Opened
         /\ it.f.IsDirectory = fd[Root].IsDirectory
         /\ it.f.Size = fd[Root].Size
         /\ it.f.Position = fd[Root].Position + Take(fd[Root], n)
         /\ it.ok \in BOOLEAN
         /\ ~it.ok => failures < MaxFailures
         /\ it.status \in {"more", "break"}
         /\ it.f.FirstCluster = fd[Root].FirstCluster
         /\ it.f.Position % SECTOR_SIZE # 0 =>
              /\ it.ok
              /\ it.f.CurrentCluster = fd[Root].CurrentCluster
              /\ it.f.Buffer = fd[Root].Buffer
         /\ it.f.Position % SECTOR_SIZE = 0 =>
              /\ it.f.CurrentCluster = fd[Root].CurrentCluster + 1
              /\ it.f.Buffer \in {fd[Root].Buffer, it.f.CurrentCluster, Junk}
              /\ it.ok => it.f.Buffer = it.f.CurrentCluster
<1>1. PICK f \in FileData : f = fd[Root]
  OBVIOUS
<1>2. PICK moved : moved = [f EXCEPT !.Position = @ + Take(f, n)]
  OBVIOUS
<1>3. PICK t \in 1 .. n : t = Take(f, n)
  BY Taken DEF FileData
<1>4. PICK p \in Nat : p = f.Position
  BY DEF FileData
<1>5. PICK p2 \in Nat : p2 = p + t
  OBVIOUS
<1>6. moved = [f EXCEPT !.Position = p2]
  BY <1>2, <1>3, <1>4, <1>5
<1>7. /\ moved \in FileData /\ moved.Position = p2
      /\ moved.Opened = f.Opened /\ moved.IsDirectory = f.IsDirectory /\ moved.Size = f.Size
      /\ moved.FirstCluster = f.FirstCluster /\ moved.CurrentCluster = f.CurrentCluster
      /\ moved.Buffer = f.Buffer
  BY <1>6 DEF FileData
<1>8. PICK q \in Nat : q = p + Take(f, n) /\ q = p2
  BY <1>3, <1>5
<1>9. CASE moved.Position % SECTOR_SIZE # 0
  <2>1. it = [f |-> moved, max |-> m, status |-> "more", ok |-> TRUE]
    BY <1>1, <1>2, <1>9 DEF Iterate
  <2>2. QED
    BY <1>1, <1>4, <1>7, <1>8, <1>9, <2>1
<1>10. CASE moved.Position % SECTOR_SIZE = 0
  <2>1. it \in NextRootSector(moved, m)
    BY <1>1, <1>2, <1>10 DEF Iterate
  <2>2. PICK cc \in Nat : cc = moved.CurrentCluster + 1
    BY <1>7 DEF FileData
  <2>3. PICK r \in DiskRead(moved.Buffer, cc) :
          it = [f |-> [moved EXCEPT !.CurrentCluster = cc, !.Buffer = r.buf], max |-> m,
                status |-> IF r.ok THEN "more" ELSE "break", ok |-> r.ok]
    BY <2>1, <2>2 DEF NextRootSector
  <2>4. moved.Buffer \in Int
    BY <1>7 DEF FileData
  <2>5. /\ r.ok \in BOOLEAN /\ r.buf \in Int /\ (~r.ok => failures < MaxFailures)
        /\ r.buf \in {moved.Buffer, cc, Junk} /\ (r.ok => r.buf = cc)
    BY <2>4, ReadOutcome
  <2>6. PICK b \in Int : b = r.buf
    BY <2>5
  <2>7. /\ it.f = [moved EXCEPT !.CurrentCluster = cc, !.Buffer = b]
        /\ it.ok = r.ok
        /\ it.status = IF r.ok THEN "more" ELSE "break"
    BY <2>3, <2>6
  <2>8. it.status \in {"more", "break"}
    BY <2>7
  <2>9. /\ it.f \in FileData /\ it.f.Position = p2 /\ it.f.Opened = f.Opened
        /\ it.f.IsDirectory = f.IsDirectory /\ it.f.Size = f.Size
        /\ it.f.FirstCluster = f.FirstCluster /\ it.f.CurrentCluster = cc /\ it.f.Buffer = b
    BY <1>7, <2>7 DEF FileData
  <2>10. it.ok \in BOOLEAN /\ (~it.ok => failures < MaxFailures)
    BY <2>5, <2>7
  <2>11. /\ it.f.Position % SECTOR_SIZE = 0 /\ cc = f.CurrentCluster + 1
         /\ b \in {f.Buffer, cc, Junk} /\ (it.ok => b = cc)
    BY <1>7, <1>10, <2>2, <2>5, <2>6, <2>7, <2>9
  <2>12. QED
    BY <1>1, <1>4, <1>8, <2>8, <2>9, <2>10, <2>11
<1>11. QED
  BY <1>9, <1>10

\* An iteration over a subdirectory stays in its chain of clusters, or sets its size
\* where the chain ends.
LEMMA IterateDirectory ==
  ASSUME FatAssumption, VolumeAssumption, vol \in Volumes, dataSectionLba \in Nat,
         NEW h \in Handles, fd[h] \in FileData, NEW entry \in Listed(vol),
         TracksDir(fd[h], entry), fd[h].Size = 0,
         NEW n \in Nat \ {0}, NEW m \in Nat, NEW it \in Iterate(h, n, m)
  PROVE  /\ it.f \in FileData
         /\ it.f.Opened = fd[h].Opened
         /\ TracksDir(it.f, entry)
         /\ it.ok \in BOOLEAN
         /\ ~it.ok => failures < MaxFailures
         /\ it.status \in {"more", "break", "fault"}
         /\ it.f.Position = fd[h].Position + Take(fd[h], n)
         /\ it.f.Size = 0 =>
              it.f.Buffer \in {fd[h].Buffer, Junk,
                               FAT_ClusterToLba(it.f.CurrentCluster) + it.f.CurrentSectorInCluster}
         /\ it.f.Size # 0 => it.f.Buffer = fd[h].Buffer
         /\ it.f.Position % SECTOR_SIZE # 0 =>
              /\ it.ok
              /\ it.f.Size = 0
              /\ it.f.CurrentCluster = fd[h].CurrentCluster
              /\ it.f.CurrentSectorInCluster = fd[h].CurrentSectorInCluster
              /\ it.f.Buffer = fd[h].Buffer
<1>1. PICK f \in FileData : f = fd[h] /\ TracksDir(f, entry) /\ f.Size = 0
  OBVIOUS
<1>2. PICK moved : moved = [f EXCEPT !.Position = @ + Take(f, n)]
  OBVIOUS
<1>3. PICK t \in 1 .. n : t = Take(f, n)
  BY Taken DEF FileData
<1>4. PICK p2 \in Nat : p2 = f.Position + t /\ p2 > 0 /\ p2 = f.Position + Take(f, n)
  BY <1>3 DEF FileData
<1>5. PICK c \in Nat \ {0} : c = vol.sectorsPerCluster
  BY ChainFacts
<1>6. PICK chain \in Seq(Nat) : chain = Chain(entry)
  BY ChainFacts
<1>7. PICK l \in Nat : l = Len(chain)
  BY LenProperties
<1>8. DOMAIN chain = 1 .. l
  BY <1>7
<1>9. PICK r \in Nat : r = f.CurrentSectorInCluster /\ r < c
  BY <1>1, <1>5 DEF TracksDir, FileData
<1>10. PICK k \in 1 .. l : f.CurrentCluster = chain[k]
  BY <1>1, <1>6, <1>8 DEF TracksDir
<1>11. PICK here \in Nat : here = chain[k]
  BY <1>7
<1>12. moved = [f EXCEPT !.Position = p2]
  BY <1>2, <1>3, <1>4
<1>13. /\ moved \in FileData /\ moved.Position = p2 /\ moved.Opened = f.Opened
       /\ moved.Size = 0 /\ moved.CurrentCluster = here /\ moved.CurrentSectorInCluster = r
       /\ moved.Buffer = f.Buffer
  BY <1>1, <1>9, <1>10, <1>11, <1>12 DEF FileData
<1>14. moved.IsDirectory = TRUE
  BY <1>1, <1>12 DEF FileData, TracksDir
<1>15. h # Root
  BY DEF Handles, Root
<1>16. CASE moved.Position % SECTOR_SIZE # 0
  <2>1. it = [f |-> moved, max |-> m, status |-> "more", ok |-> TRUE]
    BY <1>1, <1>2, <1>16 DEF Iterate
  <2>2. TracksDir(moved, entry)
    BY <1>5, <1>6, <1>8, <1>9, <1>11, <1>13, <1>14 DEF TracksDir
  <2>3. QED
    BY <1>1, <1>4, <1>9, <1>10, <1>11, <1>13, <2>1, <2>2
<1>17. CASE moved.Position % SECTOR_SIZE = 0
  <2>a. PICK g : g = Advance(moved)
    OBVIOUS
  <2>b. PICK u \in Nat : u = n - t
    OBVIOUS
  <2>1. it \in NextFileSector(moved, u, m)
    BY <1>1, <1>2, <1>3, <1>15, <1>17, <2>b DEF Iterate
  <2>2. PICK next \in Nat :
          /\ next = FAT_NextCluster(vol.table, here)
          /\ EndOfChain(next) \/ \E j \in 1 .. l : next = chain[j]
    <3>1. /\ FAT_NextCluster(vol.table, here) \in Nat
          /\ k = l => EndOfChain(FAT_NextCluster(vol.table, here))
          /\ k < l => FAT_NextCluster(vol.table, here) = chain[k + 1]
      BY <1>6, <1>7, <1>11, ChainFacts
    <3>2. k < l => k + 1 \in 1 .. l
      OBVIOUS
    <3>3. k = l \/ k < l
      OBVIOUS
    <3>4. QED
      BY <3>1, <3>2, <3>3
  <2>3. PICK cc \in Nat, cs \in Nat :
          /\ g = [moved EXCEPT !.CurrentSectorInCluster = cs, !.CurrentCluster = cc]
          /\ cs < c
          /\ EndOfChain(cc) \/ \E j \in 1 .. l : cc = chain[j]
    <3>1. CASE r + 1 >= c
      <4>1. g = [moved EXCEPT !.CurrentSectorInCluster = 0, !.CurrentCluster = next]
        BY <1>5, <1>13, <2>a, <2>2, <3>1 DEF Advance
      <4>2. 0 \in Nat /\ 0 < c
        OBVIOUS
      <4>3. QED
        BY <2>2, <4>1, <4>2
    <3>2. CASE r + 1 < c
      <4>1. g = [moved EXCEPT !.CurrentSectorInCluster = r + 1]
        BY <1>5, <1>13, <2>a, <3>2, SMTT(30) DEF Advance
      <4>2. g = [moved EXCEPT !.CurrentSectorInCluster = r + 1, !.CurrentCluster = here]
        BY <1>13, <4>1 DEF FileData
      <4>3. r + 1 \in Nat
        OBVIOUS
      <4>4. QED
        BY <1>11, <3>2, <4>2, <4>3
    <3>3. r + 1 >= c \/ r + 1 < c
      OBVIOUS
    <3>4. QED
      BY <3>1, <3>2, <3>3
  <2>4. g \in FileData
    BY <1>13, <2>3, MovedData
  <2>5. /\ g.Position = p2 /\ g.Opened = f.Opened /\ g.Size = 0
        /\ g.CurrentCluster = cc /\ g.CurrentSectorInCluster = cs /\ g.IsDirectory = TRUE
        /\ g.Buffer = f.Buffer
    BY <1>13, <1>14, <2>3 DEF FileData
  <2>6. CASE EndOfChain(cc)
    <3>1. it = [f |-> [g EXCEPT !.Size = p2], max |-> m, status |-> "break", ok |-> TRUE]
      BY <2>a, <2>1, <2>5, <2>6 DEF NextFileSector
    <3>2. PICK new : new = [g EXCEPT !.Size = p2]
      OBVIOUS
    <3>3. /\ new \in FileData /\ new.Position = p2 /\ new.Size = p2 /\ new.Opened = f.Opened
          /\ new.IsDirectory = TRUE /\ new.CurrentSectorInCluster = cs /\ new.Buffer = f.Buffer
      BY <2>4, <2>5, <3>2 DEF FileData
    <3>4. TracksDir(new, entry)
      BY <1>4, <1>5, <2>3, <3>3 DEF TracksDir
    <3>5. it.f = new /\ it.status = "break" /\ it.ok = TRUE
      BY <3>1, <3>2
    <3>6. QED
      BY <1>1, <1>4, <1>13, <1>17, <3>3, <3>4, <3>5
  <2>7. CASE ~EndOfChain(cc)
    <3>1. PICK lba \in Int : lba = FAT_ClusterToLba(g.CurrentCluster) + g.CurrentSectorInCluster
      BY <1>5, <2>5 DEF FAT_ClusterToLba
    <3>2. PICK r0 \in DiskRead(moved.Buffer, lba) :
            /\ it.f = [g EXCEPT !.Buffer = r0.buf]
            /\ it.ok = r0.ok
            /\ it.status \in {"break", "fault", "more"}
      <4>1. PICK r0 \in DiskRead(moved.Buffer, lba) :
              it = [f |-> [g EXCEPT !.Buffer = r0.buf],
                    max |-> IF m = 0 THEN u \div SECTOR_SIZE ELSE m, ok |-> r0.ok,
                    status |-> IF ~r0.ok THEN "break"
                               ELSE IF (IF m = 0 THEN u \div SECTOR_SIZE ELSE m) = 0
                               THEN "fault" ELSE "more"]
        BY <2>a, <2>1, <2>5, <2>7, <3>1 DEF NextFileSector
      <4>2. QED
        BY <4>1
    <3>3. moved.Buffer \in Int
      BY <1>13 DEF FileData
    <3>4. /\ r0.ok \in BOOLEAN /\ r0.buf \in Int /\ (~r0.ok => failures < MaxFailures)
          /\ r0.buf \in {moved.Buffer, lba, Junk}
      BY <3>3, ReadOutcome
    <3>5. PICK b \in Int : b = r0.buf
      BY <3>4
    <3>6. it.f = [g EXCEPT !.Buffer = b]
      BY <3>2, <3>5
    <3>7. /\ it.f \in FileData /\ it.f.Position = p2 /\ it.f.Size = 0 /\ it.f.Opened = f.Opened
          /\ it.f.IsDirectory = TRUE /\ it.f.CurrentSectorInCluster = cs /\ it.f.CurrentCluster = cc
      BY <2>4, <2>5, <3>6 DEF FileData
    <3>8. TracksDir(it.f, entry)
      BY <1>5, <1>6, <1>8, <2>3, <2>7, <3>7 DEF TracksDir
    <3>9. it.ok \in BOOLEAN /\ (~it.ok => failures < MaxFailures)
      BY <3>2, <3>4
    <3>10. it.f.Buffer \in {f.Buffer, Junk,
                            FAT_ClusterToLba(it.f.CurrentCluster) + it.f.CurrentSectorInCluster}
      <4>1. it.f.Buffer = b
        BY <2>4, <3>6 DEF FileData
      <4>2. lba = FAT_ClusterToLba(it.f.CurrentCluster) + it.f.CurrentSectorInCluster
        BY <2>5, <3>1, <3>7
      <4>3. QED
        BY <1>13, <3>4, <3>5, <4>1, <4>2
    <3>11. QED
      BY <1>1, <1>4, <1>13, <1>17, <3>2, <3>7, <3>8, <3>9, <3>10
  <2>8. QED
    BY <2>6, <2>7
<1>18. QED
  BY <1>16, <1>17

\* The entry a search compares next is one of the volume's, unless its name is empty.
LEMMA EntryListed ==
  ASSUME FatAssumption, VolumeAssumption, vol \in Volumes, NEW f \in FileData,
         EntryAt(f).name # <<>>
  PROVE  EntryAt(f) \in Listed(vol)
<1>1. PICK d \in Nat \ {0} : d = DirEntrySize
  BY DEF FatAssumption
<1>2. PICK w \in Nat \ {0} : w = SECTOR_SIZE /\ w % d = 0
  BY <1>1 DEF FatAssumption
<1>3. PICK p \in Nat : p = f.Position
  BY DEF FileData
<1>4. PICK r \in 0 .. w - 1 : r = p % w
  BY DivMod
<1>5. PICK m \in Nat : m = w \div d /\ w = (d * m) + (w % d)
  BY DivMod
<1>6. r < d * m
  <2>1. d * m \in Nat
    OBVIOUS
  <2>2. QED
    BY <1>2, <1>5, <2>1
<1>7. PICK i \in 0 .. m - 1 : i = r \div d
  <2>1. r \in Nat
    OBVIOUS
  <2>2. r \div d \in Nat /\ r \div d < m
    BY <1>6, <2>1, DivMod, DivLess
  <2>3. QED
    BY <2>2
<1>8. PICK j \in 1 .. m : j = i + 1
  OBVIOUS
<1>9. PICK b : b = f.Buffer
  OBVIOUS
<1>10. b \in DOMAIN vol.slots /\ EntryAt(f) = vol.slots[b][j]
  <2>1. j = (f.Position % SECTOR_SIZE) \div DirEntrySize + 1
    BY <1>1, <1>2, <1>3, <1>4, <1>7, <1>8
  <2>2. f.Buffer \in DOMAIN vol.slots
    BY DEF EntryAt, NoEntry
  <2>3. QED
    BY <1>9, <2>1, <2>2 DEF EntryAt
<1>11. j \in DOMAIN vol.slots[b]
  <2>1. DOMAIN vol.slots[b] = 1 .. SECTOR_SIZE \div DirEntrySize
    BY <1>10 DEF VolumeAssumption
  <2>2. QED
    BY <1>1, <1>2, <1>5, <2>1
<1>12. EntryAt(f) \in UNION { {vol.slots[l][k] : k \in DOMAIN vol.slots[l]} : l \in DOMAIN vol.slots }
  BY <1>10, <1>11
<1>13. QED
  BY <1>12 DEF Listed

-----------------------------------------------------------------------------
(* What every call of the driver keeps. *)

\* FAT_Initialize has succeeded, and no call has ended in a fault.
Active == {"idle", "find", "entry", "read"}

DriverTypes ==
  /\ vol \in Volumes
  /\ dataSectionLba \in Nat
  /\ fd \in [Handles \cup {Root} -> FileData]
  /\ op \in {"off", "table", "root", "idle", "find", "entry", "read",
             "failed", "fault", "wild"}
  /\ failures \in 0 .. MaxFailures
  /\ tainted \subseteq Handles \cup {Root}
  /\ current \in Handles \cup {Root, NULL}
  /\ ret \in Handles \cup {NULL}

RootOK ==
  /\ op \in Active => dataSectionLba = FirstDataLba /\ fd[Root].IsDirectory = TRUE
  /\ fd[Root].Size = 0 \/ fd[Root].Position <= fd[Root].Size

\* Bytes a call of FAT_Read delivers: those asked for, or those left.
Wanted(call) ==
  LET left == call.entry.size - call.from
  IN  IF call.want < left THEN call.want ELSE left

Transfers == [h : Handles, entry : Listed(vol), from : Nat, want : Nat, n : Nat,
              maxSector : Nat, out : Seq(Int \X Int), clean : BOOLEAN]

\* In FAT_Read: what was delivered are the file's bytes up to its position.
Reading ==
  /\ io \in Transfers
  /\ ~io.entry.dir
  /\ Tracks(fd[io.h], io.entry)
  /\ io.from + Len(io.out) = fd[io.h].Position
  /\ io.n + Len(io.out) = Wanted(io)
  /\ io.clean => /\ io.h \notin tainted
                 /\ Right(fd[io.h], io.entry)
                 /\ io.out = FileBytes(io.entry, io.from, Len(io.out))

\* In a search: the directory is the root, or the entry the last search found.
Searching ==
  /\ path \in Seq(Seq(STRING)) /\ path # <<>>
  /\ fatName # <<>>
  /\ \/ current = Root
     \/ /\ current \in Handles
        /\ target \in Listed(vol)
        /\ target.dir
        /\ TracksDir(fd[current], target)

\* Behind a search: what it found can be opened, and be searched if the path goes on.
Found ==
  /\ path \in Seq(Seq(STRING)) /\ path # <<>>
  /\ target \in Listed(vol)
  /\ Len(path) = 1 \/ target.dir

InCall ==
  /\ op = "find" => Searching
  /\ op = "entry" => Found
  /\ op = "read" => Reading

\* What FAT_Read has delivered when it returns.
Delivered ==
  io.clean => /\ op \in {"read", "idle", "fault"}
              /\ op = "idle" => io.out = FileBytes(io.entry, io.from, Wanted(io))

DriverOK == DriverTypes /\ RootOK /\ InCall /\ Delivered

\* The volume never changes, nor does what is defined by it.
LEMMA VolumeKept ==
  ASSUME vol' = vol
  PROVE  /\ FirstDataLba' = FirstDataLba
         /\ \A e, a, n : FileBytes(e, a, n)' = FileBytes(e, a, n)
         /\ \A f, e : Tracks(f, e)' <=> Tracks(f, e)
         /\ \A f, e : TracksDir(f, e)' <=> TracksDir(f, e)
         /\ \A f, e : Right(f, e)' <=> Right(f, e)
         /\ Transfers' = Transfers
<1>1. FirstDataLba' = FirstDataLba
  BY DEF FirstDataLba, DataStart
<1>2. ASSUME NEW e, NEW k
      PROVE  FileByte(e, k)' = FileByte(e, k)
  BY <1>1 DEF FileByte
<1>3. ASSUME NEW e, NEW a, NEW n
      PROVE  FileBytes(e, a, n)' = FileBytes(e, a, n)
  BY <1>2 DEF FileBytes
<1>4. ASSUME NEW e, NEW f
      PROVE  Tracks(f, e)' <=> Tracks(f, e)
  BY <1>2 DEF Tracks, Chain
<1>5. ASSUME NEW e, NEW f
      PROVE  Right(f, e)' <=> Right(f, e)
  BY <1>2 DEF Right
<1>6. ASSUME NEW e, NEW f
      PROVE  TracksDir(f, e)' <=> TracksDir(f, e)
  BY DEF TracksDir, Chain
<1>7. Transfers' = Transfers
  BY DEF Transfers
<1>8. QED
  BY <1>1, <1>3, <1>4, <1>5, <1>6, <1>7

LEMMA CountedStays ==
  ASSUME FatAssumption, failures \in 0 .. MaxFailures, NEW ok \in BOOLEAN,
         ~ok => failures < MaxFailures, Counted(ok)
  PROVE  failures' \in 0 .. MaxFailures
<1>1. PICK n \in Nat : n = MaxFailures
  BY DEF FatAssumption
<1>2. CASE ok = TRUE
  BY <1>1, <1>2 DEF Counted
<1>3. CASE ok = FALSE
  BY <1>1, <1>3 DEF Counted
<1>4. QED
  BY <1>2, <1>3

LEMMA NotHandles ==
  ASSUME FatAssumption
  PROVE  /\ Root \notin Handles /\ NULL \notin Handles /\ NULL # Root
         /\ Handles \subseteq Nat /\ IsFiniteSet(Handles)
<1>1. MAX_FILE_HANDLES - 1 \in Int
  BY DEF FatAssumption
<1>2. IsFiniteSet(Handles)
  BY <1>1, FS_Interval DEF Handles
<1>3. QED
  BY <1>2 DEF Handles, Root, NULL

\* Memory before FAT_Initialize.
LEMMA InitiallyOK ==
  ASSUME FatAssumption, DriverInit
  PROVE  DriverOK
<1>1. DriverTypes
  <2>1. Closed \in FileData
    BY DEF Closed, FileData, Junk
  <2>2. fd \in [Handles \cup {Root} -> FileData]
    BY <2>1 DEF DriverInit
  <2>3. failures \in 0 .. MaxFailures
    BY DEF DriverInit, FatAssumption
  <2>4. QED
    BY <2>2, <2>3 DEF DriverInit, DriverTypes
<1>2. RootOK
  BY DEF DriverInit, RootOK, Active, Closed
<1>3. InCall
  BY DEF DriverInit, InCall
<1>4. Delivered
  BY DEF DriverInit, Delivered, NoRead
<1>5. QED
  BY <1>1, <1>2, <1>3, <1>4 DEF DriverOK

\* FAT_Initialize leaves the file handles alone; its last step finds the cluster area.
LEMMA InitializeKeeps ==
  ASSUME FatAssumption, VolumeAssumption, DriverOK, FAT_Initialize
  PROVE  /\ DriverOK'
         /\ op \in {"off", "table", "root"}
         /\ op' \in {"table", "root", "idle", "failed"}
         /\ \A h \in Handles : fd'[h] = fd[h]
         /\ UNCHANGED <<vol, tainted>>
<1>1. DriverTypes /\ RootOK /\ InCall /\ Delivered
  BY DEF DriverOK
<1>2. vol' = vol /\ tainted' = tainted /\ current' = current /\ ret' = ret /\ io' = io
  BY DEF FAT_Initialize, ReadBootSector, ReadTable, ReadRoot
<1>3. op \in {"off", "table", "root"} /\ op' \in {"table", "root", "idle", "failed"}
  BY DEF FAT_Initialize, ReadBootSector, ReadTable, ReadRoot
<1>4. ~io.clean
  BY <1>1, <1>3 DEF Delivered
<1>5. Delivered' /\ InCall'
  BY <1>2, <1>3, <1>4 DEF Delivered, InCall
<1>6. RootDirLba \in Nat /\ RootDirSize \in Nat
  <2>1. /\ vol.reserved \in Nat
        /\ vol.fatCount \in Nat
        /\ vol.sectorsPerFat \in Nat
        /\ vol.dirEntryCount \in Nat
        /\ DirEntrySize \in Nat
    BY <1>1 DEF DriverTypes, VolumeAssumption, FatAssumption
  <2>2. \A a, b \in Nat : a * b \in Nat
    OBVIOUS
  <2>3. vol.sectorsPerFat * vol.fatCount \in Nat /\ DirEntrySize * vol.dirEntryCount \in Nat
    BY <2>1, <2>2
  <2>4. QED
    BY <2>1, <2>3 DEF RootDirLba, RootDirSize
<1>7. Junk \in Int
  BY DEF Junk
<1>8. ASSUME ReadBootSector \/ ReadTable
      PROVE  DriverTypes' /\ RootOK' /\ fd' = fd
  <2>1. fd' = fd /\ dataSectionLba' = dataSectionLba /\ op' \in {"table", "root", "failed"}
    BY <1>8 DEF ReadBootSector, ReadTable
  <2>2. \E lba \in Int : \E r \in DiskRead(Junk, lba) : Counted(r.ok)
    <3>1. CASE ReadBootSector
      BY <3>1 DEF ReadBootSector
    <3>2. CASE ReadTable
      <4>1. vol.reserved \in Int
        BY <1>1 DEF DriverTypes, VolumeAssumption
      <4>2. QED
        BY <3>2, <4>1 DEF ReadTable
    <3>3. QED
      BY <1>8, <3>1, <3>2
  <2>3. failures' \in 0 .. MaxFailures
    BY <1>1, <1>7, <2>2, ReadOutcome, CountedStays DEF DriverTypes
  <2>4. QED
    BY <1>1, <1>2, <2>1, <2>3 DEF DriverTypes, RootOK, Active
<1>9. ASSUME ReadRoot
      PROVE  DriverTypes' /\ RootOK' /\ (\A h \in Handles : fd'[h] = fd[h])
  <2>1. PICK r \in DiskRead(Junk, RootDirLba) :
          /\ fd' = [fd EXCEPT ![Root] = RootFile(r.buf)]
          /\ IF r.ok THEN op' = "idle" /\ dataSectionLba' = DataSectionLba
             ELSE op' = "failed" /\ UNCHANGED dataSectionLba
          /\ Counted(r.ok)
    BY <1>9 DEF ReadRoot
  <2>2. r.ok \in BOOLEAN /\ r.buf \in Int /\ (~r.ok => failures < MaxFailures)
    BY <1>6, <1>7, ReadOutcome
  <2>3. failures' \in 0 .. MaxFailures
    BY <1>1, <2>1, <2>2, CountedStays DEF DriverTypes
  <2>4. PICK b \in Int : b = r.buf
    BY <2>2
  <2>5. RootFile(b) \in FileData
    BY <1>6 DEF RootFile, FileData
  <2>6. fd' \in [Handles \cup {Root} -> FileData] /\ fd'[Root] = RootFile(b)
    BY <1>1, <2>1, <2>4, <2>5 DEF DriverTypes
  <2>7. DataSectionLba = FirstDataLba /\ DataSectionLba \in Nat
    BY <1>1, DataSectionRight DEF DriverTypes
  <2>8. dataSectionLba' \in Nat /\ (op' = "idle" => dataSectionLba' = FirstDataLba')
    BY <1>1, <1>2, <2>1, <2>7, VolumeKept DEF DriverTypes
  <2>9. DriverTypes'
    BY <1>1, <1>2, <1>3, <2>3, <2>6, <2>8 DEF DriverTypes
  <2>10. fd'[Root].IsDirectory = TRUE /\ fd'[Root].Position <= fd'[Root].Size
    BY <1>6, <2>6 DEF RootFile
  <2>11. RootOK'
    BY <1>3, <2>8, <2>10 DEF RootOK, Active
  <2>12. \A h \in Handles : fd'[h] = fd[h]
    BY <1>1, <2>1, NotHandles DEF DriverTypes
  <2>13. QED
    BY <2>9, <2>11, <2>12
<1>10. QED
  BY <1>2, <1>3, <1>5, <1>8, <1>9 DEF FAT_Initialize, DriverOK

\* The name searched for has BASE + EXT characters.
LEMMA NameNotEmpty ==
  ASSUME NameAssumption, NEW old, NEW component, NEW isLast, NextName(old, component, isLast)
  PROVE  fatName' # <<>>
<1>1. PICK r : fatName' = FatNameOf(Extracted(old, component, r))
  BY DEF NextName
<1>2. DOMAIN fatName' = 1 .. BASE + EXT
  BY <1>1 DEF FatNameOf
<1>3. 1 \in DOMAIN fatName'
  BY <1>2 DEF NameAssumption
<1>4. QED
  BY <1>3

\* FAT_Open starts its first search in the root directory.
LEMMA OpenKeeps ==
  ASSUME FatAssumption, NameAssumption, DriverOK,
         NEW p \in Seq(Seq(STRING)), p # <<>>, FAT_Open(p)
  PROVE  DriverOK'
<1>1. DriverTypes /\ RootOK
  BY DEF DriverOK
<1>2. /\ op = "idle" /\ op' = "find" /\ path' = p /\ current' = Root /\ ret' = NULL
      /\ io' = NoRead /\ vol' = vol /\ dataSectionLba' = dataSectionLba /\ fd' = fd
      /\ failures' = failures /\ tainted' = tainted
  BY DEF FAT_Open
<1>3. DriverTypes'
  BY <1>1, <1>2 DEF DriverTypes
<1>4. RootOK'
  <2>1. FirstDataLba' = FirstDataLba
    BY <1>2, VolumeKept
  <2>2. QED
    BY <1>1, <1>2, <2>1 DEF RootOK, Active
<1>5. fatName' # <<>>
  BY NameNotEmpty DEF FAT_Open
<1>6. InCall'
  BY <1>2, <1>5 DEF InCall, Searching
<1>7. Delivered'
  BY <1>2 DEF Delivered, NoRead
<1>8. QED
  BY <1>3, <1>4, <1>6, <1>7 DEF DriverOK

\* How much FAT_ReadEntry still finds: nothing only where a known size ends.
LEMMA SearchLimit ==
  ASSUME FatAssumption, NEW f \in FileData, f.IsDirectory = TRUE,
         f.Size = 0 \/ f.Position <= f.Size
  PROVE  /\ Limit(f, DirEntrySize) \in Nat
         /\ f.Size = 0 => Limit(f, DirEntrySize) # 0
         /\ f.Size # 0 => Limit(f, DirEntrySize) <= f.Size - f.Position
<1>1. PICK d \in Nat \ {0} : d = DirEntrySize
  BY DEF FatAssumption
<1>2. PICK p \in Nat, size \in Nat : p = f.Position /\ size = f.Size
  BY DEF FileData
<1>3. CASE size = 0
  <2>1. Limit(f, DirEntrySize) = d
    BY <1>1, <1>2, <1>3 DEF Limit
  <2>2. QED
    BY <1>2, <1>3, <2>1
<1>4. CASE size # 0 /\ d < size - p
  <2>1. Limit(f, DirEntrySize) = d
    BY <1>1, <1>2, <1>4 DEF Limit
  <2>2. QED
    BY <1>2, <1>4, <2>1
<1>5. CASE size # 0 /\ ~(d < size - p)
  <2>1. Limit(f, DirEntrySize) = size - p
    BY <1>1, <1>2, <1>5 DEF Limit
  <2>2. size - p \in Nat
    BY <1>2, <1>5
  <2>3. QED
    BY <1>2, <1>5, <2>1, <2>2
<1>6. QED
  BY <1>3, <1>4, <1>5

\* FAT_FindFile: the directory is read on, or closed with the entry found or without.
LEMMA FindOutcome ==
  ASSUME FatAssumption, VolumeAssumption, DriverOK, FAT_FindFile
  PROVE  \E f \in FileData :
           /\ f.Opened = fd[current].Opened
           /\ current = Root => f.IsDirectory = TRUE /\ (f.Size = 0 \/ f.Position <= f.Size)
           /\ current = Root => f.Size = fd[Root].Size /\ f.FirstCluster = fd[Root].FirstCluster
           /\ current # Root => TracksDir(f, target)
           /\ \/ /\ op' \in {"idle", "entry"}
                 /\ fd' = [fd EXCEPT ![current] = AfterClose(current, f)]
                 /\ op' = "entry" => /\ target' \in Listed(vol) /\ target'.name = fatName
                                     /\ Len(path) = 1 \/ target'.dir
                 /\ op' = "idle" => ret' = NULL
                 /\ ret' \in {ret, NULL}
              \/ /\ op' = "find"
                 /\ fd' = [fd EXCEPT ![current] = f]
                 /\ UNCHANGED <<target, ret, names>>
              \/ /\ op' = "fault" /\ current # Root
                 /\ UNCHANGED <<fd, ret>>
           /\ failures' \in 0 .. MaxFailures
           /\ tainted' \in {tainted, tainted \cup {current}}
<1>1. DriverTypes /\ RootOK /\ op = "find" /\ Searching
  BY DEF DriverOK, InCall, FAT_FindFile
<1>2. PICK f \in FileData : f = fd[current]
  BY <1>1 DEF DriverTypes, Searching
<1>3. PICK d \in Nat \ {0} : d = DirEntrySize
  BY DEF FatAssumption
<1>4. PICK p \in Nat, size \in Nat : p = f.Position /\ size = f.Size
  BY DEF FileData
<1>5. current = Root => f.IsDirectory = TRUE /\ (size = 0 \/ p <= size)
  BY <1>1, <1>2, <1>4 DEF RootOK, Active
<1>6. current # Root => /\ current \in Handles /\ target \in Listed(vol)
                        /\ TracksDir(f, target)
  BY <1>1, <1>2 DEF Searching
<1>7. f.IsDirectory = TRUE
  BY <1>5, <1>6 DEF TracksDir, FileData
<1>8. PICK n \in Nat : /\ n = Limit(f, DirEntrySize)
                       /\ size = 0 => n # 0
                       /\ size # 0 => n <= size - p
                       /\ size # 0 /\ current # Root => n = 0
  <2>1. size # 0 => p <= size /\ (current # Root => p = size)
    <3>1. current # Root => size = 0 \/ size = p
      BY <1>4, <1>6 DEF TracksDir
    <3>2. QED
      BY <1>5, <3>1
  <2>2. PICK n \in Nat : /\ n = Limit(f, DirEntrySize)
                         /\ size = 0 => n # 0
                         /\ size # 0 => n <= size - p
    BY <1>4, <1>7, <2>1, SearchLimit
  <2>3. QED
    BY <2>1, <2>2
<1>9. CASE n = 0
  <2>1. SearchEnds(f, NoEntry, FALSE) /\ UNCHANGED <<failures, tainted>>
    BY <1>2, <1>8, <1>9 DEF FAT_FindFile
  <2>2. op' = "idle" /\ fd' = [fd EXCEPT ![current] = AfterClose(current, f)] /\ ret' = NULL
    BY <2>1 DEF SearchEnds
  <2>3. QED
    BY <1>1, <1>2, <1>4, <1>5, <1>6, <2>1, <2>2 DEF DriverTypes
<1>10. CASE n # 0
  <2>1. PICK it \in Iterate(current, n, 0) :
          /\ Counted(it.ok)
          /\ tainted' = IF it.ok THEN tainted ELSE tainted \cup {current}
          /\ \/ /\ it.status # "fault"
                /\ EntryAt(f).name = fatName
                /\ SearchEnds(it.f, EntryAt(f), TRUE)
             \/ /\ it.status # "fault"
                /\ EntryAt(f).name # fatName
                /\ fd' = [fd EXCEPT ![current] = it.f]
                /\ UNCHANGED <<op, target, ret, names>>
             \/ /\ it.status = "fault"
                /\ op' = "fault"
                /\ UNCHANGED <<fd, target, ret, names>>
    BY <1>2, <1>8, <1>10 DEF FAT_FindFile
  <2>2. /\ it.f \in FileData
        /\ it.f.Opened = f.Opened
        /\ current = Root => it.f.IsDirectory = TRUE /\ (it.f.Size = 0 \/ it.f.Position <= it.f.Size)
        /\ current = Root => it.f.Size = f.Size /\ it.f.FirstCluster = f.FirstCluster
        /\ current # Root => TracksDir(it.f, target)
        /\ it.ok \in BOOLEAN
        /\ ~it.ok => failures < MaxFailures
        /\ current = Root => it.status # "fault"
    <3>1. CASE current = Root
      <4>1. it \in Iterate(Root, n, 0) /\ fd[Root] \in FileData /\ n \in Nat \ {0} /\ 0 \in Nat
        BY <1>2, <1>10, <2>1, <3>1
      <4>2. /\ it.f \in FileData
            /\ it.f.Opened = fd[Root].Opened
            /\ it.f.IsDirectory = fd[Root].IsDirectory
            /\ it.f.Size = fd[Root].Size
            /\ it.f.FirstCluster = fd[Root].FirstCluster
            /\ it.f.Position = fd[Root].Position + Take(fd[Root], n)
            /\ it.ok \in BOOLEAN
            /\ ~it.ok => failures < MaxFailures
            /\ it.status \in {"more", "break"}
        BY <4>1, IterateRoot
      <4>3. PICK t \in 1 .. n : t = Take(f, n)
        BY <1>4, <1>10, Taken
      <4>4. it.f.Size = 0 \/ it.f.Position <= it.f.Size
        <5>1. it.f.Size = size /\ it.f.Position = p + t
          BY <1>2, <1>4, <3>1, <4>2, <4>3
        <5>2. size = 0 \/ p + t <= size
          BY <1>8
        <5>3. QED
          BY <5>1, <5>2
      <4>5. QED
        BY <1>2, <1>7, <3>1, <4>2, <4>4
    <3>2. CASE current # Root
      <4>1. /\ current \in Handles /\ target \in Listed(vol) /\ TracksDir(fd[current], target)
            /\ fd[current] \in FileData /\ fd[current].Size = 0
            /\ n \in Nat \ {0} /\ 0 \in Nat
        BY <1>2, <1>4, <1>6, <1>8, <1>10, <3>2
      <4>2. vol \in Volumes /\ dataSectionLba \in Nat
        BY <1>1 DEF DriverTypes
      <4>3. /\ it.f \in FileData
            /\ it.f.Opened = fd[current].Opened
            /\ TracksDir(it.f, target)
            /\ it.ok \in BOOLEAN
            /\ ~it.ok => failures < MaxFailures
        BY <2>1, <4>1, <4>2, IterateDirectory
      <4>4. QED
        BY <1>2, <3>2, <4>3
    <3>3. QED
      BY <3>1, <3>2
  <2>3. failures' \in 0 .. MaxFailures
    BY <1>1, <2>1, <2>2, CountedStays DEF DriverTypes
  <2>4. tainted' \in {tainted, tainted \cup {current}}
    BY <2>1
  <2>5. PICK g \in FileData : g = it.f
    BY <2>2
  <2>6. \/ /\ op' \in {"idle", "entry"}
           /\ fd' = [fd EXCEPT ![current] = AfterClose(current, g)]
           /\ op' = "entry" => /\ target' \in Listed(vol) /\ target'.name = fatName
                               /\ Len(path) = 1 \/ target'.dir
           /\ op' = "idle" => ret' = NULL
           /\ ret' \in {ret, NULL}
        \/ /\ op' = "find"
           /\ fd' = [fd EXCEPT ![current] = g]
           /\ UNCHANGED <<target, ret, names>>
        \/ /\ op' = "fault" /\ current # Root
           /\ UNCHANGED <<fd, ret>>
    <3>1. CASE EntryAt(f).name = fatName /\ SearchEnds(it.f, EntryAt(f), TRUE)
      <4>1. EntryAt(f) \in Listed(vol)
        BY <1>1, <3>1, EntryListed DEF DriverTypes, Searching
      <4>2. PICK e \in Listed(vol) : e = EntryAt(f)
        BY <4>1
      <4>3. SearchEnds(g, e, TRUE)
        BY <2>5, <3>1, <4>2
      <4>4. QED
        BY <3>1, <4>2, <4>3 DEF SearchEnds
    <3>2. CASE /\ fd' = [fd EXCEPT ![current] = it.f]
               /\ UNCHANGED <<op, target, ret, names>>
      BY <1>1, <2>5, <3>2
    <3>3. CASE it.status = "fault" /\ op' = "fault" /\ UNCHANGED <<fd, target, ret, names>>
      BY <2>2, <3>3
    <3>4. QED
      BY <2>1, <3>1, <3>2, <3>3
  <2>7. QED
    BY <1>2, <2>2, <2>3, <2>4, <2>5, <2>6
<1>11. QED
  BY <1>9, <1>10

LEMMA ClosedData ==
  ASSUME NEW h, NEW f \in FileData
  PROVE  /\ AfterClose(h, f) \in FileData
         /\ h = Root => /\ AfterClose(h, f).IsDirectory = f.IsDirectory
                        /\ AfterClose(h, f).Position = 0
         /\ h # Root => AfterClose(h, f).Opened = FALSE
<1>1. CASE h = Root
  <2>1. PICK c \in Nat : c = f.FirstCluster
    BY DEF FileData
  <2>2. PICK g : g = [f EXCEPT !.Position = 0, !.CurrentCluster = c]
    OBVIOUS
  <2>3. AfterClose(h, f) = g
    BY <1>1, <2>1, <2>2 DEF AfterClose
  <2>4. g \in FileData
    BY <2>2 DEF FileData
  <2>5. g.IsDirectory = f.IsDirectory /\ g.Position = 0
    BY <2>2 DEF FileData
  <2>6. QED
    BY <1>1, <2>3, <2>4, <2>5
<1>2. CASE h # Root
  <2>1. AfterClose(h, f) = [f EXCEPT !.Opened = FALSE]
    BY <1>2 DEF AfterClose
  <2>2. QED
    BY <1>2, <2>1 DEF FileData
<1>3. QED
  BY <1>1, <1>2

LEMMA FindKeeps ==
  ASSUME FatAssumption, VolumeAssumption, DriverOK, FAT_FindFile
  PROVE  DriverOK'
<1>1. DriverTypes /\ RootOK /\ op = "find" /\ Searching /\ ~io.clean
  BY DEF DriverOK, InCall, FAT_FindFile, Delivered
<1>2. /\ vol' = vol /\ dataSectionLba' = dataSectionLba /\ path' = path
      /\ current' = current /\ io' = io
  BY DEF FAT_FindFile
<1>3. PICK f \in FileData :
           /\ f.Opened = fd[current].Opened
           /\ current = Root => f.IsDirectory = TRUE /\ (f.Size = 0 \/ f.Position <= f.Size)
           /\ current = Root => f.Size = fd[Root].Size /\ f.FirstCluster = fd[Root].FirstCluster
           /\ current # Root => TracksDir(f, target)
           /\ \/ /\ op' \in {"idle", "entry"}
                 /\ fd' = [fd EXCEPT ![current] = AfterClose(current, f)]
                 /\ op' = "entry" => /\ target' \in Listed(vol) /\ target'.name = fatName
                                     /\ Len(path) = 1 \/ target'.dir
                 /\ op' = "idle" => ret' = NULL
                 /\ ret' \in {ret, NULL}
              \/ /\ op' = "find"
                 /\ fd' = [fd EXCEPT ![current] = f]
                 /\ UNCHANGED <<target, ret, names>>
              \/ /\ op' = "fault" /\ current # Root
                 /\ UNCHANGED <<fd, ret>>
           /\ failures' \in 0 .. MaxFailures
           /\ tainted' \in {tainted, tainted \cup {current}}
  BY FindOutcome
<1>4. current \in Handles \cup {Root} /\ (current # Root => target \in Listed(vol) /\ target.dir)
  BY <1>1 DEF Searching
<1>5. PICK g \in FileData : g = AfterClose(current, f)
  BY ClosedData
<1>6. current = Root => g.IsDirectory = TRUE /\ g.Position = 0
  BY <1>3, <1>5, ClosedData
<1>7. op' \in {"idle", "entry", "find", "fault"} /\ ret' \in {ret, NULL}
  BY <1>3
<1>8. fd' = fd \/ fd' = [fd EXCEPT ![current] = f] \/ fd' = [fd EXCEPT ![current] = g]
  BY <1>3, <1>5
<1>9. DriverTypes'
  <2>1. fd' \in [Handles \cup {Root} -> FileData]
    BY <1>1, <1>4, <1>8 DEF DriverTypes
  <2>2. tainted' \subseteq Handles \cup {Root}
    BY <1>1, <1>3, <1>4 DEF DriverTypes
  <2>3. QED
    BY <1>1, <1>2, <1>3, <1>7, <2>1, <2>2 DEF DriverTypes
<1>10. RootOK'
  <2>1. FirstDataLba' = FirstDataLba
    BY <1>2, VolumeKept
  <2>2. fd'[Root].IsDirectory = TRUE /\ (fd'[Root].Size = 0 \/ fd'[Root].Position <= fd'[Root].Size)
    <3>1. CASE current # Root
      BY <1>1, <1>8, <3>1 DEF DriverTypes, RootOK, Active
    <3>2. CASE current = Root
      <4>1. fd'[Root] = fd[Root] \/ fd'[Root] = f \/ fd'[Root] = g
        BY <1>1, <1>8, <3>2 DEF DriverTypes
      <4>2. g.Size \in Nat
        BY DEF FileData
      <4>3. g.Position <= g.Size
        BY <1>6, <3>2, <4>2
      <4>4. QED
        BY <1>1, <1>3, <1>6, <3>2, <4>1, <4>3 DEF RootOK, Active
    <3>3. QED
      BY <3>1, <3>2
  <2>3. QED
    BY <1>1, <1>2, <2>1, <2>2 DEF RootOK, Active
<1>11. op' = "find" => Searching'
  <2> SUFFICES ASSUME op' = "find"
               PROVE  Searching'
    OBVIOUS
  <2>1. fd' = [fd EXCEPT ![current] = f] /\ target' = target /\ fatName' = fatName
    BY <1>3 DEF names
  <2>2. current # Root => fd'[current] = f
    BY <1>1, <1>4, <2>1 DEF DriverTypes
  <2>3. current # Root => TracksDir(fd'[current'], target')
    BY <1>2, <1>3, <2>1, <2>2
  <2>4. current # Root => TracksDir(fd[current], target)'
    BY <1>2, <2>3, VolumeKept
  <2>5. QED
    BY <1>1, <1>2, <1>4, <2>1, <2>4 DEF Searching
<1>12. op' = "entry" => Found'
  BY <1>1, <1>2, <1>3 DEF Searching, Found
<1>13. InCall' /\ Delivered'
  BY <1>1, <1>2, <1>7, <1>11, <1>12 DEF InCall, Delivered
<1>14. QED
  BY <1>9, <1>10, <1>13 DEF DriverOK

\* Of finitely many numbers one is the least.
LEMMA HasMinimum ==
  ASSUME NEW T, T \subseteq Nat, IsFiniteSet(T), T # {}
  PROVE  \E m \in T : \A k \in T : m <= k
<1> DEFINE Below(m) == {k \in T : k <= m}
           U == {Below(m) : m \in T}
<1>1. U \subseteq FiniteSubsetsOf(T)
  <2>1. ASSUME NEW m \in T
        PROVE  Below(m) \in FiniteSubsetsOf(T)
    BY FS_Subset DEF FiniteSubsetsOf
  <2>2. QED
    BY <2>1
<1>2. U # {}
  OBVIOUS
<1>3. PICK x \in U : \A y \in U : <<y, x>> \notin StrictSubsetOrdering(T)
  BY <1>1, <1>2, FS_StrictSubsetOrderingWellFounded, WFMin
<1>4. PICK m \in T : x = Below(m)
  BY <1>3
<1>5. ASSUME NEW k \in T, k < m
      PROVE  FALSE
  <2>1. Below(k) \subseteq Below(m)
    <3>1. ASSUME NEW j \in Below(k)
          PROVE  j \in Below(m)
      <4>1. j \in T /\ j <= k /\ j \in Nat /\ k \in Nat /\ m \in Nat
        OBVIOUS
      <4>2. j <= m
        BY <1>5, <4>1
      <4>3. QED
        BY <4>1, <4>2
    <3>2. QED
      BY <3>1
  <2>2. m \in Below(m) /\ m \notin Below(k)
    BY <1>5
  <2>3. Below(k) \in U /\ Below(k) \in SUBSET T /\ Below(m) \in SUBSET T
    OBVIOUS
  <2>4. <<Below(k), Below(m)>> \in StrictSubsetOrdering(T)
    <3> HIDE DEF Below
    <3>1. QED
      BY <2>1, <2>2, <2>3 DEF StrictSubsetOrdering
  <2>5. QED
    BY <1>3, <1>4, <2>3, <2>4
<1>6. QED
  BY <1>5

\* The file that FAT_OpenEntry opens without failure stands at its first byte.
LEMMA OpenedTracks ==
  ASSUME FatAssumption, VolumeAssumption, vol \in Volumes, dataSectionLba = FirstDataLba,
         dataSectionLba \in Nat, NEW entry \in Listed(vol),
         NEW f \in FileData, f.IsDirectory = entry.dir, f.Position = 0, f.Size = entry.size,
         f.CurrentCluster = entry.first, f.CurrentSectorInCluster = 0
  PROVE  /\ entry.dir => TracksDir(f, entry)
         /\ ~entry.dir => Tracks(f, entry)
         /\ f.Buffer = FAT_ClusterToLba(entry.first) => Right(f, entry)
<1>1. PICK w \in Nat \ {0} : w = SECTOR_SIZE
  BY DEF FatAssumption
<1>2. PICK c \in Nat \ {0} : c = vol.sectorsPerCluster
  BY ChainFacts
<1>3. PICK chain \in Seq(Nat) : chain = Chain(entry)
  BY ChainFacts
<1>4. PICK l \in Nat : l = Len(chain)
  BY LenProperties
<1>5. PICK size \in Nat : size = entry.size
  BY ChainFacts
<1>6. PICK first \in Nat : first = entry.first
  BY ChainFacts
<1>7. 0 \div w = 0 /\ 0 % w = 0 /\ 0 \div c = 0 /\ 0 % c = 0
  <2>1. \A m \in Nat \ {0} : 0 \div m = 0 /\ 0 % m = 0
    <3>1. ASSUME NEW m \in Nat \ {0}
          PROVE  0 \div m = 0 /\ 0 % m = 0
      <4>1. 0 = (m * 0) + 0 /\ 0 \in 0 .. m - 1
        OBVIOUS
      <4>2. QED
        BY <4>1, DivUnique
    <3>2. QED
      BY <3>1
  <2>2. QED
    BY <2>1
<1>8. chain # <<>> => l > 0 /\ 1 \in 1 .. l /\ chain[1] = first
  BY <1>3, <1>4, <1>6, ChainFacts
<1>9. size > 0 => chain # <<>>
  <2>1. size <= l * c * w
    BY <1>1, <1>2, <1>3, <1>4, <1>5, ChainFacts
  <2>2. chain = <<>> => l * c * w = 0
    BY <1>4
  <2>3. QED
    BY <2>1, <2>2
<1>10. ASSUME entry.dir
       PROVE  TracksDir(f, entry)
  <2>1. size = 0 /\ chain # <<>>
    BY <1>3, <1>5, <1>10, ChainFacts
  <2>2. 1 \in DOMAIN chain /\ f.CurrentCluster = chain[1]
    BY <1>4, <1>6, <1>8, <2>1
  <2>3. QED
    BY <1>2, <1>3, <1>5, <1>10, <2>1, <2>2 DEF TracksDir
<1>11. ASSUME ~entry.dir
       PROVE  Tracks(f, entry)
  <2>1. (f.Position \div SECTOR_SIZE) \div vol.sectorsPerCluster = 0
        /\ (f.Position \div SECTOR_SIZE) % vol.sectorsPerCluster = 0
    BY <1>1, <1>2, <1>7
  <2>2. f.Position < entry.size => f.CurrentCluster = Chain(entry)[0 + 1]
    BY <1>3, <1>5, <1>6, <1>8, <1>9
  <2>3. 0 < c
    OBVIOUS
  <2>4. QED
    BY <1>2, <1>5, <1>11, <2>1, <2>2, <2>3 DEF Tracks
<1>12. ASSUME f.Buffer = FAT_ClusterToLba(entry.first), 0 < size
       PROVE  f.Buffer = FileByte(entry, 0)[1]
  <2>1. chain[1] = first
    BY <1>8, <1>9, <1>12
  <2>2. FileByte(entry, 0)[1] = FirstDataLba + (chain[(0 \div c) + 1] - 2) * c + (0 % c)
    BY <1>1, <1>2, <1>3, <1>7 DEF FileByte, Chain
  <2>3. FileByte(entry, 0)[1] = FirstDataLba + (first - 2) * c
    <3>1. chain[(0 \div c) + 1] = first
      BY <1>7, <2>1
    <3>2. PICK x \in Int : x = FirstDataLba + (first - 2) * c
      OBVIOUS
    <3>3. QED
      BY <1>7, <2>2, <3>1, <3>2
  <2>4. f.Buffer = FirstDataLba + (first - 2) * c
    BY <1>2, <1>6, <1>12 DEF FAT_ClusterToLba
  <2>5. QED
    BY <2>3, <2>4
<1>13. QED
  BY <1>5, <1>10, <1>11, <1>12 DEF Right

\* FAT_OpenEntry: no handle is free, or the first free one is used; when its sector was
\* read it is open and stands at the first byte.
LEMMA EntryOutcome ==
  ASSUME FatAssumption, VolumeAssumption, DriverOK, FAT_OpenEntry
  PROVE  \/ UNCHANGED <<fd, failures, tainted>> /\ OpenReturns(NULL) /\ FreeHandles = {}
         \/ \E h \in Handles, f \in FileData :
              /\ ~fd[h].Opened
              /\ fd' = [fd EXCEPT ![h] = f]
              /\ f.Position = 0
              /\ failures' \in 0 .. MaxFailures
              /\ tainted' = tainted \ {h}
              /\ \/ f.Opened = FALSE /\ OpenReturns(NULL) /\ failures' = failures + 1
                 \/ /\ f.Opened = TRUE /\ OpenReturns(h) /\ failures' = failures
                    /\ f.IsDirectory = target.dir
                    /\ f.Size = target.size
                    /\ f.CurrentCluster = target.first
                    /\ f.CurrentSectorInCluster = 0
                    /\ f.Buffer = FAT_ClusterToLba(target.first)
                    /\ target.dir => TracksDir(f, target)
                    /\ ~target.dir => Tracks(f, target) /\ Right(f, target)
<1>1. DriverTypes /\ RootOK /\ op = "entry" /\ Found
  BY DEF DriverOK, InCall, FAT_OpenEntry
<1>2. CASE FreeHandles = {} /\ OpenReturns(NULL) /\ UNCHANGED <<fd, failures, tainted>>
  BY <1>2
<1>3. CASE FreeHandles # {}
  <2>1. FreeHandles \subseteq Handles /\ FreeHandles \subseteq Nat /\ IsFiniteSet(FreeHandles)
    BY NotHandles, FS_Subset DEF FreeHandles
  <2>2. \E g \in FreeHandles : \A k \in FreeHandles : g <= k
    BY <1>3, <2>1, HasMinimum
  <2>3. PICK h \in FreeHandles : h = CHOOSE g \in FreeHandles : \A k \in FreeHandles : g <= k
    BY <2>2
  <2>4. h \in Handles /\ ~fd[h].Opened
    BY DEF FreeHandles
  <2>5. fd[h] \in FileData
    BY <1>1, <2>4 DEF DriverTypes
  <2>6. fd[h].Buffer \in Int
    BY <2>5 DEF FileData
  <2>7. PICK e \in Listed(vol) : e = target
    BY <1>1 DEF Found
  <2>8. vol \in Volumes /\ e.first \in Nat /\ e.size \in Nat /\ e.dir \in BOOLEAN
        /\ vol.sectorsPerCluster \in Nat \ {0}
    BY <1>1, ChainFacts DEF DriverTypes
  <2>9. PICK lba \in Int : lba = FAT_ClusterToLba(e.first)
    BY <1>1, <2>8 DEF FAT_ClusterToLba, DriverTypes
  <2>10. PICK r \in DiskRead(fd[h].Buffer, lba) :
           /\ fd' = [fd EXCEPT ![h] =
                       [Opened |-> r.ok, IsDirectory |-> e.dir, Position |-> 0,
                        Size |-> e.size, FirstCluster |-> e.first,
                        CurrentCluster |-> e.first,
                        CurrentSectorInCluster |-> 0, Buffer |-> r.buf]]
           /\ Counted(r.ok)
           /\ OpenReturns(IF r.ok THEN h ELSE NULL)
           /\ tainted' = tainted \ {h}
    BY <1>3, <2>3, <2>7, <2>9 DEF FAT_OpenEntry
  <2>11. r.ok \in BOOLEAN /\ r.buf \in Int /\ (r.ok => r.buf = lba) /\ (~r.ok => failures < MaxFailures)
    BY <2>6, ReadOutcome
  <2>12. PICK b \in Int, ok \in BOOLEAN : b = r.buf /\ ok = r.ok
    BY <2>11
  <2>13. PICK f : f = [Opened |-> ok, IsDirectory |-> e.dir, Position |-> 0,
                       Size |-> e.size, FirstCluster |-> e.first,
                       CurrentCluster |-> e.first,
                       CurrentSectorInCluster |-> 0, Buffer |-> b]
    OBVIOUS
  <2>14. f \in FileData
    BY <2>8, <2>13 DEF FileData
  <2>15. /\ f.Opened = ok /\ f.IsDirectory = e.dir /\ f.Position = 0 /\ f.Size = e.size
         /\ f.CurrentCluster = e.first /\ f.CurrentSectorInCluster = 0 /\ f.Buffer = b
    BY <2>13
  <2>16. fd' = [fd EXCEPT ![h] = f]
    BY <2>10, <2>12, <2>13
  <2>17. failures' \in 0 .. MaxFailures
    BY <1>1, <2>10, <2>11, CountedStays DEF DriverTypes
  <2>18. dataSectionLba = FirstDataLba /\ dataSectionLba \in Nat
    BY <1>1 DEF RootOK, DriverTypes, Active
  <2>19. /\ e.dir => TracksDir(f, e)
         /\ ~e.dir => Tracks(f, e)
         /\ b = lba => Right(f, e)
    BY <2>8, <2>9, <2>14, <2>15, <2>18, OpenedTracks
  <2>20. CASE ok = TRUE
    <3>1. OpenReturns(h) /\ b = lba /\ failures' = failures
      BY <1>1, <2>10, <2>11, <2>12, <2>20 DEF Counted, DriverTypes
    <3>2. /\ f.Opened = TRUE /\ f.IsDirectory = target.dir /\ f.CurrentSectorInCluster = 0
          /\ f.Position = 0 /\ f.Size = target.size /\ f.CurrentCluster = target.first
          /\ f.Buffer = FAT_ClusterToLba(target.first)
      BY <2>7, <2>9, <2>15, <2>20, <3>1
    <3>3. QED
      BY <2>4, <2>7, <2>10, <2>14, <2>16, <2>17, <2>19, <3>1, <3>2
  <2>21. CASE ok = FALSE
    <3>1. OpenReturns(NULL) /\ failures' = failures + 1
      BY <2>10, <2>12, <2>21 DEF Counted
    <3>2. f.Opened = FALSE /\ f.Position = 0
      BY <2>15, <2>21
    <3>3. QED
      BY <2>4, <2>10, <2>14, <2>16, <2>17, <3>1, <3>2
  <2>22. QED
    BY <2>20, <2>21
<1>4. QED
  BY <1>2, <1>3 DEF FAT_OpenEntry

LEMMA EntryKeeps ==
  ASSUME FatAssumption, VolumeAssumption, NameAssumption, DriverOK, FAT_OpenEntry
  PROVE  DriverOK'
<1>1. DriverTypes /\ RootOK /\ op = "entry" /\ Found /\ ~io.clean
  BY DEF DriverOK, InCall, FAT_OpenEntry, Delivered
<1>2. /\ vol' = vol /\ dataSectionLba' = dataSectionLba /\ target' = target /\ io' = io
  BY DEF FAT_OpenEntry
<1>3. FirstDataLba' = FirstDataLba
  BY <1>2, VolumeKept
<1>4. ASSUME NEW h \in Handles \cup {NULL}, OpenReturns(h),
             fd' \in [Handles \cup {Root} -> FileData], fd'[Root] = fd[Root],
             failures' \in 0 .. MaxFailures, tainted' \subseteq tainted,
             h # NULL /\ target.dir => TracksDir(fd'[h], target)
      PROVE  DriverOK'
  <2>1. /\ path' = Tail(path)
        /\ current' = h
        /\ Len(path) = 1 => op' = "idle" /\ ret' = h
        /\ Len(path) # 1 => /\ op' = IF h = NULL THEN "wild" ELSE "find"
                            /\ NextName(name, path[2], Len(path) = 2)
                            /\ ret' = ret
    BY <1>4 DEF OpenReturns
  <2>2. op' \in {"idle", "wild", "find"} /\ ret' \in Handles \cup {NULL}
    BY <1>1, <2>1 DEF DriverTypes
  <2>3. DriverTypes'
    <3>1. tainted' \subseteq Handles \cup {Root}
      BY <1>1, <1>4 DEF DriverTypes
    <3>2. QED
      BY <1>1, <1>2, <1>4, <2>1, <2>2, <3>1 DEF DriverTypes
  <2>4. RootOK'
    BY <1>1, <1>2, <1>3, <1>4, <2>2 DEF RootOK, Active
  <2>5. op' = "find" => Searching'
    <3> SUFFICES ASSUME op' = "find"
                 PROVE  Searching'
      OBVIOUS
    <3>1. Len(path) # 1 /\ h # NULL /\ h \in Handles /\ NextName(name, path[2], Len(path) = 2)
      BY <2>1
    <3>2. target \in Listed(vol) /\ target.dir
      BY <1>1, <3>1 DEF Found
    <3>3. TracksDir(fd'[current'], target')
      BY <1>2, <1>4, <2>1, <3>1, <3>2
    <3>4. TracksDir(fd[current], target)'
      BY <1>2, <3>3, VolumeKept
    <3>5. fatName' # <<>>
      BY <3>1, NameNotEmpty
    <3>6. Tail(path) \in Seq(Seq(STRING)) /\ Tail(path) # <<>>
      <4>1. PICK p \in Seq(Seq(STRING)) : p = path /\ p # <<>> /\ Len(p) # 1
        BY <1>1, <3>1 DEF Found
      <4>2. Tail(p) \in Seq(Seq(STRING)) /\ Len(Tail(p)) = Len(p) - 1
        BY <4>1, HeadTailProperties
      <4>3. Len(p) \in Nat /\ Len(p) # 0
        BY <4>1, EmptySeq, LenProperties
      <4>4. Len(Tail(p)) # 0
        BY <4>1, <4>2, <4>3
      <4>5. Tail(p) # <<>>
        BY <4>4, EmptySeq, Zenon
      <4>6. QED
        BY <4>1, <4>2, <4>5
    <3>7. QED
      BY <1>2, <2>1, <3>1, <3>2, <3>4, <3>5, <3>6 DEF Searching
  <2>6. InCall' /\ Delivered'
    BY <1>1, <1>2, <2>2, <2>5 DEF InCall, Delivered
  <2>7. QED
    BY <2>3, <2>4, <2>6 DEF DriverOK
<1>5. CASE UNCHANGED <<fd, failures, tainted>> /\ OpenReturns(NULL)
  <2>1. NULL \in Handles \cup {NULL}
    OBVIOUS
  <2>2. /\ fd' \in [Handles \cup {Root} -> FileData] /\ fd'[Root] = fd[Root]
        /\ failures' \in 0 .. MaxFailures /\ tainted' \subseteq tainted
    BY <1>1, <1>5 DEF DriverTypes
  <2>3. QED
    BY <1>4, <1>5, <2>1, <2>2
<1>6. ASSUME NEW h \in Handles, NEW f \in FileData,
             fd' = [fd EXCEPT ![h] = f],
             failures' \in 0 .. MaxFailures,
             tainted' = tainted \ {h},
             \/ OpenReturns(NULL)
             \/ OpenReturns(h) /\ (target.dir => TracksDir(f, target))
      PROVE  DriverOK'
  <2>1. fd' \in [Handles \cup {Root} -> FileData] /\ fd'[Root] = fd[Root] /\ fd'[h] = f
    BY <1>1, <1>6, NotHandles DEF DriverTypes
  <2>2. tainted' \subseteq tainted
    BY <1>6
  <2>3. CASE OpenReturns(NULL)
    <3>1. NULL \in Handles \cup {NULL}
      OBVIOUS
    <3>2. QED
      BY <1>4, <1>6, <2>1, <2>2, <2>3, <3>1
  <2>4. CASE OpenReturns(h) /\ (target.dir => TracksDir(f, target))
    <3>1. h \in Handles \cup {NULL}
      OBVIOUS
    <3>2. target.dir => TracksDir(fd'[h], target)
      BY <2>1, <2>4
    <3>3. QED
      BY <1>4, <1>6, <2>1, <2>2, <2>4, <3>1, <3>2
  <2>5. QED
    BY <1>6, <2>3, <2>4
<1>7. QED
  BY <1>5, <1>6, EntryOutcome

\* FAT_Close gives a handle back, or rewinds the root.
LEMMA CloseKeeps ==
  ASSUME FatAssumption, DriverOK, NEW h \in Handles, FAT_Close(h)
  PROVE  DriverOK' /\ (\E f \in FileData : f.Opened = FALSE /\ fd' = [fd EXCEPT ![h] = f])
<1>1. DriverTypes /\ RootOK
  BY DEF DriverOK
<1>2. /\ op = "idle" /\ op' = "idle" /\ io' = NoRead /\ vol' = vol
      /\ dataSectionLba' = dataSectionLba /\ failures' = failures /\ tainted' = tainted
      /\ current' = NULL /\ ret' = NULL
      /\ fd' = [fd EXCEPT ![h] = AfterClose(h, fd[h])]
  BY DEF FAT_Close, ForgetOpen
<1>3. fd[h] \in FileData
  BY <1>1 DEF DriverTypes
<1>4. PICK f \in FileData : f = AfterClose(h, fd[h]) /\ f.Opened = FALSE
  BY <1>3, ClosedData, NotHandles
<1>5. fd' \in [Handles \cup {Root} -> FileData] /\ fd'[Root] = fd[Root]
  BY <1>1, <1>2, <1>4, NotHandles DEF DriverTypes
<1>6. DriverTypes'
  BY <1>1, <1>2, <1>5 DEF DriverTypes
<1>7. FirstDataLba' = FirstDataLba
  BY <1>2, VolumeKept
<1>8. RootOK'
  BY <1>1, <1>2, <1>5, <1>7 DEF RootOK, Active
<1>9. InCall' /\ Delivered'
  BY <1>2 DEF InCall, Delivered, NoRead
<1>10. QED
  BY <1>2, <1>4, <1>6, <1>8, <1>9 DEF DriverOK

\* FAT_Read of an open file: nothing is delivered yet.
LEMMA ReadKeeps ==
  ASSUME FatAssumption, VolumeAssumption, DriverOK, NEW h \in Handles, NEW file \in Listed(vol),
         ~file.dir, Tracks(fd[h], file), h \notin tainted => Right(fd[h], file),
         NEW byteCount \in Nat, FAT_Read(h, file, byteCount)
  PROVE  DriverOK'
<1>1. DriverTypes /\ RootOK
  BY DEF DriverOK
<1>2. /\ op = "idle" /\ op' = "read" /\ vol' = vol /\ dataSectionLba' = dataSectionLba
      /\ fd' = fd /\ failures' = failures /\ tainted' = tainted /\ current' = NULL /\ ret' = NULL
  BY DEF FAT_Read, ForgetOpen
<1>3. PICK f \in FileData : f = fd[h]
  BY <1>1 DEF DriverTypes
<1>4. PICK p \in Nat, size \in Nat : p = f.Position /\ size = f.Size
  BY DEF FileData
<1>5. size = file.size /\ p <= size /\ f.IsDirectory = FALSE
  BY <1>3, <1>4 DEF Tracks, FileData
<1>6. PICK n \in Nat : /\ n = Limit(f, byteCount)
                       /\ n = IF byteCount < size - p THEN byteCount ELSE size - p
  <2>1. Limit(f, byteCount) = IF byteCount < size - p THEN byteCount ELSE size - p
    BY <1>4, <1>5 DEF Limit
  <2>2. (IF byteCount < size - p THEN byteCount ELSE size - p) \in Nat
    BY <1>5
  <2>3. QED
    BY <2>1, <2>2
<1>7. PICK clean \in BOOLEAN : clean = (h \notin tainted)
  OBVIOUS
<1>8. io' = [h |-> h, entry |-> file, from |-> p, want |-> byteCount, n |-> n,
             maxSector |-> 0, out |-> <<>>, clean |-> clean]
  BY <1>3, <1>4, <1>6, <1>7 DEF FAT_Read
<1>9. /\ io' \in Transfers /\ io'.h = h /\ io'.entry = file /\ io'.from = p
      /\ io'.want = byteCount /\ io'.n = n /\ io'.out = <<>> /\ io'.clean = clean
  <2>1. <<>> \in Seq(Int \X Int)
    OBVIOUS
  <2>2. QED
    BY <1>8, <2>1 DEF Transfers
<1>10. FileBytes(file, p, 0) = <<>>
  BY DEF FileBytes
<1>11. Reading'
  <2>1. io' \in Transfers'
    BY <1>2, <1>9, VolumeKept
  <2>2. Tracks(fd'[io'.h], io'.entry)
    BY <1>2, <1>9
  <2>3. Tracks(fd[io.h], io.entry)'
    BY <1>2, <2>2, VolumeKept
  <2>4. Len(io'.out) = 0
    BY <1>9
  <2>5. io'.from + Len(io'.out) = fd'[io'.h].Position
    BY <1>2, <1>3, <1>4, <1>9, <2>4
  <2>6. io'.n + Len(io'.out) = Wanted(io')
    BY <1>5, <1>6, <1>9, <2>4 DEF Wanted
  <2>7. io'.clean => /\ io'.h \notin tainted'
                     /\ Right(fd[io.h], io.entry)'
                     /\ io'.out = FileBytes(io.entry, io.from, Len(io.out))'
    <3>1. ASSUME io'.clean
          PROVE  io'.h \notin tainted' /\ Right(fd'[io'.h], io'.entry)
      BY <1>2, <1>7, <1>9, <3>1
    <3>2. io'.out = FileBytes(io'.entry, io'.from, Len(io'.out))
      BY <1>9, <1>10, <2>4
    <3>3. QED
      BY <1>2, <3>1, <3>2, VolumeKept
  <2>8. QED
    BY <1>9, <2>1, <2>3, <2>5, <2>6, <2>7 DEF Reading, Wanted
<1>12. DriverTypes'
  BY <1>1, <1>2 DEF DriverTypes
<1>13. RootOK'
  <2>1. FirstDataLba' = FirstDataLba
    BY <1>2, VolumeKept
  <2>2. QED
    BY <1>1, <1>2, <2>1 DEF RootOK, Active
<1>14. InCall' /\ Delivered'
  BY <1>2, <1>11 DEF InCall, Delivered
<1>15. QED
  BY <1>12, <1>13, <1>14 DEF DriverOK

\* An iteration of FAT_Read: the file's place moves with the bytes delivered.
LEMMA LoopOutcome ==
  ASSUME FatAssumption, VolumeAssumption, DriverOK, ReadLoop
  PROVE  \E f \in FileData, t \in Nat \ {0}, ok \in BOOLEAN :
           /\ fd' = [fd EXCEPT ![io.h] = f]
           /\ f.Opened = fd[io.h].Opened
           /\ Tracks(f, io.entry)
           /\ failures' \in 0 .. MaxFailures
           /\ failures' = failures + (IF ok THEN 0 ELSE 1)
           /\ tainted' = IF ok THEN tainted ELSE tainted \cup {io.h}
           /\ Right(fd[io.h], io.entry) /\ ok => Right(f, io.entry)
           /\ f.Position % SECTOR_SIZE = 0 /\ ok => Right(f, io.entry)
           /\ f.Position % SECTOR_SIZE # 0 => ok
           /\ op' \in {"read", "idle", "fault"}
           /\ op' = "idle" /\ ok => f.Position = io.entry.size
           /\ t = Take(fd[io.h], io.n) /\ t <= io.n
           /\ f.Position = fd[io.h].Position + t
           /\ io' \in Transfers
           /\ io'.h = io.h /\ io'.entry = io.entry /\ io'.from = io.from /\ io'.want = io.want
           /\ io'.n = io.n - t
           /\ io'.out = io.out \o Bytes(fd[io.h], io.n)
           /\ io'.clean = (io.clean /\ ok)
<1>1. DriverTypes /\ RootOK /\ op = "read" /\ Reading
  BY DEF DriverOK, InCall, ReadLoop
<1>2. PICK tr \in Transfers : tr = io
  BY <1>1 DEF Reading
<1>3. PICK h \in Handles, e \in Listed(vol), from \in Nat, want \in Nat, n \in Nat, m \in Nat,
           out \in Seq(Int \X Int), clean \in BOOLEAN :
        /\ h = io.h /\ e = io.entry /\ from = io.from /\ want = io.want /\ n = io.n
        /\ m = io.maxSector /\ out = io.out /\ clean = io.clean
  BY <1>2 DEF Transfers
<1>4. PICK f0 \in FileData : f0 = fd[h]
  BY <1>1 DEF DriverTypes
<1>5. PICK p \in Nat : p = f0.Position
  BY DEF FileData
<1>6. PICK size \in Nat : size = e.size
  BY <1>1, ChainFacts DEF DriverTypes
<1>7. PICK done \in Nat : done = Len(out)
  BY LenProperties
<1>8. n > 0
  BY <1>3 DEF ReadLoop
<1>9. n <= size - p
  <2>1. from + done = p /\ n + done = Wanted(io)
    BY <1>1, <1>3, <1>4, <1>5, <1>7 DEF Reading
  <2>2. Wanted(io) <= size - from /\ Wanted(io) \in Int
    <3>1. Wanted(io) = IF want < size - from THEN want ELSE size - from
      BY <1>3, <1>6 DEF Wanted
    <3>2. QED
      BY <3>1
  <2>3. QED
    BY <2>1, <2>2
<1>10. PICK it \in Iterate(h, n, m) :
         /\ fd' = [fd EXCEPT ![h] = it.f]
         /\ io' = [io EXCEPT !.n = @ - Take(f0, @),
                             !.out = @ \o Bytes(f0, n),
                             !.maxSector = it.max,
                             !.clean = @ /\ it.ok]
         /\ op' = CASE it.status = "more" -> "read"
                    [] it.status = "break" -> "idle"
                    [] it.status = "fault" -> "fault"
         /\ Counted(it.ok)
         /\ tainted' = IF it.ok THEN tainted ELSE tainted \cup {h}
  BY <1>3, <1>4 DEF ReadLoop
<1>11. /\ it.f \in FileData
       /\ it.f.Opened = f0.Opened
       /\ it.f.Position = p + Take(f0, n)
       /\ Tracks(it.f, e)
       /\ it.ok \in BOOLEAN
       /\ it.max \in Nat
       /\ it.status \in {"more", "break", "fault"}
       /\ ~it.ok => failures < MaxFailures /\ it.status = "break"
       /\ Right(f0, e) /\ it.ok => Right(it.f, e)
       /\ it.status = "break" /\ it.ok => it.f.Position = size
       /\ it.f.Position % SECTOR_SIZE = 0 /\ it.ok => Right(it.f, e)
       /\ it.f.Position % SECTOR_SIZE # 0 => it.ok = TRUE
  <2>1. vol \in Volumes /\ dataSectionLba = FirstDataLba /\ dataSectionLba \in Nat
    BY <1>1 DEF DriverTypes, RootOK, Active
  <2>2. fd[h] \in FileData /\ Tracks(fd[h], e)
    BY <1>1, <1>3, <1>4 DEF Reading
  <2>3. n \in Nat \ {0} /\ n <= e.size - fd[h].Position
    BY <1>4, <1>5, <1>6, <1>8, <1>9
  <2>4. /\ it.f \in FileData
        /\ it.f.Opened = fd[h].Opened
        /\ it.f.Position = fd[h].Position + Take(fd[h], n)
        /\ Tracks(it.f, e)
        /\ it.ok \in BOOLEAN
        /\ it.max \in Nat
        /\ it.status \in {"more", "break", "fault"}
        /\ ~it.ok => failures < MaxFailures /\ it.status = "break"
        /\ it.f.Position % SECTOR_SIZE # 0 =>
             /\ it.ok = TRUE
             /\ it.status = "more"
             /\ it.max = m
             /\ Right(fd[h], e) => Right(it.f, e)
        /\ it.f.Position % SECTOR_SIZE = 0 /\ it.ok => Right(it.f, e)
        /\ it.status = "break" /\ it.ok => it.f.Position = e.size
    BY <2>1, <2>2, <2>3, IterateFile, ZenonT(60)
  <2>5. Right(f0, e) /\ it.ok => Right(it.f, e)
    BY <1>4, <2>4
  <2>6. QED
    BY <1>4, <1>5, <1>6, <2>4, <2>5
<1>12. PICK t \in 1 .. n : t = Take(f0, n)
  BY <1>5, <1>8, Taken
<1>13. PICK u \in Nat : u = n - t
  OBVIOUS
<1>14. PICK f \in FileData, ok \in BOOLEAN, max \in Nat : f = it.f /\ ok = it.ok /\ max = it.max
  BY <1>11
<1>15. failures' \in 0 .. MaxFailures
  BY <1>1, <1>10, <1>11, CountedStays DEF DriverTypes
<1>16. op' \in {"read", "idle", "fault"} /\ (op' = "idle" => it.status = "break")
  <2>1. CASE it.status = "more"
    BY <1>10, <2>1
  <2>2. CASE it.status = "break"
    BY <1>10, <2>2
  <2>3. CASE it.status = "fault"
    BY <1>10, <2>3
  <2>4. QED
    BY <1>11, <2>1, <2>2, <2>3
<1>17. PICK bytes \in Seq(Int \X Int) : bytes = Bytes(f0, n)
  <2>1. f0.Buffer \in Int
    BY DEF FileData
  <2>2. QED
    BY <1>5, <1>8, <2>1, BytesTaken
<1>18. PICK out2 \in Seq(Int \X Int) : out2 = out \o bytes
  BY ConcatProperties
<1>19. PICK clean2 \in BOOLEAN : clean2 = (clean /\ ok)
  OBVIOUS
<1>20. io' = [tr EXCEPT !.n = u, !.out = out2, !.maxSector = max, !.clean = clean2]
  BY <1>2, <1>3, <1>10, <1>12, <1>13, <1>14, <1>17, <1>18, <1>19
<1>21. /\ io' \in Transfers /\ io'.h = h /\ io'.entry = e /\ io'.from = from /\ io'.want = want
       /\ io'.n = u /\ io'.out = out2 /\ io'.clean = clean2
  BY <1>2, <1>3, <1>20 DEF Transfers
<1>22. t \in Nat \ {0} /\ t <= n
  OBVIOUS
<1>23. /\ fd' = [fd EXCEPT ![h] = f]
       /\ f.Opened = fd[h].Opened
       /\ Tracks(f, e)
       /\ tainted' = IF ok THEN tainted ELSE tainted \cup {h}
       /\ Right(fd[h], e) /\ ok => Right(f, e)
       /\ op' = "idle" /\ ok => f.Position = e.size
       /\ t = Take(fd[h], n)
       /\ f.Position = fd[h].Position + t
       /\ f.Position % SECTOR_SIZE = 0 /\ ok => Right(f, e)
       /\ f.Position % SECTOR_SIZE # 0 => ok
  BY <1>4, <1>5, <1>6, <1>10, <1>11, <1>12, <1>14, <1>16
<1>24. failures' = failures + (IF ok THEN 0 ELSE 1)
  BY <1>10, <1>14 DEF Counted
<1>25. io'.n = n - t /\ io'.out = out \o Bytes(fd[h], n) /\ io'.clean = (clean /\ ok)
  BY <1>4, <1>13, <1>17, <1>18, <1>19, <1>21
<1>26. QED
  BY <1>3, <1>15, <1>16, <1>21, <1>22, <1>23, <1>24, <1>25

\* An iteration of FAT_Read keeps what was delivered equal to the file's bytes.
LEMMA LoopKeeps ==
  ASSUME FatAssumption, VolumeAssumption, DriverOK, ReadLoop
  PROVE  DriverOK'
<1>1. DriverTypes /\ RootOK /\ op = "read" /\ Reading
  BY DEF DriverOK, InCall, ReadLoop
<1>2. /\ vol' = vol /\ dataSectionLba' = dataSectionLba /\ current' = current /\ ret' = ret
      /\ io.n > 0
  BY DEF ReadLoop
<1>3. PICK f \in FileData, t \in Nat \ {0}, ok \in BOOLEAN :
           /\ fd' = [fd EXCEPT ![io.h] = f]
           /\ f.Opened = fd[io.h].Opened
           /\ Tracks(f, io.entry)
           /\ failures' \in 0 .. MaxFailures
           /\ failures' = failures + (IF ok THEN 0 ELSE 1)
           /\ tainted' = IF ok THEN tainted ELSE tainted \cup {io.h}
           /\ Right(fd[io.h], io.entry) /\ ok => Right(f, io.entry)
           /\ f.Position % SECTOR_SIZE = 0 /\ ok => Right(f, io.entry)
           /\ f.Position % SECTOR_SIZE # 0 => ok
           /\ op' \in {"read", "idle", "fault"}
           /\ op' = "idle" /\ ok => f.Position = io.entry.size
           /\ t = Take(fd[io.h], io.n) /\ t <= io.n
           /\ f.Position = fd[io.h].Position + t
           /\ io' \in Transfers
           /\ io'.h = io.h /\ io'.entry = io.entry /\ io'.from = io.from /\ io'.want = io.want
           /\ io'.n = io.n - t
           /\ io'.out = io.out \o Bytes(fd[io.h], io.n)
           /\ io'.clean = (io.clean /\ ok)
  BY LoopOutcome
<1>4. PICK h \in Handles, e \in Listed(vol), from \in Nat, want \in Nat, n \in Nat,
           out \in Seq(Int \X Int), clean \in BOOLEAN :
        /\ h = io.h /\ e = io.entry /\ from = io.from /\ want = io.want /\ n = io.n
        /\ out = io.out /\ clean = io.clean
  BY <1>1 DEF Reading, Transfers
<1>5. PICK f0 \in FileData : f0 = fd[h]
  BY <1>1 DEF DriverTypes
<1>6. PICK p \in Nat : p = f0.Position
  BY DEF FileData
<1>7. PICK size \in Nat : size = e.size
  BY <1>1, ChainFacts DEF DriverTypes
<1>8. PICK done \in Nat : done = Len(out)
  BY LenProperties
<1>9. PICK bytes \in Seq(Int \X Int) : bytes = Bytes(f0, n) /\ Len(bytes) = t
  <2>1. f0.Buffer \in Int /\ n # 0
    BY <1>2, <1>4 DEF FileData
  <2>2. QED
    BY <1>3, <1>4, <1>5, <1>6, <2>1, BytesTaken
<1>10. PICK out2 \in Seq(Int \X Int) : out2 = io'.out /\ out2 = out \o bytes /\ Len(out2) = done + t
  <2>1. out \o bytes \in Seq(Int \X Int) /\ Len(out \o bytes) = Len(out) + Len(bytes)
    BY ConcatProperties
  <2>2. io'.out = out \o bytes
    BY <1>3, <1>4, <1>5, <1>9
  <2>3. QED
    BY <1>8, <1>9, <2>1, <2>2
<1>11. from + done = p
  BY <1>1, <1>4, <1>5, <1>6, <1>8 DEF Reading
<1>12. PICK wanted \in Nat : wanted = Wanted(io) /\ n + done = wanted /\ wanted <= size - from
  <2>1. n + done = Wanted(io)
    BY <1>1, <1>4, <1>8 DEF Reading
  <2>2. Wanted(io) = IF want < size - from THEN want ELSE size - from
    BY <1>4, <1>7 DEF Wanted
  <2>3. QED
    BY <2>1, <2>2
<1>13. Wanted(io') = wanted
  BY <1>3, <1>12 DEF Wanted
<1>14. ASSUME clean, ok
       PROVE  /\ h \notin tainted' /\ Right(f, e)
              /\ out2 = FileBytes(e, from, done + t)
  <2>1. h \notin tainted /\ Right(f0, e) /\ out = FileBytes(e, from, done)
    BY <1>1, <1>4, <1>5, <1>8, <1>14 DEF Reading
  <2>2. h \notin tainted' /\ Right(f, e)
    BY <1>3, <1>4, <1>5, <1>14, <2>1
  <2>3. n # 0 /\ p < size
    <3>1. n # 0
      BY <1>2, <1>4
    <3>2. from + (n + done) <= size
      BY <1>12
    <3>3. from + (n + done) = p + n
      BY <1>11
    <3>4. QED
      BY <3>1, <3>2, <3>3
  <2>4. bytes = FileBytes(e, from + done, t)
    <3>1. Bytes(f0, n) = FileBytes(e, f0.Position, Take(f0, n))
      BY <1>6, <1>7, <2>1, <2>3, BytesRight
    <3>2. QED
      BY <1>3, <1>4, <1>5, <1>6, <1>9, <1>11, <3>1
  <2>5. out2 = FileBytes(e, from, done + t)
    <3>1. PICK u \in Nat : u = t
      OBVIOUS
    <3>2. PICK c \in Nat : c = done + u
      OBVIOUS
    <3>3. Split(from, done, p, u, c)
      BY <1>11, <3>2 DEF Split
    <3>4. Joined(FileBytes(e, from, done), FileBytes(e, p, u)) = FileBytes(e, from, c)
      BY <3>3, BytesJoin
    <3>5. out2 = Joined(out, bytes)
      BY <1>10 DEF Joined
    <3>6. QED
      BY <1>11, <2>1, <2>4, <3>1, <3>2, <3>4, <3>5
  <2>6. QED
    BY <2>2, <2>5
<1>15. fd' \in [Handles \cup {Root} -> FileData] /\ fd'[Root] = fd[Root] /\ fd'[h] = f
  BY <1>1, <1>3, <1>4, NotHandles DEF DriverTypes
<1>16. DriverTypes'
  <2>1. tainted' \subseteq Handles \cup {Root}
    BY <1>1, <1>3, <1>4 DEF DriverTypes
  <2>2. QED
    BY <1>1, <1>2, <1>3, <1>15, <2>1 DEF DriverTypes
<1>17. RootOK'
  <2>1. FirstDataLba' = FirstDataLba
    BY <1>2, VolumeKept
  <2>2. QED
    BY <1>1, <1>2, <1>15, <2>1 DEF RootOK, Active
<1>18. Reading'
  <2>1. io' \in Transfers'
    BY <1>2, <1>3, VolumeKept
  <2>2. ~io'.entry.dir
    BY <1>1, <1>3 DEF Reading
  <2>3. Tracks(fd'[io'.h], io'.entry)
    BY <1>3, <1>4, <1>15
  <2>4. Tracks(fd[io.h], io.entry)'
    BY <1>2, <2>3, VolumeKept
  <2>5. io'.from + Len(io'.out) = fd'[io'.h].Position
    <3>1. from + (done + t) = p + t
      BY <1>11
    <3>2. f.Position = p + t
      BY <1>3, <1>4, <1>5, <1>6
    <3>3. QED
      BY <1>3, <1>4, <1>10, <1>15, <3>1, <3>2
  <2>6. io'.n + Len(io'.out) = Wanted(io')
    <3>1. (n - t) + (done + t) = wanted
      BY <1>12
    <3>2. QED
      BY <1>3, <1>4, <1>10, <1>13, <3>1
  <2>7. io'.clean => /\ io'.h \notin tainted'
                     /\ Right(fd[io.h], io.entry)'
                     /\ io'.out = FileBytes(io.entry, io.from, Len(io.out))'
    <3> SUFFICES ASSUME io'.clean
                 PROVE  /\ io'.h \notin tainted'
                        /\ Right(fd[io.h], io.entry)'
                        /\ io'.out = FileBytes(io.entry, io.from, Len(io.out))'
      OBVIOUS
    <3>1. clean /\ ok
      BY <1>3, <1>4
    <3>2. h \notin tainted' /\ Right(f, e) /\ out2 = FileBytes(e, from, done + t)
      BY <1>14, <3>1
    <3>3. /\ io'.h \notin tainted' /\ Right(fd'[io'.h], io'.entry)
          /\ io'.out = FileBytes(io'.entry, io'.from, Len(io'.out))
      BY <1>3, <1>4, <1>10, <1>15, <3>2
    <3>4. QED
      BY <1>2, <3>3, VolumeKept
  <2>8. QED
    BY <2>1, <2>2, <2>4, <2>5, <2>6, <2>7 DEF Reading, Wanted
<1>19. Delivered'
  <2> SUFFICES ASSUME io'.clean, op' = "idle"
               PROVE  io'.out = FileBytes(io.entry, io.from, Wanted(io))'
    BY <1>3 DEF Delivered
  <2>1. clean /\ ok
    BY <1>3, <1>4
  <2>2. f.Position = size /\ f.Position = p + t /\ t <= n
    BY <1>3, <1>4, <1>5, <1>6, <1>7, <2>1
  <2>3. done + t = wanted
    <3>1. from + done + t = size /\ t <= n
      BY <1>11, <2>2
    <3>2. QED
      BY <1>12, <3>1
  <2>4. out2 = FileBytes(e, from, done + t)
    BY <1>14, <2>1
  <2>5. io'.out = FileBytes(io'.entry, io'.from, Wanted(io'))
    BY <1>3, <1>4, <1>10, <1>13, <2>3, <2>4
  <2>6. QED
    BY <1>2, <2>5, VolumeKept DEF Wanted
<1>20. InCall'
  BY <1>3, <1>18 DEF InCall
<1>21. QED
  BY <1>16, <1>17, <1>19, <1>20 DEF DriverOK

\* FAT_Read returns when it has delivered what it could.
LEMMA ReturnKeeps ==
  ASSUME FatAssumption, VolumeAssumption, DriverOK, ReadReturns
  PROVE  DriverOK'
<1>1. DriverTypes /\ RootOK /\ op = "read" /\ Reading /\ op' = "idle" /\ io.n = 0
  BY DEF DriverOK, InCall, ReadReturns
<1>2. /\ vol' = vol /\ dataSectionLba' = dataSectionLba /\ fd' = fd /\ current' = current
      /\ ret' = ret /\ io' = io /\ failures' = failures /\ tainted' = tainted
  BY DEF ReadReturns
<1>3. DriverTypes'
  BY <1>1, <1>2 DEF DriverTypes
<1>4. RootOK'
  <2>1. FirstDataLba' = FirstDataLba
    BY <1>2, VolumeKept
  <2>2. QED
    BY <1>1, <1>2, <2>1 DEF RootOK, Active
<1>5. Wanted(io) = Len(io.out)
  <2>1. Len(io.out) \in Nat
    <3>1. io.out \in Seq(Int \X Int)
      BY <1>1 DEF Reading, Transfers
    <3>2. QED
      BY <3>1, LenProperties
  <2>2. QED
    BY <1>1, <2>1 DEF Reading
<1>6. io.clean => io.out = FileBytes(io.entry, io.from, Wanted(io))
  BY <1>1, <1>5 DEF Reading
<1>7. io'.clean => io'.out = FileBytes(io.entry, io.from, Wanted(io))'
  <2>1. io'.clean => io'.out = FileBytes(io'.entry, io'.from, Wanted(io'))
    BY <1>2, <1>6
  <2>2. QED
    BY <1>2, <2>1, VolumeKept DEF Wanted
<1>8. InCall' /\ Delivered'
  BY <1>1, <1>7 DEF InCall, Delivered
<1>9. QED
  BY <1>3, <1>4, <1>8 DEF DriverOK

\* Steps of the caller change nothing of the driver.
LEMMA DriverStays ==
  ASSUME DriverOK, UNCHANGED driver
  PROVE  DriverOK'
<1>1. UNCHANGED <<vol, dataSectionLba, fd, op, path, current, name, fatName, target, ret, io,
                  failures, tainted>>
  BY DEF driver, names
<1>2. FirstDataLba' = FirstDataLba /\ Transfers' = Transfers
  BY <1>1, VolumeKept
<1>3. DriverTypes' /\ RootOK'
  BY <1>1, <1>2 DEF DriverOK, DriverTypes, RootOK
<1>4. Delivered'
  <2>1. io.clean /\ op = "idle" => io.out = FileBytes(io.entry, io.from, Wanted(io))
    BY DEF DriverOK, Delivered
  <2>2. io'.clean /\ op' = "idle" => io'.out = FileBytes(io'.entry, io'.from, Wanted(io'))
    BY <1>1, <2>1
  <2>3. io'.clean /\ op' = "idle" => io'.out = FileBytes(io.entry, io.from, Wanted(io))'
    BY <1>1, <2>2, VolumeKept DEF Wanted
  <2>4. QED
    BY <1>1, <2>3 DEF DriverOK, Delivered
<1>5. op = "read" => Reading'
  <2> SUFFICES ASSUME op = "read"
               PROVE  Reading'
    OBVIOUS
  <2>1. Reading
    BY DEF DriverOK, InCall
  <2>2. /\ Tracks(fd'[io'.h], io'.entry)
        /\ io'.clean => /\ Right(fd'[io'.h], io'.entry)
                        /\ io'.out = FileBytes(io'.entry, io'.from, Len(io'.out))
    BY <1>1, <2>1 DEF Reading
  <2>3. /\ Tracks(fd[io.h], io.entry)'
        /\ io'.clean => /\ Right(fd[io.h], io.entry)'
                        /\ io'.out = FileBytes(io.entry, io.from, Len(io.out))'
    BY <1>1, <2>2, VolumeKept
  <2>4. QED
    BY <1>1, <1>2, <2>1, <2>3 DEF Reading, Wanted
<1>6. op = "find" => Searching'
  <2> SUFFICES ASSUME op = "find"
               PROVE  Searching'
    OBVIOUS
  <2>1. Searching
    BY DEF DriverOK, InCall
  <2>2. current # Root => TracksDir(fd'[current'], target')
    BY <1>1, <2>1 DEF Searching
  <2>3. current # Root => TracksDir(fd[current], target)'
    BY <1>1, <2>2, VolumeKept
  <2>4. QED
    BY <1>1, <2>1, <2>3 DEF Searching
<1>7. InCall'
  BY <1>1, <1>5, <1>6 DEF DriverOK, InCall, Found
<1>8. QED
  BY <1>3, <1>4, <1>7 DEF DriverOK

\* Every step of the driver inside a call keeps the driver's invariant.
LEMMA StepKeeps ==
  ASSUME FatAssumption, VolumeAssumption, NameAssumption, DriverOK, DriverStep
  PROVE  DriverOK'
BY InitializeKeeps, FindKeeps, EntryKeeps, LoopKeeps, ReturnKeeps DEF DriverStep

=============================================================================
