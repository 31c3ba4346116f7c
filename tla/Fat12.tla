------------------------------- MODULE Fat12 -------------------------------
(***************************************************************************)
(* FAT12 arithmetic of fat.c: the 12-bit table entries, and the memory     *)
(* that FAT_Initialize lays out at MEMORY_FAT_ADDR.                        *)
(***************************************************************************)
EXTENDS Integers

Entry12 == 0 .. 4095

-----------------------------------------------------------------------------
(* The table.  fat is a function from byte offsets to bytes. *)

\* A little-endian uint16_t at byte i.
Word16(fat, i) == fat[i] + 256 * fat[i + 1]

\* Faulty variant: an even entry keeps its neighbour's low bits.
FAT_NextCluster_Unmasked(fat, currentCluster) ==
  LET word == Word16(fat, (currentCluster * 3) \div 2)
  IN  IF currentCluster % 2 = 0 THEN word ELSE word \div 16

FAT_NextCluster(fat, currentCluster) ==
  LET word == Word16(fat, (currentCluster * 3) \div 2)
  IN  IF currentCluster % 2 = 0 THEN word % 4096 ELSE word \div 16

\* The test fat.c makes for the last cluster of a chain.
EndOfChain(cluster) == cluster >= 4088

\* External: a FAT12 table of 2 * pairs entries, as mkfs.fat and mcopy write it;
\* entries 2p and 2p+1 share bytes 3p .. 3p+2.
Packed(entries, pairs) ==
  [ b \in 0 .. 3 * pairs - 1 |->
      LET even == entries[2 * (b \div 3)]
          odd  == entries[2 * (b \div 3) + 1]
      IN  CASE b % 3 = 0 -> even % 256
            [] b % 3 = 1 -> (even \div 256) + 16 * (odd % 16)
            [] b % 3 = 2 -> odd \div 16 ]

-----------------------------------------------------------------------------
(* The memory. *)

MEMORY_FAT_ADDR    == 131072    \* 0x20000
MEMORY_FAT_SIZE    == 65536
MEMORY_LOAD_KERNEL == 196608    \* 0x30000
SectorBytes        == 512

\* sizeof(FAT_FileData): buffer, FAT_File (16), padded bool and three words.
SizeofFileData == SectorBytes + 16 + 4 + 12

\* sizeof(FAT_Data): boot sector, root directory and ten handles.
SizeofFatData == SectorBytes + SizeofFileData + 10 * SizeofFileData

\* The guard FAT_Initialize passes before it reads the table.
FatFits(bytesPerSector, sectorsPerFat) ==
  SizeofFatData + bytesPerSector * sectorsPerFat < MEMORY_FAT_SIZE
=============================================================================
