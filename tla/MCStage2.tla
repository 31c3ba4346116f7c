------------------------------ MODULE MCStage2 ------------------------------
(***************************************************************************)
(* Volumes for Stage2: 4-byte sectors, clusters of one and two sectors,    *)
(* and a fragmented kernel of every size up to two load buffers and more.  *)
(* A BIOS lists up to four blocks for an array of two, its CR0 with the    *)
(* caches on or off.                                                       *)
(***************************************************************************)
EXTENDS Stage2, TLC

\* kernel.bin occupies the first clusters of this list, in this order.
Scattered == <<4, 3, 7, 5, 9, 2, 8, 11, 6, 10, 12>>

Clusters(size, bytes) == (size + bytes - 1) \div bytes

Entries(n) ==
  [c \in 0 .. 13 |->
     IF \E k \in 1 .. n : Scattered[k] = c
     THEN LET k == CHOOSE j \in 1 .. n : Scattered[j] = c
          IN  IF k = n THEN 4095 ELSE Scattered[k + 1]
     ELSE 0]

kernel == <<"k", "e", ".", "b">>
other  == <<"k", "e", ".", "d">>

Volume(spc, size, component, fatSectors) ==
  LET n == Clusters(size, spc * SECTOR_SIZE)
  IN  [ reserved |-> 1, sectorsPerFat |-> 1, fatCount |-> 2, dirEntryCount |-> 3,
        sectorsPerCluster |-> spc, signature |-> 41,
        bytesPerSector |-> 512, fatSectors |-> fatSectors,
        entries |-> Entries(n), pairs |-> 7, table |-> Packed(Entries(n), 7),
        chains |-> 4 :> SubSeq(Scattered, 1, n),
        slots |-> 3 :> <<NoEntry, NoEntry>>
               @@ 4 :> <<[name |-> ShortName(component), dir |-> FALSE, first |-> 4, size |-> size],
                         NoEntry>> ]

MCVolumes == {Volume(1, s, kernel, 9) : s \in 1 .. 40}
       \cup {Volume(2, s, kernel, 9) : s \in 1 .. 40}
       \cup {Volume(1, 9, other, 9), Volume(1, 9, kernel, 200)}
MCKernel  == <<kernel>>

MCUpperCr0 == {0, 24576}
=============================================================================
