------------------------------- MODULE MCFat -------------------------------
(***************************************************************************)
(* Volumes for FatClient: 4-byte sectors and 2-byte directory entries, so  *)
(* that a directory sector has two entries and the root three sectors, the *)
(* last one empty.  The root holds aa, an empty file e, the fragmented     *)
(* file ex and the directory dd; dd lies in the first data cluster and     *)
(* holds f.c, in its second cluster when clusters have one sector, at its  *)
(* start when they have two.  Names have two characters and an extension   *)
(* of one: e is the only short one, and with an x behind it is another     *)
(* file's name.                                                            *)
(***************************************************************************)
EXTENDS FatClient, TLC

aa == <<"a", "a">>
ex == <<"e", "x">>
dd == <<"d", "d">>
fc == <<"f", ".", "c">>
e  == <<"e">>

File(component, first, size) == [name |-> ShortName(component), dir |-> FALSE, first |-> first, size |-> size]
Dir(component, first) == [name |-> ShortName(component), dir |-> TRUE,  first |-> first, size |-> 0]

Chains  == 0 :> <<>> @@ 2 :> <<2, 7>> @@ 3 :> <<3, 6, 4>> @@ 5 :> <<5>> @@ 8 :> <<8>>
Entries == [c \in 0 .. 9 |-> CASE c = 2 -> 7 [] c = 3 -> 6 [] c = 6 -> 4
                               [] c \in {4, 5, 7, 8} -> 4095 [] OTHER -> 0]

\* Boot sector, one table sector twice, root at 3 to 5, data from 6.
Volume(spc, signature, sizeOfA, sizeOfK) ==
  [ reserved |-> 1, sectorsPerFat |-> 1, fatCount |-> 2, dirEntryCount |-> 5,
    sectorsPerCluster |-> spc, signature |-> signature,
    bytesPerSector |-> 512, fatSectors |-> 9,
    entries |-> Entries, pairs |-> 5, table |-> Packed(Entries, 5), chains |-> Chains,
    slots |-> 3 :> <<File(aa, 5, sizeOfA), File(e, 0, 0)>>
           @@ 4 :> <<File(ex, 3, sizeOfK), Dir(dd, 2)>>
           @@ 6 :> <<IF spc = 1 THEN NoEntry ELSE File(fc, 8, 2), NoEntry>>
           @@ (IF spc = 1 THEN 11 ELSE 16) :> <<NoEntry, File(fc, 8, 2)>> ]

MCVolumes == {Volume(1, 41, 4, 11), Volume(2, 41, 8, 19), Volume(1, 0, 4, 11)}
MCPaths   == {<<aa>>, <<ex>>, <<dd, fc>>, <<fc>>, <<e>>, <<aa, fc>>}
=============================================================================
