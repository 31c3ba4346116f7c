------------------------------- MODULE MCDisk -------------------------------
(***************************************************************************)
(* Disk for TLC: a 1.44 MB floppy and a hard disk of 1024 cylinders, each  *)
(* as drive 0 and as drive 80h, with requests at the edges of tracks and   *)
(* heads and of the 8-bit part of the cylinder number.                     *)
(***************************************************************************)
EXTENDS Disk

Floppy   == [cylinders |-> 80, heads |-> 2, sectors |-> 18]
HardDisk == [cylinders |-> 1024, heads |-> 16, sectors |-> 63]

Edges(g, cylinders) ==
  { (c * g.heads + h) * g.sectors + s :
      c \in cylinders, h \in {0, g.heads - 1}, s \in {0, g.sectors - 1} }

MCGeometries == {Floppy, HardDisk}
MCLbas       == Edges(Floppy, {0, 1, 39, 79}) \cup Edges(HardDisk, {0, 255, 256, 511, 1023})
=============================================================================
