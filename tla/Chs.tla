-------------------------------- MODULE Chs --------------------------------
(***************************************************************************)
(* Disk addressing in stage 2: the LBA to cylinder/head/sector conversion  *)
(* of disk.c and the register packing of x86.asm, with the int 13h side of *)
(* the contract (external) that unpacks the same registers.                *)
(*                                                                         *)
(* A geometry is a record [cylinders, heads, sectors]; sectors is the      *)
(* number of sectors per track.  Widths are those of the code: uint16_t    *)
(* for the converted values, bytes for the registers.                      *)
(***************************************************************************)
EXTENDS Integers

Byte == 256
Word == 65536

\* What CH/CL/DH can address.  int 13h/08h reports nothing larger.
Geometry == [cylinders : 1 .. 1024, heads : 1 .. 256, sectors : 1 .. 63]

Total(geom) == geom.cylinders * geom.heads * geom.sectors

-----------------------------------------------------------------------------
\* Faulty variants (each is a slip the real definition could contain).
CylinderHigh_Dropped(cylinder) == 0

DriveCylinders_NoInc(regs) == regs.ch + 256 * (regs.cl \div 64)
-----------------------------------------------------------------------------

\* DISK_LBA2CHS: the three divisions, stored through uint16_t pointers.
DISK_LBA2CHS(geom, lba) ==
  [ cylinder |-> ((lba \div geom.sectors) \div geom.heads) % Word,
    head     |-> ((lba \div geom.sectors) % geom.heads) % Word,
    sector   |-> ((lba % geom.sectors) + 1) % Word ]

\* shl cl, 6 on the high byte of the cylinder: bits 8-9 land in bits 6-7.
CylinderHigh(cylinder) == ((cylinder \div Byte) * 64) % Byte

\* diskRead16: the register file handed to int 13h/02h.
ReadRegisters(drive, chs, count) ==
  [ dl |-> drive,
    ch |-> chs.cylinder % Byte,
    cl |-> CylinderHigh(chs.cylinder) + (chs.sector % 64),
    dh |-> chs.head % Byte,
    al |-> count % Byte ]

\* inc bx after unpacking CH and CL bits 6-7: the BIOS reports the last index.
DriveCylinders(regs) == regs.ch + Byte * (regs.cl \div 64) + 1

\* diskGetDriveParams16: the geometry decoded from the registers of int 13h/08h.
diskGetDriveParams16(regs) ==
  [ cylinders |-> DriveCylinders(regs),
    heads     |-> regs.dh + 1,
    sectors   |-> regs.cl % 64 ]

-----------------------------------------------------------------------------
\* External: the registers int 13h/08h returns for a drive of this geometry.
BiosDriveParams(geom) ==
  [ ch |-> (geom.cylinders - 1) % Byte,
    cl |-> 64 * ((geom.cylinders - 1) \div Byte) + geom.sectors,
    dh |-> geom.heads - 1 ]

\* External: the sector a drive of this geometry transfers first for int 13h/02h.
BiosLba(geom, regs) ==
  ((regs.ch + Byte * (regs.cl \div 64)) * geom.heads + regs.dh) * geom.sectors
    + (regs.cl % 64) - 1
=============================================================================
