------------------------------- MODULE MCBoot -------------------------------
(***************************************************************************)
(* BootSector for TLC: the BPB of boot.asm, booted from its floppy and     *)
(* from drives of other geometries, with two bytes from the keyboard.      *)
(***************************************************************************)
EXTENDS BootSector

MCGeometries == { [cylinders |-> 80, heads |-> 2, sectors |-> 18],
                  [cylinders |-> 80, heads |-> 2, sectors |-> 9],
                  [cylinders |-> 1024, heads |-> 16, sectors |-> 63] }
=============================================================================
