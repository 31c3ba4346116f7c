------------------------------ MODULE MCKernel ------------------------------
(***************************************************************************)
(* Kernel for TLC.  The masks are those a PC BIOS leaves (timer, keyboard  *)
(* and RTC open, the two chips' masks different).  Bytes: A down and up;   *)
(* or A down, the right shift key down and the left one up, which is an    *)
(* event of its own when the left one was down before the kernel started.  *)
(***************************************************************************)
EXTENDS Kernel

\* Words of 4 bits; the stubs lie in the upper quarter of the addresses.
MCStubAddress == [v \in (0 .. 47) \cup {127, 128} |-> 49152 + (97 * v)]

MCMasterMasks == {184}
MCSlaveMasks  == {142}
MCLetter      == {30, 158}
MCShifts      == {30, 54, 170}
=============================================================================
